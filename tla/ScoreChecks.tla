----------------------------- MODULE ScoreChecks -----------------------------
(***************************************************************************)
(* The AI harnesses: deterministic metrics that stand where a model would  *)
(* judge, and properties an agent infers and Hypothesis tries; their       *)
(* planted bugs and their self-tests.                                      *)
(*                                                                         *)
(* Every metric is a share with threshold 1.0, so that it is a success when *)
(* nothing fails.  A score of no items is 1.0 for the claims of an answer   *)
(* and 0.0 for the chunks of a retrieval.                                   *)
(***************************************************************************)
EXTENDS SelfTests

------------------------------------------------------------------------------
(* judge_reliability: a judge is polled RUNS times; the run index lets a flaky
   one waver.  A neutered oracle_judge returns no verdict, and measure raises. *)

RUNS == 15
Verdict(label, long, inSource) == [label |-> label, long |-> long, inSource |-> inSource]
Judge(judge, run) ==
  CASE judge = "oracle"   -> Verdict("supported", TRUE, TRUE)
    [] judge = "unstable" -> Verdict(IF run % 2 = 0 THEN "supported" ELSE "unsupported", TRUE, TRUE)
    [] judge = "blind"    -> Verdict("supported", TRUE, FALSE)
cites_verbatim_span(v) == v.long /\ v.inSource
Stable(judge) == Cardinality({Judge(judge, run).label : run \in 0..(RUNS - 1)}) = 1
SpansVerbatim(judge) == \A run \in 0..(RUNS - 1) : cites_verbatim_span(Judge(judge, run))
judge_is_reliable(judge) == Stable(judge) /\ SpansVerbatim(judge)
\* Each planted bug is caught by the pillar it breaks.
judge_reliability(lies) ==
  <<judge_is_reliable("oracle") /\ "oracle_judge" \notin lies,
    ~judge_is_reliable("unstable") /\ ~Stable("unstable"),
    ~judge_is_reliable("blind") /\ ~SpansVerbatim("blind")>>

------------------------------------------------------------------------------
(* geval_rubric: confidence in hundredths. *)

Graded(verdict, confidence) == [verdict |-> verdict, confidence |-> confidence]
EVALUATION_STEPS(output) ==
  <<output # {},
    \A o \in output : {"verdict", "confidence"} \subseteq DOMAIN o,
    \A o \in output : o.verdict \in {"pass", "fail"},
    \A o \in output : o.confidence \in 0..100>>
output_satisfies_rubric(output) ==
  LET steps == EVALUATION_STEPS(output) IN \A i \in DOMAIN steps : steps[i]
geval_rubric(lies) ==
  LET Satisfies(output) == Says("output_satisfies_rubric", lies, output_satisfies_rubric(output))
  IN  <<Satisfies({Graded("pass", 92)}), ~Satisfies({Graded("pass", 170)})>>

------------------------------------------------------------------------------
(* rag_faithfulness, llm_eval *)

KEY_TERMS == {"eiffel", "tower", "completed", "1889"}
Retrieve(class) ==
  IF Oracle(class) THEN {{"the", "eiffel", "tower", "was", "completed", "in", "1889"}}
  ELSE {{"the", "louvre", "is", "a", "museum."}, {"paris", "is", "the", "capital"}}
ContextPrecise(chunks) == chunks # {} /\ \A c \in chunks : c \cap KEY_TERMS # {}
rag_faithfulness(lies) ==
  LET Precise(class) == Says("retrieval_is_precise", lies, ContextPrecise(Retrieve(class)))
  IN  <<Precise("oracle"), ~Precise("buggy")>>

CONTEXT == {"in paris", "completed in 1889"}
ContextFaithful(claims) == \A claim \in claims : claim \in CONTEXT
llm_eval(lies) ==
  LET Faithful(claims) == Says("answer_is_faithful", lies, ContextFaithful(claims))
  IN  <<Faithful({"in paris"}), ~Faithful({"in berlin"})>>

------------------------------------------------------------------------------
(* metamorphic_stability: one to four operations that keep the words of the
   question.  A text is its length and how it ends; the bad ones are reported,
   and none is what a neutered check cannot report. *)

BASE_QUESTION == [len |-> 30, tail |-> "?"]
OPS == {"upper", "lower", "title", "pad", "trailing_space", "strip_qmark"}
Perturb(q, op) ==
  CASE op \in {"upper", "lower", "title"} -> q
    [] op = "pad"            -> [len |-> q.len + 4, tail |-> " "]
    [] op = "trailing_space" -> [len |-> q.len + 1, tail |-> " "]
    [] op = "strip_qmark"    -> IF q.tail = "?" THEN [len |-> q.len - 1, tail |-> "word"] ELSE q
Perturbed(ops) ==
  LET After[n \in 0..Len(ops)] == IF n = 0 THEN BASE_QUESTION ELSE Perturb(After[n - 1], ops[n])
  IN  After[Len(ops)]
Respond(class, q) == IF Oracle(class) \/ q.len % 2 = 0 THEN "Paris" ELSE "Lyon"
unstable_under_perturbation(class) ==
  {ops \in UNION {[1..n -> OPS] : n \in 1..4} : Respond(class, Perturbed(ops)) # Respond(class, BASE_QUESTION)}
metamorphic_stability(lies) ==
  LET Unstable(class) == unstable_under_perturbation(class) # {} \/ "unstable_under_perturbation" \in lies
  IN  <<~Unstable("oracle"), Unstable("buggy")>>

------------------------------------------------------------------------------
(* agentic_pbt: texts of at most two pieces stand for those Hypothesis draws. *)

PREFIX == "ID_"
PieceTexts == UNION {[1..n -> {PREFIX, "x"}] : n \in 0..2}
EnsurePrefix(class, s) ==
  IF Oracle(class) /\ s # <<>> /\ Head(s) = PREFIX THEN s ELSE <<PREFIX>> \o s
agentic_pbt(lies) ==
  LET Fn(class, s) == EnsurePrefix(class, s) \o
                      (IF Oracle(class) /\ "ensure_prefix" \in lies THEN <<"_MUT">> ELSE <<>>)
      Falsified(class) == \E s \in PieceTexts : \/ Head(Fn(class, s)) # PREFIX
                                           \/ Fn(class, Fn(class, s)) # Fn(class, s)
  IN  <<~Falsified("oracle"), Falsified("buggy")>>
==============================================================================

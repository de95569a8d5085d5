---------------------------- MODULE VacuityGate ----------------------------
(***************************************************************************)
(* tools/vacuity_gate.py: the meta-gate that replaces a harness's declared *)
(* oracles, one at a time, by wrappers returning a wrong value and expects *)
(* the harness's self-test to go red.                                      *)
(*                                                                         *)
(* The gate is one process; every self-test runs in a worker subprocess    *)
(* that neuters its targets and then runs, and that the gate abandons      *)
(* after 120 s.  A self-test is the set of assertions it makes; an         *)
(* assertion calls one symbol of the module and accepts some values.       *)
(*                                                                         *)
(* Covered: _mutate, _neuter, _worker, _run_worker, _classify, _discover,  *)
(* run_gate.  Not covered: printing, the path checks of _load, oracles     *)
(* that raise, method and async wrappers (they return what _mutate does).  *)
(***************************************************************************)
EXTENDS Integers, Sequences

CONSTANTS
  Harnesses,   \* module references
  Rosters,     \* what _discover may find: the harnesses of a tree, in order
  Symbols,     \* names a target may have
  Targets,     \* VACUITY_TARGETS of each harness; <<>> when it declares none
  Defined,     \* the symbols each module really defines
  Asserts,     \* the assertions of each self-test
  Hangs        \* <<harness, symbols>>: neutered so, the self-test never ends

Values == [type : {"bool", "int", "float", "text", "collection", "custom"}, v : Int]

ASSUME VacuityAssumption ==
  /\ Rosters \subseteq Seq(Harnesses)
  /\ Targets \in [Harnesses -> Seq(Symbols)]
  /\ Defined \in [Harnesses -> SUBSET Symbols]
  /\ Asserts \in [Harnesses -> SUBSET [symbol : Symbols, value : Values, accepts : SUBSET Values]]
  /\ Hangs \subseteq Harnesses \X SUBSET Symbols

VARIABLES
  roster,    \* the harnesses of this tree
  phase,     \* "discover" | "next" | "control" | "target" | "done"
  idx, tix,  \* position in roster, in the targets of roster[idx]
  worker,    \* "idle" | "neuter" | "selftest" | "ended"
  neutered,  \* the --targets of the worker
  code,      \* its exit code
  teeth, vacuous, errors, unmapped,   \* run_gate's four lists
  exit,      \* the gate's exit code, or "running", or "traceback"
  late       \* history: harnesses of which a worker timed out

lists  == <<teeth, vacuous, errors, unmapped>>
vars   == <<roster, phase, idx, tix, worker, neutered, code, lists, exit, late>>

Status == {"TEETH", "VACUOUS", "ERROR"}
Current == roster[idx]

------------------------------------------------------------------------------
(* _mutate: a value of the same type that differs.  Text is its length, a
   collection its size; Huge stands for a float that absorbs + 1.0 (2^53 and
   above, infinity). *)

Huge == 9
Sentinel == [type |-> "custom", v |-> 0]

MutateKeeps(x) == x
Mutate(x) ==
  CASE x.type = "bool"       -> [x EXCEPT !.v = 1 - @]
    [] x.type = "int"        -> [x EXCEPT !.v = @ + 1]
    [] x.type = "float"      -> [x EXCEPT !.v = IF @ = Huge THEN Huge ELSE @ + 1]
    [] x.type = "text"       -> [x EXCEPT !.v = @ + 1]
    [] x.type = "collection" -> [x EXCEPT !.v = IF @ > 0 THEN 0 ELSE 1]
    [] OTHER                 -> Sentinel

Holds(a, symbols) == (IF a.symbol \in symbols THEN Mutate(a.value) ELSE a.value) \in a.accepts

\* run_self_test() of h with these symbols neutered finds nothing wrong.
Green(h, symbols) == \A a \in Asserts[h] : Holds(a, symbols)

------------------------------------------------------------------------------
(* The worker subprocess *)

Spawn(symbols) ==
  /\ worker' = "neuter" /\ neutered' = symbols
  /\ UNCHANGED code

Exit(c) == worker' = "ended" /\ code' = c

\* getattr raises AttributeError on a name the module does not define.
WorkerNeuter ==
  /\ worker = "neuter"
  /\ IF neutered \subseteq Defined[Current]
       THEN worker' = "selftest" /\ UNCHANGED code
       ELSE Exit(1)
  /\ UNCHANGED <<roster, phase, idx, tix, neutered, lists, exit, late>>

\* A green self-test returns 0 or falls off its end; a red one returns 1 or
\* raises.
NoneIsRed(result) == IF result = "None" THEN 1 ELSE IF result = "green" THEN 0 ELSE 1
ExitCode(result) == IF result \in {"None", "green"} THEN 0 ELSE 1

WorkerSelfTest ==
  /\ worker = "selftest"
  /\ <<Current, neutered>> \notin Hangs
  /\ \E result \in {"None", "green", "red"} :
       /\ result = "red" <=> ~Green(Current, neutered)
       /\ Exit(ExitCode(result))
  /\ UNCHANGED <<roster, phase, idx, tix, neutered, lists, exit, late>>

\* subprocess.run kills the worker after 120 s, wherever it is.
Never == FALSE
TimeoutFires == worker \in {"neuter", "selftest"}

WorkerTimeout ==
  /\ TimeoutFires
  /\ Exit(124)
  /\ late' = late \cup {Current}
  /\ UNCHANGED <<roster, phase, idx, tix, neutered, lists, exit>>

Worker == WorkerNeuter \/ WorkerSelfTest \/ WorkerTimeout

------------------------------------------------------------------------------
(* The gate *)

\* _discover imports every harness in the gate's own process first.
Discover ==
  /\ phase = "discover"
  /\ \/ phase' = "next" /\ UNCHANGED exit
     \/ phase' = "done" /\ exit' = "traceback"
  /\ UNCHANGED <<roster, idx, tix, worker, neutered, code, lists, late>>

TakeUnmapped ==
  /\ phase = "next" /\ idx <= Len(roster)
  /\ Targets[Current] = <<>>
  /\ unmapped' = unmapped \cup {Current}
  /\ idx' = idx + 1
  /\ UNCHANGED <<roster, phase, tix, worker, neutered, code, teeth, vacuous, errors, exit, late>>

\* _classify: first the untouched self-test, which must be green ...
TakeMapped ==
  /\ phase = "next" /\ idx <= Len(roster)
  /\ Targets[Current] # <<>>
  /\ phase' = "control"
  /\ Spawn({})
  /\ UNCHANGED <<roster, idx, tix, lists, exit, late>>

Classified(status) ==
  /\ teeth'   = IF status = "TEETH"   THEN teeth \cup {Current}   ELSE teeth
  /\ vacuous' = IF status = "VACUOUS" THEN vacuous \cup {Current} ELSE vacuous
  /\ errors'  = IF status = "ERROR"   THEN errors \cup {Current}  ELSE errors
  /\ phase' = "next" /\ idx' = idx + 1
  /\ worker' = "idle" /\ UNCHANGED <<tix, neutered, code>>

\* ... then each target is neutered on its own.
NeuterAll(i) == {Targets[Current][j] : j \in 1..Len(Targets[Current])}
NeuterOne(i) == {Targets[Current][i]}

ControlRan ==
  /\ phase = "control" /\ worker = "ended"
  /\ \/ code # 0 /\ Classified("ERROR")
     \/ /\ code = 0
        /\ phase' = "target" /\ tix' = 1
        /\ Spawn(NeuterOne(1))
        /\ UNCHANGED <<idx, teeth, vacuous, errors>>
  /\ UNCHANGED <<roster, unmapped, exit, late>>

TargetRan ==
  /\ phase = "target" /\ worker = "ended"
  /\ \/ code = 0 /\ Classified("VACUOUS")
     \/ code # 0 /\ tix = Len(Targets[Current]) /\ Classified("TEETH")
     \/ /\ code # 0 /\ tix < Len(Targets[Current])
        /\ tix' = tix + 1
        /\ Spawn(NeuterOne(tix + 1))
        /\ UNCHANGED <<phase, idx, teeth, vacuous, errors>>
  /\ UNCHANGED <<roster, unmapped, exit, late>>

FailsOnVacuousOnly == vacuous # {}
Fails == vacuous # {} \/ errors # {}

Report ==
  /\ phase = "next" /\ idx > Len(roster)
  /\ phase' = "done"
  /\ exit' = IF Fails THEN "1" ELSE "0"
  /\ UNCHANGED <<roster, idx, tix, worker, neutered, code, lists, late>>

Gate == Discover \/ TakeUnmapped \/ TakeMapped \/ ControlRan \/ TargetRan \/ Report

Init ==
  /\ roster \in Rosters
  /\ phase = "discover" /\ idx = 1 /\ tix = 0
  /\ worker = "idle" /\ neutered = {} /\ code = 0
  /\ teeth = {} /\ vacuous = {} /\ errors = {} /\ unmapped = {}
  /\ exit = "running" /\ late = {}

Next == Gate \/ Worker

Spec == Init /\ [][Next]_vars

\* The gate waits for nothing but its worker, and the operating system's clock
\* ends a worker that does not end by itself.
FairSpec == Spec /\ WF_vars(Gate) /\ WF_vars(Worker)
------------------------------------------------------------------------------
(* Properties *)

TargetsOf(h) == {Targets[h][i] : i \in 1..Len(Targets[h])}

TypeOK ==
  /\ roster \in Rosters
  /\ phase \in {"discover", "next", "control", "target", "done"}
  /\ idx \in 1..(Len(roster) + 1) /\ tix \in Nat
  /\ worker \in {"idle", "neuter", "selftest", "ended"}
  /\ neutered \in SUBSET Symbols /\ code \in {0, 1, 124}
  /\ teeth \cup vacuous \cup errors \cup unmapped \cup late \subseteq Harnesses
  /\ exit \in {"running", "0", "1", "traceback"}

\* "a strong target cannot mask another vacuous one" (vacuity_gate.py:155-156):
\* TEETH means that the untouched self-test is green and that EACH target alone
\* turns it red.  Two provisos, both the code's: a worker that timed out counts
\* as red (line 141), and so does one that could not neuter its target.
TeethAreReal ==
  \A h \in teeth \ late : TargetsOf(h) \subseteq Defined[h] =>
    /\ Green(h, {})
    /\ \A t \in TargetsOf(h) : ~Green(h, {t})

\* A symbol whose value some assertion pins down to the one right value.  Two
\* values have no wrong twin: a float that absorbs + 1.0, and the sentinel itself.
Twinless == {[type |-> "float", v |-> Huge], Sentinel}
Pinned(h, t) ==
  \E a \in Asserts[h] : a.symbol = t /\ a.accepts = {a.value} /\ a.value \notin Twinless

\* "a self-test that genuinely asserts the oracle's output fails at its
\* ASSERTION" (lines 8-10): no harness that does so for every target is ever
\* called VACUOUS, timeouts or not.
PinnedNeverVacuous ==
  \A h \in vacuous : Green(h, {}) /\ \E t \in TargetsOf(h) : ~Pinned(h, t)

\* "ERROR control self-test is already red" (line 21): a green control that
\* returns None is not an error (lines 127-129).
ErrorsAreReal == \A h \in errors \ late : ~Green(h, {})

\* The gate exits 0 exactly when every mapped harness of the tree read TEETH and
\* nothing else (lines 193-197); no harness is dropped on the way, and those with
\* no target are advisory, so that a tree of nothing else is clean.
ExitIsTheSum ==
  exit \in {"0", "1"} =>
    /\ \A i \in 1..Len(roster) : Targets[roster[i]] = <<>> => roster[i] \in unmapped
    /\ exit = "0" <=> \A i \in 1..Len(roster) :
                        Targets[roster[i]] # <<>> => roster[i] \in teeth \ (vacuous \cup errors)

\* "never an infinite gate hang" (line 141), with self-tests that never end.
GateEnds == <>(phase = "done")

\* "TEETH control self-test is green AND the neutered self-test is red"
\* (line 19), for every self-test that ended by itself.
TeethMeansRed == \A h \in teeth \ late : \A t \in TargetsOf(h) : ~Green(h, {t})
------------------------------------------------------------------------------
(* The inductive invariant behind them *)

\* Why a worker ended red.
RedFor(h, symbols) == h \in late \/ ~(symbols \subseteq Defined[h]) \/ ~Green(h, symbols)

WorkerKnows ==
  phase \in {"control", "target"} =>
    /\ idx \in 1..Len(roster) /\ Targets[Current] # <<>>
    /\ worker # "idle"
    /\ worker = "selftest" => neutered \subseteq Defined[Current]
    /\ worker = "ended" /\ code = 0 => Green(Current, neutered)
    /\ worker = "ended" /\ code # 0 => RedFor(Current, neutered)

ClassifyKnows ==
  /\ phase = "control" => neutered = {}
  /\ phase = "target" =>
       /\ tix \in 1..Len(Targets[Current])
       /\ neutered = {Targets[Current][tix]}
       /\ Green(Current, {})
       /\ \A j \in 1..(tix - 1) : RedFor(Current, {Targets[Current][j]})
  /\ phase \in {"discover", "next", "done"} => worker = "idle"

ListsReal ==
  /\ \A h \in teeth : Green(h, {}) /\ \A t \in TargetsOf(h) : RedFor(h, {t})
  /\ \A h \in vacuous : Green(h, {}) /\ \E t \in TargetsOf(h) : Green(h, {t})
  /\ \A h \in errors : RedFor(h, {})

ListsCover ==
  /\ \A i \in 1..(idx - 1) :
       roster[i] \in IF Targets[roster[i]] = <<>> THEN unmapped ELSE teeth \cup vacuous \cup errors
  /\ \A h \in vacuous \cup errors : \E i \in 1..Len(roster) : roster[i] = h /\ Targets[h] # <<>>
  /\ exit = "0" => idx = Len(roster) + 1 /\ vacuous = {} /\ errors = {}
  /\ exit = "1" => idx = Len(roster) + 1 /\ vacuous \cup errors # {}
  /\ phase # "done" => exit = "running"

VacuityInv == TypeOK /\ WorkerKnows /\ ClassifyKnows /\ ListsReal /\ ListsCover
==============================================================================

--------------------------- MODULE PolicyHarnesses ---------------------------
(***************************************************************************)
(* The oracles of some policy harnesses asked more than their self-tests   *)
(* ask them: any sequence of registrations, any prompt, any candidates, any *)
(* text.  Every answer is set against what says its oracle is for, and      *)
(* what the oracle goes by (a fold, a pattern) is kept apart from what it   *)
(* stands for (the look of a name, bytes that change).  Names are the       *)
(* module's own, so that one that extends another state machine can extend  *)
(* this one too.                                                           *)
(***************************************************************************)
EXTENDS AccessPolicies, IntegrityChecks, ContractChecks

CONSTANTS
  Emails,     \* addresses: as written, as _canon folds them, as they look
  Versions,   \* of packages
  MaxBlocks,  \* bound: blocks of a prompt
  MaxLetters  \* bound: letters of a text

ASSUME PolicyAssumption == Versions \subseteq Int /\ MaxBlocks \in Nat /\ MaxLetters \in Nat
\* _canon is a function of what is written, and so is the look of it.
ASSUME EmailAssumption == \A a, b \in Emails : a.written = b.written => a = b

VARIABLES
  policy,    \* the harness that is asked, or "none"
  taken,     \* _seen of the registry
  accounts,  \* history: the addresses it registered
  verdict    \* history: the last answer, the one that was due, and whether the input has
             \* what the oracle's fold or pattern takes for something else than it is

policyVars == <<policy, taken, accounts, verdict>>

Answered(name, got, due, mistaken) ==
  /\ policy = name
  /\ verdict' = [got |-> got, due |-> due, mistaken |-> mistaken]
  /\ UNCHANGED policy
Asked(name, got, due, mistaken) == Answered(name, got, due, mistaken) /\ UNCHANGED <<taken, accounts>>

------------------------------------------------------------------------------
\* register: due when no account looks like it.  The fold is not a full table of
\* look-alikes (known_limits): two may look alike and fold apart, or fold together
\* and look apart.
Register(email) ==
  LET ok == Free("oracle", taken, email)
      Alike(a)  == a.looks = email.looks
      Folded(a) == a.canon = email.canon
  IN  /\ Answered("unicode_account_confusion", ok, ~\E a \in accounts : Alike(a),
                  \E a \in accounts : IF ok THEN Alike(a) /\ ~Folded(a) ELSE Folded(a) /\ ~Alike(a))
      /\ taken' = IF ok THEN taken \cup {Key("oracle", email)} ELSE taken
      /\ accounts' = IF ok THEN accounts \cup {email} ELSE accounts

\* A prompt is assembled twice, and the provider's cache hits if what it caches comes
\* out the same.  What changes need not match _VOLATILE_RE, nor what matches change.
Prompts ==
  UNION {[1..n -> [matches : BOOLEAN, changes : BOOLEAN, cache_control : BOOLEAN]] : n \in 1..MaxBlocks}
Rendered(blocks, time) ==
  LET last == CHOOSE n \in 0..Len(blocks) :
                /\ n > 0 => blocks[n].cache_control
                /\ \A i \in DOMAIN blocks : blocks[i].cache_control => i <= n
  IN  [i \in 1..last |-> IF blocks[i].changes THEN <<i, time>> ELSE <<i>>]
CheckPrefix(blocks) ==
  LET ok == prefix_is_stable(blocks) IN
  Asked("prompt_cache_prefix", ok, Rendered(blocks, 1) = Rendered(blocks, 2),
        \E i \in DOMAIN Rendered(blocks, 1) :
          IF ok THEN blocks[i].changes /\ ~blocks[i].matches ELSE blocks[i].matches /\ ~blocks[i].changes)

\* resolve: an internal name never comes from elsewhere, and comes from the
\* newest there is.
Candidates == [version : Versions, source : {"internal", "public"}]
ResolvePackage(name, candidates) ==
  LET own  == {c \in candidates : c.source = "internal"}
      pool == IF name = "internal-lib" THEN own ELSE candidates
      Newest(c) == ~\E other \in pool : other.version > c.version
  IN  Asked("dependency_confusion", Chosen("oracle", name, candidates), {c \in pool : Newest(c)}, FALSE)

\* rle_encode, rle_decode: a round trip is the identity.
LongTexts == UNION {[1..n -> Letters] : n \in 0..MaxLetters}
RoundTrip(text) == Asked("property_roundtrip", Decoded("oracle", rle_encode(text)), text, FALSE)

PolicyUnused == taken = {} /\ accounts = {} /\ verdict = [got |-> TRUE, due |-> TRUE, mistaken |-> FALSE]
PolicyInit == PolicyUnused /\ policy \in {"unicode_account_confusion", "prompt_cache_prefix", "dependency_confusion",
                                        "property_roundtrip"}

PolicyNext ==
  \/ \E e \in Emails : Register(e)
  \/ \E blocks \in Prompts : CheckPrefix(blocks)
  \/ \E name \in {"internal-lib", "other"}, cs \in SUBSET Candidates : ResolvePackage(name, cs)
  \/ \E text \in LongTexts : RoundTrip(text)

PolicySpec == PolicyInit /\ [][PolicyNext]_policyVars
------------------------------------------------------------------------------
(* Properties *)

\* Each of these oracles answers as it should, after any calls and on every input,
\* not only on the one or two its self-test tries, but where its fold or its pattern
\* is mistaken (unicode_account_confusion:48, prompt_cache_prefix:44-49): a false yes
\* needs a look-alike that folds apart, or a change that does not match; a false no, a
\* different name that folds together, or a match that never changes.
PoliciesMeetTheirPurpose == verdict.got # verdict.due => verdict.mistaken
==============================================================================

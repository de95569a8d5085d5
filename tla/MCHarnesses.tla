----------------------------- MODULE MCHarnesses -----------------------------
(***************************************************************************)
(* The harnesses on small instances, one component per behaviour: a         *)
(* credential verifier, a resilience harness, an integration session, a     *)
(* policy oracle or a lane of self-tests.  The others stay idle.            *)
(***************************************************************************)
EXTENDS CredentialHarnesses, ResilienceHarnesses, StoreHarnesses, PolicyHarnesses, HarnessLane

\* Steps 0 and 2 have the same code, steps 0 and 1 do not.
MCCode(s) == IF s = 2 THEN 0 ELSE s % 2
\* An identifier of two pieces stands for one with a separator in it.
MCIds    == {<<1>>, <<2, 1>>}
MCWhos   == {<<1>>, <<1, 2>>}
\* Two that fold and look alike, one that looks like them and does not fold to them,
\* and one that folds to a name it does not look like.
Email(w, c, l) == [written |-> w, canon |-> c, looks |-> l]
MCEmails == {Email("w1", "c1", "l1"), Email("w2", "c1", "l1"), Email("w3", "c2", "l1"), Email("w4", "c2", "l2")}

CredIdle ==
  /\ kind = "none" /\ clock = 1 /\ seen = {} /\ codes = <<>> /\ held = {}
  /\ granted = [g \in Grants |-> 0] /\ uses = [g \in Grants |-> 0]
  /\ last = [ok |-> FALSE, fit |-> FALSE, clear |-> TRUE]
ResIdle   == Unused /\ subject = "none"
StoreIdle == StoreUnused /\ service = "none"
PolIdle   == PolicyUnused /\ policy = "none"

MCInit ==
  \/ Init     /\ ResIdle        /\ StoreIdle  /\ LaneUnused /\ PolIdle
  \/ CredIdle /\ ResilienceInit /\ StoreIdle  /\ LaneUnused /\ PolIdle
  \/ CredIdle /\ ResIdle        /\ StoreInit  /\ LaneUnused /\ PolIdle
  \/ CredIdle /\ ResIdle        /\ StoreIdle  /\ LaneInit   /\ PolIdle
  \/ CredIdle /\ ResIdle        /\ StoreIdle  /\ LaneUnused /\ PolicyInit

MCNext ==
  \/ kind # "none"    /\ Next           /\ UNCHANGED <<resilienceVars, storeVars, laneVars, policyVars>>
  \/ subject # "none" /\ ResilienceNext /\ UNCHANGED <<vars, storeVars, laneVars, policyVars>>
  \/ service # "none" /\ StoreNext      /\ UNCHANGED <<vars, resilienceVars, laneVars, policyVars>>
  \/ lane # 0         /\ LaneNext       /\ UNCHANGED <<vars, resilienceVars, storeVars, policyVars>>
  \/ policy # "none"  /\ PolicyNext     /\ UNCHANGED <<vars, resilienceVars, storeVars, laneVars>>

MCSpec == MCInit /\ [][MCNext]_<<vars, resilienceVars, storeVars, laneVars, policyVars>>
==============================================================================

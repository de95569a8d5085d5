------------------------- MODULE VacuityGateProofs -------------------------
(***************************************************************************)
(* Theorems about VacuityGate, for every roster, every set of declared     *)
(* targets and every self-test.                                            *)
(***************************************************************************)
EXTENDS VacuityGate, TLAPS

LEMMA TargetFacts ==
  ASSUME NEW h \in Harnesses
  PROVE  /\ Targets[h] \in Seq(Symbols) /\ Len(Targets[h]) \in Nat
         /\ Targets[h] # <<>> => Len(Targets[h]) >= 1
         /\ \A i \in 1..Len(Targets[h]) : Targets[h][i] \in Symbols
  BY VacuityAssumption

LEMMA RosterFacts ==
  ASSUME roster \in Rosters
  PROVE
  /\ Len(roster) \in Nat
  /\ \A i \in 1..Len(roster) : roster[i] \in Harnesses
  BY VacuityAssumption

\* Timeouts only add reasons: what was red stays explained.
LEMMA RedStays ==
  ASSUME late \subseteq late', NEW h, NEW symbols, RedFor(h, symbols)
  PROVE  RedFor(h, symbols)'
  BY DEF RedFor, Green, Holds

\* The lists stay justified while they and the history only keep what they had.
LEMMA ListsStay ==
  ASSUME ListsReal, UNCHANGED <<teeth, vacuous, errors>>, late \subseteq late'
  PROVE  ListsReal'
<1>1. \A h \in teeth : \A t \in TargetsOf(h) : RedFor(h, {t})'
  BY RedStays DEF ListsReal
<1>2. \A h \in errors : RedFor(h, {})'
  BY RedStays DEF ListsReal
<1> QED
  BY <1>1, <1>2 DEF ListsReal, TargetsOf, Green, Holds

\* A worker step leaves the gate's position and lists alone, and what it ends
\* with is explained.
LEMMA WorkerStep ==
  ASSUME VacuityInv, Worker
  PROVE  VacuityInv'
<1>1. /\ UNCHANGED <<roster, phase, idx, tix, neutered, lists, exit>>
      /\ late \subseteq late'
      /\ worker # "idle" /\ worker' # "idle"
  BY DEF Worker, WorkerNeuter, WorkerSelfTest, WorkerTimeout, Exit, TimeoutFires
<1>2. phase \in {"control", "target"} /\ idx \in 1..Len(roster) /\ Current \in Harnesses
  BY <1>1, RosterFacts DEF VacuityInv, TypeOK, WorkerKnows, ClassifyKnows, Current
<1>3. Current' = Current /\ Green(Current, neutered)' = Green(Current, neutered)
  BY <1>1 DEF Current, Green, Holds
<1>4. \A h, symbols : RedFor(h, symbols) => RedFor(h, symbols)'
  BY <1>1, RedStays
<1>5. TypeOK'
  BY <1>1, <1>2 DEF VacuityInv, TypeOK, Worker, WorkerNeuter, WorkerSelfTest, WorkerTimeout,
     Exit, ExitCode, lists
<1>6. WorkerKnows'
  <2>1. CASE WorkerNeuter
    BY <2>1, <1>1, <1>2, <1>3 DEF VacuityInv, WorkerKnows, WorkerNeuter, Exit, RedFor, Current
  <2>2. CASE WorkerSelfTest
    BY <2>2, <1>1, <1>2, <1>3 DEF VacuityInv, WorkerKnows, WorkerSelfTest, Exit, ExitCode,
       RedFor, Current
  <2>3. CASE WorkerTimeout
    BY <2>3, <1>1, <1>2, <1>3 DEF VacuityInv, WorkerKnows, WorkerTimeout, Exit, RedFor, Current
  <2> QED
    BY <2>1, <2>2, <2>3 DEF Worker
<1>7. ClassifyKnows'
  BY <1>1, <1>2, <1>3, <1>4 DEF VacuityInv, ClassifyKnows, Green, Holds, Current
<1>8. ListsReal' /\ ListsCover'
  BY <1>1, ListsStay DEF VacuityInv, ListsCover, lists
<1> QED
  BY <1>5, <1>6, <1>7, <1>8 DEF VacuityInv

\* A classified harness enters exactly one list, for the reason the list gives.
LEMMA Classification ==
  ASSUME VacuityInv, NEW status \in Status, Classified(status),
         phase \in {"control", "target"}, UNCHANGED <<roster, unmapped, exit, late>>,
         status = "TEETH" => Green(Current, {}) /\ \A t \in TargetsOf(Current) : RedFor(Current, {t}),
         status = "VACUOUS" => Green(Current, {}) /\ \E t \in TargetsOf(Current) : Green(Current, {t}),
         status = "ERROR" => RedFor(Current, {})
  PROVE  VacuityInv'
<1>1. /\ idx \in 1..Len(roster) /\ Current \in Harnesses
      /\ phase' = "next" /\ idx' = idx + 1 /\ worker' = "idle"
      /\ exit = "running" /\ Len(roster) \in Nat
  BY RosterFacts DEF VacuityInv, TypeOK, WorkerKnows, ListsCover, Classified, Current
<1>2. \A h, symbols : RedFor(h, symbols)' = RedFor(h, symbols)
  BY DEF RedFor, Green, Holds
<1>3. TypeOK'
  BY <1>1 DEF VacuityInv, TypeOK, Classified
<1>4. WorkerKnows' /\ ClassifyKnows'
  BY <1>1 DEF WorkerKnows, ClassifyKnows
<1>5. /\ teeth' \subseteq teeth \cup {Current} /\ vacuous' \subseteq vacuous \cup {Current}
      /\ errors' \subseteq errors \cup {Current}
      /\ Current \in teeth' => status = "TEETH" \/ Current \in teeth
      /\ Current \in vacuous' => status = "VACUOUS" \/ Current \in vacuous
      /\ Current \in errors' => status = "ERROR" \/ Current \in errors
      /\ Current \in teeth' \cup vacuous' \cup errors'
      /\ teeth \subseteq teeth' /\ vacuous \subseteq vacuous' /\ errors \subseteq errors'
  BY DEF Classified, Status
<1>6. ListsReal'
  <2>1. \A h \in teeth' : Green(h, {}) /\ \A t \in TargetsOf(h) : RedFor(h, {t})
    BY <1>5 DEF VacuityInv, ListsReal
  <2>2. \A h \in vacuous' : Green(h, {}) /\ \E t \in TargetsOf(h) : Green(h, {t})
    BY <1>5 DEF VacuityInv, ListsReal
  <2>3. \A h \in errors' : RedFor(h, {})
    BY <1>5 DEF VacuityInv, ListsReal
  <2>4. \A h \in teeth' : \A t \in TargetsOf(h) : RedFor(h, {t})'
    BY <1>2, <2>1
  <2>5. \A h \in errors' : RedFor(h, {})'
    BY <1>2, <2>3
  <2> QED
    BY <2>1, <2>2, <2>4, <2>5 DEF ListsReal, TargetsOf, Green, Holds
<1>7. ListsCover'
  <2>1. Targets[Current] # <<>> /\ UNCHANGED roster /\ exit' = "running" /\ UNCHANGED unmapped
    BY <1>1 DEF VacuityInv, WorkerKnows
  <2>2. ASSUME NEW i \in 1..(idx' - 1)
        PROVE  roster[i] \in IF Targets[roster[i]] = <<>> THEN unmapped ELSE teeth' \cup vacuous' \cup errors'
    <3>1. CASE i = idx
      BY <1>5, <2>1, <3>1 DEF Current
    <3>2. CASE i # idx
      <4>1. i \in 1..(idx - 1)
        BY <1>1, <2>2, <3>2
      <4> QED
        BY <4>1, <1>5 DEF VacuityInv, ListsCover
    <3> QED
      BY <3>1, <3>2
  <2>3. \A h \in vacuous' \cup errors' : \E i \in 1..Len(roster) : roster[i] = h /\ Targets[h] # <<>>
    BY <1>1, <1>5, <2>1 DEF VacuityInv, ListsCover, Current
  <2> QED
    BY <1>1, <2>1, <2>2, <2>3 DEF ListsCover
<1> QED
  BY <1>3, <1>4, <1>6, <1>7 DEF VacuityInv

LEMMA GateStep ==
  ASSUME VacuityInv, Gate
  PROVE  VacuityInv'
<1>1. UNCHANGED <<teeth, vacuous, errors, late>> => ListsReal'
  BY ListsStay DEF VacuityInv
<1>2. CASE Discover
  BY <1>2, <1>1, RosterFacts DEF Discover, VacuityInv, TypeOK, WorkerKnows, ClassifyKnows,
     ListsCover, lists
<1>3. CASE TakeUnmapped
  BY <1>3, <1>1, RosterFacts DEF TakeUnmapped, VacuityInv, TypeOK, WorkerKnows, ClassifyKnows,
     ListsCover, Current
<1>4. CASE TakeMapped
  BY <1>4, <1>1, RosterFacts DEF TakeMapped, Spawn, VacuityInv, TypeOK, WorkerKnows, ClassifyKnows,
     ListsCover, lists, Current
<1>5. CASE ControlRan
  <2>1. /\ Current \in Harnesses /\ Targets[Current] # <<>> /\ neutered = {}
        /\ code = 0 => Green(Current, {})
        /\ code # 0 => RedFor(Current, {})
    <3>1. /\ idx \in 1..Len(roster) /\ roster \in Rosters
          /\ Targets[Current] # <<>> /\ neutered = {}
          /\ code = 0 => Green(Current, neutered)
          /\ code # 0 => RedFor(Current, neutered)
      BY <1>5 DEF ControlRan, VacuityInv, TypeOK, WorkerKnows, ClassifyKnows
    <3>2. Current \in Harnesses
      BY <3>1, RosterFacts DEF Current
    <3> QED
      BY <3>1, <3>2
  <2>2. CASE code # 0 /\ Classified("ERROR")
    BY <1>5, <2>1, <2>2, Classification DEF ControlRan, Status
  <2>3. CASE ~(code # 0 /\ Classified("ERROR"))
    <3>1. /\ code = 0 /\ phase' = "target" /\ tix' = 1 /\ Spawn(NeuterOne(1))
          /\ UNCHANGED <<roster, idx, teeth, vacuous, errors, unmapped, exit, late>>
      BY <1>5, <2>3 DEF ControlRan
    <3>2. Current' = Current /\ Targets[Current][1] \in Symbols /\ Len(Targets[Current]) >= 1
      BY <2>1, <3>1, TargetFacts DEF Current
    <3> QED
      BY <1>5, <1>1, <2>1, <3>1, <3>2, TargetFacts DEF ControlRan, Spawn, NeuterOne, VacuityInv, TypeOK,
         WorkerKnows, ClassifyKnows, ListsCover, Green, Holds, Current
  <2> QED
    BY <2>2, <2>3
<1>6. CASE TargetRan
  <2> DEFINE before == \A j \in 1..(tix - 1) : RedFor(Current, {Targets[Current][j]})
  <2>a. /\ idx \in 1..Len(roster) /\ tix \in 1..Len(Targets[Current])
        /\ neutered = {Targets[Current][tix]} /\ Green(Current, {})
        /\ code = 0 => Green(Current, neutered)
        /\ code # 0 => RedFor(Current, neutered)
        /\ before
    BY <1>6 DEF TargetRan, VacuityInv, WorkerKnows, ClassifyKnows
  <2>b. Current \in Harnesses /\ Targets[Current][tix] \in TargetsOf(Current)
    BY <2>a, RosterFacts DEF Current, TargetsOf, VacuityInv, TypeOK
  <2>c. Len(Targets[Current]) \in Nat
    BY <2>b, TargetFacts
  <2>1. code # 0 => \A j \in 1..tix : RedFor(Current, {Targets[Current][j]})
    <3> SUFFICES ASSUME code # 0, NEW j \in 1..tix PROVE RedFor(Current, {Targets[Current][j]})
      OBVIOUS
    <3>1. CASE j = tix
      BY <2>a, <3>1
    <3>2. CASE j # tix
      BY <2>a, <2>c, <3>2
    <3> QED
      BY <3>1, <3>2
  <2>2. CASE code = 0 /\ Classified("VACUOUS")
    BY <1>6, <2>a, <2>b, <2>2, Classification DEF TargetRan, Status
  <2>3. CASE code # 0 /\ tix = Len(Targets[Current]) /\ Classified("TEETH")
    <3>1. \A t \in TargetsOf(Current) : RedFor(Current, {t})
      BY <2>1, <2>a, <2>3 DEF TargetsOf
    <3> QED
      BY <1>6, <2>a, <2>b, <2>3, <3>1, Classification DEF TargetRan, Status
  <2>4. CASE /\ code # 0 /\ tix < Len(Targets[Current])
             /\ tix' = tix + 1 /\ Spawn(NeuterOne(tix + 1))
             /\ UNCHANGED <<phase, idx, teeth, vacuous, errors>>
    <3>1. Current' = Current /\ tix + 1 \in 1..Len(Targets[Current])
          /\ Targets[Current][tix + 1] \in Symbols
      BY <1>6, <2>a, <2>b, <2>c, <2>4, TargetFacts DEF TargetRan, Current
    <3>2. \A j \in 1..tix : RedFor(Current, {Targets[Current][j]})'
      BY <1>6, <2>1, <2>4, <3>1 DEF TargetRan, RedFor, Green, Holds
    <3>3. Green(Current, {})'
      BY <2>a, <3>1 DEF Green, Holds
    <3>4. /\ phase' = "target" /\ tix' = tix + 1 /\ tix \in Nat
          /\ neutered' = {Targets[Current][tix + 1]} /\ worker' = "neuter"
          /\ UNCHANGED <<roster, idx, teeth, vacuous, errors, unmapped, exit, late, code>>
      BY <1>6, <2>a, <2>c, <2>4 DEF TargetRan, Spawn, NeuterOne
    <3>5. ClassifyKnows'
      BY <3>1, <3>2, <3>3, <3>4 DEF ClassifyKnows
    <3>6. TypeOK' /\ WorkerKnows' /\ ListsCover'
      BY <1>6, <2>a, <3>1, <3>4 DEF TargetRan, VacuityInv, TypeOK, WorkerKnows, ListsCover
    <3> QED
      BY <1>1, <3>4, <3>5, <3>6 DEF VacuityInv
  <2> QED
    BY <1>6, <2>2, <2>3, <2>4 DEF TargetRan
<1>7. CASE Report
  BY <1>7, <1>1, RosterFacts DEF Report, Fails, VacuityInv, TypeOK, WorkerKnows, ClassifyKnows,
     ListsCover, lists
<1> QED
  BY <1>2, <1>3, <1>4, <1>5, <1>6, <1>7 DEF Gate

LEMMA VacuityInvariance == Spec => []VacuityInv
<1>1. Init => VacuityInv
  BY RosterFacts DEF Init, VacuityInv, TypeOK, WorkerKnows, ClassifyKnows, ListsReal,
     ListsCover
<1>2. VacuityInv /\ UNCHANGED vars => VacuityInv'
  BY DEF vars, lists, VacuityInv, TypeOK, WorkerKnows, ClassifyKnows, ListsReal, ListsCover,
     RedFor, TargetsOf, Green, Holds, Current
<1>3. VacuityInv /\ [Next]_vars => VacuityInv'
  BY <1>2, WorkerStep, GateStep DEF Next
<1> QED
  BY <1>1, <1>3, PTL DEF Spec

\* TeethAreReal: no target hides behind another.
THEOREM NoMasking == Spec => []TeethAreReal
<1>1. VacuityInv => TeethAreReal
  BY DEF VacuityInv, ListsReal, TeethAreReal, RedFor
<1> QED
  BY <1>1, VacuityInvariance, PTL

\* ErrorsAreReal: a green control is never reported as a broken harness.
THEOREM ErrorsAreBroken == Spec => []ErrorsAreReal
<1>1. VacuityInv => ErrorsAreReal
  BY DEF VacuityInv, ListsReal, ErrorsAreReal, RedFor
<1> QED
  BY <1>1, VacuityInvariance, PTL

\* ExitIsTheSum: exit 0 accounts for every mapped harness of the roster.
THEOREM ExitAccountsForAll == Spec => []ExitIsTheSum
<1>1. VacuityInv => ExitIsTheSum
  BY RosterFacts DEF VacuityInv, ListsCover, ExitIsTheSum
<1> QED
  BY <1>1, VacuityInvariance, PTL

\* _mutate returns another value, of any type.
LEMMA MutateChanges ==
  ASSUME NEW x \in Values, x \notin Twinless
  PROVE  Mutate(x) # x
<1>1. /\ x = [type |-> x.type, v |-> x.v] /\ x.v \in Int
      /\ x.type \in {"bool", "int", "float", "text", "collection", "custom"}
  BY DEF Values
<1>2. CASE x.type = "bool"
  <2>1. Mutate(x).v = 1 - x.v
    BY <1>1, <1>2 DEF Mutate
  <2> QED
    BY <1>1, <2>1
<1>3. CASE x.type \in {"int", "text"}
  <2>1. Mutate(x).v = x.v + 1
    BY <1>1, <1>3 DEF Mutate
  <2> QED
    BY <1>1, <2>1
<1>4. CASE x.type = "float"
  <2>1. x.v # Huge
    BY <1>1, <1>4 DEF Twinless
  <2>2. Mutate(x).v = x.v + 1
    BY <1>1, <1>4, <2>1 DEF Mutate
  <2> QED
    BY <1>1, <2>2
<1>5. CASE x.type = "collection"
  <2>1. Mutate(x).v = IF x.v > 0 THEN 0 ELSE 1
    BY <1>1, <1>5 DEF Mutate
  <2> QED
    BY <1>1, <2>1
<1>6. CASE x.type = "custom"
  BY <1>1, <1>6 DEF Mutate, Twinless
<1> QED
  BY <1>1, <1>2, <1>3, <1>4, <1>5, <1>6

\* PinnedNeverVacuous: a self-test that pins every target down is never called
\* VACUOUS.
THEOREM NoFalseVacuous == Spec => []PinnedNeverVacuous
<1>1. VacuityInv => PinnedNeverVacuous
  <2> SUFFICES ASSUME VacuityInv, NEW h \in vacuous
               PROVE  Green(h, {}) /\ \E t \in TargetsOf(h) : ~Pinned(h, t)
    BY DEF PinnedNeverVacuous
  <2>1. h \in Harnesses /\ Green(h, {})
    BY DEF VacuityInv, TypeOK, ListsReal
  <2>2. PICK t \in TargetsOf(h) : Green(h, {t})
    BY DEF VacuityInv, ListsReal
  <2>3. ASSUME Pinned(h, t) PROVE FALSE
    <3>1. PICK a \in Asserts[h] : a.symbol = t /\ a.accepts = {a.value} /\ a.value \notin Twinless
      BY <2>3 DEF Pinned
    <3>2. a.value \in Values
      BY <2>1, VacuityAssumption
    <3>3. Mutate(a.value) \in a.accepts
      BY <2>2, <3>1 DEF Green, Holds
    <3> QED
      BY <3>1, <3>2, <3>3, MutateChanges
  <2> QED
    BY <2>1, <2>3
<1> QED
  BY <1>1, VacuityInvariance, PTL

\* Every variable stays within its type.
THEOREM TypeCorrect == Spec => []TypeOK
<1>1. VacuityInv => TypeOK
  BY DEF VacuityInv
<1> QED
  BY <1>1, VacuityInvariance, PTL

------------------------------------------------------------------------------
(* The safety half of GateEnds: the gate has only so far to go. *)

\* What is ahead of the gate in the roster, and on the current harness: the runs
\* of its self-test and the steps of the worker in hand.
Ahead ==
  IF phase = "done" THEN 0
  ELSE IF phase = "discover" THEN Len(roster) + 3 ELSE Len(roster) + 2 - idx
RunsAhead ==
  IF phase = "next" THEN IF idx <= Len(roster) THEN Len(Targets[Current]) + 1 ELSE 0
  ELSE IF phase = "control" THEN Len(Targets[Current])
  ELSE IF phase = "target" THEN Len(Targets[Current]) - tix ELSE 0
WorkerAhead == IF worker = "neuter" THEN 2 ELSE IF worker = "selftest" THEN 1 ELSE 0
Work == 3 * RunsAhead + WorkerAhead

Nearer == Ahead' < Ahead \/ (Ahead' = Ahead /\ Work' < Work)

Numbers == Ahead \in Nat /\ RunsAhead \in Nat /\ Work \in Nat

LEMMA AheadFacts ==
  ASSUME VacuityInv
  PROVE  Numbers
<1>1. idx \in 1..(Len(roster) + 1) /\ Len(roster) \in Nat /\ tix \in Nat
  BY RosterFacts DEF VacuityInv, TypeOK
<1>2. idx <= Len(roster) => Len(Targets[Current]) \in Nat
  <2> SUFFICES ASSUME idx <= Len(roster) PROVE Len(Targets[Current]) \in Nat
    OBVIOUS
  <2>1. Current \in Harnesses
    BY <1>1, RosterFacts DEF Current, VacuityInv, TypeOK
  <2> QED
    BY <2>1, TargetFacts
<1>3. /\ phase \in {"control", "target"} => idx <= Len(roster)
      /\ phase = "target" => tix \in 1..Len(Targets[Current])
  BY <1>1 DEF VacuityInv, WorkerKnows, ClassifyKnows
<1>4. RunsAhead \in Nat
  BY <1>1, <1>2, <1>3 DEF RunsAhead
<1>5. WorkerAhead \in Nat
  BY DEF WorkerAhead
<1> QED
  BY <1>1, <1>4, <1>5 DEF Ahead, Work, Numbers

LEMMA StepIsNearer ==
  ASSUME VacuityInv, Numbers, Numbers', Next
  PROVE  Nearer
<1>0. UNCHANGED roster
  BY DEF Next, Gate, Worker, Discover, TakeUnmapped, TakeMapped, ControlRan, TargetRan, Report,
     WorkerNeuter, WorkerSelfTest, WorkerTimeout
<1>1. /\ Ahead \in Nat /\ RunsAhead \in Nat /\ WorkerAhead \in Nat
      /\ Ahead' \in Nat /\ RunsAhead' \in Nat /\ WorkerAhead' \in 0..2
  BY DEF Numbers, WorkerAhead
<1>2. idx \in 1..(Len(roster) + 1) /\ Len(roster) \in Nat /\ tix \in Nat
  BY RosterFacts DEF VacuityInv, TypeOK
<1>3. /\ phase \in {"control", "target"} => idx \in 1..Len(roster)
      /\ idx \in 1..Len(roster) => Len(Targets[Current]) \in Nat
  <2>1. idx \in 1..Len(roster) => Current \in Harnesses
    BY RosterFacts DEF Current, VacuityInv, TypeOK
  <2>2. idx \in 1..Len(roster) => Len(Targets[Current]) \in Nat
    BY <2>1, TargetFacts
  <2> QED
    BY <2>2 DEF VacuityInv, WorkerKnows
\* A classified harness is behind the gate.
<1>4. ASSUME phase \in {"next", "control", "target"}, phase' = "next", idx' = idx + 1
      PROVE  Nearer
  BY <1>0, <1>2, <1>4 DEF Nearer, Ahead
\* On the same harness a run fewer is left, or the worker has a step less to take.
<1>5. ASSUME UNCHANGED idx, phase \in {"next", "control", "target"},
             phase' \in {"next", "control", "target"},
             \/ RunsAhead' < RunsAhead
             \/ RunsAhead' = RunsAhead /\ WorkerAhead' < WorkerAhead
      PROVE  Nearer
  <2>1. Ahead' = Ahead
    BY <1>0, <1>5 DEF Ahead
  <2>2. \A r, rr, w \in Nat, ww \in 0..2 :
          rr < r \/ (rr = r /\ ww < w) => 3 * rr + ww < 3 * r + w
    OBVIOUS
  <2>3. Work' < Work
    BY <1>1, <1>5, <2>2 DEF Work
  <2> QED
    BY <2>1, <2>3 DEF Nearer
<1>6. CASE Worker
  <2>1. /\ UNCHANGED <<phase, idx, tix>> /\ WorkerAhead' < WorkerAhead
        /\ worker \in {"neuter", "selftest"}
    BY <1>6 DEF Worker, WorkerNeuter, WorkerSelfTest, WorkerTimeout, TimeoutFires, Exit, WorkerAhead
  <2>2. phase \in {"control", "target"}
    BY <2>1 DEF VacuityInv, TypeOK, ClassifyKnows
  <2>3. RunsAhead' = RunsAhead
    BY <1>0, <2>1 DEF RunsAhead, Current
  <2> QED
    BY <1>5, <2>1, <2>2, <2>3
<1>7. CASE Discover
  BY <1>0, <1>2, <1>7 DEF Discover, Nearer, Ahead
<1>8. CASE TakeUnmapped
  BY <1>4, <1>8 DEF TakeUnmapped
<1>9. CASE TakeMapped
  <2>1. UNCHANGED idx /\ phase = "next" /\ phase' = "control" /\ Len(Targets[Current]) \in Nat
        /\ Current' = Current /\ idx <= Len(roster)
    BY <1>2, <1>3, <1>9 DEF TakeMapped, Current
  <2>2. RunsAhead' < RunsAhead
    BY <2>1 DEF RunsAhead
  <2> QED
    BY <1>5, <2>1, <2>2
<1>10. CASE ControlRan
  <2>1. CASE Classified("ERROR")
    BY <1>4, <1>10, <2>1 DEF ControlRan, Classified
  <2>2. CASE ~Classified("ERROR")
    <3>1. UNCHANGED idx /\ phase = "control" /\ phase' = "target" /\ tix' = 1
          /\ Current' = Current /\ Len(Targets[Current]) \in Nat
      BY <1>3, <1>10, <2>2 DEF ControlRan, Current
    <3>2. RunsAhead' < RunsAhead
      BY <3>1 DEF RunsAhead
    <3> QED
      BY <1>5, <3>1, <3>2
  <2> QED
    BY <2>1, <2>2
<1>11. CASE TargetRan
  <2>1. CASE \E status \in Status : Classified(status)
    BY <1>4, <1>11, <2>1 DEF TargetRan, Classified
  <2>2. CASE ~\E status \in Status : Classified(status)
    <3>1. UNCHANGED <<idx, phase>> /\ phase = "target" /\ tix' = tix + 1
          /\ Current' = Current /\ Len(Targets[Current]) \in Nat
      BY <1>3, <1>11, <2>2 DEF TargetRan, Status, Current
    <3>2. RunsAhead' < RunsAhead
      BY <1>2, <3>1 DEF RunsAhead
    <3> QED
      BY <1>5, <3>1, <3>2
  <2> QED
    BY <2>1, <2>2
<1>12. CASE Report
  BY <1>0, <1>2, <1>12 DEF Report, Nearer, Ahead
<1> QED
  BY <1>6, <1>7, <1>8, <1>9, <1>10, <1>11, <1>12 DEF Next, Gate

\* "never an infinite gate hang" (vacuity_gate.py:141): every step of the gate or of
\* its worker brings a pair of natural numbers down, in lexicographic order, whatever
\* the self-tests do; a run of the gate is finite, for every roster.
THEOREM GateNearsItsEnd ==
  Spec => [](Ahead \in Nat /\ Work \in Nat) /\ [][Nearer]_vars
<1>1. VacuityInv => Numbers
  BY AheadFacts
<1>2. Numbers => Ahead \in Nat /\ Work \in Nat
  BY DEF Numbers
<1>3. VacuityInv /\ Numbers /\ Numbers' /\ [Next]_vars => [Nearer]_vars
  BY StepIsNearer
<1> QED
  BY <1>1, <1>2, <1>3, VacuityInvariance, PTL DEF Spec
=============================================================================

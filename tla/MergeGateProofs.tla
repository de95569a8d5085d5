-------------------------- MODULE MergeGateProofs --------------------------
(***************************************************************************)
(* Theorems about MergeGate, for any number of pull requests, required     *)
(* contexts, files, versions and commits.                                  *)
(***************************************************************************)
EXTENDS MergeGate, TLAPS

LEMMA MergeType ==
  ASSUME NEW b \in Commits, NEW o \in Commits, NEW t \in Commits
  PROVE  Merged(b, o, t) \in Commits
  BY DEF Merged, Pick, Commits

\* Merging a tip with the commit it was branched from gives the tip.
LEMMA MergeFastForward ==
  ASSUME NEW m \in Commits, NEW tip \in Commits
  PROVE  Merged(m, tip, m) = tip
  BY DEF Merged, Pick, Commits

LEMMA SnapshotType ==
  ASSUME NEW c \in Commits
  PROVE  Snapshot(c) \in Commits /\ Consistent(Snapshot(c))
<1> DEFINE m == [f \in Files |-> IF f \in ProtectedIn[c.tree[Guard]] THEN c.tree[f] ELSE Gone]
<1>1. /\ Snapshot(c) = [tree |-> c.tree, manifest |-> m]
      /\ m \in [Files -> Contents \cup {Gone}]
      /\ ProtectedIn[c.tree[Guard]] \subseteq Files
  BY MergeGateAssumption DEF Snapshot, Commits
<1> QED
  BY <1>1 DEF Commits, Consistent, Listed

LEMMA ChangeType ==
  ASSUME NEW c \in Commits, NEW tip \in Change(c)
  PROVE  tip \in Commits
  BY SnapshotType DEF Change, Commits

\* A new tip is typed, its runs have not reported yet, and they will see the
\* tip itself if the branch is up to date.
LEMMA NewTipFacts ==
  ASSUME GateInv, NEW p \in PRs, NEW b \in Commits, NEW bRev \in Nat, NEW tip \in Commits,
         NewTip(p, b, bRev, tip), bRev <= rev, bRev = rev => b = main,
         UNCHANGED <<main, rev, required>>, phase' \in [PRs -> {"none", "open", "merged"}],
         commits' \in [PRs -> Nat], \A q \in PRs \ {p} : phase'[q] = phase[q]
  PROVE  GateInv'
<1>1. TypeOK'
  BY MergeType DEF GateInv, TypeOK, NewTip, States
<1>2. MainMatchesBaseline'
  BY DEF GateInv, MainMatchesBaseline, Consistent, Listed
<1>3. RunsSawTheTip(p)'
  <2>1. checks'[p][LibLane] \in {"absent", "pending"}
    BY MergeGateAssumption DEF GateInv, TypeOK, NewTip
  <2>2. base'[p] = b /\ baseRev'[p] = bRev /\ head'[p] = tip /\ subject'[p] = Merged(b, tip, main)
    BY DEF GateInv, TypeOK, NewTip
  <2> QED
    BY <2>1, <2>2, MergeFastForward DEF RunsSawTheTip
<1>4. ASSUME NEW q \in PRs \ {p} PROVE RunsSawTheTip(q)'
  BY <1>4 DEF GateInv, TypeOK, NewTip, RunsSawTheTip
<1> QED
  BY <1>1, <1>2, <1>3, <1>4 DEF GateInv

\* The merge puts on main the tree the lib lane was green on.
LEMMA MergeFacts ==
  ASSUME GateInv, NEW p \in PRs, SquashMerge(p)
  PROVE  main' = subject[p] /\ LaneGreen(main')
<1>1. base[p] = main /\ subject[p] = head[p] /\ head[p] \in Commits /\ main \in Commits
  BY DEF GateInv, TypeOK, RunsSawTheTip, SquashMerge, UpToDate
<1>2. main' = subject[p]
  BY <1>1, MergeFastForward DEF SquashMerge
<1>3. LaneGreen(subject[p])
  BY MergeGateAssumption DEF GateInv, RunsSawTheTip, SquashMerge, AllGreen
<1> QED
  BY <1>2, <1>3

LEMMA GateInvariance == Spec => []GateInv
<1>1. Init => GateInv
  BY SnapshotType, MergeGateAssumption
  DEF Init, GateInv, TypeOK, MainMatchesBaseline, RunsSawTheTip, States
<1>2. GateInv /\ [Next]_vars => GateInv'
  <2> SUFFICES ASSUME GateInv, [Next]_vars PROVE GateInv'
    OBVIOUS
  <2>1. ASSUME NEW p \in PRs, OpenPR(p) PROVE GateInv'
    <3>1. PICK tip \in Change(main) : NewTip(p, main, rev, tip)
      BY <2>1 DEF OpenPR
    <3>2. tip \in Commits /\ main \in Commits /\ rev \in Nat
      BY ChangeType DEF GateInv, TypeOK
    <3>3. /\ rev <= rev
          /\ UNCHANGED <<main, rev, required>> /\ phase' \in [PRs -> {"none", "open", "merged"}]
          /\ commits' \in [PRs -> Nat] /\ \A q \in PRs \ {p} : phase'[q] = phase[q]
      BY <2>1, <3>1 DEF OpenPR, GateInv, TypeOK, RunsSawTheTip
    <3> QED
      BY <3>1, <3>2, <3>3, NewTipFacts
  <2>2. ASSUME NEW p \in PRs, Push(p) PROVE GateInv'
    <3>1. PICK tip \in Change(head[p]) : NewTip(p, base[p], baseRev[p], tip)
      BY <2>2 DEF Push
    <3>2. /\ tip \in Commits /\ base[p] \in Commits /\ baseRev[p] \in Nat
          /\ baseRev[p] <= rev /\ (baseRev[p] = rev => base[p] = main)
      BY ChangeType DEF GateInv, TypeOK, RunsSawTheTip
    <3>3. /\ baseRev[p] <= rev
          /\ UNCHANGED <<main, rev, required>> /\ phase' \in [PRs -> {"none", "open", "merged"}]
          /\ commits' \in [PRs -> Nat] /\ \A q \in PRs \ {p} : phase'[q] = phase[q]
      BY <2>2, <3>1 DEF Push, GateInv, TypeOK, RunsSawTheTip
    <3> QED
      BY <3>1, <3>2, <3>3, NewTipFacts
  <2>3. ASSUME NEW p \in PRs, UpdateBranch(p) PROVE GateInv'
    <3>1. Merged(base[p], head[p], main) \in Commits /\ main \in Commits /\ rev \in Nat
      BY MergeType DEF GateInv, TypeOK
    <3>3. /\ NewTip(p, main, rev, Merged(base[p], head[p], main)) /\ rev <= rev
          /\ UNCHANGED <<main, rev, required>> /\ phase' \in [PRs -> {"none", "open", "merged"}]
          /\ commits' \in [PRs -> Nat] /\ \A q \in PRs \ {p} : phase'[q] = phase[q]
      BY <2>3, <3>1 DEF UpdateBranch, GateInv, TypeOK, RunsSawTheTip
    <3> QED
      BY <3>1, <3>3, NewTipFacts
  <2>4. ASSUME NEW p \in PRs, NEW c \in Contexts, Finish(p, c) PROVE GateInv'
    <3>1. PICK s \in {"success", "failure", "cancelled"} :
            /\ s = "success" /\ c = LibLane => LaneGreen(subject[p])
            /\ checks' = [checks EXCEPT ![p][c] = s]
      BY <2>4 DEF Finish
    <3>2. TypeOK' /\ MainMatchesBaseline'
      BY <2>4, <3>1 DEF Finish, GateInv, TypeOK, MainMatchesBaseline, Consistent, Listed, States
    <3>3. ASSUME NEW q \in PRs PROVE RunsSawTheTip(q)'
      <4>1. checks'[q][LibLane] = "success" =>
              checks[q][LibLane] = "success" \/ (q = p /\ LaneGreen(subject[p]))
        BY <3>1, MergeGateAssumption DEF GateInv, TypeOK
      <4>2. UNCHANGED <<main, rev, phase, base, baseRev, head, subject>> /\ phase[p] = "open"
        BY <2>4 DEF Finish
      <4> QED
        BY <4>1, <4>2 DEF GateInv, RunsSawTheTip, LaneGreen, Consistent, Listed
    <3> QED
      BY <2>4, <3>2, <3>3 DEF Finish, GateInv
  <2>5. ASSUME NEW p \in PRs, NEW c \in Contexts, Rerun(p, c) PROVE GateInv'
    <3>1. TypeOK' /\ MainMatchesBaseline'
      BY <2>5 DEF Rerun, GateInv, TypeOK, MainMatchesBaseline, Consistent, Listed, States
    <3>2. ASSUME NEW q \in PRs PROVE RunsSawTheTip(q)'
      BY <2>5, MergeGateAssumption
      DEF Rerun, GateInv, TypeOK, RunsSawTheTip, LaneGreen, Consistent, Listed
    <3> QED
      BY <2>5, <3>1, <3>2 DEF Rerun, GateInv
  <2>6. ASSUME NEW p \in PRs, SquashMerge(p) PROVE GateInv'
    <3>1. main' = subject[p] /\ LaneGreen(main')
      BY <2>6, MergeFacts
    <3>2. TypeOK'
      BY <2>6, <3>1 DEF SquashMerge, GateInv, TypeOK
    <3>3. MainMatchesBaseline'
      BY <3>1 DEF LaneGreen, MainMatchesBaseline, Consistent, Listed
    <3>4. ASSUME NEW q \in PRs PROVE RunsSawTheTip(q)'
      BY <2>6, <3>1 DEF SquashMerge, GateInv, TypeOK, RunsSawTheTip
    <3> QED
      BY <2>6, <3>2, <3>3, <3>4 DEF SquashMerge, GateInv
  <2>7. ASSUME NEW p \in PRs, NEW c \in Contexts, AppReports(p, c) PROVE GateInv'
    <3>1. c # LibLane
      BY <2>7, MergeGateAssumption DEF AppReports
    <3>2. TypeOK' /\ MainMatchesBaseline'
      BY <2>7 DEF AppReports, GateInv, TypeOK, MainMatchesBaseline, Consistent, Listed, States
    <3>3. ASSUME NEW q \in PRs PROVE RunsSawTheTip(q)'
      BY <2>7, <3>1, MergeGateAssumption
      DEF AppReports, GateInv, TypeOK, RunsSawTheTip, LaneGreen, Consistent, Listed
    <3> QED
      BY <2>7, <3>2, <3>3 DEF GateInv, AppReports
  \* Only the contexts of the apps come and go, never the lib lane.
  <2>8. ASSUME NEW c \in Contexts, Require(c) PROVE GateInv'
    <3>1. LibLane \in required' /\ required' \subseteq Contexts
      BY <2>8, MergeGateAssumption DEF Require, GateInv, TypeOK
    <3> QED
      BY <2>8, <3>1 DEF Require, prVars, GateInv, TypeOK, MainMatchesBaseline, RunsSawTheTip,
         LaneGreen, Consistent, Listed
  <2>9. CASE UNCHANGED vars
    BY <2>9 DEF vars, prVars, GateInv, TypeOK, MainMatchesBaseline, RunsSawTheTip,
       LaneGreen, Consistent, Listed
  <2> QED
    BY <2>1, <2>2, <2>3, <2>4, <2>5, <2>6, <2>7, <2>8, <2>9 DEF Next
<1> QED
  BY <1>1, <1>2, PTL DEF Spec

\* Every variable stays within its type.
THEOREM TypeCorrect == Spec => []TypeOK
<1>1. GateInv => TypeOK
  BY DEF GateInv
<1> QED
  BY <1>1, GateInvariance, PTL

\* MainMatchesBaseline: main matches its baseline as long as it carries the test
\* that compares them.
THEOREM MainStaysConsistent == Spec => []MainMatchesBaseline
  BY GateInvariance, PTL DEF GateInv

\* MergedWhatWasChecked: what lands on main is what the lanes ran on.
THEOREM MergesAreChecked == Spec => MergedWhatWasChecked
<1>1. GateInv /\ [Next]_vars =>
        [\A p \in PRs : phase[p] = "open" /\ phase'[p] = "merged" => main' = subject[p]]_vars
  <2> SUFFICES ASSUME GateInv, Next, NEW p \in PRs, phase[p] = "open", phase'[p] = "merged"
               PROVE  main' = subject[p]
    OBVIOUS
  <2>1. SquashMerge(p)
    BY DEF Next, OpenPR, Push, UpdateBranch, Finish, Rerun, AppReports, Require, prVars, SquashMerge,
       GateInv, TypeOK
  <2> QED
    BY <2>1, MergeFacts
<1> QED
  BY <1>1, GateInvariance, PTL DEF Spec, MergedWhatWasChecked

\* TamperEvident: no merge changes a listed file and leaves the baseline alone.
THEOREM ChangesShowInTheDiff == Spec => TamperEvident
<1>1. GateInv /\ GateInv' =>
        ({main.tree[GuardTest], main'.tree[GuardTest]} \subseteq CallsGuard =>
           \A f \in Listed(main) : Tripwire(f))
  <2> SUFFICES ASSUME GateInv, GateInv', Consistent(main), Consistent(main)',
                      NEW f \in Listed(main), main'.manifest = main.manifest
               PROVE  main'.tree[f] = main.tree[f]
    BY DEF GateInv, MainMatchesBaseline, Tripwire
  <2> QED
    BY DEF Consistent, Listed
<1> QED
  BY <1>1, GateInvariance, PTL DEF TamperEvident
=============================================================================

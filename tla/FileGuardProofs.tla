-------------------------- MODULE FileGuardProofs --------------------------
(***************************************************************************)
(* Theorems about FileGuard, for every set of files, protected sets, file  *)
(* contents and number of edits.  The inductive invariant says what a      *)
(* check knows of the files it has already visited (Accounted, Caused) and *)
(* what a snapshot knows of those it has hashed.                           *)
(***************************************************************************)
EXTENDS FileGuard, TLAPS

\* A baseline is a map from some files to contents.
LEMMA BaselineMap ==
  /\ \A b \in Baselines : b \in [DOMAIN b -> Contents] /\ DOMAIN b \subseteq Files
  /\ \A S \in SUBSET Files : \A b \in [S -> Contents] : b \in Baselines
  /\ NoFiles \in Baselines /\ DOMAIN NoFiles = {}
<1>1. \A b \in Baselines : b \in [DOMAIN b -> Contents] /\ DOMAIN b \subseteq Files
  BY DEF Baselines
<1>2. \A S \in SUBSET Files : \A b \in [S -> Contents] : b \in Baselines
  BY DEF Baselines
<1>3. NoFiles \in [{} -> Contents] /\ DOMAIN NoFiles = {}
  BY DEF NoFiles
<1> QED
  BY <1>1, <1>2, <1>3

\* The three bad manifests are told apart from every baseline.
LEMMA NoneIsNoBaseline == None \notin Baselines /\ Corrupt \notin Baselines
  BY SentinelAssumption DEF None

\* Adding the digest of one file to a snapshot gives a snapshot.
LEMMA SnapshotGrows ==
  ASSUME NEW b \in Baselines, NEW f \in Files, NEW c \in Contents
  PROVE  [g \in DOMAIN b \cup {f} |-> IF g = f THEN c ELSE b[g]] \in Baselines
<1> DEFINE n == [g \in DOMAIN b \cup {f} |-> IF g = f THEN c ELSE b[g]]
<1>1. b \in [DOMAIN b -> Contents] /\ DOMAIN b \subseteq Files
  BY BaselineMap
<1>2. n \in [DOMAIN b \cup {f} -> Contents] /\ DOMAIN b \cup {f} \in SUBSET Files
  BY <1>1
<1> QED
  BY <1>2, BaselineMap

LEMMA ComplaintType ==
  ASSUME NEW f \in Files, NEW now, NEW base
  PROVE  Complaint(f, now, base) \in SUBSET [kind : Kinds, file : Files]
  BY DEF Complaint, Kinds

\* TypeOK: the typing invariant of the check, the snapshot and the tree.
THEOREM TypeCorrect == Spec => []TypeOK
<1>1. Init => TypeOK
  BY FilesAssumption, BaselineMap DEF Init, TypeOK, Entries
<1>2. TypeOK /\ [Next]_vars => TypeOK'
  <2> SUFFICES ASSUME TypeOK, [Next]_vars PROVE TypeOK'
    OBVIOUS
  <2> USE DEF TypeOK
  <2>1. CASE StartCheck
    BY <2>1, FilesAssumption
    DEF StartCheck, Runnable, shared, updateVars
  <2>2. CASE CheckLoad
    <3>1. LoadBaseline \in Baselines \cup {None}
      BY DEF LoadBaseline
    <3>2. LoadBaseline # None => Scope(LoadBaseline, cexp) \in SUBSET Files
      BY <3>1, BaselineMap DEF Scope
    <3> QED
      BY <2>2, <3>1, <3>2 DEF CheckLoad, CheckExit, shared, updateVars
  <2>3. ASSUME NEW f \in Files, CheckStat(f) PROVE TypeOK'
    BY <2>3 DEF CheckStat, CheckExit, Kinds, shared, updateVars
  <2>4. ASSUME NEW f \in Files, CheckHash(f) PROVE TypeOK'
    BY <2>4, ComplaintType DEF CheckHash, shared, updateVars
  <2>5. CASE CheckReport
    BY <2>5 DEF CheckReport, CheckExit, shared, updateVars
  <2>6. CASE StartUpdate
    BY <2>6, FilesAssumption, BaselineMap
    DEF StartUpdate, Runnable, shared, checkVars
  <2>7. ASSUME NEW f \in Files, UpdateHash(f) PROVE TypeOK'
    <3>1. CASE Sha256(f) = NoDigest
      BY <2>7, <3>1 DEF UpdateHash, Foremost, shared, checkVars
    <3>2. CASE Sha256(f) # NoDigest
      <4>1. Sha256(f) \in Contents
        BY <3>2 DEF Sha256
      <4>2. ufiles' \in Baselines
        BY <2>7, <3>2, <4>1, SnapshotGrows DEF UpdateHash
      <4> QED
        BY <2>7, <3>2, <4>2 DEF UpdateHash, shared, checkVars
    <3> QED
      BY <3>1, <3>2
  <2>8. CASE UpdateRefuse
    BY <2>8 DEF UpdateRefuse, UpdateExit, shared, checkVars
  <2>9. CASE UpdateOpen
    BY <2>9 DEF UpdateOpen, UpdateExit, checkVars, Manifests
  <2>10. CASE UpdateWrite
    BY <2>10 DEF UpdateWrite, UpdateExit, checkVars, Manifests
  <2>11. CASE UpdateKilled
    BY <2>11 DEF UpdateKilled, UpdateExit, shared, checkVars
  <2>12. ASSUME NEW f \in Files, NEW e \in Entries, Edit(f, e) PROVE TypeOK'
    BY <2>12, FilesAssumption DEF Edit, Noticed
  <2>13. ASSUME NEW m \in Manifests, EditManifest(m) PROVE TypeOK'
    BY <2>13, FilesAssumption DEF EditManifest, checkVars, updateVars
  <2>14. CASE UNCHANGED vars
    BY <2>14 DEF vars, shared, checkVars, updateVars
  <2> QED
    BY <2>1, <2>2, <2>3, <2>4, <2>5, <2>6, <2>7, <2>8, <2>9, <2>10, <2>11,
       <2>12, <2>13, <2>14 DEF Next, CheckStep, UpdateStep
<1> QED
  BY <1>1, <1>2, PTL DEF Spec

\* What a check process knows is kept by every step, of its own, of a snapshot
\* and of the developer.
LEMMA CheckStepKeepsKnowledge ==
  ASSUME TypeOK, CheckKnows, DriftExplained, [Next]_vars
  PROVE  CheckKnows' /\ DriftExplained'
<1> USE DEF Checking, Accounted, Explained
<1>1. CASE StartCheck
  BY <1>1 DEF TypeOK, StartCheck, CheckKnows, DriftExplained, Runnable, shared, updateVars,
     Running, Clean, Drift, NoBaseline, Crash
<1>2. CASE CheckLoad
  <2>1. manifest = Hidden => LoadBaseline = None
    BY SentinelAssumption DEF LoadBaseline
  <2>2. cpc = "load" /\ cdrift = {} /\ cexit = Running /\ cdrift' = {}
    BY <1>2 DEF CheckLoad, CheckKnows
  <2>3. CheckKnows'
    BY <1>2, <2>1, <2>2
    DEF TypeOK, CheckLoad, CheckExit, CheckKnows, Scope, shared, updateVars,
        Running, Clean, Drift, NoBaseline, Crash
  <2> QED
    BY <2>2, <2>3 DEF DriftExplained
<1>3. ASSUME NEW f \in Files, CheckStat(f) PROVE CheckKnows' /\ DriftExplained'
  <2>1. /\ cpc = "stat" /\ f \in ctodo /\ tree[f] \in cseen[f] /\ cexit = Running
        /\ cbase # None /\ f \in DOMAIN cbase \cup cexp
    BY <1>3 DEF CheckStat, CheckKnows, Foremost
  <2>2. CheckKnows'
    <3>1. CASE tree[f] = Unstatable
      BY <1>3, <2>1, <3>1, SentinelAssumption
      DEF CheckStat, CheckExit, CheckKnows, shared, updateVars,
          Running, Clean, Drift, NoBaseline, Crash
    <3>2. CASE tree[f] = Absent
      <4> DEFINE line == [kind |-> "REMOVED", file |-> f]
      <4>1. line.file = f
        OBVIOUS
      <4>2. cdrift' = cdrift \cup {line}
        BY <1>3, <3>2, SentinelAssumption DEF CheckStat
      <4> HIDE DEF line
      <4> QED
        BY <1>3, <2>1, <3>2, <4>1, <4>2, SentinelAssumption
        DEF CheckStat, CheckKnows, shared, Running, Clean, Drift, NoBaseline, Crash
    <3>3. CASE tree[f] \notin {Absent, Unstatable}
      BY <1>3, <2>1, <3>3
      DEF CheckStat, CheckKnows, shared, Running, Clean, Drift, NoBaseline, Crash
    <3> QED
      BY <3>1, <3>2, <3>3
  <2>3. DriftExplained'
    BY <1>3, <2>1 DEF TypeOK, CheckStat, CheckExit, DriftExplained, shared, updateVars
  <2> QED
    BY <2>2, <2>3
<1>4. ASSUME NEW f \in Files, CheckHash(f) PROVE CheckKnows' /\ DriftExplained'
  <2>1. /\ cpc = "hash" /\ f \in ctodo /\ tree[f] \in cseen[f] /\ cexit = Running
        /\ cbase # None /\ f \in DOMAIN cbase \cup cexp
    BY <1>4 DEF CheckHash, CheckKnows, Foremost
  <2>2. /\ Complaint(f, Sha256(f), cbase) = {} => f \in DOMAIN cbase /\ cbase[f] = tree[f]
        /\ \A d \in Complaint(f, Sha256(f), cbase) : d.file = f /\ Explained(d)
    <3>1. Sha256(f) = NoDigest => tree[f] \in {Absent, Unreadable, Unstatable}
      BY SentinelAssumption DEF Sha256, NoDigest, TypeOK, Entries
    <3>2. Sha256(f) # NoDigest => Sha256(f) = tree[f] /\ tree[f] \in Contents
      BY DEF Sha256
    <3>3. CASE Sha256(f) = NoDigest
      <4> DEFINE line == [kind |-> "UNREADABLE", file |-> f]
      <4>1. Complaint(f, Sha256(f), cbase) = {line}
        BY <3>3 DEF Complaint
      <4>2. line.kind = "UNREADABLE" /\ line.file = f
        OBVIOUS
      <4> HIDE DEF line
      <4>3. Explained(line)
        BY <2>1, <3>1, <3>3, <4>2
      <4> QED
        BY <4>1, <4>2, <4>3
    <3>4. CASE Sha256(f) # NoDigest /\ f \notin DOMAIN cbase
      <4> DEFINE line == [kind |-> "UNBASELINED", file |-> f]
      <4>1. Complaint(f, Sha256(f), cbase) = {line}
        BY <3>4 DEF Complaint
      <4>2. line.kind = "UNBASELINED" /\ line.file = f
        OBVIOUS
      <4> HIDE DEF line
      <4>3. Explained(line)
        BY <2>1, <3>2, <3>4, <4>2
      <4> QED
        BY <4>1, <4>2, <4>3
    <3>5. CASE Sha256(f) # NoDigest /\ f \in DOMAIN cbase /\ Sha256(f) # cbase[f]
      <4> DEFINE line == [kind |-> "MODIFIED", file |-> f]
      <4>1. Complaint(f, Sha256(f), cbase) = {line}
        BY <3>5 DEF Complaint
      <4>2. line.kind = "MODIFIED" /\ line.file = f
        OBVIOUS
      <4> HIDE DEF line
      <4>3. Explained(line)
        BY <2>1, <3>2, <3>5, <4>2
      <4> QED
        BY <4>1, <4>2, <4>3
    <3>6. CASE Sha256(f) # NoDigest /\ f \in DOMAIN cbase /\ Sha256(f) = cbase[f]
      BY <3>2, <3>6 DEF Complaint
    <3> QED
      BY <3>3, <3>4, <3>5, <3>6
  <2>3. CheckKnows'
    BY <1>4, <2>1, <2>2
    DEF TypeOK, CheckHash, CheckKnows, shared, updateVars,
        Running, Clean, Drift, NoBaseline, Crash
  <2>4. DriftExplained'
    BY <1>4, <2>1, <2>2 DEF CheckHash, DriftExplained
  <2> QED
    BY <2>3, <2>4
<1>5. CASE CheckReport
  BY <1>5 DEF CheckReport, CheckExit, CheckKnows, DriftExplained, shared, updateVars,
     Running, Clean, Drift, NoBaseline, Crash
<1>6. ASSUME NEW f \in Files, NEW e \in Entries, Edit(f, e)
      PROVE  CheckKnows' /\ DriftExplained'
  <2>1. /\ \A g \in Files : cseen[g] \subseteq cseen'[g]
        /\ Checking => \A g \in Files : tree'[g] = tree[g] \/ tree'[g] \in cseen'[g]
    BY <1>6 DEF TypeOK, Edit, Noticed
  <2>2. UNCHANGED <<cpc, cexp, cbase, ctodo, cdrift, cexit>>
    BY <1>6 DEF Edit
  <2>3. /\ \A d \in cdrift : d.file \in Files
        /\ \A g \in DOMAIN cbase \cup cexp : cbase # None => g \in Files
    BY BaselineMap DEF TypeOK
  <2>4. CheckKnows'
    BY <2>1, <2>2, <2>3 DEF CheckKnows
  <2>5. DriftExplained'
    BY <2>1, <2>2, <2>3 DEF DriftExplained
  <2> QED
    BY <2>4, <2>5
<1>7. CASE UNCHANGED checkVars /\ UNCHANGED tree
  BY <1>7 DEF CheckKnows, DriftExplained, checkVars
<1>8. ASSUME NEW m \in Manifests, EditManifest(m) PROVE UNCHANGED checkVars /\ UNCHANGED tree
  BY <1>8 DEF EditManifest
<1>9. StartUpdate \/ UpdateStep \/ UpdateKilled => UNCHANGED checkVars /\ UNCHANGED tree
  BY DEF StartUpdate, UpdateStep, UpdateHash, UpdateRefuse, UpdateOpen, UpdateWrite,
     UpdateKilled, shared
<1>10. UNCHANGED vars => UNCHANGED checkVars /\ UNCHANGED tree
  BY DEF vars, shared
<1> QED
  BY <1>1, <1>2, <1>3, <1>4, <1>5, <1>6, <1>7, <1>8, <1>9, <1>10 DEF Next, CheckStep

\* The same for a snapshot process.
LEMMA UpdateStepKeepsKnowledge ==
  ASSUME TypeOK, UpdateKnows, [Next]_vars
  PROVE  UpdateKnows'
<1> USE DEF Updating
<1>1. CASE StartUpdate
  BY <1>1, BaselineMap DEF TypeOK, StartUpdate, UpdateKnows, Runnable, shared, Running, Clean
<1>2. ASSUME NEW f \in Files, UpdateHash(f) PROVE UpdateKnows'
  <2>1. upc = "hash" /\ f \in utodo /\ tree[f] \in useen[f] /\ uexit = Running
    BY <1>2 DEF UpdateHash, UpdateKnows, Foremost
  <2>2. CASE Sha256(f) = NoDigest
    BY <1>2, <2>1, <2>2
    DEF TypeOK, UpdateHash, UpdateKnows, shared, Running, Clean
  <2>3. CASE Sha256(f) # NoDigest
    <3>1. Sha256(f) = tree[f]
      BY <2>3 DEF Sha256
    <3>2. /\ DOMAIN ufiles' = DOMAIN ufiles \cup {f}
          /\ ufiles'[f] = tree[f]
          /\ \A g \in DOMAIN ufiles' : g # f => ufiles'[g] = ufiles[g]
      BY <1>2, <2>3, <3>1 DEF UpdateHash
    <3> QED
      BY <1>2, <2>1, <2>3, <3>2
      DEF TypeOK, UpdateHash, UpdateKnows, shared, Running, Clean
  <2> QED
    BY <2>2, <2>3
<1>3. CASE UpdateRefuse
  BY <1>3 DEF UpdateRefuse, UpdateExit, UpdateKnows, shared, Running, Clean, Drift
<1>4. CASE UpdateOpen
  BY <1>4 DEF UpdateOpen, UpdateExit, UpdateKnows, Refused, Running, Clean, Drift
<1>5. CASE UpdateWrite
  BY <1>5 DEF UpdateWrite, UpdateExit, UpdateKnows, Running, Clean, Drift
<1>6. CASE UpdateKilled
  BY <1>6 DEF UpdateKilled, UpdateExit, UpdateKnows, shared, Running, Clean, Killed
<1>7. ASSUME NEW f \in Files, NEW e \in Entries, Edit(f, e) PROVE UpdateKnows'
  <2>1. /\ \A g \in Files : useen[g] \subseteq useen'[g]
        /\ Updating => \A g \in Files : tree'[g] = tree[g] \/ tree'[g] \in useen'[g]
    BY <1>7 DEF TypeOK, Edit, Noticed
  <2>2. DOMAIN ufiles \subseteq Files
    BY BaselineMap DEF TypeOK
  <2> QED
    BY <1>7, <2>1, <2>2 DEF Edit, UpdateKnows
<1>8. CASE UNCHANGED updateVars /\ UNCHANGED tree
  BY <1>8 DEF UpdateKnows, updateVars
<1>9. ASSUME NEW m \in Manifests, EditManifest(m) PROVE UNCHANGED updateVars /\ UNCHANGED tree
  BY <1>9 DEF EditManifest
<1>10. StartCheck \/ CheckStep => UNCHANGED updateVars /\ UNCHANGED tree
  BY DEF StartCheck, CheckStep, CheckLoad, CheckStat, CheckHash, CheckReport, shared
<1>11. UNCHANGED vars => UNCHANGED updateVars /\ UNCHANGED tree
  BY DEF vars, shared
<1> QED
  BY <1>1, <1>2, <1>3, <1>4, <1>5, <1>6, <1>7, <1>8, <1>9, <1>10, <1>11
  DEF Next, UpdateStep

LEMMA Invariance == Spec => []GuardInv
<1>1. Init => CheckKnows /\ DriftExplained /\ UpdateKnows
  BY BaselineMap, NoneIsNoBaseline
  DEF Init, CheckKnows, DriftExplained, UpdateKnows, Checking, Updating,
      Running, Clean, Drift, NoBaseline, Crash
<1>2. TypeOK /\ CheckKnows /\ DriftExplained /\ UpdateKnows /\ [Next]_vars
      => CheckKnows' /\ DriftExplained' /\ UpdateKnows'
  BY CheckStepKeepsKnowledge, UpdateStepKeepsKnowledge
<1> QED
  BY <1>1, <1>2, TypeCorrect, PTL DEF Spec, GuardInv

\* NoFalseClean: a green check vouches for every file in scope, whatever the
\* developer and a concurrent snapshot did during it.
THEOREM CleanIsEarned == Spec => []NoFalseClean
<1>1. GuardInv => NoFalseClean
  <2> SUFFICES ASSUME GuardInv, cexit = Clean, NEW f \in DOMAIN cbase \cup cexp
               PROVE  f \in DOMAIN cbase /\ cbase[f] \in cseen[f]
    BY DEF NoFalseClean
  <2>1. Accounted(f) /\ cdrift = {}
    BY DEF GuardInv, CheckKnows
  <2> QED
    BY <2>1 DEF Accounted
<1> QED
  BY <1>1, Invariance, PTL

\* NoFalseDrift: every drift line names a file that really was that way.
THEOREM DriftIsEarned == Spec => []NoFalseDrift
<1>1. GuardInv => NoFalseDrift
  BY DEF GuardInv, CheckKnows, DriftExplained, NoFalseDrift
<1> QED
  BY <1>1, Invariance, PTL

\* SnapshotFaithful: a successful snapshot is complete and taken from the tree.
THEOREM SnapshotIsFaithful == Spec => []SnapshotFaithful
<1>1. GuardInv => SnapshotFaithful
  BY DEF GuardInv, UpdateKnows, SnapshotFaithful
<1> QED
  BY <1>1, Invariance, PTL

\* RoundTrip: on a quiet tree a check accepts what a snapshot wrote.
THEOREM RoundTripIsClean == Spec => []RoundTrip
<1>1. GuardInv => RoundTrip
  <2> SUFFICES ASSUME GuardInv, upc = "done", uexit = Clean, cpc = "done",
                      cbase = ufiles, cexp = uexp,
                      \A f \in Files : cseen[f] = {tree[f]} /\ useen[f] = {tree[f]}
               PROVE  cexit = Clean
    BY DEF RoundTrip
  <2>1. /\ cbase \in Baselines /\ cbase # None
        /\ DOMAIN cbase = cexp /\ cexp \subseteq Files
        /\ \A f \in cexp : cbase[f] = tree[f] /\ cbase[f] \in Contents
    BY NoneIsNoBaseline, BaselineMap DEF GuardInv, TypeOK, UpdateKnows
  <2>2. cexit # Running /\ cexit # NoBaseline
    BY <2>1 DEF GuardInv, CheckKnows
  <2>3. cexit # Crash
    BY <2>1, SentinelAssumption DEF GuardInv, CheckKnows
  <2>4. ASSUME NEW d \in cdrift PROVE FALSE
    <3>1. d.file \in cexp /\ Explained(d) /\ d.kind \in Kinds
      BY <2>1, <2>4 DEF GuardInv, DriftExplained, TypeOK
    <3>2. cseen[d.file] = {cbase[d.file]} /\ cbase[d.file] \in Contents
      BY <2>1, <3>1
    <3> QED
      BY <2>1, <3>1, <3>2, SentinelAssumption DEF Explained, Kinds
  <2>5. cexit # Drift
    BY <2>4 DEF GuardInv, CheckKnows
  <2> QED
    BY <2>2, <2>3, <2>5 DEF GuardInv, TypeOK
<1> QED
  BY <1>1, Invariance, PTL
=============================================================================

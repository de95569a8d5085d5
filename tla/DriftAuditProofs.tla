-------------------------- MODULE DriftAuditProofs --------------------------
(* Proofs about DriftAudit, for any branch, any drift its commits show and any *)
(* options: the inductive invariant DriftInv, and what follows from it.        *)
EXTENDS DriftAudit, TLAPS

\* The seven questions are distinct.
LEMMA AskFacts ==
  /\ Len(Asks) = 7
  /\ \A i \in 1..7 : Asks[i] \in Kinds
  /\ \A i, j \in 1..7 : Asks[i] = Asks[j] => i = j
  /\ \A kind \in Kinds : \E i \in 1..7 : Asks[i] = kind
  /\ Asks[1] = "names" /\ Asks[2] = "log" /\ Asks[6] = "unlogged"
  /\ "body" \in Kinds /\ "unlogged" \in Kinds
  /\ OfTheRange \subseteq Kinds /\ OfTheTree \subseteq Kinds
<1>1. /\ Len(Asks) = 7
      /\ Asks[1] = "names" /\ Asks[2] = "log" /\ Asks[3] = "added" /\ Asks[4] = "tree"
      /\ Asks[5] = "body" /\ Asks[6] = "unlogged" /\ Asks[7] = "checks"
  BY DEF Asks
<1>2. \A i \in 1..7 : i = 1 \/ i = 2 \/ i = 3 \/ i = 4 \/ i = 5 \/ i = 6 \/ i = 7
  OBVIOUS
<1>3. Kinds = {Asks[i] : i \in 1..7}
  BY <1>1 DEF Kinds
<1>4. 1 \in 1..7 /\ 2 \in 1..7 /\ 3 \in 1..7 /\ 4 \in 1..7 /\ 5 \in 1..7 /\ 6 \in 1..7 /\ 7 \in 1..7
  OBVIOUS
<1> HIDE DEF Asks
<1>5. /\ "names" \in Kinds /\ "added" \in Kinds /\ "tree" \in Kinds /\ "body" \in Kinds
      /\ "unlogged" \in Kinds /\ "checks" \in Kinds
  BY <1>1, <1>3, <1>4
<1>6. OfTheRange \subseteq Kinds /\ OfTheTree \subseteq Kinds
  BY <1>5 DEF OfTheRange, OfTheTree
<1>7. \A i, j \in 1..7 : Asks[i] = Asks[j] => i = j
  BY <1>1, <1>2
<1> QED
  BY <1>1, <1>3, <1>5, <1>6, <1>7

\* The audits are the runs and the clone's, which is none of them.
LEMMA AuditFacts ==
  /\ MaxCommits \in Nat /\ Local \notin Runs /\ Local \in Audits /\ Runs \subseteq Audits
  /\ \A p \in Audits : p = Local \/ p \in Runs
  /\ Commits = 0..MaxCommits /\ Runs \subseteq Nat
BY DriftAssumption DEF Audits, Runs, Commits

\* What a commit shows is of the range or of the tree; the messages up to a later
\* commit name at least the files those up to an earlier one do.
LEMMA BranchFacts ==
  /\ \A c \in Commits : Smells[c] \subseteq OfTheRange \cup OfTheTree
  /\ \A c, d \in Commits : c <= d /\ Unlogged(c, d) => Unlogged(c, c)
BY BranchAssumption DEF Unlogged

LEMMA AppendFacts ==
  ASSUME NEW S, NEW s \in Seq(S), NEW x \in S
  PROVE  /\ Append(s, x) \in Seq(S)
         /\ DOMAIN Append(s, x) = DOMAIN s \cup {Len(s) + 1} /\ Len(s) + 1 \notin DOMAIN s
         /\ \A i \in DOMAIN s : Append(s, x)[i] = s[i]
         /\ Append(s, x)[Len(s) + 1] = x
OBVIOUS

LEMMA ElementFact ==
  ASSUME NEW S, NEW s \in Seq(S), NEW i \in DOMAIN s
  PROVE  s[i] \in S
OBVIOUS

LEMMA CommentFacts ==
  ASSUME TypeOK, NEW i \in DOMAIN comments
  PROVE  comments[i].run \in Runs /\ comments[i].head \in Nat
<1>1. comments \in Seq([run : Runs, head : Commits, found : SUBSET Kinds])
  BY DEF TypeOK
<1>2. comments[i] \in [run : Runs, head : Commits, found : SUBSET Kinds]
  BY <1>1, ElementFact
<1> QED
  BY <1>2, AuditFacts

\* An audit none of whose state changes fits as before.
LEMMA RunStays ==
  ASSUME NEW r \in Runs, RunFits(r),
         job'[r] = job[r], history'[r] = history[r], opts'[r] = opts[r], found'[r] = found[r],
         at'[r] = at[r], eventBody'[r] = eventBody[r], pc'[r] = pc[r], asked'[r] = asked[r],
         exit'[r] = exit[r], changed'[r] = changed[r], claims'[r] = claims[r]
  PROVE  RunFits(r)'
BY DEF RunFits, Finished, Working, Auditing, Truth

LEMMA LocalStays ==
  ASSUME LocalFits, opts'[Local] = opts[Local], found'[Local] = found[Local],
         at'[Local] = at[Local], pc'[Local] = pc[Local], asked'[Local] = asked[Local],
         exit'[Local] = exit[Local], seen'[Local] = seen[Local], changed'[Local] = changed[Local],
         claims'[Local] = claims[Local], UNCHANGED <<tree, trees>>
  PROVE  LocalFits'
BY DEF LocalFits, Auditing, Asked, Caused, Shown, NotShown

\* Nothing about the branch and its runs depends on the audits' own state.
LEMMA GroupStays ==
  ASSUME GroupFits, UNCHANGED <<at, tip, job, doomed, artifacts, comments>>
  PROVE  GroupFits'
BY DEF GroupFits, Active, Working, Newest, Pushed

LEMMA ReportsStay ==
  ASSUME ReportsAreOfTheirCommit, CommentsInOrder, NewestIsReported,
         UNCHANGED <<tip, job, comments, artifacts, eventBody>>
  PROVE  ReportsAreOfTheirCommit' /\ CommentsInOrder' /\ NewestIsReported'
BY DEF ReportsAreOfTheirCommit, CommentsInOrder, NewestIsReported, Newest, Pushed, Truth

------------------------------------------------------------------------------
(* The steps of an audit *)

LEMMA EnsureRefsStep ==
  ASSUME DriftInv, NEW p \in Audits, EnsureRefs(p)
  PROVE  DriftInv'
<1> USE AuditFacts
<1>1. /\ pc[p] = "refs"
      /\ UNCHANGED <<at, tree, tip, opts, asked, found, changed, claims, history, forge, seen, trees>>
      /\ \/ pc' = [pc EXCEPT ![p] = "done"] /\ exit' = [exit EXCEPT ![p] = "2"] /\ "badref" \in opts[p]
         \/ pc' = [pc EXCEPT ![p] = "ask"] /\ exit' = exit /\ "badref" \notin opts[p]
  BY DEF EnsureRefs, End, Goto, Refuses, place, watched
<1>2. TypeOK'
  BY <1>1 DEF DriftInv, TypeOK, forge
<1>3. \A q \in Audits : q # p => pc'[q] = pc[q] /\ exit'[q] = exit[q]
  BY <1>1 DEF DriftInv, TypeOK
<1>4. LocalFits'
  <2>1. CASE p # Local
    BY <1>1, <1>3, <2>1, LocalStays DEF DriftInv
  <2>2. CASE p = Local
    <3>1. /\ at[Local] \in seen[Local] /\ exit[Local] = "running"
          /\ UNCHANGED <<at, tree, opts, asked, found, changed, claims, seen, trees>>
      BY <1>1, <2>2 DEF DriftInv, LocalFits, Auditing
    <3>2. \/ pc'[Local] = "done" /\ exit'[Local] = "2"
          \/ pc'[Local] = "ask" /\ exit'[Local] = "running" /\ "badref" \notin opts[Local]
      BY <1>1, <2>2, <3>1 DEF DriftInv, TypeOK
    <3>3. pc[Local] = "refs" /\ asked[Local] < Len(Asks)
      BY <1>1, <2>2 DEF DriftInv, LocalFits
    <3>4. \A kind : Asked(kind)' = Asked(kind) /\ Caused(kind)' = Caused(kind)
      BY <3>1 DEF Asked, Caused, Shown, NotShown
    <3> QED
      BY <3>1, <3>2, <3>3, <3>4 DEF DriftInv, LocalFits, Auditing
  <2> QED
    BY <2>1, <2>2
<1>5. ASSUME NEW r \in Runs PROVE RunFits(r)'
  <2>1. CASE p # r
    BY <1>1, <1>3, <2>1, RunStays DEF DriftInv, forge
  <2>2. CASE p = r
    <3>1. RunFits(r) /\ Working(r)
      BY <1>1, <2>2 DEF DriftInv, RunFits, Auditing
    <3>2. "badref" \notin opts[r]
      BY <3>1 DEF RunFits
    <3>3. pc'[r] = "ask"
      BY <1>1, <2>2, <3>2 DEF DriftInv, TypeOK
    <3> QED
      BY <1>1, <2>2, <3>1, <3>3 DEF RunFits, Working, Auditing, Finished, Truth, forge
  <2> QED
    BY <2>1, <2>2
<1>6. GroupFits' /\ OneRecordPerHead' /\ ReportsAreOfTheirCommit' /\ CommentsInOrder' /\ NewestIsReported'
  BY <1>1, GroupStays, ReportsStay DEF DriftInv, OneRecordPerHead, forge
<1> QED
  BY <1>2, <1>4, <1>5, <1>6 DEF DriftInv

\* A question is about the range, the tree or the event, and its kind tells which.
LEMMA KindFacts ==
  /\ \A kind \in Kinds : \/ kind \in OfTheRange \/ kind \in OfTheTree
                         \/ kind \in {"log", "body", "unlogged"}
  /\ \A kind \in OfTheRange : kind \notin OfTheTree /\ kind \notin {"log", "body", "unlogged"}
  /\ \A kind \in OfTheTree : kind \notin {"log", "body", "unlogged"}
<1>1. \A kind \in Kinds : kind \in {"names", "log", "added", "tree", "body", "unlogged", "checks"}
  <2>1. Asks \in [1..7 -> {"names", "log", "added", "tree", "body", "unlogged", "checks"}] /\ Len(Asks) = 7
    BY DEF Asks
  <2> QED
    BY <2>1, Zenon DEF Kinds
<1> QED
  BY <1>1 DEF OfTheRange, OfTheTree

\* An answer in the clone is true of the commit HEAD names or of the tree as it is;
\* that of "unlogged", of the commits whose paths and messages were read.
LEMMA AnswerHasACause ==
  ASSUME DriftInv, pc[Local] = "ask", NEW i \in 1..7, i = asked[Local] + 1, Asked(Asks[i])
  PROVE  IF Answer(Local, Asks[i]) THEN Shown(Asks[i]) ELSE NotShown(Asks[i])
<1> DEFINE kind == Asks[i]
<1>1. TypeOK /\ LocalFits /\ at[Local] \in seen[Local] /\ tree \in trees /\ "badref" \notin opts[Local]
  BY DEF DriftInv, LocalFits, Auditing
<1>2. kind \in Kinds /\ (kind = "unlogged" => asked[Local] >= 2)
  <2>1. kind \in Kinds
    BY AskFacts
  <2>2. kind = "unlogged" => i = 6
    BY AskFacts
  <2>3. asked[Local] \in Int
    BY <1>1, AuditFacts, AskFacts DEF TypeOK
  <2> QED
    BY <2>1, <2>2, <2>3
<1>3. kind \notin {"log", "body"} /\ (kind = "checks" => "checks" \in opts[Local])
  BY DEF Asked
<1> HIDE DEF kind
<1>4. CASE kind \in OfTheRange
  <2>1. kind \notin WorkTree(Local) /\ kind # "unlogged" /\ kind # "body"
    BY <1>1, <1>4, KindFacts, DriftAssumption DEF WorkTree, TypeOK
  <2>2. Answer(Local, kind) <=> kind \in Smells[at[Local]]
    BY <1>1, <1>4, <2>1 DEF Answer, HeadCommit
  <2> QED
    BY <1>1, <1>4, <2>2 DEF Shown, NotShown, kind
<1>5. CASE kind \in OfTheTree
  <2>1. Answer(Local, kind) <=> kind \in tree
    BY <1>3, <1>5, KindFacts DEF Answer, WorkTree
  <2> QED
    BY <1>1, <1>5, <2>1 DEF Shown, NotShown, kind
<1>6. CASE kind = "unlogged"
  <2>1. /\ changed[Local] \in seen[Local] /\ claims[Local] \in seen[Local]
        /\ changed[Local] <= claims[Local]
        /\ changed[Local] \in Commits /\ claims[Local] \in Commits
    <3>1. changed[Local] \in Commits /\ claims[Local] \in Commits
      BY <1>1, Zenon DEF TypeOK, Audits
    <3>2. asked[Local] \in 0..7
      BY <1>1, AuditFacts, AskFacts DEF TypeOK
    <3>3. /\ asked[Local] >= 1 => changed[Local] \in seen[Local]
          /\ asked[Local] >= 2 => claims[Local] \in seen[Local] /\ changed[Local] <= claims[Local]
      BY <1>1, Zenon DEF LocalFits
    <3>4. asked[Local] >= 2 /\ asked[Local] >= 1
      BY <1>2, <1>6, <3>2
    <3> QED
      BY <3>1, <3>3, <3>4
  <2>2. kind \notin WorkTree(Local)
    BY <1>1, <1>6, KindFacts, DriftAssumption DEF WorkTree, TypeOK
  <2>3. Answer(Local, kind) <=> Unlogged(changed[Local], claims[Local])
    BY <1>1, <1>6, <2>2, KindFacts DEF Answer
  <2>4. Answer(Local, kind) => Shown(kind)
    BY <1>6, <2>1, <2>3, BranchFacts DEF Shown
  <2>5. ~Answer(Local, kind) => NotShown(kind)
    BY <1>6, <2>1, <2>3 DEF NotShown
  <2> QED
    BY <2>4, <2>5 DEF kind
<1> QED
  BY <1>2, <1>3, <1>4, <1>5, <1>6, KindFacts

\* An answer in a run is true of the commit it checked out.
LEMMA AnswerIsTrue ==
  ASSUME DriftInv, NEW r \in Runs, pc[r] = "ask", NEW i \in 1..7, i = asked[r] + 1
  PROVE  Answer(r, Asks[i]) <=> Asks[i] \in Truth(r, at[r])
<1> DEFINE kind == Asks[i]
<1>1. TypeOK /\ RunFits(r) /\ at[r] \in Commits /\ r # Local
  BY AuditFacts DEF DriftInv, TypeOK
<1>2. opts[r] = {"history", "checks"} /\ Working(r)
  BY <1>1 DEF RunFits, Auditing
<1>3. kind \in Kinds /\ (kind = "unlogged" => changed[r] = at[r] /\ claims[r] = at[r])
  <2>1. kind \in Kinds
    BY AskFacts
  <2>2. kind = "unlogged" => i = 6
    BY AskFacts
  <2>3. asked[r] \in Int
    BY <1>1, AuditFacts, AskFacts DEF TypeOK
  <2> QED
    BY <1>1, <1>2, <2>1, <2>2, <2>3 DEF RunFits
<1>4. Smells[at[r]] \subseteq OfTheRange \cup OfTheTree
  BY <1>1, BranchFacts
<1>5. "badref" \notin opts[r] /\ "checks" \in opts[r]
  BY <1>2
<1> HIDE DEF kind
<1>6. WorkTree(r) = Smells[at[r]] \cap OfTheTree
  BY <1>1 DEF WorkTree
<1>7. kind \in OfTheRange \/ kind \in OfTheTree \/ kind \in {"log", "body", "unlogged"}
  BY <1>3, KindFacts
<1>8. Answer(r, kind) <=> kind \in Truth(r, at[r])
  BY <1>1, <1>3, <1>4, <1>5, <1>6, <1>7, KindFacts DEF Answer, HeadCommit, Truth
<1> QED
  BY <1>8 DEF kind

LEMMA AskStep ==
  ASSUME DriftInv, NEW p \in Audits, Ask(p)
  PROVE  DriftInv'
<1> USE AuditFacts
<1> DEFINE i == asked[p] + 1
           yes == Answer(p, Asks[i])
<1>1. /\ pc[p] = "ask"
      /\ UNCHANGED <<at, tree, tip, opts, exit, history, forge, seen, trees>>
      /\ changed' = [changed EXCEPT ![p] = IF Asks[i] = "names" THEN at[p] ELSE @]
      /\ claims' = [claims EXCEPT ![p] = IF Asks[i] = "log" THEN at[p] ELSE @]
      /\ found' = [found EXCEPT ![p] = IF yes THEN @ \cup {Asks[i]} ELSE @]
      /\ asked' = [asked EXCEPT ![p] = i]
      /\ pc' = [pc EXCEPT ![p] = IF i = Len(Asks) THEN "finish" ELSE "ask"]
  BY DEF Ask, Goto, place, watched, HeadCommit
<1>2. TypeOK /\ asked[p] \in 0..7 /\ asked[p] < 7 /\ i \in 1..7 /\ Asks[i] \in Kinds
  <2>1. asked[p] < Len(Asks)
    <3>1. CASE p = Local
      BY <1>1, <3>1 DEF DriftInv, LocalFits
    <3>2. CASE p \in Runs
      BY <1>1, <3>2 DEF DriftInv, RunFits, Auditing
    <3> QED
      BY <3>1, <3>2
  <2>2. asked[p] \in 0..7 /\ TypeOK
    BY AskFacts DEF DriftInv, TypeOK
  <2> QED
    BY <2>1, <2>2, AskFacts
<1>3. /\ asked'[p] = i /\ found'[p] = (IF yes THEN found[p] \cup {Asks[i]} ELSE found[p])
      /\ pc'[p] = (IF i = 7 THEN "finish" ELSE "ask")
      /\ \A q \in Audits : q # p =>
           /\ pc'[q] = pc[q] /\ found'[q] = found[q] /\ asked'[q] = asked[q]
           /\ changed'[q] = changed[q] /\ claims'[q] = claims[q]
  BY <1>1, <1>2, AskFacts DEF TypeOK
<1>4. /\ changed'[p] = (IF i = 1 THEN at[p] ELSE changed[p])
      /\ claims'[p] = (IF i = 2 THEN at[p] ELSE claims[p])
  <2>1. (Asks[i] = "names" <=> i = 1) /\ (Asks[i] = "log" <=> i = 2)
    BY <1>2, AskFacts
  <2> QED
    BY <1>1, <1>2, <2>1 DEF TypeOK
<1> HIDE DEF i, yes
<1>5. TypeOK'
  <2>1. found' \in [Audits -> SUBSET Kinds] /\ asked' \in [Audits -> 0..Len(Asks)]
    <3>1. Len(Asks) = 7
      BY AskFacts
    <3> HIDE AuditFacts
    <3> QED
      BY <1>1, <1>2, <3>1 DEF TypeOK
  <2>2. changed' \in [Audits -> Commits] /\ claims' \in [Audits -> Commits]
    <3> HIDE AuditFacts
    <3> QED
      BY <1>1, <1>2 DEF TypeOK
  <2>3. pc' \in [Audits -> {"idle", "refs", "ask", "finish", "done"}]
    BY <1>1, <1>2 DEF TypeOK
  <2> QED
    BY <1>1, <1>2, <2>1, <2>2, <2>3 DEF TypeOK, forge
<1>6. LocalFits'
  <2>1. CASE p # Local
    BY <1>1, <1>3, <2>1, LocalStays DEF DriftInv
  <2>2. CASE p = Local
    <3>1. /\ LocalFits /\ at[Local] \in seen[Local] /\ "badref" \notin opts[Local]
          /\ exit[p] = "running" /\ tree \in trees
          /\ \A c \in seen[p] : c <= at[p]
      BY <1>1, <2>2 DEF DriftInv, LocalFits, Auditing
    <3>2. Asked(Asks[i]) => IF yes THEN Shown(Asks[i]) ELSE NotShown(Asks[i])
      BY <1>1, <1>2, <2>2, AnswerHasACause DEF i, yes
    <3>3. Asks[i] \notin found[p] /\ \A j \in 1..asked[p] : Asks[j] # Asks[i]
      <4>1. \A j \in 1..asked[p] : Asks[j] # Asks[i]
        BY <1>2, AskFacts DEF i
      <4> QED
        BY <2>2, <3>1, <4>1 DEF LocalFits
    <3>4. \A j \in 1..asked'[p] : j = i \/ j \in 1..asked[p]
      BY <1>2, <1>3 DEF i
    <3>5. \A kind : /\ Asked(kind)' = Asked(kind) /\ Shown(kind)' = Shown(kind)
                    /\ NotShown(kind)' = NotShown(kind)
      BY <1>1 DEF Asked, Shown, NotShown
    <3>6. ASSUME NEW j \in 1..asked'[p], Asked(Asks[j])
          PROVE  IF Asks[j] \in found'[p] THEN Shown(Asks[j]) ELSE NotShown(Asks[j])
      <4>1. CASE j = i
        BY <1>3, <3>2, <3>3, <3>6, <4>1
      <4>2. CASE j \in 1..asked[p]
        <5>1. Caused(Asks[j])
          BY <2>2, <3>1, <3>6, <4>2 DEF LocalFits
        <5>2. Asks[j] \in found'[p] <=> Asks[j] \in found[p]
          BY <1>3, <3>3, <4>2
        <5> QED
          BY <2>2, <5>1, <5>2 DEF Caused
      <4> QED
        BY <3>4, <4>1, <4>2
    <3>7. \A j \in 1..asked'[p] : Asked(Asks[j])' => Caused(Asks[j])'
      BY <2>2, <3>5, <3>6 DEF Caused
    <3>8. /\ pc'[p] \in {"ask", "finish"} /\ UNCHANGED <<exit, opts, at, seen, tree, trees>>
          /\ pc'[p] = "finish" => asked'[p] = 7
          /\ pc'[p] = "ask" => asked'[p] < 7
      BY <1>1, <1>2, <1>3
    <3>9. found'[p] \subseteq {Asks[j] : j \in 1..asked'[p]}
      <4>1. found[p] \subseteq {Asks[j] : j \in 1..asked[p]}
        BY <2>2, <3>1 DEF LocalFits
      <4> QED
        BY <1>2, <1>3, <4>1 DEF i
    <3>10. /\ asked'[p] >= 1 => changed'[p] \in seen[p]
           /\ asked'[p] >= 2 => claims'[p] \in seen[p] /\ changed'[p] <= claims'[p]
      <4>1. /\ asked[p] >= 1 => changed[p] \in seen[p]
            /\ asked[p] >= 2 => claims[p] \in seen[p] /\ changed[p] <= claims[p]
        BY <2>2, <3>1 DEF LocalFits
      <4>2. i = asked[p] + 1 /\ asked'[p] = i /\ asked[p] \in 0..7
        BY <1>2, <1>3 DEF i
      <4> QED
        BY <1>4, <2>2, <3>1, <4>1, <4>2
    <3> HIDE AuditFacts
    <3> QED
      BY <1>1, <2>2, <3>1, <3>7, <3>8, <3>9, <3>10, AskFacts DEF LocalFits, Auditing
  <2> QED
    BY <2>1, <2>2
<1>7. ASSUME NEW r \in Runs PROVE RunFits(r)'
  <2>1. CASE p # r
    BY <1>1, <1>3, <2>1, RunStays DEF DriftInv, forge
  <2>2. CASE p = r
    <3>1. RunFits(r) /\ Working(r)
      BY <1>1, <2>2 DEF DriftInv, RunFits, Auditing
    <3>2. /\ opts[r] = {"history", "checks"} /\ history[r] = <<>>
          /\ found[r] = Truth(r, at[r]) \cap {Asks[j] : j \in 1..asked[r]}
      BY <1>1, <2>2, <3>1 DEF RunFits, Auditing
    <3>3. yes <=> Asks[i] \in Truth(r, at[r])
      BY <1>1, <1>2, <2>2, AnswerIsTrue DEF i, yes
    <3>4. {Asks[j] : j \in 1..i} = {Asks[j] : j \in 1..asked[p]} \cup {Asks[i]}
      BY <1>2 DEF i
    <3>5. found'[r] = Truth(r, at[r]) \cap {Asks[j] : j \in 1..asked'[r]}
      BY <1>3, <2>2, <3>2, <3>3, <3>4
    <3>6. Truth(r, at[r])' = Truth(r, at[r])
      BY <1>1 DEF Truth, forge
    <3>7. /\ asked'[r] >= 1 => changed'[r] = at[r]
          /\ asked'[r] >= 2 => claims'[r] = at[r]
      BY <1>2, <1>3, <1>4, <2>2, <3>1 DEF RunFits, i
    <3> QED
      BY <1>1, <1>2, <1>3, <2>2, <3>1, <3>2, <3>5, <3>6, <3>7, AskFacts
      DEF RunFits, Working, Auditing, Finished, forge
  <2> QED
    BY <2>1, <2>2
<1>8. GroupFits' /\ OneRecordPerHead' /\ ReportsAreOfTheirCommit' /\ CommentsInOrder' /\ NewestIsReported'
  BY <1>1, GroupStays, ReportsStay DEF DriftInv, OneRecordPerHead, forge
<1> QED
  BY <1>5, <1>6, <1>7, <1>8 DEF DriftInv

LEMMA FinishStep ==
  ASSUME DriftInv, NEW p \in Audits, Finish(p)
  PROVE  DriftInv'
<1> USE AuditFacts
<1> DEFINE rec == [head |-> at[p], base |-> 0, found |-> found[p]]
           new == "history" \in opts[p] /\ ~Listed(history[p], at[p])
<1>1. /\ pc[p] = "finish"
      /\ UNCHANGED <<at, tree, tip, opts, asked, found, changed, claims, forge, seen, trees>>
      /\ history' = IF new THEN [history EXCEPT ![p] = Append(@, rec)] ELSE history
      /\ pc' = [pc EXCEPT ![p] = "done"]
      /\ \E code \in {"0", "1"} : exit' = [exit EXCEPT ![p] = code]
      /\ p \in Runs /\ "strict" \notin opts[p] => exit' = [exit EXCEPT ![p] = "0"]
  BY DEF Finish, End, Goto, HeadCommit, place, watched
<1>2. TypeOK /\ history[p] \in Seq(Records) /\ rec \in Records
  BY DEF DriftInv, TypeOK, Records
<1>3. /\ Append(history[p], rec) \in Seq(Records)
      /\ DOMAIN Append(history[p], rec) = DOMAIN history[p] \cup {Len(history[p]) + 1}
      /\ \A j \in DOMAIN history[p] : Append(history[p], rec)[j] = history[p][j]
      /\ Append(history[p], rec)[Len(history[p]) + 1] = rec
  BY <1>2, AppendFacts
<1>4. /\ history'[p] = (IF new THEN Append(history[p], rec) ELSE history[p])
      /\ pc'[p] = "done" /\ exit'[p] \in {"0", "1"}
      /\ \A q \in Audits : q # p => pc'[q] = pc[q] /\ exit'[q] = exit[q] /\ history'[q] = history[q]
  BY <1>1, <1>2 DEF TypeOK
<1>5. rec.head = at[p]
  OBVIOUS
<1>6. TypeOK'
  <2>1. history' \in [Audits -> Seq(Records)]
    BY <1>1, <1>2, <1>3 DEF TypeOK
  <2>2. /\ pc' \in [Audits -> {"idle", "refs", "ask", "finish", "done"}]
        /\ exit' \in [Audits -> {"running", "0", "1", "2"}]
    BY <1>1, <1>2 DEF TypeOK
  <2> HIDE DEF rec, new
  <2> QED
    BY <1>1, <1>2, <2>1, <2>2 DEF TypeOK, forge
<1>7. OneRecordPerHead'
  <2> SUFFICES ASSUME NEW q \in Audits, NEW j \in DOMAIN history'[q], NEW k \in DOMAIN history'[q],
                      history'[q][j].head = history'[q][k].head
               PROVE  j = k
    BY DEF OneRecordPerHead
  <2>1. CASE q # p \/ ~new
    BY <1>4, <2>1 DEF DriftInv, OneRecordPerHead
  <2>2. CASE q = p /\ new
    <3>1. \A l \in DOMAIN history[p] : history[p][l].head # at[p]
      BY <2>2 DEF Listed
    <3>2. history'[q] = Append(history[p], rec)
      BY <1>4, <2>2
    <3>3. \A l \in DOMAIN history'[q] : l \in DOMAIN history[p] \/ l = Len(history[p]) + 1
      BY <1>3, <3>2
    <3>4. /\ \A l \in DOMAIN history[p] : history'[q][l].head = history[p][l].head
          /\ history'[q][Len(history[p]) + 1].head = at[p]
      BY <1>3, <1>5, <3>2
    <3>5. \A l, n \in DOMAIN history[p] : history[p][l].head = history[p][n].head => l = n
      BY DEF DriftInv, OneRecordPerHead
    <3> HIDE DEF rec, new
    <3> QED
      BY <3>1, <3>3, <3>4, <3>5
  <2> QED
    BY <2>1, <2>2
<1>8. LocalFits'
  <2>1. CASE p # Local
    BY <1>1, <1>4, <2>1, LocalStays DEF DriftInv
  <2>2. CASE p = Local
    BY <1>1, <1>4, <2>2 DEF DriftInv, LocalFits, Auditing, Asked, Caused, Shown, NotShown
  <2> QED
    BY <2>1, <2>2
<1>9. ASSUME NEW r \in Runs PROVE RunFits(r)'
  <2>1. CASE p # r
    BY <1>1, <1>4, <2>1, RunStays DEF DriftInv, forge
  <2>2. CASE p = r
    <3>1. RunFits(r) /\ Working(r)
      BY <1>1, <2>2 DEF DriftInv, RunFits, Auditing
    <3>2. /\ opts[r] = {"history", "checks"} /\ history[r] = <<>> /\ asked[r] = Len(Asks)
          /\ found[r] = Truth(r, at[r]) \cap {Asks[j] : j \in 1..asked[r]}
      BY <1>1, <2>2, <3>1 DEF RunFits, Auditing
    <3>3. exit'[r] = "0"
      BY <1>1, <1>2, <2>2, <3>2 DEF TypeOK
    <3>4. history'[r] = <<rec>>
      BY <1>4, <2>2, <3>2 DEF Listed
    <3>5. Truth(r, at[r])' = Truth(r, at[r])
      BY <1>1 DEF Truth, forge
    <3> QED
      BY <1>1, <1>4, <2>2, <3>1, <3>2, <3>3, <3>4, <3>5 DEF RunFits, Working, Auditing, Finished, forge
  <2> QED
    BY <2>1, <2>2
<1>10. GroupFits' /\ ReportsAreOfTheirCommit' /\ CommentsInOrder' /\ NewestIsReported'
  BY <1>1, GroupStays, ReportsStay DEF DriftInv, forge
<1> QED
  BY <1>6, <1>7, <1>8, <1>9, <1>10 DEF DriftInv

------------------------------------------------------------------------------
(* The developer *)

LEMMA InvokeStep ==
  ASSUME DriftInv, Invoke
  PROVE  DriftInv'
<1> USE AuditFacts
<1>1. PICK options \in Options :
        /\ pc' = [pc EXCEPT ![Local] = "refs"] /\ opts' = [opts EXCEPT ![Local] = options]
        /\ asked' = [asked EXCEPT ![Local] = 0] /\ found' = [found EXCEPT ![Local] = {}]
        /\ exit' = [exit EXCEPT ![Local] = "running"]
        /\ seen' = [seen EXCEPT ![Local] = {at[Local]}]
        /\ trees' = {tree}
        /\ UNCHANGED <<at, tree, tip, changed, claims, history, forge>>
  BY DEF Invoke, Begin, Goto, place
<1>2. TypeOK
  BY DEF DriftInv
<1>3. options \subseteq Given
  BY DriftAssumption
<1>4. TypeOK'
  <2>1. opts' \in [Audits -> SUBSET Given] /\ asked' \in [Audits -> 0..Len(Asks)]
    BY <1>1, <1>2, <1>3, AskFacts DEF TypeOK
  <2>2. /\ pc' \in [Audits -> {"idle", "refs", "ask", "finish", "done"}]
        /\ exit' \in [Audits -> {"running", "0", "1", "2"}]
    BY <1>1, <1>2 DEF TypeOK
  <2>3. found' \in [Audits -> SUBSET Kinds] /\ seen' \in [Audits -> SUBSET Commits]
    <3>1. at[Local] \in Commits
      BY <1>2 DEF TypeOK
    <3> HIDE AuditFacts
    <3> QED
      BY <1>1, <1>2, <3>1 DEF TypeOK
  <2>4. trees' \in SUBSET Trees
    BY <1>1, <1>2 DEF TypeOK
  <2> QED
    BY <1>1, <1>2, <2>1, <2>2, <2>3, <2>4 DEF TypeOK, forge
<1>5. /\ pc'[Local] = "refs" /\ asked'[Local] = 0 /\ found'[Local] = {}
      /\ exit'[Local] = "running" /\ seen'[Local] = {at'[Local]} /\ tree' \in trees'
      /\ \A q \in Audits : q # Local =>
           /\ pc'[q] = pc[q] /\ opts'[q] = opts[q] /\ asked'[q] = asked[q]
           /\ found'[q] = found[q] /\ exit'[q] = exit[q]
  BY <1>1, <1>2 DEF TypeOK
<1>6. LocalFits'
  <2>1. at'[Local] <= at'[Local]
    BY <1>4 DEF TypeOK
  <2> QED
    BY <1>5, <2>1, AskFacts DEF LocalFits, Auditing
<1>7. ASSUME NEW r \in Runs PROVE RunFits(r)'
  BY <1>1, <1>5, RunStays DEF DriftInv, forge
<1>8. GroupFits' /\ OneRecordPerHead' /\ ReportsAreOfTheirCommit' /\ CommentsInOrder' /\ NewestIsReported'
  BY <1>1, GroupStays, ReportsStay DEF DriftInv, OneRecordPerHead, forge
<1> QED
  BY <1>4, <1>6, <1>7, <1>8 DEF DriftInv

LEMMA EditStep ==
  ASSUME DriftInv, Edit
  PROVE  DriftInv'
<1> USE AuditFacts
<1>1. /\ tree' \in Trees
      /\ trees' = IF Auditing(Local) THEN trees \cup {tree'} ELSE trees
      /\ UNCHANGED <<at, tip, audit, forge, seen>>
  BY DEF Edit
<1>2. UNCHANGED <<at, tip, pc, opts, asked, found, exit, changed, claims, history, seen>> /\ UNCHANGED forge
  BY <1>1 DEF audit
<1>3. TypeOK'
  BY <1>1, <1>2 DEF DriftInv, TypeOK, forge
<1>4. LocalFits'
  <2>1. trees \subseteq trees' /\ (Auditing(Local) => tree' \in trees')
    BY <1>1
  <2>2. \A kind : Asked(kind)' = Asked(kind) /\ (Caused(kind) => Caused(kind)')
    BY <1>2, <2>1 DEF Asked, Caused, Shown, NotShown
  <2>3. Auditing(Local)' = Auditing(Local)
    BY <1>2 DEF Auditing
  <2> QED
    BY <1>2, <2>1, <2>2, <2>3 DEF DriftInv, LocalFits
<1>5. ASSUME NEW r \in Runs PROVE RunFits(r)'
  BY <1>2, RunStays DEF DriftInv, forge
<1>6. GroupFits' /\ OneRecordPerHead' /\ ReportsAreOfTheirCommit' /\ CommentsInOrder' /\ NewestIsReported'
  BY <1>2, GroupStays, ReportsStay DEF DriftInv, OneRecordPerHead, forge
<1> QED
  BY <1>3, <1>4, <1>5, <1>6 DEF DriftInv

LEMMA CommitStep ==
  ASSUME DriftInv, Commit
  PROVE  DriftInv'
<1> USE AuditFacts
<1>1. /\ at[Local] < MaxCommits
      /\ at' = [at EXCEPT ![Local] = at[Local] + 1]
      /\ seen' = [seen EXCEPT ![Local] = IF Auditing(Local) THEN @ \cup {at[Local] + 1} ELSE @]
      /\ UNCHANGED <<tree, tip, audit, forge, trees>>
  BY DEF Commit
<1>2. TypeOK /\ at[Local] \in Commits /\ at[Local] + 1 \in Commits
  <2>1. TypeOK /\ at[Local] \in Commits
    BY DEF DriftInv, TypeOK
  <2> QED
    BY <1>1, <2>1
<1>3. /\ at'[Local] = at[Local] + 1
      /\ seen'[Local] = (IF Auditing(Local) THEN seen[Local] \cup {at[Local] + 1} ELSE seen[Local])
      /\ \A r \in Runs : at'[r] = at[r]
  BY <1>1, <1>2 DEF TypeOK
<1>4. TypeOK'
  BY <1>1, <1>2 DEF TypeOK, audit, forge
<1>5. LocalFits'
  <2>1. seen[Local] \subseteq seen'[Local] /\ (Auditing(Local) => at'[Local] \in seen'[Local])
    BY <1>3
  <2>2. UNCHANGED <<pc, opts, asked, found, exit, changed, claims, tree, trees>>
    BY <1>1 DEF audit
  <2>3. \A kind : Asked(kind)' = Asked(kind) /\ (Caused(kind) => Caused(kind)')
    BY <2>1, <2>2 DEF Asked, Caused, Shown, NotShown
  <2>4. Auditing(Local)' = Auditing(Local)
    BY <2>2 DEF Auditing
  <2>5. Auditing(Local) => \A c \in seen'[Local] : c <= at'[Local]
    <3> SUFFICES ASSUME Auditing(Local), NEW c \in seen'[Local] PROVE c <= at[Local] + 1
      BY <1>3
    <3>1. CASE c \in seen[Local]
      <4>1. c \in Nat /\ c <= at[Local]
        BY <1>2, <3>1 DEF DriftInv, LocalFits, TypeOK
      <4> QED
        BY <1>2, <4>1
    <3>2. CASE c = at[Local] + 1
      BY <1>2, <3>2
    <3> QED
      BY <1>3, <3>1, <3>2
  <2>6. /\ asked'[Local] >= 1 => changed'[Local] \in seen'[Local]
        /\ asked'[Local] >= 2 => claims'[Local] \in seen'[Local] /\ changed'[Local] <= claims'[Local]
    BY <2>1, <2>2 DEF DriftInv, LocalFits
  <2> QED
    BY <2>1, <2>2, <2>3, <2>4, <2>5, <2>6 DEF DriftInv, LocalFits
<1>6. ASSUME NEW r \in Runs PROVE RunFits(r)'
  BY <1>1, <1>3, RunStays DEF DriftInv, audit, forge
<1>7. GroupFits'
  <2>1. tip \in Commits /\ tip <= at[Local] + 1
    BY <1>2 DEF DriftInv, GroupFits, TypeOK
  <2> QED
    BY <1>1, <1>3, <2>1 DEF DriftInv, GroupFits, Active, Working, Newest, Pushed, forge
<1>8. OneRecordPerHead' /\ ReportsAreOfTheirCommit' /\ CommentsInOrder' /\ NewestIsReported'
  BY <1>1, ReportsStay DEF DriftInv, OneRecordPerHead, audit, forge
<1> QED
  BY <1>4, <1>5, <1>6, <1>7, <1>8 DEF DriftInv

\* A push adds the newest run, and leaves none of the older ones waiting.
LEMMA PushStep ==
  ASSUME DriftInv, Push
  PROVE  DriftInv'
<1> USE AuditFacts
<1>1. PICK r \in Runs :
        /\ r \notin Pushed /\ \A q \in Runs : q < r => q \in Pushed
        /\ Supersede(r)
        /\ \E complete \in BOOLEAN : eventBody' = [eventBody EXCEPT ![r] = complete]
  BY DEF Push
<1>2. tip' = at[Local] /\ UNCHANGED <<at, tree, audit, artifacts, comments, seen, trees>>
  BY DEF Push, place, watched
<1>3. TypeOK /\ GroupFits
  BY DEF DriftInv
<1>4. /\ job'[r] = "queued" /\ job[r] = "none"
      /\ \A q \in Runs : q # r => job'[q] = IF job[q] = "queued" THEN "cancelled" ELSE job[q]
      /\ \A q \in Runs : q # r => eventBody'[q] = eventBody[q]
      /\ doomed' = doomed \cup {q \in Runs : Active(q)}
  BY <1>1, <1>3 DEF TypeOK, Supersede, Pushed
<1>5. \A q \in Runs : (Active(q)' <=> Active(q)) /\ (Working(q)' <=> Working(q))
  BY <1>4 DEF Active, Working
<1>6. Pushed' = Pushed \cup {r}
  BY <1>4 DEF Pushed
<1>7. TypeOK'
  <2>1. job' \in [Runs -> {"none", "queued", "start", "audit", "comment", "success", "failure", "cancelled"}]
    BY <1>1, <1>3 DEF TypeOK, Supersede
  <2>2. eventBody' \in [Runs -> BOOLEAN]
    BY <1>1, <1>3 DEF TypeOK
  <2>3. doomed' \in SUBSET Runs
    BY <1>3, <1>4 DEF TypeOK
  <2> QED
    BY <1>2, <1>3, <2>1, <2>2, <2>3 DEF TypeOK, audit
<1>8. LocalFits'
  BY <1>2, LocalStays DEF DriftInv, audit
<1>9. ASSUME NEW q \in Runs PROVE RunFits(q)'
  <2>1. RunFits(q)
    BY DEF DriftInv
  <2>2. CASE q = r \/ job[q] = "queued"
    <3>1. job[q] \in {"none", "queued"} /\ job'[q] \in {"queued", "cancelled"}
      BY <1>4, <2>2
    <3> QED
      BY <1>2, <2>1, <3>1 DEF RunFits, Working, Auditing, audit
  <2>3. CASE q # r /\ job[q] # "queued"
    BY <1>2, <1>4, <2>1, <2>3, RunStays DEF audit
  <2> QED
    BY <2>2, <2>3
<1>10. \A q \in Runs : Newest(q)' => q = r
  <2> SUFFICES ASSUME NEW q \in Runs, Newest(q)', q # r PROVE FALSE
    OBVIOUS
  <2>1. q \in Pushed /\ r <= q
    BY <1>6 DEF Newest
  <2> QED
    BY <1>1, <1>3, <2>1 DEF GroupFits
<1>11. GroupFits'
  <2>1. tip <= tip' /\ tip' <= at'[Local] /\ tip \in Nat /\ tip' \in Nat
    BY <1>2, <1>3 DEF GroupFits, TypeOK
  <2>2. \A q \in Runs : Working(q)' => at'[q] <= tip'
    <3> SUFFICES ASSUME NEW q \in Runs, Working(q) PROVE at[q] <= tip'
      BY <1>2, <1>5
    <3>1. at[q] \in Nat
      BY <1>3 DEF TypeOK
    <3>2. at[q] <= tip
      BY <1>3 DEF GroupFits
    <3> QED
      BY <2>1, <3>1, <3>2
  <2>3. \A i \in DOMAIN comments' :
          comments'[i].head <= tip' /\ \A q \in Runs : Working(q)' => comments'[i].head <= at'[q]
    <3> SUFFICES ASSUME NEW i \in DOMAIN comments
                 PROVE  comments[i].head <= tip' /\ \A q \in Runs : Working(q) => comments[i].head <= at[q]
      BY <1>2, <1>5
    <3>1. comments[i].head \in Nat /\ comments[i].head <= tip
      BY <1>3, CommentFacts DEF GroupFits
    <3> QED
      BY <1>3, <2>1, <3>1 DEF GroupFits
  <2>4. r \notin doomed' /\ ~Working(r)'
    BY <1>1, <1>3, <1>4, <1>5 DEF GroupFits, Active, Working
  <2>5. doomed' \subseteq Pushed'
    BY <1>3, <1>4, <1>6 DEF GroupFits, Active, Working, Pushed
  <2> QED
    BY <1>1, <1>2, <1>3, <1>5, <1>6, <1>10, <2>1, <2>2, <2>3, <2>4, <2>5 DEF GroupFits
<1>12. OneRecordPerHead' /\ CommentsInOrder'
  BY <1>2 DEF DriftInv, OneRecordPerHead, CommentsInOrder, audit
<1>13. ReportsAreOfTheirCommit'
  <2>1. \A q \in Runs : \A c : q # r => Truth(q, c)' = Truth(q, c)
    BY <1>4 DEF Truth
  <2>2. /\ \A a \in artifacts : a.run \in Runs /\ a.run # r
        /\ \A i \in DOMAIN comments : comments[i].run \in Runs /\ comments[i].run # r
    BY <1>1, <1>3 DEF GroupFits, Pushed
  <2>3. UNCHANGED <<artifacts, comments>>
    BY <1>2
  <2>4. ReportsAreOfTheirCommit
    BY DEF DriftInv
  <2>5. ASSUME NEW a \in artifacts, NEW i \in DOMAIN a.records
        PROVE  Len(a.records) = 1 /\ a.records[i].found = Truth(a.run, a.records[i].head)'
    <3>1. Len(a.records) = 1 /\ a.records[i].found = Truth(a.run, a.records[i].head)
      BY <2>4 DEF ReportsAreOfTheirCommit
    <3> QED
      BY <2>1, <2>2, <3>1
  <2>6. ASSUME NEW i \in DOMAIN comments
        PROVE  comments[i].found = Truth(comments[i].run, comments[i].head)'
    <3>1. comments[i].found = Truth(comments[i].run, comments[i].head)
      BY <2>4 DEF ReportsAreOfTheirCommit
    <3> QED
      BY <2>1, <2>2, <2>3, <3>1
  <2> QED
    BY <2>3, <2>5, <2>6 DEF ReportsAreOfTheirCommit
<1>14. NewestIsReported'
  BY <1>4, <1>10 DEF NewestIsReported
<1> QED
  BY <1>7, <1>8, <1>9, <1>11, <1>12, <1>13, <1>14 DEF DriftInv

------------------------------------------------------------------------------
(* The workflow *)

\* A run begins only when no other is active ...
LEMMA StartJobStep ==
  ASSUME DriftInv, NEW r \in Runs, StartJob(r)
  PROVE  DriftInv'
<1> USE AuditFacts
<1>1. /\ job[r] = "queued" /\ (\A q \in Runs : ~Active(q))
      /\ job' = [job EXCEPT ![r] = "start"]
      /\ UNCHANGED <<at, tree, tip, audit, doomed, eventBody, artifacts, comments, seen, trees>>
  BY DEF StartJob, GroupFree, place, watched
<1>2. TypeOK /\ GroupFits
  BY DEF DriftInv
<1>3. job'[r] = "start" /\ \A q \in Runs : q # r => job'[q] = job[q]
  BY <1>1, <1>2 DEF TypeOK
<1>4. /\ \A q \in Runs : ~Working(q)' /\ (Active(q)' => q = r)
      /\ Pushed' = Pushed /\ \A q \in Runs : Newest(q)' = Newest(q)
  BY <1>1, <1>3 DEF Active, Working, Pushed, Newest
<1>5. TypeOK'
  <2>1. job' \in [Runs -> {"none", "queued", "start", "audit", "comment", "success", "failure", "cancelled"}]
    BY <1>1, <1>2 DEF TypeOK
  <2> QED
    BY <1>1, <1>2, <2>1 DEF TypeOK, audit
<1>6. LocalFits'
  BY <1>1, LocalStays DEF DriftInv, audit
<1>7. ASSUME NEW q \in Runs PROVE RunFits(q)'
  <2>1. CASE q # r
    BY <1>1, <1>3, <2>1, RunStays DEF DriftInv, audit
  <2>2. CASE q = r
    BY <1>1, <1>3, <2>2 DEF DriftInv, RunFits, Working, Auditing, audit
  <2> QED
    BY <2>1, <2>2
<1>8. GroupFits'
  BY <1>1, <1>2, <1>4 DEF GroupFits
<1>9. NewestIsReported'
  BY <1>1, <1>3, <1>4 DEF DriftInv, NewestIsReported
<1>10. OneRecordPerHead' /\ CommentsInOrder' /\ ReportsAreOfTheirCommit'
  BY <1>1 DEF DriftInv, OneRecordPerHead, CommentsInOrder, ReportsAreOfTheirCommit, Truth, audit
<1> QED
  BY <1>5, <1>6, <1>7, <1>8, <1>9, <1>10 DEF DriftInv

\* ... and works on whatever is the tip by the time it checks out.
LEMMA CheckoutStep ==
  ASSUME DriftInv, NEW r \in Runs, Checkout(r)
  PROVE  DriftInv'
<1> USE AuditFacts
<1>1. /\ job[r] = "start"
      /\ job' = [job EXCEPT ![r] = "audit"]
      /\ at' = [at EXCEPT ![r] = tip]
      /\ pc' = [pc EXCEPT ![r] = "refs"]
      /\ opts' = [opts EXCEPT ![r] = {"history", "checks"}]
      /\ asked' = [asked EXCEPT ![r] = 0] /\ found' = [found EXCEPT ![r] = {}]
      /\ exit' = [exit EXCEPT ![r] = "running"] /\ seen' = [seen EXCEPT ![r] = {tip}]
      /\ UNCHANGED <<tree, trees, tip, doomed, eventBody, artifacts, comments, changed, claims, history>>
  BY DEF Checkout, Begin, Goto
<1>2. TypeOK /\ GroupFits /\ tip \in Commits
  BY DEF DriftInv, TypeOK
<1>3. /\ job'[r] = "audit" /\ at'[r] = tip /\ pc'[r] = "refs" /\ asked'[r] = 0 /\ found'[r] = {}
      /\ opts'[r] = {"history", "checks"} /\ exit'[r] = "running"
      /\ \A q \in Runs : q # r => job'[q] = job[q]
      /\ \A q \in Audits : q # r =>
           /\ at'[q] = at[q] /\ pc'[q] = pc[q] /\ opts'[q] = opts[q] /\ asked'[q] = asked[q]
           /\ found'[q] = found[q] /\ exit'[q] = exit[q] /\ seen'[q] = seen[q]
  BY <1>1, <1>2 DEF TypeOK
<1>4. /\ \A q \in Runs : Active(q)' = Active(q)
      /\ \A q \in Runs : Working(q)' => q = r
      /\ Pushed' = Pushed /\ \A q \in Runs : Newest(q)' = Newest(q)
  <2>1. Active(r)
    BY <1>1 DEF Active
  <2>2. \A q \in Runs : Active(q) => q = r
    BY <1>2, <2>1 DEF GroupFits
  <2> QED
    BY <1>1, <1>3, <2>2 DEF Active, Working, Pushed, Newest
<1>5. TypeOK'
  <2>1. /\ at' \in [Audits -> Commits] /\ seen' \in [Audits -> SUBSET Commits]
        /\ opts' \in [Audits -> SUBSET Given]
    <3> HIDE AuditFacts
    <3>1. r \in Audits
      BY DEF Audits
    <3> QED
      BY <1>1, <1>2, <3>1 DEF TypeOK, Given
  <2>2. asked' \in [Audits -> 0..Len(Asks)] /\ found' \in [Audits -> SUBSET Kinds]
    <3>1. Len(Asks) = 7 /\ r \in Audits
      BY AskFacts
    <3> HIDE AuditFacts
    <3> QED
      BY <1>1, <1>2, <3>1 DEF TypeOK
  <2>3. /\ pc' \in [Audits -> {"idle", "refs", "ask", "finish", "done"}]
        /\ exit' \in [Audits -> {"running", "0", "1", "2"}]
        /\ job' \in [Runs -> {"none", "queued", "start", "audit", "comment", "success", "failure", "cancelled"}]
    BY <1>1, <1>2 DEF TypeOK
  <2> QED
    BY <1>1, <1>2, <2>1, <2>2, <2>3 DEF TypeOK
<1>6. LocalFits'
  BY <1>1, <1>3, LocalStays DEF DriftInv
<1>7. ASSUME NEW q \in Runs PROVE RunFits(q)'
  <2>1. CASE q # r
    BY <1>1, <1>3, <2>1, RunStays DEF DriftInv
  <2>2. CASE q = r
    <3>1. history'[r] = <<>>
      BY <1>1 DEF DriftInv, RunFits
    <3>2. {Asks[i] : i \in 1..asked'[r]} = {}
      BY <1>3
    <3> QED
      BY <1>3, <2>2, <3>1, <3>2, AskFacts DEF RunFits, Working, Auditing
  <2> QED
    BY <2>1, <2>2
<1>8. GroupFits'
  <2>1. tip <= tip /\ \A i \in DOMAIN comments : comments[i].head <= tip
    BY <1>2 DEF GroupFits
  <2> QED
    BY <1>1, <1>2, <1>3, <1>4, <2>1 DEF GroupFits
<1>9. NewestIsReported'
  BY <1>1, <1>3, <1>4 DEF DriftInv, NewestIsReported
<1>10. OneRecordPerHead' /\ CommentsInOrder' /\ ReportsAreOfTheirCommit'
  BY <1>1 DEF DriftInv, OneRecordPerHead, CommentsInOrder, ReportsAreOfTheirCommit, Truth
<1> QED
  BY <1>5, <1>6, <1>7, <1>8, <1>9, <1>10 DEF DriftInv

LEMMA RunsTruth ==
  ASSUME DriftInv, NEW r \in Runs, Working(r), Finished(r)
  PROVE  /\ found[r] = Truth(r, at[r])
         /\ history[r] = <<[head |-> at[r], base |-> 0, found |-> found[r]]>>
<1>1. /\ found[r] = Truth(r, at[r]) \cap {Asks[i] : i \in 1..asked[r]}
      /\ asked[r] = Len(Asks)
      /\ history[r] = <<[head |-> at[r], base |-> 0, found |-> found[r]]>>
  BY DEF DriftInv, RunFits, Finished, Auditing
<1>2. Truth(r, at[r]) \subseteq Kinds
  <2>1. at[r] \in Commits
    BY AuditFacts DEF DriftInv, TypeOK
  <2> QED
    BY <2>1, AskFacts, BranchFacts DEF Truth
<1> QED
  BY <1>1, <1>2 DEF Kinds

LEMMA UploadStep ==
  ASSUME DriftInv, NEW r \in Runs, Upload(r)
  PROVE  DriftInv'
<1> USE AuditFacts
<1> DEFINE art == [run |-> r, records |-> history[r]]
<1>1. /\ job[r] = "audit" /\ Finished(r)
      /\ artifacts' = artifacts \cup {art}
      /\ job' = [job EXCEPT ![r] = "comment"]
      /\ UNCHANGED <<at, tree, tip, audit, doomed, eventBody, comments, seen, trees>>
  BY DEF Upload, Finished, place, watched
<1>2. TypeOK /\ GroupFits
  BY DEF DriftInv
<1>3. /\ job'[r] = "comment" /\ \A q \in Runs : q # r => job'[q] = job[q]
      /\ \A q \in Runs : Active(q)' = Active(q) /\ Working(q)' = Working(q)
      /\ Pushed' = Pushed /\ \A q \in Runs : Newest(q)' = Newest(q)
  <2>1. job'[r] = "comment" /\ \A q \in Runs : q # r => job'[q] = job[q]
    BY <1>1, <1>2 DEF TypeOK
  <2>2. Pushed' = Pushed
    BY <1>1, <2>1 DEF Pushed
  <2> QED
    BY <1>1, <2>1, <2>2 DEF Active, Working, Newest
<1>4. TypeOK'
  <2>1. job' \in [Runs -> {"none", "queued", "start", "audit", "comment", "success", "failure", "cancelled"}]
    BY <1>1, <1>2 DEF TypeOK
  <2>2. art \in [run : Runs, records : Seq(Records)]
    BY <1>2 DEF TypeOK
  <2>3. artifacts' \in SUBSET [run : Runs, records : Seq(Records)]
    BY <1>1, <1>2, <2>2 DEF TypeOK
  <2> QED
    BY <1>1, <1>2, <2>1, <2>3 DEF TypeOK, audit
<1>5. LocalFits'
  BY <1>1, LocalStays DEF DriftInv, audit
<1>6. ASSUME NEW q \in Runs PROVE RunFits(q)'
  <2>1. CASE q # r
    BY <1>1, <1>3, <2>1, RunStays DEF DriftInv, audit
  <2>2. CASE q = r
    BY <1>1, <1>3, <2>2 DEF DriftInv, RunFits, Finished, Working, Auditing, Truth, audit
  <2> QED
    BY <2>1, <2>2
<1>7. art.run = r /\ art.records = history[r] /\ r \in Pushed
  BY <1>1 DEF Pushed
<1>8. ReportsAreOfTheirCommit'
  <2>1. /\ history[r] = <<[head |-> at[r], base |-> 0, found |-> Truth(r, at[r])]>>
    BY <1>1, RunsTruth DEF Working
  <2>2. /\ Len(history[r]) = 1 /\ DOMAIN history[r] = {1}
        /\ history[r][1].head = at[r] /\ history[r][1].found = Truth(r, at[r])
    BY <2>1
  <2>3. \A q, c : Truth(q, c)' = Truth(q, c)
    BY <1>1 DEF Truth
  <2> HIDE DEF art
  <2> QED
    BY <1>1, <1>7, <2>2, <2>3 DEF DriftInv, ReportsAreOfTheirCommit
<1> HIDE DEF art
<1>9. GroupFits'
  BY <1>1, <1>2, <1>3, <1>7 DEF GroupFits
<1>10. NewestIsReported'
  BY <1>1, <1>3 DEF DriftInv, NewestIsReported
<1>11. OneRecordPerHead' /\ CommentsInOrder'
  BY <1>1 DEF DriftInv, OneRecordPerHead, CommentsInOrder, audit
<1> QED
  BY <1>4, <1>5, <1>6, <1>8, <1>9, <1>10, <1>11 DEF DriftInv

\* A comment is of the tip if its run is the newest, and never of a commit older
\* than one commented on before.
LEMMA CommentStep ==
  ASSUME DriftInv, NEW r \in Runs, Comment(r)
  PROVE  DriftInv'
<1> USE AuditFacts
<1> DEFINE note == [run |-> r, head |-> at[r], found |-> found[r]]
           n == Len(comments) + 1
<1>1. /\ job[r] = "comment" /\ comments' = Append(comments, note)
      /\ job' = [job EXCEPT ![r] = "success"]
      /\ UNCHANGED <<at, tree, tip, audit, doomed, eventBody, artifacts, seen, trees>>
  BY DEF Comment, place, watched
<1>2. TypeOK /\ GroupFits /\ RunFits(r) /\ Working(r) /\ Active(r)
  BY <1>1 DEF DriftInv, Active, Working
<1>3. Finished(r)
  BY <1>1, <1>2 DEF RunFits
<1>4. /\ job'[r] = "success" /\ \A q \in Runs : q # r => job'[q] = job[q]
      /\ \A q \in Runs : ~Active(q)' /\ ~Working(q)'
      /\ Pushed' = Pushed /\ r \in Pushed /\ \A q \in Runs : Newest(q)' = Newest(q)
  <2>1. job'[r] = "success" /\ \A q \in Runs : q # r => job'[q] = job[q]
    BY <1>1, <1>2 DEF TypeOK
  <2>2. \A q \in Runs : Active(q) => q = r
    BY <1>2 DEF GroupFits
  <2>3. Pushed' = Pushed /\ r \in Pushed
    BY <1>1, <2>1 DEF Pushed
  <2> QED
    BY <2>1, <2>2, <2>3 DEF Active, Working, Newest
<1>5. note \in [run : Runs, head : Commits, found : SUBSET Kinds]
  BY <1>2 DEF TypeOK
<1>6. /\ comments' \in Seq([run : Runs, head : Commits, found : SUBSET Kinds])
      /\ DOMAIN comments' = DOMAIN comments \cup {n} /\ n \notin DOMAIN comments
      /\ \A i \in DOMAIN comments : comments'[i] = comments[i] /\ i < n
      /\ comments'[n] = note
  <2>1. comments \in Seq([run : Runs, head : Commits, found : SUBSET Kinds])
    BY <1>2 DEF TypeOK
  <2>2. \A i \in DOMAIN comments : i < n
    BY <2>1
  <2> HIDE DEF note
  <2> QED
    BY <1>1, <1>5, <2>1, <2>2, AppendFacts
<1>7. note.run = r /\ note.head = at[r] /\ note.found = found[r]
  OBVIOUS
<1> HIDE DEF note
<1>8. TypeOK'
  <2>1. job' \in [Runs -> {"none", "queued", "start", "audit", "comment", "success", "failure", "cancelled"}]
    BY <1>1, <1>2 DEF TypeOK
  <2> QED
    BY <1>1, <1>2, <1>6, <2>1 DEF TypeOK, audit
<1>9. LocalFits'
  BY <1>1, LocalStays DEF DriftInv, audit
<1>10. ASSUME NEW q \in Runs PROVE RunFits(q)'
  <2>1. CASE q # r
    BY <1>1, <1>4, <2>1, RunStays DEF DriftInv, audit
  <2>2. CASE q = r
    BY <1>1, <1>3, <1>4, <2>2 DEF RunFits, Finished, Working, Auditing, audit
  <2> QED
    BY <2>1, <2>2
<1>11. at[r] \in Nat /\ at[r] <= tip /\ \A i \in DOMAIN comments : comments[i].head <= at[r]
  <2>1. at[r] \in Nat
    BY <1>2 DEF TypeOK
  <2> QED
    BY <1>2, <2>1 DEF GroupFits
<1>12. GroupFits'
  <2>1. \A i \in DOMAIN comments' : comments'[i].head <= tip /\ comments'[i].run \in Pushed
    BY <1>2, <1>4, <1>6, <1>7, <1>11 DEF GroupFits
  <2>2. UNCHANGED <<at, tip, doomed, artifacts>>
    BY <1>1
  <2> QED
    BY <1>2, <1>4, <2>1, <2>2 DEF GroupFits
<1>13. ReportsAreOfTheirCommit'
  <2>1. found[r] = Truth(r, at[r])
    BY <1>2, <1>3, RunsTruth
  <2>2. \A q, c : Truth(q, c)' = Truth(q, c)
    BY <1>1 DEF Truth
  <2> QED
    BY <1>1, <1>6, <1>7, <2>1, <2>2 DEF DriftInv, ReportsAreOfTheirCommit
<1>14. CommentsInOrder'
  <2> SUFFICES ASSUME NEW i \in DOMAIN comments', NEW j \in DOMAIN comments', i < j
               PROVE  comments'[i].head <= comments'[j].head
    BY DEF CommentsInOrder
  <2>1. CASE i \in DOMAIN comments /\ j \in DOMAIN comments
    BY <1>6, <2>1 DEF DriftInv, CommentsInOrder
  <2>2. CASE i \in DOMAIN comments /\ j = n
    BY <1>6, <1>7, <1>11, <2>2
  <2>3. CASE i = n
    <3>1. comments \in Seq([run : Runs, head : Commits, found : SUBSET Kinds])
      BY <1>2 DEF TypeOK
    <3>2. n \in Nat /\ DOMAIN comments = 1..Len(comments)
      BY <3>1
    <3>3. j <= n /\ j \in Nat
      BY <1>6, <3>2
    <3> QED
      BY <2>3, <3>2, <3>3
  <2> QED
    BY <1>6, <2>1, <2>2, <2>3
<1>15. NewestIsReported'
  <2>1. ASSUME NEW q \in Runs, Newest(q), q # r, job[q] = "success"
        PROVE  \E i \in DOMAIN comments' : comments'[i].head = tip
    BY <1>6, <2>1 DEF DriftInv, NewestIsReported
  <2>2. Newest(r) => comments'[n].head = tip /\ n \in DOMAIN comments'
    BY <1>2, <1>6, <1>7 DEF GroupFits
  <2>3. \A q \in Runs : Newest(q) => job[q] # "cancelled"
    BY DEF DriftInv, NewestIsReported
  <2> QED
    BY <1>1, <1>4, <2>1, <2>2, <2>3 DEF NewestIsReported
<1>16. OneRecordPerHead'
  BY <1>1 DEF DriftInv, OneRecordPerHead, audit
<1> QED
  BY <1>8, <1>9, <1>10, <1>12, <1>13, <1>14, <1>15, <1>16 DEF DriftInv

\* A step fails, or the engine cancels a run that a newer one superseded.
LEMMA StopStep ==
  ASSUME DriftInv, NEW r \in Runs, Fail(r) \/ Cancel(r)
  PROVE  DriftInv'
<1> USE AuditFacts
<1>1. PICK how \in {"failure", "cancelled"} :
        /\ job' = [job EXCEPT ![r] = how] /\ pc' = [pc EXCEPT ![r] = "done"]
        /\ UNCHANGED <<at, tree, tip, opts, asked, found, exit, changed, claims, history,
                       doomed, eventBody, artifacts, comments, seen, trees>>
        /\ Active(r) /\ (how = "cancelled" => r \in doomed)
  BY DEF Fail, Cancel, Stop, Goto, place, watched
<1>2. TypeOK /\ GroupFits
  BY DEF DriftInv
<1>3. /\ job'[r] = how /\ pc'[r] = "done" /\ \A q \in Runs : q # r => job'[q] = job[q]
      /\ \A q \in Audits : q # r => pc'[q] = pc[q]
  BY <1>1, <1>2 DEF TypeOK
<1>4. /\ ~Working(r)' /\ \A q \in Runs : (Active(q)' => Active(q)) /\ (Working(q)' => Working(q))
      /\ Pushed' = Pushed /\ \A q \in Runs : Newest(q)' = Newest(q)
  BY <1>1, <1>3 DEF Active, Working, Pushed, Newest
<1>5. TypeOK'
  <2>1. /\ job' \in [Runs -> {"none", "queued", "start", "audit", "comment", "success", "failure", "cancelled"}]
        /\ pc' \in [Audits -> {"idle", "refs", "ask", "finish", "done"}]
    BY <1>1, <1>2 DEF TypeOK
  <2> QED
    BY <1>1, <1>2, <2>1 DEF TypeOK
<1>6. LocalFits'
  BY <1>1, <1>3, LocalStays DEF DriftInv
<1>7. ASSUME NEW q \in Runs PROVE RunFits(q)'
  <2>1. CASE q # r
    BY <1>1, <1>3, <2>1, RunStays DEF DriftInv
  <2>2. CASE q = r
    BY <1>1, <1>3, <1>4, <2>2 DEF RunFits, Auditing
  <2> QED
    BY <2>1, <2>2
<1>8. GroupFits'
  BY <1>1, <1>2, <1>4 DEF GroupFits
<1>9. NewestIsReported'
  <2>1. Newest(r) => how # "cancelled"
    BY <1>1, <1>2 DEF GroupFits
  <2> QED
    BY <1>1, <1>3, <1>4, <2>1 DEF DriftInv, NewestIsReported
<1>10. OneRecordPerHead' /\ CommentsInOrder' /\ ReportsAreOfTheirCommit'
  BY <1>1 DEF DriftInv, OneRecordPerHead, CommentsInOrder, ReportsAreOfTheirCommit, Truth
<1> QED
  BY <1>5, <1>6, <1>7, <1>8, <1>9, <1>10 DEF DriftInv

------------------------------------------------------------------------------
LEMMA InitFits == Init => DriftInv
<1> SUFFICES ASSUME Init PROVE DriftInv
  OBVIOUS
<1> USE AuditFacts
<1>1. TypeOK
  BY AskFacts DEF Init, TypeOK
<1>2. LocalFits /\ (\A r \in Runs : RunFits(r))
  BY AskFacts DEF Init, LocalFits, RunFits, Working, Auditing
<1>3. GroupFits /\ ReportsAreOfTheirCommit /\ OneRecordPerHead /\ CommentsInOrder /\ NewestIsReported
  BY DEF Init, GroupFits, Active, Working, Newest, Pushed, ReportsAreOfTheirCommit, OneRecordPerHead,
         CommentsInOrder, NewestIsReported
<1> QED
  BY <1>1, <1>2, <1>3 DEF DriftInv

LEMMA NextFits == DriftInv /\ [Next]_vars => DriftInv'
<1> SUFFICES ASSUME DriftInv, [Next]_vars PROVE DriftInv'
  OBVIOUS
<1>1. CASE Invoke
  BY <1>1, InvokeStep
<1>2. CASE Commit \/ Edit
  BY <1>2, CommitStep, EditStep
<1>3. CASE Push
  BY <1>3, PushStep
<1>4. ASSUME NEW p \in Audits, Step(p) PROVE DriftInv'
  BY <1>4, EnsureRefsStep, AskStep, FinishStep DEF Step
<1>5. ASSUME NEW r \in Runs, Work(r) PROVE DriftInv'
  BY <1>4, <1>5, AuditFacts, StartJobStep, CheckoutStep, UploadStep, CommentStep DEF Work
<1>6. ASSUME NEW r \in Runs, Fail(r) \/ Cancel(r) PROVE DriftInv'
  BY <1>6, StopStep
<1>7. CASE UNCHANGED vars
  <2>1. UNCHANGED <<at, tree, tip, pc, opts, asked, found, exit, changed, claims, history, seen, trees>>
    BY <1>7 DEF vars, audit, place, watched
  <2>2. UNCHANGED forge
    BY <1>7 DEF vars
  <2>3. TypeOK'
    BY <2>1, <2>2 DEF DriftInv, TypeOK, forge
  <2>4. LocalFits' /\ \A r \in Runs : RunFits(r)'
    BY <2>1, <2>2, LocalStays, RunStays DEF DriftInv, forge
  <2>5. GroupFits' /\ OneRecordPerHead' /\ ReportsAreOfTheirCommit' /\ CommentsInOrder' /\ NewestIsReported'
    BY <2>1, <2>2, GroupStays, ReportsStay DEF DriftInv, OneRecordPerHead, forge
  <2> QED
    BY <2>3, <2>4, <2>5 DEF DriftInv
<1> QED
  BY <1>1, <1>2, <1>3, <1>4, <1>5, <1>6, <1>7, AuditFacts DEF Next

\* Whatever the developer, the runs and the engine do, DriftInv holds.
THEOREM DriftInvariance == Spec => []DriftInv
<1>1. Init => DriftInv
  BY InitFits
<1>2. DriftInv /\ [Next]_vars => DriftInv'
  BY NextFits
<1> QED
  BY <1>1, <1>2, PTL DEF Spec

\* Every variable stays within its type.
THEOREM TypeCorrect == Spec => []TypeOK
<1>1. DriftInv => TypeOK
  BY DEF DriftInv
<1> QED
  BY <1>1, DriftInvariance, PTL

\* Every record and comment of the workflow is the whole truth of the one commit
\* it names.
THEOREM ReportsHold == Spec => []ReportsAreOfTheirCommit
<1>1. DriftInv => ReportsAreOfTheirCommit
  BY DEF DriftInv
<1> QED
  BY <1>1, DriftInvariance, PTL

\* However often a clone is audited, a head has one record in the history file.
THEOREM HeadsHaveOneRecord == Spec => []OneRecordPerHead
<1>1. DriftInv => OneRecordPerHead
  BY DEF DriftInv
<1> QED
  BY <1>1, DriftInvariance, PTL

\* The workflow never comments on an older commit than the one it commented on
\* last.
THEOREM CommentsMoveForward == Spec => []CommentsInOrder
<1>1. DriftInv => CommentsInOrder
  BY DEF DriftInv
<1> QED
  BY <1>1, DriftInvariance, PTL

\* The run of the newest push is not superseded, and once it succeeds there is a
\* comment on the tip.
THEOREM NewestGetsItsComment == Spec => []NewestIsReported
<1>1. DriftInv => NewestIsReported
  BY DEF DriftInv
<1> QED
  BY <1>1, DriftInvariance, PTL

\* Each kind of drift an audit of the clone reports was there at some commit HEAD
\* named, or in the work tree at some moment, while it ran, and each it does not
\* report was not; that no change is unlogged is true of the changes as of one such
\* commit and the messages as of one not before it.
THEOREM VerdictsHold == Spec => []VerdictHadACause
<1>1. DriftInv => VerdictHadACause
  <2> SUFFICES ASSUME DriftInv, pc[Local] = "done", exit[Local] # "2", NEW kind \in Kinds, Asked(kind)
               PROVE  Caused(kind)
    BY DEF VerdictHadACause
  <2>1. exit[Local] \in {"0", "1"} /\ asked[Local] = Len(Asks)
    BY DEF DriftInv, LocalFits
  <2>2. PICK i \in 1..asked[Local] : Asks[i] = kind
    BY <2>1, AskFacts
  <2> QED
    BY <2>2 DEF DriftInv, LocalFits
<1> QED
  BY <1>1, DriftInvariance, PTL

\* An audit that keeps a history leaves a record of the head it ended on, or finds
\* that head in the file, and no step of anyone takes a record away.
THEOREM RecordsAreKept == Spec => RecordsStay
<1> DEFINE Kept ==
      \A p \in Audits :
       /\ \A i \in DOMAIN history[p] : i \in DOMAIN history'[p] /\ history'[p][i] = history[p][i]
       /\ pc[p] = "finish" /\ exit'[p] \in {"0", "1"} /\ "history" \in opts[p] =>
            \E i \in DOMAIN history'[p] : at[p] \in {history'[p][i].head, history'[p][i].base}
<1>1. ASSUME DriftInv, Next PROVE Kept
  <2>1. \A p \in Audits : pc[p] = "finish" => exit[p] = "running"
    BY <1>1, AuditFacts DEF DriftInv, LocalFits, RunFits, Auditing
  <2>2. CASE UNCHANGED history /\ \A p \in Audits : pc[p] = "finish" => exit'[p] \notin {"0", "1"}
    BY <2>2
  <2>3. ASSUME NEW q \in Audits, Finish(q) PROVE Kept
    <3> SUFFICES ASSUME NEW p \in Audits
                 PROVE  /\ \A i \in DOMAIN history[p] : i \in DOMAIN history'[p] /\ history'[p][i] = history[p][i]
                        /\ pc[p] = "finish" /\ exit'[p] \in {"0", "1"} /\ "history" \in opts[p] =>
                             \E i \in DOMAIN history'[p] : at[p] \in {history'[p][i].head, history'[p][i].base}
      OBVIOUS
    <3> DEFINE rec == [head |-> at[q], base |-> 0, found |-> found[q]]
               new == "history" \in opts[q] /\ ~Listed(history[q], at[q])
    <3>1. /\ history' = IF new THEN [history EXCEPT ![q] = Append(@, rec)] ELSE history
          /\ \E code \in {"0", "1"} : exit' = [exit EXCEPT ![q] = code]
      BY <2>3 DEF Finish, End, Goto, HeadCommit
    <3>2. history[q] \in Seq(Records) /\ rec \in Records /\ TypeOK
      BY <1>1, AuditFacts DEF DriftInv, TypeOK, Records
    <3>3. rec.head = at[q]
      OBVIOUS
    <3>4. CASE p # q
      BY <2>1, <3>1, <3>2, <3>4 DEF TypeOK
    <3>5. CASE p = q /\ ~new
      BY <3>1, <3>5 DEF Listed
    <3>6. CASE p = q /\ new
      <4>1. history'[p] = Append(history[q], rec)
        BY <3>1, <3>2, <3>6 DEF TypeOK
      <4> HIDE DEF rec, new
      <4>2. /\ DOMAIN history'[p] = DOMAIN history[q] \cup {Len(history[q]) + 1}
            /\ \A i \in DOMAIN history[q] : history'[p][i] = history[q][i]
            /\ history'[p][Len(history[q]) + 1] = rec
        BY <3>2, <4>1, AppendFacts
      <4> QED
        BY <3>3, <3>6, <4>2
    <3> QED
      BY <3>4, <3>5, <3>6
  <2>4. ASSUME NEW q \in Audits, EnsureRefs(q) \/ Ask(q) PROVE Kept
    <3>1. UNCHANGED history /\ \A p \in Audits : pc[p] = "finish" => exit'[p] = exit[p]
      BY <1>1, <2>4 DEF EnsureRefs, Ask, End, DriftInv, TypeOK
    <3> QED
      BY <2>1, <2>2, <3>1
  <2>5. ASSUME NEW q \in Audits, Step(q) PROVE Kept
    BY <2>3, <2>4, <2>5 DEF Step
  <2>6. ASSUME NEW r \in Runs, Checkout(r) PROVE Kept
    <3>1. pc[r] # "finish"
      BY <1>1, <2>6 DEF DriftInv, RunFits, Working, Auditing, Checkout
    <3>2. UNCHANGED history /\ \A p \in Audits : pc[p] = "finish" => exit'[p] = exit[p]
      BY <1>1, <2>6, <3>1 DEF Checkout, Begin, DriftInv, TypeOK
    <3> QED
      BY <2>1, <2>2, <3>2
  <2>7. ASSUME NEW r \in Runs, StartJob(r) \/ Upload(r) \/ Comment(r) \/ Fail(r) \/ Cancel(r) PROVE Kept
    <3>1. UNCHANGED <<history, exit>>
      BY <2>7 DEF StartJob, Upload, Comment, Fail, Cancel, Stop, audit
    <3> QED
      BY <2>1, <2>2, <3>1
  <2>8. CASE Invoke
    <3>1. UNCHANGED history /\ \A p \in Audits : pc[p] = "finish" => exit'[p] = exit[p]
      BY <1>1, <2>8 DEF Invoke, Begin, Auditing, DriftInv, TypeOK
    <3> QED
      BY <2>1, <2>2, <3>1
  <2>9. CASE Edit \/ Commit \/ Push
    <3>1. UNCHANGED <<history, exit>>
      BY <2>9 DEF Edit, Commit, Push, audit
    <3> QED
      BY <2>1, <2>2, <3>1
  <2> QED
    BY <1>1, <2>5, <2>6, <2>7, <2>8, <2>9, AuditFacts DEF Next, Work
<1>2. DriftInv /\ [Next]_vars => [Kept]_vars
  BY <1>1
<1> QED
  BY <1>2, DriftInvariance, PTL DEF Spec, RecordsStay
=============================================================================

----------------------------- MODULE DriftAudit -----------------------------
(***************************************************************************)
(* tools/audit_drift.py, run by hand in a developer's clone and by         *)
(* .github/workflows/audit.yml on every push to a pull request.            *)
(*                                                                         *)
(* An audit asks git several questions about base..HEAD, one subprocess    *)
(* after the other, and HEAD is a name; it asks others of the work tree,   *)
(* uncommitted edits and all.  In a clone the developer may edit and       *)
(* commit between two of them.  A run of the workflow has a checkout of    *)
(* its own, but of whatever the branch holds when the run gets to it.      *)
(*                                                                         *)
(* The workflow engine is external: one run of the concurrency group at a  *)
(* time, a newer run cancels the waiting one at once and the running one   *)
(* in its own time; any step of a run may fail.                            *)
(*                                                                         *)
(* Not covered: --fix, the body file of a local audit, the files a body    *)
(* names, a branch that is rewritten or gets a new base, fork pull         *)
(* requests (the workflow skips them).  Of a kind of drift, one finding    *)
(* stands for all: what shows it does so at one moment.                    *)
(***************************************************************************)
EXTENDS Integers, Sequences

CONSTANTS
  Local,       \* the audit in the developer's clone
  MaxCommits,  \* bound on the commits of the branch
  MaxPushes,   \* bound on its pushes
  Smells,      \* the kinds of drift base..c and the tree of c show, per commit c
  Files, Changed, Named,   \* the files base..c changes, and those its messages name
  Trees,       \* the kinds of drift the clone's work tree may show
  Options      \* what a developer may pass; "badref" is a --base that does not resolve

Given == {"strict", "history", "checks", "badref"}

Commits == 0..MaxCommits   \* 0 is the merge base
Runs    == 1..MaxPushes    \* one for each push
Audits  == Runs \cup {Local}

\* The questions of main(), in its order.  "log" only keeps the messages, which
\* "unlogged" compares with the paths of "names"; "body" and "checks" are optional.
LogFirst == <<"log", "names", "added", "tree", "body", "unlogged", "checks">>
Asks  == <<"names", "log", "added", "tree", "body", "unlogged", "checks">>
Kinds == {Asks[i] : i \in 1..Len(Asks)}
High  == {"added", "tree", "checks"}
OfTheRange == {"names", "added"}
OfTheTree  == {"tree", "checks"}

ASSUME DriftAssumption ==
  /\ MaxCommits \in Nat /\ MaxPushes \in Nat /\ Local \notin Nat
  /\ Options \subseteq SUBSET Given
  /\ Trees \subseteq SUBSET OfTheTree
ASSUME BranchAssumption ==
  /\ Smells \in [Commits -> SUBSET (OfTheRange \cup OfTheTree)]
  /\ Changed \in [Commits -> SUBSET Files] /\ Named \in [Commits -> SUBSET Files]
  /\ Smells[0] \cap OfTheRange = {} /\ Changed[0] = {}
  /\ \A c, d \in Commits : c <= d => Named[c] \subseteq Named[d]

VARIABLES
  at,         \* the commit HEAD names, per checkout
  tree,       \* the drift the clone's work tree shows, uncommitted edits and all
  tip,        \* the branch at the forge
  pc, opts, asked, found, exit,   \* per audit: where it is and what it found
  changed, claims,   \* per audit, the commits whose paths and whose messages it read
  history,    \* per checkout, the records of its history file
  job,        \* the runs of the workflow
  doomed,     \* those the engine is cancelling
  eventBody,  \* the body in the event of a run has its "Deviations" section
  artifacts, comments,   \* what the runs uploaded and posted
  seen, trees \* history: the commits HEAD named since an audit began (per audit), and
              \* what the work tree showed since the clone's began

place  == <<at, tree>>
audit  == <<pc, opts, asked, found, exit, changed, claims, history>>
forge  == <<job, doomed, eventBody, artifacts, comments>>
watched == <<seen, trees>>
vars   == <<place, tip, audit, forge, watched>>

Auditing(p) == pc[p] \in {"refs", "ask", "finish"}
Working(r) == job[r] \in {"audit", "comment"}
Active(r) == job[r] = "start" \/ Working(r)
Pushed == {r \in Runs : job[r] # "none"}
Newest(r) == r \in Pushed /\ \A q \in Pushed : q <= r

------------------------------------------------------------------------------
(* audit_drift.main *)

Goto(p, label) == pc' = [pc EXCEPT ![p] = label]
End(p, code) == Goto(p, "done") /\ exit' = [exit EXCEPT ![p] = code]

Begin(p, options, c) ==
  /\ Goto(p, "refs")
  /\ opts' = [opts EXCEPT ![p] = options]
  /\ asked' = [asked EXCEPT ![p] = 0] /\ found' = [found EXCEPT ![p] = {}]
  /\ exit' = [exit EXCEPT ![p] = "running"]
  /\ seen' = [seen EXCEPT ![p] = {c}]
  /\ UNCHANGED <<changed, claims, history>>

\* ensure_ref: a ref that does not resolve ends the audit.
NeverRefuses(p) == FALSE
Refuses(p) == "badref" \in opts[p]

EnsureRefs(p) ==
  /\ pc[p] = "refs"
  /\ \/ Refuses(p) /\ End(p, "2")
     \/ ~Refuses(p) /\ Goto(p, "ask") /\ UNCHANGED exit
  /\ UNCHANGED <<place, tip, opts, asked, found, changed, claims, history, forge, watched>>

\* The commit an audit's git commands take HEAD for.
HeadIsTheBranch(p) == IF p = Local THEN at[p] ELSE tip
HeadCommit(p) == at[p]

\* A run's checkout holds what its commit does.
WorkTree(p) == IF p = Local THEN tree ELSE Smells[at[p]] \cap OfTheTree

\* A file changed as of c that no message as of d names.
Unlogged(c, d) == ~(Changed[c] \subseteq Named[d])

\* A git command over a range that does not resolve prints nothing.
Answer(p, kind) ==
  \/ kind \in OfTheRange /\ "badref" \notin opts[p] /\ kind \in Smells[HeadCommit(p)]
  \/ kind \in WorkTree(p) /\ (kind = "checks" => "checks" \in opts[p])
  \/ kind = "body" /\ p # Local /\ ~eventBody[p]
  \/ kind = "unlogged" /\ "badref" \notin opts[p] /\ Unlogged(changed[p], claims[p])

Ask(p) ==
  /\ pc[p] = "ask"
  /\ LET i == asked[p] + 1
         Keep(read, kind) == [read EXCEPT ![p] = IF Asks[i] = kind THEN HeadCommit(p) ELSE @]
     IN /\ changed' = Keep(changed, "names") /\ claims' = Keep(claims, "log")
        /\ found' = [found EXCEPT ![p] = IF Answer(p, Asks[i]) THEN @ \cup {Asks[i]} ELSE @]
        /\ asked' = [asked EXCEPT ![p] = i]
        /\ Goto(p, IF i = Len(Asks) THEN "finish" ELSE "ask")
  /\ UNCHANGED <<place, tip, opts, exit, history, forge, watched>>

\* `head_sha not in prior` looks for the hash anywhere in the file: as the head
\* of a record, or as the base of one.
NeverListed(file, c) == FALSE
ListedAtAll(file, c) == file # <<>>
Listed(file, c) == \E i \in DOMAIN file : c \in {file[i].head, file[i].base}

Finish(p) ==
  /\ pc[p] = "finish"
  /\ history' = IF "history" \in opts[p] /\ ~Listed(history[p], HeadCommit(p))
                THEN [history EXCEPT ![p] = Append(@, [head |-> HeadCommit(p), base |-> 0, found |-> found[p]])]
                ELSE history
  /\ End(p, IF "strict" \in opts[p] /\ found[p] \cap High # {} THEN "1" ELSE "0")
  /\ UNCHANGED <<place, tip, opts, asked, found, changed, claims, forge, watched>>

Step(p) == EnsureRefs(p) \/ Ask(p) \/ Finish(p)

------------------------------------------------------------------------------
(* The developer *)

Invoke ==
  /\ ~Auditing(Local)
  /\ \E options \in Options : Begin(Local, options, at[Local])
  /\ trees' = {tree}
  /\ UNCHANGED <<place, tip, forge>>

Edit ==
  /\ tree' \in Trees
  /\ trees' = IF Auditing(Local) THEN trees \cup {tree'} ELSE trees
  /\ UNCHANGED <<at, tip, audit, forge, seen>>

\* A commit, of all the edits or of some, leaves the work tree as it is.
Commit ==
  /\ at[Local] < MaxCommits
  /\ at' = [at EXCEPT ![Local] = @ + 1]
  /\ seen' = [seen EXCEPT ![Local] = IF Auditing(Local) THEN @ \cup {at[Local] + 1} ELSE @]
  /\ UNCHANGED <<tree, tip, audit, forge, trees>>

\* A push is an event, which holds the pull request's body, and the event a run.
NewestWaits(r) ==
  /\ job' = [job EXCEPT ![r] = IF \E q \in Runs : job[q] = "queued" \/ Active(q)
                               THEN "cancelled" ELSE "queued"]
  /\ UNCHANGED doomed
Supersede(r) ==
  /\ job' = [q \in Runs |-> IF q = r THEN "queued"
                            ELSE IF job[q] = "queued" THEN "cancelled" ELSE job[q]]
  /\ doomed' = doomed \cup {q \in Runs : Active(q)}

Push ==
  /\ at[Local] # tip
  /\ tip' = at[Local]
  /\ \E r \in Runs :
       /\ r \notin Pushed /\ \A q \in Runs : q < r => q \in Pushed
       /\ Supersede(r)
       /\ \E complete \in BOOLEAN : eventBody' = [eventBody EXCEPT ![r] = complete]
  /\ UNCHANGED <<place, audit, artifacts, comments, watched>>

------------------------------------------------------------------------------
(* audit.yml *)

GroupOfOne(r) == TRUE
GroupFree(r) == \A q \in Runs : ~Active(q)

\* A runner takes the run ...
StartJob(r) ==
  /\ job[r] = "queued" /\ GroupFree(r)
  /\ job' = [job EXCEPT ![r] = "start"]
  /\ UNCHANGED <<place, tip, audit, doomed, eventBody, artifacts, comments, watched>>

\* ... and checks out `ref: github.head_ref`: the branch by then, not the commit of
\* the event.
Checkout(r) ==
  /\ job[r] = "start"
  /\ job' = [job EXCEPT ![r] = "audit"]
  /\ at' = [at EXCEPT ![r] = tip]
  /\ Begin(r, {"history", "checks"}, tip)
  /\ UNCHANGED <<tree, trees, tip, doomed, eventBody, artifacts, comments>>

Upload(r) ==
  /\ job[r] = "audit" /\ pc[r] = "done" /\ exit[r] = "0"
  /\ artifacts' = artifacts \cup {[run |-> r, records |-> history[r]]}
  /\ job' = [job EXCEPT ![r] = "comment"]
  /\ UNCHANGED <<place, tip, audit, doomed, eventBody, comments, watched>>

Comment(r) ==
  /\ job[r] = "comment"
  /\ comments' = Append(comments, [run |-> r, head |-> at[r], found |-> found[r]])
  /\ job' = [job EXCEPT ![r] = "success"]
  /\ UNCHANGED <<place, tip, audit, doomed, eventBody, artifacts, watched>>

Stop(r, how) ==
  /\ job' = [job EXCEPT ![r] = how]
  /\ Goto(r, "done")
  /\ UNCHANGED <<place, tip, opts, asked, found, exit, changed, claims, history,
                 doomed, eventBody, artifacts, comments, watched>>

Fail(r) == Active(r) /\ Stop(r, "failure")
Cancel(r) == r \in doomed /\ Active(r) /\ Stop(r, "cancelled")

Work(r) == StartJob(r) \/ Checkout(r) \/ Step(r) \/ Upload(r) \/ Comment(r)

------------------------------------------------------------------------------
Init ==
  /\ at = [p \in Audits |-> 0] /\ tip = 0 /\ tree \in Trees
  /\ pc = [p \in Audits |-> "idle"] /\ opts = [p \in Audits |-> {}]
  /\ asked = [p \in Audits |-> 0] /\ found = [p \in Audits |-> {}]
  /\ exit = [p \in Audits |-> "running"] /\ history = [p \in Audits |-> <<>>]
  /\ changed = [p \in Audits |-> 0] /\ claims = [p \in Audits |-> 0]
  /\ job = [r \in Runs |-> "none"] /\ doomed = {} /\ eventBody = [r \in Runs |-> FALSE]
  /\ artifacts = {} /\ comments = <<>>
  /\ seen = [p \in Audits |-> {}] /\ trees = {}

Next ==
  \/ Invoke \/ Edit \/ Commit \/ Push
  \/ Step(Local)
  \/ \E r \in Runs : Work(r) \/ Fail(r) \/ Cancel(r)

Spec == Init /\ [][Next]_vars
------------------------------------------------------------------------------
(* Properties *)

Records == [head : Commits, base : {0}, found : SUBSET Kinds]

TypeOK ==
  /\ at \in [Audits -> Commits] /\ tip \in Commits /\ tree \in Trees
  /\ pc \in [Audits -> {"idle", "refs", "ask", "finish", "done"}]
  /\ opts \in [Audits -> SUBSET Given]
  /\ asked \in [Audits -> 0..Len(Asks)] /\ found \in [Audits -> SUBSET Kinds]
  /\ exit \in [Audits -> {"running", "0", "1", "2"}]
  /\ changed \in [Audits -> Commits] /\ claims \in [Audits -> Commits]
  /\ history \in [Audits -> Seq(Records)]
  /\ job \in [Runs -> {"none", "queued", "start", "audit", "comment", "success", "failure", "cancelled"}]
  /\ doomed \in SUBSET Runs /\ eventBody \in [Runs -> BOOLEAN]
  /\ artifacts \in SUBSET [run : Runs, records : Seq(Records)]
  /\ comments \in Seq([run : Runs, head : Commits, found : SUBSET Kinds])
  /\ seen \in [Audits -> SUBSET Commits] /\ trees \in SUBSET Trees

\* What a clone's audit says of a range and a work tree that move under it: each
\* kind of drift it reports was there, at some commit HEAD named or in some state of
\* the tree meanwhile, and each it does not report was not.  That no change is
\* unlogged it may say of two commits: no file changed as of the one was unlogged as
\* of the later one.  An unknown base is never "the textbook vacuous no drift"
\* (audit_drift.py:17-18).
Shown(kind) ==
  \/ kind \in OfTheRange /\ \E c \in seen[Local] : kind \in Smells[c]
  \/ kind \in OfTheTree /\ \E t \in trees : kind \in t
  \/ kind = "unlogged" /\ \E c \in seen[Local] : Unlogged(c, c)
NotShown(kind) ==
  \/ kind \in OfTheRange /\ \E c \in seen[Local] : kind \notin Smells[c]
  \/ kind \in OfTheTree /\ \E t \in trees : kind \notin t
  \/ kind = "unlogged" /\ \E c, d \in seen[Local] : c <= d /\ ~Unlogged(c, d)
Caused(kind) == IF kind \in found[Local] THEN Shown(kind) ELSE NotShown(kind)

Asked(kind) == kind \notin {"log", "body"} /\ (kind = "checks" => "checks" \in opts[Local])
VerdictHadACause ==
  pc[Local] = "done" /\ exit[Local] # "2" => \A kind \in Kinds : Asked(kind) => Caused(kind)

\* What the workflow records and posts is the whole truth of the one commit it
\* names, with the body the event brought, whatever is pushed meanwhile
\* (audit.yml:8-15).
Truth(r, c) == Smells[c] \cup (IF eventBody[r] THEN {} ELSE {"body"})
                         \cup (IF Unlogged(c, c) THEN {"unlogged"} ELSE {})
ReportsAreOfTheirCommit ==
  /\ \A a \in artifacts : \A i \in DOMAIN a.records :
       Len(a.records) = 1 /\ a.records[i].found = Truth(a.run, a.records[i].head)
  /\ \A i \in DOMAIN comments : comments[i].found = Truth(comments[i].run, comments[i].head)

\* A history file has one record of a head, however often it is audited (:380).
OneRecordPerHead ==
  \A p \in Audits : \A i, j \in DOMAIN history[p] :
    history[p][i].head = history[p][j].head => i = j

\* ... and each audit asked to keep a history leaves one of the head it ended on,
\* for good, unless that head already stands there as a base.
RecordsStay ==
  [][\A p \in Audits :
       /\ \A i \in DOMAIN history[p] : i \in DOMAIN history'[p] /\ history'[p][i] = history[p][i]
       /\ pc[p] = "finish" /\ exit'[p] \in {"0", "1"} /\ "history" \in opts[p] =>
            \E i \in DOMAIN history'[p] : at[p] \in {history'[p][i].head, history'[p][i].base}]_vars

\* The last comment is about the newest commit any comment is about: no run
\* reports an older commit after a newer one (audit.yml:21-23).
CommentsInOrder ==
  \A i, j \in DOMAIN comments : i < j => comments[i].head <= comments[j].head

\* The newest push is never the one whose run is cancelled, and when its run
\* succeeds there is a report of the very commit at the tip (audit.yml:17-23).
NewestIsReported ==
  \A r \in Runs : Newest(r) =>
    /\ job[r] # "cancelled"
    /\ job[r] = "success" => \E i \in DOMAIN comments : comments[i].head = tip

------------------------------------------------------------------------------
(* The inductive invariant behind them *)

\* What an audit of the clone knows of the questions it has asked.
LocalFits ==
  LET p == Local IN
  /\ Auditing(p) => at[p] \in seen[p] /\ exit[p] = "running"
  /\ found[p] \subseteq {Asks[i] : i \in 1..asked[p]}
  /\ pc[p] \in {"ask", "finish"} \/ exit[p] \in {"0", "1"} => "badref" \notin opts[p]
  /\ pc[p] = "finish" \/ exit[p] \in {"0", "1"} => asked[p] = Len(Asks)
  /\ pc[p] \in {"refs", "ask"} => asked[p] < Len(Asks)
  /\ pc[p] = "done" => exit[p] \in {"0", "1", "2"}
  /\ \A i \in 1..asked[p] : Asked(Asks[i]) => Caused(Asks[i])
  /\ Auditing(p) => tree \in trees /\ \A c \in seen[p] : c <= at[p]
  /\ asked[p] >= 1 => changed[p] \in seen[p]
  /\ asked[p] >= 2 => claims[p] \in seen[p] /\ changed[p] <= claims[p]

\* What a run of the workflow has done when it is where it is.
Finished(r) == pc[r] = "done" /\ exit[r] = "0"
RunFits(r) ==
  /\ job[r] \in {"none", "queued", "start"} => history[r] = <<>>
  /\ Working(r) =>
       /\ opts[r] = {"history", "checks"}
       /\ found[r] = Truth(r, at[r]) \cap {Asks[i] : i \in 1..asked[r]}
       /\ asked[r] >= 1 => changed[r] = at[r]
       /\ asked[r] >= 2 => claims[r] = at[r]
       /\ pc[r] \in {"refs", "ask"} => asked[r] < Len(Asks)
       /\ pc[r] = "finish" => asked[r] = Len(Asks)
       /\ Auditing(r) => history[r] = <<>> /\ exit[r] = "running"
       /\ ~Auditing(r) => /\ Finished(r) /\ asked[r] = Len(Asks)
                          /\ history[r] = <<[head |-> at[r], base |-> 0, found |-> found[r]]>>
  /\ job[r] = "comment" => Finished(r)
  /\ ~Working(r) => ~Auditing(r)

\* One run at a time, over a branch that only grows.
GroupFits ==
  /\ tip <= at[Local]
  /\ \A r \in Runs : Working(r) => at[r] <= tip
  /\ \A r, q \in Runs : Active(r) /\ Active(q) => r = q
  /\ \A i \in DOMAIN comments :
       comments[i].head <= tip /\ \A r \in Runs : Working(r) => comments[i].head <= at[r]
  /\ \A r \in Runs : Newest(r) => r \notin doomed /\ (Working(r) => at[r] = tip)
  /\ \A r \in Pushed, q \in Runs : q < r => q \in Pushed
  /\ doomed \subseteq Pushed
  /\ \A a \in artifacts : a.run \in Pushed
  /\ \A i \in DOMAIN comments : comments[i].run \in Pushed

DriftInv ==
  /\ TypeOK /\ LocalFits /\ (\A r \in Runs : RunFits(r)) /\ GroupFits
  /\ ReportsAreOfTheirCommit /\ OneRecordPerHead /\ CommentsInOrder /\ NewestIsReported
=============================================================================

----------------------------- MODULE MergeGate -----------------------------
(***************************************************************************)
(* How a change reaches `main`: branches, pull-request runs of the CI      *)
(* workflow and the squash merge under the branch protection that          *)
(* SETTINGS-CHECKLIST.md records.  The guard reaches CI through one test   *)
(* of the lib lane, tests/lib/test_file_guard.py, which compares the       *)
(* checked-out tree with .fileguard.json; here that comparison is one      *)
(* atomic step, which FileGuard justifies for a tree nobody edits.         *)
(*                                                                         *)
(* Covered: several pull requests at once, runs that see the merge of the  *)
(* head with the main of the moment they were triggered, results that go   *)
(* stale, re-runs, cancelled runs, branch updates, conflicts, the strict   *)
(* up-to-date rule, the required contexts, and one an app outside the      *)
(* workflows reports when it likes, or never.                              *)
(* Not covered: who reviews, approvals (0 required), forks, merge queues,  *)
(* deleted files.                                                          *)
(***************************************************************************)
EXTENDS Naturals

CONSTANTS
  PRs,
  Contexts,     \* what a commit can be required to have reported
  Apps,         \* those of an app with no workflow here, such as CodeRabbit
  LibLane,      \* "Lib lane + lint + dep-prune", the one that runs the guard
  Files, Contents,
  Guard,        \* tools/file_guard.py
  GuardTest,    \* tests/lib/test_file_guard.py
  ProtectedIn,  \* the PROTECTED_FILES a content of Guard declares
  CallsGuard,   \* the contents of GuardTest that still run the comparison
  Gone,         \* no such key in the manifest
  MaxCommits    \* bound on the commits pushed to one branch

ASSUME MergeGateAssumption ==
  /\ LibLane \in Contexts
  /\ Apps \subseteq Contexts \ {LibLane}
  /\ {Guard, GuardTest} \subseteq Files
  /\ ProtectedIn \in [Contents -> SUBSET Files]
  /\ CallsGuard \subseteq Contents
  /\ Gone \notin Contents
  /\ MaxCommits \in Nat

\* A commit: the tree, and the committed baseline.
Commits == [tree : [Files -> Contents], manifest : [Files -> Contents \cup {Gone}]]

Listed(c) == {f \in Files : c.manifest[f] # Gone}

\* file_guard.check(...) = 0 on a checkout of c.
Consistent(c) ==
  \A f \in Listed(c) \cup ProtectedIn[c.tree[Guard]] : c.manifest[f] = c.tree[f]

\* `make guard-update` on c.
Snapshot(c) == [c EXCEPT !.manifest =
  [f \in Files |-> IF f \in ProtectedIn[c.tree[Guard]] THEN c.tree[f] ELSE Gone]]

\* What the lib lane reports for the guard: nothing, if the test is not there.
LaneIgnoresGuard(c) == TRUE
LaneGreen(c) == c.tree[GuardTest] \in CallsGuard => Consistent(c)

VARIABLES
  main, rev,            \* the branch and how often it moved
  required,             \* the required contexts now
  phase,                \* "none" | "open" | "merged"
  base, baseRev, head,  \* a branch: what it contains of main, and its tip
  commits,              \* commits its author pushed
  subject,              \* what the runs on the tip check out
  checks                \* what was reported on the tip

prVars == <<phase, base, baseRev, head, commits, subject, checks>>
vars   == <<main, rev, required, prVars>>

States == {"absent", "pending", "success", "failure", "cancelled"}

------------------------------------------------------------------------------
(* git's three-way merge, path by path and key by key *)

Pick(b, ours, theirs) == IF theirs = b THEN ours ELSE theirs
Clash(b, ours, theirs) == ours # b /\ theirs # b /\ ours # theirs

Conflict(b, ours, theirs) ==
  \E f \in Files : \/ Clash(b.tree[f], ours.tree[f], theirs.tree[f])
                   \/ Clash(b.manifest[f], ours.manifest[f], theirs.manifest[f])

Merged(b, ours, theirs) ==
  [tree     |-> [f \in Files |-> Pick(b.tree[f], ours.tree[f], theirs.tree[f])],
   manifest |-> [f \in Files |-> Pick(b.manifest[f], ours.manifest[f], theirs.manifest[f])]]

------------------------------------------------------------------------------
(* The author *)

\* A new tip: the workflows run on the merge of the tip with main as it is now,
\* or not at all when the two conflict; what the apps will report nobody here
\* knows.  Results on the old tip no longer count.
NewTip(p, b, bRev, tip) ==
  /\ base' = [base EXCEPT ![p] = b]
  /\ baseRev' = [baseRev EXCEPT ![p] = bRev]
  /\ head' = [head EXCEPT ![p] = tip]
  /\ subject' = [subject EXCEPT ![p] = Merged(b, tip, main)]
  /\ checks' = [checks EXCEPT ![p] =
                  [c \in Contexts |-> IF c \in Apps \/ Conflict(b, tip, main)
                                      THEN "absent" ELSE "pending"]]

\* One commit changes a file, or takes a snapshot, or writes one key by hand.
Change(c) ==
  {[c EXCEPT !.tree[f] = v] : f \in Files, v \in Contents}
    \cup {Snapshot(c)}
    \cup {[c EXCEPT !.manifest[f] = v] : f \in Files, v \in Contents \cup {Gone}}

OpenPR(p) ==
  /\ phase[p] = "none"
  /\ \E tip \in Change(main) : NewTip(p, main, rev, tip)
  /\ phase' = [phase EXCEPT ![p] = "open"]
  /\ commits' = [commits EXCEPT ![p] = 1]
  /\ UNCHANGED <<main, rev, required>>

Push(p) ==
  /\ phase[p] = "open"
  /\ commits[p] < MaxCommits
  /\ \E tip \in Change(head[p]) : NewTip(p, base[p], baseRev[p], tip)
  /\ commits' = [commits EXCEPT ![p] = @ + 1]
  /\ UNCHANGED <<main, rev, required, phase>>

\* "Update/rebase the branch; checks re-run" (docs/CI_AND_LIVE_STATE.md:58).
UpdateBranch(p) ==
  /\ phase[p] = "open"
  /\ baseRev[p] # rev
  /\ ~Conflict(base[p], head[p], main)
  /\ NewTip(p, main, rev, Merged(base[p], head[p], main))
  /\ UNCHANGED <<main, rev, required, phase, commits>>

------------------------------------------------------------------------------
(* The workflows *)

\* A lane may fail for its other steps; it is green only if the guard's test is.
Finish(p, c) ==
  /\ phase[p] = "open"
  /\ checks[p][c] = "pending"
  /\ \E s \in {"success", "failure", "cancelled"} :
       /\ s = "success" /\ c = LibLane => LaneGreen(subject[p])
       /\ checks' = [checks EXCEPT ![p][c] = s]
  /\ UNCHANGED <<main, rev, required, phase, base, baseRev, head, commits, subject>>

\* A re-run checks out the same merge again.
Rerun(p, c) ==
  /\ phase[p] = "open"
  /\ c \notin Apps
  /\ checks[p][c] \in {"success", "failure", "cancelled"}
  /\ checks' = [checks EXCEPT ![p][c] = "pending"]
  /\ UNCHANGED <<main, rev, required, phase, base, baseRev, head, commits, subject>>

\* An app reports on the tip, by itself or nudged by a comment; it may skip it.
AppReports(p, c) ==
  /\ phase[p] = "open"
  /\ c \in Apps
  /\ \E s \in {"success", "failure"} : checks' = [checks EXCEPT ![p][c] = s]
  /\ UNCHANGED <<main, rev, required, phase, base, baseRev, head, commits, subject>>

\* The owner begins to require the context of an app, or gives one up that
\* nothing produces, the way out of "the absent-required trap".
Require(c) ==
  /\ c \in Apps
  /\ required' = IF c \in required THEN required \ {c} ELSE required \cup {c}
  /\ UNCHANGED <<main, rev, prVars>>

------------------------------------------------------------------------------
(* The merge *)

\* `strict`: the branch contains the tip of main.
NotStrict(p) == ~Conflict(base[p], head[p], main)
UpToDate(p) == baseRev[p] = rev

\* A mutant: any green check will do.
AnyGreen(p) == \E c \in Contexts : checks[p][c] = "success"
AllGreen(p) == \A c \in required : checks[p][c] = "success"

SquashMerge(p) ==
  /\ phase[p] = "open"
  /\ UpToDate(p)
  /\ AllGreen(p)
  /\ main' = Merged(base[p], head[p], main)
  /\ rev' = rev + 1
  /\ phase' = [phase EXCEPT ![p] = "merged"]
  /\ UNCHANGED <<required, base, baseRev, head, commits, subject, checks>>

------------------------------------------------------------------------------
Init ==
  /\ main \in {Snapshot(c) : c \in Commits} /\ main.tree[GuardTest] \in CallsGuard
  /\ rev = 0
  /\ required \in {Contexts, Contexts \ Apps}
  /\ phase = [p \in PRs |-> "none"]
  /\ base = [p \in PRs |-> main] /\ head = [p \in PRs |-> main]
  /\ subject = [p \in PRs |-> main]
  /\ baseRev = [p \in PRs |-> 0] /\ commits = [p \in PRs |-> 0]
  /\ checks = [p \in PRs |-> [c \in Contexts |-> "absent"]]

Next ==
  \/ \E p \in PRs :
       \/ OpenPR(p) \/ Push(p) \/ UpdateBranch(p) \/ SquashMerge(p)
       \/ \E c \in Contexts : Finish(p, c) \/ Rerun(p, c) \/ AppReports(p, c)
  \/ \E c \in Contexts : Require(c)

Spec == Init /\ [][Next]_vars

------------------------------------------------------------------------------
(* Properties *)

TypeOK ==
  /\ main \in Commits /\ rev \in Nat
  /\ required \subseteq Contexts
  /\ phase \in [PRs -> {"none", "open", "merged"}]
  /\ base \in [PRs -> Commits] /\ head \in [PRs -> Commits] /\ subject \in [PRs -> Commits]
  /\ baseRev \in [PRs -> Nat] /\ commits \in [PRs -> Nat]
  /\ checks \in [PRs -> [Contexts -> States]]

\* The working-tree comparison "bites even when a diff-based gate's base ref is
\* wrong" (file_guard.py:11-12): however pull requests, stale results and
\* re-runs interleave, a main that carries the guard's test matches its
\* committed baseline.
MainMatchesBaseline == main.tree[GuardTest] \in CallsGuard => Consistent(main)

\* "The guard only forces that pair into the reviewed diff" (file_guard.py:
\* 16-18): a merge that changes a file the baseline lists changes the baseline,
\* while the guard's test is kept.
Tripwire(f) == main'.tree[f] # main.tree[f] => main'.manifest # main.manifest

TamperEvident ==
  [][ {main.tree[GuardTest], main'.tree[GuardTest]} \subseteq CallsGuard =>
        \A f \in Listed(main) : Tripwire(f) ]_vars

\* What lands on main is what the required contexts were green on: the strict
\* rule rules out results on an older main.
MergedWhatWasChecked ==
  [][ \A p \in PRs : phase[p] = "open" /\ phase'[p] = "merged" =>
        main' = subject[p] ]_vars

\* "a HARD tripwire" (file_guard.py:7): the same without the proviso.
HardTripwire == [][ \A f \in Listed(main) : Tripwire(f) ]_vars
------------------------------------------------------------------------------
(* The inductive invariant behind them: while main has not moved since the
   branch took it in, the runs on its tip saw exactly the tip. *)

RunsSawTheTip(p) ==
  /\ baseRev[p] <= rev
  /\ baseRev[p] = rev => base[p] = main /\ subject[p] = head[p]
  /\ phase[p] = "open" /\ checks[p][LibLane] = "success" => LaneGreen(subject[p])

GateInv ==
  TypeOK /\ LibLane \in required /\ MainMatchesBaseline /\ \A p \in PRs : RunsSawTheTip(p)
==============================================================================

# Verification of DEP-TEST-KIT

TLA+ models of DEP-TEST-KIT's own machinery, the TLC runs that check them and
TLAPS proofs of what matters most. Every definition is translated from the source;
`PROJECT.json` says from which lines.

## 1. The system

DEP-TEST-KIT is a library of *test harnesses* and the *gates* that keep the harnesses
honest. A harness pairs an oracle with a planted bug and a self-test that must tell
them apart. The gates check the harnesses, one another, and every change on its way
to `main`.

| component | state | operations | what makes it correct |
|---|---|---|---|
| file guard `tools/file_guard.py` | `.fileguard.json`, the working tree | `--check`, `--update` | exit 0 is earned, exit 1 has a cause, a snapshot is complete, failures are named |
| CI lanes and branch protection | `main`, branches, check results | push, run, re-run, update, squash merge | main matches its baseline; what is merged is what was checked |
| vacuity gate `tools/vacuity_gate.py` | four lists, one worker subprocess | discover, classify, report | TEETH, VACUOUS, ERROR and the exit code mean what they say; it ends |
| staged scan `tools/scan_staged.py` | a parser's position in a diff | scan the index or a PR range | every added line is seen once, under its own path and number |
| drift audit `tools/audit_drift.py`, `audit.yml` | findings, a history file, the workflow's runs | parse, scan, `--fix`, `--history`, upload, comment | a bad ref is an error, not an empty audit; each report is of the commit it names; each head is recorded once |
| control audit `tools/control_audit.py` | findings, waivers | policy and workflow checks | every unwaived finding fails |
| gate canary `tools/gate_canary.py` | results | run the gates on known-bad input | fails exactly when a gate went soft |
| `make selftest` `Makefile` | the harness it has come to | run each self-test, stop at the first red one | a harness that lost its teeth is red |
| integration fixtures `tests/integration/conftest.py` | containers, databases, queues | set up, hand out, clean up | tests do not see each other's data |
| integration harnesses (11) | a real broker, store or proxy | publish, consume, read, expire | the contract of each service as the harness states it |
| credential harnesses (9) | nonces, steps, codes, a clock | make, issue, authorize; admit, verify, exchange | accepts what is fit and nothing else; nothing twice |
| resilience and log harnesses (6) | a breaker, an attempt count, a chain of entries | fan out, retry, fetch, append, verify | calls stay below the threshold; loops stop; an edit shows |
| policy harnesses: access (11), integrity (9), contract (13), ai scores (6) | none, but for a registry of accounts | decide, resolve, score | the oracle's contract; the planted bug is caught |
| injection and parsing harnesses (13) | none | hand one text to a library | the library's escaping or parsing |
| harness template `template/harness_template.py` | a failure count | the self-test protocol every harness follows | a failed check is an exit code |
| other workflows (3) | none | run a linter or a mutation tool once | - |

How they interact: `make all` runs the gates in sequence on one machine. In CI the
guard runs inside the lib lane's pytest (`tests/lib/test_file_guard.py`), the vacuity
gate in a workflow of its own and also inside pytest, the staged scan on the pull
request's range. The canary imports the scanner and the vacuity gate and drives the
real code. The guard hashes the files of the other gates and its own. `make selftest`
runs every lib and ai harness in the lib lane; the integration harnesses' self-tests
return 0 and leave the work to `tests/integration`, which shares one service per kind
and worker among its tests.

What is hard: the tree changes while the guard reads it; runs go stale while pull requests
interleave; worker subprocesses time out, or fail for reasons that look like the expected
one; a diff is parsed line by line with no framing but its own text; `HEAD` and the work
tree move while an audit asks about them, a workflow run checks out whatever the branch
holds by then, and a newer push supersedes the run that audits an older one; brokers
redeliver, and lose. A verifier must remember what is used up across any order of calls and
any clock, and must not be spoiled by a call it refuses; a retry loop meets faults of
several kinds; a test inherits what an earlier test left in a service. `PROJECT.json` lists
each of these under `hazards`, at its line.

## 2. Plan

Order: the parts a wrong verdict of which would go unnoticed come first.

| # | modules | of | composes | status |
|---|---|---|---|---|
| 1 | `FileGuard` | the guard against a moving tree | - | checked, proved |
| 2 | `MergeGate` | pull requests, runs and branch protection | takes FileGuard's comparison as one step | checked, proved |
| 3 | `VacuityGate` | the meta-gate and its worker | self-tests are sets of assertions | checked, proved; liveness checked |
| 4 | `DiffReaders` | the two parsers of a diff | both readers on one diff | checked, proved |
| 5 | `AtLeastOnce`, `RabbitRedelivery` | a delivery promise, and the harness that should keep it | the second refines the first | checked, proved, the refinement too; liveness checked |
| 6 | `DriftAudit` | audits in a clone and in the workflow's runs | clone, forge and runs on one branch | checked, proved |
| 7 | `SelfTests`, `CredentialVerifiers`, `SingleUse`, `CredentialHarnesses` | the nine verifiers and a one-time promise | the last refines `SingleUse` | checked, proved, the refinement too |
| 8 | `ResilienceParts`, `ResilienceHarnesses` | breaker, retry loops, hash-chained log | a failing world drives the parts | checked, proved |
| 9 | `AccessPolicies`, `IntegrityChecks`, `ContractChecks`, `ScoreChecks`, `PolicyHarnesses` | the decision functions, by family | four oracles against what they are for, on every small input | checked, proved |
| 10 | `HarnessLane` | `make selftest` | the self-tests of 7 to 9 in one lane, any one oracle broken | checked, proved |
| 11 | `StoreHarnesses` | ten services, their stores, readers and clients | the fixtures and one test after another | checked, proved |

The gate canary was planned and is not modelled: see section 6.

## 3. The modules and the code

A history variable (marked so where it is declared) only records the past for a
property; no action reads it. Wording, printing and argument parsing are left out
everywhere.

**FileGuard** (`tools/file_guard.py`). `tree` maps paths to a content, or to `Absent`,
`Unreadable` or `Unstatable` (below a directory that may not be searched); a digest is
abstracted to the content it is of. The check's steps are `CheckLoad` (`_load_baseline`),
`CheckStat(f)` and `CheckHash(f)` (the `is_file` and `read_bytes` of one file, two reads
of the tree) and `CheckReport`; the snapshot's are `UpdateHash(f)`, `UpdateRefuse`,
`UpdateOpen` and `UpdateWrite` (the truncation and the write of `write_text`).
`UpdateKilled` ends a snapshot between those. `Edit` and `EditManifest` are a developer
who changes one file or the manifest between any two steps. The set of protected files
is that of the version of the guard being run (`ProtectedIn`).

**MergeGate** (`.github/workflows/ci.yml`, `SETTINGS-CHECKLIST.md`,
`tests/lib/test_file_guard.py`). A commit is a tree and a manifest; a merge is three-way,
per path of the tree and per key of the manifest. `NewTip` starts the runs of a new head on
the merge with the main of that moment; `Finish` and `Rerun` are the runs, `SquashMerge`
needs all required contexts green and the branch up to date. A context of `Apps`
(CodeRabbit, `.coderabbit.yaml:3-8`) has no workflow here: it is absent until the app
reports it with `AppReports`, perhaps never, and the owner may stop requiring it or require
it again with `Require` (`docs/CI_AND_LIVE_STATE.md:156-163`, `:198-202`). The guard inside
CI is one step (`LaneGreen`): nobody edits a checkout, and FileGuard shows that the check is
then exact.

**VacuityGate** (`tools/vacuity_gate.py`). `Gate` is `run_gate` with `_discover` and
`_classify`; `Worker` is the subprocess, which neuters (`WorkerNeuter`), runs the self-test
(`WorkerSelfTest`), or is abandoned after 120 s (`WorkerTimeout`, which may fire at any
step). A self-test is the set of assertions it makes, each on one symbol. `Mutate` is
`_mutate` by type, text and collections by their length. The roster `_discover` finds is any
of `Rosters`, the empty one too.

**DiffReaders** (`_added_lines` of `tools/scan_staged.py`, `parse_added` of
`tools/audit_drift.py`). Git writes a diff one line per step, any diff its grammar
allows; both readers take the same line. A text has one of the beginnings a reader
reacts to (`head`), and may hold a character `str.splitlines` takes for a line end; the
piece behind it begins in one of those ways too (`tail`). `Piece` is the loop's body, and
`StagedReads` runs both pieces of a line through it: a `+` piece is yielded, `+++ b/` names a
file, `@@` sets the number, `-` counts nothing. An entry of a result knows which piece of which
added line it is, or that it is a piece of a removed one.

**RabbitRedelivery** (`harnesses/integration/rabbitmq_redelivery_test_harness.py`).
`Get`, `ProcessorSucceeds`, `ProcessorRaises`, `Interrupted`, `SendAck` and `SendNack`
are `process_one`; `StartProbe` to `PollDeadline` are `remaining_after_failure`. The
broker is external: it takes the frames of a channel in order, in its own time, and
requeues what a lost connection had not settled. **AtLeastOnce** is the promise: a
message is held until it has been processed, perhaps more than once. Its `held` is
mapped to `Held`, the messages ready or delivered and not settled.

**DriftAudit** (`main` of `tools/audit_drift.py`, `.github/workflows/audit.yml`).
`EnsureRefs`, one `Ask` per git question in the order of `main`, and `Finish` (report,
history file, exit code) are one audit; each `Ask` resolves `HEAD` anew, or reads the work
tree (`tree`, `checks`), which holds uncommitted edits. `Commit` moves the clone's `HEAD`
and `Edit` its work tree between any two of them. The paths of `names` and the messages of
`log` are of two moments; `unlogged` compares what each read. `Push` is the event,
`Supersede` what the concurrency group does with older runs, `StartJob` the engine handing a
run to a runner, `Checkout` its checkout of the branch as it is by then, `Upload` and
`Comment` the steps after the audit, `Fail` and `Cancel` its ends. A finding is the question
that led to it.

**SelfTests** (`template/harness_template.py`) is the protocol of a harness: a sequence of
checks, a count of failures, an exit code. Every harness of 7 to 9 is an operator from
the set of symbols that *lie* (whose answer is turned round, as the vacuity gate neuters
them) to its checks. **CredentialVerifiers**, **ResilienceParts**, **AccessPolicies**,
**IntegrityChecks**, **ContractChecks** and **ScoreChecks** hold these operators: for each
harness the oracle's decision, the planted bug's, the probe and the self-test.
Cryptography is symbolic: a tag is who made it and what it is over. A Hypothesis search
over a strategy smaller than its number of examples is a quantifier.

**CredentialHarnesses** drives one of the nine verifiers. `MakeToken`, `Issue`, `Authorize`
and `MakeOther` are the holder of the secret; `Admit`, `VerifyReset`, `VerifyTotp`,
`Exchange`, `Validate`, `VerifyWebhook`, `Execute`, `Receive` and `Load` are the verifier's
calls on anything that can be presented: any text under the tag of a credential that was
made, or under a tag anybody can compute. `SetClock` moves time either way. `seen` and
`codes` are what the code remembers; `granted`, `uses` and `held` are histories, and what is
*fit* is said in their terms alone. What a holder meant (`Means`) is kept apart from the
text that is signed: a step-up means an action and a nonce, and its text joins the two, so
that with a separator in either two meanings have one text. `last.clear` says that the text
of a call shows where its parts end. **SingleUse** is the promise; `granted` and `uses` are
its state, so the mapping is the identity.

**ResilienceHarnesses** drives the parts: `Task` and `TimeoutPasses` are a fan-out over a
dead dependency and pybreaker's reset timeout, `Attempt` and `Request` one round of each
loop with any outcome, `AppendEntry` and `Tamper` the log. pybreaker, tenacity and httpx
are external.

**StoreHarnesses** (`harnesses/integration/*`, `tests/integration/conftest.py`). `rows` is
what the service holds: a sequence, or in redis, elasticsearch, s3 and behind the chaos
proxy a function from keys to rows. `Setup`, `SetupProxy` and `Teardown` are the fixtures,
the last with a clean-up that may fail; between them a test drives the oracle's or the buggy
store of one service. Postgres rolls back whatever happens, and the tests of mysql begin
with `ensure_schema`, which drops the table; the other fixtures clear before they yield, but
for one. `chaos_proxy` makes and destroys a proxy only: what `SetThrough` wrote to the redis
behind it stays, and a proxy that was not destroyed makes the next `create` raise. A search
returns one page, of `MaxHits` documents. `publish` ignores what `flush(15)` says, so that
`Publish` may leave the topic without the message, which reaches it later, never or more
than once (`Straggler`). A Kafka reader is given its partition some time after it
subscribed, and its deadline may come first.

**HarnessLane** (`Makefile:26-30`) runs the 54 modelled self-tests in turn and stops at the
first red one, with no oracle or any single one lying. **PolicyHarnesses** asks four oracles
more than their self-tests do: any sequence of registrations, any prompt, any candidates,
any text. What an oracle goes by is kept apart from what it stands for: an address has the
form `_canon` folds it to and the look it has, a block matches `_VOLATILE_RE` or not and
comes out the same or not, in any combination. The oracle of `rbac_authz_differential` is a
table and its reference the same table, so that it is asked only in its self-test.

## 4. What the runs check

| run | instance | shows |
|---|---|---|
| `guard_safety` | 2 files, 2 contents, the second version of the guard protects fewer files, 2 edits | exit 0, exit 1 and a snapshot are each true of some moment of their run; a snapshot followed by a check on a quiet tree is green |
| `merge_safety` | 2 pull requests, 2 commits each, 3 files of which one is protected by the new guard only | main matches its baseline while it carries the guard's test; a listed file changes only with the baseline; what is merged is what was checked |
| `vacuity_safety` | four rosters: one harness of every kind (see below), two that are clean, the empty one | each status and the exit code mean what they say, and the gate ends |
| `diff_safety` | 2 files, one with a quoted name, 10 lines, any content line with a break in it | which added lines each reader recovers, and how far a misread line reaches |
| `rabbit_safety` | 2 acking consumers, 2 messages | the harness implements AtLeastOnce; no two connected consumers work on one message |
| `rabbit_live` | an acking and a buggy consumer | the probe tells them apart, and ends; a message comes back |
| `drift_audit` | a clone, 3 commits, 2 pushes | what an audit says was so at some moment of it, or at two in their order; reports, records and comments are of the commit they name; the newest push is the one that is reported |
| `harnesses` | one verifier, resilience harness, service, policy oracle or lane at a time | verifiers accept exactly what is fit, as far as a text shows its parts, and use nothing up twice; a breaker, two loops and a log do what they promise; a test starts fresh and its oracle serves it; a broken oracle reds the lane; policies meet their purpose unless their fold or pattern is mistaken |

The runs that end in a violation each show a finding:

| run | finding |
|---|---|
| `guard_crash` | a protected file or the manifest below a directory that may not be searched ends the check with an uncaught `PermissionError`, where the module says that every failure is named |
| `merge_tripwire` | CI runs the guard only through a test the guard does not protect: with the test gone, a listed file changes on main and the baseline does not |
| `vacuity_stale` | a target that names nothing in its module fails the worker before the self-test runs, and reads TEETH |
| `diff_each` | an added line whose text begins with `++` looks like a file header and is not yielded |

Six smaller ones have no run of their own. `_mutate` returns an infinite or very large
float unchanged, so a self-test that pins one reads VACUOUS (`Twinless` in VacuityGate);
`harnesses/lib/file_upload_validation_test_harness.py` is the one harness beside
`mutation_quality` without targets, while `vacuity.yml:21-22` names only the latter; and
the staged scan counts the marker `\ No newline at end of file` as a line, so that the
numbers after it in the same hunk are one too high (`StagedPlaces` has the proviso). It also
yields a `+` piece behind a form feed in a *removed* line, where
`scan_staged.py:13-14` says that only added lines are searched. `publish` of the Kafka harness
says that it blocks "until it is delivered" (`kafka_stream_test_harness.py:35`) and does not
look at whether it was. And `conftest.py:4-11` claims isolation per service, which the redis
behind the chaos proxy does not have: today's tests set different keys.

Bounds and why they suffice. Two files are enough for the guard because the check treats
each on its own and only the sets of visited files and of complaints connect them; two edits
allow a file to change and change back between two reads. With two pull requests one can go
stale because of the other, which is all the strict rule is about. The first roster holds
each kind of self-test once: pinning, vacuous, two targets, a masked target, a red control,
truthiness of text, a hang, an infinite float, a stale target, no targets; the other three
end with exit 0. Ten lines, of which at most two add a text that is not plain (`TwoOdd`, a
constraint), let a diff hold an oddity or two, the rest of its hunk and another hunk or
another file. Two pushes are enough for one run to supersede a waiting or a working one;
three commits let a change and the message that names it come apart between two reads; the
theorems hold for any number. A behaviour of `drift_audit` has audits in the clone or
pushes, not both (`OneSide`, a constraint): the two share the clone's `HEAD`, which neither
of them moves, so that what either can do is there; the theorems are about both together.
`harnesses` is a union of small state spaces, not a product: its components share no state,
so `MCHarnesses` starts one of them and leaves the others idle. Two identifiers and two
owners, one of each with a separator in it, show a text cut at the wrong place; four times
with steps of two seconds have a boundary inside and between steps, and two steps share a
code; two credentials let one be presented after another, two authorizations let a code be
granted again. Eight tasks and three resets pass a `fail_max` of three; four entries have a
first, an inner and a last one; two tests of three writes show what one leaves to the next,
with a time to live of up to two, and a page of one document is full with the first and has
one left out with the second. The four addresses hold two that fold together and look alike,
two that look alike and fold apart, and two that fold together and look different. Prompts
of three blocks have several breakpoints, texts of five letters have runs at either end.
Every bound is a constant or a guard of a module: `Budget`, `MaxCommits`, `MaxLines`,
`MaxNo`, `MaxHeld`, `MaxGranted`, `MaxTasks`, `MaxResets`, `MaxEntries`, `MaxTests`,
`MaxWrites`, `MaxTtl`, `MaxHits`, `MaxBlocks`, `MaxLetters`, and the sets themselves.

`CHECK_DEADLOCK FALSE` is set where the system may stop: the guard's two processes end and
the edits are used up, all pull requests are merged and their commits used up, the vacuity
gate ends, a diff ends, a retry loop or the lane ends and a session has run its tests.
RabbitRedelivery and DriftAudit are checked for deadlock.

One more thing the `harnesses` run says: the only oracle that can lie in silence is
`mutmut_available`, which sends its harness to a green skip (`KitHasTeeth`).

Fairness is assumed in two places. In VacuityGate the gate waits for nothing but its
worker, and `subprocess.run(timeout=...)` ends a worker that does not end by itself, so
both are weakly fair. In RabbitRedelivery the broker serves its channels and a call in
progress goes on; nobody has to publish, to call or to reconnect, and a connection may
break at any time.

## 5. What is proved

TLAPS proves these for every value of the constants that satisfies the named
assumptions of the module; the assumptions say that constants are of the right kind and
that sentinels differ from real values, nothing about sizes; besides, that a branch begins
without drift and keeps its messages (`BranchAssumption`), and that an address is one with
what is written (`EmailAssumption`).

| module | invariant | theorems | the argument |
|---|---|---|---|
| `FileGuardProofs` | `GuardInv` | `TypeCorrect`, `CleanIsEarned`, `DriftIsEarned`, `SnapshotIsFaithful`, `RoundTripIsClean` | a file the check has visited either had its baseline content at some moment or has a line about it, so an empty list of complaints at the end accounts for all |
| `MergeGateProofs` | `GateInv` | `MainStaysConsistent`, `MergesAreChecked`, `ChangesShowInTheDiff`, `TypeCorrect` | while main has not moved since a branch took it in, the runs on its tip saw exactly the tip; the strict rule demands just that |
| `VacuityGateProofs` | `VacuityInv` | `NoMasking`, `ErrorsAreBroken`, `ExitAccountsForAll`, `NoFalseVacuous`, `GateNearsItsEnd`, `TypeCorrect` | what a worker's exit code says of its self-test, and that the harnesses before the current one are each in a list; `Ahead` and `Work` count down what is left of the roster, of the runs of a self-test and of the worker |
| `DiffReadersProofs` | `ReaderInv` | `StagedSeesEachOnce`, `StagedPlacesAreExact`, `AuditSeesEachOnce`, `AuditPlacesAreExact`, `TypeCorrect` | the readers' number and path agree with git's in every hunk and file without an oddity, and a piece of a broken line disturbs them only where the hunk or the file is marked for it |
| `RabbitRedeliveryProofs` | `RabbitInv` | `AckingDeliversAtLeastOnce`, `OneWorker`, `ProbesTellApart`, `TypeCorrect` | a message is in one place at a time, a frame is about a delivery of its own channel, what is acked is done, and what a buggy consumer has in hand the broker has forgotten; a probe on one message finds the broker holding that message or, if it acked it by itself, nothing. With acking consumers every step maps to a step of AtLeastOnce or to a stutter |
| `DriftAuditProofs` | `DriftInv` | `ReportsHold`, `HeadsHaveOneRecord`, `CommentsMoveForward`, `NewestGetsItsComment`, `VerdictsHold`, `RecordsAreKept`, `TypeCorrect` | one run at a time on a branch that only grows; what a working run has found is the truth of the commit it checked out so far; the newest push is never doomed; in a clone the paths are read no later than the messages |
| `CredentialHarnessesProofs` | `CredentialInv` | `VerifiersAreRight`, `GrantsAreUsedOnce`, `TypeCorrect` | what a verifier remembers is what is not outstanding: a nonce or step is in `seen` once it was taken up, a code is in `codes` while it may be; a presented tag is genuine exactly when some holder made it over that text, and a text of parts that hold no separator has one meaning (`StepUpIsFit`) |
| `HarnessesProofs`: resilience | `BreakerInv`, `RetryInv`, `FetchInv`, `LogInv` | `BreakerIsolates`, `LoopsAreRight`, `LogTellsTampering`, `TypeCorrect` | the failure count is the number of calls, and fixes the mode; a loop's counter is the number of outcomes met, all of them worth another attempt; an entry's mac is the one it was appended with |
| `HarnessesProofs`: stores | `StoreInv` | `TestsStartFresh`, `OraclesServe`, `ReadersReadPrefixes`, `StoreTypeCorrect` | a test that has its schema still to make finds the database empty where the fixture says so (`CleanSlate`); once it runs, what an oracle's service holds is what this test wrote, in order or under its keys, but for what kafka delivered otherwise than once and the keys behind the chaos proxy this test has not set (`OwnWrites`, `Faithful`); an oracle's reader is at the offset after what it has read (`ReaderFollows`) |
| `HarnessesProofs`: policies | `PolicyInv` | `PoliciesAreRight`, `RoundTrips` | the names taken are the canonical forms of the accounts; what is cached of a prompt ends at its last breakpoint, which exists (`BoundedMaximum`), and comes out the same when nothing in it changes; decoding undoes encoding by induction over the prefixes of a text |
| `HarnessesProofs`: the lane | `LaneInv` | `EveryHarnessBites`, `LaneIsHonest` | one lemma for each of the 54 self-tests, `Teeth_<harness>` (`mutation_quality`'s says that it is green whatever lies): its own decisions give the right answers to its own probes, so that it is red exactly when the symbol it names is turned round, whichever others are; the harnesses behind the lane then name no broken oracle |

Few of the properties are inductive by themselves: most speak of a finished process, and
the invariants add what is known half-way. TLC checked every invariant before it was
proved.

`GateNearsItsEnd` is the safety half of `GateEnds`: a run of the gate is finite, and
fairness is needed only for its steps to be taken. `VerifiersAreRight` holds for any set of
identifiers, owners and times, any period, and any assignment of codes to steps, two steps
with one code included. Where a text does not show where its parts end it says less: a
step-up may be taken for another split of what was approved
(`tests/ai/test_agent_human_confirmation_test_harness.py:104-116`), a good reset token is
refused, and nothing else goes wrong. For a verifier without memory, being fit is having
been made for this use; that nobody else can make such a tag is the symbolic cryptography's
assumption and not a result. `PoliciesAreRight` says where an oracle may err, and that it
errs nowhere else. `OneWorker` and `ProbesTellApart` hold for any mix of acking and buggy
consumers; `AckingDeliversAtLeastOnce` is about queues with acking consumers only, since the
buggy one is meant to break the promise. `EveryHarnessBites` is said of any set of lying
symbols, `LaneIsHonest` of the lane as it is modelled, with one at most.

The lane and the policies are pure functions of their inputs, so their proofs are mostly
about operators. The library's induction theorems take an operator as a parameter, which
the provers cannot instantiate; `SetInduction` says the same of a set of numbers and is
proved from the existence of a least element of any set of numbers, and `Encoding` and
`Decoding` are recursive functions whose existence is proved in the same way.

Only model-checked: `GateEnds`, `Returns` and `ProbeEnds`, because liveness is out of the
prover's reach, and the four violations, which are counterexamples.

## 6. What is not modelled

- The 13 injection and parsing harnesses (`sql_injection`, `xxe_defense`,
  `yaml_deserialization`, `jinja_*`, `html_sanitization` and their like): each hands one
  fixed text to a library's parser, escaper or sandbox and to a naive twin. What is decided
  is decided character by character inside the library; a model of the harness would only
  restate its verdict.
- The control audit: one pass over static files with decisions that share no state.
- The gate canary: it runs the scanner's and the vacuity gate's own code once each and adds
  up the results; both are modelled where they are.
- The commit lint, dependency review and mutation workflows: an external tool each.
- The self-tests of the integration harnesses, which print and return 0; starting
  containers; the one set of services per parallel worker, so that StoreHarnesses is one
  worker.
- Within the modelled parts: cryptography, which is symbolic; the regular expressions of
  the scans; `--fix`; the text of reports; lines broken twice by `splitlines`; forks,
  approvals, merge queues and deleted files in MergeGate; a branch that is rewritten; a
  broker that restarts.

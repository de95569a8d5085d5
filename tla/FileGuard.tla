---------------------------- MODULE FileGuard ----------------------------
(***************************************************************************)
(* tools/file_guard.py: the content-addressed freeze over the repository's *)
(* gate machinery.  One `--check` process and one `--update` process run   *)
(* against a working tree that a developer (an editor, git, a chmod) keeps *)
(* changing.  A file's sha256 digest is abstracted to its content.         *)
(*                                                                         *)
(* Covered: every step that reads or writes the tree or the manifest, in   *)
(* the order of the code (is_file and read_bytes are two reads of one      *)
(* file), every early return, the OSError branches, the PermissionError    *)
(* that Path.is_file() re-raises, and a snapshot that dies between the     *)
(* truncation and the write of the manifest.                               *)
(* Not covered: printing, command-line parsing, PROTECTED_GLOBS (empty).   *)
(***************************************************************************)
EXTENDS Naturals

CONSTANTS
  Files,        \* repository paths the guard may be asked about
  Guard,        \* tools/file_guard.py, itself one of them
  Contents,     \* what a readable file may hold
  ProtectedIn,  \* the PROTECTED_FILES a given content of Guard declares
  Rank,         \* the order sorted() puts paths in
  Budget        \* bound on the developer's edits

CONSTANTS
  Absent,       \* no regular file: missing, or a directory
  Unreadable,   \* a regular file whose bytes cannot be read
  Unstatable,   \* under a directory that may not be searched
  Missing, Corrupt, Hidden   \* the same three for the manifest

Entries   == Contents \cup {Absent, Unreadable, Unstatable}
Baselines == UNION {[S -> Contents] : S \in SUBSET Files}
Manifests == Baselines \cup {Missing, Corrupt, Hidden}
None      == Corrupt   \* what _load_baseline's None stands for

ASSUME FilesAssumption ==
  /\ Guard \in Files
  /\ ProtectedIn \in [Contents -> SUBSET Files]
  /\ Rank \in [Files -> Nat]
  /\ \A f, g \in Files : Rank[f] = Rank[g] => f = g
  /\ Budget \in Nat

ASSUME SentinelAssumption ==
  /\ {Absent, Unreadable, Unstatable} \cap Contents = {}
  /\ Absent # Unreadable /\ Absent # Unstatable /\ Unreadable # Unstatable
  /\ {Missing, Corrupt, Hidden} \cap Baselines = {}
  /\ Missing # Corrupt /\ Missing # Hidden /\ Corrupt # Hidden

VARIABLES
  tree,       \* the working tree
  manifest,   \* .fileguard.json
  edits,      \* edits made so far
  cpc, cexp, cbase, ctodo, cdrift, cexit,   \* the check process
  cseen,      \* history: the entries each file has had during the check
  upc, uexp, utodo, ufiles, uproblems, uexit,   \* the update process
  useen       \* history: the same for the update

shared     == <<tree, manifest, edits>>
checkVars  == <<cpc, cexp, cbase, ctodo, cdrift, cexit, cseen>>
updateVars == <<upc, uexp, utodo, ufiles, uproblems, uexit, useen>>
vars       == <<shared, checkVars, updateVars>>

Kinds == {"REMOVED", "UNREADABLE", "UNBASELINED", "MODIFIED"}
\* How a process ended.
Clean      == "exit 0"
Drift      == "exit 1"
NoBaseline == "exit 2"
Crash      == "traceback"   \* an uncaught exception, no named message
Killed     == "killed"
Running    == "running"

\* sorted(todo): f comes next.
ForemostOfAll(f, todo) == f \in todo /\ \A g \in Files : Rank[f] <= Rank[g]
Foremost(f, todo) == f \in todo /\ \A g \in todo : Rank[f] <= Rank[g]

\* A version of file_guard.py can only run if it can be read.
Runnable == tree[Guard] \in Contents

------------------------------------------------------------------------------
(* _sha256: the digest of a file's bytes, None on OSError. *)
NoDigest == Unreadable
Sha256ReturnsWhatever(f) == tree[f]
Sha256(f) == IF tree[f] \in Contents THEN tree[f] ELSE NoDigest

(* _load_baseline: the files map, or None for every missing or malformed
   manifest. *)
LoadBaseline == IF manifest \in Baselines THEN manifest ELSE None

------------------------------------------------------------------------------
(* check() *)

\* The files a check visits: what the baseline lists and what this version of
\* the guard protects.
ScopeIgnoresBaseline(base, exp) == exp
ScopeAllFiles(base, exp) == Files
Scope(base, exp) == DOMAIN base \cup exp

StartCheck ==
  /\ cpc \in {"idle", "done"}
  /\ Runnable
  /\ cpc' = "load"
  /\ cexp' = ProtectedIn[tree[Guard]]
  /\ cseen' = [f \in Files |-> {tree[f]}]
  /\ cdrift' = {} /\ ctodo' = {} /\ cbase' = None /\ cexit' = Running
  /\ UNCHANGED <<shared, updateVars>>

CheckExit(code) == cpc' = "done" /\ cexit' = code

CheckLoad ==
  /\ cpc = "load"
  /\ cbase' = LoadBaseline
  /\ \/ /\ manifest = Hidden
        /\ CheckExit(Crash)
        /\ UNCHANGED ctodo
     \/ /\ manifest # Hidden /\ LoadBaseline = None
        /\ CheckExit(NoBaseline)
        /\ UNCHANGED ctodo
     \/ /\ LoadBaseline # None
        /\ cpc' = "stat"
        /\ ctodo' = Scope(LoadBaseline, cexp)
        /\ UNCHANGED cexit
  /\ UNCHANGED <<shared, updateVars, cexp, cdrift, cseen>>

CheckStat(f) ==
  /\ cpc = "stat"
  /\ Foremost(f, ctodo)
  /\ \/ /\ tree[f] = Unstatable
        /\ CheckExit(Crash)
        /\ UNCHANGED <<ctodo, cdrift>>
     \/ /\ tree[f] = Absent
        /\ cdrift' = cdrift \cup {[kind |-> "REMOVED", file |-> f]}
        /\ ctodo' = ctodo \ {f}
        /\ UNCHANGED <<cpc, cexit>>
     \/ /\ tree[f] \notin {Absent, Unstatable}
        /\ cpc' = "hash"
        /\ UNCHANGED <<ctodo, cdrift, cexit>>
  /\ UNCHANGED <<shared, updateVars, cexp, cbase, cseen>>

\* The line a digest adds to the drift report, if any.
ComplaintSkipsUnbaselined(f, now, base) ==
  IF now = NoDigest THEN {[kind |-> "UNREADABLE", file |-> f]}
  ELSE IF f \in DOMAIN base /\ now # base[f] THEN {[kind |-> "MODIFIED", file |-> f]}
  ELSE {}
ComplaintReadsMissingAsModified(f, now, base) ==
  IF now = NoDigest THEN {[kind |-> "UNREADABLE", file |-> f]}
  ELSE IF f \notin DOMAIN base THEN {[kind |-> "MODIFIED", file |-> f]}
  ELSE IF now # base[f] THEN {[kind |-> "MODIFIED", file |-> f]}
  ELSE {}
Complaint(f, now, base) ==
  IF now = NoDigest THEN {[kind |-> "UNREADABLE", file |-> f]}
  ELSE IF f \notin DOMAIN base THEN {[kind |-> "UNBASELINED", file |-> f]}
  ELSE IF now # base[f] THEN {[kind |-> "MODIFIED", file |-> f]}
  ELSE {}

CheckHash(f) ==
  /\ cpc = "hash"
  /\ Foremost(f, ctodo)
  /\ cdrift' = cdrift \cup Complaint(f, Sha256(f), cbase)
  /\ ctodo' = ctodo \ {f}
  /\ cpc' = "stat"
  /\ UNCHANGED <<shared, updateVars, cexp, cbase, cexit, cseen>>

CheckReport ==
  /\ cpc = "stat"
  /\ ctodo = {}
  /\ CheckExit(IF cdrift = {} THEN Clean ELSE Drift)
  /\ UNCHANGED <<shared, updateVars, cexp, cbase, ctodo, cdrift, cseen>>

CheckStep == CheckLoad \/ CheckReport \/ \E f \in Files : CheckStat(f) \/ CheckHash(f)

------------------------------------------------------------------------------
(* update() *)

NoFiles == [f \in {} |-> f]

StartUpdate ==
  /\ upc \in {"idle", "done"}
  /\ Runnable
  /\ upc' = "hash"
  /\ uexp' = ProtectedIn[tree[Guard]]
  /\ utodo' = ProtectedIn[tree[Guard]]
  /\ ufiles' = NoFiles /\ uproblems' = {} /\ uexit' = Running
  /\ useen' = [f \in Files |-> {tree[f]}]
  /\ UNCHANGED <<shared, checkVars>>

UpdateExit(code) == upc' = "done" /\ uexit' = code

UpdateHash(f) ==
  /\ upc = "hash"
  /\ Foremost(f, utodo)
  /\ utodo' = utodo \ {f}
  /\ IF Sha256(f) = NoDigest
       THEN uproblems' = uproblems \cup {f} /\ UNCHANGED ufiles
       ELSE /\ ufiles' = [g \in DOMAIN ufiles \cup {f} |->
                             IF g = f THEN Sha256(f) ELSE ufiles[g]]
            /\ UNCHANGED uproblems
  /\ UNCHANGED <<shared, checkVars, upc, uexp, uexit, useen>>

NeverRefused == FALSE
Refused == uproblems # {}

UpdateRefuse ==
  /\ upc = "hash" /\ utodo = {}
  /\ Refused
  /\ UpdateExit(Drift)
  /\ UNCHANGED <<shared, checkVars, uexp, utodo, ufiles, uproblems, useen>>

\* manifest.write_text opens the file for writing, which truncates it, or
\* fails to open it and leaves it alone.
UpdateOpen ==
  /\ upc = "hash" /\ utodo = {}
  /\ ~Refused
  /\ \/ /\ manifest # Hidden
        /\ manifest' = Corrupt /\ upc' = "write" /\ UNCHANGED uexit
     \/ UpdateExit(Drift) /\ UNCHANGED manifest
  /\ UNCHANGED <<tree, edits, checkVars, uexp, utodo, ufiles, uproblems, useen>>

\* The write succeeds, or fails part way: a proper prefix of the JSON text is
\* not JSON.
UpdateWrite ==
  /\ upc = "write"
  /\ \/ manifest' = ufiles /\ UpdateExit(Clean)
     \/ manifest' = Corrupt /\ UpdateExit(Drift)
  /\ UNCHANGED <<tree, edits, checkVars, uexp, utodo, ufiles, uproblems, useen>>

\* The process is killed: nothing it does is undone.
UpdateKilled ==
  /\ upc \in {"hash", "write"}
  /\ UpdateExit(Killed)
  /\ UNCHANGED <<shared, checkVars, uexp, utodo, ufiles, uproblems, useen>>

UpdateStep == UpdateRefuse \/ UpdateOpen \/ UpdateWrite \/ \E f \in Files : UpdateHash(f)

------------------------------------------------------------------------------
(* The developer *)

\* The history of a process grows while it runs.
Noticed(seen, runs, f, e) == IF runs THEN [seen EXCEPT ![f] = @ \cup {e}] ELSE seen

Edit(f, e) ==
  /\ edits < Budget /\ edits' = edits + 1
  /\ tree[f] # e
  /\ tree' = [tree EXCEPT ![f] = e]
  /\ cseen' = Noticed(cseen, cpc \in {"load", "stat", "hash"}, f, e)
  /\ useen' = Noticed(useen, upc \in {"hash", "write"}, f, e)
  /\ UNCHANGED <<manifest, cpc, cexp, cbase, ctodo, cdrift, cexit,
                 upc, uexp, utodo, ufiles, uproblems, uexit>>

EditManifest(m) ==
  /\ edits < Budget /\ edits' = edits + 1
  /\ manifest # m
  /\ manifest' = m
  /\ UNCHANGED <<tree, checkVars, updateVars>>

------------------------------------------------------------------------------
\* A checkout, with whatever baseline was committed with it.
Init ==
  /\ tree \in [Files -> Contents]
  /\ manifest \in Manifests
  /\ edits = 0
  /\ cpc = "idle" /\ cexp = {} /\ cbase = None /\ ctodo = {} /\ cdrift = {}
  /\ cexit = Running /\ cseen = [f \in Files |-> {}]
  /\ upc = "idle" /\ uexp = {} /\ utodo = {} /\ ufiles = NoFiles /\ uproblems = {}
  /\ uexit = Running /\ useen = [f \in Files |-> {}]

Next ==
  \/ StartCheck \/ CheckStep
  \/ StartUpdate \/ UpdateStep \/ UpdateKilled
  \/ \E f \in Files, e \in Entries : Edit(f, e)
  \/ \E m \in Manifests : EditManifest(m)

Spec == Init /\ [][Next]_vars
------------------------------------------------------------------------------
(* Properties *)

TypeOK ==
  /\ tree \in [Files -> Entries] /\ manifest \in Manifests /\ edits \in 0..Budget
  /\ cpc \in {"idle", "load", "stat", "hash", "done"}
  /\ cexp \in SUBSET Files /\ ctodo \in SUBSET Files
  /\ cbase \in Baselines \cup {None}
  /\ cdrift \in SUBSET [kind : Kinds, file : Files]
  /\ cexit \in {Running, Clean, Drift, NoBaseline, Crash}
  /\ cseen \in [Files -> SUBSET Entries]
  /\ upc \in {"idle", "hash", "write", "done"}
  /\ uexp \in SUBSET Files /\ utodo \in SUBSET uexp /\ uproblems \in SUBSET uexp
  /\ ufiles \in Baselines /\ uexit \in {Running, Clean, Drift, Killed}
  /\ useen \in [Files -> SUBSET Entries]

\* "hash every protected file, compare to the committed baseline, and exit 1 on
\* ANY content change / removal / unbaselined add" (file_guard.py:9-10), for a
\* tree that changes under the check: exit 0 only if every file the baseline or
\* this version of the guard lists had, at some moment of the check, exactly the
\* content the baseline gives it.
NoFalseClean ==
  cpc = "done" /\ cexit = Clean =>
    \A f \in DOMAIN cbase \cup cexp : f \in DOMAIN cbase /\ cbase[f] \in cseen[f]

\* What the report says of one file was true of it at some moment of the check.
Explained(d) ==
  /\ d.kind = "REMOVED" => Absent \in cseen[d.file]
  /\ d.kind = "UNREADABLE" => cseen[d.file] \cap {Absent, Unreadable, Unstatable} # {}
  /\ d.kind = "UNBASELINED" => d.file \notin DOMAIN cbase /\ cseen[d.file] \cap Contents # {}
  /\ d.kind = "MODIFIED" => /\ d.file \in DOMAIN cbase
                            /\ (cseen[d.file] \cap Contents) \ {cbase[d.file]} # {}

\* The converse: no drift line, hence no exit 1, without a cause (file_guard.py:
\* 130-142).
NoFalseDrift ==
  /\ \A d \in cdrift : Explained(d)
  /\ cpc = "done" /\ cexit = Drift => cdrift # {}

\* A snapshot that reports success covers the whole protected set and took each
\* digest from a moment of its own run: a missing or unreadable file refuses it
\* (file_guard.py:97) however the tree moves meanwhile.
SnapshotFaithful ==
  upc = "done" /\ uexit = Clean =>
    /\ DOMAIN ufiles = uexp
    /\ \A f \in uexp : ufiles[f] \in useen[f]

\* `make guard-update` then `make guard` is green: a check that loads what a
\* successful snapshot wrote, with no edit since either began, exits 0
\* (tests/lib/test_file_guard.py:34-35).
RoundTrip ==
  /\ upc = "done" /\ uexit = Clean
  /\ cpc = "done" /\ cbase = ufiles
  /\ cexp = uexp
  /\ \A f \in Files : cseen[f] = {tree[f]} /\ useen[f] = {tree[f]}
  => cexit = Clean

\* "Every failure path is a NAMED message, never a bare crash"
\* (file_guard.py:25-26).
NeverBareCrash == cexit # Crash
------------------------------------------------------------------------------
(* The inductive invariant behind the safety properties *)

Checking == cpc \in {"load", "stat", "hash"}
Updating == upc \in {"hash", "write"}

\* The files a check has visited are accounted for: they had their baseline
\* content, or there is a line about them.
Accounted(f) ==
  \/ f \in DOMAIN cbase /\ cbase[f] \in cseen[f]
  \/ \E d \in cdrift : d.file = f

CheckKnows ==
  /\ Checking => cexit = Running /\ \A f \in Files : tree[f] \in cseen[f]
  /\ cpc \in {"idle", "load"} => cdrift = {}
  /\ cdrift # {} => cbase # None
  /\ cpc \in {"stat", "hash"} \/ cexit \in {Clean, Drift} =>
       /\ cbase # None
       /\ ctodo \subseteq DOMAIN cbase \cup cexp
       /\ \A f \in (DOMAIN cbase \cup cexp) \ ctodo : Accounted(f)
  /\ cexit = Clean => ctodo = {} /\ cdrift = {}
  /\ cexit = Drift => cdrift # {}
  /\ cpc = "idle" => cexit = Running
  /\ cpc = "done" => cexit # Running
  /\ cexit = NoBaseline => cbase = None
  /\ cexit = Crash =>
       cbase = None \/ \E f \in DOMAIN cbase \cup cexp : Unstatable \in cseen[f]

DriftExplained == \A d \in cdrift : d.file \in DOMAIN cbase \cup cexp /\ Explained(d)

UpdateKnows ==
  /\ Updating => uexit = Running /\ \A f \in Files : tree[f] \in useen[f]
  /\ upc # "idle" => DOMAIN ufiles \cup uproblems = uexp \ utodo
  /\ \A f \in DOMAIN ufiles : ufiles[f] \in useen[f]
  /\ upc = "write" \/ uexit = Clean => utodo = {} /\ uproblems = {}
  /\ upc = "idle" => uexit = Running

GuardInv == TypeOK /\ CheckKnows /\ DriftExplained /\ UpdateKnows
==============================================================================

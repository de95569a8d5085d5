---------------------------- MODULE DiffReaders ----------------------------
(***************************************************************************)
(* The two readers of `git diff --unified=0`: _added_lines of              *)
(* tools/scan_staged.py (here "staged") and parse_added of                 *)
(* tools/audit_drift.py ("audit").  Both recover from the text of a diff   *)
(* which lines a change adds, and where; the text frames nothing, so a     *)
(* content line can look like a header.                                    *)
(*                                                                         *)
(* Git writes any diff its grammar allows, one line per step, and both     *)
(* readers take the line in the same step: they loop over the finished     *)
(* text and share nothing, so only the order of the lines matters.         *)
(*                                                                         *)
(* Not covered: the patterns the lines are then searched for, non-default  *)
(* git configuration (diff.noprefix, diff.mnemonicPrefix), carriage        *)
(* returns inside a line, lines broken twice, broken section headings.     *)
(***************************************************************************)
EXTENDS Integers, Sequences

CONSTANTS
  Paths,      \* files a change touches
  Quoted,     \* those git writes in quotes: "b/\303\251.py"
  Elsewhere,  \* the path a content line that looks like a file's name spells
  SpeltNo,    \* the number one that looks like a hunk's header spells
  Texts,      \* the texts of content lines
  NoPath,     \* Python's None
  MaxLines,   \* bound on the lines of a diff
  MaxNo       \* bound on line numbers

ASSUME DiffAssumption ==
  /\ Quoted \subseteq Paths
  /\ Elsewhere \notin Paths \cup {NoPath} /\ NoPath \notin Paths
  /\ MaxLines \in Nat /\ MaxNo \in Nat /\ SpeltNo \in Nat

ASSUME TextsAssumption ==
  Texts \subseteq [head : {"plain", "++", "++ ", "++ b/"},
                   tail : {"none", "plain", "+", "-", "@@", "+++ ", "+++ b/"}]

(* How the text of a content line begins, as far as a reader can tell; and how
   the piece begins that follows a form feed or another character in it that
   str.splitlines takes for the end of a line ("none" if there is no such). *)
Ordinary(text) == text.head = "plain"

VARIABLES
  phase,   \* what git wrote last: "start" | "git" | "old" | "new" | "hunk" | "removed" | "added"
  file,    \* the new side's path; NoPath for a deleted file
  adds,    \* the open hunk adds lines
  next,    \* the number the next added line has in the new file
  noeol,   \* sides ("old", "new") whose last line, without newline, is written
  todo,    \* files still to come
  lines,   \* lines written
  added,   \* what the diff adds so far: the truth
  odd,     \* history: what may mislead a reader, see below
  sPath, sNo, sOut,   \* staged: path, newno, what it yielded
  aPath, aNo, aOut    \* audit: file, new_line, added

git    == <<phase, file, adds, next, noeol, todo, lines, added, odd>>
staged == <<sPath, sNo, sOut>>
audit  == <<aPath, aNo, aOut>>
vars   == <<git, staged, audit>>

\* A line of the diff: how it begins, the path or number it spells, and the
\* piece splitlines breaks off.
Line(begins, path, no, tail) == [begins |-> begins, path |-> path, no |-> no, tail |-> tail]

Header(begins) == Line(begins, NoPath, 0, "none")
Plus(head) == IF head = "plain" THEN "+" ELSE IF head = "++" THEN "+++"
              ELSE IF head = "++ " THEN "+++ " ELSE "+++ b/"
AddedLine(text) == Line(Plus(text.head), Elsewhere, 0, text.tail)

\* An entry of a reader's result: "of" (history) is the added line it is from, 0
\* if it is from none, and "piece" which piece of it.
Entry(path, no, of, piece) == [path |-> path, line |-> no, of |-> of, piece |-> piece]

------------------------------------------------------------------------------
(* _added_lines *)

\* The loop's body, on one piece that begins b: path, newno, what was yielded.
StepOnPlusOnly(b) == IF b = "+" THEN 1 ELSE 0
Step(b) == IF b \in {"+++ b/", "+++ ", "-"} THEN 0 ELSE 1

YieldsUnderAName(s, b) == b = "+" /\ s.path # NoPath
Yields(s, b) == b = "+"

Piece(s, b, path, no, of, piece) ==
  [path |-> IF b = "+++ b/" THEN path ELSE IF b = "+++ " THEN NoPath ELSE s.path,
   no   |-> IF b = "@@" THEN no ELSE s.no + Step(b),
   out  |-> IF Yields(s, b) THEN Append(s.out, Entry(s.path, s.no, of, piece)) ELSE s.out]

\* Every piece of a line goes through it, as a line of its own.
First(l) == Piece([path |-> sPath, no |-> sNo, out |-> sOut], l.begins, l.path, l.no, Len(added) + 1, 1)
OfTail(l) == IF l.begins = "-" THEN 0 ELSE Len(added) + 1

StagedReads(l) ==
  LET s == IF l.tail = "none" THEN First(l)
           ELSE Piece(First(l), l.tail, Elsewhere, SpeltNo, OfTail(l), 2)
  IN  sPath' = s.path /\ sNo' = s.no /\ sOut' = s.out

(* parse_added: split("\n") breaks no line in two, and a file that has no name
   adds nothing. *)

ForgetsNothing(l) == FALSE
ForgetsAtHunk(l) == l.begins \in {"diff --git", "+++ ", "@@"}
Forgets(l) == l.begins \in {"diff --git", "+++ "}

AuditReads(l) ==
  /\ aPath' = IF l.begins = "+++ b/" THEN l.path
              ELSE IF Forgets(l) THEN NoPath ELSE aPath
  /\ aNo' = IF l.begins = "@@" THEN l.no
            ELSE IF l.begins = "+" THEN aNo + 1 ELSE aNo
  /\ aOut' = IF l.begins = "+" /\ aPath # NoPath
               THEN Append(aOut, Entry(aPath, aNo, Len(added) + 1, 1)) ELSE aOut

Write(l) ==
  /\ lines < MaxLines
  /\ lines' = lines + 1
  /\ StagedReads(l) /\ AuditReads(l)

------------------------------------------------------------------------------
(* git diff --unified=0.  "odd" remembers that this file added a text that
   looks like the name of a file ("misnamed") or held a line with a piece that
   does ("renamed"), that this hunk added one that begins "++" ("shifted"), and
   that it held a piece that is counted, a marker of a missing newline or a text
   that looks like a name ("uneven"). *)

\* A hunk is complete once it wrote what its header announced.
Between == \/ phase \in {"start", "git", "added"}
           \/ phase = "removed" /\ ~adds

WriteGit ==
  /\ Between
  /\ todo # {}
  /\ Write(Header("diff --git"))
  /\ phase' = "git"
  /\ UNCHANGED <<file, adds, next, noeol, todo, added, odd>>

\* "index ...", "new file mode ...", "rename from ...": no reader knows them.
WriteExtended ==
  /\ phase = "git"
  /\ Write(Header("index"))
  /\ UNCHANGED <<phase, file, adds, next, noeol, todo, added, odd>>

WriteOld ==
  /\ phase = "git"
  /\ Write(Header("-"))
  /\ phase' = "old"
  /\ UNCHANGED <<file, adds, next, noeol, todo, added, odd>>

WriteNew ==
  /\ phase = "old"
  /\ \E p \in todo, deleted \in BOOLEAN :
       /\ todo' = todo \ {p}
       /\ file' = IF deleted THEN NoPath ELSE p
       /\ Write(Line(IF deleted \/ p \in Quoted THEN "+++ " ELSE "+++ b/", p, 0, "none"))
  /\ phase' = "new" /\ next' = 0 /\ noeol' = {} /\ odd' = {}
  /\ UNCHANGED <<adds, added>>

\* "@@ -a,b +c,d @@": c is the first added line or, when d is 0, the line
\* before the removed ones.  Hunks ascend, with an unchanged line between.
WriteHunk ==
  /\ phase \in {"new", "removed", "added"}
  /\ phase = "removed" => ~adds
  /\ phase # "new" => file # NoPath
  /\ noeol = {}
  /\ \E c \in 0..MaxNo, a \in BOOLEAN :
       /\ file = NoPath => c = 0 /\ ~a
       /\ c >= IF a THEN next + 1 ELSE next
       /\ next' = IF a THEN c ELSE c + 1
       /\ adds' = a
       /\ Write(Line("@@", NoPath, c, "none"))
  /\ phase' = "hunk" /\ odd' = odd \cap {"misnamed", "renamed"}
  /\ UNCHANGED <<file, noeol, todo, added>>

Oddities(text) ==
  LET named == text.head \in {"++ ", "++ b/"} IN
    (IF named \/ text.tail \in {"plain", "+", "@@"} THEN {"uneven"} ELSE {})
      \cup (IF Ordinary(text) THEN {} ELSE {"shifted"})
      \cup (IF named THEN {"misnamed"} ELSE {})
      \cup (IF text.tail \in {"+++ ", "+++ b/"} THEN {"renamed"} ELSE {})

WriteRemoved ==
  /\ phase \in {"hunk", "removed"}
  /\ "old" \notin noeol
  /\ \E text \in {t \in Texts : Ordinary(t)} :
       /\ Write(Line("-", NoPath, 0, text.tail))
       /\ odd' = odd \cup Oddities(text)
  /\ phase' = "removed"
  /\ UNCHANGED <<file, adds, next, noeol, todo, added>>

WriteAdded ==
  /\ phase \in {"hunk", "removed", "added"}
  /\ adds
  /\ "new" \notin noeol
  /\ \E text \in Texts :
       /\ Write(AddedLine(text))
       /\ added' = Append(added, [path |-> file, line |-> next, text |-> text, odd |-> odd])
       /\ odd' = odd \cup Oddities(text)
  /\ phase' = "added" /\ next' = next + 1
  /\ UNCHANGED <<file, adds, noeol, todo>>

\* "\ No newline at end of file", about the line above it.
Side == IF phase = "added" THEN "new" ELSE "old"

WriteNoEol ==
  /\ phase \in {"removed", "added"}
  /\ Side \notin noeol
  /\ Write(Header("marker"))
  /\ noeol' = noeol \cup {Side}
  /\ odd' = odd \cup {"uneven"}
  /\ UNCHANGED <<phase, file, adds, next, todo, added>>

Init ==
  /\ phase = "start" /\ file = NoPath /\ adds = FALSE /\ next = 0
  /\ noeol = {} /\ todo = Paths /\ lines = 0 /\ added = <<>> /\ odd = {}
  /\ sPath = NoPath /\ sNo = 0 /\ sOut = <<>>
  /\ aPath = NoPath /\ aNo = 0 /\ aOut = <<>>

Next == WriteGit \/ WriteExtended \/ WriteOld \/ WriteNew \/ WriteHunk
          \/ WriteRemoved \/ WriteAdded \/ WriteNoEol

Spec == Init /\ [][Next]_vars

------------------------------------------------------------------------------
(* Properties *)

Source(entry) == added[entry.of]
Whole(entry) == entry.piece = 1
InOrder(out) ==
  \A i, j \in DOMAIN out : i < j /\ Whole(out[i]) /\ Whole(out[j]) => out[i].of < out[j].of

\* Typing.
Entries == [path : Paths \cup {Elsewhere, NoPath}, line : Nat, of : Nat, piece : {1, 2}]
Truths == [path : Paths \cup {NoPath}, line : Nat, text : Texts,
           odd : SUBSET {"uneven", "shifted", "misnamed", "renamed"}]
TypeOK ==
  /\ phase \in {"start", "git", "old", "new", "hunk", "removed", "added"}
  /\ file \in Paths \cup {NoPath} /\ adds \in BOOLEAN /\ next \in Nat
  /\ noeol \subseteq {"old", "new"} /\ todo \subseteq Paths /\ lines \in 0..MaxLines
  /\ added \in Seq(Truths) /\ odd \subseteq {"uneven", "shifted", "misnamed", "renamed"}
  /\ sPath \in Paths \cup {Elsewhere, NoPath} /\ sNo \in Nat /\ aNo \in Nat
  /\ aPath \in Paths \cup {Elsewhere, NoPath}
  /\ sOut \in Seq(Entries) /\ aOut \in Seq(Entries)

\* The staged scan sees every added line whose text does not begin "++", once
\* and in the diff's order, whatever else the diff holds (scan_staged.py:101).  A
\* piece it yields besides is one that begins "+" behind a break in a line, and
\* that line may be a removed one.
StagedYieldsOnce ==
  /\ InOrder(sOut)
  /\ \A k \in DOMAIN added : Ordinary(added[k].text) =>
       \E i \in DOMAIN sOut : Whole(sOut[i]) /\ sOut[i].of = k
  /\ \A i \in DOMAIN sOut : Whole(sOut[i]) => sOut[i].of \in DOMAIN added

\* A line it yields is where it says.  A marker, a text that looks like a name or
\* a piece that counts can shift the numbers of its own hunk, a text or a piece
\* that looks like a name the paths of its own file: the next hunk, the next file
\* are right again.  A text that begins "++" and a piece that begins "-" shift
\* nothing (:95-:105).
StagedPlaces ==
  \A i \in DOMAIN sOut : Whole(sOut[i]) =>
    LET truth == Source(sOut[i]) IN
      /\ "uneven" \notin truth.odd => sOut[i].line = truth.line
      /\ {"misnamed", "renamed"} \cap truth.odd = {} /\ truth.path \notin Quoted =>
           sOut[i].path = truth.path

\* The drift audit misses an ordinary added line only in a file whose name git
\* quotes or that added a text looking like a name (audit_drift.py:109-:121).
AuditCollects ==
  /\ InOrder(aOut)
  /\ \A k \in DOMAIN added :
       Ordinary(added[k].text) /\ added[k].path \notin Quoted /\ "misnamed" \notin added[k].odd
         => \E i \in DOMAIN aOut : aOut[i].of = k

\* What it collects it never puts into a file the change did not add it to,
\* unless the file holds such a text; and the number is right in every hunk that
\* adds no text beginning "++", markers and broken lines or not.
AuditPlaces ==
  \A i \in DOMAIN aOut :
    LET truth == Source(aOut[i]) IN
      /\ "misnamed" \notin truth.odd => aOut[i].path = truth.path
      /\ "shifted" \notin truth.odd => aOut[i].line = truth.line

\* The inductive invariant of the four: every entry comes from an added line, the
\* numbers agree with git's in a hunk without oddities, the paths in such a file.
InFile == phase \in {"new", "hunk", "removed", "added"}
InAddingHunk == phase \in {"hunk", "removed", "added"} /\ adds
NumbersAgree ==
  InAddingHunk => /\ file \in Paths
                  /\ "uneven" \notin odd => sNo = next
                  /\ "shifted" \notin odd => aNo = next
PathsAgree ==
  InFile /\ "misnamed" \notin odd =>
    LET name == IF file \in Quoted THEN NoPath ELSE file
    IN  aPath = name /\ ("renamed" \notin odd => sPath = name)
EntriesComeFrom(out) == \A i \in DOMAIN out : Whole(out[i]) => out[i].of \in DOMAIN added
AuditWhole == \A i \in DOMAIN aOut : Whole(aOut[i])

ReaderInv ==
  /\ TypeOK /\ NumbersAgree /\ PathsAgree
  /\ EntriesComeFrom(sOut) /\ EntriesComeFrom(aOut) /\ AuditWhole
  /\ StagedYieldsOnce /\ StagedPlaces /\ AuditCollects /\ AuditPlaces

\* scan_staged.py:89 "Yield (path, new_lineno, text) for each ADDED line in the
\* diff": there is one for each.
OneForEach == \A k \in DOMAIN added : \E i \in DOMAIN sOut : sOut[i].of = k

=============================================================================

------------------------- MODULE DiffReadersProofs -------------------------
(***************************************************************************)
(* Theorems about DiffReaders, for any files, quoted or not, and diffs of  *)
(* any length.                                                             *)
(***************************************************************************)
EXTENDS DiffReaders, TLAPS

Outputs == StagedYieldsOnce /\ StagedPlaces /\ AuditCollects /\ AuditPlaces
             /\ EntriesComeFrom(sOut) /\ EntriesComeFrom(aOut) /\ AuditWhole

\* A line that does not begin "+" leaves what was read as it is.
LEMMA OutputsStay ==
  ASSUME Outputs, UNCHANGED <<sOut, aOut, added>>
  PROVE  Outputs'
  BY DEF Outputs, StagedYieldsOnce, StagedPlaces, AuditCollects, AuditPlaces,
         EntriesComeFrom, AuditWhole, InOrder, Source

\* How the first piece of a line moves the staged reader, and the second.
LEMMA FirstMoves ==
  ASSUME NEW l
  PROVE  /\ First(l).path = IF l.begins = "+++ b/" THEN l.path
                            ELSE IF l.begins = "+++ " THEN NoPath ELSE sPath
         /\ First(l).no = IF l.begins = "@@" THEN l.no ELSE sNo + Step(l.begins)
         /\ First(l).out = IF l.begins = "+"
                             THEN Append(sOut, Entry(sPath, sNo, Len(added) + 1, 1)) ELSE sOut
  BY DEF First, Piece, Yields

LEMMA StagedMoves ==
  ASSUME NEW l, Write(l)
  PROVE  /\ l.tail = "none" => sPath' = First(l).path /\ sNo' = First(l).no /\ sOut' = First(l).out
         /\ l.tail # "none" =>
              /\ sPath' = IF l.tail = "+++ b/" THEN Elsewhere
                          ELSE IF l.tail = "+++ " THEN NoPath ELSE First(l).path
              /\ sNo' = IF l.tail = "@@" THEN SpeltNo ELSE First(l).no + Step(l.tail)
              /\ sOut' = IF l.tail = "+"
                           THEN Append(First(l).out, Entry(First(l).path, First(l).no, OfTail(l), 2))
                           ELSE First(l).out
<1>1. /\ sPath' = (IF l.tail = "none" THEN First(l)
                   ELSE Piece(First(l), l.tail, Elsewhere, SpeltNo, OfTail(l), 2)).path
      /\ sNo' = (IF l.tail = "none" THEN First(l)
                   ELSE Piece(First(l), l.tail, Elsewhere, SpeltNo, OfTail(l), 2)).no
      /\ sOut' = (IF l.tail = "none" THEN First(l)
                   ELSE Piece(First(l), l.tail, Elsewhere, SpeltNo, OfTail(l), 2)).out
  BY Zenon DEF Write, StagedReads
<1>2. CASE l.tail = "none"
  BY <1>1, <1>2
<1>3. CASE l.tail # "none"
  BY <1>1, <1>3 DEF Piece, Yields
<1> QED
  BY <1>2, <1>3

LEMMA AuditMoves ==
  ASSUME NEW l, Write(l)
  PROVE  /\ aPath' = IF l.begins = "+++ b/" THEN l.path
                     ELSE IF l.begins \in {"diff --git", "+++ "} THEN NoPath ELSE aPath
         /\ aNo' = IF l.begins = "@@" THEN l.no
                   ELSE IF l.begins = "+" THEN aNo + 1 ELSE aNo
         /\ lines' = lines + 1 /\ lines < MaxLines
         /\ aOut' = IF l.begins = "+" /\ aPath # NoPath
                      THEN Append(aOut, Entry(aPath, aNo, Len(added) + 1, 1)) ELSE aOut
  BY DEF Write, AuditReads, Forgets

\* Reading keeps the readers' positions typed.
LEMMA ReadTyped ==
  ASSUME TypeOK, NEW l, Write(l),
         l.path \in Paths \cup {Elsewhere, NoPath}, l.no \in Nat
  PROVE  /\ sPath' \in Paths \cup {Elsewhere, NoPath} /\ sNo' \in Nat
         /\ aPath' \in Paths \cup {Elsewhere, NoPath} /\ aNo' \in Nat
         /\ lines' \in 0..MaxLines
         /\ sOut' \in Seq(Entries) /\ aOut' \in Seq(Entries)
         /\ First(l).out \in Seq(Entries)
         /\ Entry(First(l).path, First(l).no, OfTail(l), 2) \in Entries
<1>0. /\ sNo \in Nat /\ aNo \in Nat /\ lines \in Nat /\ MaxLines \in Nat /\ SpeltNo \in Nat
      /\ sOut \in Seq(Entries) /\ aOut \in Seq(Entries) /\ Len(added) \in Nat
      /\ sPath \in Paths \cup {Elsewhere, NoPath} /\ aPath \in Paths \cup {Elsewhere, NoPath}
  BY DiffAssumption DEF TypeOK
<1>1. Step(l.begins) \in Nat /\ Step(l.tail) \in Nat
  BY DEF Step
<1>2. First(l).path \in Paths \cup {Elsewhere, NoPath} /\ First(l).no \in Nat
  <2>1. sNo + Step(l.begins) \in Nat
    BY <1>0, <1>1
  <2> QED
    BY <1>0, <2>1, FirstMoves
<1>3. /\ Entry(sPath, sNo, Len(added) + 1, 1) \in Entries
      /\ Entry(aPath, aNo, Len(added) + 1, 1) \in Entries
  BY <1>0 DEF Entry, Entries
<1>4. Entry(First(l).path, First(l).no, OfTail(l), 2) \in Entries
  <2>1. OfTail(l) \in Nat
    BY <1>0 DEF OfTail
  <2> QED
    BY <1>2, <2>1 DEF Entry, Entries
<1>5. First(l).out \in Seq(Entries)
  <2>1. Append(sOut, Entry(sPath, sNo, Len(added) + 1, 1)) \in Seq(Entries)
    BY <1>0, <1>3
  <2> QED
    BY <1>0, <2>1, FirstMoves
<1>6. sOut' \in Seq(Entries)
  <2>1. Append(First(l).out, Entry(First(l).path, First(l).no, OfTail(l), 2)) \in Seq(Entries)
    BY <1>4, <1>5
  <2> QED
    BY <1>5, <2>1, StagedMoves
<1>7. sPath' \in Paths \cup {Elsewhere, NoPath} /\ sNo' \in Nat
  <2>1. First(l).no + Step(l.tail) \in Nat
    BY <1>1, <1>2
  <2> QED
    BY <1>0, <1>2, <2>1, StagedMoves
<1>8. aOut' \in Seq(Entries)
  <2>1. Append(aOut, Entry(aPath, aNo, Len(added) + 1, 1)) \in Seq(Entries)
    BY <1>0, <1>3
  <2> QED
    BY <1>0, <2>1, AuditMoves
<1>9. aPath' \in Paths \cup {Elsewhere, NoPath} /\ aNo' \in Nat /\ lines' \in 0..MaxLines
  <2>1. lines + 1 \in 0..MaxLines \/ ~(lines < MaxLines)
    BY <1>0
  <2>2. aNo + 1 \in Nat
    BY <1>0
  <2>3. aPath' \in Paths \cup {Elsewhere, NoPath}
    BY <1>0, AuditMoves
  <2> QED
    BY <1>0, <2>1, <2>2, <2>3, AuditMoves, Zenon
<1> QED
  BY <1>4, <1>5, <1>6, <1>7, <1>8, <1>9

\* A line in one piece that adds nothing keeps the readers typed and what they read
\* as it is.
LEMMA LineRead ==
  ASSUME TypeOK, NEW b, b # "+", NEW p \in Paths \cup {Elsewhere, NoPath}, NEW n \in Nat,
         Write(Line(b, p, n, "none"))
  PROVE  /\ sPath' \in Paths \cup {Elsewhere, NoPath} /\ sNo' \in Nat
         /\ aPath' \in Paths \cup {Elsewhere, NoPath} /\ aNo' \in Nat
         /\ lines' \in 0..MaxLines
         /\ UNCHANGED <<sOut, aOut>>
         /\ sPath' = IF b = "+++ b/" THEN p ELSE IF b = "+++ " THEN NoPath ELSE sPath
         /\ aPath' = IF b = "+++ b/" THEN p
                     ELSE IF b \in {"diff --git", "+++ "} THEN NoPath ELSE aPath
         /\ b = "@@" => sNo' = n
         /\ aNo' = IF b = "@@" THEN n ELSE aNo
<1> DEFINE l == Line(b, p, n, "none")
<1>1. l.begins = b /\ l.path = p /\ l.no = n /\ l.tail = "none"
  BY DEF Line
<1>2. Write(l)
  OBVIOUS
<1> HIDE DEF l
<1>3. /\ sPath' \in Paths \cup {Elsewhere, NoPath} /\ sNo' \in Nat
      /\ aPath' \in Paths \cup {Elsewhere, NoPath} /\ aNo' \in Nat
      /\ lines' \in 0..MaxLines
  BY <1>1, <1>2, ReadTyped
<1>4. /\ sPath' = IF b = "+++ b/" THEN p ELSE IF b = "+++ " THEN NoPath ELSE sPath
      /\ b = "@@" => sNo' = n
      /\ sOut' = sOut
  BY <1>1, <1>2, StagedMoves, FirstMoves
<1>5. /\ aPath' = IF b = "+++ b/" THEN p
                  ELSE IF b \in {"diff --git", "+++ "} THEN NoPath ELSE aPath
      /\ aNo' = IF b = "@@" THEN n ELSE aNo
      /\ aOut' = aOut
  BY <1>1, <1>2, AuditMoves
<1> QED
  BY <1>3, <1>4, <1>5

\* A piece that is yielded besides changes nothing of what is claimed of whole lines.
YieldsOnce(out, adds2) ==
  /\ InOrder(out)
  /\ \A k \in DOMAIN adds2 : Ordinary(adds2[k].text) =>
       \E i \in DOMAIN out : Whole(out[i]) /\ out[i].of = k
  /\ \A i \in DOMAIN out : Whole(out[i]) => out[i].of \in DOMAIN adds2
Places(out, adds2) ==
  \A i \in DOMAIN out : Whole(out[i]) =>
    LET truth == adds2[out[i].of] IN
      /\ "uneven" \notin truth.odd => out[i].line = truth.line
      /\ {"misnamed", "renamed"} \cap truth.odd = {} /\ truth.path \notin Quoted =>
           out[i].path = truth.path

LEMMA PieceHarmless ==
  ASSUME NEW out \in Seq(Entries), NEW adds2, YieldsOnce(out, adds2), Places(out, adds2),
         NEW e \in Entries, e.piece = 2
  PROVE  YieldsOnce(Append(out, e), adds2) /\ Places(Append(out, e), adds2)
<1> DEFINE out2 == Append(out, e)
<1>1. /\ DOMAIN out2 = DOMAIN out \cup {Len(out) + 1} /\ Len(out) + 1 \notin DOMAIN out
      /\ out2[Len(out) + 1] = e
      /\ \A k \in DOMAIN out : out2[k] = out[k] /\ k < Len(out) + 1
  OBVIOUS
<1> HIDE DEF out2
<1>2. \A i \in DOMAIN out2 : Whole(out2[i]) => i \in DOMAIN out /\ out2[i] = out[i]
  BY <1>1 DEF Whole
<1>3. InOrder(out2)
  BY <1>2 DEF InOrder, YieldsOnce, Whole
<1>4. YieldsOnce(out2, adds2)
  BY <1>1, <1>2, <1>3 DEF YieldsOnce
<1>5. Places(out2, adds2)
  BY <1>2 DEF Places
<1> QED
  BY <1>4, <1>5 DEF out2

LEMMA Added ==
  ASSUME NEW text \in Texts
  PROVE  /\ AddedLine(text).begins = "+" <=> Ordinary(text)
         /\ AddedLine(text).begins \in {"+", "+++", "+++ ", "+++ b/"}
         /\ "misnamed" \notin Oddities(text) => AddedLine(text).begins \in {"+", "+++"}
         /\ "renamed" \notin Oddities(text) => AddedLine(text).tail \notin {"+++ ", "+++ b/"}
         /\ "uneven" \notin Oddities(text) =>
              AddedLine(text).begins \in {"+", "+++"}
              /\ AddedLine(text).tail \in {"none", "-", "+++ ", "+++ b/"}
         /\ "shifted" \notin Oddities(text) => AddedLine(text).begins = "+"
         /\ AddedLine(text).path = Elsewhere /\ AddedLine(text).no = 0
         /\ Oddities(text) \subseteq {"uneven", "shifted", "misnamed", "renamed"}
<1>1. /\ text.head \in {"plain", "++", "++ ", "++ b/"}
      /\ text.tail \in {"none", "plain", "+", "-", "@@", "+++ ", "+++ b/"}
  BY TextsAssumption
<1>2. /\ AddedLine(text).begins = Plus(text.head) /\ AddedLine(text).tail = text.tail
      /\ AddedLine(text).path = Elsewhere /\ AddedLine(text).no = 0
  BY DEF AddedLine, Line
<1> QED
  BY <1>1, <1>2 DEF Plus, Ordinary, Oddities

LEMMA AppendFacts ==
  ASSUME NEW S, NEW s \in Seq(S), NEW e \in S
  PROVE  /\ DOMAIN Append(s, e) = DOMAIN s \cup {Len(s) + 1} /\ Len(s) + 1 \notin DOMAIN s
         /\ Append(s, e)[Len(s) + 1] = e
         /\ \A k \in DOMAIN s : Append(s, e)[k] = s[k] /\ k < Len(s) + 1
  OBVIOUS

\* A result that grows by an entry for the newest added line stays in order, and
\* all of its whole entries come from added lines.
LEMMA OrderKept ==
  ASSUME TypeOK, NEW out \in Seq(Entries), InOrder(out), EntriesComeFrom(out),
         NEW new \in Truths, NEW e \in Entries, e.of = Len(added) + 1
  PROVE  /\ InOrder(Append(out, e))
         /\ \A i \in DOMAIN Append(out, e) :
              Whole(Append(out, e)[i]) => Append(out, e)[i].of \in DOMAIN Append(added, new)
         /\ \A i \in DOMAIN out : Whole(out[i]) => out[i].of \in DOMAIN Append(added, new)
<1>1. added \in Seq(Truths)
  BY DEF TypeOK
<1> DEFINE out2 == Append(out, e)
<1>2. /\ DOMAIN out2 = DOMAIN out \cup {Len(out) + 1} /\ Len(out) + 1 \notin DOMAIN out
      /\ out2[Len(out) + 1] = e
      /\ \A k \in DOMAIN out : out2[k] = out[k] /\ k < Len(out) + 1
  BY AppendFacts
<1>3. /\ DOMAIN Append(added, new) = DOMAIN added \cup {Len(added) + 1}
      /\ \A k \in DOMAIN added : k < Len(added) + 1 /\ k \in Nat
  BY <1>1, AppendFacts
<1>4. \A k \in DOMAIN out : Whole(out[k]) => out[k].of < e.of
  BY <1>3 DEF EntriesComeFrom
<1>5. DOMAIN out \subseteq Nat
  OBVIOUS
<1> HIDE DEF out2
<1>6. InOrder(out2)
  BY <1>2, <1>4, <1>5 DEF InOrder
<1> QED
  BY <1>2, <1>3, <1>6 DEF EntriesComeFrom, out2

\* An added line is read at its place, if nothing odd came before it.
LEMMA AddedOutputs ==
  ASSUME ReaderInv, WriteAdded
  PROVE  Outputs'
<1>1. PICK text \in Texts :
        /\ Write(AddedLine(text))
        /\ added' = Append(added, [path |-> file, line |-> next, text |-> text, odd |-> odd])
  BY DEF WriteAdded
<1> DEFINE n == Len(added) + 1
           new == [path |-> file, line |-> next, text |-> text, odd |-> odd]
           sNew == [path |-> sPath, line |-> sNo, of |-> n, piece |-> 1]
           aNew == [path |-> aPath, line |-> aNo, of |-> n, piece |-> 1]
           l == AddedLine(text)
           out1 == First(l).out
<1>2. /\ TypeOK /\ added \in Seq(Truths) /\ sOut \in Seq(Entries) /\ aOut \in Seq(Entries)
      /\ new \in Truths /\ sNew \in Entries /\ aNew \in Entries
      /\ sNew.of = n /\ aNew.of = n
  BY DEF ReaderInv, TypeOK, Truths, Entries, WriteAdded
<1>3. /\ DOMAIN added' = DOMAIN added \cup {n} /\ added'[n] = new /\ n \notin DOMAIN added
      /\ \A k \in DOMAIN added : added'[k] = added[k]
  BY <1>1, <1>2, AppendFacts
<1>4. l.begins = "+" <=> Ordinary(text)
  BY Added
<1>5. \/ Ordinary(text) /\ out1 = Append(sOut, sNew)
      \/ ~Ordinary(text) /\ out1 = sOut
  BY <1>4, FirstMoves DEF Entry
<1>6. \/ Ordinary(text) /\ aPath # NoPath /\ aOut' = Append(aOut, aNew)
      \/ (~Ordinary(text) \/ aPath = NoPath) /\ aOut' = aOut
  BY <1>1, <1>4, AuditMoves DEF Entry
<1>7. /\ "uneven" \notin odd => sNo = next
      /\ "shifted" \notin odd => aNo = next
      /\ {"misnamed", "renamed"} \cap odd = {} /\ file \notin Quoted => sPath = file
      /\ "misnamed" \notin odd /\ file \notin Quoted => aPath = file /\ aPath # NoPath
      /\ "misnamed" \notin odd /\ aPath # NoPath => aPath = file
  BY DiffAssumption DEF ReaderInv, NumbersAgree, PathsAgree, InAddingHunk, InFile, WriteAdded
<1>8. /\ InOrder(sOut) /\ InOrder(aOut) /\ EntriesComeFrom(sOut) /\ EntriesComeFrom(aOut)
      /\ StagedYieldsOnce /\ StagedPlaces /\ AuditCollects /\ AuditPlaces /\ AuditWhole
  BY DEF ReaderInv, StagedYieldsOnce, AuditCollects
<1>9. /\ InOrder(out1) /\ \A i \in DOMAIN out1 : Whole(out1[i]) => out1[i].of \in DOMAIN added'
      /\ InOrder(aOut') /\ \A i \in DOMAIN aOut' : Whole(aOut'[i]) => aOut'[i].of \in DOMAIN added'
  BY <1>1, <1>2, <1>5, <1>6, <1>8, OrderKept
<1>20. /\ DOMAIN Append(sOut, sNew) = DOMAIN sOut \cup {Len(sOut) + 1}
      /\ Append(sOut, sNew)[Len(sOut) + 1] = sNew
      /\ \A i \in DOMAIN sOut : Append(sOut, sNew)[i] = sOut[i]
      /\ DOMAIN Append(aOut, aNew) = DOMAIN aOut \cup {Len(aOut) + 1}
      /\ Append(aOut, aNew)[Len(aOut) + 1] = aNew
      /\ \A j \in DOMAIN aOut : Append(aOut, aNew)[j] = aOut[j]
  BY <1>2, AppendFacts
<1>21. /\ out1 \in Seq(Entries)
       /\ Entry(First(l).path, First(l).no, OfTail(l), 2) \in Entries
  <2>0. l.path = Elsewhere /\ l.no = 0
    BY Added
  <2>1. l.path \in Paths \cup {Elsewhere, NoPath} /\ l.no \in Nat
    BY <2>0
  <2>2. Write(l)
    BY <1>1
  <2> HIDE DEF l
  <2> QED
    BY <1>2, <2>1, <2>2, ReadTyped
<1>22. \/ sOut' = out1
       \/ sOut' = Append(out1, Entry(First(l).path, First(l).no, OfTail(l), 2))
  <2>1. Write(l)
    BY <1>1
  <2> HIDE DEF l
  <2> QED
    BY <2>1, StagedMoves
<1> HIDE DEF n, new, sNew, aNew, l, out1
<1>10. /\ \A i \in DOMAIN sOut : i \in DOMAIN out1 /\ out1[i] = sOut[i]
       /\ \A i \in DOMAIN out1 : i \in DOMAIN sOut \/ (Ordinary(text) /\ out1[i] = sNew)
       /\ Ordinary(text) => \E i \in DOMAIN out1 : out1[i] = sNew
  BY <1>5, <1>20
<1>11. /\ \A i \in DOMAIN aOut : i \in DOMAIN aOut' /\ aOut'[i] = aOut[i]
       /\ \A i \in DOMAIN aOut' : i \in DOMAIN aOut \/ (aPath # NoPath /\ aOut'[i] = aNew)
       /\ Ordinary(text) /\ aPath # NoPath => \E i \in DOMAIN aOut' : aOut'[i] = aNew
  BY <1>6, <1>20
<1>12. /\ new.path = file /\ new.line = next /\ new.text = text /\ new.odd = odd
       /\ sNew.path = sPath /\ sNew.line = sNo /\ sNew.of = n /\ sNew.piece = 1
       /\ aNew.path = aPath /\ aNew.line = aNo /\ aNew.of = n /\ aNew.piece = 1
  BY DEF n, new, sNew, aNew
<1>13. YieldsOnce(out1, added')
  <2>1. ASSUME NEW k \in DOMAIN added', Ordinary(added'[k].text)
        PROVE  \E i \in DOMAIN out1 : Whole(out1[i]) /\ out1[i].of = k
    <3>1. CASE k = n
      BY <1>3, <1>10, <1>12, <2>1, <3>1 DEF Whole
    <3>2. CASE k # n
      <4>1. k \in DOMAIN added /\ added'[k] = added[k]
        BY <1>3, <2>1, <3>2
      <4>2. PICK i \in DOMAIN sOut : Whole(sOut[i]) /\ sOut[i].of = k
        BY <1>8, <2>1, <4>1 DEF StagedYieldsOnce
      <4> QED
        BY <1>10, <4>2
    <3> QED
      BY <3>1, <3>2
  <2> QED
    BY <1>9, <2>1 DEF YieldsOnce
<1>14. Places(out1, added')
  <2> SUFFICES ASSUME NEW i \in DOMAIN out1, Whole(out1[i])
               PROVE  LET truth == added'[out1[i].of] IN
                        /\ "uneven" \notin truth.odd => out1[i].line = truth.line
                        /\ {"misnamed", "renamed"} \cap truth.odd = {} /\ truth.path \notin Quoted =>
                             out1[i].path = truth.path
    BY DEF Places
  <2>1. CASE i \in DOMAIN sOut
    <3>1. out1[i] = sOut[i] /\ sOut[i].of \in DOMAIN added /\ added'[sOut[i].of] = added[sOut[i].of]
      BY <1>3, <1>8, <1>10, <2>1 DEF EntriesComeFrom
    <3> QED
      BY <1>8, <2>1, <3>1 DEF StagedPlaces, Source
  <2>2. CASE i \notin DOMAIN sOut
    <3>1. out1[i] = sNew /\ added'[n] = new
      BY <1>3, <1>10, <2>2
    <3> QED
      BY <1>7, <1>12, <3>1
  <2> QED
    BY <2>1, <2>2
<1>23. YieldsOnce(sOut', added') /\ Places(sOut', added')
  <2> DEFINE e == Entry(First(l).path, First(l).no, OfTail(l), 2)
  <2>1. e.piece = 2 /\ e \in Entries
    BY <1>21 DEF Entry
  <2> HIDE DEF e
  <2>2. YieldsOnce(Append(out1, e), added') /\ Places(Append(out1, e), added')
    BY <1>13, <1>14, <1>21, <2>1, PieceHarmless
  <2> QED
    BY <1>13, <1>14, <1>22, <2>2 DEF e
<1>24. StagedYieldsOnce' /\ StagedPlaces' /\ EntriesComeFrom(sOut)'
  BY <1>23 DEF YieldsOnce, Places, StagedYieldsOnce, StagedPlaces, EntriesComeFrom, InOrder, Source
<1>15. AuditCollects'
  BY <1>3, <1>7, <1>8, <1>9, <1>11, <1>12 DEF AuditCollects, InOrder
<1>16. AuditWhole'
  BY <1>8, <1>11, <1>12 DEF AuditWhole, Whole
<1>17. AuditPlaces'
  <2>1. ASSUME NEW i \in DOMAIN aOut
        PROVE  aOut'[i] = aOut[i] /\ aOut[i].of \in DOMAIN added /\ added'[aOut[i].of] = added[aOut[i].of]
    BY <1>3, <1>8, <1>11 DEF EntriesComeFrom, AuditWhole
  <2> QED
    BY <1>3, <1>7, <1>8, <1>11, <1>12, <2>1 DEF AuditPlaces, Source
<1> QED
  BY <1>9, <1>15, <1>16, <1>17, <1>24 DEF Outputs, EntriesComeFrom

\* So is the rest of a removed line skipped over, whatever piece of it is yielded.
LEMMA RemovedOutputs ==
  ASSUME ReaderInv, NEW tail, Write(Line("-", NoPath, 0, tail)), UNCHANGED added
  PROVE  Outputs'
<1> DEFINE l == Line("-", NoPath, 0, tail)
           e == Entry(First(l).path, First(l).no, OfTail(l), 2)
<1>1. l.begins = "-" /\ l.path = NoPath /\ l.no = 0 /\ l.tail = tail
  BY DEF Line
<1>2. Write(l)
  OBVIOUS
<1> HIDE DEF l
<1>3. First(l).out = sOut
  BY <1>1, FirstMoves
<1>4. e \in Entries /\ e.piece = 2
  <2>1. e \in Entries
    BY <1>1, <1>2, ReadTyped DEF ReaderInv
  <2> QED
    BY <2>1 DEF Entry
<1>5. sOut' = sOut \/ sOut' = Append(sOut, e)
  BY <1>2, <1>3, StagedMoves
<1> HIDE DEF e
<1>6. YieldsOnce(sOut, added) /\ Places(sOut, added) /\ sOut \in Seq(Entries)
  BY DEF ReaderInv, StagedYieldsOnce, StagedPlaces, YieldsOnce, Places, Source, TypeOK
<1>7. YieldsOnce(sOut', added) /\ Places(sOut', added)
  BY <1>4, <1>5, <1>6, PieceHarmless
<1>8. aOut' = aOut
  BY <1>1, <1>2, AuditMoves
<1>9. StagedYieldsOnce' /\ StagedPlaces' /\ EntriesComeFrom(sOut)'
  BY <1>7 DEF YieldsOnce, Places, StagedYieldsOnce, StagedPlaces, EntriesComeFrom, InOrder, Source
<1>10. AuditCollects' /\ AuditPlaces' /\ AuditWhole' /\ EntriesComeFrom(aOut)'
  BY <1>8 DEF ReaderInv, AuditCollects, AuditPlaces, AuditWhole, EntriesComeFrom, InOrder, Source
<1> QED
  BY <1>9, <1>10 DEF Outputs

LEMMA ReaderInvariance == Spec => []ReaderInv
<1>1. Init => ReaderInv
  <2> SUFFICES ASSUME Init PROVE ReaderInv
    OBVIOUS
  <2>1. TypeOK
    <3>1. added \in Seq(Truths) /\ sOut \in Seq(Entries) /\ aOut \in Seq(Entries)
      BY DEF Init
    <3>2. lines \in 0..MaxLines
      BY DiffAssumption DEF Init
    <3>3. noeol \subseteq {"old", "new"} /\ odd \subseteq {"uneven", "shifted", "misnamed", "renamed"}
      BY DEF Init
    <3> QED
      BY <3>1, <3>2, <3>3 DEF Init, TypeOK
  <2>2. NumbersAgree /\ PathsAgree
    BY DEF Init, NumbersAgree, PathsAgree, InFile, InAddingHunk
  <2>3. DOMAIN sOut = {} /\ DOMAIN aOut = {} /\ DOMAIN added = {}
    BY DEF Init
  <2>4. /\ EntriesComeFrom(sOut) /\ EntriesComeFrom(aOut)
        /\ StagedYieldsOnce /\ StagedPlaces /\ AuditCollects /\ AuditPlaces /\ AuditWhole
    BY <2>3 DEF EntriesComeFrom, StagedYieldsOnce, StagedPlaces, AuditCollects, AuditPlaces, AuditWhole, InOrder
  <2> QED
    BY <2>1, <2>2, <2>4 DEF ReaderInv
<1>2. ReaderInv /\ [Next]_vars => ReaderInv'
  <2> SUFFICES ASSUME ReaderInv, [Next]_vars PROVE ReaderInv'
    OBVIOUS
  <2>0. Outputs /\ TypeOK
    BY DEF ReaderInv, Outputs
  <2>1. CASE WriteGit
    <3>1. Write(Line("diff --git", NoPath, 0, "none"))
      BY <2>1 DEF WriteGit, Header
    <3>2. TypeOK' /\ UNCHANGED <<sOut, aOut, added>>
      BY <2>0, <2>1, <3>1, LineRead DEF WriteGit, TypeOK
    <3>3. NumbersAgree' /\ PathsAgree'
      BY <2>1 DEF WriteGit, NumbersAgree, PathsAgree, InFile, InAddingHunk
    <3> QED
      BY <2>0, <3>2, <3>3, OutputsStay DEF ReaderInv, Outputs
  <2>2. CASE WriteExtended
    <3>1. Write(Line("index", NoPath, 0, "none"))
      BY <2>2 DEF WriteExtended, Header
    <3>2. TypeOK' /\ UNCHANGED <<sOut, aOut, added>>
      BY <2>0, <2>2, <3>1, LineRead DEF WriteExtended, TypeOK
    <3>3. NumbersAgree' /\ PathsAgree'
      BY <2>2 DEF WriteExtended, NumbersAgree, PathsAgree, InFile, InAddingHunk
    <3> QED
      BY <2>0, <3>2, <3>3, OutputsStay DEF ReaderInv, Outputs
  <2>3. CASE WriteOld
    <3>1. Write(Line("-", NoPath, 0, "none"))
      BY <2>3 DEF WriteOld, Header
    <3>2. TypeOK' /\ UNCHANGED <<sOut, aOut, added>>
      BY <2>0, <2>3, <3>1, LineRead DEF WriteOld, TypeOK
    <3>3. NumbersAgree' /\ PathsAgree'
      BY <2>3 DEF WriteOld, NumbersAgree, PathsAgree, InFile, InAddingHunk
    <3> QED
      BY <2>0, <3>2, <3>3, OutputsStay DEF ReaderInv, Outputs
  <2>4. CASE WriteNew
    <3>1. PICK p \in todo, deleted \in BOOLEAN :
            /\ todo' = todo \ {p}
            /\ file' = IF deleted THEN NoPath ELSE p
            /\ Write(Line(IF deleted \/ p \in Quoted THEN "+++ " ELSE "+++ b/", p, 0, "none"))
      BY <2>4 DEF WriteNew
    <3>2. p \in Paths
      BY <2>0 DEF TypeOK
    <3>3. TypeOK' /\ UNCHANGED <<sOut, aOut, added>>
      BY <2>0, <2>4, <3>1, <3>2, LineRead DEF WriteNew, TypeOK
    <3>4. NumbersAgree'
      BY <2>4 DEF WriteNew, NumbersAgree, InAddingHunk
    <3>5. PathsAgree'
      BY <2>0, <2>4, <3>1, <3>2, LineRead, DiffAssumption
      DEF WriteNew, PathsAgree, InFile
    <3> QED
      BY <2>0, <3>3, <3>4, <3>5, OutputsStay DEF ReaderInv, Outputs
  <2>5. CASE WriteHunk
    <3>1. PICK c \in 0..MaxNo, a \in BOOLEAN :
            /\ file = NoPath => c = 0 /\ ~a
            /\ next' = IF a THEN c ELSE c + 1
            /\ adds' = a
            /\ Write(Line("@@", NoPath, c, "none"))
      BY <2>5 DEF WriteHunk
    <3>2. c \in Nat
      BY DiffAssumption
    <3>6. /\ sPath' \in Paths \cup {Elsewhere, NoPath} /\ sNo' = c
          /\ aPath' \in Paths \cup {Elsewhere, NoPath} /\ aNo' = c
          /\ lines' \in 0..MaxLines /\ UNCHANGED <<sOut, aOut, sPath, aPath>>
      BY <2>0, <3>1, <3>2, LineRead
    <3>7. /\ file' = file /\ added' = added /\ noeol' = noeol /\ todo' = todo
          /\ phase' = "hunk" /\ odd' = odd \cap {"misnamed", "renamed"}
      BY <2>5 DEF WriteHunk
    <3>3. TypeOK' /\ UNCHANGED <<sOut, aOut, added>>
      BY <2>0, <3>1, <3>2, <3>6, <3>7 DEF TypeOK
    <3>4. NumbersAgree'
      BY <2>0, <3>1, <3>6, <3>7 DEF NumbersAgree, InAddingHunk, TypeOK
    <3>5. PathsAgree'
      BY <2>5, <3>6, <3>7 DEF ReaderInv, WriteHunk, PathsAgree, InFile
    <3> QED
      BY <2>0, <3>3, <3>4, <3>5, OutputsStay DEF ReaderInv, Outputs
  <2>6. CASE WriteRemoved
    <3>1. PICK text \in {t \in Texts : Ordinary(t)} :
            /\ Write(Line("-", NoPath, 0, text.tail))
            /\ odd' = odd \cup Oddities(text)
      BY <2>6 DEF WriteRemoved
    <3> DEFINE l == Line("-", NoPath, 0, text.tail)
    <3>2. /\ "uneven" \notin Oddities(text) => text.tail \in {"none", "-", "+++ ", "+++ b/"}
          /\ "renamed" \notin Oddities(text) => text.tail \notin {"+++ ", "+++ b/"}
          /\ Oddities(text) \subseteq {"uneven", "shifted", "misnamed", "renamed"}
      BY Added DEF AddedLine, Line
    <3>3. l.begins = "-" /\ l.path = NoPath /\ l.no = 0 /\ l.tail = text.tail
      BY DEF Line
    <3>4. Write(l)
      BY <3>1
    <3> HIDE DEF l
    <3>5. UNCHANGED <<file, adds, next, noeol, todo, added>> /\ phase \in {"hunk", "removed"} /\ phase' = "removed"
      BY <2>6 DEF WriteRemoved
    <3>6. /\ UNCHANGED <<aPath, aNo>>
          /\ text.tail \in {"none", "-", "+++ ", "+++ b/"} => sNo' = sNo
          /\ text.tail \notin {"+++ ", "+++ b/"} => sPath' = sPath
      <4>1. UNCHANGED <<aPath, aNo>>
        BY <3>3, <3>4, AuditMoves
      <4>2. First(l).path = sPath /\ First(l).no = sNo /\ sNo + 0 = sNo
        <5>1. Step(l.begins) = 0 /\ sNo \in Nat
          BY <2>0, <3>3 DEF Step, TypeOK
        <5>2. sNo + 0 = sNo
          BY <5>1
        <5> QED
          BY <3>3, <5>1, <5>2, FirstMoves
      <4>3. text.tail \in {"-", "+++ ", "+++ b/"} => Step(text.tail) = 0
        BY DEF Step
      <4> QED
        <5>1. l.tail = "none" => sNo' = sNo /\ sPath' = sPath
          BY <3>4, <4>2, StagedMoves
        <5>2. l.tail \in {"-", "+++ ", "+++ b/"} => sNo' = sNo
          BY <3>3, <3>4, <4>2, <4>3, StagedMoves
        <5>3. l.tail \notin {"none", "+++ ", "+++ b/"} => sPath' = sPath
          BY <3>4, <4>2, StagedMoves
        <5> QED
          BY <3>3, <4>1, <5>1, <5>2, <5>3
    <3>7. /\ sPath' \in Paths \cup {Elsewhere, NoPath} /\ sNo' \in Nat
          /\ aPath' \in Paths \cup {Elsewhere, NoPath} /\ aNo' \in Nat
          /\ lines' \in 0..MaxLines
          /\ sOut' \in Seq(Entries) /\ aOut' \in Seq(Entries)
      BY <2>0, <3>3, <3>4, ReadTyped
    <3>8. TypeOK'
      BY <2>0, <3>1, <3>2, <3>5, <3>7 DEF TypeOK
    <3>9. NumbersAgree'
      BY <3>1, <3>2, <3>5, <3>6 DEF ReaderInv, NumbersAgree, InAddingHunk
    <3>10. PathsAgree'
      BY <3>1, <3>2, <3>5, <3>6 DEF ReaderInv, PathsAgree, InFile
    <3>11. Outputs'
      BY <3>1, <3>5, RemovedOutputs
    <3> QED
      BY <3>8, <3>9, <3>10, <3>11 DEF ReaderInv, Outputs
  <2>7. CASE WriteAdded
    <3>1. PICK text \in Texts :
            /\ Write(AddedLine(text))
            /\ added' = Append(added, [path |-> file, line |-> next, text |-> text, odd |-> odd])
            /\ odd' = odd \cup Oddities(text)
      BY <2>7 DEF WriteAdded
    <3> DEFINE l == AddedLine(text)
    <3>2. /\ l.begins = "+" <=> Ordinary(text)
          /\ l.begins \in {"+", "+++", "+++ ", "+++ b/"}
          /\ "misnamed" \notin Oddities(text) => l.begins \in {"+", "+++"}
          /\ "renamed" \notin Oddities(text) => l.tail \notin {"+++ ", "+++ b/"}
          /\ "uneven" \notin Oddities(text) =>
               l.begins \in {"+", "+++"} /\ l.tail \in {"none", "-", "+++ ", "+++ b/"}
          /\ "shifted" \notin Oddities(text) => l.begins = "+"
          /\ Oddities(text) \subseteq {"uneven", "shifted", "misnamed", "renamed"}
      BY Added
    <3>3. Write(l)
      BY <3>1
    <3>10. l.path = Elsewhere /\ l.no = 0
      BY Added
    <3> HIDE DEF l
    <3>4. [path |-> file, line |-> next, text |-> text, odd |-> odd] \in Truths
      BY <2>0 DEF TypeOK, Truths
    <3>5. added' \in Seq(Truths)
      BY <2>0, <3>1, <3>4 DEF TypeOK
    <3>6. odd' \subseteq {"uneven", "shifted", "misnamed", "renamed"}
      BY <2>0, <3>1, <3>2 DEF TypeOK
    <3>7. TypeOK'
      <4>1. l.path \in Paths \cup {Elsewhere, NoPath} /\ l.no \in Nat
        BY <3>10
      <4>2. /\ sPath' \in Paths \cup {Elsewhere, NoPath} /\ sNo' \in Nat
            /\ aPath' \in Paths \cup {Elsewhere, NoPath} /\ aNo' \in Nat
            /\ lines' \in 0..MaxLines
            /\ sOut' \in Seq(Entries) /\ aOut' \in Seq(Entries)
        BY <2>0, <3>3, <4>1, ReadTyped
      <4> QED
        BY <2>0, <2>7, <3>5, <3>6, <4>2 DEF WriteAdded, TypeOK
    <3>8. NumbersAgree'
      <4>0. sNo \in Nat
        BY <2>0 DEF TypeOK
      <4>1. aNo' = IF l.begins = "+" THEN aNo + 1 ELSE aNo
        <5>1. l.begins # "@@"
          BY <3>2
        <5> QED
          BY <3>3, <5>1, AuditMoves
      <4>2. "uneven" \notin Oddities(text) => sNo' = sNo + 1
        <5> SUFFICES ASSUME "uneven" \notin Oddities(text) PROVE sNo' = sNo + 1
          OBVIOUS
        <5>1. l.begins \in {"+", "+++"} /\ l.tail \in {"none", "-", "+++ ", "+++ b/"}
          BY <3>2
        <5>2. First(l).no = sNo + 1
          BY <5>1, FirstMoves DEF Step
        <5>3. l.tail # "none" => sNo' = First(l).no + 0
          BY <3>3, <5>1, StagedMoves DEF Step
        <5>4. l.tail = "none" => sNo' = First(l).no
          BY <3>3, StagedMoves
        <5>5. First(l).no + 0 = First(l).no
          BY <4>0, <5>2
        <5> QED
          BY <5>2, <5>3, <5>4, <5>5
      <4>3. next' = next + 1 /\ next \in Nat /\ sNo \in Nat /\ aNo \in Nat /\ UNCHANGED <<file, adds>>
        BY <2>0, <2>7 DEF WriteAdded, TypeOK
      <4>4. InAddingHunk /\ NumbersAgree
        BY <2>7 DEF WriteAdded, InAddingHunk, ReaderInv
      <4>5. "uneven" \notin odd' => "uneven" \notin odd /\ sNo' = sNo + 1
        BY <3>1, <4>2
      <4>6. "shifted" \notin odd' => "shifted" \notin odd /\ aNo' = aNo + 1
        BY <3>1, <3>2, <4>1
      <4> QED
        BY <4>3, <4>4, <4>5, <4>6 DEF NumbersAgree
    <3>9. PathsAgree'
      <4>1. /\ "misnamed" \notin odd' => "misnamed" \notin odd /\ aPath' = aPath /\ First(l).path = sPath
            /\ "renamed" \notin odd' => "renamed" \notin odd /\ sPath' = First(l).path
        BY <3>1, <3>2, <3>3, AuditMoves, FirstMoves, StagedMoves
      <4> QED
        BY <2>7, <4>1 DEF ReaderInv, WriteAdded, PathsAgree, InFile
    <3> QED
      BY <2>7, <3>7, <3>8, <3>9, AddedOutputs DEF ReaderInv, Outputs
  <2>8. CASE WriteNoEol
    <3>1. Write(Line("marker", NoPath, 0, "none"))
      BY <2>8 DEF WriteNoEol, Header
    <3>2. TypeOK' /\ UNCHANGED <<sOut, aOut, added>>
      BY <2>0, <2>8, <3>1, LineRead DEF WriteNoEol, TypeOK, Side
    <3>4. sPath' = sPath /\ aPath' = aPath /\ aNo' = aNo
      <4>1. /\ sPath' = IF "marker" = "+++ b/" THEN NoPath
                        ELSE IF "marker" = "+++ " THEN NoPath ELSE sPath
            /\ aPath' = IF "marker" = "+++ b/" THEN NoPath
                        ELSE IF "marker" \in {"diff --git", "+++ "} THEN NoPath ELSE aPath
            /\ aNo' = IF "marker" = "@@" THEN 0 ELSE aNo
        BY <2>0, <3>1, LineRead, Zenon
      <4> QED
        BY <4>1
    <3>5. UNCHANGED <<phase, file, adds, next>> /\ odd' = odd \cup {"uneven"}
      BY <2>8 DEF WriteNoEol
    <3>3. NumbersAgree' /\ PathsAgree'
      BY <3>4, <3>5 DEF ReaderInv, NumbersAgree, PathsAgree, InFile, InAddingHunk
    <3> QED
      BY <2>0, <3>2, <3>3, OutputsStay DEF ReaderInv, Outputs
  <2>9. CASE UNCHANGED vars
    BY <2>0, <2>9, OutputsStay
    DEF ReaderInv, Outputs, TypeOK, NumbersAgree, PathsAgree, InFile, InAddingHunk, vars, git, staged, audit
  <2> QED
    BY <2>1, <2>2, <2>3, <2>4, <2>5, <2>6, <2>7, <2>8, <2>9 DEF Next
<1> QED
  BY <1>1, <1>2, PTL DEF Spec

\* Every variable stays within its type.
THEOREM TypeCorrect == Spec => []TypeOK
<1>1. ReaderInv => TypeOK
  BY DEF ReaderInv
<1> QED
  BY <1>1, ReaderInvariance, PTL

\* The staged scan sees every added line that does not begin "++" once, in order.
THEOREM StagedSeesEachOnce == Spec => []StagedYieldsOnce
  BY ReaderInvariance, PTL DEF ReaderInv

\* The place it gives is exact up to the oddities of the same hunk and file.
THEOREM StagedPlacesAreExact == Spec => []StagedPlaces
  BY ReaderInvariance, PTL DEF ReaderInv

\* The audit collects every such line of a file whose name is not quoted, until
\* a text of that file looks like a name.
THEOREM AuditSeesEachOnce == Spec => []AuditCollects
  BY ReaderInvariance, PTL DEF ReaderInv

\* The audit puts no line into the wrong file and none at a wrong number, up to
\* the oddities of the same file and hunk.
THEOREM AuditPlacesAreExact == Spec => []AuditPlaces
  BY ReaderInvariance, PTL DEF ReaderInv

=============================================================================

--------------------------- MODULE MCDiffReaders ---------------------------
(* Two files, the name of one of which git quotes. *)
EXTENDS DiffReaders, FiniteSets

CONSTANTS p, q
MCPaths == {p, q}
MCQuoted == {q}
\* A piece that begins "+" is counted as a plain one is.
MCTexts  == [head : {"plain", "++", "++ ", "++ b/"}, tail : {"none"}]
              \cup [head : {"plain"}, tail : {"+", "-", "@@", "+++ ", "+++ b/"}]

\* Bound: a diff adds at most two texts that are not plain to the end; of removed lines any number.
Usual(text) == Ordinary(text) /\ text.tail = "none"
TwoOdd == Cardinality({k \in DOMAIN added : ~Usual(added[k].text)}) <= 2

=============================================================================

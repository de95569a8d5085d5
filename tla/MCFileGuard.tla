---------------------------- MODULE MCFileGuard ----------------------------
(* Small instances of FileGuard: the guard's own file and one or two others.  *)
EXTENDS FileGuard

CONSTANTS guard, scanner, v1, v2

MCFiles == {guard, scanner}
MCRank  == [f \in MCFiles |-> IF f = guard THEN 1 ELSE 2]

\* v1 of file_guard.py protects both files, v2 has dropped the scanner.
MCProtectedIn == [c \in {v1, v2} |-> IF c = v1 THEN MCFiles ELSE {guard}]
=============================================================================

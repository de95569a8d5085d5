---------------------------- MODULE MCDriftAudit ----------------------------
(* A branch of three commits and two pushes.  The first commit adds drift the  *)
(* second removes and changes f, which it names; the second changes g, unnamed *)
(* until the third, which changes h.                                           *)
EXTENDS DriftAudit

CONSTANTS local, f, g, h
MCFiles  == {f, g, h}
MCSmells == [c \in Commits |-> CASE c = 1 -> {"names", "added"}
                                 [] c = 2 -> {"names", "tree"}
                                 [] c = 3 -> {"names", "tree", "checks"}
                                 [] OTHER -> {}]
MCChanged == [c \in Commits |-> CASE c = 1 -> {f} [] c = 2 -> {f, g} [] c = 3 -> {f, g, h} [] OTHER -> {}]
MCNamed   == [c \in Commits |-> CASE c \in 1..2 -> {f} [] c = 3 -> {f, g} [] OTHER -> {}]

\* Bound: a behaviour has audits in the clone or pushes, not both.  The two share
\* the clone's HEAD alone, which neither moves.
OneSide == seen[Local] = {} \/ Pushed = {}

MCTrees   == {{}, {"tree", "checks"}}
MCOptions == {{"badref"}, {"strict", "history"}, {"checks"}}
=============================================================================

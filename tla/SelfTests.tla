------------------------------ MODULE SelfTests ------------------------------
(***************************************************************************)
(* template/harness_template.py: what every harness shares.  A self-test   *)
(* makes a fixed sequence of checks: the oracle serves what is legitimate, *)
(* the oracle is not fooled, the planted bug is caught.  It exits 1 when   *)
(* one of them fails, so that a harness without teeth is red.              *)
(*                                                                         *)
(* Most oracles the meta-gate neuters return a bool, and then report the   *)
(* opposite.  A harness is written here as an operator from the set of     *)
(* symbols that lie to its checks.  "oracle" and "buggy" stand for the two *)
(* classes, or functions, of a harness.                                    *)
(***************************************************************************)
EXTENDS Integers, Sequences, FiniteSets

Oracle(class) == class = "oracle"

Says(symbol, lies, answer) == IF symbol \in lies THEN ~answer ELSE answer

\* A mutant: the failures are not counted up.
FailuresOfFirst(checks) == Cardinality({i \in DOMAIN checks \cap {1} : ~checks[i]})

Failures(checks) == Cardinality({i \in DOMAIN checks : ~checks[i]})

RunSelfTest(checks) == IF Failures(checks) > 0 THEN 1 ELSE 0

\* The command line, with or without --self-test.
Main(selfTest, checks) == IF selfTest THEN RunSelfTest(checks) ELSE 2

\* The checks nearly every harness makes.
Checks(serves, fooled, caught) == <<serves, ~fooled, caught>>
==============================================================================

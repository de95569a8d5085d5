--------------------------- MODULE MCVacuityGate ---------------------------
(* Rosters for VacuityGate.  Every kind of self-test the gate can meet has one *)
(* harness of its own; the names are those of harnesses of the repository, or  *)
(* of the gate's own fixtures, that are of the kind.                           *)
EXTENDS VacuityGate

Value(t, n) == [type |-> t, v |-> n]
Exactly(s, x) == [symbol |-> s, value |-> x, accepts |-> {x}]
Truthy(s, x)  == [symbol |-> s, value |-> x, accepts |-> {Value(x.type, n) : n \in 1..9}]

MCHarnesses == {"real_harness", "vacuous_harness", "two_targets", "masked_target",
                "red_control", "truthy_text", "hanging", "stale_target",
                "infinite_float", "mutation_quality"}

MCTargets ==
  [h \in MCHarnesses |->
     CASE h = "mutation_quality" -> <<>>
       [] h \in {"two_targets", "masked_target"} -> <<"oracle", "buggy">>
       [] h = "stale_target" -> <<"renamed">>
       [] OTHER -> <<"oracle">>]

MCAsserts ==
  [h \in MCHarnesses |->
     CASE h = "vacuous_harness" -> {}
       [] h = "two_targets"     -> {Exactly("oracle", Value("int", 3)), Exactly("buggy", Value("collection", 2))}
       [] h = "masked_target"   -> {Exactly("oracle", Value("bool", 1))}
       [] h = "red_control"     -> {[Exactly("oracle", Value("int", 3)) EXCEPT !.value = Value("int", 2)]}
       [] h = "truthy_text"     -> {Truthy("oracle", Value("text", 4))}
       [] h = "infinite_float"  -> {Exactly("oracle", Value("float", Huge))}
       [] OTHER                 -> {Exactly("oracle", Value("int", 3))}]

MCDefined == [h \in MCHarnesses |-> {"oracle", "buggy"}]
MCHangs   == {<<"hanging", {"oracle"}>>}

AllKinds   == <<"real_harness", "vacuous_harness", "two_targets", "masked_target",
                "red_control", "truthy_text", "hanging", "mutation_quality", "stale_target", "infinite_float">>
\* Trees whose gate is clean: every target has teeth, none is declared, no harness.
MCRosters  == {AllKinds, <<"real_harness", "mutation_quality", "two_targets">>,
               <<"mutation_quality">>, <<>>}
Stale      == {<<"real_harness", "stale_target">>}
=============================================================================

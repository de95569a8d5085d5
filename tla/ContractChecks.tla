---------------------------- MODULE ContractChecks ----------------------------
(***************************************************************************)
(* The harnesses that hold an output or a piece of code to a contract: a   *)
(* schema, a depth, a round trip, a constraint, a cached prefix, the       *)
(* installed packages, a test suite; their planted bugs, their probes and  *)
(* their self-tests.                                                       *)
(*                                                                         *)
(* A dictionary is a function; only the fields a schema speaks of are kept. *)
(***************************************************************************)
EXTENDS SelfTests

\* jsonschema: every required field is there.
Validates(instance, required) == required \subseteq DOMAIN instance

------------------------------------------------------------------------------
(* cookie_security, security_headers *)

COOKIE_REQUIRED == {"Secure", "HttpOnly", "SameSite"}
SetCookie(class, value) ==
  IF Oracle(class) THEN [f \in COOKIE_REQUIRED \cup {"value"} |-> IF f = "value" THEN value ELSE "set"]
  ELSE [f \in {"value"} |-> value]
cookie_security(lies) ==
  LET Missing(class) == Says("cookie_missing_flags", lies, ~Validates(SetCookie(class, "abc"), COOKIE_REQUIRED))
  IN  Checks(SetCookie("oracle", "abc")["value"] = "abc", Missing("oracle"), Missing("buggy"))

HEADERS_REQUIRED == {"Content-Security-Policy", "Strict-Transport-Security",
                     "X-Frame-Options", "X-Content-Type-Options"}
Headers(class) ==
  [h \in {"Content-Type"} \cup (IF Oracle(class) THEN HEADERS_REQUIRED \cup {"Referrer-Policy"} ELSE {}) |-> "set"]
security_headers(lies) ==
  LET Missing(class) == Says("missing_security_headers", lies, ~Validates(Headers(class), HEADERS_REQUIRED))
  IN  Checks("Content-Type" \in DOMAIN Headers("oracle"), Missing("oracle"), Missing("buggy"))

------------------------------------------------------------------------------
(* schema_validation: polyfactory builds one figure of every shape.  Only the
   sign of an area is looked at. *)

Shapes == {"circle", "square", "triangle"}
AreaPositive(class, shape) == Oracle(class) \/ shape \in {"circle", "square"}
schema_validation(lies) ==
  LET Mishandles(class) == Says("mishandles_a_variant", lies, \E s \in Shapes : ~AreaPositive(class, s))
  IN  <<~Mishandles("oracle"), Mishandles("buggy"), ~AreaPositive("buggy", "triangle")>>

------------------------------------------------------------------------------
(* structured_output_contract, openapi_fuzz: the one operation of the fuzzed
   schema has no parameters, so that every generated case answers the same. *)

TOOL_REQUIRED == {"tool", "amount", "to"}
ToolSchema(output) ==
  /\ Validates(output, TOOL_REQUIRED) /\ DOMAIN output = TOOL_REQUIRED
  /\ output["tool"] = "transfer"
  /\ output["amount"] >= 1 /\ output["amount"] <= 1000000
  /\ output["to"] = "acct-dddddd"
ToolExecutes(class, output) == Oracle(class) => ToolSchema(output)
structured_output_contract(lies) ==
  LET Good == [tool |-> "transfer", amount |-> 100, to |-> "acct-dddddd"]
      Malformed == [tool |-> "transfer", amount |-> -5, to |-> "elsewhere", role |-> "admin"]
      Acts(class) == Says("executes_malformed_output", lies, ToolExecutes(class, Malformed))
  IN  Checks(ToolExecutes("oracle", Good), Acts("oracle"), Acts("buggy"))

COUNT == [oracle |-> "integer", buggy |-> "string"]
conforms_to_contract(type) == type = "integer"
openapi_fuzz(lies) ==
  LET Conforms(class) == Says("conforms_to_contract", lies, conforms_to_contract(COUNT[class]))
  IN  <<Conforms("oracle"), ~Conforms("buggy")>>

------------------------------------------------------------------------------
(* graphql_depth_limit: a query is the set of its paths of nested fields. *)

MAX_DEPTH == 5
QueryTooDeep(query, limit) == \E path \in query : Len(path) > limit
ExecuteQuery(class, query) == Oracle(class) => ~QueryTooDeep(query, MAX_DEPTH)
SHALLOW == {<<"user">>, <<"user", "name">>, <<"user", "email">>}
DEEP    == {SubSeq(<<"a", "b", "c", "d", "e", "f", "g">>, 1, n) : n \in 1..7}
graphql_depth_limit(lies) ==
  LET Deep(class) == Says("executes_deeply_nested", lies, ExecuteQuery(class, DEEP))
  IN  Checks(ExecuteQuery("oracle", SHALLOW), Deep("oracle"), Deep("buggy"))

------------------------------------------------------------------------------
(* property_roundtrip: run-length encoding; texts of at most MaxText letters
   stand for those Hypothesis draws. *)

MaxText == 3
Letters == {"a", "b"}
ShortTexts == UNION {[1..n -> Letters] : n \in 0..MaxText}

RleStep(ch, runs) ==
  IF runs # <<>> /\ runs[Len(runs)][1] = ch
  THEN [runs EXCEPT ![Len(runs)][2] = @ + 1]
  ELSE Append(runs, <<ch, 1>>)
\* The runs of the first n letters, for every n.
Encoding(text) ==
  LET Encode[n \in 0..Len(text)] == IF n = 0 THEN <<>> ELSE RleStep(text[n], Encode[n - 1])
  IN  Encode
rle_encode(text) == Encoding(text)[Len(text)]
\* The planted bug drops the runs of one character.
Repeat(class, run) ==
  IF Oracle(class) \/ run[2] # 1 THEN [i \in 1..run[2] |-> run[1]] ELSE <<>>
Decoding(class, runs) ==
  LET Decode[n \in 0..Len(runs)] == IF n = 0 THEN <<>> ELSE Decode[n - 1] \o Repeat(class, runs[n])
  IN  Decode
Decoded(class, runs) == Decoding(class, runs)[Len(runs)]
rle_decode(class, lies, runs) ==
  Decoded(class, runs) \o (IF Oracle(class) /\ "rle_decode" \in lies THEN <<"_MUT">> ELSE <<>>)
property_roundtrip(lies) ==
  LET Counterexample(class) == \E t \in ShortTexts : rle_decode(class, lies, rle_encode(t)) # t
  IN  <<~Counterexample("oracle"), Counterexample("buggy")>>

------------------------------------------------------------------------------
(* sql_orm: the second commit of a row the table has. *)

InsertAccepted(unique, table, email) == unique => email \notin table
sql_orm(lies) ==
  LET Allows(unique) == Says("allows_duplicate", lies, InsertAccepted(unique, {"dup"}, "dup"))
  IN  <<~Allows(TRUE), Allows(FALSE)>>

------------------------------------------------------------------------------
(* prompt_cache_prefix: the provider caches the blocks up to the last
   breakpoint; none of them may match _VOLATILE_RE.  What a block is when the
   prompt is assembled again, the oracle does not see. *)

Block(matches, breakpoint) == [matches |-> matches, cache_control |-> breakpoint]
\* A mutant: the block that holds the breakpoint is left out.
CachedBeforeBreakpoint(blocks) ==
  {i \in DOMAIN blocks : \E last \in DOMAIN blocks : i < last /\ blocks[last].cache_control}
CachedPrefix(blocks) ==
  {i \in DOMAIN blocks : \E last \in DOMAIN blocks : i <= last /\ blocks[last].cache_control}
prefix_is_stable(blocks) == \A i \in CachedPrefix(blocks) : ~blocks[i].matches
naive_prefix_check(blocks) == \E i \in DOMAIN blocks : blocks[i].cache_control
stable_prompt == <<Block(FALSE, TRUE), Block(TRUE, FALSE)>>
buggy_prompt  == <<Block(TRUE, TRUE), Block(FALSE, FALSE)>>
prompt_cache_prefix(lies) ==
  LET Stable(blocks) == Says("prefix_is_stable", lies, prefix_is_stable(blocks))
  IN  <<Stable(stable_prompt), ~Stable(buggy_prompt), naive_prefix_check(buggy_prompt)>>

------------------------------------------------------------------------------
(* hallucinated_dependency, hallucinated_symbol: names and pins held against
   what is installed. *)

Installed == [name \in {"pydantic", "packaging", "hypothesis"} |-> "live"]
Pin(name, version) == <<name, version>>
pin_resolves(pin) == pin[1] \in DOMAIN Installed /\ pin[2] = Installed[pin[1]]
HallucinatedPins(class, lies, pins) ==
  {p \in pins : IF Oracle(class) THEN ~Says("pin_resolves", lies, pin_resolves(p))
                ELSE p[1] \notin DOMAIN Installed}
hallucinated_dependency(lies) ==
  LET Real  == {Pin(name, Installed[name]) : name \in DOMAIN Installed}
      Wrong == Pin("pydantic", "99.99.99")
      Bogus == {Wrong, Pin("nonexistent-typosquat-pkg-xyz", "1.0.0")}
  IN  <<HallucinatedPins("oracle", lies, Real) = {}, HallucinatedPins("oracle", lies, Bogus) = Bogus,
        Wrong \notin HallucinatedPins("buggy", lies, Bogus)>>

Surface == {"BaseModel", "field_validator"}
HallucinatedAttributes(class, lies, attrs) ==
  IF Oracle(class) THEN {a \in attrs : ~Says("attribute_exists", lies, a \in Surface)} ELSE {}
hallucinated_symbol(lies) ==
  LET Invented == {"BaseModelz", "field_validatorr"}
  IN  <<HallucinatedAttributes("oracle", lies, Surface) = {},
        Invented \subseteq HallucinatedAttributes("oracle", lies, Invented),
        Invented \cap HallucinatedAttributes("buggy", lies, Invented) = {}>>

------------------------------------------------------------------------------
(* mutation_quality: a mutant of is_positive survives a suite whose assertions
   it answers as the original does; where mutmut cannot run, the self-test skips
   and is green.  secret_scanning: a scanner counts the lines it knows the shape
   of. *)

IsPositive(mutant, n) ==
  CASE mutant = "n > 0" -> n > 0 [] mutant = "n >= 0" -> n >= 0 [] mutant = "n > 1" -> n > 1
count_survivors(suite) ==
  Cardinality({m \in {"n >= 0", "n > 1"} : \A n \in suite : IsPositive(m, n) = IsPositive("n > 0", n)})
mutation_quality(lies) ==
  IF Says("mutmut_available", lies, TRUE)
  THEN <<count_survivors({5, 1, 0, -3}) = 0, count_survivors({5}) > 0>> ELSE <<>>

BLOB == {"aws key", "base64 token", "private key"}
KnownShapes(class) == IF Oracle(class) THEN BLOB \cup {"password="} ELSE {"password="}
secret_scanning(lies) ==
  LET Misses(class) == Says("misses_real_secrets", lies, Cardinality(BLOB \cap KnownShapes(class)) = 0)
  IN  <<~Misses("oracle"), Misses("buggy")>>
==============================================================================

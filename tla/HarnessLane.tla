----------------------------- MODULE HarnessLane -----------------------------
(***************************************************************************)
(* make selftest: the self-tests of the in-process harnesses, one after    *)
(* another, until one of them is red.  The tree under test is as it should *)
(* be, or one oracle in it answers wrong.                                  *)
(*                                                                         *)
(* The lane has no memory and every self-test is deterministic, so that one *)
(* broken oracle stands for each.  What the vacuity gate does with the exit *)
(* codes of a neutered harness is VacuityGate's subject.                    *)
(***************************************************************************)
EXTENDS CredentialVerifiers, ResilienceParts, AccessPolicies, IntegrityChecks, ContractChecks, ScoreChecks

VARIABLES
  lane,    \* the place of the next harness; 0 when no lane runs
  broken,  \* the symbols that answer wrong
  exit     \* of make: running, 0 or 1

laneVars == <<lane, broken, exit>>

\* The harnesses in the order of the Makefile's two patterns, with the symbol
\* each names in VACUITY_TARGETS; mutation_quality names none, because it skips where
\* mutmut cannot run (mutation_quality:40-44).
Harness(name, target) == [name |-> name, target |-> target]
Catalogue == <<
  Harness("api_bfla", "FunctionAuthz.can_invoke"),
  Harness("api_object_property_authz", "leaks_sensitive_fields"),
  Harness("async_http_contract", "fetch_with_retry"),
  Harness("cookie_security", "cookie_missing_flags"),
  Harness("cors_misconfig", "reflects_untrusted_origin"),
  Harness("crypto_agility", "accepts_deprecated_signature"),
  Harness("crypto_correctness", "AeadBox.decrypt"),
  Harness("csrf_token", "accepts_cross_session_token"),
  Harness("dependency_confusion", "resolves_public_over_internal"),
  Harness("eu_ai_act_logging", "accepts_incomplete_event"),
  Harness("failopen_authz", "fails_open_on_error"),
  Harness("graphql_depth_limit", "executes_deeply_nested"),
  Harness("hallucinated_dependency", "pin_resolves"),
  Harness("hallucinated_symbol", "attribute_exists"),
  Harness("jwt_alg_confusion", "StrictVerifier.verify"),
  Harness("jwt_audience_binding", "accepts_wrong_audience"),
  Harness("mutation_quality", "mutmut_available"),
  Harness("oauth_pkce", "accepts_intercepted_code"),
  Harness("open_redirect", "redirects_offsite"),
  Harness("openapi_fuzz", "conforms_to_contract"),
  Harness("password_hashing", "identical_hash_for_same_password"),
  Harness("prompt_cache_prefix", "prefix_is_stable"),
  Harness("property_roundtrip", "rle_decode"),
  Harness("provenance_attestation", "accepts_unbound_artifact"),
  Harness("rbac_authz_differential", "reference_allow"),
  Harness("reset_token_design", "token_forgeable"),
  Harness("retry_resilience", "retries_permanent"),
  Harness("schema_validation", "mishandles_a_variant"),
  Harness("secret_scanning", "misses_real_secrets"),
  Harness("security_headers", "missing_security_headers"),
  Harness("sql_orm", "allows_duplicate"),
  Harness("structured_output_contract", "executes_malformed_output"),
  Harness("subresource_integrity", "loads_tampered_resource"),
  Harness("tamper_evident_log", "tampering_undetected"),
  Harness("temporal_logic", "is_valid_oracle"),
  Harness("tls_verification", "accepts_invalid_cert"),
  Harness("tool_arg_validation", "accepts_malicious_args"),
  Harness("totp_validation", "accepts_wrong_code"),
  Harness("unicode_account_confusion", "confusable_impersonation"),
  Harness("webhook_signature", "accepts_forged_webhook"),
  Harness("agent_capability_allowlist", "CapabilityBroker.authorize"),
  Harness("agent_circuit_breaker", "cascades_on_failure"),
  Harness("agent_goal_integrity", "PlanConformantAgent.execute_step"),
  Harness("agent_human_confirmation", "executes_without_stepup"),
  Harness("agent_join_replay", "admits_replayed_token"),
  Harness("agent_memory_trust", "ContextIsolatingAgent.decide"),
  Harness("agent_message_auth", "accepts_forged_message"),
  Harness("agent_tool_manifest", "accepts_tampered_manifest"),
  Harness("agentic_pbt", "ensure_prefix"),
  Harness("geval_rubric", "output_satisfies_rubric"),
  Harness("judge_reliability", "oracle_judge"),
  Harness("llm_eval", "answer_is_faithful"),
  Harness("metamorphic_stability", "unstable_under_perturbation"),
  Harness("rag_faithfulness", "retrieval_is_precise") >>

SelfTest(name, lies) ==
  CASE name = "api_bfla" -> api_bfla(lies)
    [] name = "api_object_property_authz" -> api_object_property_authz(lies)
    [] name = "async_http_contract" -> async_http_contract(lies)
    [] name = "cookie_security" -> cookie_security(lies)
    [] name = "cors_misconfig" -> cors_misconfig(lies)
    [] name = "crypto_agility" -> crypto_agility(lies)
    [] name = "crypto_correctness" -> crypto_correctness(lies)
    [] name = "csrf_token" -> csrf_token(lies)
    [] name = "dependency_confusion" -> dependency_confusion(lies)
    [] name = "eu_ai_act_logging" -> eu_ai_act_logging(lies)
    [] name = "failopen_authz" -> failopen_authz(lies)
    [] name = "graphql_depth_limit" -> graphql_depth_limit(lies)
    [] name = "hallucinated_dependency" -> hallucinated_dependency(lies)
    [] name = "hallucinated_symbol" -> hallucinated_symbol(lies)
    [] name = "jwt_alg_confusion" -> jwt_alg_confusion(lies)
    [] name = "jwt_audience_binding" -> jwt_audience_binding(lies)
    [] name = "mutation_quality" -> mutation_quality(lies)
    [] name = "oauth_pkce" -> oauth_pkce(lies)
    [] name = "open_redirect" -> open_redirect(lies)
    [] name = "openapi_fuzz" -> openapi_fuzz(lies)
    [] name = "password_hashing" -> password_hashing(lies)
    [] name = "prompt_cache_prefix" -> prompt_cache_prefix(lies)
    [] name = "property_roundtrip" -> property_roundtrip(lies)
    [] name = "provenance_attestation" -> provenance_attestation(lies)
    [] name = "rbac_authz_differential" -> rbac_authz_differential(lies)
    [] name = "reset_token_design" -> reset_token_design(lies)
    [] name = "retry_resilience" -> retry_resilience(lies)
    [] name = "schema_validation" -> schema_validation(lies)
    [] name = "secret_scanning" -> secret_scanning(lies)
    [] name = "security_headers" -> security_headers(lies)
    [] name = "sql_orm" -> sql_orm(lies)
    [] name = "structured_output_contract" -> structured_output_contract(lies)
    [] name = "subresource_integrity" -> subresource_integrity(lies)
    [] name = "tamper_evident_log" -> tamper_evident_log(lies)
    [] name = "temporal_logic" -> temporal_logic(lies)
    [] name = "tls_verification" -> tls_verification(lies)
    [] name = "tool_arg_validation" -> tool_arg_validation(lies)
    [] name = "totp_validation" -> totp_validation(lies)
    [] name = "unicode_account_confusion" -> unicode_account_confusion(lies)
    [] name = "webhook_signature" -> webhook_signature(lies)
    [] name = "agent_capability_allowlist" -> agent_capability_allowlist(lies)
    [] name = "agent_circuit_breaker" -> agent_circuit_breaker(lies)
    [] name = "agent_goal_integrity" -> agent_goal_integrity(lies)
    [] name = "agent_human_confirmation" -> agent_human_confirmation(lies)
    [] name = "agent_join_replay" -> agent_join_replay(lies)
    [] name = "agent_memory_trust" -> agent_memory_trust(lies)
    [] name = "agent_message_auth" -> agent_message_auth(lies)
    [] name = "agent_tool_manifest" -> agent_tool_manifest(lies)
    [] name = "agentic_pbt" -> agentic_pbt(lies)
    [] name = "geval_rubric" -> geval_rubric(lies)
    [] name = "judge_reliability" -> judge_reliability(lies)
    [] name = "llm_eval" -> llm_eval(lies)
    [] name = "metamorphic_stability" -> metamorphic_stability(lies)
    [] name = "rag_faithfulness" -> rag_faithfulness(lies)

Result(name, lies) == Main(TRUE, SelfTest(name, lies))

LaneNext ==
  LET code == Result(Catalogue[lane].name, broken) IN
  /\ lane \in DOMAIN Catalogue /\ exit = "running"
  /\ IF code # 0 THEN exit' = "1" /\ UNCHANGED lane
     ELSE /\ lane' = IF lane < Len(Catalogue) THEN lane + 1 ELSE lane
          /\ exit' = IF lane < Len(Catalogue) THEN exit ELSE "0"
  /\ UNCHANGED broken

LaneUnused == lane = 0 /\ broken = {} /\ exit = "running"
Broken == {{}} \cup {{Catalogue[i].target} : i \in DOMAIN Catalogue}
LaneInit == lane = 1 /\ exit = "running" /\ broken \in Broken

LaneSpec == LaneInit /\ [][LaneNext]_laneVars
------------------------------------------------------------------------------
(* Properties *)

\* "The harness must catch the planted bug, else it is vacuous"
\* (harness_template.py:54), and its self-test fails when the oracle it names is
\* given a wrong value (vacuity_gate.py:6-8):
\* make selftest is red when any one of these oracles answers wrong, at that harness, and
\* green when none does.  The only silent green is the one the kit admits to.
KitHasTeeth ==
  /\ exit = "0" => broken \subseteq {"mutmut_available"}
  /\ exit = "1" => Catalogue[lane].target \in broken
==============================================================================

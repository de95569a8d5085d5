---------------------------- MODULE AccessPolicies ----------------------------
(***************************************************************************)
(* The harnesses whose subject decides who may do what: functions, object  *)
(* properties, roles, capabilities, plans, memory, origins, redirects, tool *)
(* arguments and account names; their planted bugs, their probes and their *)
(* self-tests.                                                             *)
(*                                                                         *)
(* A Hypothesis search over a finite strategy smaller than its max_examples *)
(* tries every member, so such a probe is a quantifier.  Names that are not *)
(* compared are left out; a host or an account is what it is written as and *)
(* what it canonicalizes to.                                               *)
(***************************************************************************)
EXTENDS SelfTests

------------------------------------------------------------------------------
(* api_bfla *)

ADMIN_FUNCTIONS == {"delete_user", "change_role", "view_audit_log"}
USER_FUNCTIONS == {"get_profile", "update_profile"}
FunctionAuthz(role, f) == IF f \in ADMIN_FUNCTIONS THEN role = "admin" ELSE f \in USER_FUNCTIONS
AuthOnlyAuthz(role, f) == f \in ADMIN_FUNCTIONS \cup USER_FUNCTIONS
api_bfla(lies) ==
  LET Invokes(class, role, f) ==
        IF Oracle(class) THEN Says("FunctionAuthz.can_invoke", lies, FunctionAuthz(role, f))
        ELSE AuthOnlyAuthz(role, f)
      Escalates(class) == \E f \in ADMIN_FUNCTIONS : Invokes(class, "user", f)
  IN  Checks(Invokes("oracle", "admin", "delete_user"), Escalates("oracle"), Escalates("buggy"))

------------------------------------------------------------------------------
(* api_object_property_authz: a record is the set of its fields. *)

DbRecord  == {"id", "name", "password_hash", "ssn", "is_admin"}
Sensitive == {"password_hash", "ssn", "is_admin"}
PublicUser == {"id", "name"}
Serialize(class, record) == IF Oracle(class) THEN record \cap PublicUser ELSE record
api_object_property_authz(lies) ==
  LET Leaks(class) == Says("leaks_sensitive_fields", lies, Serialize(class, DbRecord) \cap Sensitive # {})
  IN  Checks(PublicUser \subseteq Serialize("oracle", DbRecord), Leaks("oracle"), Leaks("buggy"))

------------------------------------------------------------------------------
(* rbac_authz_differential: a policy maps some roles to their permissions.
   The search draws at most 300 cases; it may draw few. *)

RESOURCES == {"doc", "billing", "config"}
Verbs   == {"read", "write", "delete"}
reference_allow(policy, roles, resource, action) ==
  \E r \in roles \cap DOMAIN policy : <<resource, action>> \in policy[r]
oracle_allow(policy, roles, resource, action) ==
  \E r \in roles : r \in DOMAIN policy /\ \E granted \in policy[r] : granted = <<resource, action>>
buggy_allow(policy, roles, resource, action) ==
  \E r \in roles : r \in DOMAIN policy /\ \E granted \in policy[r] : granted[1] = resource
Allows(class, c) ==
  IF Oracle(class) THEN oracle_allow(c.policy, c.roles, c.resource, c.action)
  ELSE buggy_allow(c.policy, c.roles, c.resource, c.action)
Diverges(class, lies, draws) ==
  \E c \in draws :
    Allows(class, c) # Says("reference_allow", lies, reference_allow(c.policy, c.roles, c.resource, c.action))
RbacCase(grants, roles, action) ==
  [policy |-> [r \in {"viewer"} |-> grants], roles |-> roles, resource |-> "doc", action |-> action]
RbacCases == {RbacCase(g, r, a) : g \in SUBSET {<<"doc", "read">>, <<"doc", "write">>},
                                  r \in {{}, {"viewer"}, {"editor"}}, a \in Verbs}
rbac_authz_differential(lies) ==
  <<~Diverges("oracle", lies, RbacCases), Diverges("buggy", lies, RbacCases)>>

------------------------------------------------------------------------------
(* failopen_authz: the policy backend answers or times out. *)

Authorized(class, backend) ==
  IF backend = "down" THEN ~Oracle(class) ELSE backend = "allow"
failopen_authz(lies) ==
  LET Opens(class) == Says("fails_open_on_error", lies, Authorized(class, "down"))
  IN  Checks(Authorized("oracle", "allow"), Opens("oracle"), Opens("buggy"))

------------------------------------------------------------------------------
(* agent_capability_allowlist *)

GRANT == [read_file |-> {"reports/q1.txt", "reports/q2.txt"}, search |-> {"public-index"}]
CapabilityBroker(grant, tool, obj) == tool \in DOMAIN grant /\ obj \in grant[tool]
RbacOnlyBroker(grant, tool) == tool \in DOMAIN grant
agent_capability_allowlist(lies) ==
  LET Objects == (UNION {GRANT[t] : t \in DOMAIN GRANT}) \cup {"anything else"}
      Authorizes(class, tool, obj) ==
        IF Oracle(class) THEN Says("CapabilityBroker.authorize", lies, CapabilityBroker(GRANT, tool, obj))
        ELSE RbacOnlyBroker(GRANT, tool)
      Bypassed(class) == \E t \in DOMAIN GRANT : \E o \in Objects \ GRANT[t] : Authorizes(class, t, o)
  IN  Checks(Authorizes("oracle", "read_file", "reports/q1.txt"), Bypassed("oracle"), Bypassed("buggy"))

------------------------------------------------------------------------------
(* agent_goal_integrity: a neutered execute_step returns another text, or still
   raises.  agent_memory_trust: a neutered decide returns another action. *)

APPROVED_PLAN == {"fetch_data", "summarize", "send_report"}
Injected == {"delete_database", "wire_funds", "exfiltrate_secrets", "disable_logging"}
RunsStep(class, step) == Oracle(class) => step \in APPROVED_PLAN
agent_goal_integrity(lies) ==
  LET Unplanned(class) == \E s \in Injected : RunsStep(class, s)
      RunsPlanned == RunsStep("oracle", "summarize") /\ "PlanConformantAgent.execute_step" \notin lies
  IN  Checks(RunsPlanned, Unplanned("oracle"), Unplanned("buggy"))

Memory == {"benign", "poisoned"}
Decide(class, plan, memory) == IF Oracle(class) \/ memory = "benign" THEN plan ELSE "exfiltrate"
agent_memory_trust(lies) ==
  LET Decides(class, memory) ==
        /\ Decide(class, "summarize", memory) = "summarize"
        /\ ~(Oracle(class) /\ "ContextIsolatingAgent.decide" \in lies)
      Influenced(class) == \E m \in Memory : ~Decides(class, m)
  IN  Checks(Decides("oracle", "benign"), Influenced("oracle"), Influenced("buggy"))

------------------------------------------------------------------------------
(* cors_misconfig and open_redirect compare canonical hosts.  A target is a
   path on this site, or names a host; "" is no host. *)

Host(written, canon) == [written |-> written, canon |-> canon]
AppHost  == Host("app.example", "app.example")
EvilHost == Host("evil.example", "evil.example")
Allowed == {"app.example"}
Reflects(class, host) == Oracle(class) => host.canon \in Allowed
cors_misconfig(lies) ==
  LET Untrusted(class) == Says("reflects_untrusted_origin", lies, Reflects(class, EvilHost))
  IN  Checks(Reflects("oracle", AppHost), Untrusted("oracle"), Untrusted("buggy"))

Target(kind, host) == [kind |-> kind, host |-> host]
Root == Target("path", Host("", ""))
Resolve(class, target) ==
  IF Oracle(class) /\ ~(target.kind = "path" \/ (target.kind = "absolute" /\ target.host.canon \in Allowed))
  THEN Root ELSE target
open_redirect(lies) ==
  LET Path == Target("path", Host("", ""))
      Result(class) == Resolve(class, Target("absolute", EvilHost))
      Offsite(class) == Says("redirects_offsite", lies,
                             Result(class).kind = "absolute" /\ Result(class).host.canon \notin Allowed)
  IN  Checks(Resolve("oracle", Path) = Path, Offsite("oracle"), Offsite("buggy"))

------------------------------------------------------------------------------
(* tool_arg_validation: the fields beyond the contract are counted. *)

ValidArgs(raw) ==
  /\ raw.extra = 0
  /\ raw.amount > 0 /\ raw.amount <= 1000000
  /\ raw.wellFormedAccount
Dispatches(class, raw) == Oracle(class) => ValidArgs(raw)
tool_arg_validation(lies) ==
  LET Hostile(class) == Says("accepts_malicious_args", lies,
                             Dispatches(class, [amount |-> -999, wellFormedAccount |-> FALSE, extra |-> 1]))
  IN  Checks(Dispatches("oracle", [amount |-> 100, wellFormedAccount |-> TRUE, extra |-> 0]),
             Hostile("oracle"), Hostile("buggy"))

------------------------------------------------------------------------------
(* unicode_account_confusion: a registry remembers the keys it has given. *)

Key(class, email) == IF Oracle(class) THEN email.canon ELSE email.written
Free(class, taken, email) == Key(class, email) \notin taken
Registers(class, first, second) == Free(class, {Key(class, first)}, second)
unicode_account_confusion(lies) ==
  LET Confusable(class) == Says("confusable_impersonation", lies,
                                Registers(class, Host("admin", "admin"), Host("ad(m)in", "admin")))
  IN  Checks(Registers("oracle", Host("alice", "alice"), Host("bob", "bob")),
             Confusable("oracle"), Confusable("buggy"))
==============================================================================

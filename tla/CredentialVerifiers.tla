------------------------- MODULE CredentialVerifiers -------------------------
(***************************************************************************)
(* The decisions of the harnesses whose subject is a credential: join      *)
(* token, reset token, TOTP code, authorization code, human step-up,       *)
(* message tag, tool manifest, CSRF token and webhook signature; their     *)
(* planted bugs, their probes and their self-tests.                        *)
(*                                                                         *)
(* Cryptography is symbolic: a tag is <<who made it, what it is over>>, and *)
(* only the holder of the secret makes a "key" tag.  "public" tags can be  *)
(* computed by anybody (md5, sha256).  A text that a harness joins with "|" *)
(* is the sequence of its pieces.                                          *)
(***************************************************************************)
EXTENDS SelfTests

CONSTANTS
  Code(_),   \* the six-digit TOTP code of a step; two steps may share one
  Period,    \* seconds in a TOTP step
  Ttl,       \* lifetime of a reset token
  Window     \* how old or early a webhook may be

ASSUME VerifierAssumption == Period \in Nat \ {0} /\ Ttl \in Nat /\ Window \in Nat

\* A credential says whose it is and until, or from, when it is good.
Text(id, who, t) == [id |-> id, who |-> who, t |-> t, purpose |-> "pwreset"]

\* What a tag is over: action|nonce for a step-up, the session alone for a CSRF
\* token, the whole text otherwise.
Wire(k, x) ==
  CASE k = "stepup" -> x.who \o x.id
    [] k = "csrf"   -> x.who
    [] OTHER        -> x

Sealed(k, x)  == [text |-> x, tag |-> <<"key", Wire(k, x)>>]
Forged(k, x)  == [text |-> x, tag |-> <<"public", Wire(k, x)>>]
Genuine(k, c) == c.tag = <<"key", Wire(k, c.text)>>

------------------------------------------------------------------------------
(* Verifiers with a memory: whether a credential is accepted.  What they then
   remember is in CredentialHarnesses. *)

\* A mutant: not good any more at exp itself.
AdmissionEndsEarly(seen, now, c) ==
  Genuine("join", c) /\ now < c.text.t /\ c.text.id \notin seen

ReplayGuardedAdmission(seen, now, c) ==
  Genuine("join", c) /\ now <= c.text.t /\ c.text.id \notin seen

NoReplayAdmission(c) == Genuine("join", c)

\* The payload splits into four fields only if the address has no "|" in it.
SignedTokenDesign(used, now, email, c) ==
  /\ Genuine("reset", c)
  /\ Len(c.text.who) = 1
  /\ c.text.who = email /\ c.text.purpose = "pwreset" /\ now <= c.text.t
  /\ c.text.id \notin used

\* md5(email:counter); the first thousand counters are tried.
PredictableTokenDesign(email, c) ==
  /\ c = Forged("reset", c.text) /\ c.text.who = email
  /\ c.text.id \in {<<n>> : n \in 1..1000}

Step(now) == now \div Period
TotpVerifier(used, code, now) == <<Step(now)>> \notin used /\ code = Code(Step(now))
StaticOtpVerifier(code) == TRUE

S256(verifier) == <<"s256", verifier>>
PkceAuthServer(codes, code, verifier) ==
  code \in DOMAIN codes /\ codes[code] = S256(verifier)
NoPkceAuthServer(codes, code) == code \in DOMAIN codes

(* Verifiers without one. *)

StepUpExecutor(c)           == Genuine("stepup", c)
InBandConsentExecutor(c)    == TRUE
AuthChannel(c)              == Genuine("message", c)
PlainChannel(c)             == TRUE
SignedToolLoader(c)         == Genuine("manifest", c)
UnverifiedToolLoader(c)     == TRUE
SynchronizerCsrf(session, c) == c.tag = <<"key", session>>
StaticToken                 == Forged("csrf", Text(<<1>>, <<1>>, 0))
StaticCsrf(session, c)      == c = StaticToken
SignedWebhookVerifier(c, now) ==
  /\ now - c.text.t <= Window /\ c.text.t - now <= Window
  /\ Genuine("webhook", c)
UnverifiedWebhook(c)        == TRUE

------------------------------------------------------------------------------
(* Probes and self-tests: a fresh verifier of either class, one legitimate use
   and one that is not. *)

N1 == <<1>>
Me == <<1>>
Them == <<2>>
T0 == 1000
NoTag(k) == [text |-> Text(N1, Me, T0), tag |-> <<"none", Wire(k, Text(N1, Me, T0))>>]
\* A genuine tag moved to another text.
Swapped(k) == [Sealed(k, Text(N1, Me, T0)) EXCEPT !.text = Text(N1, Them, T0)]

Admits(class, seen, c) ==
  IF Oracle(class) THEN ReplayGuardedAdmission(seen, T0, c) ELSE NoReplayAdmission(c)
JoinToken == Sealed("join", Text(N1, Me, T0 + 60))
admits_valid_once(class) == Admits(class, {}, JoinToken)
admits_replayed_token(class) == Admits(class, {}, JoinToken) /\ Admits(class, {N1}, JoinToken)
agent_join_replay(lies) ==
  LET Replayed(class) == Says("admits_replayed_token", lies, admits_replayed_token(class))
  IN  Checks(admits_valid_once("oracle"), Replayed("oracle"), Replayed("buggy"))

ResetVerifies(class, c) ==
  IF Oracle(class) THEN SignedTokenDesign({}, T0, Me, c) ELSE PredictableTokenDesign(Me, c)
ResetIssued(class) ==
  IF Oracle(class) THEN Sealed("reset", Text(N1, Me, T0 + Ttl)) ELSE Forged("reset", Text(N1, Me, T0))
legit_token_verifies(class) == ResetVerifies(class, ResetIssued(class))
token_forgeable(class) == ResetVerifies(class, Forged("reset", Text(N1, Me, T0 + Ttl)))
reset_token_design(lies) ==
  LET Forgeable(class) == Says("token_forgeable", lies, token_forgeable(class))
  IN  Checks(legit_token_verifies("oracle"), Forgeable("oracle"), Forgeable("buggy"))

TotpVerifies(class, code) == IF Oracle(class) THEN TotpVerifier({}, code, T0) ELSE StaticOtpVerifier(code)
TotpCurrent(class) == IF Oracle(class) THEN Code(Step(T0)) ELSE 0
accepts_correct_code(class) == TotpVerifies(class, TotpCurrent(class))
accepts_wrong_code(class) == TotpVerifies(class, IF TotpCurrent(class) # 0 THEN 0 ELSE 111111)
totp_validation(lies) ==
  LET Wrong(class) == Says("accepts_wrong_code", lies, accepts_wrong_code(class))
  IN  Checks(accepts_correct_code("oracle"), Wrong("oracle"), Wrong("buggy"))

Exchanges(class, verifier) ==
  LET codes == [n \in {N1} |-> S256(Me)] IN
  IF Oracle(class) THEN PkceAuthServer(codes, N1, verifier) ELSE NoPkceAuthServer(codes, N1)
exchanges_with_correct_verifier(class) == Exchanges(class, Me)
accepts_intercepted_code(class) == Exchanges(class, Them)
oauth_pkce(lies) ==
  LET Intercepted(class) == Says("accepts_intercepted_code", lies, accepts_intercepted_code(class))
  IN  Checks(exchanges_with_correct_verifier("oracle"), Intercepted("oracle"), Intercepted("buggy"))

Executes(class, c) == IF Oracle(class) THEN StepUpExecutor(c) ELSE InBandConsentExecutor(c)
executes_with_valid_stepup(class) == Executes(class, Sealed("stepup", Text(N1, Me, T0)))
executes_without_stepup(class) == Executes(class, NoTag("stepup"))
agent_human_confirmation(lies) ==
  LET Without(class) == Says("executes_without_stepup", lies, executes_without_stepup(class))
  IN  Checks(executes_with_valid_stepup("oracle"), Without("oracle"), Without("buggy"))

Receives(class, c) == IF Oracle(class) THEN AuthChannel(c) ELSE PlainChannel(c)
roundtrips(class) == Receives(class, Sealed("message", Text(N1, Me, T0)))
accepts_forged_message(class) == Receives(class, Swapped("message"))
agent_message_auth(lies) ==
  LET Accepts(class) == Says("accepts_forged_message", lies, accepts_forged_message(class))
  IN  Checks(roundtrips("oracle"), Accepts("oracle"), Accepts("buggy"))

Loads(class, c) == IF Oracle(class) THEN SignedToolLoader(c) ELSE UnverifiedToolLoader(c)
loads_valid_manifest(class) == Loads(class, Sealed("manifest", Text(N1, Me, T0)))
accepts_tampered_manifest(class) == Loads(class, Swapped("manifest"))
agent_tool_manifest(lies) ==
  LET Accepts(class) == Says("accepts_tampered_manifest", lies, accepts_tampered_manifest(class))
  IN  Checks(loads_valid_manifest("oracle"), Accepts("oracle"), Accepts("buggy"))

CsrfValidates(class, session, c) == IF Oracle(class) THEN SynchronizerCsrf(session, c) ELSE StaticCsrf(session, c)
CsrfIssued(class, session) == IF Oracle(class) THEN Sealed("csrf", Text(N1, session, T0)) ELSE StaticToken
legit_token_validates(class) == CsrfValidates(class, Me, CsrfIssued(class, Me))
accepts_cross_session_token(class) == CsrfValidates(class, Me, CsrfIssued(class, Them))
csrf_token(lies) ==
  LET Cross(class) == Says("accepts_cross_session_token", lies, accepts_cross_session_token(class))
  IN  Checks(legit_token_validates("oracle"), Cross("oracle"), Cross("buggy"))

ActsOn(class, c) == IF Oracle(class) THEN SignedWebhookVerifier(c, T0) ELSE UnverifiedWebhook(c)
verifies_genuine_webhook(class) == ActsOn(class, Sealed("webhook", Text(N1, Me, T0)))
accepts_forged_webhook(class) == ActsOn(class, NoTag("webhook"))
webhook_signature(lies) ==
  LET Accepts(class) == Says("accepts_forged_webhook", lies, accepts_forged_webhook(class))
  IN  Checks(verifies_genuine_webhook("oracle"), Accepts("oracle"), Accepts("buggy"))
==============================================================================

------------------------- MODULE CredentialHarnesses -------------------------
(***************************************************************************)
(* One verifier of one credential harness under any sequence of calls: the *)
(* holder of the secret makes credentials, anybody presents anything, a    *)
(* credential in hand may be altered, kept, and presented again, and time  *)
(* does not only move forward.                                             *)
(*                                                                         *)
(* The decisions are CredentialVerifiers'; here is what a verifier         *)
(* remembers, and the order of calls.  A verifier is one object: a call    *)
(* runs to its end before the next, and a new object remembers nothing.    *)
(***************************************************************************)
EXTENDS CredentialVerifiers

CONSTANTS
  Ids,        \* nonces, codes, bodies: sequences of pieces, of one or more
  Whos,       \* owners, sessions, verifiers, actions: sequences of pieces
  Times,      \* what clocks may show and texts may carry
  MaxHeld,    \* bound: credentials made
  MaxGranted  \* bound: authorizations of one code

ASSUME CredentialAssumption ==
  /\ Ids \subseteq Seq(Nat) \ {<<>>} /\ Whos \subseteq Seq(Nat) \ {<<>>}
  /\ Times \subseteq Nat
  /\ MaxHeld \in Nat /\ MaxGranted \in Nat

VARIABLES
  kind,      \* the harness whose verifier this is, or "none"
  clock,     \* time.time(); the now a join verifier was built with
  seen,      \* _seen, _used: the nonces, or steps <<s>>, that are used up
  codes,     \* _codes: authorization code -> challenge
  held,      \* the credentials made so far, in anybody's hands
  granted,   \* history: how often each grant was given ...
  uses,      \* ... and taken up
  last       \* history: the last answer, whether the call was fit, and whether its
             \* text shows where its parts end

vars == <<kind, clock, seen, codes, held, granted, uses, last>>

Kinds == {"join", "reset", "totp", "pkce", "stepup", "message", "manifest", "csrf", "webhook"}
Steps == {Step(t) : t \in Times}

\* What is used up: a nonce, a code or a step.
Grants == Ids \cup {<<s>> : s \in Steps}
Outstanding(g) == uses[g] < granted[g]

Purposes == {"pwreset", "other"}
Texts == [id : Ids, who : Whos, t : Times, purpose : Purposes]
Plain(x) == x.purpose = "pwreset"

\* Whatever can be presented: any text under the tag of a credential that was
\* made, or under one anybody can compute.
Presentable(k) ==
  {[text |-> x, tag |-> h.tag] : x \in Texts, h \in held} \cup {Forged(k, x) : x \in Texts}

------------------------------------------------------------------------------
(* Fitness: what each harness promises to accept, said in terms of what was
   made, meant and taken up, not of tags' bytes or of what the verifier remembers. *)

\* What the holder meant: of a step-up, this action with this nonce.
Means(x) == IF kind = "stepup" THEN [action |-> x.who, nonce |-> x.id] ELSE x
MadeBySomeHolder(c) == \E h \in held : h.tag = c.tag /\ Means(h.text) = Means(c.text)
FitJoin(c)  == MadeBySomeHolder(c) /\ clock <= c.text.t /\ Outstanding(c.text.id)
FitReset(email, c) ==
  /\ MadeBySomeHolder(c) /\ Outstanding(c.text.id)
  /\ c.text.who = email
  /\ c.text.purpose = "pwreset" /\ clock <= c.text.t
FitTotp(code, now) == code = Code(Step(now)) /\ Outstanding(<<Step(now)>>)
FitExchange(code, verifier) ==
  Outstanding(code) /\ \E h \in held : h.text.id = code /\ h.text.who = verifier
FitCsrf(session, c) == \E h \in held : h.text.who = session /\ h.tag = c.tag
FitWebhook(c, now) == MadeBySomeHolder(c) /\ now \in (c.text.t - Window)..(c.text.t + Window)

------------------------------------------------------------------------------
(* The holder of the secret *)

Make(k, x) ==
  /\ kind = k
  /\ Cardinality(held) < MaxHeld
  /\ held' = held \cup {Sealed(k, x)}

Renews(g) == granted' = [granted EXCEPT ![g] = IF Outstanding(g) THEN @ ELSE @ + 1]

\* _make_token: one signing key; a nonce is granted once, however many tokens
\* carry it.
MakeToken(x) ==
  /\ Plain(x) /\ Make("join", x)
  /\ granted' = [granted EXCEPT ![x.id] = 1]
  /\ UNCHANGED <<kind, clock, seen, codes, uses, last>>

\* issue: a new nonce each time.  Another purpose signed with the same secret is
\* no grant of a reset.
Issue(x) ==
  /\ granted[x.id] = 0 /\ \A h \in held : h.text.id # x.id
  /\ x.t = clock + Ttl /\ Make("reset", x)
  /\ granted' = [granted EXCEPT ![x.id] = IF Plain(x) THEN 1 ELSE 0]
  /\ UNCHANGED <<kind, clock, seen, codes, uses, last>>

\* authorize: the code is bound to the challenge of its latest authorization.
Authorize(x) ==
  /\ kind = "pkce" /\ Plain(x) /\ granted[x.id] < MaxGranted
  /\ codes' = [n \in DOMAIN codes \cup {x.id} |-> IF n = x.id THEN S256(x.who) ELSE codes[n]]
  /\ held' = {h \in held : h.text.id # x.id} \cup {Sealed("pkce", x)}
  /\ Renews(x.id)
  /\ UNCHANGED <<kind, clock, seen, uses, last>>

\* A step-up, a message, a manifest, a session token or a webhook is made.
MakeOther(x) ==
  /\ kind \in {"stepup", "message", "manifest", "csrf", "webhook"} /\ Plain(x)
  /\ Make(kind, x)
  /\ UNCHANGED <<kind, clock, seen, codes, granted, uses, last>>

\* time.time() may be set forward or back; the join verifier's now is fixed.
SetClock ==
  /\ kind = "reset"
  /\ clock' \in Times \ {clock}
  /\ UNCHANGED <<kind, seen, codes, held, granted, uses, last>>

------------------------------------------------------------------------------
(* The verifier *)

Answer(ok, fit, clear) == last' = [ok |-> ok, fit |-> fit, clear |-> clear]
OnePiece(parts) == Len(parts) = 1
Uses(g, ok) == uses' = IF ok THEN [uses EXCEPT ![g] = @ + 1] ELSE uses
\* A mutant: an empty nonce is remembered.
RemembersNothing(g, ok) == seen' = IF ok THEN seen \cup {<<>>} ELSE seen
Remembers(g, ok) == seen' = IF ok THEN seen \cup {g} ELSE seen

Admit(c) ==
  LET ok == ReplayGuardedAdmission(seen, clock, c) IN
  /\ kind = "join"
  /\ Answer(ok, FitJoin(c), TRUE)
  /\ Remembers(c.text.id, ok) /\ Uses(c.text.id, ok)
  /\ UNCHANGED <<kind, clock, codes, held, granted>>

VerifyReset(email, c) ==
  LET ok == SignedTokenDesign(seen, clock, email, c) IN
  /\ kind = "reset"
  /\ Answer(ok, FitReset(email, c), OnePiece(email))
  /\ Remembers(c.text.id, ok) /\ Uses(c.text.id, ok)
  /\ UNCHANGED <<kind, clock, codes, held, granted>>

\* verify(code, now): the caller brings the time.
VerifyTotp(code, now) ==
  LET ok == TotpVerifier(seen, code, now) IN
  /\ kind = "totp"
  /\ Answer(ok, FitTotp(code, now), TRUE)
  /\ Remembers(<<Step(now)>>, ok) /\ Uses(<<Step(now)>>, ok)
  /\ UNCHANGED <<kind, clock, codes, held, granted>>

\* A mutant: the code is left in place.
ExchangeKeepsCode(code, verifier) ==
  LET ok == PkceAuthServer(codes, code, verifier) IN
  /\ kind = "pkce"
  /\ Answer(ok, FitExchange(code, verifier), TRUE) /\ Uses(code, ok)
  /\ UNCHANGED <<kind, clock, seen, codes, held, granted>>

\* exchange: a wrong verifier leaves the code as it is.
Exchange(code, verifier) ==
  LET ok == PkceAuthServer(codes, code, verifier) IN
  /\ kind = "pkce"
  /\ Answer(ok, FitExchange(code, verifier), TRUE)
  /\ codes' = IF ok THEN [n \in DOMAIN codes \ {code} |-> codes[n]] ELSE codes
  /\ Uses(code, ok)
  /\ UNCHANGED <<kind, clock, seen, held, granted>>

\* The verifiers that remember nothing.
Stateless(ok, fit, clear) ==
  /\ Answer(ok, fit, clear)
  /\ UNCHANGED <<kind, clock, seen, codes, held, granted, uses>>

Execute(c)  == kind = "stepup" /\
  Stateless(StepUpExecutor(c), MadeBySomeHolder(c), OnePiece(c.text.who) /\ OnePiece(c.text.id))
Receive(c)  == kind = "message"  /\ Stateless(AuthChannel(c), MadeBySomeHolder(c), TRUE)
Load(c)     == kind = "manifest" /\ Stateless(SignedToolLoader(c), MadeBySomeHolder(c), TRUE)
Validate(session, c) == kind = "csrf" /\ Stateless(SynchronizerCsrf(session, c), FitCsrf(session, c), TRUE)
VerifyWebhook(c, now) == kind = "webhook" /\ Stateless(SignedWebhookVerifier(c, now), FitWebhook(c, now), TRUE)

Init ==
  /\ kind \in Kinds /\ clock \in Times
  /\ seen = {} /\ codes = [n \in {} |-> S256(<<>>)] /\ held = {}
  /\ granted = [g \in Grants |-> IF kind = "totp" /\ g \in {<<s>> : s \in Steps} THEN 1 ELSE 0]
  /\ uses = [g \in Grants |-> 0]
  /\ last = [ok |-> FALSE, fit |-> FALSE, clear |-> TRUE]

Holder == SetClock \/ \E x \in Texts : MakeToken(x) \/ Issue(x) \/ Authorize(x) \/ MakeOther(x)

Verifier ==
  \/ \E c \in Presentable(kind) :
       \/ Admit(c) \/ Execute(c) \/ Receive(c) \/ Load(c)
       \/ \E who \in Whos : VerifyReset(who, c) \/ Validate(who, c)
       \/ \E now \in Times : VerifyWebhook(c, now)
  \/ \E s \in Steps, now \in Times : VerifyTotp(Code(s), now)
  \/ \E code \in Ids, verifier \in Whos : Exchange(code, verifier)

Next == Holder \/ Verifier

Spec == Init /\ [][Next]_vars
------------------------------------------------------------------------------
(* Properties *)

TypeOK ==
  /\ kind \in Kinds \cup {"none"} /\ clock \in Times
  /\ seen \subseteq Grants
  /\ DOMAIN codes \subseteq Ids
  /\ \A h \in held : h.text \in Texts
  /\ granted \in [Grants -> Nat] /\ uses \in [Grants -> Nat]
  /\ last \in [ok : BOOLEAN, fit : BOOLEAN, clear : BOOLEAN]

\* Each verifier accepts exactly what is fit: nothing forged, altered, out of
\* its time, meant for somebody else or used up, and, the harder half, whatever
\* is none of these: no attempt that is refused, and no use of another
\* credential, spoils one that is still good.  Where a text does not show where its
\* parts end, because a part has the separator in it, less holds: a step-up is taken
\* for any action and nonce that join to what was approved
\* (test_agent_human_confirmation_test_harness.py:104-116), and a good reset token
\* is refused; never the other way about, and no other verifier errs.
AcceptsExactlyTheFit ==
  /\ last.clear => last.ok = last.fit
  /\ last.ok => last.fit \/ kind = "stepup"
  /\ last.fit => last.ok \/ kind = "reset"

\* A nonce, a step or a code is accepted no more often than it was granted,
\* whatever clock and order (agent_join_replay:19-21, reset_token_design:21-23,
\* totp_validation:11-13, oauth_pkce:88).
OneTime == INSTANCE SingleUse
OnceOnly == OneTime!Spec
==============================================================================

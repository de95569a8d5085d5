---------------------- MODULE CredentialHarnessesProofs ----------------------
(***************************************************************************)
(* Theorems about CredentialHarnesses, for any identifiers, owners, clocks *)
(* and texts, any number of credentials made, and any six-digit code of a  *)
(* step: each verifier accepts exactly what is fit, where a text shows     *)
(* where its parts end, and the use of its grants refines SingleUse.       *)
(***************************************************************************)
EXTENDS CredentialHarnesses, SequenceTheorems, TLAPS

(* The inductive invariant. *)

\* Whatever was made carries the tag of its own text.
Made == \A h \in held : h.tag = <<"key", Wire(kind, h.text)>>

\* A grant is taken up as often as it was given, or once less.
OneAhead == \A g \in Grants : uses[g] <= granted[g] /\ granted[g] <= uses[g] + 1

\* A verifier with nonces: a grant is given at most once, to whatever it made for
\* its purpose, and the nonces it remembers are those taken up.
Nonces ==
  kind \in {"join", "reset", "totp"} =>
    /\ \A g \in Grants : granted[g] <= 1
    /\ seen = {g \in Grants : uses[g] = 1}
    /\ kind # "totp" => \A h \in held : Plain(h.text) => granted[h.text.id] = 1
    /\ kind = "join" => \A h \in held : Plain(h.text)
    /\ kind = "totp" => \A s \in Steps : granted[<<s>>] = 1

\* The codes of the server are the outstanding grants, each with the challenge of
\* the one credential made for it.
Challenges ==
  kind = "pkce" =>
    /\ \A n \in Ids : n \in DOMAIN codes <=> Outstanding(n)
    /\ \A n \in DOMAIN codes : \E h \in held : h.text.id = n
    /\ \A h \in held : h.text.id \in DOMAIN codes => codes[h.text.id] = S256(h.text.who)

CredentialInv ==
  /\ TypeOK /\ Made /\ OneAhead /\ Nonces /\ Challenges
  /\ AcceptsExactlyTheFit

------------------------------------------------------------------------------
(* What can be presented, and when it counts as made *)

LEMMA GrantsHold ==
  /\ Ids \subseteq Grants
  /\ \A t \in Times : Step(t) \in Steps /\ <<Step(t)>> \in Grants
  BY DEF Grants, Steps

\* A tag of the holder's that is presented is that of a credential that was made.
LEMMA TagIsOfOneMade ==
  ASSUME Made, NEW c \in Presentable(kind), NEW wire, c.tag = <<"key", wire>>
  PROVE  \E h \in held : h.tag = c.tag /\ wire = Wire(kind, h.text)
<1>1. CASE \E x \in Texts, h \in held : c = [text |-> x, tag |-> h.tag]
  <2> PICK x \in Texts, h \in held : c = [text |-> x, tag |-> h.tag]
    BY <1>1
  <2>1. h.tag = c.tag /\ h.tag = <<"key", Wire(kind, h.text)>>
    BY DEF Made
  <2> QED
    BY <2>1
<1>2. CASE \E x \in Texts : c = Forged(kind, x)
  <2> PICK x \in Texts : c = Forged(kind, x)
    BY <1>2
  <2>1. c.tag = <<"public", Wire(kind, x)>>
    BY DEF Forged
  <2> QED
    BY <2>1
<1> QED
  BY <1>1, <1>2 DEF Presentable

\* Where the tag is over the whole text, genuine is what was made.
LEMMA GenuineIffMade ==
  ASSUME Made, NEW c \in Presentable(kind), kind \notin {"stepup", "csrf"}
  PROVE  Genuine(kind, c) <=> MadeBySomeHolder(c)
<1>1. \A x : Wire(kind, x) = x /\ Means(x) = x
  BY DEF Wire, Means
<1>2. Genuine(kind, c) => MadeBySomeHolder(c)
  BY <1>1, TagIsOfOneMade DEF Genuine, MadeBySomeHolder
<1>3. MadeBySomeHolder(c) => Genuine(kind, c)
  BY <1>1 DEF Made, Genuine, MadeBySomeHolder
<1> QED
  BY <1>2, <1>3

LEMMA Joined ==
  ASSUME NEW s \in Seq(Nat), NEW t \in Seq(Nat)
  PROVE  /\ Len(s \o t) = Len(s) + Len(t)
         /\ \A i \in 1..Len(s) + Len(t) :
              (s \o t)[i] = IF i <= Len(s) THEN s[i] ELSE t[i - Len(s)]
  BY ConcatProperties, Zenon

\* Two parts of one piece each can be joined from no others.
LEMMA OneSplit ==
  ASSUME NEW a \in Seq(Nat), NEW b \in Seq(Nat), NEW u \in Seq(Nat), NEW v \in Seq(Nat),
         a # <<>>, b # <<>>, Len(u) = 1, Len(v) = 1, a \o b = u \o v
  PROVE  a = u /\ b = v
<1>1. Len(a) \in Nat /\ Len(b) \in Nat /\ Len(a) # 0 /\ Len(b) # 0
  BY LenProperties, EmptySeq
<1>2. Len(a) + Len(b) = 2
  <2>1. Len(a \o b) = Len(a) + Len(b) /\ Len(u \o v) = Len(u) + Len(v)
    BY Joined, Zenon
  <2>2. Len(a) + Len(b) = Len(u) + Len(v)
    BY <2>1, Zenon
  <2> QED
    BY <2>2
<1>3. Len(a) = 1 /\ Len(b) = 1
  BY <1>1, <1>2
<1>4. ASSUME NEW s \in Seq(Nat), NEW t \in Seq(Nat), Len(s) = 1, Len(t) = 1
      PROVE  (s \o t)[1] = s[1] /\ (s \o t)[2] = t[1]
  <2> DEFINE J == s \o t
  <2>1. \A i \in 1..Len(s) + Len(t) : J[i] = IF i <= Len(s) THEN s[i] ELSE t[i - Len(s)]
    BY Joined, Zenon
  <2> HIDE DEF J
  <2>2. J[1] = s[1] /\ J[2] = t[1]
    BY <1>4, <2>1
  <2> QED
    BY <2>2 DEF J
<1>5. /\ (a \o b)[1] = a[1] /\ (a \o b)[2] = b[1]
      /\ (u \o v)[1] = u[1] /\ (u \o v)[2] = v[1]
  BY <1>3, <1>4, Zenon
<1>6. /\ a \in [1..1 -> Nat] /\ b \in [1..1 -> Nat]
      /\ u \in [1..1 -> Nat] /\ v \in [1..1 -> Nat]
  BY <1>3, LenProperties
<1>7. a[1] = u[1] /\ b[1] = v[1]
  BY <1>5, Zenon
<1> QED
  BY <1>6, <1>7

\* A step-up that was approved is genuine, and a genuine one was approved if its
\* action and its nonce are of one piece.
LEMMA StepUpIsFit ==
  ASSUME CredentialInv, kind = "stepup", NEW c \in Presentable(kind)
  PROVE  /\ MadeBySomeHolder(c) => Genuine(kind, c)
         /\ OnePiece(c.text.who) /\ OnePiece(c.text.id) /\ Genuine(kind, c) => MadeBySomeHolder(c)
<1>1. \A x : Wire(kind, x) = x.who \o x.id /\ Means(x) = [action |-> x.who, nonce |-> x.id]
  BY DEF Wire, Means
<1>2. Made
  BY DEF CredentialInv
<1>3. MadeBySomeHolder(c) => Genuine(kind, c)
  <2> SUFFICES ASSUME NEW h \in held, h.tag = c.tag, Means(h.text) = Means(c.text)
               PROVE  Genuine(kind, c)
    BY DEF MadeBySomeHolder
  <2>1. h.text.who = c.text.who /\ h.text.id = c.text.id
    <3>1. Means(h.text).action = Means(c.text).action /\ Means(h.text).nonce = Means(c.text).nonce
      OBVIOUS
    <3> QED
      BY <1>1, <3>1
  <2> QED
    BY <1>1, <1>2, <2>1 DEF Made, Genuine
<1>4. ASSUME OnePiece(c.text.who), OnePiece(c.text.id), Genuine(kind, c)
      PROVE  MadeBySomeHolder(c)
  <2>1. PICK h \in held : h.tag = c.tag /\ Wire(kind, c.text) = Wire(kind, h.text)
    BY <1>2, <1>4, TagIsOfOneMade DEF Genuine
  <2>2. \A x \in Texts : /\ x.who \in Seq(Nat) /\ x.who # <<>>
                         /\ x.id \in Seq(Nat) /\ x.id # <<>>
    BY CredentialAssumption DEF Texts
  <2>3. h.text \in Texts /\ c.text \in Texts
    <3>1. c.text \in Texts
      BY DEF Presentable, Forged
    <3> QED
      BY <3>1 DEF CredentialInv, TypeOK
  <2>4. h.text.who \o h.text.id = c.text.who \o c.text.id
    BY <1>1, <2>1
  <2>5. Len(c.text.who) = 1 /\ Len(c.text.id) = 1
    BY <1>4 DEF OnePiece
  <2>6. h.text.who = c.text.who /\ h.text.id = c.text.id
    <3> DEFINE a == h.text.who  b == h.text.id  u == c.text.who  v == c.text.id
    <3>1. /\ a \in Seq(Nat) /\ a # <<>> /\ b \in Seq(Nat) /\ b # <<>>
          /\ u \in Seq(Nat) /\ v \in Seq(Nat)
      BY <2>2, <2>3, Zenon
    <3>2. Len(u) = 1 /\ Len(v) = 1 /\ a \o b = u \o v
      BY <2>4, <2>5, Zenon
    <3> HIDE DEF a, b, u, v
    <3>3. a = u /\ b = v
      BY <3>1, <3>2, OneSplit, Zenon
    <3> QED
      BY <3>3 DEF a, b, u, v
  <2> QED
    BY <1>1, <2>1, <2>6 DEF MadeBySomeHolder
<1> QED
  BY <1>3, <1>4

LEMMA PresentedText ==
  ASSUME NEW k, NEW c \in Presentable(k)
  PROVE  c.text \in Texts /\ c.text.id \in Ids /\ c.text.t \in Times
  BY DEF Presentable, Forged, Texts

------------------------------------------------------------------------------
(* The holder's steps *)

LEMMA MadeGrows ==
  ASSUME TypeOK, Made, NEW x \in Texts, kind' = kind, held' \subseteq held \cup {Sealed(kind, x)}
  PROVE  Made' /\ \A h \in held' : h.text \in Texts
<1>1. Sealed(kind, x).text = x /\ Sealed(kind, x).tag = <<"key", Wire(kind, x)>>
  BY DEF Sealed
<1>2. \A h \in held' : h.text \in Texts
  BY <1>1 DEF TypeOK
<1>3. \A h \in held' : h.tag = <<"key", Wire(kind, h.text)>>
  BY <1>1 DEF Made
<1> QED
  BY <1>2, <1>3 DEF Made

LEMMA MakeTokenStep ==
  ASSUME CredentialInv, NEW x \in Texts, MakeToken(x)
  PROVE  CredentialInv'
<1>1. /\ kind = "join" /\ Plain(x) /\ held' = held \cup {Sealed("join", x)}
      /\ granted' = [granted EXCEPT ![x.id] = 1]
      /\ UNCHANGED <<kind, clock, seen, codes, uses, last>>
  BY DEF MakeToken, Make
<1>2. x.id \in Grants /\ TypeOK /\ OneAhead /\ Nonces /\ Made
  BY GrantsHold DEF CredentialInv, Texts
<1>3. /\ granted' \in [Grants -> Nat] /\ granted'[x.id] = 1
      /\ \A g \in Grants \ {x.id} : granted'[g] = granted[g]
  BY <1>1, <1>2 DEF TypeOK
<1>4. Made' /\ \A h \in held' : h.text \in Texts
  BY <1>1, <1>2, MadeGrows
<1>5. TypeOK'
  BY <1>1, <1>2, <1>3, <1>4 DEF TypeOK
<1>6. OneAhead'
  BY <1>1, <1>2, <1>3 DEF OneAhead, Nonces, TypeOK
<1>7. Nonces'
  <2>1. \A h \in held' : Plain(h.text) /\ granted'[h.text.id] = 1
    <3>1. Sealed("join", x).text = x
      BY DEF Sealed
    <3>2. \A h \in held : h.text.id \in Grants /\ Plain(h.text) /\ granted[h.text.id] = 1
      BY <1>1, <1>2, GrantsHold DEF TypeOK, Texts, Nonces
    <3> QED
      BY <1>1, <1>3, <3>1, <3>2
  <2>2. \A g \in Grants : granted'[g] <= 1
    BY <1>1, <1>2, <1>3 DEF Nonces
  <2> QED
    BY <1>1, <1>2, <2>1, <2>2 DEF Nonces
<1>8. Challenges' /\ AcceptsExactlyTheFit'
  BY <1>1 DEF Challenges, AcceptsExactlyTheFit, CredentialInv
<1> QED
  BY <1>4, <1>5, <1>6, <1>7, <1>8 DEF CredentialInv

LEMMA IssueStep ==
  ASSUME CredentialInv, NEW x \in Texts, Issue(x)
  PROVE  CredentialInv'
<1>1. /\ kind = "reset" /\ held' = held \cup {Sealed("reset", x)}
      /\ granted[x.id] = 0 /\ \A h \in held : h.text.id # x.id
      /\ granted' = [granted EXCEPT ![x.id] = IF Plain(x) THEN 1 ELSE 0]
      /\ UNCHANGED <<kind, clock, seen, codes, uses, last>>
  BY DEF Issue, Make
<1>2. x.id \in Grants /\ TypeOK /\ OneAhead /\ Nonces /\ Made
  BY GrantsHold DEF CredentialInv, Texts
<1>3. /\ granted' \in [Grants -> Nat] /\ granted'[x.id] = IF Plain(x) THEN 1 ELSE 0
      /\ \A g \in Grants \ {x.id} : granted'[g] = granted[g]
  BY <1>1, <1>2 DEF TypeOK
<1>4. Made' /\ \A h \in held' : h.text \in Texts
  BY <1>1, <1>2, MadeGrows
<1>5. TypeOK'
  BY <1>1, <1>2, <1>3, <1>4 DEF TypeOK
<1>6. OneAhead'
  BY <1>1, <1>2, <1>3 DEF OneAhead, TypeOK
<1>7. Nonces'
  <2>1. \A h \in held' : Plain(h.text) => granted'[h.text.id] = 1
    <3>1. Sealed("reset", x).text = x
      BY DEF Sealed
    <3>2. \A h \in held : h.text.id \in Grants /\ (Plain(h.text) => granted[h.text.id] = 1)
      BY <1>1, <1>2, GrantsHold DEF TypeOK, Texts, Nonces
    <3> QED
      BY <1>1, <1>3, <3>1, <3>2
  <2>2. \A g \in Grants : granted'[g] <= 1
    BY <1>1, <1>2, <1>3 DEF Nonces
  <2> QED
    BY <1>1, <1>2, <2>1, <2>2 DEF Nonces
<1>8. Challenges' /\ AcceptsExactlyTheFit'
  BY <1>1 DEF Challenges, AcceptsExactlyTheFit, CredentialInv
<1> QED
  BY <1>4, <1>5, <1>6, <1>7, <1>8 DEF CredentialInv

LEMMA AuthorizeStep ==
  ASSUME CredentialInv, NEW x \in Texts, Authorize(x)
  PROVE  CredentialInv'
<1>1. /\ kind = "pkce"
      /\ codes' = [n \in DOMAIN codes \cup {x.id} |-> IF n = x.id THEN S256(x.who) ELSE codes[n]]
      /\ held' = {h \in held : h.text.id # x.id} \cup {Sealed("pkce", x)}
      /\ granted' = [granted EXCEPT ![x.id] = IF Outstanding(x.id) THEN @ ELSE @ + 1]
      /\ UNCHANGED <<kind, clock, seen, uses, last>>
  BY DEF Authorize, Renews
<1>2. x.id \in Ids /\ x.id \in Grants /\ TypeOK /\ OneAhead /\ Challenges /\ Made
  BY GrantsHold DEF CredentialInv, Texts
<1>3. /\ granted' \in [Grants -> Nat]
      /\ granted'[x.id] = IF Outstanding(x.id) THEN granted[x.id] ELSE granted[x.id] + 1
      /\ \A g \in Grants \ {x.id} : granted'[g] = granted[g]
  BY <1>1, <1>2 DEF TypeOK
<1>4. Made' /\ \A h \in held' : h.text \in Texts
  BY <1>1, <1>2, MadeGrows
<1>5. TypeOK'
  BY <1>1, <1>2, <1>3, <1>4 DEF TypeOK
<1>6. OneAhead'
  BY <1>1, <1>2, <1>3 DEF OneAhead, TypeOK, Outstanding
<1>7. Challenges'
  <2>1. /\ DOMAIN codes' = DOMAIN codes \cup {x.id} /\ codes'[x.id] = S256(x.who)
        /\ \A n \in DOMAIN codes \ {x.id} : codes'[n] = codes[n]
    BY <1>1
  <2>2. Sealed("pkce", x).text = x
    BY DEF Sealed
  <2>3. \A n \in Ids : n \in DOMAIN codes' <=> Outstanding(n)'
    <3>1. Outstanding(x.id)'
      BY <1>1, <1>2, <1>3 DEF Outstanding, OneAhead, TypeOK
    <3>2. \A n \in Ids \ {x.id} : Outstanding(n)' = Outstanding(n)
      BY <1>1, <1>3, GrantsHold DEF Outstanding
    <3> QED
      BY <1>1, <1>2, <2>1, <3>1, <3>2 DEF Challenges
  <2>4. \A n \in DOMAIN codes' : \E h \in held' : h.text.id = n
    BY <1>1, <1>2, <2>1, <2>2 DEF Challenges
  <2>5. \A h \in held' : h.text.id \in DOMAIN codes' => codes'[h.text.id] = S256(h.text.who)
    BY <1>1, <1>2, <2>1, <2>2 DEF Challenges
  <2> QED
    BY <2>3, <2>4, <2>5 DEF Challenges
<1>8. Nonces' /\ AcceptsExactlyTheFit'
  BY <1>1 DEF Nonces, AcceptsExactlyTheFit, CredentialInv
<1> QED
  BY <1>4, <1>5, <1>6, <1>7, <1>8 DEF CredentialInv

LEMMA MakeOtherStep ==
  ASSUME CredentialInv, NEW x \in Texts, MakeOther(x)
  PROVE  CredentialInv'
<1>1. /\ kind \in {"stepup", "message", "manifest", "csrf", "webhook"}
      /\ held' = held \cup {Sealed(kind, x)}
      /\ UNCHANGED <<kind, clock, seen, codes, granted, uses, last>>
  BY DEF MakeOther, Make
<1>2. Made' /\ \A h \in held' : h.text \in Texts
  BY <1>1, MadeGrows DEF CredentialInv
<1> QED
  BY <1>1, <1>2 DEF CredentialInv, TypeOK, OneAhead, Nonces, Challenges, AcceptsExactlyTheFit

LEMMA SetClockStep ==
  ASSUME CredentialInv, SetClock
  PROVE  CredentialInv'
<1>1. clock' \in Times /\ UNCHANGED <<kind, seen, codes, held, granted, uses, last>>
  BY DEF SetClock
<1> QED
  BY <1>1 DEF CredentialInv, TypeOK, Made, OneAhead, Nonces, Challenges, Outstanding, AcceptsExactlyTheFit

------------------------------------------------------------------------------
(* Each verifier's decision is what is fit *)

\* With nonces, a grant is outstanding when it was given and is not remembered.
LEMMA OutstandingNonce ==
  ASSUME CredentialInv, kind \in {"join", "reset", "totp"}, NEW g \in Grants
  PROVE  Outstanding(g) <=> granted[g] = 1 /\ g \notin seen
  BY DEF CredentialInv, Nonces, OneAhead, TypeOK, Outstanding

LEMMA AdmitIsFit ==
  ASSUME CredentialInv, kind = "join", NEW c \in Presentable(kind)
  PROVE  ReplayGuardedAdmission(seen, clock, c) <=> FitJoin(c)
<1>1. c.text.id \in Grants
  BY PresentedText, GrantsHold
<1>2. Genuine("join", c) <=> MadeBySomeHolder(c)
  BY GenuineIffMade DEF CredentialInv
<1>3. MadeBySomeHolder(c) => granted[c.text.id] = 1
  BY DEF CredentialInv, Nonces, MadeBySomeHolder, Means
<1> QED
  BY <1>1, <1>2, <1>3, OutstandingNonce DEF ReplayGuardedAdmission, FitJoin

LEMMA ResetIsFit ==
  ASSUME CredentialInv, kind = "reset", NEW c \in Presentable(kind), NEW email
  PROVE  SignedTokenDesign(seen, clock, email, c) <=> FitReset(email, c) /\ OnePiece(email)
<1>1. c.text.id \in Grants
  BY PresentedText, GrantsHold
<1>2. Genuine("reset", c) <=> MadeBySomeHolder(c)
  BY GenuineIffMade DEF CredentialInv
<1>3. MadeBySomeHolder(c) /\ c.text.purpose = "pwreset" => granted[c.text.id] = 1
  BY DEF CredentialInv, Nonces, MadeBySomeHolder, Means, Plain
<1> QED
  BY <1>1, <1>2, <1>3, OutstandingNonce DEF SignedTokenDesign, FitReset, OnePiece

LEMMA TotpIsFit ==
  ASSUME CredentialInv, kind = "totp", NEW code, NEW now \in Times
  PROVE  TotpVerifier(seen, code, now) <=> FitTotp(code, now)
<1>1. Step(now) \in Steps /\ <<Step(now)>> \in Grants
  BY GrantsHold
<1>2. granted[<<Step(now)>>] = 1
  BY <1>1 DEF CredentialInv, Nonces
<1> QED
  BY <1>1, <1>2, OutstandingNonce DEF TotpVerifier, FitTotp

LEMMA ExchangeIsFit ==
  ASSUME CredentialInv, kind = "pkce", NEW code \in Ids, NEW verifier
  PROVE  PkceAuthServer(codes, code, verifier) <=> FitExchange(code, verifier)
<1>1. code \in DOMAIN codes <=> Outstanding(code)
  BY DEF CredentialInv, Challenges
<1>2. code \in DOMAIN codes => \E h \in held : h.text.id = code
  BY DEF CredentialInv, Challenges
<1>3. \A h \in held : h.text.id \in DOMAIN codes => codes[h.text.id] = S256(h.text.who)
  BY DEF CredentialInv, Challenges
<1>4. \A w : S256(w) = S256(verifier) <=> w = verifier
  BY DEF S256
<1> QED
  BY <1>1, <1>2, <1>3, <1>4 DEF PkceAuthServer, FitExchange

LEMMA SessionIsFit ==
  ASSUME CredentialInv, kind = "csrf", NEW c \in Presentable(kind), NEW session
  PROVE  SynchronizerCsrf(session, c) <=> FitCsrf(session, c)
<1>1. \A x : Wire(kind, x) = x.who
  BY DEF Wire
<1>2. \A h \in held : h.tag = <<"key", h.text.who>>
  BY <1>1 DEF CredentialInv, Made
<1>3. c.tag = <<"key", session>> => \E h \in held : h.tag = c.tag
  <2>1. CASE \E x \in Texts, h \in held : c = [text |-> x, tag |-> h.tag]
    BY <2>1
  <2>2. CASE \E x \in Texts : c = Forged(kind, x)
    BY <2>2 DEF Forged
  <2> QED
    BY <2>1, <2>2 DEF Presentable
<1> QED
  BY <1>2, <1>3 DEF SynchronizerCsrf, FitCsrf

LEMMA WebhookIsFit ==
  ASSUME CredentialInv, kind = "webhook", NEW c \in Presentable(kind), NEW now \in Times
  PROVE  SignedWebhookVerifier(c, now) <=> FitWebhook(c, now)
<1>1. Genuine("webhook", c) <=> MadeBySomeHolder(c)
  BY GenuineIffMade DEF CredentialInv
<1>2. c.text.t \in Nat /\ now \in Nat /\ Window \in Nat
  BY PresentedText, CredentialAssumption, VerifierAssumption
<1>3. (now - c.text.t <= Window /\ c.text.t - now <= Window)
        <=> now \in (c.text.t - Window)..(c.text.t + Window)
  BY <1>2
<1> QED
  BY <1>1, <1>3 DEF SignedWebhookVerifier, FitWebhook

------------------------------------------------------------------------------
(* The verifier's steps *)

LEMMA AnswersRight ==
  ASSUME NEW ok \in BOOLEAN, NEW fit \in BOOLEAN, NEW clear \in BOOLEAN,
         Answer(ok, fit, clear), kind' = kind,
         clear => (ok <=> fit), ok => fit \/ kind = "stepup", fit => ok \/ kind = "reset"
  PROVE  last' \in [ok : BOOLEAN, fit : BOOLEAN, clear : BOOLEAN] /\ AcceptsExactlyTheFit'
<1>1. last'.ok = ok /\ last'.fit = fit /\ last'.clear = clear
  BY DEF Answer
<1>2. clear => ok = fit
  OBVIOUS
<1> QED
  BY <1>1, <1>2 DEF Answer, AcceptsExactlyTheFit

\* A verifier with nonces that accepts what is outstanding.
LEMMA NonceStep ==
  ASSUME CredentialInv, kind \in {"join", "reset", "totp"}, NEW g \in Grants,
         NEW ok \in BOOLEAN, NEW fit \in BOOLEAN, NEW clear \in BOOLEAN, Answer(ok, fit, clear),
         ok <=> fit /\ clear, clear \/ kind = "reset", ok => Outstanding(g),
         Remembers(g, ok), Uses(g, ok), UNCHANGED <<kind, clock, codes, held, granted>>
  PROVE  CredentialInv'
<1>1. TypeOK /\ Made /\ OneAhead /\ Nonces /\ Challenges
  BY DEF CredentialInv
<1>2. last' \in [ok : BOOLEAN, fit : BOOLEAN, clear : BOOLEAN] /\ AcceptsExactlyTheFit'
  BY AnswersRight
<1>3. CASE ~ok
  <2>1. UNCHANGED <<seen, uses>>
    BY <1>3 DEF Remembers, Uses
  <2> QED
    BY <1>1, <1>2, <2>1 DEF CredentialInv, TypeOK, Made, OneAhead, Nonces, Challenges
<1>4. CASE ok
  <2>1. seen' = seen \cup {g} /\ uses' = [uses EXCEPT ![g] = @ + 1]
    BY <1>4 DEF Remembers, Uses
  <2>2. granted[g] = 1 /\ uses[g] = 0
    BY <1>1, <1>4 DEF Nonces, TypeOK, Outstanding
  <2>3. /\ uses' \in [Grants -> Nat] /\ uses'[g] = 1
        /\ \A f \in Grants \ {g} : uses'[f] = uses[f]
    BY <1>1, <2>1, <2>2 DEF TypeOK
  <2>4. TypeOK'
    BY <1>1, <1>2, <2>1, <2>3 DEF TypeOK
  <2>5. OneAhead'
    BY <1>1, <2>2, <2>3 DEF OneAhead
  <2>6. seen' = {f \in Grants : uses'[f] = 1}
    BY <1>1, <2>1, <2>2, <2>3 DEF Nonces
  <2>7. Made' /\ Nonces' /\ Challenges'
    BY <1>1, <2>6 DEF Made, Nonces, Challenges
  <2> QED
    BY <1>2, <2>4, <2>5, <2>7 DEF CredentialInv
<1> QED
  BY <1>3, <1>4

LEMMA AdmitStep ==
  ASSUME CredentialInv, NEW c \in Presentable(kind), Admit(c)
  PROVE  CredentialInv'
<1> DEFINE fit == FitJoin(c)
           ok == ReplayGuardedAdmission(seen, clock, c)
<1>1. /\ kind = "join" /\ Answer(ok, FitJoin(c), TRUE) /\ Remembers(c.text.id, ok) /\ Uses(c.text.id, ok)
      /\ UNCHANGED <<kind, clock, codes, held, granted>>
  BY DEF Admit
<1>2. c.text.id \in Grants
  BY PresentedText, GrantsHold
<1>3. (ok <=> fit) /\ ok \in BOOLEAN /\ fit \in BOOLEAN
  BY <1>1, AdmitIsFit DEF ReplayGuardedAdmission, FitJoin
<1>4. ok => Outstanding(c.text.id)
  BY <1>3 DEF FitJoin
<1>5. Answer(ok, fit, TRUE)
  BY <1>1
<1> HIDE DEF ok, fit
<1> QED
  BY <1>1, <1>2, <1>3, <1>4, <1>5, NonceStep

LEMMA ResetStep ==
  ASSUME CredentialInv, NEW c \in Presentable(kind), NEW email, VerifyReset(email, c)
  PROVE  CredentialInv'
<1> DEFINE clear == OnePiece(email)
           fit == FitReset(email, c)
           ok == SignedTokenDesign(seen, clock, email, c)
<1>1. /\ kind = "reset" /\ Answer(ok, FitReset(email, c), OnePiece(email)) /\ Remembers(c.text.id, ok) /\ Uses(c.text.id, ok)
      /\ UNCHANGED <<kind, clock, codes, held, granted>>
  BY DEF VerifyReset
<1>2. c.text.id \in Grants
  BY PresentedText, GrantsHold
<1>3. (ok <=> fit /\ clear) /\ ok \in BOOLEAN /\ fit \in BOOLEAN /\ clear \in BOOLEAN
  BY <1>1, ResetIsFit DEF SignedTokenDesign, FitReset, OnePiece
<1>4. ok => Outstanding(c.text.id)
  BY <1>3 DEF FitReset
<1>5. Answer(ok, fit, clear)
  BY <1>1
<1> HIDE DEF ok, fit, clear
<1> QED
  BY <1>1, <1>2, <1>3, <1>4, <1>5, NonceStep

LEMMA TotpStep ==
  ASSUME CredentialInv, NEW code, NEW now \in Times, VerifyTotp(code, now)
  PROVE  CredentialInv'
<1> DEFINE fit == FitTotp(code, now)
           ok == TotpVerifier(seen, code, now)
<1>1. /\ kind = "totp" /\ Answer(ok, FitTotp(code, now), TRUE)
      /\ Remembers(<<Step(now)>>, ok) /\ Uses(<<Step(now)>>, ok)
      /\ UNCHANGED <<kind, clock, codes, held, granted>>
  BY DEF VerifyTotp
<1>2. <<Step(now)>> \in Grants
  BY GrantsHold
<1>3. (ok <=> fit) /\ ok \in BOOLEAN /\ fit \in BOOLEAN
  BY <1>1, TotpIsFit DEF TotpVerifier, FitTotp
<1>4. ok => Outstanding(<<Step(now)>>)
  BY <1>3 DEF FitTotp
<1>5. Answer(ok, fit, TRUE)
  BY <1>1
<1> HIDE DEF ok, fit
<1> QED
  BY <1>1, <1>2, <1>3, <1>4, <1>5, NonceStep

LEMMA ExchangeStep ==
  ASSUME CredentialInv, NEW code \in Ids, NEW verifier, Exchange(code, verifier)
  PROVE  CredentialInv'
<1> DEFINE ok == PkceAuthServer(codes, code, verifier)
<1>1. /\ kind = "pkce" /\ Answer(ok, FitExchange(code, verifier), TRUE) /\ Uses(code, ok)
      /\ codes' = IF ok THEN [n \in DOMAIN codes \ {code} |-> codes[n]] ELSE codes
      /\ UNCHANGED <<kind, clock, seen, held, granted>>
  BY DEF Exchange
<1>2. code \in Grants /\ TypeOK /\ Made /\ OneAhead /\ Nonces /\ Challenges
  BY GrantsHold DEF CredentialInv
<1>3. (ok <=> FitExchange(code, verifier)) /\ ok \in BOOLEAN /\ FitExchange(code, verifier) \in BOOLEAN
  BY <1>1, ExchangeIsFit DEF PkceAuthServer, FitExchange
<1>4. ok => Outstanding(code)
  BY <1>3 DEF FitExchange
<1>5. ok = FitExchange(code, verifier)
  BY <1>3
<1> HIDE DEF ok
<1>6. last' \in [ok : BOOLEAN, fit : BOOLEAN, clear : BOOLEAN] /\ AcceptsExactlyTheFit'
  BY <1>1, <1>3, <1>5, AnswersRight
<1>7. CASE ~ok
  <2>1. UNCHANGED <<codes, uses>>
    BY <1>1, <1>7 DEF Uses
  <2> QED
    BY <1>1, <1>2, <1>6, <2>1 DEF CredentialInv, TypeOK, Made, OneAhead, Nonces, Challenges, Outstanding
<1>8. CASE ok
  <2>1. uses' = [uses EXCEPT ![code] = @ + 1] /\ codes' = [n \in DOMAIN codes \ {code} |-> codes[n]]
    BY <1>1, <1>8 DEF Uses
  <2>2. /\ uses' \in [Grants -> Nat] /\ uses'[code] = uses[code] + 1
        /\ \A g \in Grants \ {code} : uses'[g] = uses[g]
    BY <1>2, <2>1 DEF TypeOK
  <2>3. TypeOK' /\ Made'
    BY <1>1, <1>2, <1>6, <2>1, <2>2 DEF TypeOK, Made
  <2>4. OneAhead' /\ ~Outstanding(code)'
    BY <1>1, <1>2, <1>4, <1>8, <2>2 DEF OneAhead, Outstanding, TypeOK
  <2>5. \A n \in Ids \ {code} : Outstanding(n)' = Outstanding(n)
    BY <1>1, <2>2, GrantsHold DEF Outstanding
  <2>6. Challenges'
    BY <1>1, <1>2, <2>1, <2>4, <2>5 DEF Challenges
  <2> QED
    BY <1>1, <1>6, <2>3, <2>4, <2>6 DEF CredentialInv, Nonces
<1> QED
  BY <1>7, <1>8

\* The verifiers that remember nothing.
LEMMA StatelessStep ==
  ASSUME CredentialInv, NEW ok \in BOOLEAN, NEW fit \in BOOLEAN, NEW clear \in BOOLEAN,
         Stateless(ok, fit, clear),
         clear => (ok <=> fit), ok => fit \/ kind = "stepup", fit => ok
  PROVE  CredentialInv'
<1>1. /\ last' \in [ok : BOOLEAN, fit : BOOLEAN, clear : BOOLEAN] /\ AcceptsExactlyTheFit'
      /\ UNCHANGED <<kind, clock, seen, codes, held, granted, uses>>
  BY AnswersRight DEF Stateless
<1> QED
  BY <1>1 DEF CredentialInv, TypeOK, Made, OneAhead, Nonces, Challenges, Outstanding

LEMMA ExecuteStep ==
  ASSUME CredentialInv, NEW c \in Presentable(kind), Execute(c)
  PROVE  CredentialInv'
<1> DEFINE ok == Genuine(kind, c)
           fit == MadeBySomeHolder(c)
           clear == OnePiece(c.text.who) /\ OnePiece(c.text.id)
<1>1. kind = "stepup" /\ Stateless(ok, fit, clear)
  BY DEF Execute, StepUpExecutor
<1>2. (fit => ok) /\ (clear /\ ok => fit)
  BY <1>1, StepUpIsFit
<1>3. ok \in BOOLEAN /\ fit \in BOOLEAN /\ clear \in BOOLEAN
  BY DEF Genuine, MadeBySomeHolder, OnePiece
<1> HIDE DEF ok, fit, clear
<1> QED
  BY <1>1, <1>2, <1>3, StatelessStep

LEMMA PresentedStep ==
  ASSUME CredentialInv, NEW c \in Presentable(kind), Receive(c) \/ Load(c)
  PROVE  CredentialInv'
<1> DEFINE ok == Genuine(kind, c)
           fit == MadeBySomeHolder(c)
<1>1. kind \in {"message", "manifest"} /\ Stateless(ok, fit, TRUE)
  BY DEF Receive, Load, AuthChannel, SignedToolLoader
<1>2. ok <=> fit
  BY <1>1, GenuineIffMade DEF CredentialInv
<1>3. ok \in BOOLEAN /\ fit \in BOOLEAN
  BY DEF Genuine, MadeBySomeHolder
<1> HIDE DEF ok, fit
<1> QED
  BY <1>1, <1>2, <1>3, StatelessStep

LEMMA ValidateStep ==
  ASSUME CredentialInv, NEW c \in Presentable(kind), NEW session, Validate(session, c)
  PROVE  CredentialInv'
<1>1. kind = "csrf" /\ Stateless(SynchronizerCsrf(session, c), FitCsrf(session, c), TRUE)
  BY DEF Validate
<1>2. SynchronizerCsrf(session, c) <=> FitCsrf(session, c)
  BY <1>1, SessionIsFit
<1>3. SynchronizerCsrf(session, c) \in BOOLEAN /\ SynchronizerCsrf(session, c) = FitCsrf(session, c)
  BY <1>2 DEF SynchronizerCsrf, FitCsrf
<1> QED
  BY <1>1, <1>3, StatelessStep

LEMMA WebhookStep ==
  ASSUME CredentialInv, NEW c \in Presentable(kind), NEW now \in Times, VerifyWebhook(c, now)
  PROVE  CredentialInv'
<1>1. kind = "webhook" /\ Stateless(SignedWebhookVerifier(c, now), FitWebhook(c, now), TRUE)
  BY DEF VerifyWebhook
<1>2. SignedWebhookVerifier(c, now) <=> FitWebhook(c, now)
  BY <1>1, WebhookIsFit
<1>3. SignedWebhookVerifier(c, now) \in BOOLEAN /\ SignedWebhookVerifier(c, now) = FitWebhook(c, now)
  BY <1>2 DEF SignedWebhookVerifier, FitWebhook
<1> QED
  BY <1>1, <1>3, StatelessStep

------------------------------------------------------------------------------
(* The theorems *)

LEMMA CredentialInit == Init => CredentialInv
<1> SUFFICES ASSUME Init PROVE CredentialInv
  OBVIOUS
<1>1. /\ \A g \in Grants : uses[g] = 0 /\ granted[g] \in {0, 1}
      /\ kind = "totp" => \A s \in Steps : <<s>> \in Grants /\ granted[<<s>>] = 1
      /\ kind # "totp" => \A g \in Grants : granted[g] = 0
      /\ granted \in [Grants -> Nat] /\ uses \in [Grants -> Nat]
  BY DEF Init, Grants
<1>2. seen = {} /\ DOMAIN codes = {} /\ held = {} /\ last = [ok |-> FALSE, fit |-> FALSE, clear |-> TRUE]
  BY DEF Init
<1>3. TypeOK
  BY <1>1, <1>2 DEF Init, TypeOK
<1>4. Challenges
  BY <1>1, <1>2, GrantsHold DEF Challenges, Outstanding
<1>5. Made /\ OneAhead /\ Nonces /\ AcceptsExactlyTheFit
  BY <1>1, <1>2 DEF Made, OneAhead, Nonces, AcceptsExactlyTheFit
<1> QED
  BY <1>3, <1>4, <1>5 DEF CredentialInv

LEMMA CredentialStep == CredentialInv /\ [Next]_vars => CredentialInv'
<1> SUFFICES ASSUME CredentialInv, [Next]_vars PROVE CredentialInv'
  OBVIOUS
<1>1. CASE Holder
  BY <1>1, SetClockStep, MakeTokenStep, IssueStep, AuthorizeStep, MakeOtherStep DEF Holder
<1>2. CASE Verifier
  BY <1>2, AdmitStep, ExecuteStep, PresentedStep, ResetStep, ValidateStep, WebhookStep, TotpStep, ExchangeStep DEF Verifier
<1>3. CASE UNCHANGED vars
  BY <1>3 DEF vars, CredentialInv, TypeOK, Made, OneAhead, Nonces, Challenges, Outstanding, AcceptsExactlyTheFit
<1> QED
  BY <1>1, <1>2, <1>3 DEF Next

LEMMA CredentialInvariant == Spec => []CredentialInv
  BY CredentialInit, CredentialStep, PTL DEF Spec

\* For every value of the constants, the variables have their types.
THEOREM TypeCorrect == Spec => []TypeOK
<1>1. CredentialInv => TypeOK
  BY DEF CredentialInv
<1> QED
  BY <1>1, CredentialInvariant, PTL

\* Nothing forged, altered, out of its time or used up is ever accepted, and
\* whatever is none of these is, after any sequence of calls, where the text shows
\* where its parts end; else a step-up may be taken for another that joins to the
\* same, and a good reset token refused.
THEOREM VerifiersAreRight == Spec => []AcceptsExactlyTheFit
<1>1. CredentialInv => AcceptsExactlyTheFit
  BY DEF CredentialInv
<1> QED
  BY <1>1, CredentialInvariant, PTL

(* The refinement: every step grants once, redeems once, or does neither. *)

LEMMA HolderRefines ==
  ASSUME CredentialInv, Holder
  PROVE  OneTime!Next \/ UNCHANGED <<granted, uses>>
<1>1. TypeOK /\ OneAhead /\ Nonces
  BY DEF CredentialInv
<1>2. CASE SetClock
  BY <1>2 DEF SetClock
<1>3. CASE \E x \in Texts : MakeToken(x)
  <2> PICK x \in Texts : MakeToken(x)
    BY <1>3
  <2>1. kind = "join" /\ granted' = [granted EXCEPT ![x.id] = 1] /\ uses' = uses
    BY DEF MakeToken, Make
  <2>2. x.id \in Grants /\ granted \in [Grants -> Nat] /\ uses \in [Grants -> Nat]
    BY <1>1, GrantsHold DEF TypeOK, Texts
  <2>3. CASE granted[x.id] = 1
    BY <2>1, <2>2, <2>3
  <2>4. CASE granted[x.id] = 0
    <3>1. ~OneTime!Outstanding(x.id)
      BY <2>2, <2>4 DEF OneTime!Outstanding
    <3>2. OneTime!Grant(x.id)
      BY <2>1, <2>2, <2>4, <3>1 DEF OneTime!Grant
    <3> QED
      BY <2>2, <3>2 DEF OneTime!Next
  <2> QED
    BY <1>1, <2>1, <2>2, <2>3, <2>4 DEF Nonces
<1>4. CASE \E x \in Texts : Issue(x)
  <2> PICK x \in Texts : Issue(x)
    BY <1>4
  <2>1. /\ granted[x.id] = 0 /\ uses' = uses
        /\ granted' = [granted EXCEPT ![x.id] = IF Plain(x) THEN 1 ELSE 0]
    BY DEF Issue
  <2>2. x.id \in Grants /\ granted \in [Grants -> Nat] /\ uses \in [Grants -> Nat]
    BY <1>1, GrantsHold DEF TypeOK, Texts
  <2>3. CASE ~Plain(x)
    BY <2>1, <2>2, <2>3
  <2>4. CASE Plain(x)
    <3>1. ~OneTime!Outstanding(x.id)
      BY <2>1, <2>2 DEF OneTime!Outstanding
    <3>2. OneTime!Grant(x.id)
      BY <2>1, <2>2, <2>4, <3>1 DEF OneTime!Grant
    <3> QED
      BY <2>2, <3>2 DEF OneTime!Next
  <2> QED
    BY <2>3, <2>4
<1>5. CASE \E x \in Texts : Authorize(x)
  <2> PICK x \in Texts : Authorize(x)
    BY <1>5
  <2>1. uses' = uses /\ granted' = [granted EXCEPT ![x.id] = IF Outstanding(x.id) THEN @ ELSE @ + 1]
    BY DEF Authorize, Renews
  <2>2. x.id \in Grants /\ granted \in [Grants -> Nat]
    BY <1>1, GrantsHold DEF TypeOK, Texts
  <2>3. CASE Outstanding(x.id)
    BY <2>1, <2>2, <2>3
  <2>4. CASE ~Outstanding(x.id)
    <3>1. OneTime!Grant(x.id)
      BY <2>1, <2>2, <2>4 DEF OneTime!Grant, OneTime!Outstanding, Outstanding
    <3> QED
      BY <2>2, <3>1 DEF OneTime!Next
  <2> QED
    BY <2>3, <2>4
<1>6. CASE \E x \in Texts : MakeOther(x)
  BY <1>6 DEF MakeOther
<1> QED
  BY <1>2, <1>3, <1>4, <1>5, <1>6 DEF Holder

\* What a verifier accepts, it redeems.
LEMMA UseRedeems ==
  ASSUME NEW g \in Grants, NEW ok, Uses(g, ok), granted' = granted, ok => Outstanding(g)
  PROVE  OneTime!Next \/ UNCHANGED <<granted, uses>>
<1>1. CASE ~ok
  BY <1>1 DEF Uses
<1>2. CASE ok
  <2>1. OneTime!Redeem(g)
    BY <1>2 DEF Uses, OneTime!Redeem, OneTime!Outstanding, Outstanding
  <2> QED
    BY <2>1 DEF OneTime!Next
<1> QED
  BY <1>1, <1>2

LEMMA VerifierRefines ==
  ASSUME CredentialInv, Verifier
  PROVE  OneTime!Next \/ UNCHANGED <<granted, uses>>
<1>1. ASSUME NEW c \in Presentable(kind), Admit(c)
      PROVE  OneTime!Next \/ UNCHANGED <<granted, uses>>
  <2>1. kind = "join" /\ Uses(c.text.id, ReplayGuardedAdmission(seen, clock, c)) /\ granted' = granted
    BY <1>1 DEF Admit
  <2>2. ReplayGuardedAdmission(seen, clock, c) => Outstanding(c.text.id)
    BY <2>1, AdmitIsFit DEF FitJoin
  <2> QED
    BY <2>1, <2>2, UseRedeems, PresentedText, GrantsHold
<1>2. ASSUME NEW c \in Presentable(kind), NEW email, VerifyReset(email, c)
      PROVE  OneTime!Next \/ UNCHANGED <<granted, uses>>
  <2>1. kind = "reset" /\ Uses(c.text.id, SignedTokenDesign(seen, clock, email, c)) /\ granted' = granted
    BY <1>2 DEF VerifyReset
  <2>2. SignedTokenDesign(seen, clock, email, c) => Outstanding(c.text.id)
    BY <2>1, ResetIsFit DEF FitReset
  <2> QED
    BY <2>1, <2>2, UseRedeems, PresentedText, GrantsHold
<1>3. ASSUME NEW code, NEW now \in Times, VerifyTotp(code, now)
      PROVE  OneTime!Next \/ UNCHANGED <<granted, uses>>
  <2>1. kind = "totp" /\ Uses(<<Step(now)>>, TotpVerifier(seen, code, now)) /\ granted' = granted
    BY <1>3 DEF VerifyTotp
  <2>2. TotpVerifier(seen, code, now) => Outstanding(<<Step(now)>>)
    BY <2>1, TotpIsFit DEF FitTotp
  <2> QED
    BY <2>1, <2>2, UseRedeems, GrantsHold
<1>4. ASSUME NEW code \in Ids, NEW verifier, Exchange(code, verifier)
      PROVE  OneTime!Next \/ UNCHANGED <<granted, uses>>
  <2>1. kind = "pkce" /\ Uses(code, PkceAuthServer(codes, code, verifier)) /\ granted' = granted
    BY <1>4 DEF Exchange
  <2>2. PkceAuthServer(codes, code, verifier) => Outstanding(code)
    BY <2>1, ExchangeIsFit DEF FitExchange
  <2> QED
    BY <2>1, <2>2, UseRedeems, GrantsHold
<1>5. ASSUME NEW ok, NEW fit, NEW clear, Stateless(ok, fit, clear)
      PROVE  UNCHANGED <<granted, uses>>
  BY <1>5 DEF Stateless
<1> QED
  BY <1>1, <1>2, <1>3, <1>4, <1>5 DEF Verifier, Execute, Receive, Load, Validate, VerifyWebhook

\* No nonce, step or code is accepted more often than it was granted: the
\* verifiers implement SingleUse.
THEOREM GrantsAreUsedOnce == Spec => OnceOnly
<1>1. Init => OneTime!Init
  BY DEF Init, OneTime!Init
<1>2. CredentialInv /\ [Next]_vars => [OneTime!Next]_<<granted, uses>>
  BY HolderRefines, VerifierRefines DEF Next, vars
<1> QED
  BY <1>1, <1>2, CredentialInvariant, PTL DEF Spec, OneTime!Spec, OnceOnly
==============================================================================

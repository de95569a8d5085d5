--------------------------- MODULE IntegrityChecks ---------------------------
(***************************************************************************)
(* The harnesses whose subject trusts bytes, a token or a peer because of  *)
(* what vouches for it: a JWT and its algorithm, its audience, an          *)
(* attestation, a digest, a certificate, a ciphertext, a salted hash and a *)
(* package index; their planted bugs, their probes and their self-tests.   *)
(*                                                                         *)
(* Cryptography is symbolic: a signature is <<key, what is signed>>, and a  *)
(* digest of x is <<"digest", x>>.  A verifier that raises refuses.         *)
(***************************************************************************)
EXTENDS SelfTests

Digest(x) == <<"digest", x>>

------------------------------------------------------------------------------
(* jwt_alg_confusion: a token names the algorithm it claims to be signed with;
   the signature of an unsigned one is "empty". *)

CLAIMS == [sub |-> "alice", scope |-> "user", iss |-> "issuer", aud |-> "dep-test-kit"]
Jwt(alg, signature) == [alg |-> alg, claims |-> CLAIMS, signature |-> signature]
mint_rs256                  == Jwt("RS256", <<"private", CLAIMS>>)
forge_alg_none              == Jwt("none", "empty")
forge_hs256_with_public_key == Jwt("HS256", <<"public", CLAIMS>>)

StrictVerifier(token, audience, issuer) ==
  /\ token.alg = "RS256" /\ token.signature = <<"private", token.claims>>
  /\ token.claims.aud = audience /\ token.claims.iss = issuer
ConfusedVerifier(token, audience, issuer) ==
  CASE token.alg = "none"  -> TRUE
    [] token.alg = "HS256" -> token.signature = <<"public", token.claims>>
    [] OTHER               -> StrictVerifier(token, audience, issuer)
accepts_token(class, token) ==
  IF Oracle(class) THEN StrictVerifier(token, CLAIMS.aud, CLAIMS.iss)
  ELSE ConfusedVerifier(token, CLAIMS.aud, CLAIMS.iss)

\* PyJWT allows HS256 here and refuses a public key as its secret.
pyjwt_floor_rejects_confusion(token) == token.signature[1] = "public"

\* A neutered verify returns no claims, and raises for what it refused before.
jwt_alg_confusion(lies) ==
  LET Claims(token) ==
        IF accepts_token("oracle", token) /\ "StrictVerifier.verify" \notin lies
        THEN {token.claims} ELSE {}
  IN  <<accepts_token("oracle", mint_rs256), CLAIMS \in Claims(mint_rs256),
        ~accepts_token("oracle", forge_alg_none),
        ~accepts_token("oracle", forge_hs256_with_public_key),
        accepts_token("buggy", forge_hs256_with_public_key),
        accepts_token("buggy", forge_alg_none),
        pyjwt_floor_rejects_confusion(forge_hs256_with_public_key)>>

------------------------------------------------------------------------------
(* jwt_audience_binding and provenance_attestation: a valid signature over
   something else than what it is presented for. *)

Audience(class, expected, aud) == Oracle(class) => aud = expected
jwt_audience_binding(lies) ==
  LET Wrong(class) == Says("accepts_wrong_audience", lies, Audience(class, "service-B", "service-A"))
  IN  Checks(Audience("oracle", "service-B", "service-B"), Wrong("oracle"), Wrong("buggy"))

Attest(artifact) == <<"builder", Digest(artifact)>>
Provenance(class, artifact, attestation) ==
  attestation[1] = "builder" /\ (Oracle(class) => attestation[2] = Digest(artifact))
provenance_attestation(lies) ==
  LET Unbound(class) == Says("accepts_unbound_artifact", lies, Provenance(class, "other", Attest("good")))
  IN  Checks(Provenance("oracle", "good", Attest("good")), Unbound("oracle"), Unbound("buggy"))

------------------------------------------------------------------------------
(* subresource_integrity and crypto_correctness: bytes that changed on the way.
   AES-GCM decrypts what it encrypted or raises; AES-CTR decrypts anything. *)

LoadSri(class, data, expected) == Oracle(class) => Digest(data) = expected
subresource_integrity(lies) ==
  LET Tampered(class) == Says("loads_tampered_resource", lies, LoadSri(class, "tampered", Digest("intact")))
  IN  Checks(LoadSri("oracle", "intact", Digest("intact")), Tampered("oracle"), Tampered("buggy"))

Encrypt(msg) == [tag |-> <<"key", msg>>, body |-> msg]
Decrypts(class, box) == Oracle(class) => box.tag = <<"key", box.body>>
Opened(class, box, lies) ==
  IF Oracle(class) /\ "AeadBox.decrypt" \in lies THEN <<box.body, "\\x00">> ELSE <<box.body>>
crypto_correctness(lies) ==
  LET Box == Encrypt("msg")
      Tampered(class) == Decrypts(class, [Box EXCEPT !.body = "flipped"])
      Roundtrips(class) == Decrypts(class, Box) /\ Opened(class, Box, lies) = <<"msg">>
  IN  Checks(Roundtrips("oracle"), Tampered("oracle"), Tampered("buggy"))

------------------------------------------------------------------------------
(* tls_verification: a client that verifies gets an SSLError from a server with
   a bad certificate, and a status from any other. *)

Server(class, server) == server = "valid" \/ ~Oracle(class)
Fetches(class, scheme, server) == (Oracle(class) => scheme = "https") /\ Server(class, server)
tls_verification(lies) ==
  LET Invalid(class) == Says("accepts_invalid_cert", lies, Fetches(class, "https", "invalid"))
  IN  Checks(Fetches("oracle", "https", "valid"), Invalid("oracle"), Invalid("buggy"))

------------------------------------------------------------------------------
(* crypto_agility: the policy is enforced before the signature is believed. *)

MIN_RSA_BITS == 3072
APPROVED_HASHES == {"sha256", "sha384", "sha512"}
Agile(class, bits, hash, genuine) ==
  /\ Oracle(class) => bits >= MIN_RSA_BITS /\ hash \in APPROVED_HASHES
  /\ genuine
crypto_agility(lies) ==
  LET Deprecated(class) == Says("accepts_deprecated_signature", lies, Agile(class, 1024, "sha1", TRUE))
  IN  Checks(Agile("oracle", 3072, "sha256", TRUE), Deprecated("oracle"), Deprecated("buggy"))

------------------------------------------------------------------------------
(* password_hashing: two hashes of one password draw two salts, which the
   random source makes different. *)

HashPassword(class, password, salt) == IF Oracle(class) THEN <<salt, password>> ELSE <<"md5", password>>
VerifyPassword(class, password, stored) == HashPassword(class, password, stored[1]) = stored
password_hashing(lies) ==
  LET Identical(class) == Says("identical_hash_for_same_password", lies,
                               HashPassword(class, "hunter2", "salt1") = HashPassword(class, "hunter2", "salt2"))
  IN  Checks(VerifyPassword("oracle", "hunter2", HashPassword("oracle", "hunter2", "salt1")),
             Identical("oracle"), Identical("buggy"))

------------------------------------------------------------------------------
(* dependency_confusion: the highest version among the candidates a resolver
   considers; none considered, it raises. *)

INTERNAL_NAMES == {"internal-lib"}
Pool(class, name, candidates) ==
  IF Oracle(class) /\ name \in INTERNAL_NAMES THEN {c \in candidates : c.source = "internal"} ELSE candidates
Chosen(class, name, candidates) ==
  LET pool == Pool(class, name, candidates) IN
  {c \in pool : \A other \in pool : other.version <= c.version}
dependency_confusion(lies) ==
  LET Internal == [version |-> 1, source |-> "internal"]
      Public   == [version |-> 9, source |-> "public"]
      Beaten(class) == Says("resolves_public_over_internal", lies,
                            Chosen(class, "internal-lib", {Internal, Public}) = {Public})
  IN  Checks(Chosen("oracle", "internal-lib", {Internal}) = {Internal}, Beaten("oracle"), Beaten("buggy"))
==============================================================================

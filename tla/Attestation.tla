----------------------------- MODULE Attestation -----------------------------
(***************************************************************************)
(* Identity attestations (federation/attestation.js): one signed statement *)
(* that binds a capsule and a signer key to an identity, and the check a   *)
(* host makes of it with the issuer keys it has cached.                    *)
(*                                                                         *)
(* An attestation is a record                                              *)
(*   typ, alg, issuer, kid   the wrapper;                                  *)
(*   spec_version            the era of the signing domain (native);       *)
(*   claims                  what it states (native);                      *)
(*   signature               the key that signed and what it covers;       *)
(*   jwt                     the token (JWT profile), or Null.             *)
(* claims has capsule_id, signer_public_key, signer_role, subject and the  *)
(* two time claims.  A time claim is the form it is written in and the     *)
(* instant it names, in ticks of which a whole second has TicksPerSecond.  *)
(***************************************************************************)
EXTENDS Naturals, Sequences, FiniteSets

CONSTANTS
    Null,             \* an absent member
    TicksPerSecond,   \* JWT dates count whole seconds, everything else ticks
    Skew              \* five minutes: how far ahead issued_at may be, in ticks

ASSUME TimeAssumption == TicksPerSecond \in Nat \ {0} /\ Skew \in Nat

AttestationTyp == "capsule-identity-attestation"
CurrentVersion == "0.7"
JwtAlgs == {"ES256", "ES384", "RS256", "RS384"}

VERIFIED == "attestation_verified"
UNVERIFIED == "attestation_unverified"
REJECTED == "attestation_rejected"

\* versions.js classifyVersion, over one version of each kind.
ClassifyVersion(v) ==
    CASE v \in {"0.6", "0.7"} -> "known"
      [] v = "9.9"            -> "unknown_newer"
      [] v = "0.5"            -> "unknown_older"
      [] OTHER                -> "invalid"

\* Origin form and bare form of a DNS name are the same issuer.
NormalizeIssuer(issuer) == issuer[2]

-----------------------------------------------------------------------------
(* Time claims *)

Instant(n) == [form |-> "instant", at |-> n]     \* RFC 3339 text
NumericDate(n) == [form |-> "number", at |-> n]  \* seconds, of a JWT
Garbage == [form |-> "text", at |-> 0]           \* "whenever"
NoTime == [form |-> "absent", at |-> 0]

\* A date out of the range Date can represent is passed on as text.
JwtInstant(claim) ==
    IF claim.form = "number" THEN Instant(claim.at * TicksPerSecond) ELSE claim

Parses(claim) == claim.form = "instant"

\* Mutation of ExpiryErrors: text that is no instant never expires.
ExpiryOfParsed(claim, now) ==
    CASE claim = NoTime -> {"missing expires_at"}
      [] Parses(claim) /\ now >= claim.at -> {"attestation expired"}
      [] OTHER -> {}

ExpiryErrors(claim, now) ==
    CASE claim = NoTime -> {"missing expires_at"}
      [] claim # NoTime /\ ~Parses(claim) -> {"expires_at unparseable"}
      [] Parses(claim) /\ now >= claim.at -> {"attestation expired"}
      [] OTHER -> {}

IssuedErrors(claim, now) ==
    CASE claim = NoTime -> {}
      [] claim # NoTime /\ ~Parses(claim) -> {"issued_at unparseable"}
      [] Parses(claim) /\ claim.at > now + Skew -> {"issued in the future"}
      [] OTHER -> {}

-----------------------------------------------------------------------------
(* Trust roots.  A raw entry is native, a wrapped JWK, or a JWKS key. *)

\* What an entry of the configured set becomes: nothing, or one usable key.
NormalizeRoot(k) ==
    CASE k.hex \/ k.wrapped -> <<[kid |-> k.kid, alg |-> k.alg, key |-> k.key,
                                  hex |-> k.hex, jwk |-> k.wrapped]>>
      [] ~k.hex /\ ~k.wrapped /\ k.kty = "OKP" /\ k.crv = "Ed25519" ->
            <<[kid |-> k.kid, alg |-> "ed25519-jcs", key |-> k.key, hex |-> TRUE, jwk |-> TRUE]>>
      [] ~k.hex /\ ~k.wrapped /\ k.kty \notin {"OKP", Null} ->
            <<[kid |-> k.kid, alg |-> IF k.alg = Null THEN "ES256" ELSE k.alg,
               key |-> k.key, hex |-> FALSE, jwk |-> TRUE]>>
      [] OTHER -> <<>>

\* The usable keys, with the place in the list each comes from.
NormalizeTrustRoots(roots) ==
    {<<i, NormalizeRoot(roots[i])[1]>> : i \in {j \in DOMAIN roots : NormalizeRoot(roots[j]) # <<>>}}

\* Mutation of SelectKey: an unknown kid falls back to the keys of the algorithm.
SelectKeyOrAny(roots, kid, alg) ==
    LET byAlg == {r \in NormalizeTrustRoots(roots) : r[2].alg = alg}
    IN  IF byAlg = {} THEN {} ELSE {(CHOOSE r \in byAlg : TRUE)[2]}

\* Mutation of SelectKey: without a kid, the first key of the algorithm is taken.
SelectFirstKey(roots, kid, alg) ==
    LET byAlg == {r \in NormalizeTrustRoots(roots) : r[2].alg = alg}
        named == IF kid = Null THEN {r \in byAlg : \A q \in byAlg : r[1] <= q[1]}
                 ELSE {r \in byAlg : r[2].kid = kid}
    IN  IF Cardinality(named) = 1 THEN {r[2] : r \in named} ELSE {}

\* The one key the kid names, as a set: none when it is unknown or ambiguous.
SelectKey(roots, kid, alg) ==
    LET byAlg == {r \in NormalizeTrustRoots(roots) : r[2].alg = alg}
        named == IF kid = Null THEN byAlg ELSE {r \in byAlg : r[2].kid = kid}
    IN  IF Cardinality(named) = 1 THEN {r[2] : r \in named} ELSE {}

-----------------------------------------------------------------------------
(* Signing *)

\* What a signature covers: a native attestation without its signature (the
\* domain is that of the spec_version inside), or a token's header and payload.
SigningInput(d) == [d EXCEPT !.signature = Null]

Signed(d, key) == [d EXCEPT !.signature = [key |-> key, input |-> SigningInput(d)]]

\* The bytes as they are now, under this key.
SignedBy(d, key) == d.signature = [key |-> key, input |-> SigningInput(d)]

SignIdentityAttestation(claims, issuer, kid, key) ==
    Signed([typ |-> AttestationTyp, spec_version |-> CurrentVersion, alg |-> "ed25519-jcs",
            issuer |-> issuer, kid |-> kid, claims |-> claims, signature |-> Null,
            jwt |-> Null], key)

-----------------------------------------------------------------------------
(* verifyJwt *)

\* The early returns, in order, then every error of a token with a key.
VerifyJwt(t, roots, now, issuer, audience) ==
    LET keys   == SelectKey(roots, t.kid, t.alg)
        usable == {k \in keys : k.jwk}
        nowSec == now \div TicksPerSecond
        checks == {<<"jwt signature invalid",
                     ~\E k \in usable : SignedBy(t, k.key)>>,
                   <<"jwt expired", t.exp.form = "number" /\ nowSec >= t.exp.at>>,
                   <<"jwt not yet valid", t.nbf.form = "number" /\ nowSec < t.nbf.at>>,
                   <<"jwt issuer mismatch", NormalizeIssuer(t.iss) # NormalizeIssuer(issuer)>>,
                   <<"jwt audience mismatch", audience \notin t.aud>>}
    IN  CASE t.alg \notin JwtAlgs ->
                [errors |-> {"jwt unsupported alg"}, trustRootMissing |-> FALSE]
          [] t.alg \in JwtAlgs /\ usable = {} ->
                [errors |-> {"jwt no trust-root key"}, trustRootMissing |-> TRUE]
          [] OTHER ->
                [errors |-> {c[1] : c \in {d \in checks : d[2]}}, trustRootMissing |-> FALSE]

\* The token's payload in the shape of native claims.
ProjectedClaims(t) ==
    [capsule_id        |-> IF t.cap = Null THEN Null ELSE t.cap.capsule_id,
     signer_public_key |-> IF t.cap = Null THEN Null ELSE t.cap.signer_public_key,
     signer_role       |-> IF t.cap = Null THEN Null ELSE t.cap.signer_role,
     subject           |-> t.subject,
     issued_at         |-> JwtInstant(t.iat),
     expires_at        |-> JwtInstant(t.exp)]

-----------------------------------------------------------------------------
(* verifyIdentityAttestation *)

\* options: trustRoots, now, capsuleId, signerPublicKey, expectedIssuer, audience.
NativeCheck(a, options) ==
    LET keys  == SelectKey(options.trustRoots, a.kid, "ed25519-jcs")
        usable == {k \in keys : k.hex}
    IN  CASE ClassifyVersion(a.spec_version) = "invalid" ->
                [errors |-> {"spec_version malformed"}, unknown |-> FALSE]
          [] ClassifyVersion(a.spec_version) \in {"unknown_newer", "unknown_older"} ->
                [errors |-> {"spec_version unknown"}, unknown |-> TRUE]
          [] ClassifyVersion(a.spec_version) = "known" /\ usable = {} ->
                [errors |-> {"no trust-root key"}, unknown |-> TRUE]
          [] ClassifyVersion(a.spec_version) = "known" /\ usable # {} /\ a.signature = Null ->
                [errors |-> {"missing signature"}, unknown |-> FALSE]
          [] OTHER ->
                [errors |-> IF \E k \in usable : SignedBy(a, k.key) THEN {}
                            ELSE {"signature invalid"},
                 unknown |-> FALSE]

JwtCheck(a, options) ==
    LET result == VerifyJwt(a.jwt, options.trustRoots, options.now, options.expectedIssuer,
                            options.audience)
    IN  [errors |-> result.errors, unknown |-> result.trustRootMissing]

IsNative(a) == a.alg = "ed25519-jcs"

Claims(a) == IF IsNative(a) THEN a.claims ELSE ProjectedClaims(a.jwt)

BindingClaims(claims) ==
    [capsule_id |-> claims.capsule_id, signer_public_key |-> claims.signer_public_key,
     signer_role |-> claims.signer_role]

\* Mutation of BindingErrors: the capsule is not compared.
BindingOfKey(claims, options) ==
    LET binding == BindingClaims(claims)
        missing == {f \in DOMAIN binding : binding[f] = Null}
    IN  IF missing # {} THEN {<<"missing", f>> : f \in missing}
        ELSE {m \in {<<"mismatch", "signer_public_key">>} :
                 claims.signer_public_key # options.signerPublicKey}

\* All three present, and the two that name the artifact equal to it.
BindingErrors(claims, options) ==
    LET binding == BindingClaims(claims)
        missing == {f \in DOMAIN binding : binding[f] = Null}
    IN  IF missing # {} THEN {<<"missing", f>> : f \in missing}
        ELSE {m \in {<<"mismatch", "capsule_id">>} : claims.capsule_id # options.capsuleId}
             \cup {m \in {<<"mismatch", "signer_public_key">>} :
                      claims.signer_public_key # options.signerPublicKey}

\* Every message of the check but the ones of the key and the signature.
ContextErrors(a, options) ==
    {m \in {<<"issuer", "mismatch">>} :
        NormalizeIssuer(a.issuer) # NormalizeIssuer(options.expectedIssuer)}
    \cup {<<"time", m>> : m \in ExpiryErrors(Claims(a).expires_at, options.now)
                               \cup IssuedErrors(Claims(a).issued_at, options.now)}
    \cup BindingErrors(Claims(a), options)

KeyCheck(a, options) == IF IsNative(a) THEN NativeCheck(a, options) ELSE JwtCheck(a, options)

Rejection == [status |-> REJECTED, identity |-> Null]

\* Mutation of StatusFor: a missing key outweighs what is known to be wrong.
StatusOfMissingKey(key, context) ==
    CASE key.errors = {} /\ context = {} -> VERIFIED
      [] key.unknown -> UNVERIFIED
      [] OTHER -> REJECTED

\* Unknown only when the missing key or version is the one thing reported.
StatusFor(key, context) ==
    CASE key.errors = {} /\ context = {} -> VERIFIED
      [] key.unknown /\ Cardinality(key.errors) = 1 /\ context = {} -> UNVERIFIED
      [] OTHER -> REJECTED

VerifyIdentityAttestation(a, options) ==
    IF a.typ # AttestationTyp \/ (~IsNative(a) /\ a.jwt = Null)
    THEN Rejection
    ELSE LET status == StatusFor(KeyCheck(a, options), ContextErrors(a, options))
         IN  [status |-> status, identity |-> IF status = VERIFIED THEN Claims(a) ELSE Null]

=============================================================================

------------------------- MODULE AttestationVectors -------------------------
(***************************************************************************)
(* The identity-attestation vectors (tools/generate-attestation-vectors    *)
(* .mjs): each one an attestation, the trust roots a host holds, and the   *)
(* status every implementation reproduces.                                 *)
(***************************************************************************)
EXTENDS Attestation

ISSUER == <<"https", "capsules.example">>
KID == "issuer-key-1"
NOW == 1000
AYearLater == Instant(NOW + 365)

NativeRoot(kid, key) ==
    [kid |-> kid, alg |-> "ed25519-jcs", key |-> key, hex |-> TRUE, wrapped |-> FALSE,
     kty |-> Null, crv |-> Null]
OkpRoot(kid, key) ==
    [kid |-> kid, alg |-> "EdDSA", key |-> key, hex |-> FALSE, wrapped |-> FALSE,
     kty |-> "OKP", crv |-> "Ed25519"]

DefaultRoots == <<NativeRoot(KID, "issuer-seed")>>

DefaultClaims ==
    [capsule_id |-> "capsule", signer_public_key |-> "signer", signer_role |-> "originator",
     subject |-> [org_role |-> "admin"], issued_at |-> Instant(NOW), expires_at |-> AYearLater]

Attest(claims, issuer, kid) == SignIdentityAttestation(claims, issuer, kid, "issuer-seed")

\* Coherent under its own era's domain: signed with the version inside.
AttestDeclaringVersion(version) ==
    Signed([Attest(DefaultClaims, ISSUER, KID) EXCEPT !.spec_version = version,
                                                      !.signature = Null], "issuer-seed")

FrozenV06Attestation == AttestDeclaringVersion("0.6")

Valid == Attest(DefaultClaims, ISSUER, KID)

\* One row of the document, and the expectation the file states.
V(name, roots, attestation, status) ==
    [name |-> name, roots |-> roots, attestation |-> attestation, status |-> status]

AttestationVectorSet ==
    {V("valid", DefaultRoots, Valid, VERIFIED),
     V("valid-previous-spec-version", DefaultRoots, FrozenV06Attestation, VERIFIED),
     V("spec-version-unknown-newer", DefaultRoots, AttestDeclaringVersion("9.9"), UNVERIFIED),
     V("valid-okp-jwk-trust-root", <<OkpRoot(KID, "issuer-seed")>>, Valid, VERIFIED),
     V("no-binding-claims", DefaultRoots,
       [Valid EXCEPT !.claims.capsule_id = Null, !.claims.signer_public_key = Null], REJECTED),
     V("capsule-id-replay", DefaultRoots,
       Attest([DefaultClaims EXCEPT !.capsule_id = "other-capsule"], ISSUER, KID), REJECTED),
     V("signer-key-mismatch", DefaultRoots,
       Attest([DefaultClaims EXCEPT !.signer_public_key = "dd"], ISSUER, KID), REJECTED),
     V("expired", DefaultRoots,
       Attest([DefaultClaims EXCEPT !.expires_at = Instant(NOW - 1)], ISSUER, KID), REJECTED),
     V("expires-at-unparseable", DefaultRoots,
       Attest([DefaultClaims EXCEPT !.expires_at = Garbage], ISSUER, KID), REJECTED),
     V("tampered-claims", DefaultRoots,
       [Valid EXCEPT !.claims.subject.org_role = "superadmin"], REJECTED),
     V("issuer-mismatch", DefaultRoots,
       Attest(DefaultClaims, <<"https", "other.example">>, KID), REJECTED),
     V("unknown-kid", <<NativeRoot(KID, "issuer-seed"), NativeRoot("issuer-key-2", "other-seed")>>,
       Attest(DefaultClaims, ISSUER, "issuer-key-retired"), UNVERIFIED),
     V("no-trust-roots", <<>>, Valid, UNVERIFIED)}

\* The context every vector is checked in.
Context(roots) ==
    [trustRoots |-> roots, now |-> NOW, capsuleId |-> "capsule", signerPublicKey |-> "signer",
     expectedIssuer |-> ISSUER, audience |-> Null]

\* The model's verdict on every vector is the one the repository publishes.
AttestationVectorsReproduced ==
    \A v \in AttestationVectorSet :
        LET result == VerifyIdentityAttestation(v.attestation, Context(v.roots))
        IN  /\ result.status = v.status
            /\ (result.identity # Null) = (v.status = VERIFIED)

=============================================================================

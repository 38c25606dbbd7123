------------------------------ MODULE Federation ------------------------------
(***************************************************************************)
(* The federation overlay at work (federation/*.js).  Issuers publish and  *)
(* rotate keys and sign attestations; attestations travel as ordinary      *)
(* files, may be edited and arrive at any time in any order; a host        *)
(* refreshes its cache of issuer keys in two awaited fetches, checks       *)
(* attestations with whatever it has cached, collects the identities that  *)
(* verified and evaluates its signer policy over that list.                *)
(*                                                                         *)
(* The host keeps one set of trust roots per issuer it has configured.  An *)
(* issuer's clock is not the host's: it writes whatever instants it likes. *)
(***************************************************************************)
EXTENDS Attestation

CONSTANTS
    Issuers,         \* DNS identities
    Capsules,
    Signers,         \* envelope keys
    Statements,      \* the claims an issuer is asked to attest, without times
    Times,           \* the instants and dates issuers write, past or ahead
    Audience,        \* the verifying host
    Policies,        \* each a sequence of requirements
    VerifyResults,   \* signer rows verifyCapsule may have reported
    MaxTime, MaxKeys, MaxIssued, MaxEdits    \* bounds of the instance

ASSUME FederationAssumption ==
    /\ Times \subseteq Nat
    /\ MaxTime \in Nat /\ MaxKeys \in Nat /\ MaxIssued \in Nat /\ MaxEdits \in Nat

\* Capsules and signers have a name.
ASSUME NamesAssumption == Null \notin Capsules \cup Signers

VARIABLES
    clock,
    keys,          \* issuer -> how many attestation keys it has had
    published,     \* issuer -> its JWKS: a sequence of raw entries
    fetched,       \* issuer -> the metadata document of a refresh under way, or Null
    cache,         \* issuer -> the raw entries the host holds
    circulating,   \* attestation documents on their way
    issued,        \* every signature an issuer made: key and signed input
    edits,
    identities     \* attestedSigners: the verified claims, in order of arrival

vars == <<clock, keys, published, fetched, cache, circulating, issued, edits, identities>>
worldVars == <<keys, published, circulating, issued, edits>>

\* kids are only unique within an issuer.
Key(issuer, n) == <<issuer, n>>
KeysOf(issuer) == {Key(issuer, n) : n \in 1..MaxKeys}

Okp(issuer, n) ==
    [kty |-> "OKP", crv |-> "Ed25519", alg |-> Null, kid |-> n, key |-> Key(issuer, n),
     hex |-> FALSE, wrapped |-> FALSE]
Ec(issuer, n) ==
    [kty |-> "EC", crv |-> "P-256", alg |-> Null, kid |-> n, key |-> Key(issuer, n),
     hex |-> FALSE, wrapped |-> FALSE]

Host(issuer) == <<"https", issuer>>     \* origin form
Bare(issuer) == <<"dns", issuer>>       \* bare DNS form

Init ==
    /\ clock = 0
    /\ keys = [i \in Issuers |-> 1]
    /\ published = [i \in Issuers |-> <<Okp(i, 1), Ec(i, 1)>>]
    /\ fetched = [i \in Issuers |-> Null]
    /\ cache = [i \in Issuers |-> <<>>]
    /\ circulating = {}
    /\ issued = {}
    /\ edits = 0
    /\ identities = <<>>

Tick ==
    /\ clock < MaxTime
    /\ clock' = clock + 1
    /\ UNCHANGED <<worldVars, fetched, cache, identities>>

-----------------------------------------------------------------------------
(* Issuers *)

\* A new key under a new kid; the old one stays published for a while or not.
Rotate(i) ==
    /\ keys[i] < MaxKeys
    /\ keys' = [keys EXCEPT ![i] = @ + 1]
    /\ \E kept \in {<<>>, published[i]} :
           published' = [published EXCEPT
                            ![i] = kept \o <<Okp(i, keys[i] + 1), Ec(i, keys[i] + 1)>>]
    /\ UNCHANGED <<clock, fetched, cache, circulating, issued, edits, identities>>

Issue(document, signature) ==
    /\ Cardinality(issued) < MaxIssued
    /\ circulating' = circulating \cup {document}
    /\ issued' = issued \cup {signature}
    /\ UNCHANGED <<clock, keys, published, fetched, cache, edits, identities>>

\* A time claim is what the caller passes: an instant, some text, or nothing.
TimeClaims == {Instant(t) : t \in Times} \cup {Garbage, NoTime}
TokenDates == {NumericDate(t) : t \in Times} \cup TimeClaims

ClaimsOf(statement) ==
    {[capsule_id |-> statement.capsule_id, signer_public_key |-> statement.signer_public_key,
      signer_role |-> statement.signer_role, subject |-> statement.subject,
      issued_at |-> issued_at, expires_at |-> expires_at] :
        issued_at \in TimeClaims, expires_at \in TimeClaims}

\* A provider's payload: the binding object is absent from a raw session token.
PayloadsOf(statement) ==
    {[cap |-> cap, subject |-> statement.subject, iat |-> iat, exp |-> exp, nbf |-> nbf] :
        cap \in {Null, BindingClaims(statement)},
        iat \in TokenDates, exp \in TokenDates, nbf \in TokenDates}

\* signIdentityAttestation with one of the issuer's keys; the caller names it or not.
IssueNative(i, claims, kid, n) ==
    LET a == SignIdentityAttestation(claims, Host(i), kid, Key(i, n))
    IN  /\ \A f \in {"capsule_id", "signer_public_key", "signer_role", "subject"} : claims[f] # Null
        /\ Issue(a, a.signature)

\* A provider's token, wrapped; its header names the key or not.
IssueJwt(i, payload, kid, n) ==
    LET t == Signed([alg |-> "ES256", kid |-> kid, iss |-> Host(i), aud |-> {Audience},
                     cap |-> payload.cap, subject |-> payload.subject, iat |-> payload.iat,
                     exp |-> payload.exp, nbf |-> payload.nbf, signature |-> Null], Key(i, n))
    IN  Issue([typ |-> AttestationTyp, spec_version |-> CurrentVersion, alg |-> "jwt",
               issuer |-> Bare(i), kid |-> Null, claims |-> Null, signature |-> Null,
               jwt |-> t], t.signature)

-----------------------------------------------------------------------------
(* On the way: a copy in which one member is another *)

EditedCopies(a) ==
    {[a EXCEPT !.issuer = Bare(i)] : i \in Issuers}
    \cup {[a EXCEPT !.kid = kid] : kid \in {Null} \cup 1..MaxKeys}
    \cup {[a EXCEPT !.spec_version = v] : v \in {"9.9", "v1"}}
    \cup (IF IsNative(a)
          THEN {[a EXCEPT !.claims.capsule_id = c] : c \in Capsules \cup {Null}}
               \cup {[a EXCEPT !.claims.expires_at = time] :
                        time \in {Instant(MaxTime + 1), Garbage, NoTime}}
               \cup {[a EXCEPT !.signature = Null]}
          ELSE {[a EXCEPT !.jwt.aud = {}], [a EXCEPT !.jwt.exp = Instant(MaxTime + 1)]}
               \cup {[a EXCEPT !.jwt.kid = kid] : kid \in {Null} \cup 1..MaxKeys}
               \cup {[a EXCEPT !.jwt.iss = Host(i)] : i \in Issuers})

Edit ==
    /\ edits < MaxEdits
    /\ \E a \in circulating : \E b \in EditedCopies(a) \ {a} : circulating' = circulating \cup {b}
    /\ edits' = edits + 1
    /\ UNCHANGED <<clock, keys, published, fetched, cache, issued, identities>>

-----------------------------------------------------------------------------
(* The host refreshes its trust roots (discovery.js): two awaits, anything *)
(* may happen between them, and either may fail.                           *)

\* What the origin of i may serve: its own document in either form, one naming
\* somebody else, or one pointing to another origin.
Served(i) ==
    [issuer : {Host(j) : j \in Issuers}, jwks : {published[j] : j \in Issuers}, jwks_uri : {Null}]
    \cup [issuer : {Host(i)}, jwks : {Null}, jwks_uri : {Host(j) : j \in Issuers} \cup {Null}]

\* An origin only has its own keys to inline: documents with another issuer's
\* keys name that issuer.
CanServe(i, document) ==
    document.jwks # Null => document.jwks = published[NormalizeIssuer(document.issuer)]

\* A document naming another issuer than the one it was fetched from throws.
FetchIssuerMetadata(i) ==
    /\ fetched[i] = Null
    /\ \E document \in Served(i) :
           /\ CanServe(i, document)
           /\ NormalizeIssuer(document.issuer) = i
           /\ fetched' = [fetched EXCEPT ![i] = document]
    /\ UNCHANGED <<clock, worldVars, cache, identities>>

\* Mutation of LoadTrustRoots: the keys are fetched from wherever jwks_uri points.
LoadTrustRootsAnywhere(i) ==
    /\ fetched[i] # Null
    /\ \/ /\ fetched[i].jwks # Null
          /\ cache' = [cache EXCEPT ![i] = fetched[i].jwks]
       \/ /\ fetched[i].jwks = Null
          /\ fetched[i].jwks_uri # Null
          /\ cache' = [cache EXCEPT ![i] = published[NormalizeIssuer(fetched[i].jwks_uri)]]
    /\ fetched' = [fetched EXCEPT ![i] = Null]
    /\ UNCHANGED <<clock, worldVars, identities>>

\* Inline keys as they were when the document was fetched; otherwise the keys
\* at jwks_uri as they are now, if that is on the issuer's own origin.
LoadTrustRoots(i) ==
    /\ fetched[i] # Null
    /\ \/ /\ fetched[i].jwks # Null
          /\ cache' = [cache EXCEPT ![i] = fetched[i].jwks]
       \/ /\ fetched[i].jwks = Null
          /\ fetched[i].jwks_uri # Null
          /\ NormalizeIssuer(fetched[i].jwks_uri) = NormalizeIssuer(fetched[i].issuer)
          /\ cache' = [cache EXCEPT ![i] = published[NormalizeIssuer(fetched[i].jwks_uri)]]
    /\ fetched' = [fetched EXCEPT ![i] = Null]
    /\ UNCHANGED <<clock, worldVars, identities>>

\* A failed fetch, no keys, or a foreign jwks_uri: the throw leaves the cache.
AbandonRefresh(i) ==
    /\ fetched[i] # Null
    /\ fetched' = [fetched EXCEPT ![i] = Null]
    /\ UNCHANGED <<clock, worldVars, cache, identities>>

-----------------------------------------------------------------------------
(* The host checks attestations and keeps the identities that verified *)

Options(i, c, s) ==
    [trustRoots |-> cache[i], now |-> clock, capsuleId |-> c, signerPublicKey |-> s,
     expectedIssuer |-> Bare(i), audience |-> Audience]

Result(a, i, c, s) == VerifyIdentityAttestation(a, Options(i, c, s))

\* Once per identity: a host has no reason to collect the same one twice.
Check(a, i, c, s) ==
    /\ Result(a, i, c, s).status = VERIFIED
    /\ \A k \in DOMAIN identities : identities[k].claims # Result(a, i, c, s).identity
    /\ identities' = Append(identities, [claims |-> Result(a, i, c, s).identity, issuer |-> i])
    /\ UNCHANGED <<clock, worldVars, fetched, cache>>

Next ==
    \/ Tick
    \/ \E i \in Issuers :
          \/ Rotate(i) \/ FetchIssuerMetadata(i) \/ LoadTrustRoots(i) \/ AbandonRefresh(i)
          \/ \E statement \in Statements, n \in 1..keys[i] : \E kid \in {Null, n} :
                \/ \E claims \in ClaimsOf(statement) : IssueNative(i, claims, kid, n)
                \/ \E payload \in PayloadsOf(statement) : IssueJwt(i, payload, kid, n)
          \/ \E a \in circulating, c \in Capsules, s \in Signers : Check(a, i, c, s)
    \/ Edit

Spec == Init /\ [][Next]_vars

-----------------------------------------------------------------------------
(* evaluateSignerPolicy (policy.js) *)

TrustedKeys(rows) == {rows[k].public_key : k \in {j \in DOMAIN rows : rows[j].valid /\ rows[j].trusted}}

\* attestByKey: a later attestation of the same key replaces the earlier one.
AttestationOf(key, attested, c) ==
    LET own == {k \in DOMAIN attested : attested[k].signer_public_key = key
                                        /\ attested[k].capsule_id = c}
    IN  IF own = {} THEN Null ELSE attested[CHOOSE k \in own : \A j \in own : j <= k]

\* Mutation of Hits: every attestation of the role counts, not every key.
HitsByAttestation(requirement, rows, attested, c) ==
    {k \in DOMAIN attested :
        /\ attested[k].capsule_id = c
        /\ attested[k].signer_role = requirement.role
        /\ requirement.org_role # Null => attested[k].subject.org_role = requirement.org_role}

\* Mutation of Hits: a key attested twice counts for both roles.
HitsByAnyAttestation(requirement, rows, attested, c) ==
    {key \in TrustedKeys(rows) : \E k \in DOMAIN attested :
        /\ attested[k].capsule_id = c
        /\ attested[k].signer_public_key = key
        /\ attested[k].signer_role = requirement.role
        /\ requirement.org_role # Null => attested[k].subject.org_role = requirement.org_role}

\* The trusted keys whose attestation has the required role.
Hits(requirement, rows, attested, c) ==
    {key \in TrustedKeys(rows) :
        LET att == AttestationOf(key, attested, c)
        IN  /\ att # Null
            /\ att.signer_role = requirement.role
            /\ requirement.org_role # Null => att.subject.org_role = requirement.org_role}

\* An attestation bound to another capsule fails the policy, whatever is met.
Satisfied(policy, rows, attested, c) ==
    /\ \A k \in DOMAIN attested : attested[k].capsule_id = c
    /\ \A k \in DOMAIN policy :
          Cardinality(Hits(policy[k], rows, attested, c)) >= policy[k].quorum

-----------------------------------------------------------------------------
(* Properties *)

OwnerOf(key) == key[1]

\* What a signature states, in the shape of claims.
Stated(input) == IF "claims" \in DOMAIN input THEN input.claims ELSE ProjectedClaims(input)

\* The issuer itself signed these binding claims, still valid at time now.
IssuedBy(i, claims) ==
    \E sig \in issued : OwnerOf(sig.key) = i /\ Stated(sig.input) = claims

\* The keys the host holds for an issuer are that issuer's: no document served
\* elsewhere or pointing elsewhere put one there (discovery.js).
RootsComeFromTheirIssuer ==
    \A i \in Issuers : \A k \in DOMAIN cache[i] : OwnerOf(cache[i][k].key) = i

\* attestation_verified is said only of what the expected issuer signed for
\* this very capsule and signer and what has not expired, whichever member was
\* edited on the way and whatever form the expiry was written in.
VerifiedWasIssued ==
    \A a \in circulating, i \in Issuers, c \in Capsules, s \in Signers :
        Result(a, i, c, s).status = VERIFIED =>
            /\ Result(a, i, c, s).identity = Claims(a)
            /\ IssuedBy(i, Claims(a))
            /\ Claims(a).capsule_id = c
            /\ Claims(a).signer_public_key = s
            /\ clock < Claims(a).expires_at.at

\* The issuer signed the document exactly as it is, for this capsule and signer.
Authentic(a, i, c, s) ==
    /\ \E sig \in issued :
          /\ OwnerOf(sig.key) = i
          /\ IF IsNative(a) THEN a.signature = sig /\ sig.input = SigningInput(a)
             ELSE a.jwt.signature = sig /\ sig.input = SigningInput(a.jwt)
    /\ a.issuer[2] = i
    /\ Claims(a).capsule_id = c
    /\ Claims(a).signer_public_key = s
    /\ Claims(a).signer_role # Null

\* By the host's clock its time has come: it was not issued further ahead than
\* the skew allows, and the second a token starts at has been reached.
Begun(a) ==
    /\ \/ Claims(a).issued_at = NoTime
       \/ Parses(Claims(a).issued_at) /\ Claims(a).issued_at.at <= clock + Skew
    /\ ~IsNative(a) /\ a.jwt.nbf.form = "number" => a.jwt.nbf.at <= clock \div TicksPerSecond

Unexpired(a) == Parses(Claims(a).expires_at) /\ clock < Claims(a).expires_at.at

SigningKey(a) == IF IsNative(a) THEN a.signature.key ELSE a.jwt.signature.key

NamesItsKey(a) == (IF IsNative(a) THEN a.kid ELSE a.jwt.kid) # Null

HeldKeys(i) == {cache[i][k].key : k \in DOMAIN cache[i]}

\* The host's only key is not the one that signed, and nothing tells it so.
TakenForAForgery(a, i) ==
    ~NamesItsKey(a) /\ \E other \in HeldKeys(i) \ {SigningKey(a)} : HeldKeys(i) = {other}

Recognised(a, i) ==
    /\ SigningKey(a) \in HeldKeys(i)
    /\ NamesItsKey(a) \/ HeldKeys(i) = {SigningKey(a)}

\* The firewall of the overlay: an authentic attestation whose time is now is no
\* negative signal.  It verifies when the host recognises its key, and while the
\* host does not (not fetched yet, rotated since, one of several and not named)
\* the identity is unknown (spec/federation.md).  The one exception is a document
\* without a kid at a host whose only key is another one, older or newer than the
\* one that signed: its signature is called invalid.
GenuineFollowsItsKey ==
    \A a \in circulating, i \in Issuers, c \in Capsules, s \in Signers :
        Authentic(a, i, c, s) /\ Begun(a) /\ Unexpired(a) =>
            Result(a, i, c, s).status =
                CASE Recognised(a, i) -> VERIFIED
                  [] TakenForAForgery(a, i) -> REJECTED
                  [] OTHER -> UNVERIFIED

\* A verdict changes for a cause only, as time passes and refreshes end.  What
\* verified goes on to verify while the host recognises its key, until it expires;
\* without the key it is unknown, and rejected only if it names none and one other
\* key is left.  A rejection becomes a verification only for a document whose time
\* had not come, or that was taken for a forgery until a refresh brought its key;
\* an edited, expired or foreign one never recovers, whatever issuers rotate and
\* servers answer.  (For a capsule or signer it does not name, a document never
\* verifies at all.)
VerdictsChangeForCause ==
    [][\A a \in circulating, i \in Issuers : clock' # clock \/ cache'[i] # cache[i] =>
          \A c \in Capsules, s \in Signers :
              Claims(a).capsule_id = c /\ Claims(a).signer_public_key = s =>
                  /\ Result(a, i, c, s).status = VERIFIED /\ clock' < Claims(a).expires_at.at =>
                         Result(a, i, c, s)'.status =
                             CASE Recognised(a, i)' -> VERIFIED
                               [] TakenForAForgery(a, i)' -> REJECTED
                               [] OTHER -> UNVERIFIED
                  /\ Result(a, i, c, s).status = REJECTED
                     /\ Result(a, i, c, s)'.status = VERIFIED =>
                         ~Begun(a) \/ TakenForAForgery(a, i)]_vars

\* "Unknown" never covers up what the host can see to be wrong: a foreign
\* issuer, another capsule or signer, an expiry in the past or unreadable.
UnverifiedIsNotNegative ==
    \A a \in circulating, i \in Issuers, c \in Capsules, s \in Signers :
        Result(a, i, c, s).status = UNVERIFIED =>
            /\ a.issuer[2] = i
            /\ Claims(a).capsule_id = c
            /\ Claims(a).signer_public_key = s
            /\ Parses(Claims(a).expires_at)
            /\ clock < Claims(a).expires_at.at

Attested == [k \in DOMAIN identities |-> identities[k].claims]

\* Two roles of a satisfied policy are never filled by the same key, whatever it
\* was attested as and in whatever order the attestations came in: the later
\* attestation of a key takes the place of the earlier one.
DutiesAreSeparate ==
    \A policy \in Policies, rows \in VerifyResults, c \in Capsules :
        Satisfied(policy, rows, Attested, c) =>
            \A q, r \in DOMAIN policy :
                policy[q].role # policy[r].role =>
                    Hits(policy[q], rows, Attested, c) \cap Hits(policy[r], rows, Attested, c) = {}

\* A satisfied policy has, for every requirement, enough distinct trusted keys
\* that the issuer attested in that role for this capsule: rows of one key,
\* several attestations of one key and identities collected for other capsules
\* never add up to a quorum.
SatisfiedIsBacked ==
    \A policy \in Policies, rows \in VerifyResults, c \in Capsules :
        Satisfied(policy, rows, Attested, c) =>
            \A r \in DOMAIN policy : \E quorum \in SUBSET Signers :
                /\ Cardinality(quorum) >= policy[r].quorum
                /\ \A key \in quorum :
                      /\ \E k \in DOMAIN rows : /\ rows[k].public_key = key
                                                /\ rows[k].valid
                                                /\ rows[k].trusted
                      /\ \E sig \in issued :
                            /\ Stated(sig.input).capsule_id = c
                            /\ Stated(sig.input).signer_public_key = key
                            /\ Stated(sig.input).signer_role = policy[r].role
                            /\ policy[r].org_role # Null =>
                                  Stated(sig.input).subject.org_role = policy[r].org_role

=============================================================================

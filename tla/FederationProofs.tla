--------------------------- MODULE FederationProofs ---------------------------
(***************************************************************************)
(* Proofs about Federation, for every set of issuers, capsules, signers    *)
(* and statements, and however many keys, signatures and edits there are.  *)
(***************************************************************************)
EXTENDS Federation, DataLemmas, FiniteSetTheorems, SequenceTheorems, TLAPS

RootEntries(i) == {Okp(i, n) : n \in Nat} \cup {Ec(i, n) : n \in Nat}

KeysInv ==
    /\ keys = [i \in Issuers |-> keys[i]]
    /\ \A i \in Issuers : keys[i] \in Nat

PublishedInv ==
    /\ published = [i \in Issuers |-> published[i]]
    /\ \A i \in Issuers : published[i] \in Seq(RootEntries(i))

CacheInv ==
    /\ cache = [i \in Issuers |-> cache[i]]
    /\ \A i \in Issuers : cache[i] \in Seq(RootEntries(i))

FetchedInv ==
    /\ fetched = [i \in Issuers |-> fetched[i]]
    /\ \A i \in Issuers :
          fetched[i] # Null =>
              /\ NormalizeIssuer(fetched[i].issuer) = i
              /\ fetched[i].jwks # Null => fetched[i].jwks \in Seq(RootEntries(i))

(* Every list of keys the host may come to hold for an issuer has only that *)
(* issuer's keys in it, from the moment it is published to the cache.       *)
RootsInv == KeysInv /\ PublishedInv /\ CacheInv /\ FetchedInv

LEMMA RootsInit == Init => RootsInv
  <1> SUFFICES ASSUME Init
               PROVE  RootsInv
    OBVIOUS
  <1>1. ASSUME NEW i \in Issuers
        PROVE  <<Okp(i, 1), Ec(i, 1)>> \in Seq(RootEntries(i))
    <2>1. Okp(i, 1) \in RootEntries(i) /\ Ec(i, 1) \in RootEntries(i)
      BY Zenon DEF RootEntries
    <2> QED
      BY <2>1
  <1>2. KeysInv /\ FetchedInv
    BY DEF Init, KeysInv, FetchedInv
  <1>3. PublishedInv /\ CacheInv
    BY <1>1 DEF Init, PublishedInv, CacheInv
  <1> QED
    BY <1>2, <1>3 DEF RootsInv

LEMMA RotateKeepsRoots ==
    ASSUME RootsInv, NEW i \in Issuers, Rotate(i)
    PROVE  RootsInv'
  <1>1. Okp(i, keys[i] + 1) \in RootEntries(i) /\ Ec(i, keys[i] + 1) \in RootEntries(i)
    <2>1. keys[i] + 1 \in Nat
      BY DEF RootsInv, KeysInv
    <2> QED
      BY <2>1, Zenon DEF RootEntries
  <1>2. PICK kept \in {<<>>, published[i]} :
           published' = [published EXCEPT
                            ![i] = kept \o <<Okp(i, keys[i] + 1), Ec(i, keys[i] + 1)>>]
    BY DEF Rotate
  <1>3. kept \in Seq(RootEntries(i))
    <2>1. published[i] \in Seq(RootEntries(i)) /\ <<>> \in Seq(RootEntries(i))
      BY DEF RootsInv, PublishedInv
    <2> QED
      BY <1>2, <2>1
  <1>4. kept \o <<Okp(i, keys[i] + 1), Ec(i, keys[i] + 1)>> \in Seq(RootEntries(i))
    BY <1>1, <1>3
  <1>5. PublishedInv'
    BY <1>2, <1>4 DEF RootsInv, PublishedInv
  <1>6. KeysInv'
    BY DEF Rotate, RootsInv, KeysInv
  <1>7. CacheInv' /\ FetchedInv'
    BY DEF Rotate, RootsInv, CacheInv, FetchedInv
  <1> QED
    BY <1>5, <1>6, <1>7 DEF RootsInv

LEMMA FetchKeepsRoots ==
    ASSUME RootsInv, NEW i \in Issuers, FetchIssuerMetadata(i)
    PROVE  RootsInv'
  <1>1. PICK document \in Served(i) :
           /\ CanServe(i, document)
           /\ NormalizeIssuer(document.issuer) = i
           /\ fetched' = [fetched EXCEPT ![i] = document]
    BY DEF FetchIssuerMetadata
  <1>2. document.jwks # Null => document.jwks \in Seq(RootEntries(i))
    BY <1>1 DEF CanServe, RootsInv, PublishedInv
  <1>3. FetchedInv'
    BY <1>1, <1>2 DEF RootsInv, FetchedInv
  <1>4. KeysInv' /\ PublishedInv' /\ CacheInv'
    BY DEF FetchIssuerMetadata, worldVars, RootsInv, KeysInv, PublishedInv, CacheInv
  <1> QED
    BY <1>3, <1>4 DEF RootsInv

LEMMA LoadKeepsRoots ==
    ASSUME RootsInv, NEW i \in Issuers, LoadTrustRoots(i)
    PROVE  RootsInv'
  <1>1. PICK roots \in Seq(RootEntries(i)) : cache' = [cache EXCEPT ![i] = roots]
    <2>1. CASE fetched[i].jwks # Null /\ cache' = [cache EXCEPT ![i] = fetched[i].jwks]
      BY <2>1 DEF LoadTrustRoots, RootsInv, FetchedInv
    <2>2. CASE /\ NormalizeIssuer(fetched[i].jwks_uri) = NormalizeIssuer(fetched[i].issuer)
               /\ cache' = [cache EXCEPT
                              ![i] = published[NormalizeIssuer(fetched[i].jwks_uri)]]
      BY <2>2 DEF LoadTrustRoots, RootsInv, FetchedInv, PublishedInv
    <2> QED
      BY <2>1, <2>2 DEF LoadTrustRoots
  <1>2. CacheInv'
    BY <1>1 DEF RootsInv, CacheInv
  <1>3. FetchedInv'
    BY DEF LoadTrustRoots, RootsInv, FetchedInv
  <1>4. KeysInv' /\ PublishedInv'
    BY DEF LoadTrustRoots, worldVars, RootsInv, KeysInv, PublishedInv
  <1> QED
    BY <1>2, <1>3, <1>4 DEF RootsInv

LEMMA AbandonKeepsRoots ==
    ASSUME RootsInv, NEW i \in Issuers, AbandonRefresh(i)
    PROVE  RootsInv'
  <1>1. FetchedInv'
    BY DEF AbandonRefresh, RootsInv, FetchedInv
  <1>2. KeysInv' /\ PublishedInv' /\ CacheInv'
    BY DEF AbandonRefresh, worldVars, RootsInv, KeysInv, PublishedInv, CacheInv
  <1> QED
    BY <1>1, <1>2 DEF RootsInv

(* One step per action; the others leave every list of keys alone. *)
LEMMA RootsStep == RootsInv /\ [Next]_vars => RootsInv'
  <1> SUFFICES ASSUME RootsInv, [Next]_vars
               PROVE  RootsInv'
    OBVIOUS
  <1>1. ASSUME UNCHANGED <<keys, published, fetched, cache>>
        PROVE  RootsInv'
    BY <1>1 DEF RootsInv, KeysInv, PublishedInv, CacheInv, FetchedInv
  <1>2. ASSUME NEW i \in Issuers, NEW claims, NEW kid, NEW n,
               IssueNative(i, claims, kid, n) \/ IssueJwt(i, claims, kid, n)
        PROVE  UNCHANGED <<keys, published, fetched, cache>>
    BY <1>2 DEF IssueNative, IssueJwt, Issue
  <1>3. ASSUME NEW a, NEW i \in Issuers, NEW c, NEW s, Check(a, i, c, s)
        PROVE  UNCHANGED <<keys, published, fetched, cache>>
    BY <1>3 DEF Check, worldVars
  <1>4. Tick \/ Edit \/ UNCHANGED vars => UNCHANGED <<keys, published, fetched, cache>>
    BY DEF Tick, Edit, vars, worldVars
  <1> QED
    BY <1>1, <1>2, <1>3, <1>4, RotateKeepsRoots, FetchKeepsRoots, LoadKeepsRoots,
       AbandonKeepsRoots DEF Next

LEMMA RootsAlways == Spec => []RootsInv
  BY RootsInit, RootsStep, PTL DEF Spec

LEMMA RootsOwned == RootsInv => RootsComeFromTheirIssuer
  <1> SUFFICES ASSUME RootsInv, NEW i \in Issuers, NEW k \in DOMAIN cache[i]
               PROVE  OwnerOf(cache[i][k].key) = i
    BY DEF RootsComeFromTheirIssuer
  <1>1. cache[i][k] \in RootEntries(i)
    BY DEF RootsInv, CacheInv
  <1>2. \A n \in Nat : OwnerOf(Okp(i, n).key) = i /\ OwnerOf(Ec(i, n).key) = i
    BY DEF Okp, Ec, Key, OwnerOf
  <1> QED
    BY <1>1, <1>2 DEF RootEntries

(* However metadata documents and refreshes interleave with rotations, the *)
(* host never holds another issuer's key for an issuer (discovery.js).      *)
THEOREM RootsStayTheIssuers == Spec => []RootsComeFromTheirIssuer
  BY RootsAlways, RootsOwned, PTL

-----------------------------------------------------------------------------
(* What is in circulation.  A document is the shape its issuer gave it, and *)
(* its signature, if it has one, is one an issuer made.                     *)

AttestationFields ==
    {"typ", "spec_version", "alg", "issuer", "kid", "claims", "signature", "jwt"}
ClaimFields ==
    {"capsule_id", "signer_public_key", "signer_role", "subject", "issued_at", "expires_at"}
TokenFields == {"alg", "kid", "iss", "aud", "cap", "subject", "iat", "exp", "nbf", "signature"}

Function(f, fields) == DOMAIN f = fields /\ f = [x \in fields |-> f[x]]

Timed(claim) == claim.at \in Nat

NativeShape(a, signatures) ==
    /\ Function(a.claims, ClaimFields)
    /\ Timed(a.claims.issued_at) /\ Timed(a.claims.expires_at)
    /\ a.signature # Null => a.signature \in signatures

TokenShape(a, signatures) ==
    /\ Function(a.jwt, TokenFields)
    /\ Timed(a.jwt.iat) /\ Timed(a.jwt.exp) /\ Timed(a.jwt.nbf)
    /\ a.jwt.signature \in signatures

Shape(a, signatures) ==
    /\ Function(a, AttestationFields)
    /\ a.typ = AttestationTyp
    /\ a.alg \in {"ed25519-jcs", "jwt"}
    /\ IsNative(a) => NativeShape(a, signatures)
    /\ ~IsNative(a) => TokenShape(a, signatures)

WorldInv ==
    /\ clock \in Nat
    /\ \A i \in Issuers : keys[i] \in Nat
    /\ \A a \in circulating : Shape(a, issued)

(* New signatures take nothing from a document. *)
LEMMA ShapeGrows ==
    ASSUME NEW a, NEW old, NEW new, old \subseteq new, Shape(a, old)
    PROVE  Shape(a, new)
  BY DEF Shape, NativeShape, TokenShape

(* A member that is replaced leaves the others, and the shape, as they are. *)
LEMMA ReplacedMember ==
    ASSUME NEW f, NEW fields, Function(f, fields), NEW x \in fields, NEW v
    PROVE  /\ Function([f EXCEPT ![x] = v], fields)
           /\ [f EXCEPT ![x] = v][x] = v
           /\ \A y \in fields \ {x} : [f EXCEPT ![x] = v][y] = f[y]
  BY DEF Function

(* Whatever form an issuer writes a time in, it is about a natural number. *)
LEMMA WrittenTimes ==
    /\ \A claim \in TimeClaims : Timed(claim)
    /\ \A claim \in TokenDates : Timed(claim)
  <1>1. \A n \in Nat : Timed(Instant(n)) /\ Timed(NumericDate(n))
    BY DEF Instant, NumericDate, Timed
  <1>2. Timed(Garbage) /\ Timed(NoTime)
    BY DEF Garbage, NoTime, Timed
  <1>3. \A t \in Times : t \in Nat
    BY FederationAssumption
  <1>4. \A claim \in TimeClaims : Timed(claim)
    BY <1>1, <1>2, <1>3 DEF TimeClaims
  <1> QED
    BY <1>1, <1>3, <1>4 DEF TokenDates

LEMMA IssuedClaims ==
    ASSUME NEW statement, NEW claims \in ClaimsOf(statement)
    PROVE  Function(claims, ClaimFields)
           /\ claims.issued_at \in TimeClaims /\ claims.expires_at \in TimeClaims
  BY DEF ClaimsOf, Function, ClaimFields

LEMMA IssuedPayload ==
    ASSUME NEW statement, NEW payload \in PayloadsOf(statement)
    PROVE  payload.iat \in TokenDates /\ payload.exp \in TokenDates /\ payload.nbf \in TokenDates
  BY DEF PayloadsOf

LEMMA NativeIssueKeepsShape ==
    ASSUME WorldInv, NEW i \in Issuers, NEW statement, NEW claims \in ClaimsOf(statement),
           NEW kid, NEW n, IssueNative(i, claims, kid, n)
    PROVE  \A a \in circulating' : Shape(a, issued')
  <1> DEFINE a == SignIdentityAttestation(claims, Host(i), kid, Key(i, n))
  <1>1. circulating' = circulating \cup {a} /\ issued' = issued \cup {a.signature}
    BY DEF IssueNative, Issue
  <1>2. Function(a, AttestationFields) /\ a.typ = AttestationTyp
        /\ a.alg = "ed25519-jcs" /\ a.claims = claims
    BY DEF SignIdentityAttestation, Signed, Function, AttestationFields
  <1>3. /\ Function(claims, ClaimFields)
        /\ Timed(claims.issued_at) /\ Timed(claims.expires_at)
    BY IssuedClaims, WrittenTimes
  <1>4. a.signature \in issued'
    BY <1>1
  <1> HIDE DEF a
  <1>5. Shape(a, issued')
    BY <1>2, <1>3, <1>4 DEF Shape, NativeShape, IsNative
  <1>6. \A b \in circulating : Shape(b, issued')
    BY <1>1, ShapeGrows DEF WorldInv
  <1> QED
    BY <1>1, <1>5, <1>6

\* A token before it is signed, and signed and wrapped.
BlankToken(i, payload, kid) ==
    [alg |-> "ES256", kid |-> kid, iss |-> Host(i), aud |-> {Audience},
     cap |-> payload.cap, subject |-> payload.subject, iat |-> payload.iat,
     exp |-> payload.exp, nbf |-> payload.nbf, signature |-> Null]
Wrapped(i, t) ==
    [typ |-> AttestationTyp, spec_version |-> CurrentVersion, alg |-> "jwt",
     issuer |-> Bare(i), kid |-> Null, claims |-> Null, signature |-> Null, jwt |-> t]

LEMMA JwtIssue ==
    ASSUME NEW i, NEW payload, NEW kid, NEW n, IssueJwt(i, payload, kid, n)
    PROVE  LET t == Signed(BlankToken(i, payload, kid), Key(i, n))
           IN  /\ circulating' = circulating \cup {Wrapped(i, t)}
               /\ issued' = issued \cup {t.signature}
  BY DEF IssueJwt, Issue, BlankToken, Wrapped

LEMMA JwtIssueKeepsShape ==
    ASSUME WorldInv, NEW i \in Issuers, NEW statement, NEW payload \in PayloadsOf(statement),
           NEW kid, NEW n, IssueJwt(i, payload, kid, n)
    PROVE  \A a \in circulating' : Shape(a, issued')
  <1> DEFINE t == Signed(BlankToken(i, payload, kid), Key(i, n))
             a == Wrapped(i, t)
  <1>1. circulating' = circulating \cup {a} /\ issued' = issued \cup {t.signature}
    BY JwtIssue
  <1>2. Function(a, AttestationFields) /\ a.typ = AttestationTyp /\ a.alg = "jwt" /\ a.jwt = t
    BY DEF Wrapped, Function, AttestationFields
  <1>3. /\ Function(t, TokenFields)
        /\ t.iat = payload.iat /\ t.exp = payload.exp /\ t.nbf = payload.nbf
    BY DEF BlankToken, Signed, Function, TokenFields
  <1>4. Timed(t.iat) /\ Timed(t.exp) /\ Timed(t.nbf)
    BY <1>3, IssuedPayload, WrittenTimes
  <1> HIDE DEF a, t
  <1>5. Shape(a, issued')
    BY <1>1, <1>2, <1>3, <1>4 DEF Shape, TokenShape, IsNative
  <1>6. \A b \in circulating : Shape(b, issued')
    BY <1>1, ShapeGrows DEF WorldInv
  <1> QED
    BY <1>1, <1>5, <1>6

(* An edit replaces one member of a document, of its claims or of its token: *)
(* the signature stays the one it was, or goes.                              *)
LEMMA WrapperEditKeepsShape ==
    ASSUME NEW signatures, NEW a, Shape(a, signatures),
           NEW x \in {"issuer", "kid", "spec_version"}, NEW v
    PROVE  Shape([a EXCEPT ![x] = v], signatures)
  <1> DEFINE b == [a EXCEPT ![x] = v]
  <1>1. Function(b, AttestationFields) /\ \A y \in AttestationFields \ {x} : b[y] = a[y]
    BY ReplacedMember DEF Shape, AttestationFields
  <1>2. /\ b.typ = a.typ /\ b.alg = a.alg /\ b.claims = a.claims
        /\ b.signature = a.signature /\ b.jwt = a.jwt
    BY <1>1 DEF AttestationFields
  <1> HIDE DEF b
  <1>3. Shape(b, signatures)
    BY <1>1, <1>2 DEF Shape, NativeShape, TokenShape, IsNative
  <1> QED
    BY <1>3 DEF b

LEMMA ClaimEditKeepsShape ==
    ASSUME NEW signatures, NEW a, Shape(a, signatures), IsNative(a), NEW x \in ClaimFields, NEW v,
           x \in {"issued_at", "expires_at"} => Timed(v)
    PROVE  Shape([a EXCEPT !.claims = [a.claims EXCEPT ![x] = v]], signatures)
  <1> DEFINE claims == [a.claims EXCEPT ![x] = v]
             b == [a EXCEPT !.claims = claims]
  <1>1. Function(claims, ClaimFields) /\ claims[x] = v
        /\ \A y \in ClaimFields \ {x} : claims[y] = a.claims[y]
    BY ReplacedMember DEF Shape, NativeShape
  <1>2. Timed(claims.issued_at) /\ Timed(claims.expires_at)
    BY <1>1 DEF Shape, NativeShape, ClaimFields
  <1> HIDE DEF claims
  <1>3. Function(b, AttestationFields) /\ b.claims = claims
        /\ \A y \in AttestationFields \ {"claims"} : b[y] = a[y]
    <2>1. Function(a, AttestationFields) /\ "claims" \in AttestationFields
      BY DEF Shape, AttestationFields
    <2> QED
      BY <2>1, ReplacedMember
  <1>4. b.typ = a.typ /\ b.alg = a.alg /\ b.signature = a.signature
    BY <1>3 DEF AttestationFields
  <1> HIDE DEF b
  <1>5. Shape(b, signatures)
    BY <1>1, <1>2, <1>3, <1>4 DEF Shape, NativeShape, IsNative
  <1> QED
    BY <1>5 DEF b, claims

LEMMA TokenEditKeepsShape ==
    ASSUME NEW signatures, NEW a, Shape(a, signatures), ~IsNative(a),
           NEW x \in {"aud", "exp", "kid", "iss"}, NEW v, x = "exp" => Timed(v)
    PROVE  Shape([a EXCEPT !.jwt = [a.jwt EXCEPT ![x] = v]], signatures)
  <1> DEFINE t == [a.jwt EXCEPT ![x] = v]
             b == [a EXCEPT !.jwt = t]
  <1>1. Function(t, TokenFields) /\ t[x] = v /\ \A y \in TokenFields \ {x} : t[y] = a.jwt[y]
    BY ReplacedMember DEF Shape, TokenShape, TokenFields
  <1>2. Timed(t.iat) /\ Timed(t.exp) /\ Timed(t.nbf) /\ t.signature = a.jwt.signature
    BY <1>1 DEF Shape, TokenShape, TokenFields
  <1> HIDE DEF t
  <1>3. Function(b, AttestationFields) /\ b.jwt = t
        /\ \A y \in AttestationFields \ {"jwt"} : b[y] = a[y]
    <2>1. Function(a, AttestationFields) /\ "jwt" \in AttestationFields
      BY DEF Shape, AttestationFields
    <2>2. \A v1 : /\ Function([a EXCEPT !["jwt"] = v1], AttestationFields)
                  /\ [a EXCEPT !["jwt"] = v1]["jwt"] = v1
                  /\ \A y \in AttestationFields \ {"jwt"} : [a EXCEPT !["jwt"] = v1][y] = a[y]
      BY <2>1, ReplacedMember
    <2> QED
      BY <2>2
  <1>4. b.typ = a.typ /\ b.alg = a.alg
    BY <1>3 DEF AttestationFields
  <1> HIDE DEF b
  <1>5. Shape(b, signatures)
    BY <1>1, <1>2, <1>3, <1>4 DEF Shape, TokenShape, IsNative
  <1> QED
    BY <1>5 DEF b, t

LEMMA SignatureEditKeepsShape ==
    ASSUME NEW signatures, NEW a, Shape(a, signatures), IsNative(a)
    PROVE  Shape([a EXCEPT !.signature = Null], signatures)
  <1> DEFINE b == [a EXCEPT !.signature = Null]
  <1>1. Function(b, AttestationFields) /\ b.signature = Null
        /\ \A y \in AttestationFields \ {"signature"} : b[y] = a[y]
    <2>1. Function(a, AttestationFields) /\ "signature" \in AttestationFields
      BY DEF Shape, AttestationFields
    <2> QED
      BY <2>1, ReplacedMember
  <1>2. b.typ = a.typ /\ b.alg = a.alg /\ b.claims = a.claims
    BY <1>1 DEF AttestationFields
  <1> HIDE DEF b
  <1>3. Shape(b, signatures)
    BY <1>1, <1>2 DEF Shape, NativeShape, IsNative
  <1> QED
    BY <1>3 DEF b

LEMMA EditKeepsShape ==
    ASSUME WorldInv, Edit
    PROVE  \A a \in circulating' : Shape(a, issued')
  <1>1. PICK a \in circulating :
           \E b \in EditedCopies(a) \ {a} : circulating' = circulating \cup {b}
    BY DEF Edit
  <1>2. PICK b \in EditedCopies(a) : circulating' = circulating \cup {b}
    BY <1>1
  <1>3. issued' = issued /\ Shape(a, issued)
    BY <1>1 DEF Edit, WorldInv
  <1>4. Timed(Instant(MaxTime + 1)) /\ Timed(Garbage) /\ Timed(NoTime)
    BY FederationAssumption DEF Instant, Garbage, NoTime, Timed
  <1> SUFFICES Shape(b, issued)
    BY <1>2, <1>3 DEF WorldInv
  <1>5. CASE b \in {[a EXCEPT !.issuer = Bare(i)] : i \in Issuers}
                  \cup {[a EXCEPT !.kid = kid] : kid \in {Null} \cup 1..MaxKeys}
                  \cup {[a EXCEPT !.spec_version = v] : v \in {"9.9", "v1"}}
    <2>1. PICK x \in {"issuer", "kid", "spec_version"} : \E v : b = [a EXCEPT ![x] = v]
      BY <1>5
    <2>2. PICK v : b = [a EXCEPT ![x] = v]
      BY <2>1
    <2> QED
      BY <1>3, <2>2, WrapperEditKeepsShape
  <1>6. CASE /\ IsNative(a)
             /\ b \in {[a EXCEPT !.claims.capsule_id = c] : c \in Capsules \cup {Null}}
                     \cup {[a EXCEPT !.claims.expires_at = time] :
                              time \in {Instant(MaxTime + 1), Garbage, NoTime}}
    <2>1. PICK x \in {"capsule_id", "expires_at"} :
             \E v : /\ x = "expires_at" => Timed(v)
                    /\ b = [a EXCEPT !.claims = [a.claims EXCEPT ![x] = v]]
      BY <1>4, <1>6
    <2>2. PICK v : /\ x = "expires_at" => Timed(v)
                   /\ b = [a EXCEPT !.claims = [a.claims EXCEPT ![x] = v]]
      BY <2>1
    <2>3. x \in ClaimFields
      BY DEF ClaimFields
    <2> QED
      BY <1>3, <1>6, <2>2, <2>3, ClaimEditKeepsShape
  <1>7. CASE IsNative(a) /\ b = [a EXCEPT !.signature = Null]
    BY <1>3, <1>7, SignatureEditKeepsShape
  <1>8. CASE /\ ~IsNative(a)
             /\ b \in {[a EXCEPT !.jwt.aud = {}], [a EXCEPT !.jwt.exp = Instant(MaxTime + 1)]}
                     \cup {[a EXCEPT !.jwt.kid = kid] : kid \in {Null} \cup 1..MaxKeys}
                     \cup {[a EXCEPT !.jwt.iss = Host(i)] : i \in Issuers}
    <2>1. PICK x \in {"aud", "exp", "kid", "iss"} :
             \E v : /\ x = "exp" => Timed(v)
                    /\ b = [a EXCEPT !.jwt = [a.jwt EXCEPT ![x] = v]]
      BY <1>4, <1>8
    <2>2. PICK v : /\ x = "exp" => Timed(v)
                   /\ b = [a EXCEPT !.jwt = [a.jwt EXCEPT ![x] = v]]
      BY <2>1
    <2> QED
      BY <1>3, <1>8, <2>2, TokenEditKeepsShape
  <1> QED
    BY <1>2, <1>5, <1>6, <1>7, <1>8 DEF EditedCopies

LEMMA WorldInit == Init => WorldInv
  BY DEF Init, WorldInv

(* Time, keys and documents move apart: each action disturbs one of them. *)
LEMMA WorldStep == WorldInv /\ RootsInv' /\ [Next]_vars => WorldInv'
  <1> SUFFICES ASSUME WorldInv, RootsInv', [Next]_vars
               PROVE  WorldInv'
    OBVIOUS
  <1>1. \A i \in Issuers : keys'[i] \in Nat
    BY DEF RootsInv, KeysInv
  <1>2. clock' \in Nat
    <2>1. ASSUME NEW i \in Issuers,
                 Rotate(i) \/ FetchIssuerMetadata(i) \/ LoadTrustRoots(i) \/ AbandonRefresh(i)
          PROVE  clock' = clock
      BY <2>1 DEF Rotate, FetchIssuerMetadata, LoadTrustRoots, AbandonRefresh
    <2>2. ASSUME NEW i \in Issuers, NEW claims, NEW kid, NEW n,
                 IssueNative(i, claims, kid, n) \/ IssueJwt(i, claims, kid, n)
          PROVE  clock' = clock
      BY <2>2 DEF IssueNative, IssueJwt, Issue
    <2>3. ASSUME NEW a, NEW i \in Issuers, NEW c, NEW s, Check(a, i, c, s)
          PROVE  clock' = clock
      BY <2>3 DEF Check
    <2>4. Edit \/ UNCHANGED vars => clock' = clock
      BY DEF Edit, vars
    <2>5. Tick => clock' = clock + 1
      BY DEF Tick
    <2>6. clock' = clock \/ clock' = clock + 1
      BY <2>1, <2>2, <2>3, <2>4, <2>5 DEF Next
    <2> QED
      BY <2>6 DEF WorldInv
  <1>3. ASSUME UNCHANGED <<circulating, issued>>
        PROVE  \A a \in circulating' : Shape(a, issued')
    BY <1>3 DEF WorldInv
  <1>4. ASSUME NEW i \in Issuers,
               Rotate(i) \/ FetchIssuerMetadata(i) \/ LoadTrustRoots(i) \/ AbandonRefresh(i)
        PROVE  UNCHANGED <<circulating, issued>>
    BY <1>4 DEF Rotate, FetchIssuerMetadata, LoadTrustRoots, AbandonRefresh, worldVars
  <1>5. ASSUME NEW a, NEW i \in Issuers, NEW c, NEW s, Check(a, i, c, s)
        PROVE  UNCHANGED <<circulating, issued>>
    BY <1>5 DEF Check, worldVars
  <1>6. Tick \/ UNCHANGED vars => UNCHANGED <<circulating, issued>>
    BY DEF Tick, vars, worldVars
  <1>7. \A a \in circulating' : Shape(a, issued')
    BY <1>3, <1>4, <1>5, <1>6, NativeIssueKeepsShape, JwtIssueKeepsShape, EditKeepsShape DEF Next
  <1> QED
    BY <1>1, <1>2, <1>7 DEF WorldInv

LEMMA WorldAlways == Spec => [](RootsInv /\ WorldInv)
  <1>1. Init => RootsInv /\ WorldInv
    BY RootsInit, WorldInit
  <1>2. (RootsInv /\ WorldInv) /\ [Next]_vars => (RootsInv /\ WorldInv)'
    BY RootsStep, WorldStep
  <1> QED
    BY <1>1, <1>2, PTL DEF Spec

-----------------------------------------------------------------------------
(* What attestation_verified stands on. *)

(* The key a kid selects is one of those the host holds for the issuer. *)
LEMMA SelectedKeyIsTheIssuers ==
    ASSUME RootsInv, NEW i \in Issuers, NEW kid, NEW alg, NEW k \in SelectKey(cache[i], kid, alg)
    PROVE  OwnerOf(k.key) = i
  <1>1. PICK r \in NormalizeTrustRoots(cache[i]) : k = r[2]
    BY Zenon DEF SelectKey
  <1>2. PICK j \in DOMAIN cache[i] :
           NormalizeRoot(cache[i][j]) # <<>> /\ r = <<j, NormalizeRoot(cache[i][j])[1]>>
    BY <1>1 DEF NormalizeTrustRoots
  <1>3. NormalizeRoot(cache[i][j])[1].key = cache[i][j].key
    BY <1>2 DEF NormalizeRoot
  <1>4. OwnerOf(cache[i][j].key) = i
    BY RootsOwned DEF RootsComeFromTheirIssuer
  <1> QED
    BY <1>1, <1>2, <1>3, <1>4

(* The signature of a document covers its claims as they are now. *)
LEMMA SignedClaims ==
    ASSUME NEW a, NEW signatures, Shape(a, signatures)
    PROVE  IF IsNative(a) THEN Stated(SigningInput(a)) = Claims(a)
           ELSE Stated(SigningInput(a.jwt)) = Claims(a)
  <1>1. CASE IsNative(a)
    <2>1. Function(a, AttestationFields) /\ "signature" \in AttestationFields
          /\ "claims" \in AttestationFields \ {"signature"}
      BY DEF Shape, AttestationFields
    <2>2. /\ DOMAIN SigningInput(a) = AttestationFields
          /\ SigningInput(a).claims = a.claims
      BY <2>1, ReplacedMember DEF SigningInput, Function
    <2> QED
      BY <1>1, <2>1, <2>2 DEF Stated, Claims
  <1>2. CASE ~IsNative(a)
    <2> DEFINE t == SigningInput(a.jwt)
    <2>1. Function(a.jwt, TokenFields) /\ "signature" \in TokenFields
      BY <1>2 DEF Shape, TokenShape, TokenFields
    <2>2. Function(t, TokenFields) /\ \A y \in TokenFields \ {"signature"} : t[y] = a.jwt[y]
      BY <2>1, ReplacedMember DEF SigningInput
    <2>3. /\ "claims" \notin DOMAIN t
          /\ t.cap = a.jwt.cap /\ t.subject = a.jwt.subject
          /\ t.iat = a.jwt.iat /\ t.exp = a.jwt.exp
      BY <2>2 DEF Function, TokenFields
    <2> HIDE DEF t
    <2>4. ProjectedClaims(t) = ProjectedClaims(a.jwt)
      BY <2>3 DEF ProjectedClaims
    <2>5. Stated(t) = Claims(a)
      BY <1>2, <2>3, <2>4 DEF Stated, Claims
    <2> QED
      BY <1>2, <2>5 DEF t
  <1> QED
    BY <1>1, <1>2

\* The issuer signed the document exactly as it is.
SignedAsItIs(a, i) ==
    \E sig \in issued :
        /\ OwnerOf(sig.key) = i
        /\ IF IsNative(a) THEN a.signature = sig /\ sig.input = SigningInput(a)
           ELSE a.jwt.signature = sig /\ sig.input = SigningInput(a.jwt)

(* What is not reported was checked and found right. *)
LEMMA NotReported ==
    ASSUME NEW checks, {e[1] : e \in {d \in checks : d[2]}} = {}, NEW m, NEW p, <<m, p>> \in checks
    PROVE  ~p
  <1> DEFINE e == <<m, p>>
  <1> SUFFICES ASSUME p PROVE FALSE
    OBVIOUS
  <1>1. e[2]
    BY Zenon
  <1> HIDE DEF e
  <1>2. e \in {d \in checks : d[2]}
    BY <1>1, Zenon DEF e
  <1> QED BY <1>2, Zenon

LEMMA CleanToken ==
    ASSUME NEW a, ~IsNative(a), NEW options, KeyCheck(a, options).errors = {}
    PROVE  /\ \E k \in SelectKey(options.trustRoots, a.jwt.kid, a.jwt.alg) : SignedBy(a.jwt, k.key)
           /\ ~(a.jwt.nbf.form = "number" /\ options.now \div TicksPerSecond < a.jwt.nbf.at)
  <1> DEFINE t == a.jwt
             usable == {k \in SelectKey(options.trustRoots, t.kid, t.alg) : k.jwk}
             unsigned == ~\E k \in usable : SignedBy(t, k.key)
             nowSec == options.now \div TicksPerSecond
             ahead == t.nbf.form = "number" /\ nowSec < t.nbf.at
             checks == {<<"jwt signature invalid", unsigned>>,
                        <<"jwt expired", t.exp.form = "number" /\ nowSec >= t.exp.at>>,
                        <<"jwt not yet valid", ahead>>,
                        <<"jwt issuer mismatch",
                          NormalizeIssuer(t.iss) # NormalizeIssuer(options.expectedIssuer)>>,
                        <<"jwt audience mismatch", options.audience \notin t.aud>>}
             reported == {e[1] : e \in {d \in checks : d[2]}}
             result == VerifyJwt(t, options.trustRoots, options.now, options.expectedIssuer,
                                 options.audience)
  <1>1. result.errors = {}
    BY DEF KeyCheck, JwtCheck
  <1>2. t.alg \in JwtAlgs
    BY <1>1 DEF VerifyJwt
  <1>3. usable # {}
    BY <1>1, <1>2 DEF VerifyJwt
  <1>4. reported = {}
    <2>1. result = [errors |-> reported, trustRootMissing |-> FALSE]
      BY <1>2, <1>3, Zenon DEF VerifyJwt
    <2> HIDE DEF reported, result
    <2> QED BY <1>1, <2>1
  <1>5. <<"jwt signature invalid", unsigned>> \in checks /\ <<"jwt not yet valid", ahead>> \in checks
    OBVIOUS
  <1> HIDE DEF unsigned, ahead, checks
  <1>6. ~unsigned /\ ~ahead
    BY <1>4, <1>5, NotReported, Zenon
  <1> QED BY <1>6 DEF unsigned, ahead

(* With no error of key or signature, the issuer made the signature. *)
LEMMA NoKeyErrorMeansIssued ==
    ASSUME RootsInv, NEW i \in Issuers, NEW a, Shape(a, issued), NEW c, NEW s,
           KeyCheck(a, Options(i, c, s)).errors = {}
    PROVE  IssuedBy(i, Claims(a)) /\ SignedAsItIs(a, i)
  <1> DEFINE options == Options(i, c, s)
  <1>1. options.trustRoots = cache[i]
    BY DEF Options
  <1>2. CASE IsNative(a)
    <2>1. NativeCheck(a, options).errors = {}
      BY <1>2 DEF KeyCheck
    <2>2. /\ a.signature # Null
          /\ \E k \in SelectKey(cache[i], a.kid, "ed25519-jcs") : SignedBy(a, k.key)
      <3> DEFINE usable == {k \in SelectKey(cache[i], a.kid, "ed25519-jcs") : k.hex}
      <3>1. ClassifyVersion(a.spec_version) = "known" /\ usable # {} /\ a.signature # Null
        <4>1. ClassifyVersion(a.spec_version) \in
                 {"known", "unknown_newer", "unknown_older", "invalid"}
          BY DEF ClassifyVersion
        <4>2. ClassifyVersion(a.spec_version) # "invalid"
          BY <2>1 DEF NativeCheck
        <4>3. ClassifyVersion(a.spec_version) \notin {"unknown_newer", "unknown_older"}
          BY <2>1 DEF NativeCheck
        <4>4. usable # {}
          BY <1>1, <2>1, <4>1, <4>2, <4>3 DEF NativeCheck
        <4>5. a.signature # Null
          BY <1>1, <2>1, <4>1, <4>2, <4>3, <4>4 DEF NativeCheck
        <4> QED
          BY <4>1, <4>2, <4>3, <4>4, <4>5
      <3>2. \E k \in usable : SignedBy(a, k.key)
        BY <1>1, <2>1, <3>1 DEF NativeCheck
      <3> QED
        BY <3>1, <3>2
    <2>3. PICK k \in SelectKey(cache[i], a.kid, "ed25519-jcs") : SignedBy(a, k.key)
      BY <2>2
    <2>4. a.signature \in issued
      BY <1>2, <2>2 DEF Shape, NativeShape
    <2>5. a.signature.key = k.key /\ a.signature.input = SigningInput(a)
      BY <2>3 DEF SignedBy
    <2>6. Stated(a.signature.input) = Claims(a)
      BY <1>2, <2>5, SignedClaims
    <2> QED
      BY <1>2, <2>4, <2>5, <2>6, SelectedKeyIsTheIssuers DEF IssuedBy, SignedAsItIs
  <1>3. CASE ~IsNative(a)
    <2>3. PICK k \in SelectKey(cache[i], a.jwt.kid, a.jwt.alg) : SignedBy(a.jwt, k.key)
      BY <1>1, <1>3, CleanToken
    <2>4. a.jwt.signature \in issued
      BY <1>3 DEF Shape, TokenShape
    <2>5. a.jwt.signature.key = k.key /\ a.jwt.signature.input = SigningInput(a.jwt)
      BY <2>3 DEF SignedBy
    <2>6. Stated(a.jwt.signature.input) = Claims(a)
      BY <1>3, <2>5, SignedClaims
    <2> QED
      BY <1>3, <2>4, <2>5, <2>6, SelectedKeyIsTheIssuers DEF IssuedBy, SignedAsItIs
  <1> QED
    BY <1>2, <1>3

LEMMA TimesAreNumbers ==
    ASSUME NEW a, NEW signatures, Shape(a, signatures)
    PROVE  Claims(a).issued_at.at \in Nat /\ Claims(a).expires_at.at \in Nat
  <1>1. CASE IsNative(a)
    BY <1>1 DEF Shape, NativeShape, Timed, Claims
  <1>2. CASE ~IsNative(a)
    <2>1. /\ a.jwt.iat.at \in Nat /\ Claims(a).issued_at = JwtInstant(a.jwt.iat)
          /\ a.jwt.exp.at \in Nat /\ Claims(a).expires_at = JwtInstant(a.jwt.exp)
      BY <1>2 DEF Shape, TokenShape, Timed, Claims, ProjectedClaims
    <2> QED BY <2>1, TimeAssumption DEF JwtInstant, Instant
  <1> QED BY <1>1, <1>2

(* With no error of context, the claims are for this capsule and this signer, *)
(* in some role, are not from the future and have not expired.                *)
LEMMA NoContextErrorMeansBound ==
    ASSUME WorldInv, NEW i \in Issuers, NEW a, Shape(a, issued), NEW c, NEW s,
           ContextErrors(a, Options(i, c, s)) = {}
    PROVE  /\ a.issuer[2] = i
           /\ Claims(a).capsule_id = c
           /\ Claims(a).signer_public_key = s
           /\ Claims(a).signer_role # Null
           /\ Parses(Claims(a).expires_at)
           /\ clock < Claims(a).expires_at.at
           /\ \/ Claims(a).issued_at = NoTime
              \/ Parses(Claims(a).issued_at) /\ Claims(a).issued_at.at <= clock + Skew
  <1> DEFINE options == Options(i, c, s)
             claims == Claims(a)
  <1>1. options.capsuleId = c /\ options.signerPublicKey = s /\ options.now = clock
    BY DEF Options
  <1>2. a.issuer[2] = i
    <2>1. NormalizeIssuer(a.issuer) = NormalizeIssuer(options.expectedIssuer)
      BY Zenon DEF ContextErrors
    <2> QED
      BY <2>1 DEF Options, NormalizeIssuer, Bare
  <1>3. /\ BindingErrors(claims, options) = {}
        /\ ExpiryErrors(claims.expires_at, options.now) = {}
        /\ IssuedErrors(claims.issued_at, options.now) = {}
    BY Zenon DEF ContextErrors
  <1> HIDE DEF options
  <1>4. claims.capsule_id = c /\ claims.signer_public_key = s
    BY <1>1, <1>3 DEF BindingErrors
  <1>5. claims.signer_role # Null
    <2> DEFINE binding == BindingClaims(claims)
               missing == {f \in DOMAIN binding : binding[f] = Null}
    <2>1. missing = {}
      <3>1. missing # {} => BindingErrors(claims, options) = {<<"missing", f>> : f \in missing}
        BY Zenon DEF BindingErrors
      <3> HIDE DEF missing
      <3> QED BY <1>3, <3>1
    <2>2. "signer_role" \in DOMAIN binding /\ binding["signer_role"] = claims.signer_role
      BY DEF BindingClaims
    <2> QED BY <2>1, <2>2
  <1>6. Parses(claims.expires_at) /\ ~(clock >= claims.expires_at.at)
    BY <1>1, <1>3 DEF ExpiryErrors
  <1>7. \/ claims.issued_at = NoTime
        \/ Parses(claims.issued_at) /\ ~(claims.issued_at.at > clock + Skew)
    BY <1>1, <1>3 DEF IssuedErrors
  <1>8. claims.issued_at.at \in Nat /\ claims.expires_at.at \in Nat /\ clock \in Nat /\ Skew \in Nat
    BY TimesAreNumbers, TimeAssumption DEF WorldInv
  <1> QED
    BY <1>2, <1>4, <1>5, <1>6, <1>7, <1>8

(* attestation_verified is never said of anything but what the expected      *)
(* issuer signed, as it signed it, for this capsule and signer, before it    *)
(* expired: for any number of issuers, rotations, edits and stale refreshes. *)
THEOREM VerifiedStandsOnASignature == Spec => []VerifiedWasIssued
  <1>1. RootsInv /\ WorldInv => VerifiedWasIssued
    <2> SUFFICES ASSUME RootsInv, WorldInv,
                        NEW a \in circulating, NEW i \in Issuers,
                        NEW c \in Capsules, NEW s \in Signers,
                        Result(a, i, c, s).status = VERIFIED
                 PROVE  /\ Result(a, i, c, s).identity = Claims(a)
                        /\ IssuedBy(i, Claims(a))
                        /\ Claims(a).capsule_id = c
                        /\ Claims(a).signer_public_key = s
                        /\ clock < Claims(a).expires_at.at
      BY DEF VerifiedWasIssued
    <2>1. Shape(a, issued)
      BY DEF WorldInv
    <2>2. /\ StatusFor(KeyCheck(a, Options(i, c, s)), ContextErrors(a, Options(i, c, s))) = VERIFIED
          /\ Result(a, i, c, s).identity = Claims(a)
      BY DEF Result, VerifyIdentityAttestation, Rejection, VERIFIED, REJECTED
    <2>3. /\ KeyCheck(a, Options(i, c, s)).errors = {}
          /\ ContextErrors(a, Options(i, c, s)) = {}
      BY <2>2 DEF StatusFor, VERIFIED, UNVERIFIED, REJECTED
    <2> QED
      BY <2>1, <2>2, <2>3, NoKeyErrorMeansIssued, NoContextErrorMeansBound
  <1> QED
    BY <1>1, WorldAlways, PTL

(* attestation_unverified never hides a foreign issuer, another capsule or   *)
(* signer, or an expiry: it is the absence of a key or of an era, alone.     *)
THEOREM UnverifiedIsOnlyUnknown == Spec => []UnverifiedIsNotNegative
  <1>1. WorldInv => UnverifiedIsNotNegative
    <2> SUFFICES ASSUME WorldInv,
                        NEW a \in circulating, NEW i \in Issuers,
                        NEW c \in Capsules, NEW s \in Signers,
                        Result(a, i, c, s).status = UNVERIFIED
                 PROVE  /\ a.issuer[2] = i
                        /\ Claims(a).capsule_id = c
                        /\ Claims(a).signer_public_key = s
                        /\ Parses(Claims(a).expires_at)
                        /\ clock < Claims(a).expires_at.at
      BY DEF UnverifiedIsNotNegative
    <2>1. Shape(a, issued)
      BY DEF WorldInv
    <2>2. StatusFor(KeyCheck(a, Options(i, c, s)), ContextErrors(a, Options(i, c, s))) = UNVERIFIED
      BY DEF Result, VerifyIdentityAttestation, Rejection, UNVERIFIED, REJECTED
    <2>3. ContextErrors(a, Options(i, c, s)) = {}
      BY <2>2 DEF StatusFor, VERIFIED, UNVERIFIED, REJECTED
    <2> QED
      BY <2>1, <2>3, NoContextErrorMeansBound
  <1> QED
    BY <1>1, WorldAlways, PTL

-----------------------------------------------------------------------------
(* A genuine attestation.  What the issuer signed has to pass every check a *)
(* host makes of it, and the key it names has to be found whenever the host *)
(* has it: so what issuers sign and what the lists of keys look like.       *)

\* An absent member is no number, key type, signature or token.
AbsentIsNone ==
    /\ Null \notin Nat /\ Null # "EC"
    /\ \A key, input : [key |-> key, input |-> input] # Null
    /\ \A f : Function(f, TokenFields) => f # Null

Lists(list, entry) == \E k \in DOMAIN list : list[k] = entry

(* Each key of an issuer is listed in both its forms or in neither, once. *)
KeyList(list, i) ==
    /\ IsSeq(list)
    /\ \A k \in DOMAIN list : list[k] \in RootEntries(i)
    /\ \A j, k \in DOMAIN list : list[j] = list[k] => j = k
    /\ \A n \in Nat : Lists(list, Okp(i, n)) <=> Lists(list, Ec(i, n))

ListsInv ==
    \A i \in Issuers :
        /\ KeyList(published[i], i) /\ KeyList(cache[i], i)
        /\ fetched[i] # Null /\ fetched[i].jwks # Null => KeyList(fetched[i].jwks, i)
        /\ \A n \in Nat : Lists(published[i], Okp(i, n)) => n <= keys[i]

LEMMA EntriesDiffer ==
    ASSUME NEW i, NEW n, NEW m
    PROVE  /\ Okp(i, n) # Ec(i, m)
           /\ Okp(i, n) = Okp(i, m) => n = m
           /\ Ec(i, n) = Ec(i, m) => n = m
           /\ Okp(i, n).key = Key(i, n) /\ Ec(i, n).key = Key(i, n)
           /\ Key(i, n) = Key(i, m) => n = m
  BY DEF Okp, Ec, Key

LEMMA EmptyKeyList == ASSUME NEW i PROVE KeyList(<<>>, i)
  BY DEF KeyList, Lists, IsSeq

LEMMA KeyListGrows ==
    ASSUME NEW list, NEW i, KeyList(list, i), NEW n \in Nat, ~Lists(list, Okp(i, n))
    PROVE  /\ KeyList(list \o <<Okp(i, n), Ec(i, n)>>, i)
           /\ \A m \in Nat : Lists(list \o <<Okp(i, n), Ec(i, n)>>, Okp(i, m)) =>
                                Lists(list, Okp(i, m)) \/ m = n
  <1> DEFINE okp == Okp(i, n)
             ec == Ec(i, n)
             longer == list \o <<okp, ec>>
             size == Len(list)
  <1>1. okp \in RootEntries(i) /\ ec \in RootEntries(i)
    BY Zenon DEF RootEntries
  <1>2. /\ size \in Nat /\ DOMAIN list = 1..size /\ list \in Seq(RootEntries(i))
    <2>1. size \in Nat /\ DOMAIN list = 1..size
      BY SeqShape DEF KeyList
    <2>2. list \in Seq({list[k] : k \in DOMAIN list})
      BY DEF KeyList, IsSeq
    <2>3. {list[k] : k \in DOMAIN list} \subseteq RootEntries(i)
      BY DEF KeyList
    <2> HIDE DEF size
    <2>4. list \in Seq(RootEntries(i))
      BY <2>2, <2>3
    <2> QED BY <2>1, <2>4
  <1>3. okp # ec /\ ~Lists(list, okp) /\ ~Lists(list, ec)
    BY EntriesDiffer DEF KeyList
  <1> HIDE DEF okp, ec
  <1>4. /\ longer \in Seq(RootEntries(i))
        /\ DOMAIN longer = 1..(size + 2)
        /\ \A k \in 1..size : longer[k] = list[k]
        /\ longer[size + 1] = okp /\ longer[size + 2] = ec
    BY <1>1, <1>2
  <1> HIDE DEF longer, size
  <1>5. \A k \in 1..(size + 2) : k \in 1..size \/ k = size + 1 \/ k = size + 2
    BY <1>2
  <1>6. \A k \in 1..size : longer[k] # okp /\ longer[k] # ec
    BY <1>2, <1>3, <1>4 DEF Lists
  <1>7. \A j, k \in DOMAIN longer : longer[j] = longer[k] => j = k
    <2>1. \A j, k \in 1..size : longer[j] = longer[k] => j = k
      BY <1>2, <1>4 DEF KeyList
    <2> QED BY <2>1, <1>3, <1>4, <1>5, <1>6
  <1>8. \A entry : Lists(longer, entry) <=> Lists(list, entry) \/ entry = okp \/ entry = ec
    <2>1. 1..size \subseteq DOMAIN longer /\ size + 1 \in DOMAIN longer /\ size + 2 \in DOMAIN longer
      BY <1>2, <1>4
    <2> QED BY <2>1, <1>2, <1>4, <1>5 DEF Lists
  <1>9. \A m \in Nat : /\ Okp(i, m) # ec /\ Ec(i, m) # okp
                       /\ Okp(i, m) = okp <=> m = n
                       /\ Ec(i, m) = ec <=> m = n
    BY EntriesDiffer DEF okp, ec
  <1>10. \A m \in Nat : Lists(longer, Okp(i, m)) <=> Lists(list, Okp(i, m)) \/ m = n
    BY <1>8, <1>9
  <1>11. \A m \in Nat : Lists(longer, Ec(i, m)) <=> Lists(list, Ec(i, m)) \/ m = n
    BY <1>8, <1>9
  <1>12. IsSeq(longer) /\ \A k \in DOMAIN longer : longer[k] \in RootEntries(i)
    <2>1. Len(longer) \in Nat /\ DOMAIN longer = 1..Len(longer)
      BY <1>4
    <2>2. \A k \in DOMAIN longer : longer[k] \in RootEntries(i)
      BY <1>4, <2>1, ElementOfSeq
    <2>3. IsSeq(longer)
      BY <1>4, SeqOfIsSeq
    <2> QED BY <2>2, <2>3
  <1>13. KeyList(longer, i)
    BY <1>7, <1>10, <1>11, <1>12 DEF KeyList
  <1> QED BY <1>10, <1>13 DEF longer, okp, ec

LEMMA ListsInit == Init => ListsInv
  <1> SUFFICES ASSUME Init, NEW i \in Issuers
               PROVE  /\ KeyList(published[i], i) /\ KeyList(cache[i], i)
                      /\ fetched[i] # Null /\ fetched[i].jwks # Null => KeyList(fetched[i].jwks, i)
                      /\ \A n \in Nat : Lists(published[i], Okp(i, n)) => n <= keys[i]
    BY DEF ListsInv
  <1>1. /\ published[i] = <<Okp(i, 1), Ec(i, 1)>> /\ cache[i] = <<>>
        /\ fetched[i] = Null /\ keys[i] = 1
    BY DEF Init
  <1>2. KeyList(<<>>, i) /\ \A entry : ~Lists(<<>>, entry)
    BY EmptyKeyList DEF Lists
  <1>3. /\ KeyList(<<>> \o <<Okp(i, 1), Ec(i, 1)>>, i)
        /\ \A m \in Nat : Lists(<<>> \o <<Okp(i, 1), Ec(i, 1)>>, Okp(i, m)) => m = 1
    BY <1>2, KeyListGrows
  <1>4. <<>> \o <<Okp(i, 1), Ec(i, 1)>> = <<Okp(i, 1), Ec(i, 1)>>
    OBVIOUS
  <1> QED BY <1>1, <1>2, <1>3, <1>4

LEMMA RotateKeepsLists ==
    ASSUME RootsInv, ListsInv, NEW i \in Issuers, Rotate(i)
    PROVE  ListsInv'
  <1> DEFINE n == keys[i] + 1
  <1>1. PICK kept \in {<<>>, published[i]} :
           published' = [published EXCEPT ![i] = kept \o <<Okp(i, n), Ec(i, n)>>]
    BY DEF Rotate
  <1>2. keys[i] \in Nat /\ n \in Nat
    BY DEF RootsInv, KeysInv
  <1>3. KeyList(kept, i) /\ \A m \in Nat : Lists(kept, Okp(i, m)) => m <= keys[i]
    BY EmptyKeyList, <1>1 DEF ListsInv, Lists
  <1> DEFINE list == kept \o <<Okp(i, n), Ec(i, n)>>
  <1>4. KeyList(list, i) /\ \A m \in Nat : Lists(list, Okp(i, m)) => m <= n
    BY <1>2, <1>3, KeyListGrows
  <1> HIDE DEF list
  <1>5. /\ published'[i] = list /\ keys'[i] = n
        /\ \A j \in Issuers \ {i} : published'[j] = published[j] /\ keys'[j] = keys[j]
    BY <1>1 DEF Rotate, RootsInv, KeysInv, PublishedInv, list
  <1>6. UNCHANGED <<fetched, cache>>
    BY DEF Rotate
  <1> HIDE DEF n
  <1> QED BY <1>4, <1>5, <1>6 DEF ListsInv

LEMMA FetchKeepsLists ==
    ASSUME RootsInv, ListsInv, NEW i \in Issuers, FetchIssuerMetadata(i)
    PROVE  ListsInv'
  <1>1. PICK document \in Served(i) :
           /\ CanServe(i, document)
           /\ NormalizeIssuer(document.issuer) = i
           /\ fetched' = [fetched EXCEPT ![i] = document]
    BY DEF FetchIssuerMetadata
  <1>2. document.jwks # Null => KeyList(document.jwks, i)
    BY <1>1 DEF CanServe, ListsInv
  <1>3. fetched'[i] = document /\ \A j \in Issuers \ {i} : fetched'[j] = fetched[j]
    BY <1>1 DEF RootsInv, FetchedInv
  <1>4. UNCHANGED <<keys, published, cache>>
    BY DEF FetchIssuerMetadata, worldVars
  <1> QED BY <1>2, <1>3, <1>4 DEF ListsInv

LEMMA LoadKeepsLists ==
    ASSUME RootsInv, ListsInv, NEW i \in Issuers, LoadTrustRoots(i)
    PROVE  ListsInv'
  <1>1. PICK roots : KeyList(roots, i) /\ cache' = [cache EXCEPT ![i] = roots]
    <2>1. CASE fetched[i].jwks # Null /\ cache' = [cache EXCEPT ![i] = fetched[i].jwks]
      BY <2>1 DEF LoadTrustRoots, ListsInv
    <2>2. CASE /\ NormalizeIssuer(fetched[i].jwks_uri) = NormalizeIssuer(fetched[i].issuer)
               /\ cache' = [cache EXCEPT
                              ![i] = published[NormalizeIssuer(fetched[i].jwks_uri)]]
      BY <2>2 DEF LoadTrustRoots, RootsInv, FetchedInv, ListsInv
    <2> QED
      BY <2>1, <2>2 DEF LoadTrustRoots
  <1>2. /\ cache'[i] = roots /\ fetched'[i] = Null
        /\ \A j \in Issuers \ {i} : cache'[j] = cache[j] /\ fetched'[j] = fetched[j]
    BY <1>1 DEF LoadTrustRoots, RootsInv, CacheInv, FetchedInv
  <1>3. UNCHANGED <<keys, published>>
    BY DEF LoadTrustRoots, worldVars
  <1> QED BY <1>1, <1>2, <1>3 DEF ListsInv

LEMMA AbandonKeepsLists ==
    ASSUME RootsInv, ListsInv, NEW i \in Issuers, AbandonRefresh(i)
    PROVE  ListsInv'
  <1>1. fetched'[i] = Null /\ \A j \in Issuers \ {i} : fetched'[j] = fetched[j]
    BY DEF AbandonRefresh, RootsInv, FetchedInv
  <1>2. UNCHANGED <<keys, published, cache>>
    BY DEF AbandonRefresh, worldVars
  <1> QED BY <1>1, <1>2 DEF ListsInv

LEMMA ListsStep == RootsInv /\ ListsInv /\ [Next]_vars => ListsInv'
  <1> SUFFICES ASSUME RootsInv, ListsInv, [Next]_vars PROVE ListsInv'
    OBVIOUS
  <1>1. ASSUME UNCHANGED <<keys, published, fetched, cache>> PROVE ListsInv'
    BY <1>1 DEF ListsInv
  <1>2. ASSUME NEW i \in Issuers, NEW claims, NEW kid, NEW n,
               IssueNative(i, claims, kid, n) \/ IssueJwt(i, claims, kid, n)
        PROVE  UNCHANGED <<keys, published, fetched, cache>>
    BY <1>2 DEF IssueNative, IssueJwt, Issue
  <1>3. ASSUME NEW a, NEW i \in Issuers, NEW c, NEW s, Check(a, i, c, s)
        PROVE  UNCHANGED <<keys, published, fetched, cache>>
    BY <1>3 DEF Check, worldVars
  <1>4. Tick \/ Edit \/ UNCHANGED vars => UNCHANGED <<keys, published, fetched, cache>>
    BY DEF Tick, Edit, vars, worldVars
  <1> QED
    BY <1>1, <1>2, <1>3, <1>4, RotateKeepsLists, FetchKeepsLists, LoadKeepsLists,
       AbandonKeepsLists DEF Next

(* The one usable key a list has under a kid, if it lists that key. *)
OneOf(list, entry, key) == IF Lists(list, entry) THEN {key} ELSE {}

OkpKey(i, n) == [kid |-> n, alg |-> "ed25519-jcs", key |-> Key(i, n), hex |-> TRUE, jwk |-> TRUE]
EcKey(i, n) == [kid |-> n, alg |-> "ES256", key |-> Key(i, n), hex |-> FALSE, jwk |-> TRUE]

LEMMA NormalizedRoots ==
    ASSUME AbsentIsNone, NEW i, NEW n
    PROVE  NormalizeRoot(Okp(i, n)) = <<OkpKey(i, n)>> /\ NormalizeRoot(Ec(i, n)) = <<EcKey(i, n)>>
  BY DEF NormalizeRoot, Okp, Ec, OkpKey, EcKey, AbsentIsNone

LEMMA NamedKey ==
    ASSUME AbsentIsNone, NEW list, NEW i, KeyList(list, i), NEW n \in Nat, NEW alg,
           NEW entry, NEW root, root.alg = alg, root.kid = n, NormalizeRoot(entry) = <<root>>,
           \A k \in DOMAIN list : /\ NormalizeRoot(list[k]) # <<>>
                                  /\ NormalizeRoot(list[k])[1].alg = alg
                                  /\ NormalizeRoot(list[k])[1].kid = n
                                  => list[k] = entry
    PROVE  SelectKey(list, n, alg) = OneOf(list, entry, root)
  <1> DEFINE normalized == NormalizeTrustRoots(list)
             byAlg == {r \in normalized : r[2].alg = alg}
             named == IF n = Null THEN byAlg ELSE {r \in byAlg : r[2].kid = n}
  <1>1. SelectKey(list, n, alg) = IF Cardinality(named) = 1 THEN {r[2] : r \in named} ELSE {}
    BY Zenon DEF SelectKey
  <1>2. n # Null
    BY DEF AbsentIsNone
  <1>3. \A r : r \in normalized <=>
           \E k \in DOMAIN list : /\ NormalizeRoot(list[k]) # <<>>
                                  /\ r = <<k, NormalizeRoot(list[k])[1]>>
    BY Zenon DEF NormalizeTrustRoots
  <1> HIDE DEF normalized
  <1>4. \A r \in named : \E k \in DOMAIN list : list[k] = entry /\ r = <<k, root>>
    <2> TAKE r \in named
    <2>1. r \in normalized /\ r[2].alg = alg /\ r[2].kid = n
      BY <1>2
    <2>2. PICK k \in DOMAIN list : /\ NormalizeRoot(list[k]) # <<>>
                                   /\ r = <<k, NormalizeRoot(list[k])[1]>>
      BY <1>3, <2>1
    <2>3. r[2] = NormalizeRoot(list[k])[1]
      BY <2>2
    <2>4. list[k] = entry
      BY <2>1, <2>2, <2>3
    <2>5. NormalizeRoot(list[k])[1] = root
      BY <2>4
    <2> QED BY <2>2, <2>4, <2>5
  <1>5. ASSUME NEW k \in DOMAIN list, list[k] = entry
        PROVE  <<k, root>> \in named
    <2>1. NormalizeRoot(list[k]) # <<>> /\ NormalizeRoot(list[k])[1] = root
      BY <1>5
    <2>2. <<k, root>> \in normalized
      BY <1>3, <2>1
    <2>3. <<k, root>>[2] = root
      OBVIOUS
    <2> QED BY <1>2, <2>2, <2>3
  <1> HIDE DEF named
  <1>6. CASE Lists(list, entry)
    <2>1. PICK k \in DOMAIN list : list[k] = entry
      BY <1>6 DEF Lists
    <2>2. named = {<<k, root>>}
      BY <1>4, <1>5, <2>1 DEF KeyList
    <2>3. Cardinality(named) = 1
      BY <2>2, FS_Singleton
    <2>4. {r[2] : r \in named} = {root}
      BY <2>2
    <2> QED BY <1>1, <1>6, <2>3, <2>4 DEF OneOf
  <1>7. CASE ~Lists(list, entry)
    <2>1. named = {}
      BY <1>4, <1>7 DEF Lists
    <2>2. Cardinality(named) = 0
      BY <2>1, FS_EmptySet
    <2> QED BY <1>1, <1>7, <2>2 DEF OneOf
  <1> QED BY <1>6, <1>7

LEMMA SelectedKeys ==
    ASSUME AbsentIsNone, NEW list, NEW i, KeyList(list, i), NEW n \in Nat
    PROVE  /\ SelectKey(list, n, "ed25519-jcs") = OneOf(list, Okp(i, n), OkpKey(i, n))
           /\ SelectKey(list, n, "ES256") = OneOf(list, Ec(i, n), EcKey(i, n))
  <1>1. \A k \in DOMAIN list : \E m \in Nat : list[k] = Okp(i, m) \/ list[k] = Ec(i, m)
    BY DEF KeyList, RootEntries
  <1>2. \A m \in Nat : /\ NormalizeRoot(Okp(i, m)) = <<OkpKey(i, m)>>
                       /\ NormalizeRoot(Ec(i, m)) = <<EcKey(i, m)>>
    BY NormalizedRoots
  <1>3. \A m : /\ OkpKey(i, m).alg = "ed25519-jcs" /\ OkpKey(i, m).kid = m
               /\ EcKey(i, m).alg = "ES256" /\ EcKey(i, m).kid = m
    BY DEF OkpKey, EcKey
  <1>4. \A m \in Nat : /\ NormalizeRoot(Okp(i, m))[1] = OkpKey(i, m)
                       /\ NormalizeRoot(Ec(i, m))[1] = EcKey(i, m)
    BY <1>2
  <1>5. \A k \in DOMAIN list :
           /\ NormalizeRoot(list[k])[1].alg = "ed25519-jcs" /\ NormalizeRoot(list[k])[1].kid = n
                 => list[k] = Okp(i, n)
           /\ NormalizeRoot(list[k])[1].alg = "ES256" /\ NormalizeRoot(list[k])[1].kid = n
                 => list[k] = Ec(i, n)
    <2> TAKE k \in DOMAIN list
    <2>1. PICK m \in Nat : list[k] = Okp(i, m) \/ list[k] = Ec(i, m)
      BY <1>1
    <2>2. CASE list[k] = Okp(i, m)
      BY <1>3, <1>4, <2>2
    <2>3. CASE list[k] = Ec(i, m)
      BY <1>3, <1>4, <2>3
    <2> QED BY <2>1, <2>2, <2>3
  <1> QED BY <1>2, <1>3, <1>5, NamedKey

(* The host holds a key exactly if the list has it in either form. *)
LEMMA HeldKey ==
    ASSUME NEW list, NEW i, KeyList(list, i), NEW n \in Nat
    PROVE  /\ (\E k \in DOMAIN list : list[k].key = Key(i, n)) <=> Lists(list, Okp(i, n))
           /\ Lists(list, Okp(i, n)) <=> Lists(list, Ec(i, n))
  <1>1. \A k \in DOMAIN list : \E m \in Nat : list[k] = Okp(i, m) \/ list[k] = Ec(i, m)
    BY DEF KeyList, RootEntries
  <1>2. \A m \in Nat : /\ Okp(i, m).key = Key(i, m) /\ Ec(i, m).key = Key(i, m)
                       /\ Key(i, m) = Key(i, n) => m = n
    BY EntriesDiffer
  <1>3. Lists(list, Okp(i, n)) <=> Lists(list, Ec(i, n))
    BY DEF KeyList
  <1> QED BY <1>1, <1>2, <1>3 DEF Lists

-----------------------------------------------------------------------------
(* Which key a host settles on for a document that names none: the one it   *)
(* has, if it has one.  Each key is in a list once in each of its forms.     *)

Held(list) == {list[k].key : k \in DOMAIN list}

LEMMA HeldKeysAreListed ==
    ASSUME NEW list, NEW i, KeyList(list, i)
    PROVE  /\ \A key \in Held(list) : \E n \in Nat : key = Key(i, n) /\ Lists(list, Okp(i, n))
           /\ \A n \in Nat : Lists(list, Okp(i, n)) <=> Key(i, n) \in Held(list)
  <1>1. \A k \in DOMAIN list : \E m \in Nat : list[k] = Okp(i, m) \/ list[k] = Ec(i, m)
    BY DEF KeyList, RootEntries
  <1>2. \A n \in Nat : Lists(list, Okp(i, n)) <=> Key(i, n) \in Held(list)
    BY HeldKey DEF Held
  <1>3. ASSUME NEW key \in Held(list)
        PROVE  \E n \in Nat : key = Key(i, n) /\ Lists(list, Okp(i, n))
    <2>1. PICK k \in DOMAIN list : key = list[k].key
      BY DEF Held
    <2>2. PICK m \in Nat : list[k] = Okp(i, m) \/ list[k] = Ec(i, m)
      BY <1>1
    <2>3. key = Key(i, m)
      BY <2>1, <2>2, EntriesDiffer
    <2> QED BY <1>2, <1>3, <2>3
  <1> QED BY <1>2, <1>3

LEMMA FiniteRoots ==
    ASSUME NEW list, IsSeq(list)
    PROVE  IsFiniteSet(NormalizeTrustRoots(list))
  <1> DEFINE usable == {j \in DOMAIN list : NormalizeRoot(list[j]) # <<>>}
             roots == NormalizeTrustRoots(list)
             f == [j \in usable |-> <<j, NormalizeRoot(list[j])[1]>>]
  <1>1. IsFiniteSet(DOMAIN list)
    <2>1. Len(list) \in Nat /\ DOMAIN list = 1..Len(list)
      BY SeqShape
    <2> QED BY <2>1, FS_Interval
  <1>2. IsFiniteSet(usable)
    <2>1. usable \in SUBSET (DOMAIN list)
      OBVIOUS
    <2> HIDE DEF usable
    <2> QED BY <1>1, <2>1, FS_Subset
  <1>3. \A r : r \in roots <=> \E j \in usable : r = <<j, NormalizeRoot(list[j])[1]>>
    BY Zenon DEF NormalizeTrustRoots
  <1> HIDE DEF usable, roots
  <1>4. f \in Surjection(usable, roots)
    <2>1. \A j \in usable : f[j] \in roots
      BY <1>3
    <2>2. \A r \in roots : \E j \in usable : f[j] = r
      BY <1>3
    <2> QED BY <2>1, <2>2 DEF Surjection
  <1> QED BY <1>2, <1>4, FS_Surjection DEF roots

\* entries are the forms a list has an issuer's keys in for an algorithm, and
\* roots what a host makes of them.
FormsOf(list, i, alg, entries, roots) ==
    /\ \A m \in Nat : /\ NormalizeRoot(entries[m]) = <<roots[m]>>
                      /\ roots[m].alg = alg
                      /\ Lists(list, entries[m]) <=> Lists(list, Okp(i, m))
    /\ \A l, m \in Nat : entries[l] = entries[m] => l = m
    /\ \A k \in DOMAIN list : /\ NormalizeRoot(list[k]) # <<>>
                              /\ NormalizeRoot(list[k])[1].alg = alg
                              => \E m \in Nat : list[k] = entries[m]

LEMMA UnnamedKey ==
    ASSUME NEW list, NEW i, KeyList(list, i), NEW alg, NEW entries, NEW roots,
           FormsOf(list, i, alg, entries, roots)
    PROVE  /\ \A m \in Nat : Held(list) = {Key(i, m)} => SelectKey(list, Null, alg) = {roots[m]}
           /\ (\A key : Held(list) # {key}) => SelectKey(list, Null, alg) = {}
  <1> USE DEF FormsOf
  <1> DEFINE normalized == NormalizeTrustRoots(list)
             byAlg == {r \in normalized : r[2].alg = alg}
  <1>1. SelectKey(list, Null, alg) =
           IF Cardinality(byAlg) = 1 THEN {r[2] : r \in byAlg} ELSE {}
    BY Zenon DEF SelectKey
  <1>2. IsFiniteSet(byAlg)
    <2>1. IsFiniteSet(normalized)
      BY FiniteRoots DEF KeyList
    <2>2. byAlg \in SUBSET normalized
      OBVIOUS
    <2> HIDE DEF byAlg, normalized
    <2> QED BY <2>1, <2>2, FS_Subset
  <1>3. \A r : r \in normalized <=>
           \E k \in DOMAIN list : /\ NormalizeRoot(list[k]) # <<>>
                                  /\ r = <<k, NormalizeRoot(list[k])[1]>>
    BY Zenon DEF NormalizeTrustRoots
  <1> HIDE DEF normalized
  <1>4. \A r \in byAlg : \E k \in DOMAIN list, m \in Nat : list[k] = entries[m] /\ r = <<k, roots[m]>>
    <2> TAKE r \in byAlg
    <2>1. r \in normalized /\ r[2].alg = alg
      OBVIOUS
    <2>2. PICK k \in DOMAIN list : /\ NormalizeRoot(list[k]) # <<>>
                                   /\ r = <<k, NormalizeRoot(list[k])[1]>>
      BY <1>3, <2>1
    <2>3. r[2] = NormalizeRoot(list[k])[1]
      BY <2>2
    <2>4. PICK m \in Nat : list[k] = entries[m]
      BY <2>1, <2>2, <2>3
    <2>5. NormalizeRoot(list[k])[1] = roots[m]
      BY <2>4
    <2> QED BY <2>2, <2>4, <2>5
  <1>5. ASSUME NEW k \in DOMAIN list, NEW m \in Nat, list[k] = entries[m]
        PROVE  <<k, roots[m]>> \in byAlg
    <2>1. NormalizeRoot(list[k]) = <<roots[m]>> /\ roots[m].alg = alg
      BY <1>5
    <2>2. NormalizeRoot(list[k]) # <<>> /\ NormalizeRoot(list[k])[1] = roots[m]
      BY <2>1
    <2>3. <<k, roots[m]>> \in normalized
      BY <1>3, <2>2
    <2>4. <<k, roots[m]>>[2] = roots[m]
      OBVIOUS
    <2> QED BY <2>1, <2>3, <2>4
  <1> HIDE DEF byAlg
  <1>6. \A k \in DOMAIN list, m \in Nat : list[k] = entries[m] => Key(i, m) \in Held(list)
    <2> SUFFICES ASSUME NEW k \in DOMAIN list, NEW m \in Nat, list[k] = entries[m]
                 PROVE  Key(i, m) \in Held(list)
      OBVIOUS
    <2>1. Lists(list, entries[m])
      BY DEF Lists
    <2> QED BY <2>1, HeldKeysAreListed
  <1>7. \A m \in Nat : Key(i, m) \in Held(list) => \E k \in DOMAIN list : list[k] = entries[m]
    BY HeldKeysAreListed DEF Lists
  <1>8. \A j, k \in DOMAIN list : list[j] = list[k] => j = k
    BY DEF KeyList
  <1>9. ASSUME NEW m \in Nat, Held(list) = {Key(i, m)}
        PROVE  SelectKey(list, Null, alg) = {roots[m]}
    <2>1. PICK k \in DOMAIN list : list[k] = entries[m]
      BY <1>7, <1>9
    <2>2. ASSUME NEW r \in byAlg PROVE r = <<k, roots[m]>>
      <3>1. PICK j \in DOMAIN list, l \in Nat : list[j] = entries[l] /\ r = <<j, roots[l]>>
        BY <1>4
      <3>2. Key(i, l) = Key(i, m)
        BY <1>6, <1>9, <3>1
      <3>3. l = m
        BY <3>2, EntriesDiffer
      <3> QED BY <1>8, <2>1, <3>1, <3>3
    <2>3. byAlg = {<<k, roots[m]>>}
      BY <1>5, <2>1, <2>2
    <2>4. Cardinality(byAlg) = 1
      BY <2>3, FS_Singleton
    <2>5. {r[2] : r \in byAlg} = {roots[m]}
      BY <2>3
    <2> QED BY <1>1, <2>4, <2>5
  <1>10. ASSUME \A key : Held(list) # {key}
         PROVE  SelectKey(list, Null, alg) = {}
    <2> SUFFICES ASSUME Cardinality(byAlg) = 1 PROVE FALSE
      BY <1>1
    <2>1. PICK r : byAlg = {r}
      BY <1>2, FS_Singleton
    <2>2. PICK k \in DOMAIN list, m \in Nat : list[k] = entries[m] /\ r = <<k, roots[m]>>
      BY <1>4, <2>1
    <2>3. ASSUME NEW key \in Held(list) PROVE key = Key(i, m)
      <3>1. PICK l \in Nat : key = Key(i, l)
        BY HeldKeysAreListed
      <3>2. PICK j \in DOMAIN list : list[j] = entries[l]
        BY <1>7, <3>1
      <3>3. <<j, roots[l]>> = <<k, roots[m]>>
        BY <1>5, <2>1, <2>2, <3>2
      <3>4. entries[l] = entries[m]
        BY <2>2, <3>2, <3>3
      <3> QED BY <3>1, <3>4
    <2>4. Held(list) = {Key(i, m)}
      BY <1>6, <2>2, <2>3
    <2> QED BY <1>10, <2>4
  <1> QED BY <1>9, <1>10

LEMMA UnnamedKeys ==
    ASSUME AbsentIsNone, NEW list, NEW i, KeyList(list, i)
    PROVE  /\ \A m \in Nat : Held(list) = {Key(i, m)} =>
                  /\ SelectKey(list, Null, "ed25519-jcs") = {OkpKey(i, m)}
                  /\ SelectKey(list, Null, "ES256") = {EcKey(i, m)}
           /\ (\A key : Held(list) # {key}) =>
                  /\ SelectKey(list, Null, "ed25519-jcs") = {}
                  /\ SelectKey(list, Null, "ES256") = {}
  <1> DEFINE okps == [m \in Nat |-> Okp(i, m)]
             ecs == [m \in Nat |-> Ec(i, m)]
             okpKeys == [m \in Nat |-> OkpKey(i, m)]
             ecKeys == [m \in Nat |-> EcKey(i, m)]
  <1>1. \A m \in Nat : /\ okps[m] = Okp(i, m) /\ ecs[m] = Ec(i, m)
                       /\ okpKeys[m] = OkpKey(i, m) /\ ecKeys[m] = EcKey(i, m)
    OBVIOUS
  <1> HIDE DEF okps, ecs, okpKeys, ecKeys
  <1>2. \A m \in Nat : /\ NormalizeRoot(Okp(i, m)) = <<OkpKey(i, m)>>
                       /\ NormalizeRoot(Ec(i, m)) = <<EcKey(i, m)>>
    BY NormalizedRoots
  <1>3. \A m \in Nat : OkpKey(i, m).alg = "ed25519-jcs" /\ EcKey(i, m).alg = "ES256"
    BY DEF OkpKey, EcKey
  <1>4. \A m \in Nat : Lists(list, Okp(i, m)) <=> Lists(list, Ec(i, m))
    BY HeldKey
  <1>5. \A k \in DOMAIN list :
           /\ NormalizeRoot(list[k])[1].alg = "ed25519-jcs" => \E m \in Nat : list[k] = Okp(i, m)
           /\ NormalizeRoot(list[k])[1].alg = "ES256" => \E m \in Nat : list[k] = Ec(i, m)
    <2> TAKE k \in DOMAIN list
    <2>1. PICK m \in Nat : list[k] = Okp(i, m) \/ list[k] = Ec(i, m)
      BY DEF KeyList, RootEntries
    <2>2. /\ list[k] = Okp(i, m) => NormalizeRoot(list[k])[1] = OkpKey(i, m)
          /\ list[k] = Ec(i, m) => NormalizeRoot(list[k])[1] = EcKey(i, m)
      BY <1>2
    <2> QED BY <1>3, <2>1, <2>2
  <1>6. \A l, m \in Nat : (okps[l] = okps[m] => l = m) /\ (ecs[l] = ecs[m] => l = m)
    BY <1>1, EntriesDiffer
  <1>7. /\ \A m \in Nat : Held(list) = {Key(i, m)} =>
                             SelectKey(list, Null, "ed25519-jcs") = {okpKeys[m]}
        /\ (\A key : Held(list) # {key}) => SelectKey(list, Null, "ed25519-jcs") = {}
    <2>1. \A m \in Nat : /\ NormalizeRoot(okps[m]) = <<okpKeys[m]>>
                         /\ okpKeys[m].alg = "ed25519-jcs"
                         /\ Lists(list, okps[m]) <=> Lists(list, Okp(i, m))
      BY <1>1, <1>2, <1>3
    <2>2. \A l, m \in Nat : okps[l] = okps[m] => l = m
      BY <1>6
    <2>3. \A k \in DOMAIN list : /\ NormalizeRoot(list[k]) # <<>>
                                 /\ NormalizeRoot(list[k])[1].alg = "ed25519-jcs"
                                 => \E m \in Nat : list[k] = okps[m]
      BY <1>1, <1>5
    <2>4. FormsOf(list, i, "ed25519-jcs", okps, okpKeys)
      BY <2>1, <2>2, <2>3, Zenon DEF FormsOf
    <2> QED BY <2>4, UnnamedKey
  <1>8. /\ \A m \in Nat : Held(list) = {Key(i, m)} =>
                             SelectKey(list, Null, "ES256") = {ecKeys[m]}
        /\ (\A key : Held(list) # {key}) => SelectKey(list, Null, "ES256") = {}
    <2>1. \A m \in Nat : /\ NormalizeRoot(ecs[m]) = <<ecKeys[m]>>
                         /\ ecKeys[m].alg = "ES256"
                         /\ Lists(list, ecs[m]) <=> Lists(list, Okp(i, m))
      BY <1>1, <1>2, <1>3, <1>4
    <2>2. \A l, m \in Nat : ecs[l] = ecs[m] => l = m
      BY <1>6
    <2>3. \A k \in DOMAIN list : /\ NormalizeRoot(list[k]) # <<>>
                                 /\ NormalizeRoot(list[k])[1].alg = "ES256"
                                 => \E m \in Nat : list[k] = ecs[m]
      BY <1>1, <1>5
    <2>4. FormsOf(list, i, "ES256", ecs, ecKeys)
      BY <2>1, <2>2, <2>3, Zenon DEF FormsOf
    <2> QED BY <2>4, UnnamedKey
  <1> QED BY <1>1, <1>7, <1>8
-----------------------------------------------------------------------------
(* What issuers sign: the current version, one of their keys, under its     *)
(* number or under none, and whatever times they are asked to.              *)

SignedWith(sig, issuer, kid) == \E n \in Nat : sig.key = Key(issuer, n) /\ kid \in {Null, n}

IssuedNative(sig) ==
    /\ DOMAIN sig.input = AttestationFields
    /\ sig.input.spec_version = CurrentVersion
    /\ SignedWith(sig, sig.input.issuer[2], sig.input.kid)

IssuedToken(sig) ==
    /\ DOMAIN sig.input = TokenFields
    /\ sig.input.alg = "ES256"
    /\ Audience \in sig.input.aud
    /\ SignedWith(sig, sig.input.iss[2], sig.input.kid)

SignatureInv ==
    \A sig \in issued :
        /\ sig = [key |-> sig.key, input |-> sig.input]
        /\ IssuedNative(sig) \/ IssuedToken(sig)

(* n whole units are not more than the time they were counted in. *)
LEMMA WholeUnits ==
    ASSUME NEW n \in Nat, NEW unit \in Nat \ {0}
    PROVE  /\ n \div unit \in Nat
           /\ (n \div unit) * unit <= n
           /\ n < (n \div unit + 1) * unit
  OBVIOUS

LEMMA FewerUnits ==
    ASSUME NEW p \in Nat, NEW q \in Nat, NEW unit \in Nat \ {0}, p * unit < q * unit
    PROVE  p < q
  OBVIOUS

LEMMA UnitsPass ==
    ASSUME NEW p \in Nat, NEW q \in Nat, p <= q, NEW unit \in Nat \ {0}
    PROVE  p \div unit <= q \div unit
  <1> DEFINE m == p \div unit
             n == q \div unit
  <1>1. m \in Nat /\ n \in Nat /\ m * unit <= p /\ q < (n + 1) * unit
    BY WholeUnits
  <1> HIDE DEF m, n
  <1>2. m * unit \in Nat /\ (n + 1) * unit \in Nat
    BY <1>1
  <1>3. m * unit < (n + 1) * unit
    BY <1>1, <1>2
  <1>4. m < n + 1
    BY <1>1, <1>3, FewerUnits
  <1>5. m <= n
    BY <1>1, <1>4
  <1> QED BY <1>5 DEF m, n

(* A document that was not signed yet is its own signing input. *)
LEMMA Unsigned ==
    ASSUME NEW d, NEW fields, Function(d, fields), d.signature = Null
    PROVE  SigningInput(d) = d
  BY DEF Function, SigningInput

LEMMA NativeIssueKeepsSignatures ==
    ASSUME SignatureInv, NEW i \in Issuers, NEW claims, NEW n \in Nat, NEW kid \in {Null, n},
           IssueNative(i, claims, kid, n)
    PROVE  SignatureInv'
  <1> DEFINE blank == [typ |-> AttestationTyp, spec_version |-> CurrentVersion,
                       alg |-> "ed25519-jcs", issuer |-> Host(i), kid |-> kid,
                       claims |-> claims, signature |-> Null, jwt |-> Null]
             sig == [key |-> Key(i, n), input |-> SigningInput(blank)]
             a == SignIdentityAttestation(claims, Host(i), kid, Key(i, n))
  <1>1. issued' = issued \cup {a.signature}
    BY DEF IssueNative, Issue
  <1>2. a.signature = sig
    BY DEF SignIdentityAttestation, Signed
  <1>3. SigningInput(blank) = blank
    BY DEF SigningInput
  <1>4. /\ DOMAIN blank = AttestationFields
        /\ blank.spec_version = CurrentVersion /\ blank.kid = kid /\ blank.issuer = Host(i)
    BY DEF AttestationFields
  <1> HIDE DEF blank, a
  <1>5. sig.key = Key(i, n) /\ sig.input = blank /\ sig = [key |-> sig.key, input |-> sig.input]
    BY <1>3
  <1> HIDE DEF sig
  <1>6. IssuedNative(sig)
    <2>1. sig.key = Key(sig.input.issuer[2], n) /\ sig.input.kid \in {Null, n}
      BY <1>4, <1>5 DEF Host
    <2> QED BY <1>4, <1>5, <2>1 DEF IssuedNative, SignedWith
  <1> QED BY <1>1, <1>2, <1>5, <1>6 DEF SignatureInv

LEMMA JwtIssueKeepsSignatures ==
    ASSUME SignatureInv, NEW i \in Issuers, NEW payload, NEW n \in Nat, NEW kid \in {Null, n},
           IssueJwt(i, payload, kid, n)
    PROVE  SignatureInv'
  <1> DEFINE blank == BlankToken(i, payload, kid)
             t == Signed(blank, Key(i, n))
             sig == [key |-> Key(i, n), input |-> SigningInput(blank)]
  <1>1. issued' = issued \cup {t.signature}
    BY JwtIssue
  <1>2. Function(blank, TokenFields) /\ blank.signature = Null
    BY DEF BlankToken, Function, TokenFields
  <1>3. /\ DOMAIN blank = TokenFields
        /\ blank.alg = "ES256" /\ blank.kid = kid /\ blank.iss = Host(i) /\ blank.aud = {Audience}
    BY DEF BlankToken, TokenFields
  <1> HIDE DEF blank
  <1>4. t.signature = sig
    BY <1>2 DEF Signed, Function, TokenFields
  <1>5. SigningInput(blank) = blank
    BY <1>2, Unsigned
  <1> HIDE DEF t
  <1>6. sig.key = Key(i, n) /\ sig.input = blank /\ sig = [key |-> sig.key, input |-> sig.input]
    BY <1>5
  <1> HIDE DEF sig
  <1>7. IssuedToken(sig)
    <2>1. sig.key = Key(sig.input.iss[2], n) /\ sig.input.kid \in {Null, n}
      BY <1>3, <1>6 DEF Host
    <2> QED BY <1>3, <1>6, <2>1 DEF IssuedToken, SignedWith
  <1> QED BY <1>1, <1>4, <1>6, <1>7 DEF SignatureInv

LEMMA SignatureStep == WorldInv /\ SignatureInv /\ [Next]_vars => SignatureInv'
  <1> SUFFICES ASSUME WorldInv, SignatureInv, [Next]_vars PROVE SignatureInv'
    OBVIOUS
  <1>1. issued' = issued => SignatureInv'
    BY DEF SignatureInv
  <1>2. ASSUME NEW i \in Issuers,
               Rotate(i) \/ FetchIssuerMetadata(i) \/ LoadTrustRoots(i) \/ AbandonRefresh(i)
        PROVE  issued' = issued
    BY <1>2 DEF Rotate, FetchIssuerMetadata, LoadTrustRoots, AbandonRefresh, worldVars
  <1>3. ASSUME NEW a, NEW i \in Issuers, NEW c, NEW s, Check(a, i, c, s)
        PROVE  issued' = issued
    BY <1>3 DEF Check, worldVars
  <1>4. Tick \/ Edit \/ UNCHANGED vars => issued' = issued
    BY DEF Tick, Edit, vars, worldVars
  <1>5. \A i \in Issuers : 1..keys[i] \subseteq Nat
    BY DEF WorldInv
  <1> QED
    BY <1>1, <1>2, <1>3, <1>4, <1>5, NativeIssueKeepsSignatures, JwtIssueKeepsSignatures DEF Next

LEMMA GenuineInvs == Spec => [](RootsInv /\ WorldInv /\ ListsInv /\ SignatureInv)
  <1> DEFINE Inv == RootsInv /\ WorldInv
  <1>1. Init => ListsInv /\ SignatureInv
    <2>1. Init => SignatureInv
      BY DEF Init, SignatureInv
    <2> QED BY <2>1, ListsInit
  <1>2. Inv /\ Inv' /\ (ListsInv /\ SignatureInv) /\ [Next]_vars => (ListsInv /\ SignatureInv)'
    BY ListsStep, SignatureStep
  <1> QED BY <1>1, <1>2, WorldAlways, PTL DEF Spec

(* The status a key check and a clean context add up to. *)
LEMMA CleanContext ==
    ASSUME NEW key
    PROVE  /\ key.errors = {} => StatusFor(key, {}) = VERIFIED
           /\ key.errors # {} /\ key.unknown = FALSE => StatusFor(key, {}) = REJECTED
           /\ (\E e : key.errors = {e}) /\ key.unknown = TRUE => StatusFor(key, {}) = UNVERIFIED
  <1>1. ASSUME key.errors = {} PROVE StatusFor(key, {}) = VERIFIED
    <2>1. ~(key.unknown /\ Cardinality(key.errors) = 1 /\ {} = {})
      BY <1>1, FS_EmptySet
    <2> QED BY <1>1, <2>1, Zenon DEF StatusFor
  <1>2. ASSUME key.errors # {}, key.unknown = FALSE PROVE StatusFor(key, {}) = REJECTED
    BY <1>2, Zenon DEF StatusFor
  <1>3. ASSUME NEW e, key.errors = {e}, key.unknown = TRUE PROVE StatusFor(key, {}) = UNVERIFIED
    <2>1. Cardinality(key.errors) = 1 /\ key.errors # {}
      BY <1>3, FS_Singleton
    <2> QED BY <1>3, <2>1, Zenon DEF StatusFor
  <1> QED BY <1>1, <1>2, <1>3

LEMMA InTime ==
    ASSUME NEW claim, claim.at \in Nat, NEW now \in Nat
    PROVE  /\ Parses(claim) /\ now < claim.at => ExpiryErrors(claim, now) = {}
           /\ Parses(claim) /\ claim.at <= now + Skew => IssuedErrors(claim, now) = {}
           /\ claim = NoTime => IssuedErrors(claim, now) = {}
  <1>1. Parses(claim) => claim # NoTime
    BY DEF Parses, NoTime
  <1>2. now < claim.at => ~(now >= claim.at)
    OBVIOUS
  <1>3. claim.at <= now + Skew => ~(claim.at > now + Skew)
    BY TimeAssumption
  <1>4. Parses(claim) /\ now < claim.at => ExpiryErrors(claim, now) = {}
    BY <1>1, <1>2, Zenon DEF ExpiryErrors
  <1>5. Parses(claim) /\ claim.at <= now + Skew => IssuedErrors(claim, now) = {}
    BY <1>1, <1>3, Zenon DEF IssuedErrors
  <1>6. claim = NoTime => IssuedErrors(claim, now) = {}
    BY <1>1, Zenon DEF IssuedErrors
  <1> QED BY <1>4, <1>5, <1>6

(* An authentic attestation whose time is now has no error of context. *)
LEMMA NoContextError ==
    ASSUME NEW a, NEW i, NEW c \in Capsules, NEW s \in Signers,
           Authentic(a, i, c, s), Begun(a), Unexpired(a), clock \in Nat,
           Claims(a).expires_at.at \in Nat, Claims(a).issued_at.at \in Nat
    PROVE  ContextErrors(a, Options(i, c, s)) = {}
  <1> DEFINE options == Options(i, c, s)
             claims == Claims(a)
  <1>1. claims.capsule_id = c /\ claims.signer_public_key = s /\ claims.signer_role # Null
        /\ a.issuer[2] = i
    BY DEF Authentic
  <1>2. /\ options.capsuleId = c /\ options.signerPublicKey = s /\ options.now = clock
        /\ NormalizeIssuer(options.expectedIssuer) = NormalizeIssuer(a.issuer)
    BY <1>1 DEF Options, NormalizeIssuer, Bare
  <1>3. ExpiryErrors(claims.expires_at, clock) = {}
    BY InTime DEF Unexpired
  <1>4. IssuedErrors(claims.issued_at, clock) = {}
    BY InTime DEF Begun
  <1> HIDE DEF options, claims
  <1>5. BindingErrors(claims, options) = {}
    <2>1. {f \in DOMAIN BindingClaims(claims) : BindingClaims(claims)[f] = Null} = {}
      BY <1>1, NamesAssumption DEF BindingClaims
    <2> QED BY <1>1, <1>2, <2>1, Zenon DEF BindingErrors
  <1>6. ContextErrors(a, options) = {}
    BY <1>2, <1>3, <1>4, <1>5, Zenon DEF ContextErrors, claims
  <1> QED BY <1>6 DEF options

-----------------------------------------------------------------------------
(* The key check of what an issuer signed, by the keys a host has listed.   *)

\* The list tells which key it was that signed.
Known(list, key, kid) == key \in Held(list) /\ (kid # Null \/ Held(list) = {key})

\* The list points to another key.
Mistaken(list, key, kid) == kid = Null /\ \E other \in Held(list) \ {key} : Held(list) = {other}

LEMMA KnownIsNotMistaken ==
    ASSUME NEW list, NEW key, NEW kid
    PROVE  ~(Known(list, key, kid) /\ Mistaken(list, key, kid))
  BY DEF Known, Mistaken

LEMMA ChosenKeys ==
    ASSUME AbsentIsNone, NEW list, NEW i, KeyList(list, i), NEW n \in Nat, NEW kid \in {Null, n}
    PROVE  LET okp == SelectKey(list, kid, "ed25519-jcs")
               ec  == SelectKey(list, kid, "ES256")
           IN  /\ Known(list, Key(i, n), kid) => okp = {OkpKey(i, n)} /\ ec = {EcKey(i, n)}
               /\ Mistaken(list, Key(i, n), kid) =>
                     \E m \in Nat \ {n} : okp = {OkpKey(i, m)} /\ ec = {EcKey(i, m)}
               /\ ~Known(list, Key(i, n), kid) /\ ~Mistaken(list, Key(i, n), kid) =>
                     okp = {} /\ ec = {}
  <1> DEFINE okp == SelectKey(list, kid, "ed25519-jcs")
             ec == SelectKey(list, kid, "ES256")
             key == Key(i, n)
  <1>1. n # Null
    BY DEF AbsentIsNone
  <1>2. CASE kid = n
    <2>1. okp = OneOf(list, Okp(i, n), OkpKey(i, n)) /\ ec = OneOf(list, Ec(i, n), EcKey(i, n))
      BY <1>2, SelectedKeys
    <2>2. /\ Lists(list, Okp(i, n)) <=> key \in Held(list)
          /\ Lists(list, Ec(i, n)) <=> key \in Held(list)
      BY HeldKeysAreListed, HeldKey
    <2>3. Known(list, key, kid) <=> key \in Held(list)
      BY <1>1, <1>2 DEF Known
    <2>4. ~Mistaken(list, key, kid)
      BY <1>1, <1>2 DEF Mistaken
    <2> QED BY <2>1, <2>2, <2>3, <2>4 DEF OneOf
  <1>3. CASE kid = Null
    <2>1. /\ \A m \in Nat : Held(list) = {Key(i, m)} => okp = {OkpKey(i, m)} /\ ec = {EcKey(i, m)}
          /\ (\A k : Held(list) # {k}) => okp = {} /\ ec = {}
      BY <1>3, UnnamedKeys
    <2> HIDE DEF okp, ec
    <2>2. Known(list, key, kid) <=> Held(list) = {key}
      BY <1>3 DEF Known
    <2>3. ASSUME Mistaken(list, key, kid)
          PROVE  \E m \in Nat \ {n} : okp = {OkpKey(i, m)} /\ ec = {EcKey(i, m)}
      <3>1. PICK other \in Held(list) \ {key} : Held(list) = {other}
        BY <2>3 DEF Mistaken
      <3>2. PICK m \in Nat : other = Key(i, m)
        BY HeldKeysAreListed
      <3>3. m # n
        BY <3>1, <3>2
      <3>4. okp = {OkpKey(i, m)} /\ ec = {EcKey(i, m)}
        BY <2>1, <3>1, <3>2
      <3> QED BY <3>3, <3>4
    <2>4. ASSUME ~Known(list, key, kid), ~Mistaken(list, key, kid)
          PROVE  \A k : Held(list) # {k}
      BY <1>3, <2>2, <2>4 DEF Mistaken
    <2> QED BY <2>1, <2>2, <2>3, <2>4 DEF okp, ec
  <1> QED BY <1>2, <1>3

\* What a key check says of what was signed with a key of the issuer.
FollowsTheKey(check, list, key, kid) ==
    /\ Known(list, key, kid) => check.errors = {}
    /\ Mistaken(list, key, kid) => check.errors # {} /\ check.unknown = FALSE
    /\ ~Known(list, key, kid) /\ ~Mistaken(list, key, kid) =>
          (\E e : check.errors = {e}) /\ check.unknown = TRUE

(* A native attestation as it was signed. *)
LEMMA GenuineNativeKey ==
    ASSUME AbsentIsNone, NEW a, IsNative(a), NEW i, NEW n \in Nat, NEW options,
           KeyList(options.trustRoots, i), a.kid \in {Null, n}, a.spec_version = CurrentVersion,
           a.signature = [key |-> Key(i, n), input |-> SigningInput(a)]
    PROVE  FollowsTheKey(KeyCheck(a, options), options.trustRoots, Key(i, n), a.kid)
  <1> DEFINE list == options.trustRoots
             key == Key(i, n)
             chosen == SelectKey(list, a.kid, "ed25519-jcs")
             usable == {k \in chosen : k.hex}
  <1>1. /\ Known(list, key, a.kid) => chosen = {OkpKey(i, n)}
        /\ Mistaken(list, key, a.kid) => \E m \in Nat \ {n} : chosen = {OkpKey(i, m)}
        /\ ~Known(list, key, a.kid) /\ ~Mistaken(list, key, a.kid) => chosen = {}
    BY ChosenKeys
  <1>2. ClassifyVersion(a.spec_version) = "known"
    BY DEF ClassifyVersion, CurrentVersion
  <1>3. a.signature # Null
    BY DEF AbsentIsNone
  <1>4. \A m : OkpKey(i, m).hex = TRUE /\ OkpKey(i, m).key = Key(i, m)
    BY DEF OkpKey
  <1>5. \A m \in Nat : SignedBy(a, Key(i, m)) <=> m = n
    BY EntriesDiffer DEF SignedBy
  <1> DEFINE check == KeyCheck(a, options)
  <1>6. check = NativeCheck(a, options)
    BY DEF KeyCheck
  <1>7. ASSUME chosen = {OkpKey(i, n)} PROVE check.errors = {}
    <2>1. usable = {OkpKey(i, n)}
      BY <1>4, <1>7
    <2>2. usable # {} /\ \E k \in usable : SignedBy(a, k.key)
      BY <1>4, <1>5, <2>1
    <2> HIDE DEF usable
    <2>3. check = [errors |-> {}, unknown |-> FALSE]
      BY <1>2, <1>3, <1>6, <2>2 DEF NativeCheck, usable
    <2> HIDE DEF check
    <2> QED BY <2>3
  <1>8. ASSUME NEW m \in Nat \ {n}, chosen = {OkpKey(i, m)}
        PROVE  check.errors # {} /\ check.unknown = FALSE
    <2>1. usable = {OkpKey(i, m)}
      BY <1>4, <1>8
    <2>2. usable # {} /\ ~\E k \in usable : SignedBy(a, k.key)
      BY <1>4, <1>5, <2>1
    <2> HIDE DEF usable
    <2>3. check = [errors |-> {"signature invalid"}, unknown |-> FALSE]
      BY <1>2, <1>3, <1>6, <2>2 DEF NativeCheck, usable
    <2> HIDE DEF check
    <2> QED BY <2>3
  <1>9. ASSUME chosen = {}
        PROVE  (\E e : check.errors = {e}) /\ check.unknown = TRUE
    <2>1. usable = {}
      BY <1>9
    <2>2. check = [errors |-> {"no trust-root key"}, unknown |-> TRUE]
      BY <1>2, <1>6, <2>1 DEF NativeCheck
    <2> HIDE DEF check
    <2> QED BY <2>2
  <1> HIDE DEF list, key, chosen, check
  <1>10. ASSUME Known(list, key, a.kid) PROVE check.errors = {}
    BY <1>1, <1>7, <1>10
  <1>11. ASSUME Mistaken(list, key, a.kid)
         PROVE  check.errors # {} /\ check.unknown = FALSE
    BY <1>1, <1>8, <1>11
  <1> QED BY <1>1, <1>9, <1>10, <1>11, Zenon DEF FollowsTheKey, list, key, check

(* No check of a token with a key reports anything. *)
LEMMA NoneReported ==
    ASSUME NEW m1, NEW m2, NEW m3, NEW m4, NEW m5,
           NEW p1, NEW p2, NEW p3, NEW p4, NEW p5, ~p1, ~p2, ~p3, ~p4, ~p5
    PROVE  {e[1] : e \in {d \in {<<m1, p1>>, <<m2, p2>>, <<m3, p3>>, <<m4, p4>>, <<m5, p5>>} : d[2]}}
               = {}
  <1> DEFINE checks == {<<m1, p1>>, <<m2, p2>>, <<m3, p3>>, <<m4, p4>>, <<m5, p5>>}
  <1>1. <<m1, p1>>[2] = p1 /\ <<m2, p2>>[2] = p2 /\ <<m3, p3>>[2] = p3
        /\ <<m4, p4>>[2] = p4 /\ <<m5, p5>>[2] = p5
    BY Zenon
  <1>2. \A d \in checks : ~d[2]
    BY <1>1, Zenon
  <1> QED BY <1>2, Zenon

(* With a key, a token is not unknown; without, it is that and nothing else. *)
LEMMA TokenKeyIsFound ==
    ASSUME NEW a, ~IsNative(a), a.jwt.alg \in JwtAlgs, NEW options
    PROVE  LET usable == {k \in SelectKey(options.trustRoots, a.jwt.kid, a.jwt.alg) : k.jwk}
           IN  /\ usable # {} => KeyCheck(a, options).unknown = FALSE
               /\ usable = {} => /\ KeyCheck(a, options).errors = {"jwt no trust-root key"}
                                 /\ KeyCheck(a, options).unknown = TRUE
  <1> DEFINE t == a.jwt
             usable == {k \in SelectKey(options.trustRoots, t.kid, t.alg) : k.jwk}
             result == VerifyJwt(t, options.trustRoots, options.now, options.expectedIssuer,
                                 options.audience)
  <1>1. /\ KeyCheck(a, options).errors = result.errors
        /\ KeyCheck(a, options).unknown = result.trustRootMissing
    BY DEF KeyCheck, JwtCheck
  <1>2. usable # {} => result.trustRootMissing = FALSE
    BY DEF VerifyJwt
  <1>3. usable = {} => /\ result.errors = {"jwt no trust-root key"}
                       /\ result.trustRootMissing = TRUE
    BY DEF VerifyJwt
  <1> HIDE DEF result, usable
  <1>4. /\ usable # {} => KeyCheck(a, options).unknown = FALSE
        /\ usable = {} => /\ KeyCheck(a, options).errors = {"jwt no trust-root key"}
                          /\ KeyCheck(a, options).unknown = TRUE
    BY <1>1, <1>2, <1>3
  <1> QED BY <1>4, Zenon DEF usable

(* A token as it was signed, from the second it starts at until it expires. *)
LEMMA GenuineTokenKey ==
    ASSUME AbsentIsNone, NEW a, ~IsNative(a), NEW i, NEW n \in Nat, NEW options,
           KeyList(options.trustRoots, i), options.now \in Nat,
           NormalizeIssuer(options.expectedIssuer) = i, a.jwt.kid \in {Null, n},
           a.jwt.alg = "ES256", a.jwt.iss[2] = i, options.audience \in a.jwt.aud,
           a.jwt.exp.at \in Nat, a.jwt.nbf.at \in Nat,
           a.jwt.exp.form = "number" => options.now < a.jwt.exp.at * TicksPerSecond,
           a.jwt.nbf.form = "number" => a.jwt.nbf.at <= options.now \div TicksPerSecond,
           a.jwt.signature = [key |-> Key(i, n), input |-> SigningInput(a.jwt)]
    PROVE  FollowsTheKey(KeyCheck(a, options), options.trustRoots, Key(i, n), a.jwt.kid)
  <1> DEFINE t == a.jwt
             list == options.trustRoots
             key == Key(i, n)
             chosen == SelectKey(list, t.kid, t.alg)
             usable == {k \in chosen : k.jwk}
             nowSec == options.now \div TicksPerSecond
             result == VerifyJwt(t, list, options.now, options.expectedIssuer, options.audience)
  <1>1. /\ Known(list, key, t.kid) => chosen = {EcKey(i, n)}
        /\ Mistaken(list, key, t.kid) => \E m \in Nat \ {n} : chosen = {EcKey(i, m)}
        /\ ~Known(list, key, t.kid) /\ ~Mistaken(list, key, t.kid) => chosen = {}
    BY ChosenKeys
  <1>2. t.alg \in JwtAlgs
    BY DEF JwtAlgs
  <1>3. nowSec \in Nat /\ nowSec * TicksPerSecond <= options.now
    BY WholeUnits, TimeAssumption
  <1>4. \A m : EcKey(i, m).jwk = TRUE /\ EcKey(i, m).key = Key(i, m)
    BY DEF EcKey
  <1>5. \A m \in Nat : SignedBy(t, Key(i, m)) <=> m = n
    BY EntriesDiffer DEF SignedBy
  <1>6. /\ usable # {} => KeyCheck(a, options).unknown = FALSE
        /\ usable = {} => /\ KeyCheck(a, options).errors = {"jwt no trust-root key"}
                          /\ KeyCheck(a, options).unknown = TRUE
    BY <1>2, TokenKeyIsFound
  <1>7. \A m \in Nat : chosen = {EcKey(i, m)} => usable = {EcKey(i, m)}
    BY <1>4
  <1>8. chosen = {} => usable = {}
    OBVIOUS
  <1>9. ASSUME chosen = {EcKey(i, n)}
        PROVE  KeyCheck(a, options).errors = {}
    <2>1. usable # {} /\ \E k \in usable : SignedBy(t, k.key)
      BY <1>4, <1>5, <1>7, <1>9
    <2> HIDE DEF usable, nowSec
    <2>2. ~(t.exp.form = "number" /\ nowSec >= t.exp.at)
      <3> SUFFICES ASSUME t.exp.form = "number" PROVE nowSec < t.exp.at
        BY <1>3
      <3>1. nowSec * TicksPerSecond < t.exp.at * TicksPerSecond
        <4>1. nowSec * TicksPerSecond \in Nat /\ t.exp.at * TicksPerSecond \in Nat
          BY <1>3, TimeAssumption
        <4> QED BY <1>3, <4>1
      <3> QED BY <1>3, <3>1, FewerUnits, TimeAssumption
    <2>3. ~(t.nbf.form = "number" /\ nowSec < t.nbf.at)
      BY <1>3 DEF nowSec
    <2>4. NormalizeIssuer(t.iss) = NormalizeIssuer(options.expectedIssuer)
      BY DEF NormalizeIssuer
    <2> DEFINE checks == {<<"jwt signature invalid", ~\E k \in usable : SignedBy(t, k.key)>>,
                          <<"jwt expired", t.exp.form = "number" /\ nowSec >= t.exp.at>>,
                          <<"jwt not yet valid", t.nbf.form = "number" /\ nowSec < t.nbf.at>>,
                          <<"jwt issuer mismatch",
                            NormalizeIssuer(t.iss) # NormalizeIssuer(options.expectedIssuer)>>,
                          <<"jwt audience mismatch", options.audience \notin t.aud>>}
               reported == {e[1] : e \in {d \in checks : d[2]}}
    <2>5. reported = {}
      BY <2>1, <2>2, <2>3, <2>4, NoneReported, Zenon
    <2>6. result = [errors |-> reported, trustRootMissing |-> FALSE]
      BY <1>2, <2>1, Zenon DEF VerifyJwt, usable, nowSec
    <2> HIDE DEF result, reported
    <2>7. result.errors = {}
      BY <2>5, <2>6
    <2> QED BY <2>7 DEF KeyCheck, JwtCheck, result
  <1>10. ASSUME NEW m \in Nat \ {n}, chosen = {EcKey(i, m)}
         PROVE  KeyCheck(a, options).errors # {}
    <2>1. \A k \in chosen : ~SignedBy(t, k.key)
      BY <1>4, <1>5, <1>10
    <2> HIDE DEF chosen
    <2> QED BY <2>1, CleanToken DEF chosen
  <1> HIDE DEF list, key, chosen, usable
  <1>11. ASSUME Known(list, key, t.kid) PROVE KeyCheck(a, options).errors = {}
    BY <1>1, <1>9, <1>11
  <1>12. ASSUME Mistaken(list, key, t.kid)
         PROVE  KeyCheck(a, options).errors # {} /\ KeyCheck(a, options).unknown = FALSE
    BY <1>1, <1>6, <1>7, <1>10, <1>12
  <1>13. ASSUME ~Known(list, key, t.kid), ~Mistaken(list, key, t.kid)
         PROVE  (\E e : KeyCheck(a, options).errors = {e}) /\ KeyCheck(a, options).unknown = TRUE
    BY <1>1, <1>6, <1>8, <1>13
  <1> QED BY <1>11, <1>12, <1>13 DEF FollowsTheKey, list, key

(* What was signed is read back member by member. *)
LEMMA SignedMembers ==
    ASSUME NEW d, NEW fields, Function(d, fields), "signature" \in fields
    PROVE  /\ DOMAIN SigningInput(d) = fields
           /\ \A y \in fields \ {"signature"} : SigningInput(d)[y] = d[y]
  BY ReplacedMember DEF SigningInput, Function

LEMMA FieldsDiffer == AttestationFields # TokenFields
  <1>1. "jwt" \in AttestationFields /\ "jwt" \notin TokenFields
    BY DEF AttestationFields, TokenFields
  <1> QED BY <1>1

\* The status GenuineFollowsItsKey promises.
Promised(a, i) ==
    CASE Recognised(a, i) -> VERIFIED
      [] TakenForAForgery(a, i) -> REJECTED
      [] OTHER -> UNVERIFIED

LEMMA PromisedStatus ==
    ASSUME AbsentIsNone, NEW a, Shape(a, issued), NEW i, NEW c, NEW s, NEW kid,
           kid = IF IsNative(a) THEN a.kid ELSE a.jwt.kid,
           ContextErrors(a, Options(i, c, s)) = {},
           FollowsTheKey(KeyCheck(a, Options(i, c, s)), cache[i], SigningKey(a), kid)
    PROVE  Result(a, i, c, s).status = Promised(a, i)
  <1> DEFINE check == KeyCheck(a, Options(i, c, s))
             key == SigningKey(a)
  <1>1. a.typ = AttestationTyp /\ ~(~IsNative(a) /\ a.jwt = Null)
    BY DEF Shape, TokenShape, AbsentIsNone
  <1>2. Result(a, i, c, s).status = StatusFor(check, {})
    BY <1>1 DEF Result, VerifyIdentityAttestation
  <1>3. /\ Recognised(a, i) <=> Known(cache[i], key, kid)
        /\ TakenForAForgery(a, i) <=> Mistaken(cache[i], key, kid)
    BY Zenon DEF Recognised, TakenForAForgery, NamesItsKey, HeldKeys, Held, Known, Mistaken
  <1>4. ~(Recognised(a, i) /\ TakenForAForgery(a, i))
    BY <1>3, KnownIsNotMistaken
  <1> HIDE DEF check, key
  <1>5. /\ Recognised(a, i) => StatusFor(check, {}) = VERIFIED
        /\ TakenForAForgery(a, i) => StatusFor(check, {}) = REJECTED
        /\ ~Recognised(a, i) /\ ~TakenForAForgery(a, i) => StatusFor(check, {}) = UNVERIFIED
    BY <1>3, CleanContext DEF FollowsTheKey, check, key
  <1> QED BY <1>2, <1>4, <1>5 DEF Promised

LEMMA GenuineNative ==
    ASSUME AbsentIsNone, WorldInv, ListsInv, SignatureInv, NEW a \in circulating, IsNative(a),
           NEW i \in Issuers, NEW c \in Capsules, NEW s \in Signers,
           Authentic(a, i, c, s), Begun(a), Unexpired(a)
    PROVE  Result(a, i, c, s).status = Promised(a, i)
  <1>1. PICK sig \in issued : /\ OwnerOf(sig.key) = i
                              /\ a.signature = sig /\ sig.input = SigningInput(a)
    BY DEF Authentic
  <1>2. Shape(a, issued) /\ Function(a, AttestationFields) /\ clock \in Nat
    BY DEF WorldInv, Shape
  <1>3. /\ DOMAIN sig.input = AttestationFields
        /\ \A y \in AttestationFields \ {"signature"} : sig.input[y] = a[y]
    BY <1>1, <1>2, SignedMembers DEF AttestationFields
  <1>4. IssuedNative(sig) /\ sig = [key |-> sig.key, input |-> sig.input]
    BY <1>3, FieldsDiffer DEF SignatureInv, IssuedToken
  <1>5. /\ sig.input.spec_version = a.spec_version /\ sig.input.kid = a.kid
        /\ sig.input.issuer = a.issuer
    BY <1>3 DEF AttestationFields
  <1>6. PICK n \in Nat : sig.key = Key(a.issuer[2], n) /\ a.kid \in {Null, n}
    BY <1>4, <1>5 DEF IssuedNative, SignedWith
  <1>7. sig.key = Key(i, n)
    BY <1>1, <1>6 DEF OwnerOf, Key
  <1>8. ContextErrors(a, Options(i, c, s)) = {}
    BY <1>2, TimesAreNumbers, NoContextError
  <1>9. KeyList(cache[i], i) /\ Options(i, c, s).trustRoots = cache[i]
    BY DEF ListsInv, Options
  <1>10. a.signature = [key |-> Key(i, n), input |-> SigningInput(a)]
    BY <1>1, <1>4, <1>7
  <1>11. a.spec_version = CurrentVersion
    BY <1>4, <1>5 DEF IssuedNative
  <1>12. FollowsTheKey(KeyCheck(a, Options(i, c, s)), cache[i], Key(i, n), a.kid)
    BY <1>6, <1>9, <1>10, <1>11, GenuineNativeKey
  <1>13. SigningKey(a) = Key(i, n)
    BY <1>1, <1>7 DEF SigningKey
  <1> QED BY <1>2, <1>8, <1>12, <1>13, PromisedStatus

LEMMA GenuineJwt ==
    ASSUME AbsentIsNone, WorldInv, ListsInv, SignatureInv, NEW a \in circulating, ~IsNative(a),
           NEW i \in Issuers, NEW c \in Capsules, NEW s \in Signers,
           Authentic(a, i, c, s), Begun(a), Unexpired(a)
    PROVE  Result(a, i, c, s).status = Promised(a, i)
  <1> DEFINE t == a.jwt
             options == Options(i, c, s)
  <1>1. PICK sig \in issued : /\ OwnerOf(sig.key) = i
                              /\ t.signature = sig /\ sig.input = SigningInput(t)
    BY DEF Authentic
  <1>2. /\ Shape(a, issued) /\ Function(t, TokenFields) /\ clock \in Nat
        /\ t.exp.at \in Nat /\ t.nbf.at \in Nat
    BY DEF WorldInv, Shape, TokenShape, Timed
  <1>3. /\ DOMAIN sig.input = TokenFields
        /\ \A y \in TokenFields \ {"signature"} : sig.input[y] = t[y]
    BY <1>1, <1>2, SignedMembers DEF TokenFields
  <1>4. IssuedToken(sig) /\ sig = [key |-> sig.key, input |-> sig.input]
    BY <1>3, FieldsDiffer DEF SignatureInv, IssuedNative
  <1>5. /\ sig.input.alg = t.alg /\ sig.input.kid = t.kid /\ sig.input.iss = t.iss
        /\ sig.input.aud = t.aud
    BY <1>3 DEF TokenFields
  <1>6. PICK n \in Nat : sig.key = Key(t.iss[2], n) /\ t.kid \in {Null, n}
    BY <1>4, <1>5 DEF IssuedToken, SignedWith
  <1>7. t.alg = "ES256" /\ Audience \in t.aud
    BY <1>4, <1>5 DEF IssuedToken
  <1>8. sig.key = Key(i, n) /\ t.iss[2] = i
    BY <1>1, <1>6 DEF OwnerOf, Key
  <1>9. t.exp.form = "number" => clock < t.exp.at * TicksPerSecond
    <2>1. Claims(a).expires_at = JwtInstant(t.exp)
      BY DEF Claims, ProjectedClaims
    <2> QED BY <2>1 DEF Unexpired, JwtInstant, Instant
  <1>10. t.nbf.form = "number" => t.nbf.at <= clock \div TicksPerSecond
    BY DEF Begun
  <1>11. ContextErrors(a, options) = {}
    BY <1>2, TimesAreNumbers, NoContextError
  <1>12. KeyList(cache[i], i)
    BY DEF ListsInv
  <1>13. t.signature = [key |-> Key(i, n), input |-> SigningInput(t)]
    BY <1>1, <1>4, <1>8
  <1>14. /\ options.trustRoots = cache[i] /\ options.now = clock /\ options.audience = Audience
         /\ NormalizeIssuer(options.expectedIssuer) = i
    BY DEF Options, NormalizeIssuer, Bare
  <1> HIDE DEF options
  <1>15. FollowsTheKey(KeyCheck(a, options), cache[i], Key(i, n), t.kid)
    <2>1. KeyList(options.trustRoots, i) /\ options.now \in Nat
      BY <1>2, <1>12, <1>14
    <2>2. options.audience \in t.aud
      BY <1>7, <1>14
    <2>3. /\ t.exp.form = "number" => options.now < t.exp.at * TicksPerSecond
          /\ t.nbf.form = "number" => t.nbf.at <= options.now \div TicksPerSecond
      BY <1>9, <1>10, <1>14
    <2>4. FollowsTheKey(KeyCheck(a, options), options.trustRoots, Key(i, n), t.kid)
      BY <1>2, <1>6, <1>7, <1>8, <1>13, <1>14, <2>1, <2>2, <2>3, GenuineTokenKey, Zenon
    <2> QED BY <1>14, <2>4
  <1>16. SigningKey(a) = Key(i, n)
    BY <1>1, <1>8 DEF SigningKey
  <1> QED BY <1>2, <1>11, <1>15, <1>16, PromisedStatus DEF options

(* The firewall: what an issuer signed for this capsule and signer, at a time *)
(* it is good for, verifies if the host recognises its key and is unknown if  *)
(* not, through any rotations, refreshes and edits of wrappers, as a native   *)
(* attestation or a token, whatever instants were written into it.  Only what *)
(* names no key is ever rejected, at a host left with one other key.          *)
THEOREM GenuineVerdictsFollowTheKey ==
    ASSUME AbsentIsNone
    PROVE  Spec => []GenuineFollowsItsKey
  <1>1. RootsInv /\ WorldInv /\ ListsInv /\ SignatureInv => GenuineFollowsItsKey
    <2> SUFFICES ASSUME WorldInv, ListsInv, SignatureInv,
                        NEW a \in circulating, NEW i \in Issuers,
                        NEW c \in Capsules, NEW s \in Signers,
                        Authentic(a, i, c, s), Begun(a), Unexpired(a)
                 PROVE  Result(a, i, c, s).status = Promised(a, i)
      BY DEF GenuineFollowsItsKey, Promised
    <2> QED BY GenuineNative, GenuineJwt
  <1> QED BY <1>1, GenuineInvs, PTL

-----------------------------------------------------------------------------
(* Why verdicts change.  What verifies is authentic and its time is now; it  *)
(* stays authentic, and its time does not pass before it expires: its later  *)
(* verdicts follow the key, and so did the ones it had since it had begun.   *)

VerifiedIsGenuine ==
    \A a \in circulating, i \in Issuers, c \in Capsules, s \in Signers :
        Result(a, i, c, s).status = VERIFIED =>
            Authentic(a, i, c, s) /\ Begun(a) /\ Unexpired(a)

LEMMA VerifiedMeansGenuine == RootsInv /\ WorldInv => VerifiedIsGenuine
  <1> SUFFICES ASSUME RootsInv, WorldInv,
                      NEW a \in circulating, NEW i \in Issuers,
                      NEW c \in Capsules, NEW s \in Signers,
                      Result(a, i, c, s).status = VERIFIED
               PROVE  Authentic(a, i, c, s) /\ Begun(a) /\ Unexpired(a)
    BY DEF VerifiedIsGenuine
  <1> DEFINE options == Options(i, c, s)
  <1>1. Shape(a, issued) /\ clock \in Nat
    BY DEF WorldInv
  <1>2. StatusFor(KeyCheck(a, options), ContextErrors(a, options)) = VERIFIED
    BY DEF Result, VerifyIdentityAttestation, Rejection, VERIFIED, REJECTED
  <1>3. KeyCheck(a, options).errors = {} /\ ContextErrors(a, options) = {}
    BY <1>2 DEF StatusFor, VERIFIED, UNVERIFIED, REJECTED
  <1>4. Authentic(a, i, c, s)
    BY <1>1, <1>3, NoKeyErrorMeansIssued, NoContextErrorMeansBound DEF Authentic, SignedAsItIs
  <1>5. Unexpired(a)
    BY <1>1, <1>3, NoContextErrorMeansBound DEF Unexpired
  <1>6. \/ Claims(a).issued_at = NoTime
        \/ Parses(Claims(a).issued_at) /\ Claims(a).issued_at.at <= clock + Skew
    BY <1>1, <1>3, NoContextErrorMeansBound
  <1>7. ASSUME ~IsNative(a), a.jwt.nbf.form = "number"
        PROVE  a.jwt.nbf.at <= clock \div TicksPerSecond
    <2>1. ~(options.now \div TicksPerSecond < a.jwt.nbf.at) /\ options.now = clock
      BY <1>3, <1>7, CleanToken DEF Options
    <2>2. a.jwt.nbf.at \in Nat /\ clock \div TicksPerSecond \in Nat
      BY <1>1, <1>7, TimeAssumption, WholeUnits DEF Shape, TokenShape, Timed
    <2> QED BY <2>1, <2>2
  <1> QED BY <1>4, <1>5, <1>6, <1>7 DEF Begun

(* Time goes on, and neither a document nor a signature is taken back. *)
LEMMA WorldGrows ==
    ASSUME WorldInv, [Next]_vars
    PROVE  /\ clock \in Nat /\ clock' \in Nat /\ clock <= clock'
           /\ circulating \subseteq circulating' /\ issued \subseteq issued'
  <1>1. clock \in Nat
    BY DEF WorldInv
  <1>2. ASSUME NEW i \in Issuers,
               Rotate(i) \/ FetchIssuerMetadata(i) \/ LoadTrustRoots(i) \/ AbandonRefresh(i)
        PROVE  UNCHANGED <<clock, circulating, issued>>
    BY <1>2 DEF Rotate, FetchIssuerMetadata, LoadTrustRoots, AbandonRefresh, worldVars
  <1>3. ASSUME NEW i \in Issuers, NEW claims, NEW kid, NEW n,
               IssueNative(i, claims, kid, n) \/ IssueJwt(i, claims, kid, n)
        PROVE  /\ clock' = clock /\ circulating \subseteq circulating'
               /\ issued \subseteq issued'
    BY <1>3 DEF IssueNative, IssueJwt, Issue
  <1>4. ASSUME NEW a, NEW i \in Issuers, NEW c, NEW s, Check(a, i, c, s)
        PROVE  UNCHANGED <<clock, circulating, issued>>
    BY <1>4 DEF Check, worldVars
  <1>5. Edit => clock' = clock /\ circulating \subseteq circulating' /\ issued' = issued
    BY DEF Edit
  <1>6. Tick => clock' = clock + 1 /\ UNCHANGED <<circulating, issued>>
    BY DEF Tick, worldVars
  <1>7. UNCHANGED vars => UNCHANGED <<clock, circulating, issued>>
    BY DEF vars
  <1>8. /\ clock' = clock \/ clock' = clock + 1
        /\ circulating \subseteq circulating' /\ issued \subseteq issued'
    BY <1>2, <1>3, <1>4, <1>5, <1>6, <1>7 DEF Next
  <1> QED BY <1>1, <1>8

(* A circulating document is authentic in one of two moments if in the other. *)
LEMMA AuthenticLasts ==
    ASSUME AbsentIsNone, WorldInv, SignatureInv', [Next]_vars,
           NEW a \in circulating, NEW i, NEW c, NEW s
    PROVE  Authentic(a, i, c, s) <=> Authentic(a, i, c, s)'
  <1>1. issued \subseteq issued'
    BY WorldGrows
  <1>2. SignedAsItIs(a, i) => SignedAsItIs(a, i)'
    BY <1>1 DEF SignedAsItIs
  <1>3. ASSUME SignedAsItIs(a, i)' PROVE SignedAsItIs(a, i)
    <2>1. IF IsNative(a) THEN a.signature # Null => a.signature \in issued
          ELSE a.jwt.signature \in issued
      BY DEF WorldInv, Shape, NativeShape, TokenShape
    <2>2. PICK sig \in issued' :
             /\ OwnerOf(sig.key) = i
             /\ IF IsNative(a) THEN a.signature = sig /\ sig.input = SigningInput(a)
                ELSE a.jwt.signature = sig /\ sig.input = SigningInput(a.jwt)
      BY <1>3 DEF SignedAsItIs
    <2>3. sig # Null
      <3>1. sig = [key |-> sig.key, input |-> sig.input]
        BY DEF SignatureInv
      <3> QED BY <3>1 DEF AbsentIsNone
    <2> QED BY <2>1, <2>2, <2>3 DEF SignedAsItIs
  <1> QED BY <1>2, <1>3 DEF Authentic, SignedAsItIs

(* What has begun has begun for good, and what expired stays so. *)
LEMMA TimePasses ==
    ASSUME WorldInv, [Next]_vars, NEW a \in circulating
    PROVE  /\ Begun(a) => Begun(a)'
           /\ Unexpired(a)' => Unexpired(a)
  <1>1. clock \in Nat /\ clock' \in Nat /\ clock <= clock'
    BY WorldGrows
  <1>2. Shape(a, issued)
    BY DEF WorldInv
  <1>3. Claims(a).issued_at.at \in Nat /\ Claims(a).expires_at.at \in Nat
    BY <1>2, TimesAreNumbers
  <1>4. Unexpired(a)' => Unexpired(a)
    BY <1>1, <1>3 DEF Unexpired
  <1>5. Claims(a).issued_at.at <= clock + Skew => Claims(a).issued_at.at <= clock' + Skew
    BY <1>1, <1>3, TimeAssumption
  <1>6. ASSUME ~IsNative(a), a.jwt.nbf.at <= clock \div TicksPerSecond
        PROVE  a.jwt.nbf.at <= clock' \div TicksPerSecond
    <2>1. a.jwt.nbf.at \in Nat
      BY <1>2, <1>6 DEF Shape, TokenShape, Timed
    <2>2. /\ clock \div TicksPerSecond \in Nat /\ clock' \div TicksPerSecond \in Nat
          /\ clock \div TicksPerSecond <= clock' \div TicksPerSecond
      BY <1>1, UnitsPass, WholeUnits, TimeAssumption
    <2> QED BY <1>6, <2>1, <2>2
  <1>7. Begun(a) => Begun(a)'
    BY <1>5, <1>6 DEF Begun
  <1> QED BY <1>4, <1>7

(* The verdict of the next moment is known from the one of this moment. *)
LEMMA VerdictChanges ==
    ASSUME AbsentIsNone, WorldInv, SignatureInv', GenuineFollowsItsKey,
           GenuineFollowsItsKey', VerifiedIsGenuine, VerifiedIsGenuine', [Next]_vars,
           NEW a \in circulating, NEW i \in Issuers, NEW c \in Capsules, NEW s \in Signers
    PROVE  /\ Result(a, i, c, s).status = VERIFIED /\ clock' < Claims(a).expires_at.at =>
                  Result(a, i, c, s)'.status =
                      CASE Recognised(a, i)' -> VERIFIED
                        [] TakenForAForgery(a, i)' -> REJECTED
                        [] OTHER -> UNVERIFIED
           /\ Result(a, i, c, s).status = REJECTED /\ Result(a, i, c, s)'.status = VERIFIED =>
                  ~Begun(a) \/ TakenForAForgery(a, i)
  <1>1. a \in circulating'
    BY WorldGrows
  <1>2. ASSUME Result(a, i, c, s).status = VERIFIED, clock' < Claims(a).expires_at.at
        PROVE  Result(a, i, c, s)'.status =
                   CASE Recognised(a, i)' -> VERIFIED
                     [] TakenForAForgery(a, i)' -> REJECTED
                     [] OTHER -> UNVERIFIED
    <2>1. Authentic(a, i, c, s) /\ Begun(a) /\ Unexpired(a)
      BY <1>2 DEF VerifiedIsGenuine
    <2>2. Authentic(a, i, c, s)' /\ Begun(a)'
      BY <2>1, AuthenticLasts, TimePasses
    <2>3. Unexpired(a)'
      BY <1>2, <2>1 DEF Unexpired
    <2> QED BY <1>1, <2>2, <2>3 DEF GenuineFollowsItsKey
  <1>3. ASSUME Result(a, i, c, s).status = REJECTED, Result(a, i, c, s)'.status = VERIFIED,
               Begun(a)
        PROVE  TakenForAForgery(a, i)
    <2>1. Authentic(a, i, c, s)' /\ Unexpired(a)'
      BY <1>1, <1>3 DEF VerifiedIsGenuine
    <2>2. Authentic(a, i, c, s) /\ Unexpired(a)
      BY <2>1, AuthenticLasts, TimePasses
    <2>3. Result(a, i, c, s).status = Promised(a, i)
      BY <1>3, <2>2 DEF GenuineFollowsItsKey, Promised
    <2> QED BY <1>3, <2>3 DEF Promised, VERIFIED, UNVERIFIED, REJECTED
  <1> QED BY <1>2, <1>3

(* Whatever issuers rotate and servers answer, a verification follows its key *)
(* until it expires, and only what had not begun, or was taken for a forgery  *)
(* for want of a kid, ever comes back from a rejection.                       *)
THEOREM VerdictsHaveACause ==
    ASSUME AbsentIsNone
    PROVE  Spec => VerdictsChangeForCause
  <1> DEFINE Inv == RootsInv /\ WorldInv /\ ListsInv /\ SignatureInv
             Sure == GenuineFollowsItsKey /\ VerifiedIsGenuine
  <1>1. Inv => VerifiedIsGenuine
    BY VerifiedMeansGenuine
  <1>2. Spec => []Inv /\ []Sure
    BY <1>1, GenuineInvs, GenuineVerdictsFollowTheKey, PTL
  <1>3. Inv /\ Inv' /\ Sure /\ Sure' /\ [Next]_vars =>
            [\A a \in circulating, i \in Issuers : clock' # clock \/ cache'[i] # cache[i] =>
                \A c \in Capsules, s \in Signers :
                    Claims(a).capsule_id = c /\ Claims(a).signer_public_key = s =>
                        /\ Result(a, i, c, s).status = VERIFIED
                           /\ clock' < Claims(a).expires_at.at =>
                               Result(a, i, c, s)'.status =
                                   CASE Recognised(a, i)' -> VERIFIED
                                     [] TakenForAForgery(a, i)' -> REJECTED
                                     [] OTHER -> UNVERIFIED
                        /\ Result(a, i, c, s).status = REJECTED
                           /\ Result(a, i, c, s)'.status = VERIFIED =>
                               ~Begun(a) \/ TakenForAForgery(a, i)]_vars
    BY VerdictChanges
  <1> QED BY <1>2, <1>3, PTL DEF Spec, VerdictsChangeForCause

-----------------------------------------------------------------------------
(* What a satisfied policy stands on. *)

(* Both roles would be that of the key's one latest attestation. *)
LEMMA OneRolePerKey ==
    ASSUME NEW q, NEW r, q.role # r.role, NEW rows, NEW attested, NEW c
    PROVE  Hits(q, rows, attested, c) \cap Hits(r, rows, attested, c) = {}
  <1> SUFFICES ASSUME NEW key, key \in Hits(q, rows, attested, c),
                      key \in Hits(r, rows, attested, c)
               PROVE  FALSE
    OBVIOUS
  <1> DEFINE latest == AttestationOf(key, attested, c)
  <1>1. latest.signer_role = q.role /\ latest.signer_role = r.role
    BY DEF Hits
  <1> QED BY <1>1

(* No key fills two roles of a policy, however often and as whatever it was *)
(* attested: for any list of identities, rows and requirements.             *)
THEOREM DutiesStaySeparate == Spec => []DutiesAreSeparate
  <1>1. DutiesAreSeparate
    BY OneRolePerKey DEF DutiesAreSeparate
  <1> QED BY <1>1, PTL

(* The latest attestation of a key is one of those collected for it. *)
LEMMA LatestIsCollected ==
    ASSUME NEW attested, IsSeq(attested), NEW key, NEW c,
           NEW latest, latest = AttestationOf(key, attested, c), latest # Null
    PROVE  \E k \in DOMAIN attested : /\ latest = attested[k]
                                     /\ attested[k].signer_public_key = key
                                     /\ attested[k].capsule_id = c
  <1> DEFINE own == {k \in DOMAIN attested : attested[k].signer_public_key = key
                                             /\ attested[k].capsule_id = c}
             last == CHOOSE k \in own : \A j \in own : j <= k
  <1>1. own # {} /\ latest = attested[last]
    BY DEF AttestationOf
  <1>2. Len(attested) \in Nat /\ DOMAIN attested = 1..Len(attested)
    BY SeqShape
  <1>3. own \subseteq 1..Len(attested)
    BY <1>2
  <1> HIDE DEF own
  <1>4. \E k \in own : \A j \in own : j <= k
    BY <1>1, <1>2, <1>3, LastPlace
  <1>5. last \in own
    BY <1>4
  <1> QED BY <1>1, <1>5 DEF own

(* Every identity the host keeps is of a signer and was signed by an issuer. *)
Collected(claims, signatures) ==
    /\ claims.signer_public_key \in Signers
    /\ \E sig \in signatures : Stated(sig.input) = claims

IdentityInv ==
    /\ IsSeq(identities)
    /\ \A k \in DOMAIN identities : Collected(identities[k].claims, issued)

LEMMA CheckCollects ==
    ASSUME VerifiedWasIssued, IdentityInv, NEW a \in circulating, NEW i \in Issuers,
           NEW c \in Capsules, NEW s \in Signers, Check(a, i, c, s)
    PROVE  IdentityInv'
  <1> DEFINE identity == [claims |-> Result(a, i, c, s).identity, issuer |-> i]
  <1>1. /\ Result(a, i, c, s).status = VERIFIED
        /\ identities' = Append(identities, identity)
        /\ issued' = issued
    BY DEF Check, worldVars
  <1>2. Collected(identity.claims, issued)
    BY <1>1 DEF VerifiedWasIssued, IssuedBy, Collected
  <1> HIDE DEF identity
  <1>3. /\ IsSeq(Append(identities, identity))
        /\ \A k \in DOMAIN identities : Append(identities, identity)[k] = identities[k]
        /\ \A k \in DOMAIN Append(identities, identity) \ DOMAIN identities :
              Append(identities, identity)[k] = identity
    BY AppendedSeq DEF IdentityInv
  <1>4. \A k \in DOMAIN identities' : Collected(identities'[k].claims, issued')
    BY <1>1, <1>2, <1>3 DEF IdentityInv
  <1> QED BY <1>1, <1>3, <1>4 DEF IdentityInv, IsSeq

LEMMA IdentityStep == VerifiedWasIssued /\ IdentityInv /\ [Next]_vars => IdentityInv'
  <1> SUFFICES ASSUME VerifiedWasIssued, IdentityInv, [Next]_vars PROVE IdentityInv'
    OBVIOUS
  <1>1. ASSUME identities' = identities, issued \subseteq issued' PROVE IdentityInv'
    BY <1>1 DEF IdentityInv, Collected, IsSeq
  <1>2. ASSUME NEW i, Rotate(i) \/ FetchIssuerMetadata(i) \/ LoadTrustRoots(i) \/ AbandonRefresh(i)
        PROVE  UNCHANGED <<identities, issued>>
    BY <1>2 DEF Rotate, FetchIssuerMetadata, LoadTrustRoots, AbandonRefresh, worldVars
  <1>3. ASSUME NEW i, NEW claims, NEW kid, NEW n,
               IssueNative(i, claims, kid, n) \/ IssueJwt(i, claims, kid, n)
        PROVE  identities' = identities /\ issued \subseteq issued'
    BY <1>3 DEF IssueNative, IssueJwt, Issue
  <1>4. Tick \/ Edit \/ UNCHANGED vars => UNCHANGED <<identities, issued>>
    BY DEF Tick, Edit, vars, worldVars
  <1> QED BY <1>1, <1>2, <1>3, <1>4, CheckCollects DEF Next

LEMMA IdentityInit == Init => IdentityInv
  <1> SUFFICES ASSUME Init PROVE IdentityInv
    OBVIOUS
  <1>1. identities = <<>>
    BY DEF Init
  <1> QED BY <1>1 DEF IdentityInv, IsSeq

LEMMA IdentityAlways == Spec => []IdentityInv
  BY IdentityInit, IdentityStep, VerifiedStandsOnASignature, PTL DEF Spec

(* Behind every requirement of a satisfied policy there are enough distinct  *)
(* signers, each with a valid trusted row and a signature of an issuer on    *)
(* that very role, capsule and key: whatever was collected, in any order.    *)
THEOREM PoliciesAreBacked == Spec => []SatisfiedIsBacked
  <1>1. IdentityInv => SatisfiedIsBacked
    <2> SUFFICES ASSUME IdentityInv, NEW policy \in Policies, NEW rows \in VerifyResults,
                        NEW c \in Capsules, Satisfied(policy, rows, Attested, c),
                        NEW r \in DOMAIN policy
                 PROVE  \E quorum \in SUBSET Signers :
                           /\ Cardinality(quorum) >= policy[r].quorum
                           /\ \A key \in quorum :
                                 /\ \E k \in DOMAIN rows : /\ rows[k].public_key = key
                                                           /\ rows[k].valid
                                                           /\ rows[k].trusted
                                 /\ \E sig \in issued :
                                       /\ Stated(sig.input).capsule_id = c
                                       /\ Stated(sig.input).signer_public_key = key
                                       /\ Stated(sig.input).signer_role = policy[r].role
                                       /\ policy[r].org_role # Null =>
                                             Stated(sig.input).subject.org_role
                                                 = policy[r].org_role
      BY DEF SatisfiedIsBacked
    <2> DEFINE attested == Attested
               quorum == Hits(policy[r], rows, attested, c)
    <2>1. Cardinality(quorum) >= policy[r].quorum
      BY DEF Satisfied
    <2>2. /\ IsSeq(attested)
          /\ DOMAIN attested = DOMAIN identities
          /\ \A k \in DOMAIN identities : attested[k] = identities[k].claims
      <3>1. Len(identities) \in Nat /\ DOMAIN identities = 1..Len(identities)
        BY SeqShape DEF IdentityInv
      <3>2. attested = [k \in 1..Len(identities) |-> attested[k]]
        BY <3>1 DEF Attested
      <3>3. attested \in Seq({attested[k] : k \in DOMAIN attested})
        BY <3>1, <3>2
      <3> QED BY <3>3 DEF Attested, IsSeq
    <2> HIDE DEF attested
    <2>3. ASSUME NEW key \in quorum
          PROVE  /\ key \in Signers
                 /\ \E k \in DOMAIN rows : /\ rows[k].public_key = key
                                           /\ rows[k].valid /\ rows[k].trusted
                 /\ \E sig \in issued :
                       /\ Stated(sig.input).capsule_id = c
                       /\ Stated(sig.input).signer_public_key = key
                       /\ Stated(sig.input).signer_role = policy[r].role
                       /\ policy[r].org_role # Null =>
                             Stated(sig.input).subject.org_role = policy[r].org_role
      <3>1. PICK latest : latest = AttestationOf(key, attested, c)
        OBVIOUS
      <3>2. /\ key \in TrustedKeys(rows)
            /\ latest # Null /\ latest.signer_role = policy[r].role
            /\ policy[r].org_role # Null => latest.subject.org_role = policy[r].org_role
        BY <3>1 DEF Hits
      <3>3. PICK k \in DOMAIN attested : /\ latest = attested[k]
                                         /\ attested[k].signer_public_key = key
                                         /\ attested[k].capsule_id = c
        BY <2>2, <3>1, <3>2, LatestIsCollected
      <3>4. Collected(latest, issued)
        BY <2>2, <3>3 DEF IdentityInv
      <3> QED BY <3>2, <3>3, <3>4 DEF Collected, TrustedKeys
    <2> HIDE DEF quorum
    <2> QED BY <2>1, <2>3
  <1> QED BY <1>1, IdentityAlways, PTL

=============================================================================

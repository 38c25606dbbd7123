---------------------------- MODULE MCFederation ----------------------------
(***************************************************************************)
(* A small instance of Federation for TLC: two issuers, two capsules and   *)
(* two signers.  Issuers sign before anything is edited or checked: every  *)
(* order of refreshes, rotations, ticks, edits and checks is left.         *)
(***************************************************************************)
EXTENDS Federation, AttestationVectors

Claim(capsule, signer, role, orgRole) ==
    [capsule_id |-> capsule, signer_public_key |-> signer, signer_role |-> role,
     subject |-> [org_role |-> orgRole]]

\* Two signers of one capsule in one role, one of them in another role as
\* well, and the same signer attested for another capsule.
MCStatements ==
    {Claim("c1", "s1", "reviewer", "admin"), Claim("c1", "s2", "reviewer", "member"),
     Claim("c1", "s1", "originator", "admin"), Claim("c2", "s1", "reviewer", "admin")}

Row(key, valid, trusted) == [public_key |-> key, valid |-> valid, trusted |-> trusted]

MCVerifyResults ==
    {<<Row("s1", TRUE, TRUE), Row("s1", TRUE, TRUE)>>,
     <<Row("s1", TRUE, TRUE), Row("s2", TRUE, TRUE)>>,
     <<Row("s1", TRUE, TRUE), Row("s2", TRUE, FALSE)>>,
     <<Row("s1", FALSE, FALSE), Row("s2", TRUE, TRUE)>>}

Requirement(role, orgRole, quorum) == [role |-> role, org_role |-> orgRole, quorum |-> quorum]

MCPolicies ==
    {<<Requirement("reviewer", Null, 2)>>, <<Requirement("reviewer", "admin", 1)>>,
     <<Requirement("originator", Null, 1), Requirement("reviewer", Null, 1)>>}

Ordinary(statement) ==
    [capsule_id |-> statement.capsule_id, signer_public_key |-> statement.signer_public_key,
     signer_role |-> statement.signer_role, subject |-> statement.subject,
     issued_at |-> Instant(0), expires_at |-> Instant(2)]

First == Claim("c1", "s1", "reviewer", "admin")
Second == Claim("c1", "s2", "reviewer", "member")

OrdinaryToken ==
    [cap |-> BindingClaims(Second), subject |-> Second.subject, iat |-> NumericDate(0),
     exp |-> NumericDate(1), nbf |-> NumericDate(0)]

\* Each time of an attestation in every form: issued beyond the skew, starting
\* later, expired from the start, unreadable, left out.
Unusual ==
    {claims \in ClaimsOf(First) : claims.issued_at = Instant(0) \/ claims.expires_at = Instant(3)}
Dates == {NumericDate(0), NumericDate(1), Instant(2), Garbage, NoTime}
UnusualTokens ==
    {[OrdinaryToken EXCEPT !.exp = exp] : exp \in Dates}
    \cup {[OrdinaryToken EXCEPT !.iat = iat, !.exp = Instant(3)] : iat \in Dates}
    \cup {[OrdinaryToken EXCEPT !.nbf = nbf, !.exp = Instant(3)] : nbf \in Dates}
    \cup {[OrdinaryToken EXCEPT !.cap = Null]}

\* Attestations are signed, and keys rotated, before time passes and identities
\* are kept.  One of any kind travels alone, or two that name their keys and were
\* signed for the same time; one signed for that time may be edited.
MCEarly == identities = <<>> /\ clock = 0
InTime == \A a \in circulating : /\ Claims(a).issued_at = Instant(0)
                                 /\ Claims(a).expires_at = Instant(2)
Signing ==
    IF MCEarly /\ edits = 0 /\ InTime /\ (\A a \in circulating : NamesItsKey(a))
    THEN Issuers ELSE {}
Rotating == IF MCEarly THEN {"acme"} ELSE {}
Editing == IF MCEarly /\ Cardinality(issued) = 1 /\ InTime THEN {"edit"} ELSE {}
Alone == IF issued = {} THEN {"alone"} ELSE {}

\* The host has configured one issuer, "acme", which attests whatever it is
\* asked; "other" only misleads, and one signer comes with a provider's token.
MCNext ==
    \/ Tick
    \/ \E i \in Rotating : Rotate(i)
    \/ FetchIssuerMetadata("acme") \/ LoadTrustRoots("acme")
    \/ AbandonRefresh("acme")
    \/ \E i \in Signing :
          \/ \E statement \in Statements :
                /\ i = "acme" \/ statement = First
                /\ IssueNative(i, Ordinary(statement), keys[i], keys[i])
          \/ i = "acme" /\ IssueJwt(i, OrdinaryToken, keys[i], keys[i])
          \/ \E alone \in Alone, kid \in {Null, keys["acme"]} :
                /\ i = "acme"
                /\ \/ \E claims \in Unusual : IssueNative(i, claims, kid, keys[i])
                   \/ \E payload \in UnusualTokens : IssueJwt(i, payload, kid, keys[i])
    \/ \E a \in circulating, c \in Capsules, s \in Signers : Check(a, "acme", c, s)
    \/ \E e \in Editing : Edit

MCSpec == Init /\ [][MCNext]_vars

=============================================================================

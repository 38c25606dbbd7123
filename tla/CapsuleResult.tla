--------------------------- MODULE CapsuleResult ---------------------------
(***************************************************************************)
(* What verifyCapsule reports beside ok (verifier.js, spec/results.md):    *)
(* the format-version and profile channels, the areas, the verdict with    *)
(* its reason and qualifiers, and the notes.  A report is a function of    *)
(* the artifact, the host's options and the lineage channel                *)
(*   [declared, ok, statuses]   statuses: those of its entries, as a set   *)
(* which lineage.js computes (VerifyCommand).  options has, beside the     *)
(* members CapsuleVerifier names, acceptVersions: the versions the host    *)
(* accepts, Null where it declared no policy.  Its allowlist is what the   *)
(* caller passed: an entry that is no key is Malformed.                    *)
(***************************************************************************)
EXTENDS CapsuleEncryption

-----------------------------------------------------------------------------
(* The format-version and profile channels, reported on refusals as well *)

FormatStatus(c) == ClassifyVersion(c.manifest.version)

\* The constructor of the reader got as far as the profile declarations.
DocumentsRead(c) ==
    /\ FormatStatus(c) = "known"
    /\ Malformed \notin {c.manifest.id, c.manifest.originator, c.manifest.first_event_hash}
    /\ ClassifyVersion(c.envelope.version) = "known"
    /\ c.envelope.capsule_id # Malformed
    /\ c.signers # <<>>

ProfileRefused(c) ==
    DocumentsRead(c) /\ ClassifyProfile(c.manifest.profile, c.envelope.profile) # "default"

\* Suite honesty: no suite fact is known after a profile refusal.
Suite(c) == IF FormatStatus(c) = "known" /\ ~ProfileRefused(c) THEN "v0.6" ELSE Null

\* peekProfile where the reader refused; the classification where it did not.
ProfileStatus(c) ==
    CASE ProfileRefused(c) -> ClassifyProfile(c.manifest.profile, c.envelope.profile)
      [] OpenGate(c) \in {"unknown_newer", "unknown_older"} -> "unevaluated"
      [] OpenGate(c) # "pass" -> "unread"
      [] Gate(c) # "pass" -> "unevaluated"
      [] OTHER -> "default"

ProfileDeclared(c) == {c.manifest.profile, c.envelope.profile} # {Absent}

AcceptedByPolicy(c, options) ==
    IF Gate(c) # "pass" \/ options.acceptVersions = Null THEN Null
    ELSE c.manifest.version \in options.acceptVersions

-----------------------------------------------------------------------------
(* The areas: each reported on its own, whatever the others say *)

ActorSetBound(c) ==
    OpenGate(c) = "pass" /\ c.manifest.participants \ {Malformed} # {}

SignerSetBound(c) == Gate(c) = "pass" /\ c.manifest.signer_commitment # Absent

ChainNote(c) ==
    CASE Gate(c) # "pass" -> "none"
      [] IsEncrypted(c) -> "deferred"
      [] HasEvents(c) /\ Events(c) = <<>> -> "empty"
      [] OTHER -> "none"

\* chain.ok: the anchors are compared outside the area.
ChainArea(c) ==
    \/ IsEncrypted(c)
    \/ HasEvents(c) /\ VerifyChain(Events(c), c.manifest.participants)

BlobHashOk(c) ==
    c.envelope.encrypted_blob_hash =
        IF BlobPath \in DOMAIN c.files THEN FileHash(c.files[BlobPath]) ELSE Null

AreaNames == {"content_index", "chain", "envelope", "encrypted_blob", "signer_set",
              "originator_binding", "lineage"}

\* Everything but the two areas read off error messages fails on a refusal.
FailingAreas(c, lineage) ==
    IF OpenGate(c) # "pass" THEN AreaNames \ {"encrypted_blob", "originator_binding"}
    ELSE IF Gate(c) # "pass" THEN {"content_index", "chain", "envelope", "lineage"}
    ELSE {a \in AreaNames :
            \/ a = "content_index" /\ ~ContentIndexOk(c)
            \/ a = "chain" /\ ~ChainArea(c)
            \/ a = "envelope" /\ ~SignaturesOk(c)
            \/ a = "encrypted_blob" /\ ~BlobHashOk(c)
            \/ a = "signer_set" /\ ~SignerSetOk(c)
            \/ a = "originator_binding" /\ ~OriginatorBound(c)
            \/ a = "lineage" /\ ~lineage.ok}

-----------------------------------------------------------------------------
(* The verdict surface *)

\* The effective allowlist: a malformed key is noted and never enters it.
EffectiveAllowlist(options) == options.allowlist \ {Malformed}

\* The reasons of a refusal.
Reasons == {"unsupported_version_newer", "unsupported_version_older", "unsupported_profile"}

VerdictReason(c) ==
    CASE Gate(c) = "unknown_newer" -> "unsupported_version_newer"
      [] Gate(c) = "unknown_older" -> "unsupported_version_older"
      [] Gate(c) = "unsupported_profile" -> "unsupported_profile"
      [] OTHER -> Null

Level(options) == IF options.outerEnvelope = Absent THEN "L2" ELSE "L3"

\* spec/results.md, 1 to 10: the order of emission.
QualifierOrder ==
    <<"signer_set_unbound", "actor_set_unbound", "empty_chain_not_walked",
      "encrypted_outer_only", "version_not_accepted_by_policy", "trust_not_evaluated",
      "no_trusted_signer", "lineage_declared_unverified", "lineage_mismatch",
      "lineage_predecessor_invalid">>

\* Mutation of TrustQualifiers: the raw list decides whether trust was evaluated.
TrustQualifiersOfRawList(c, options) ==
    CASE options.allowlist = {} -> {"trust_not_evaluated"}
      [] TrustedSigners(c, options) = {} -> {"no_trusted_signer"}
      [] OTHER -> {}

TrustQualifiers(c, options) ==
    CASE EffectiveAllowlist(options) = {} -> {"trust_not_evaluated"}
      [] TrustedSigners(c, options) = {} -> {"no_trusted_signer"}
      [] OTHER -> {}

LineageQualifiers(lineage) ==
    {q \in {"lineage_declared_unverified", "lineage_mismatch", "lineage_predecessor_invalid"} :
        /\ lineage.declared
        /\ \/ /\ q = "lineage_declared_unverified"
              /\ lineage.statuses \cap {"unverified", "predecessor_unverifiable"} # {}
           \/ q = "lineage_mismatch" /\ "mismatch" \in lineage.statuses
           \/ q = "lineage_predecessor_invalid" /\ "predecessor_invalid" \in lineage.statuses}

\* Mutation of IntegrityQualifiers: the actor set is not reported.
IntegrityQualifiersOfSigners(c, options) ==
    {q \in {"signer_set_unbound", "empty_chain_not_walked", "encrypted_outer_only"} :
        \/ q = "signer_set_unbound" /\ ~SignerSetBound(c)
        \/ q = "empty_chain_not_walked" /\ ChainNote(c) = "empty"
        \/ q = "encrypted_outer_only" /\ Level(options) = "L2" /\ ChainNote(c) = "deferred"}

IntegrityQualifiers(c, options) ==
    {q \in {"signer_set_unbound", "actor_set_unbound", "empty_chain_not_walked",
            "encrypted_outer_only", "version_not_accepted_by_policy"} :
        \/ q = "signer_set_unbound" /\ ~SignerSetBound(c)
        \/ q = "actor_set_unbound" /\ ~ActorSetBound(c)
        \/ q = "empty_chain_not_walked" /\ ChainNote(c) = "empty"
        \/ q = "encrypted_outer_only" /\ Level(options) = "L2" /\ ChainNote(c) = "deferred"
        \/ /\ q = "version_not_accepted_by_policy"
           /\ AcceptedByPolicy(c, options) # Null /\ ~AcceptedByPolicy(c, options)}

Qualifiers(c, options, lineage) ==
    IF Verdict(c, options) # "valid" THEN {}
    ELSE IntegrityQualifiers(c, options) \cup TrustQualifiers(c, options)
         \cup LineageQualifiers(lineage)

\* The members of set that the list has, in the list's order.
InOrder(list, set) ==
    LET upTo[n \in 0..Len(list)] ==
            IF n = 0 THEN <<>>
            ELSE IF list[n] \in set THEN Append(upTo[n - 1], list[n]) ELSE upTo[n - 1]
    IN  upTo[Len(list)]

Emitted(qualifiers) == InOrder(QualifierOrder, qualifiers)

\* The notes outside the lineage channel, each named for the fact it states.
\* A refusal at open carries none.
Notes(c, options) ==
    IF OpenGate(c) # "pass" THEN {}
    ELSE {n \in {"invalid_allowlist_entry", "actor_set_unbound", "version_not_accepted",
                 "empty_chain", "signer_set_unbound", "trust_not_evaluated",
                 "no_trusted_signer"} :
            \/ n = "invalid_allowlist_entry" /\ Malformed \in options.allowlist
            \/ n = "actor_set_unbound" /\ ~ActorSetBound(c)
            \/ /\ Gate(c) = "pass"
               /\ \/ /\ n = "version_not_accepted"
                     /\ AcceptedByPolicy(c, options) # Null /\ ~AcceptedByPolicy(c, options)
                  \/ n = "empty_chain" /\ ChainNote(c) = "empty"
                  \/ n = "signer_set_unbound" /\ ~SignerSetBound(c)
                  \/ n \in TrustQualifiers(c, options)}

\* The skills a result reports, classified or not.
ReportedSkills(c) ==
    IF Gate(c) # "pass" THEN {}
    ELSE {p[2] : p \in {q \in DOMAIN c.files : q[1] = "skills" /\ Len(q) = 3}} \ {"decryption"}

=============================================================================

----------------------------- MODULE SpecVectors -----------------------------
(***************************************************************************)
(* The conformance vectors of spec/vectors over the capsules the           *)
(* generators build, and what the vector runner (tools/                    *)
(* check-spec-vectors.mjs) compares.  A vector names a fixture of its      *)
(* collection, the host's options and what it pins: a record with a member *)
(* for each pinned fact and no other.  open stands for stage "open" with   *)
(* its reason.  Substrings of messages are not pinned here.                *)
(***************************************************************************)
EXTENDS VerifyCommand, LineageFixtures

Vector(fixture, allowlist, accept, predecessors, expected) ==
    [fixture |-> fixture, allowlist |-> allowlist, accept |-> accept,
     predecessors |-> predecessors, expected |-> expected]

Plain(fixture, allowlist, expected) == Vector(fixture, allowlist, {}, <<>>, expected)

\* A vector of a collection whose keys.json names one originator.
Own(fixture, expected) == Plain(fixture, {"originator"}, expected)

Fails(areas) == [ok |-> FALSE, failing |-> areas]

ChainRuleVectors ==
    <<Own("actor_not_participant",
          [ok |-> FALSE, failing |-> {"chain"}, actor_set_bound |-> TRUE]),
      Own("unknown_kind", Fails({"chain"})),
      Own("unbound_actors",
          [ok |-> TRUE, actor_set_bound |-> FALSE, verdict |-> "valid",
           qualifiers |-> <<"actor_set_unbound">>, notes |-> {"actor_set_unbound"}]),
      Own("non_contiguous_seq", Fails({"chain"})),
      Own("invalid_actor_namespace", [ok |-> FALSE, actor_set_bound |-> TRUE]),
      Own("participant_bare_string", [ok |-> TRUE, actor_set_bound |-> TRUE]),
      Own("participant_missing_actor_id", [ok |-> FALSE, actor_set_bound |-> TRUE]),
      Own("minimal_event_fields",
          [ok |-> TRUE, actor_set_bound |-> FALSE, notes |-> {"actor_set_unbound"}])>>

TamperVectors ==
    <<Plain("clean", {"tamper"}, [ok |-> TRUE]),
      Plain("clean_encrypted", {"tamper"}, [ok |-> TRUE]),
      Plain("payload", {"tamper"}, Fails({"content_index"})),
      Plain("chain", {"tamper"}, Fails({"chain", "content_index"})),
      Plain("envelope", {"tamper"}, Fails({"envelope"})),
      Plain("blob", {"tamper"}, Fails({"encrypted_blob"})),
      Plain("stray_content", {"tamper"}, Fails({"content_index"}))>>

Refused(reason, verdict) == [open |-> reason, verdict |-> verdict]

\* A refusal for the declared version pins all of the verdict surface.
RefusedVersion(reason, version) ==
    [open |-> reason, observed_version |-> version, verdict |-> "unsupported",
     verdict_reason |-> reason, qualifiers |-> <<>>]

Valid(qualifiers) ==
    [ok |-> TRUE, verdict |-> "valid", verdict_reason |-> Null, qualifiers |-> qualifiers]

ResultVectors ==
    <<Own("unqualified", Valid(<<>>)),
      Plain("maximally_qualified", {},
            Valid(<<"signer_set_unbound", "actor_set_unbound", "empty_chain_not_walked",
                    "trust_not_evaluated">>)
            @@ [signer_set_bound |-> FALSE, actor_set_bound |-> FALSE,
                notes |-> {"signer_set_unbound"}]),
      Plain("encrypted_outer", {"tamper"},
            Valid(<<"encrypted_outer_only">>) @@ [decryptable_with |-> "recipient"]),
      Plain("unqualified", {"stranger"},
            Valid(<<"no_trusted_signer">>) @@ [notes |-> {"no_trusted_signer"}]),
      Plain("unqualified", {Malformed},
            Valid(<<"trust_not_evaluated">>) @@ [notes |-> {"invalid_allowlist_entry"}]),
      Vector("unqualified", {"originator"}, {"0.6"}, <<>>,
             Valid(<<"version_not_accepted_by_policy">>)
             @@ [notes |-> {"version_not_accepted"}]),
      Own("unsupported_newer", RefusedVersion("unsupported_version_newer", "99.0")),
      Own("unsupported_older", RefusedVersion("unsupported_version_older", "0.5")),
      Own("invalid_tamper",
          [ok |-> FALSE, verdict |-> "invalid", verdict_reason |-> Null, qualifiers |-> <<>>])>>

SignerSetVectors ==
    <<Own("bound", [ok |-> TRUE, signer_set_bound |-> TRUE]),
      Own("absent",
          [ok |-> TRUE, signer_set_bound |-> FALSE, verdict |-> "valid",
           qualifiers |-> <<"signer_set_unbound">>, notes |-> {"signer_set_unbound"}]),
      Own("strip", Fails({"signer_set"})),
      Own("add", Fails({"signer_set"})),
      Own("duplicate", Fails({"envelope"})),
      Own("role_swap", Fails({"signer_set"})),
      Own("not_a_signer", Fails({"originator_binding"}))>>

ChainBindingVectors ==
    <<Own("null_anchors",
          [ok |-> TRUE, verdict |-> "valid", qualifiers |-> <<"empty_chain_not_walked">>,
           notes |-> {"empty_chain"}]),
      Own("claimed_anchors", [ok |-> FALSE]),
      Own("without_untrusted", [ok |-> TRUE])>>

Skill(signed, id, tier) == [capsule_signed |-> signed, skills |-> id :> tier]

SkillTrustVectors ==
    <<Plain("author_claims", {}, [ok |-> TRUE, skill_trust |-> Skill(FALSE, "exfil", "unsigned")]),
      Own("author_claims", [ok |-> TRUE, skill_trust |-> Skill(TRUE, "exfil", "signed")]),
      Own("md_only", [ok |-> TRUE, skill_trust |-> Skill(TRUE, "advice", "unsigned")]),
      Own("tampered_md",
          Fails({"content_index"}) @@ [skill_trust |-> Skill(FALSE, "exfil", "unsigned")]),
      Own("phantom_signer",
          Fails({"signer_set"}) @@ [skill_trust |-> Skill(FALSE, "exfil", "unsigned")])>>

Because(reason) == [ok |-> FALSE, reason |-> reason]

SemanticVectors ==
    <<Plain("drift", {"tamper"}, Because("first_event_hash_binding")),
      Plain("chain_mismatch", {"tamper"}, [ok |-> FALSE]),
      Plain("declared_plain", {"tamper"}, Because("encryption_shape")),
      Plain("dangling", {"tamper"}, Because("encryption_metadata_path")),
      Plain("relocated", {"tamper"}, [ok |-> TRUE, decryptable_with |-> "recipient"]),
      Plain("smuggled_chain", {"tamper"}, Fails({"chain", "content_index"})),
      Plain("cipher_without_blob", {"tamper"}, Because("cipher_without_blob")),
      Plain("smuggled_indexed", {"tamper"}, Because("blob_without_cipher"))>>

RefusedProfile(reason, verdict, verdictReason, status) ==
    Refused(reason, verdict)
    @@ [verdict_reason |-> verdictReason, suite |-> Null, profile_status |-> status]

Declared(declared) ==
    [ok |-> TRUE, verdict |-> "valid", profile_declared |-> declared,
     profile_status |-> "default"]

ProfileVectors ==
    <<Own("absent", Declared(FALSE) @@ [observed_version |-> "0.7", suite |-> "v0.6",
                                        verdict_reason |-> Null]),
      Own("explicit_default", Declared(TRUE)),
      Own("one_document", Declared(TRUE)),
      Own("vendor", RefusedProfile("unsupported_profile", "unsupported",
                                   "unsupported_profile", "unsupported")
                    @@ [qualifiers |-> <<>>]),
      Own("vendor_old_era", RefusedProfile("unsupported_profile", "unsupported",
                                           "unsupported_profile", "unsupported")
                            @@ [observed_version |-> "0.6"]),
      Own("mismatch_value", RefusedProfile("profile_mismatch", "invalid", Null, "mismatched")),
      Own("mismatch_presence", Refused("profile_mismatch", "invalid")
                               @@ [profile_status |-> "mismatched"]),
      Own("invalid", Refused("invalid_manifest_shape", "invalid")
                     @@ [profile_status |-> "invalid"]),
      Own("params_in_envelope", Refused("invalid_manifest_shape", "invalid")
                                @@ [profile_status |-> "invalid"]),
      Own("unknown_version", RefusedVersion("unsupported_version_newer", "99.0")
                             @@ [profile_status |-> "unevaluated"]),
      Own("x_member", Declared(FALSE)),
      Own("tampered",
          [ok |-> FALSE, verdict |-> "invalid", verdict_reason |-> Null, qualifiers |-> <<>>])>>

VersionVectors ==
    <<Own("current", [ok |-> TRUE, observed_version |-> "0.7"]),
      Own("v06", Valid(<<>>) @@ [observed_version |-> "0.6"] @@ Declared(FALSE)),
      Own("newer", RefusedVersion("unsupported_version_newer", "99.0")),
      Own("older", RefusedVersion("unsupported_version_older", "0.5")),
      Own("not_a_version", Refused("invalid_manifest_shape", "invalid")
                           @@ [verdict_reason |-> Null]),
      Own("envelope_newer", Refused("unsupported_version_newer", "unsupported")
                            @@ [verdict_reason |-> "unsupported_version_newer"])>>

UnknownFieldVectors ==
    <<Own("clean", [ok |-> TRUE]),
      Own("tampered_manifest", [ok |-> FALSE]),
      Own("tampered_envelope", Fails({"envelope"})),
      Own("tampered_event", Fails({"chain", "content_index"}))>>

Entry(status, hop) == [status |-> status, hop |-> hop]

\* The lineage area of a capsule that verifies.
Line(ok, depth, lineageEntries) ==
    [ok |-> TRUE,
     lineage |-> [declared |-> lineageEntries # <<>>, ok |-> ok, verified_depth |-> depth,
                  entries |-> lineageEntries]]

Untrusted(qualifiers) == [qualifiers |-> <<"trust_not_evaluated">> \o qualifiers]

Linked(fixture, predecessors, expected) == Vector(fixture, {}, {}, predecessors, expected)

LineageVectors ==
    <<Linked("alice", <<>>, Line(TRUE, 0, <<>>) @@ Untrusted(<<>>)),
      Linked("bob", <<>>,
             Line(TRUE, 0, <<Entry("unverified", 1) @@ [identity_checked |-> TRUE]>>)
             @@ Untrusted(<<"lineage_declared_unverified">>)),
      Linked("bob", <<"alice">>,
             Line(TRUE, 1, <<Entry("verified", 1) @@ [artifact_observed_version |-> "0.7"]>>)
             @@ Untrusted(<<>>)),
      Linked("carol", <<"bob", "alice">>,
             Line(TRUE, 2, <<Entry("verified", 1), Entry("verified", 2)>>)
             @@ [qualifiers |-> <<"actor_set_unbound", "trust_not_evaluated">>]),
      Linked("merge", <<"alice">>,
             Line(TRUE, 0, <<Entry("verified", 1), Entry("unverified", 1)>>)
             @@ Untrusted(<<"lineage_declared_unverified">>)),
      Linked("unendorsed", <<"alice">>,
             Line(TRUE, 1, <<Entry("verified", 1) @@ [capsule_id |-> Alice.manifest.id]>>)),
      Linked("of_v06", <<"v06">>,
             Line(TRUE, 1, <<Entry("verified", 1) @@ [artifact_observed_version |-> "0.6"]>>)),
      Linked("of_template", <<"template">>, Line(TRUE, 1, <<Entry("verified", 1)>>)),
      Linked("self_id", <<>>,
             Line(TRUE, 0, <<Entry("unverified", 1)
                             @@ [capsule_id |-> SelfIdRewrap.manifest.id]>>)),
      Linked("era_unknown", <<>>,
             Line(TRUE, 0, <<Entry("unverified", 1) @@ [identity_checked |-> FALSE]>>)
             @@ Untrusted(<<"lineage_declared_unverified">>)),
      Linked("v06_inert", <<>>, Line(TRUE, 0, <<>>) @@ Untrusted(<<>>)),
      Linked("bob", <<"later_seal">>,
             Line(FALSE, 0, <<Entry("mismatch", 1)>>) @@ Untrusted(<<"lineage_mismatch">>)),
      Linked("bob", <<"tampered_alice">>,
             Line(FALSE, 0, <<Entry("predecessor_invalid", 1)>>)
             @@ Untrusted(<<"lineage_predecessor_invalid">>)),
      Linked("bob", <<"encrypted">>,
             Line(TRUE, 0, <<Entry("predecessor_unverifiable", 1)
                             @@ [reason |-> "encrypted_predecessor"]>>)
             @@ Untrusted(<<"lineage_declared_unverified">>)),
      Linked("of_alt_profile", <<"alt_profile">>,
             Line(TRUE, 0, <<Entry("predecessor_unverifiable", 1)
                             @@ [reason |-> "unsupported_profile"]>>)
             @@ Untrusted(<<"lineage_declared_unverified">>)),
      Linked("split_citation", <<>>,
             [ok |-> TRUE, decryptable_with |-> "recipient", inner_ok |-> FALSE]),
      Linked("member", <<>>, [ok |-> FALSE]),
      Linked("empty_array", <<>>, Fails({"lineage"})),
      Linked("version_grammar", <<>>, Fails({"lineage"})),
      Linked("duplicate_hash", <<>>, Fails({"lineage"})),
      Linked("null_incoherent", <<>>, Fails({"lineage"})),
      Linked("id_not_derivable", <<>>, Fails({"lineage"}))>>

-----------------------------------------------------------------------------
(* The collections, and one check of the runner as a call *)

Fixtures ==
    [chain_rules |-> ChainRules, tamper_detection |-> TamperDetection,
     result_vocabulary |-> ResultVocabulary, signer_set |-> SignerSet,
     chain_binding |-> ChainBinding, skill_trust |-> SkillTrust,
     semantic_binding |-> SemanticBinding, profile_declaration |-> ProfileDeclaration,
     version_compat |-> VersionCompat, unknown_fields |-> UnknownFields, lineage |-> Lineage]

Collections ==
    [chain_rules |-> ChainRuleVectors, tamper_detection |-> TamperVectors,
     result_vocabulary |-> ResultVectors, signer_set |-> SignerSetVectors,
     chain_binding |-> ChainBindingVectors, skill_trust |-> SkillTrustVectors,
     semantic_binding |-> SemanticVectors, profile_declaration |-> ProfileVectors,
     version_compat |-> VersionVectors, unknown_fields |-> UnknownFieldVectors,
     lineage |-> LineageVectors]

\* verifyCapsule with the options a vector pins.
VectorCall(collection, v) ==
    [caller       |-> "sdk",
     file         |-> <<collection, v.fixture>>,
     allowlist    |-> v.allowlist,
     accept       |-> v.accept,
     predecessors |-> [i \in DOMAIN v.predecessors |-> <<collection, v.predecessors[i]>>],
     json         |-> FALSE]

VectorCalls ==
    UNION {{VectorCall(c, Collections[c][i]) : i \in DOMAIN Collections[c]} :
           c \in DOMAIN Collections}

-----------------------------------------------------------------------------
(* The comparisons of checkCollection, against the result of the call *)

\* A fact that is not pinned is not compared.
Pinned(expected, member, observed) ==
    member \in DOMAIN expected => expected[member] = observed

OpenReason(c) ==
    CASE OpenGate(c) = "unknown_newer" -> "unsupported_version_newer"
      [] OpenGate(c) = "unknown_older" -> "unsupported_version_older"
      [] ProfileRefused(c) /\ ProfileStatus(c) = "mismatched" -> "profile_mismatch"
      [] OpenGate(c) = "unsupported_profile" -> "unsupported_profile"
      [] OTHER -> "invalid_manifest_shape"

OpenStageAgrees(expected) ==
    IF "open" \in DOMAIN expected
    THEN ~Opened /\ OpenReason(subject) = expected.open /\ ~result.ok
    ELSE Opened /\ Pinned(expected, "ok", result.ok)

ResultVocabularyAgrees(expected) ==
    /\ Pinned(expected, "verdict", result.verdict)
    /\ Pinned(expected, "verdict_reason", result.reason)
    /\ Pinned(expected, "qualifiers", result.qualifiers)
    /\ Pinned(expected, "profile_declared", ProfileDeclared(subject))
    /\ Pinned(expected, "profile_status", ProfileStatus(subject))
    /\ Pinned(expected, "suite", Suite(subject))
    /\ Pinned(expected, "observed_version", subject.manifest.version)

BindingAgrees(expected) ==
    /\ Pinned(expected, "signer_set_bound", SignerSetBound(subject))
    /\ Pinned(expected, "actor_set_bound", ActorSetBound(subject))

SkillTrustAgrees(expected) ==
    Pinned(expected, "skill_trust",
           [capsule_signed |-> result.capsuleSigned,
            skills |-> [id \in result.skills |->
                           IF id \in SignedSkills(subject, Options) THEN "signed"
                           ELSE "unsigned"]])

ArtifactOf(entry) == supplied[entry.artifact]

EntryAgrees(expected, entry) ==
    /\ Pinned(expected, "status", entry.status)
    /\ Pinned(expected, "hop", entry.hop)
    /\ Pinned(expected, "reason", Reason(entry))
    /\ Pinned(expected, "capsule_id", entry.capsule_id)
    /\ Pinned(expected, "identity_checked", IdentityChecked(entry))
    /\ "artifact_observed_version" \in DOMAIN expected =>
           ArtifactOf(entry).manifest.version = expected.artifact_observed_version

LineageAgrees(expected) ==
    "lineage" \in DOMAIN expected =>
        LET want == expected.lineage
            got  == LineageChannel(subject)
        IN  /\ want.declared = got.declared
            /\ want.ok = got.ok
            /\ want.verified_depth = Walk!VerifiedDepth
            /\ Len(want.entries) = Len(entries)
            /\ \A i \in DOMAIN entries : EntryAgrees(want.entries[i], entries[i])

FailingAgrees(expected) ==
    "failing" \in DOMAIN expected =>
        expected.failing \subseteq FailingAreas(subject, LineageChannel(subject))

\* What each verify-stage reason is an error about.
ReasonAgrees(expected) ==
    "reason" \in DOMAIN expected =>
        \/ expected.reason = "first_event_hash_binding" /\ ~FirstEventHashOk(subject)
        \/ expected.reason \in {"encryption_shape", "encryption_metadata_path"}
           /\ ~EncryptionOk(subject)
        \/ /\ expected.reason \in {"cipher_without_blob", "blob_without_cipher"}
           /\ ~BlobOk(subject)
           /\ (expected.reason = "blob_without_cipher") = (BlobPath \in DOMAIN subject.files)

\* The documented recipe: decrypt, then verify against the outer envelope.
DecryptionAgrees(expected) ==
    "decryptable_with" \in DOMAIN expected =>
        LET inner   == Decrypted(subject)
            options == InnerOptions(subject, Options)
        IN  /\ CanDecrypt(subject, expected.decryptable_with)
            /\ VerifyOk(inner, options) = ("inner_ok" \notin DOMAIN expected)
            /\ "encrypted_outer_only" \notin IntegrityQualifiers(inner, options)

NotesAgree(expected) ==
    "notes" \in DOMAIN expected => expected.notes \subseteq result.notes

VectorAgrees(expected) ==
    /\ OpenStageAgrees(expected)
    /\ ResultVocabularyAgrees(expected)
    /\ BindingAgrees(expected)
    /\ SkillTrustAgrees(expected)
    /\ LineageAgrees(expected)
    /\ FailingAgrees(expected)
    /\ ReasonAgrees(expected)
    /\ DecryptionAgrees(expected)
    /\ NotesAgree(expected)

\* Every vector whose call has ended is reproduced: the reference
\* implementation, as modelled, is the lane spec/vectors describes, for the
\* artifacts its generators build.
VectorsReproduced ==
    phase = "ended" /\ call.caller = "sdk" =>
        \A c \in DOMAIN Collections : \A i \in DOMAIN Collections[c] :
            VectorCall(c, Collections[c][i]) = call => VectorAgrees(Collections[c][i].expected)

=============================================================================

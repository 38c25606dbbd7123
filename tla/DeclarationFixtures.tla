------------------------- MODULE DeclarationFixtures -------------------------
(***************************************************************************)
(* The generated capsules whose members claim something: a skill tier, a   *)
(* profile, a version, an encryption, members nobody knows.                *)
(***************************************************************************)
EXTENDS CapsuleFixtures

-----------------------------------------------------------------------------
(* skill-trust: an author's claims about a skill *)

Exfil ==
    Over(File(SkillJsonPath("exfil"), Text("skill")),
         Over(File(SkillMarkdownPath("exfil"), Text("instructions")), Program))

AuthorDraft(files) ==
    [Draft("originator", {"human:author"},
           BuildChainEvents(<<Bare("human:author", "observation", "noted")>>))
     EXCEPT !.files = files]

\* The claim is a sealed member nobody reads.
AuthorClaimsSigned == Sealed([AuthorDraft(Exfil) EXCEPT !.extra = "skill_trust" :> "signed"])

CommitmentPhantomSigner ==
    Sealed([AuthorDraft(Exfil)
            EXCEPT !.commitment = BuildSignerCommitment(<<Row("originator", "phantom")>>)])

SkillMdOnly ==
    Sealed(AuthorDraft(Over(File(SkillMarkdownPath("advice"), Text("instructions")), Program)))

SkillTrust ==
    [author_claims    |-> AuthorClaimsSigned,
     md_only          |-> SkillMdOnly,
     tampered_md      |-> WithFile(AuthorClaimsSigned, SkillMarkdownPath("exfil"),
                                   Text("tampered")),
     phantom_signer   |-> CommitmentPhantomSigner]

-----------------------------------------------------------------------------
(* semantic-binding: everything re-derived and re-signed around one lie *)

\* m and e carry the lie; the index is rebuilt for excluded unless that is Null.
Resign(m, e, files, excluded) ==
    LET index    == IF excluded = Null THEN m.content_index
                    ELSE BuildContentIndex(files, excluded)
        id       == ComputeCapsuleId(m.originator, m.first_event_hash, CurrentVersion)
        manifest == [m EXCEPT !.content_index = index, !.id = id]
        envelope == [e EXCEPT !.capsule_id = id, !.manifest_hash = ManifestHash(manifest),
                              !.content_index_hash = IF excluded = Null THEN @
                                                     ELSE index.index_hash]
    IN  [manifest |-> manifest, envelope |-> envelope, files |-> files,
         signers  |-> SignEnvelope(envelope, <<Row("originator", "tamper")>>)]

EncryptionOf(path) == [metadata_path |-> path, cipher |-> "ChaCha20-Poly1305"]

PlainManifest == TamperPlain.manifest
PlainEnvelope == TamperPlain.envelope

\* The identity is derived from a first event the chain does not have.
FirstEventDrift(envelope) ==
    Resign([PlainManifest EXCEPT !.first_event_hash = PhantomHash], envelope,
           TamperPlain.files, Null)

ChainMismatch == FirstEventDrift([PlainEnvelope EXCEPT !.first_event_hash = PhantomHash])

EncryptionDeclaredPlain ==
    Resign([PlainManifest EXCEPT !.encryption = EncryptionOf(DecryptionPath)], PlainEnvelope,
           TamperPlain.files, Null)

RelocatedPath == <<"skills", "decryption", "keys-v2.json">>

DanglingMetadata ==
    Resign([TamperEncrypted.manifest EXCEPT !.encryption.metadata_path = RelocatedPath],
           TamperEncrypted.envelope, TamperEncrypted.files, Null)

RelocatedMetadata ==
    LET files == TamperEncrypted.files
    IN  Resign([TamperEncrypted.manifest EXCEPT !.encryption.metadata_path = RelocatedPath],
               TamperEncrypted.envelope,
               Over(File(RelocatedPath, files[DecryptionPath]), File(BlobPath, files[BlobPath])),
               ContentIndexExclusions(TRUE))

\* The signed cipher is still "none": the broken chain has to be walked.
SmuggledBrokenChain == WithFile(TamperDetection.chain, BlobPath, Text("fake"))

CipherWithoutBlob ==
    Resign([PlainManifest EXCEPT !.encryption = EncryptionOf(ProgramPath)],
           [PlainEnvelope EXCEPT !.cipher = "ChaCha20-Poly1305"], TamperPlain.files, Null)

SmuggledIndexed ==
    Resign(PlainManifest, PlainEnvelope, Over(File(BlobPath, Text("fake")), TamperPlain.files), {})

SemanticBinding ==
    [drift               |-> FirstEventDrift(PlainEnvelope),
     chain_mismatch      |-> ChainMismatch,
     declared_plain      |-> EncryptionDeclaredPlain,
     dangling            |-> DanglingMetadata,
     relocated           |-> RelocatedMetadata,
     smuggled_chain      |-> SmuggledBrokenChain,
     cipher_without_blob |-> CipherWithoutBlob,
     smuggled_indexed    |-> SmuggledIndexed]

-----------------------------------------------------------------------------
(* profile-declaration: what the two documents declare *)

DeclaredProfile(version, profile, envelopeProfile, extra) ==
    Sealed([OneEvent(Approved("human:origin"))
            EXCEPT !.version = version, !.envelopeVersion = version, !.profile = profile,
                   !.envelopeProfile = envelopeProfile, !.extra = extra])

\* The build of a capsule of the current version.
Profiled(profile, envelopeProfile) ==
    DeclaredProfile(CurrentVersion, profile, envelopeProfile, << >>)

StripDeclaration(c) == [c EXCEPT !.manifest.profile = Absent]

\* Every way to break the grammar is one Malformed declaration.
ProfileDeclaration ==
    [absent              |-> Profiled(Absent, Absent),
     explicit_default    |-> Profiled(DefaultProfile, DefaultProfile),
     one_document        |-> Profiled(DefaultProfile, Absent),
     vendor              |-> Profiled(AlternateProfile, AlternateProfile),
     vendor_old_era      |-> DeclaredProfile("0.6", AlternateProfile, AlternateProfile, << >>),
     mismatch_value      |-> Profiled(AlternateProfile, DefaultProfile),
     mismatch_presence   |-> Profiled(AlternateProfile, Absent),
     invalid             |-> Profiled(Malformed, Absent),
     params_in_envelope  |-> Profiled(DefaultProfile, Malformed),
     unknown_version     |-> DeclaredProfile("99.0", AlternateProfile, AlternateProfile, << >>),
     x_member            |-> DeclaredProfile(CurrentVersion, Absent, Absent,
                                             "x-test-profile" :> AlternateProfile),
     tampered            |-> StripDeclaration(Profiled(DefaultProfile, DefaultProfile))]

-----------------------------------------------------------------------------
(* version-compat and unknown-fields *)

CurrentCapsule == Sealed(OneEvent(Approved("human:origin")))

\* Sealed by the SDK of its time; its bytes are pinned.
FrozenV06 == DeclaredEra("0.6")

VersionCompat ==
    [current        |-> CurrentCapsule,
     v06            |-> FrozenV06,
     newer          |-> DeclaredEra("99.0"),
     older          |-> DeclaredEra("0.5"),
     not_a_version  |-> DeclaredEra("banana"),
     envelope_newer |-> DeclaredVersion("0.6", "99.0")]

\* Members of nobody's schema in an event, the manifest and the envelope.
UnknownFieldsCapsule ==
    Sealed([OneEvent(Approved("human:origin") @@ ("x-acme-review-ticket" :> "ACME-1234"))
            EXCEPT !.commitment = Absent, !.extra = "x-acme-policy" :> "gold",
                   !.envelopeExtra = "x-acme-attestation" :> "42"])

RewriteManifest(c, member, value) == [c EXCEPT !.manifest = (member :> value) @@ @]

RewriteEnvelope(c, member, value) == [c EXCEPT !.envelope = (member :> value) @@ @]

RewriteEvent(c, member, value) ==
    WithFile(c, ChainPath, Jsonl([Events(c) EXCEPT ![1].bare = (member :> value) @@ @]))

UnknownFields ==
    [clean             |-> UnknownFieldsCapsule,
     tampered_manifest |-> RewriteManifest(UnknownFieldsCapsule, "x-acme-policy", "lead"),
     tampered_envelope |-> RewriteEnvelope(UnknownFieldsCapsule, "x-acme-attestation", "43"),
     tampered_event    |-> RewriteEvent(UnknownFieldsCapsule, "x-acme-review-ticket", "ACME-9999")]

=============================================================================

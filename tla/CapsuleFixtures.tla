--------------------------- MODULE CapsuleFixtures ---------------------------
(***************************************************************************)
(* The capsules of the conformance vectors, as the generators under        *)
(* sdk-js/tools build them: sealed documents by document, then damaged,    *)
(* re-signed or relabelled.  Each collection is a record: fixture names to *)
(* artifacts.  The key a generator fixes is named by the role it plays;    *)
(* "tamper" signs the collection others copy from.                         *)
(***************************************************************************)
EXTENDS CapsuleResult, TLC

SignedAt == "t0"

Bare(actor, kind, action) == [actor |-> actor, kind |-> kind, action |-> action]

Approved(actor) == Bare(actor, "decision", "approved")

Row(role, key) == [role |-> role, public_key |-> key]

Program == File(ProgramPath, Text("fixture"))

Anchors(events) ==
    IF events = <<>> THEN [first |-> Null, entry |-> Null]
    ELSE [first |-> FirstEventHash(events), entry |-> EntryHash(events)]

\* What a generator decides about a capsule before it seals it.
Draft(key, participants, events) ==
    [originator      |-> key,
     participants    |-> participants,
     events          |-> events,
     anchors         |-> Anchors(events),
     files           |-> Program,
     signers         |-> <<Row("originator", key)>>,
     commitment      |-> BuildSignerCommitment(<<Row("originator", key)>>),
     cites           |-> Absent,
     version         |-> CurrentVersion,
     envelopeVersion |-> CurrentVersion,
     profile         |-> Absent,
     envelopeProfile |-> Absent,
     extra           |-> << >>,
     envelopeExtra   |-> << >>]

\* Every hash and the signatures are right, under the versions it declares.
Sealed(d) ==
    LET files == Over(File(ChainPath, Jsonl(d.events)), d.files)
        index == BuildContentIndex(files, {})
        id    == ComputeCapsuleId(d.originator, d.anchors.first, d.version)
        manifest ==
            [BuildManifest(id, d.originator, d.participants, d.anchors.first, index,
                           Null, d.commitment, d.cites)
             EXCEPT !.version = d.version, !.profile = d.profile] @@ d.extra
        envelope ==
            [BuildEnvelope(id, d.anchors.first, d.anchors.entry, ManifestHash(manifest),
                           index.index_hash, Null, "none", SignedAt)
             EXCEPT !.version = d.envelopeVersion, !.profile = d.envelopeProfile]
            @@ d.envelopeExtra
    IN  [manifest |-> manifest,
         envelope |-> envelope,
         signers  |-> SignEnvelope(envelope, d.signers),
         files    |-> files]

Origin == {"human:origin"}

OneEvent(bare) == Draft("originator", Origin, BuildChainEvents(<<bare>>))

WithFile(c, path, bytes) == [c EXCEPT !.files = Over(File(path, bytes), c.files)]

-----------------------------------------------------------------------------
(* chain-rules: one event, one field rule under test *)

ChainRule(participants, events) == Sealed(Draft("originator", participants, events))

ChainRuleEvent(participants, bare) == ChainRule(participants, BuildChainEvents(<<bare>>))

\* Hashed as it is stored, with the sequence number it claims.
RenumberedEvent ==
    [bare      |-> Approved("human:origin"),
     seq       |-> 2,
     prev_hash |-> GenesisPrev,
     hash      |-> HashEvent(Approved("human:origin"), 2, GenesisPrev)]

ChainRules ==
    [actor_not_participant        |-> ChainRuleEvent(Origin, Approved("human:mallory")),
     unknown_kind                 |-> ChainRuleEvent(Origin, Bare("human:origin", "gossip", "approved")),
     unbound_actors               |-> ChainRuleEvent({}, Approved("human:origin")),
     non_contiguous_seq           |-> ChainRule(Origin, <<RenumberedEvent>>),
     participant_bare_string      |-> ChainRuleEvent(Origin, Approved("human:origin")),
     invalid_actor_namespace      |-> ChainRuleEvent({"robot:origin"}, Approved("robot:origin")),
     participant_missing_actor_id |-> ChainRuleEvent({"human:origin", Malformed},
                                                     Approved("human:origin")),
     minimal_event_fields         |-> ChainRuleEvent({}, Bare(Absent, "decision", Absent))]

-----------------------------------------------------------------------------
(* tamper-detection: a sealed capsule, then one change *)

TamperPlain == Sealed(Draft("tamper", Origin, BuildChainEvents(<<Approved("human:origin")>>)))

\* The builder's encrypted branch: identity and declarations of the inner
\* capsule, the blob outside the index, the key bundles inside it.
Encrypted(inner, recipient, key, cites) ==
    LET id    == inner.manifest.id
        first == inner.manifest.first_event_hash
        blob  == Aead("content key", Aad(CurrentVersion, id, first, inner.manifest.originator),
                      inner)
        files == Over(File(DecryptionPath, DecryptionMetadata(
                              KeyBundles({recipient}, "content key", CurrentVersion))),
                      File(BlobPath, blob))
        index == BuildContentIndex(files, ContentIndexExclusions(TRUE))
        manifest == BuildManifest(id, inner.manifest.originator, inner.manifest.participants,
                                  first, index,
                                  [metadata_path |-> DecryptionPath,
                                   cipher |-> "ChaCha20-Poly1305"],
                                  inner.manifest.signer_commitment, cites)
        envelope == BuildEnvelope(id, first, inner.envelope.entry_hash, ManifestHash(manifest),
                                  index.index_hash, FileHash(blob), "ChaCha20-Poly1305", SignedAt)
    IN  [manifest |-> manifest,
         envelope |-> envelope,
         signers  |-> SignEnvelope(envelope, <<Row("originator", key)>>),
         files    |-> files]

TamperEncrypted == Encrypted(TamperPlain, "recipient", "tamper", Absent)

TamperDetection ==
    [clean            |-> TamperPlain,
     clean_encrypted  |-> TamperEncrypted,
     payload          |-> WithFile(TamperPlain, ProgramPath, Text("flipped")),
     chain            |-> WithFile(TamperPlain, ChainPath, Text("flipped")),
     envelope         |-> [TamperPlain EXCEPT !.signers[1].signature.key = Malformed],
     blob             |-> WithFile(TamperEncrypted, BlobPath, Text("flipped")),
     stray_content    |-> WithFile(TamperPlain, BlobPath, Text("stray"))]

-----------------------------------------------------------------------------
(* result-vocabulary: the strongest and the weakest shape that verify *)

UnqualifiedCapsule == Sealed(OneEvent(Approved("human:origin")))

MaximallyQualifiedCapsule ==
    Sealed([Draft("originator", {}, <<>>) EXCEPT !.commitment = Absent])

DeclaredVersion(manifestVersion, envelopeVersion) ==
    Sealed([OneEvent(Approved("human:origin"))
            EXCEPT !.version = manifestVersion, !.envelopeVersion = envelopeVersion])

\* A capsule that declares an era of its own in both documents.
DeclaredEra(version) == DeclaredVersion(version, version)

ResultVocabulary ==
    [unqualified         |-> UnqualifiedCapsule,
     maximally_qualified |-> MaximallyQualifiedCapsule,
     encrypted_outer     |-> TamperEncrypted,
     unsupported_newer   |-> DeclaredEra("99.0"),
     unsupported_older   |-> DeclaredEra("0.5"),
     invalid_tamper      |-> WithFile(UnqualifiedCapsule, ProgramPath, Text("tampered"))]

-----------------------------------------------------------------------------
(* signer-set: the rows against the sealed commitment *)

TwoSigners == <<Row("originator", "originator"), Row("approver", "approver")>>

BoundCapsule ==
    Sealed([OneEvent(Approved("human:origin"))
            EXCEPT !.participants = {"human:origin", "human:approver"},
                   !.signers = TwoSigners, !.commitment = BuildSignerCommitment(TwoSigners)])

SingleSigner(role, commitment) ==
    Sealed([OneEvent(Approved("human:origin"))
            EXCEPT !.signers = <<Row(role, "originator")>>, !.commitment = commitment])

\* A row anybody can add to an envelope: no member of it covers the rows.
SignedRow(c, role, key) ==
    [role |-> role, public_key |-> key, signature |-> Sign(key, role, c.envelope)]

SignerSet ==
    [bound         |-> BoundCapsule,
     absent        |-> SingleSigner("originator", Absent),
     strip         |-> [BoundCapsule EXCEPT !.signers = <<@[1]>>],
     add           |-> [BoundCapsule EXCEPT
                           !.signers = Append(@, SignedRow(BoundCapsule, "notary", "attacker"))],
     duplicate     |-> [BoundCapsule EXCEPT !.signers = Append(@, @[1])],
     role_swap     |-> [BoundCapsule EXCEPT
                           !.signers = <<SignedRow(BoundCapsule, "approver", "originator"),
                                         SignedRow(BoundCapsule, "originator", "approver")>>],
     not_a_signer  |-> SingleSigner("creator",
                           BuildSignerCommitment(<<Row("creator", "originator")>>))]

-----------------------------------------------------------------------------
(* chain-binding: what the anchors claim against what the chain holds *)

Anchored(events, anchors) ==
    Sealed([Draft("originator", Origin, events) EXCEPT !.anchors = anchors])

\* A hash of an event that was never stored.
PhantomHash == HashEvent(Bare("human:origin", "decision", "phantom"), 1, GenesisPrev)

ChainBinding ==
    [null_anchors      |-> Anchored(<<>>, Anchors(<<>>)),
     claimed_anchors   |-> Anchored(<<>>, [first |-> PhantomHash, entry |-> PhantomHash]),
     without_untrusted |-> LET events == BuildChainEvents(<<Approved("human:origin")>>)
                           IN  Anchored(events, Anchors(events))]

=============================================================================

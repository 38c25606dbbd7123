------------------------- MODULE CapsuleEncryption -------------------------
(***************************************************************************)
(* The encrypted layer: the blob and its key bundles as seal() writes them *)
(* (builder.js) and as decrypt() opens them (reader.js).                   *)
(*                                                                         *)
(* A content key is a number no other seal drew.  An AEAD box or a wrapped *)
(* key opens only for the key and the associated data it was made with.    *)
(***************************************************************************)
EXTENDS CapsuleVerifier

CONSTANT Recipients    \* X25519 public keys

Aead(contentKey, aad, plain) == <<"aead", contentKey, aad, plain>>

Aad(version, capsuleId, firstEventHash, originator) ==
    [version               |-> version,
     capsule_id            |-> capsuleId,
     first_event_hash      |-> firstEventHash,
     originator_public_key |-> originator]

\* Mutation of KeyBundles: the wrapping key is always that of the first era.
KeyBundlesOfOldEra(recipients, contentKey, version) ==
    {[recipient |-> r, version |-> "0.6", wrapped |-> contentKey] : r \in recipients}

\* One bundle per recipient; the wrapping key is derived for a version.
KeyBundles(recipients, contentKey, version) ==
    {[recipient |-> r, version |-> version, wrapped |-> contentKey] : r \in recipients}

DecryptionMetadata(bundles) == <<"bundles", bundles>>

\* What decrypt() reads: the declared metadata path, or the default one.
MetadataPath(c) ==
    IF c.manifest.encryption = Null THEN DecryptionPath
    ELSE c.manifest.encryption.metadata_path

HasMetadata(c) ==
    /\ MetadataPath(c) \in DOMAIN c.files
    /\ c.files[MetadataPath(c)][1] = "bundles"

\* The bundles recipient r can unwrap under the artifact's declared version.
BundlesOf(c, r) ==
    {b \in c.files[MetadataPath(c)][2] :
        b.recipient = r /\ b.version = c.envelope.version}

AadOf(c) ==
    Aad(c.envelope.version, c.envelope.capsule_id, c.envelope.first_event_hash,
        c.manifest.originator)

\* decrypt() returns a reader for the inner capsule.
CanDecrypt(c, r) ==
    /\ OpenGate(c) = "pass"
    /\ IsEncrypted(c)
    /\ HasMetadata(c)
    /\ c.files[BlobPath][1] = "aead"
    /\ \E b \in BundlesOf(c, r) : c.files[BlobPath][2] = b.wrapped
    /\ c.files[BlobPath][3] = AadOf(c)
    /\ OpenGate(c.files[BlobPath][4]) = "pass"

Decrypted(c) == c.files[BlobPath][4]

\* The options of an L3 verification of the capsule decrypted out of outer.
InnerOptions(outer, options) ==
    [options EXCEPT !.outerEnvelope = outer.envelope, !.outerManifest = outer.manifest]

NoOptions ==
    [allowlist |-> {},
     outerEnvelope |-> Absent, outerManifest |-> Absent]

=============================================================================

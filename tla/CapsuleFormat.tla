--------------------------- MODULE CapsuleFormat ---------------------------
(***************************************************************************)
(* The documents of a capsule and the functions that derive one from       *)
(* another (manifest.js, envelope.js, versions.js, profiles.js).           *)
(*                                                                         *)
(* An artifact is what one .capsule container holds:                       *)
(*   manifest  the members of manifest.json;                               *)
(*   envelope  the members of provenance/envelope.json that are inside the *)
(*             signing input;                                              *)
(*   signers   the rows of envelope.signers, the one member outside it;    *)
(*   files     every other file: a function from paths to contents.        *)
(*                                                                         *)
(* A digest is the value it commits to under the tag of its domain, so two *)
(* digests are equal exactly when domain and input are.  A signature is a  *)
(* record naming the key that made it, the role in its domain string and   *)
(* the envelope members it covers.                                         *)
(***************************************************************************)
EXTENDS Naturals, Sequences, FiniteSets

CONSTANTS
    Null,        \* the JSON value null
    Absent,      \* a member that is not present
    Malformed,   \* a value outside the grammar of its member
    Keys         \* Ed25519 public keys

-----------------------------------------------------------------------------
(* Versions and profiles *)

KnownVersions == {"0.6", "0.7"}
CurrentVersion == "0.7"
LineageEras == {"0.7"}

\* versions.js classifyVersion over the representatives the models use: any
\* other well-formed version string is on one side of the known table.
ClassifyVersion(v) ==
    CASE v \in KnownVersions -> "known"
      [] v = "99.0"          -> "unknown_newer"
      [] v = "0.5"           -> "unknown_older"
      [] OTHER               -> "invalid"

DefaultProfile == "v0.6-suite"
AlternateProfile == "x-vendor-suite"

\* The era default stands for an undeclared profile.
NormalProfile(p) == IF p = Absent THEN DefaultProfile ELSE p

\* profiles.js classifyProfile: shape problems first, then the agreement of
\* the two documents, and only then the table lookup.
ClassifyProfile(manifestDecl, envelopeDecl) ==
    CASE Malformed \in {manifestDecl, envelopeDecl} -> "invalid"
      [] NormalProfile(manifestDecl) # NormalProfile(envelopeDecl) -> "mismatched"
      [] NormalProfile(manifestDecl) = DefaultProfile -> "default"
      [] OTHER -> "unsupported"

-----------------------------------------------------------------------------
(* Files, the content index and the identity of a capsule *)

\* A path is the sequence of its segments.
ProgramPath == <<"program.md">>
AgentsPath == <<"agents.md">>
ChainPath == <<"chain", "events.jsonl">>
BlobPath == <<"content.enc">>
DecryptionPath == <<"skills", "decryption", "decryption.json">>
SkillJsonPath(id) == <<"skills", id, "skill.json">>
SkillMarkdownPath(id) == <<"skills", id, "SKILL.md">>
PayloadPath(name) == <<"payload", name>>

File(path, bytes) == [p \in {path} |-> bytes]

\* The files of f and, where f has none, those of g.
Over(f, g) ==
    [p \in DOMAIN f \cup DOMAIN g |-> IF p \in DOMAIN f THEN f[p] ELSE g[p]]

Text(t) == <<"text", t>>
Jsonl(events) == <<"jsonl", events>>

FileHash(bytes) == <<"sha256-file", bytes>>
ManifestHash(manifest) == <<"sha256-manifest", manifest>>

\* Mutation of ComputeCapsuleId: an originator has one id for all its capsules.
ComputeCapsuleIdOfKey(originator, firstEventHash, version) ==
    <<"capsule-id", version, originator, Null>>

\* manifest.js computeCapsuleId; a null first event hash stands for the 32
\* zero bytes of an empty chain.
ComputeCapsuleId(originator, firstEventHash, version) ==
    <<"capsule-id", version, originator, firstEventHash>>

\* manifest.json and provenance/envelope.json are not in files at all.
ContentIndexExclusions(encrypted) == IF encrypted THEN {BlobPath} ELSE {}

BuildContentIndex(files, excluded) ==
    LET entries == [p \in DOMAIN files \ excluded |-> FileHash(files[p])]
    IN  [files |-> entries, index_hash |-> <<"sha256-index", entries>>]

-----------------------------------------------------------------------------
(* Signers *)

Members(rows) == {<<rows[i].role, rows[i].public_key>> : i \in DOMAIN rows}

\* Two rows with one (role, public_key): buildSignerCommitment throws on it,
\* verifyEnvelopeSignatures calls the envelope malformed.
HasDuplicateMember(rows) ==
    \E i, j \in DOMAIN rows :
        i # j /\ rows[i].role = rows[j].role /\ rows[i].public_key = rows[j].public_key

BuildSignerCommitment(rows) == Members(rows)

\* envelope.js envelopeSigningInput and ed25519Sign: the domain string names
\* the version (a member of the envelope) and the role.
Sign(key, role, envelope) == [key |-> key, role |-> role, over |-> envelope]

\* envelope.js signEnvelope: one row per signer, in the caller's order.
SignEnvelope(envelope, signers) ==
    [i \in DOMAIN signers |->
        [role       |-> signers[i].role,
         public_key |-> signers[i].public_key,
         signature  |-> Sign(signers[i].public_key, signers[i].role, envelope)]]

SignatureValid(row, envelope) ==
    row.signature = Sign(row.public_key, row.role, envelope)

SupportedCiphers == {"none", "ChaCha20-Poly1305"}

-----------------------------------------------------------------------------
(* Lineage declarations *)

\* manifest.js predecessorsProblems is empty.  The era of an entry may be one
\* this table does not know: its identity is then not checked.
NullCoherent(entry) ==
    (entry.first_event_hash = Null) <=> (entry.entry_hash = Null)

IdentityCoherent(entry) ==
    entry.format_version \in KnownVersions =>
        entry.capsule_id = ComputeCapsuleId(entry.originator_public_key,
                                            entry.first_event_hash,
                                            entry.format_version)

\* Array.isArray.
IsArray(v) == v \in Seq({v[i] : i \in DOMAIN v})

PredecessorsWellFormed(predecessors) ==
    /\ IsArray(predecessors)
    /\ predecessors # <<>>
    /\ \A i \in DOMAIN predecessors :
           /\ ClassifyVersion(predecessors[i].format_version) # "invalid"
           /\ NullCoherent(predecessors[i])
           /\ IdentityCoherent(predecessors[i])
    /\ \A i, j \in DOMAIN predecessors :
           predecessors[i].manifest_hash = predecessors[j].manifest_hash => i = j

-----------------------------------------------------------------------------
(* The two documents as the writer emits them *)

BuildManifest(id, originator, participants, first, index, encryption, commitment, cites) ==
    [version           |-> CurrentVersion,
     profile           |-> Absent,
     id                |-> id,
     originator        |-> originator,
     participants      |-> participants,
     first_event_hash  |-> first,
     content_index     |-> index,
     encryption        |-> encryption,
     signer_commitment |-> commitment,
     predecessors      |-> cites]

BuildEnvelope(id, first, entry, manifestHash, indexHash, blob, cipher, signedAt) ==
    [version             |-> CurrentVersion,
     profile             |-> Absent,
     capsule_id          |-> id,
     first_event_hash    |-> first,
     entry_hash          |-> entry,
     manifest_hash       |-> manifestHash,
     content_index_hash  |-> indexHash,
     encrypted_blob_hash |-> blob,
     cipher              |-> cipher,
     signed_at           |-> signedAt]

=============================================================================

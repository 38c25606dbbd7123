-------------------------- MODULE CapsuleVerifier --------------------------
(***************************************************************************)
(* Opening and verifying one artifact (reader.js, verifier.js).            *)
(*                                                                         *)
(* verifyCapsule is a total, pure function of the artifact and the host's  *)
(* options.  Each named condition below is one block of it: TRUE when the  *)
(* block adds no error.  options has                                       *)
(*   allowlist       the signer keys the host trusts;                      *)
(*   outerEnvelope   the enclosing envelope (L3), or Absent;               *)
(*   outerManifest   the enclosing manifest, or Absent.                    *)
(***************************************************************************)
EXTENDS CapsuleChain

-----------------------------------------------------------------------------
(* The gates, in the order the code passes them *)

\* reader.js, the constructor: what stops the bytes from being opened at all,
\* or "pass".  Each document's version comes before its shape; the profile
\* declarations are read only when both documents passed.
OpenGate(c) ==
    LET mv == ClassifyVersion(c.manifest.version)
        ev == ClassifyVersion(c.envelope.version)
        p  == ClassifyProfile(c.manifest.profile, c.envelope.profile)
    IN  CASE mv # "known" -> mv
          [] Malformed \in {c.manifest.id, c.manifest.originator,
                            c.manifest.first_event_hash} -> "invalid"
          [] ev # "known" -> ev
          [] c.envelope.capsule_id = Malformed \/ c.signers = <<>> -> "invalid"
          [] p = "unsupported" -> "unsupported_profile"
          [] p # "default" -> "invalid"
          [] OTHER -> "pass"

\* Two known versions that disagree: neither era's rules are applied.
Gate(c) ==
    IF OpenGate(c) = "pass" /\ c.manifest.version # c.envelope.version
    THEN "invalid"
    ELSE OpenGate(c)

-----------------------------------------------------------------------------
(* What is evaluated once the gates are passed *)

ParticipantsOk(c) == ParticipantsWellFormed(c.manifest.participants)

IdentityOk(c) ==
    LET id == ComputeCapsuleId(c.manifest.originator, c.manifest.first_event_hash,
                               c.manifest.version)
    IN  id = c.manifest.id /\ id = c.envelope.capsule_id

FirstEventHashOk(c) == c.manifest.first_event_hash = c.envelope.first_event_hash

\* Mutation of ManifestHashOk: the comparison is lost.
ManifestHashUnchecked(c) == c.manifest # Null

ManifestHashOk(c) == ManifestHash(c.manifest) = c.envelope.manifest_hash

\* The exclusion of content.enc is keyed on the signed cipher.
Recomputed(c) ==
    BuildContentIndex(c.files, ContentIndexExclusions(c.envelope.cipher # "none"))

ContentIndexOk(c) ==
    LET stored == c.manifest.content_index
    IN  /\ Recomputed(c).index_hash = stored.index_hash
        /\ DOMAIN Recomputed(c).files = DOMAIN stored.files
        /\ \A p \in DOMAIN stored.files : stored.files[p] = Recomputed(c).files[p]
        /\ Recomputed(c).index_hash = c.envelope.content_index_hash

\* Keyed on the presence of the blob, never on isEncrypted().
BlobOk(c) ==
    IF BlobPath \in DOMAIN c.files
    THEN /\ c.envelope.encrypted_blob_hash = FileHash(c.files[BlobPath])
         /\ c.envelope.cipher # "none"
    ELSE /\ c.envelope.encrypted_blob_hash = Null
         /\ c.envelope.cipher = "none"

EncryptionOk(c) ==
    IF c.envelope.cipher = "none"
    THEN c.manifest.encryption = Null
    ELSE /\ c.manifest.encryption # Null
         /\ c.manifest.encryption.cipher = c.envelope.cipher
         /\ c.manifest.encryption.metadata_path \in DOMAIN c.files
         /\ c.manifest.encryption.metadata_path \in DOMAIN c.manifest.content_index.files

\* A present declaration in an era that defines lineage must be well formed.
LineageOk(c) ==
    c.manifest.predecessors # Absent /\ c.manifest.version \in LineageEras
        => PredecessorsWellFormed(c.manifest.predecessors)

IsEncrypted(c) == c.envelope.cipher # "none" /\ BlobPath \in DOMAIN c.files

HasEvents(c) ==
    ChainPath \in DOMAIN c.files /\ c.files[ChainPath][1] = "jsonl"

Events(c) == c.files[ChainPath][2]

EmptyChainOk(c) ==
    /\ c.envelope.first_event_hash = Null
    /\ c.envelope.entry_hash = Null
    /\ c.manifest.first_event_hash = Null

WalkedChainOk(c) ==
    /\ VerifyChain(Events(c), c.manifest.participants)
    /\ FirstEventHash(Events(c)) = c.envelope.first_event_hash
    /\ EntryHash(Events(c)) = c.envelope.entry_hash
    /\ c.manifest.first_event_hash # Null

\* The chain of an encrypted outer is inside the blob: deferred to L3.
ChainOk(c) ==
    \/ IsEncrypted(c)
    \/ /\ HasEvents(c)
       /\ IF Events(c) = <<>> THEN EmptyChainOk(c) ELSE WalkedChainOk(c)

\* verifyEnvelopeSignatures looks at single rows only past these checks.
RowsEvaluated(c) ==
    /\ c.envelope.cipher \in SupportedCiphers
    /\ c.signers # <<>>
    /\ ~HasDuplicateMember(c.signers)

SignaturesOk(c) ==
    /\ RowsEvaluated(c)
    /\ \A i \in DOMAIN c.signers : SignatureValid(c.signers[i], c.envelope)

\* Mutation of SignerSetOk: every committed member signed, others may too.
SignerSetIncluded(c) ==
    c.manifest.signer_commitment # Absent =>
        c.manifest.signer_commitment \subseteq Members(c.signers)

\* Presence binds, absence reports.
SignerSetOk(c) ==
    c.manifest.signer_commitment # Absent =>
        /\ c.manifest.signer_commitment # {}
        /\ c.manifest.signer_commitment = Members(c.signers)

OriginatorBound(c) ==
    /\ RowsEvaluated(c)
    /\ \E i \in DOMAIN c.signers :
           /\ c.signers[i].role = "originator"
           /\ c.signers[i].public_key = c.manifest.originator
           /\ SignatureValid(c.signers[i], c.envelope)

OuterOk(c, options) ==
    LET outer == options.outerEnvelope
        om    == options.outerManifest
    IN  outer # Absent =>
            /\ outer.capsule_id = c.envelope.capsule_id
            /\ outer.first_event_hash = c.envelope.first_event_hash
            /\ outer.entry_hash = c.envelope.entry_hash
            /\ ( /\ c.manifest.version \in LineageEras
                 /\ om # Absent
                 /\ c.manifest.predecessors # Absent
                 /\ om.predecessors # Absent )
               => c.manifest.predecessors = om.predecessors

VerifyOk(c, options) ==
    /\ Gate(c) = "pass"
    /\ ParticipantsOk(c)
    /\ IdentityOk(c)
    /\ FirstEventHashOk(c)
    /\ ManifestHashOk(c)
    /\ ContentIndexOk(c)
    /\ BlobOk(c)
    /\ EncryptionOk(c)
    /\ LineageOk(c)
    /\ ChainOk(c)
    /\ SignaturesOk(c)
    /\ SignerSetOk(c)
    /\ OriginatorBound(c)
    /\ OuterOk(c, options)

-----------------------------------------------------------------------------
(* The verdict surface *)

\* deriveVerdict: a refusal for what the artifact declares is "unsupported",
\* every other failure "invalid".
Verdict(c, options) ==
    CASE Gate(c) \in {"unknown_newer", "unknown_older", "unsupported_profile"}
             -> "unsupported"
      [] VerifyOk(c, options) -> "valid"
      [] OTHER -> "invalid"

\* Distinct keys, never rows: one key under two roles counts once.
TrustedSigners(c, options) ==
    IF Gate(c) # "pass" \/ ~RowsEvaluated(c) THEN {}
    ELSE {k \in options.allowlist :
             \E i \in DOMAIN c.signers :
                 /\ c.signers[i].public_key = k
                 /\ SignatureValid(c.signers[i], c.envelope)}

\* Mutation of CapsuleSigned: the overall verdict is not consulted.
CapsuleSignedByParts(c, options) ==
    /\ Gate(c) = "pass"
    /\ ContentIndexOk(c)
    /\ SignaturesOk(c)
    /\ TrustedSigners(c, options) # {}

\* deriveSkillTrust: the capsule-level fact, and the skills it makes "signed".
CapsuleSigned(c, options) ==
    /\ Verdict(c, options) = "valid"
    /\ TrustedSigners(c, options) # {}

SignedSkills(c, options) ==
    {id \in {p[2] : p \in {q \in DOMAIN c.files : q[1] = "skills" /\ Len(q) = 3}} :
        /\ id # "decryption"
        /\ CapsuleSigned(c, options)
        /\ SkillJsonPath(id) \in DOMAIN c.manifest.content_index.files}

=============================================================================

--------------------------- MODULE CapsuleTransit ---------------------------
(***************************************************************************)
(* Authors who seal (CapsuleBuilder) composed with what happens to a       *)
(* capsule between the seal and its reader: copies are taken, edited,      *)
(* re-packed, re-derived, mixed with other copies and countersigned by     *)
(* whoever holds them, and a recipient verifies and accepts what arrives.  *)
(*                                                                         *)
(* A key in HonestKeys signs nothing but what seal() signs.  Every other   *)
(* key signs whatever its holder likes.                                    *)
(***************************************************************************)
EXTENDS CapsuleBuilder

CONSTANTS
    HonestKeys,
    Versions, Profiles, Roles,   \* values an edit may write
    MaxEdits                     \* bound of the model

ASSUME KeysAssumption == HonestKeys \subseteq Keys /\ Null \notin Keys

ASSUME MaxEditsAssumption == MaxEdits \in Nat

VARIABLES
    held,       \* the artifact in transit, or Null
    edits,      \* how many edits have been made
    accepted    \* what recipients accepted: [outer, inner], inner Null at L2

transitVars == <<held, edits, accepted>>
allVars == <<vars, held, edits, accepted>>

OtherKeys == Keys \ HonestKeys

GarbledSignature == [key |-> Null, role |-> Null, over |-> Null]

-----------------------------------------------------------------------------
(* The journey *)

TransitInit ==
    /\ Init
    /\ held = Null
    /\ edits = 0
    /\ accepted = {}

\* A copy of a sealed capsule, or of the inner one a recipient decrypted.
Receive(c) ==
    /\ held = Null
    /\ held' = c
    /\ UNCHANGED <<vars, edits, accepted>>

Edit(c) ==
    /\ held # Null
    /\ edits < MaxEdits
    /\ held' = c
    /\ edits' = edits + 1
    /\ UNCHANGED <<vars, accepted>>

EditManifest(member, value) ==
    Edit([held EXCEPT !.manifest = [held.manifest EXCEPT ![member] = value]])

EditEnvelope(member, value) ==
    Edit([held EXCEPT !.envelope = [held.envelope EXCEPT ![member] = value]])

StoreFile(path, bytes) == Edit([held EXCEPT !.files = Over(File(path, bytes), held.files)])

DropFile(path) ==
    Edit([held EXCEPT !.files = [p \in DOMAIN held.files \ {path} |-> held.files[p]]])

\* A row of any artifact in circulation is appended, kept, dropped, given
\* another role, or garbled.
AppendRow(row) == Edit([held EXCEPT !.signers = Append(held.signers, row)])

DropRow(i) ==
    Edit([held EXCEPT !.signers =
              [j \in 1..(Len(held.signers) - 1) |->
                  IF j < i THEN held.signers[j] ELSE held.signers[j + 1]]])

RelabelRow(i, role) ==
    Edit([held EXCEPT !.signers = [held.signers EXCEPT ![i] = [@ EXCEPT !.role = role]]])

GarbleRow(i) ==
    Edit([held EXCEPT !.signers =
              [held.signers EXCEPT ![i] = [@ EXCEPT !.signature = GarbledSignature]]])

\* The holder of another key signs the envelope as it now stands.
Countersign(key, role) ==
    AppendRow([role |-> role, public_key |-> key,
               signature |-> Sign(key, role, held.envelope)])

\* Part of the artifact is replaced by the same part of another one.
Splice(part, c) == Edit([held EXCEPT ![part] = c[part]])

\* Every digest that needs no key is computed again over the edited parts.
Rederived(c) ==
    LET id    == ComputeCapsuleId(c.manifest.originator, c.manifest.first_event_hash,
                                  c.manifest.version)
        index == Recomputed(c)
        manifest == [c.manifest EXCEPT !.id = id, !.content_index = index]
        envelope == [c.envelope EXCEPT
                        !.capsule_id = id,
                        !.first_event_hash = c.manifest.first_event_hash,
                        !.manifest_hash = ManifestHash(manifest),
                        !.content_index_hash = index.index_hash,
                        !.encrypted_blob_hash = IF BlobPath \in DOMAIN c.files
                                                THEN FileHash(c.files[BlobPath])
                                                ELSE Null]
    IN  [c EXCEPT !.manifest = manifest, !.envelope = envelope]

Rederive == Edit(Rederived(held))

\* The holder of another key seals the artifact as its own.
Reseal(key) ==
    LET own == [held EXCEPT !.manifest = [held.manifest EXCEPT
                    !.originator = key,
                    !.signer_commitment = {<<"originator", key>>}]]
        c   == Rederived(own)
    IN  Edit([c EXCEPT !.signers =
                 SignEnvelope(c.envelope, <<[role |-> "originator", public_key |-> key]>>)])

\* A recipient accepts what verifyCapsule calls valid.
AcceptHeld ==
    /\ held # Null
    /\ VerifyOk(held, NoOptions)
    /\ accepted' = accepted \cup {[outer |-> held, inner |-> Null]}
    /\ UNCHANGED <<vars, held, edits>>

\* A recipient who decrypts accepts the pair when both layers verify.
AcceptDecrypted(r) ==
    /\ held # Null
    /\ VerifyOk(held, NoOptions)
    /\ CanDecrypt(held, r)
    /\ VerifyOk(Decrypted(held), InnerOptions(held, NoOptions))
    /\ accepted' = accepted \cup {[outer |-> held, inner |-> Decrypted(held)]}
    /\ UNCHANGED <<vars, held, edits>>

-----------------------------------------------------------------------------
\* Values an edit writes into the members the checks read.
ManifestEdits ==
    ({"version"} \X Versions)
    \cup ({"profile"} \X (Profiles \cup {Absent, Malformed}))
    \cup {<<"id", Malformed>>}
    \cup ({"originator"} \X Keys)
    \cup ({"participants"} \X SUBSET ActorIds)
    \cup {<<"first_event_hash", Null>>}
    \cup {<<"encryption", Null>>}
    \cup {<<"signer_commitment", Absent>>, <<"signer_commitment", {}>>}
    \cup {<<"predecessors", Absent>>}

EnvelopeEdits ==
    ({"version"} \X Versions)
    \cup ({"profile"} \X (Profiles \cup {Absent, Malformed}))
    \cup {<<"capsule_id", Malformed>>}
    \cup {<<"first_event_hash", Null>>, <<"entry_hash", Null>>,
          <<"encrypted_blob_hash", Null>>}
    \cup ({"cipher"} \X {"none", "ChaCha20-Poly1305", "AES"})
    \cup ({"signed_at"} \X Times)

EditDocuments ==
    \/ \E e \in ManifestEdits : EditManifest(e[1], e[2])
    \/ \E e \in EnvelopeEdits : EditEnvelope(e[1], e[2])

EditFiles ==
    \/ \E name \in PayloadNames, text \in Contents :
           StoreFile(PayloadPath(name), Text(text))
    \/ \E text \in Contents : StoreFile(BlobPath, Text(text))
    \/ \E id \in SkillIds, text \in Contents : StoreFile(SkillJsonPath(id), Text(text))
    \/ \E path \in DOMAIN held.files : DropFile(path)

Rows == UNION {{c.signers[i] : i \in DOMAIN c.signers} : c \in Issued}

EditSigners ==
    \/ \E row \in Rows : AppendRow(row)
    \/ \E i \in DOMAIN held.signers : DropRow(i) \/ GarbleRow(i)
    \/ \E i \in DOMAIN held.signers, role \in Roles : RelabelRow(i, role)
    \/ \E key \in OtherKeys, role \in Roles : Countersign(key, role)

Recombine ==
    \/ \E part \in {"manifest", "envelope", "signers", "files"}, c \in Issued :
           Splice(part, c)
    \/ Rederive
    \/ \E key \in OtherKeys : Reseal(key)

Transit ==
    \/ \E c \in Issued : Receive(c)
    \/ held # Null /\ (EditDocuments \/ EditFiles \/ EditSigners \/ Recombine)
    \/ AcceptHeld
    \/ \E r \in Recipients : AcceptDecrypted(r)

\* Authors go on working; what they continue from may be what is in transit.
Author ==
    /\ \/ FillBuilder
       \/ SealBuilder
       \/ NewBuilder
       \/ Continue(Issued \cup (IF held = Null THEN {} ELSE {held}))
    /\ UNCHANGED transitVars

TransitNext == Author \/ Transit

TransitSpec == TransitInit /\ [][TransitNext]_allVars

-----------------------------------------------------------------------------
(* Properties *)

SameFiles(f, g) ==
    /\ DOMAIN f = DOMAIN g
    /\ \A p \in DOMAIN f : f[p] = g[p]

\* Equal in everything verification vouches for: the order of the signer rows
\* is the one thing no seal fixes.
SameCapsule(c, d) ==
    /\ c.manifest = d.manifest
    /\ c.envelope = d.envelope
    /\ SameFiles(c.files, d.files)
    /\ Members(c.signers) = Members(d.signers)

\* Every signature by an honest key in circulation is over an envelope that
\* was sealed.
HonestSignatures(c) ==
    \A i \in DOMAIN c.signers :
        c.signers[i].signature.key \in HonestKeys =>
            \E d \in Issued : c.signers[i].signature.over = d.envelope

\* What seal() ties together before it signs.
Tied(c) ==
    /\ c.envelope.manifest_hash = ManifestHash(c.manifest)
    /\ c.envelope.content_index_hash = Recomputed(c).index_hash
    /\ BlobOk(c)
    /\ c.manifest.signer_commitment = Members(c.signers)
    /\ c.manifest.signer_commitment # Absent
    /\ \A i \in DOMAIN c.signers : SignatureValid(c.signers[i], c.envelope)

\* An inner capsule is plain, and an encrypted outer holds its own.
PairTied(s) ==
    /\ s.inner # Null => s.inner.envelope.cipher = "none"
    /\ s.outer.envelope.cipher # "none" =>
           s.outer.files[BlobPath][4] = s.inner

\* The inductive invariant behind the three properties below.
SealsHold ==
    /\ BlobPath \notin DOMAIN written
    /\ BlobPath \notin DOMAIN carried
    /\ \A c \in Issued : Tied(c)
    /\ \A s \in sealing : Tied(s.inner) /\ s.inner.envelope.cipher = "none"
    /\ \A i \in DOMAIN sealed : PairTied(sealed[i])
    /\ held # Null => HonestSignatures(held)

\* A capsule that verifies under an honest originator key is one that was
\* sealed: manifest, signed envelope, every file and the exact signer set,
\* whatever was edited, spliced, re-derived or countersigned on the way.
ValidImpliesSealed ==
    held # Null /\ VerifyOk(held, NoOptions) /\ held.manifest.originator \in HonestKeys
        => \E c \in Issued : SameCapsule(held, c)

\* A skill classifies "signed" for a host that trusts honest keys only when its
\* files are those of a capsule such a key sealed, in whatever role, even
\* where somebody else is the originator.
SignedSkillsWereSealed ==
    held # Null =>
        LET options == [NoOptions EXCEPT !.allowlist = HonestKeys]
        IN  SignedSkills(held, options) # {} =>
                \E c \in Issued :
                    /\ SameCapsule(held, c)
                    /\ \E i \in DOMAIN c.signers : c.signers[i].public_key \in HonestKeys

\* What recipients accept under honest originators is at that moment among
\* what was issued, and nothing issued or accepted is ever taken back.
Vouched(c) ==
    [manifest |-> c.manifest,
     envelope |-> c.envelope,
     files    |-> [p \in DOMAIN c.files |-> c.files[p]],
     members  |-> Members(c.signers)]

IssuedCapsules == {Vouched(c) : c \in Issued}

AcceptedCapsules ==
    {Vouched(a.outer) : a \in {b \in accepted : b.outer.manifest.originator \in HonestKeys}}

Promise == INSTANCE CapsulePromise WITH
    issued  <- IssuedCapsules,
    vouched <- AcceptedCapsules

PromiseKept == Promise!Spec

\* Unless the caller overrides the predecessor gate, an entry the builder
\* derived from whatever was in transit cites, under an honest originator, a
\* plain capsule that was sealed, member by member.
CitationsAreSealed ==
    TRUE \notin Overrides =>
        \A i \in DOMAIN predecessors :
            predecessors[i].originator_public_key \in HonestKeys
                /\ predecessors[i] \notin ArchiveEntries =>
                \E d \in Issued :
                    /\ predecessors[i] = DerivePredecessorEntry(d)
                    /\ d.envelope.cipher = "none"

\* A decrypted capsule accepted at L3 under an honest outer originator is the
\* very inner capsule that was sealed with that outer.
AcceptedPairsWereSealedTogether ==
    \A a \in accepted :
        a.inner # Null /\ a.outer.manifest.originator \in HonestKeys =>
            \E i \in DOMAIN sealed :
                /\ SameCapsule(a.outer, sealed[i].outer)
                /\ a.inner = sealed[i].inner

=============================================================================

--------------------------- MODULE CapsuleBuilder ---------------------------
(***************************************************************************)
(* The author's side (builder.js): one CapsuleBuilder after another, each  *)
(* filled by its methods and sealed any number of times.  A call the code  *)
(* refuses before it changes anything is an action that is not enabled;    *)
(* a call that throws after it changed the builder is an action.           *)
(* Calls run to their end, but an encrypted seal() waits for the inner     *)
(* archive to be packed, and the builder may be used while it waits.       *)
(***************************************************************************)
EXTENDS CapsuleEncryption

CONSTANTS
    Contents,        \* the texts a caller writes into files
    Actions,         \* the things an event may report
    Kinds,           \* the kinds a caller passes, some outside the enum
    Times,           \* the timestamps a caller passes or the clock gives
    SkillIds, PayloadNames,
    SignerLists,     \* the signers arguments of seal(): <<[role, public_key]>>
    ArchiveEntries,  \* lineage entries written down from records
    Overrides,       \* the values of allowInvalidPredecessor callers pass
    MaxEvents, MaxSeals, MaxBuilders, MaxPredecessors  \* bounds of the model

ASSUME BoundsAssumption ==
    {MaxEvents, MaxSeals, MaxBuilders, MaxPredecessors} \subseteq Nat /\ MaxBuilders > 0

ASSUME OverridesAssumption == Overrides \subseteq BOOLEAN

\* No commitment seal() builds is the absent member.
ASSUME SignersAssumption ==
    /\ SignerLists \subseteq Seq([role : STRING, public_key : Keys])
    /\ \A signers \in SignerLists : BuildSignerCommitment(signers) # Absent

VARIABLES
    originator,     \* this.originator.public_key
    participants,   \* this.participants
    bareEvents,     \* this.bareEvents
    written,        \* programMd, agentsMd, skills and payload, as files
    carried,        \* this._carriedFiles
    predecessors,   \* this.predecessors
    builders,       \* how many builders there have been
    previews,       \* the ids previewCapsuleId gave for this builder
    sealing,        \* the encrypted seals of this builder that are waiting
    sealed          \* every seal so far: [outer, inner, recipients, builder]

settings == <<originator, participants, written, carried, predecessors>>
vars == <<originator, participants, bareEvents, written, carried, predecessors,
          builders, previews, sealing, sealed>>

NoFiles == << >>

-----------------------------------------------------------------------------
(* What a builder reports *)

BareEvent(actor, kind, action, target, timestamp) ==
    [actor |-> actor, kind |-> kind, action |-> action, target |-> target,
     timestamp |-> timestamp]

\* A target is the default "capsule" or the id of a capsule.
DefaultTarget == <<"capsule">>

Backstop(signedAt) ==
    BareEvent(HostActor, "observation", "session_ended", DefaultTarget, signedAt)

CustodyEvent(actor, capsuleId, createdAt) ==
    BareEvent(actor, "observation", "custody_received", capsuleId, createdAt)

\* The chain seal() builds: it queues a backstop event for an empty one.
SealEvents(signedAt) ==
    IF bareEvents = <<>> THEN <<Backstop(signedAt)>> ELSE bareEvents

LineageMember == IF predecessors = <<>> THEN Absent ELSE predecessors

\* Carried files first, the builder's own on top, the chain always its own.
InnerFiles(events) ==
    Over(File(ChainPath, Jsonl(events)),
         Over(written, Over(carried, File(ProgramPath, Text("# Program")))))

-----------------------------------------------------------------------------
(* The capsule seal() emits *)

\* Mutations of SealedIndex: it is built before the chain file is added, and
\* it covers the blob.
IndexBeforeChain(files, cipher) == BuildContentIndex(files, {ChainPath})

IndexWithBlob(files, cipher) == BuildContentIndex(files, {})

SealedIndex(files, cipher) ==
    BuildContentIndex(files, ContentIndexExclusions(cipher # "none"))

SealArtifact(files, events, signers, signedAt, blobHash, cipher, encryption, lineage) ==
    LET feh   == FirstEventHash(events)
        id    == ComputeCapsuleId(originator, feh, CurrentVersion)
        index == SealedIndex(files, cipher)
        manifest == BuildManifest(id, originator, participants, feh, index,
                                  encryption, BuildSignerCommitment(signers), lineage)
        envelope == BuildEnvelope(id, feh, EntryHash(events), ManifestHash(manifest),
                                  index.index_hash, blobHash, cipher, signedAt)
    IN  [manifest |-> manifest,
         envelope |-> envelope,
         signers  |-> SignEnvelope(envelope, signers),
         files    |-> files]

PlainArtifact(bare, signers, signedAt, lineage) ==
    LET events == BuildChainEvents(bare)
    IN  SealArtifact(InnerFiles(events), events, signers, signedAt, Null, "none",
                     Null, lineage)

\* The outer layer over an inner capsule: the blob and its key bundles.
EncryptedFiles(inner, recipients, contentKey) ==
    Over(File(DecryptionPath,
              DecryptionMetadata(KeyBundles(recipients, contentKey, CurrentVersion))),
         File(BlobPath,
              Aead(contentKey,
                   Aad(CurrentVersion, inner.envelope.capsule_id,
                       inner.envelope.first_event_hash, originator),
                   inner)))

\* Mutation of OuterArtifact: the envelope commits to the metadata, not the blob.
OuterArtifactHashingMetadata(bare, inner, recipients, contentKey, signers, signedAt, lineage) ==
    LET files == EncryptedFiles(inner, recipients, contentKey)
    IN  SealArtifact(files, BuildChainEvents(bare), signers, signedAt,
                     FileHash(files[DecryptionPath]), "ChaCha20-Poly1305",
                     [metadata_path |-> DecryptionPath, cipher |-> "ChaCha20-Poly1305"],
                     lineage)

OuterArtifact(bare, inner, recipients, contentKey, signers, signedAt, lineage) ==
    LET files == EncryptedFiles(inner, recipients, contentKey)
    IN  SealArtifact(files, BuildChainEvents(bare), signers, signedAt,
                     FileHash(files[BlobPath]), "ChaCha20-Poly1305",
                     [metadata_path |-> DecryptionPath, cipher |-> "ChaCha20-Poly1305"],
                     lineage)

-----------------------------------------------------------------------------
(* Lineage entries and the gate on predecessors *)

\* derivePredecessorEntry: id and manifest hash are recomputed, never copied.
DerivePredecessorEntry(c) ==
    [capsule_id            |-> ComputeCapsuleId(c.manifest.originator,
                                                c.manifest.first_event_hash,
                                                c.manifest.version),
     format_version        |-> c.manifest.version,
     originator_public_key |-> c.manifest.originator,
     first_event_hash      |-> c.manifest.first_event_hash,
     entry_hash            |-> c.envelope.entry_hash,
     manifest_hash         |-> ManifestHash(c.manifest)]

\* Mutation of PredecessorRefusal: what cannot be read into is not refused.
RefusalOfPlainOnly(c, allowInvalid) ==
    CASE OpenGate(c) \in {"unknown_newer", "unknown_older"} -> "unsupported_version"
      [] OpenGate(c) # "pass" -> "verification_failed"
      [] ~VerifyOk(c, NoOptions) /\ ~allowInvalid -> "verification_failed"
      [] OTHER -> "none"

\* openPredecessorForBuild: the reason of its refusal, or "none".  Scope comes
\* before validity, and only a failed verification can be overridden.
PredecessorRefusal(c, allowInvalid) ==
    CASE OpenGate(c) \in {"unknown_newer", "unknown_older"} -> "unsupported_version"
      [] OpenGate(c) # "pass" -> "verification_failed"
      [] IsEncrypted(c) -> "encrypted_predecessor"
      [] ~VerifyOk(c, NoOptions) /\ ~allowInvalid -> "verification_failed"
      [] OTHER -> "none"

ResetPaths == {ChainPath}

\* Mutation of IsCarriablePath: a stray blob is carried like any file.
IsAnyPath(p) ==
    /\ p \notin ResetPaths
    /\ ~(p[1] = "skills" /\ p[2] = "decryption")

IsCarriablePath(p) ==
    /\ p \notin ResetPaths
    /\ p # BlobPath
    /\ ~(p[1] = "skills" /\ p[2] = "decryption")

CarriablePaths(c) == {p \in DOMAIN c.files : IsCarriablePath(p)}

-----------------------------------------------------------------------------
Init ==
    /\ originator \in Keys
    /\ participants \in SUBSET ActorIds
    /\ ParticipantsWellFormed(participants)
    /\ bareEvents = <<>>
    /\ written = NoFiles
    /\ carried = NoFiles
    /\ predecessors = <<>>
    /\ builders = 1
    /\ previews = {}
    /\ sealing = {}
    /\ sealed = <<>>

\* Bounds of the model: one builder at a time, whose seals are awaited before
\* the next one is constructed.
CanConstruct == builders < MaxBuilders /\ sealing = {}

\* new CapsuleBuilder(...)
Construct(key, declared) ==
    /\ CanConstruct
    /\ ParticipantsWellFormed(declared)
    /\ originator' = key
    /\ participants' = declared
    /\ bareEvents' = <<>>
    /\ written' = NoFiles
    /\ carried' = NoFiles
    /\ predecessors' = <<>>
    /\ builders' = builders + 1
    /\ previews' = {}
    /\ UNCHANGED <<sealing, sealed>>

\* builder.participants is a public, mutable property.
AssignParticipants(declared) ==
    /\ participants' = declared
    /\ UNCHANGED <<originator, bareEvents, written, carried, predecessors,
                   builders, previews, sealing, sealed>>

Write(files) ==
    /\ written' = files
    /\ UNCHANGED <<originator, participants, bareEvents, carried, predecessors,
                   builders, previews, sealing, sealed>>

SetProgram(text) == Write(Over(File(ProgramPath, Text(text)), written))
SetAgents(text) == Write(Over(File(AgentsPath, Text(text)), written))

\* A skill has a slot for each of its two files; addSkill replaces both.
AddSkill(id, json, markdown) ==
    LET paths == {SkillJsonPath(id), SkillMarkdownPath(id)}
        others == [p \in DOMAIN written \ paths |-> written[p]]
        own == Over(IF json = Null THEN NoFiles ELSE File(SkillJsonPath(id), Text(json)),
                    IF markdown = Null THEN NoFiles
                    ELSE File(SkillMarkdownPath(id), Text(markdown)))
    IN  id # "decryption" /\ Write(Over(own, others))

AddPayload(name, text) == Write(Over(File(PayloadPath(name), Text(text)), written))

AppendEvent(actor, kind, action, timestamp) ==
    /\ Len(bareEvents) < MaxEvents
    /\ kind \in EventKinds
    /\ ActorAllowed(actor, participants)
    /\ bareEvents' = Append(bareEvents, BareEvent(actor, kind, action, DefaultTarget,
                                                    timestamp))
    /\ UNCHANGED <<settings, builders, previews, sealing, sealed>>

DeclarePredecessorEntry(entry) ==
    /\ Len(predecessors) < MaxPredecessors
    /\ PredecessorsWellFormed(Append(predecessors, entry))
    /\ predecessors' = Append(predecessors, entry)
    /\ UNCHANGED <<originator, participants, bareEvents, written, carried,
                   builders, previews, sealing, sealed>>

DeclarePredecessor(c, allowInvalid) ==
    /\ PredecessorRefusal(c, allowInvalid) = "none"
    /\ DeclarePredecessorEntry(DerivePredecessorEntry(c))

\* CapsuleBuilder.continueFrom: a new builder that cites c, carries those of its
\* files the caller keeps and opens its chain with the custody event, unless
\* custodyActor is Null (the caller opted out).
ContinueFrom(c, allowInvalid, carry, key, declared, custodyActor, createdAt) ==
    LET entry == DerivePredecessorEntry(c)
    IN  /\ CanConstruct
        /\ MaxPredecessors > 0
        /\ PredecessorRefusal(c, allowInvalid) = "none"
        /\ ParticipantsWellFormed(declared)
        /\ PredecessorsWellFormed(<<entry>>)
        /\ originator' = key
        /\ participants' = declared
        /\ predecessors' = <<entry>>
        /\ carry \subseteq CarriablePaths(c)
        /\ carried' = [p \in carry |-> c.files[p]]
        /\ written' = NoFiles
        /\ custodyActor # Null => ActorAllowed(custodyActor, declared)
        /\ bareEvents' = IF custodyActor = Null THEN <<>>
                         ELSE <<CustodyEvent(custodyActor, entry.capsule_id, createdAt)>>
        /\ builders' = builders + 1
        /\ previews' = {}
        /\ UNCHANGED <<sealing, sealed>>

\* Mutation of PreviewCapsuleId: the id of the chain's last event.
PreviewOfLastEvent ==
    /\ bareEvents # <<>>
    /\ previews' = previews \cup
           {ComputeCapsuleId(originator, EntryHash(BuildChainEvents(bareEvents)),
                             CurrentVersion)}
    /\ UNCHANGED <<settings, bareEvents, builders, sealing, sealed>>

PreviewCapsuleId ==
    /\ bareEvents # <<>>
    /\ previews' = previews \cup
           {ComputeCapsuleId(originator, FirstEventHash(BuildChainEvents(bareEvents)),
                             CurrentVersion)}
    /\ UNCHANGED <<settings, bareEvents, builders, sealing, sealed>>

-----------------------------------------------------------------------------
(* seal() *)

\* A bound of the model.
CanSeal == Len(sealed) + Cardinality(sealing) < MaxSeals

\* The checks before the first change of the builder.
SealAllowed(signers) ==
    /\ ParticipantsWellFormed(participants)
    /\ predecessors # <<>> => PredecessorsWellFormed(predecessors)
    /\ signers # <<>>

Issue(outer, inner, recipients) ==
    sealed' = Append(sealed, [outer |-> outer, inner |-> inner,
                              recipients |-> recipients, builder |-> builders])

\* Mutation of SealPlain: the backstop event is sealed but not queued.
SealPlainForgetful(signers, signedAt) ==
    /\ CanSeal
    /\ SealAllowed(signers)
    /\ ~HasDuplicateMember(signers)
    /\ Issue(PlainArtifact(SealEvents(signedAt), signers, signedAt, LineageMember), Null, {})
    /\ UNCHANGED <<settings, bareEvents, builders, previews, sealing>>

SealPlain(signers, signedAt) ==
    /\ CanSeal
    /\ SealAllowed(signers)
    /\ ~HasDuplicateMember(signers)
    /\ bareEvents' = SealEvents(signedAt)
    /\ Issue(PlainArtifact(bareEvents', signers, signedAt, LineageMember), Null, {})
    /\ UNCHANGED <<settings, builders, previews, sealing>>

\* seal() up to the packing of the inner archive: what it keeps across the
\* await are its locals, the chain and the lineage list among them.
BeginEncrypted(signers, signedAt, recipients, placement) ==
    /\ CanSeal
    /\ recipients # {}
    /\ SealAllowed(signers)
    /\ ~HasDuplicateMember(signers)
    /\ bareEvents' = SealEvents(signedAt)
    /\ sealing' = sealing \cup
           {[bare       |-> bareEvents',
             inner      |-> PlainArtifact(bareEvents', signers, signedAt,
                                IF placement = "outer" THEN Absent ELSE LineageMember),
             lineage    |-> IF placement = "inner" THEN Absent ELSE LineageMember,
             signers    |-> signers,
             signedAt   |-> signedAt,
             recipients |-> recipients]}
    /\ UNCHANGED <<settings, builders, previews, sealed>>

\* The rest of seal(): the content key is drawn, and the outer manifest takes
\* the originator and the participants the builder has now.
FinishEncrypted(s) ==
    /\ Issue(OuterArtifact(s.bare, s.inner, s.recipients, Len(sealed) + 1, s.signers,
                           s.signedAt, s.lineage),
             s.inner, s.recipients)
    /\ sealing' = sealing \ {s}
    /\ UNCHANGED <<settings, bareEvents, builders, previews>>

\* buildSignerCommitment throws on a repeated signer, after the backstop event
\* was queued.
SealThrows(signers, signedAt) ==
    /\ SealAllowed(signers)
    /\ HasDuplicateMember(signers)
    /\ bareEvents' = SealEvents(signedAt)
    /\ UNCHANGED <<settings, builders, previews, sealing, sealed>>

-----------------------------------------------------------------------------
Issued ==
    {sealed[i].outer : i \in DOMAIN sealed}
    \cup {sealed[i].inner : i \in {j \in DOMAIN sealed : sealed[j].inner # Null}}

FillBuilder ==
    \/ \E declared \in SUBSET ActorIds : AssignParticipants(declared)
    \/ \E text \in Contents : SetProgram(text)
    \/ \E text \in Contents : SetAgents(text)
    \/ \E id \in SkillIds, json, markdown \in Contents \cup {Null} :
           AddSkill(id, json, markdown)
    \/ \E name \in PayloadNames, text \in Contents : AddPayload(name, text)
    \/ \E actor \in ActorIds \cup {HostActor}, kind \in Kinds, action \in Actions,
          timestamp \in Times : AppendEvent(actor, kind, action, timestamp)
    \/ \E entry \in ArchiveEntries : DeclarePredecessorEntry(entry)
    \/ PreviewCapsuleId

SealBuilder ==
    \/ \E signers \in SignerLists, signedAt \in Times :
           \/ SealPlain(signers, signedAt)
           \/ \E recipients \in SUBSET Recipients, placement \in {"both", "inner", "outer"} :
                  BeginEncrypted(signers, signedAt, recipients, placement)
           \/ SealThrows(signers, signedAt)
    \/ \E s \in sealing : FinishEncrypted(s)

\* The artifacts a caller continues from: pool is what is lying around.
Continue(pool) ==
    \E c \in pool, allowInvalid \in Overrides :
        \/ DeclarePredecessor(c, allowInvalid)
        \/ \E key \in Keys, declared \in SUBSET ActorIds,
              custodyActor \in ActorIds \cup {HostActor, Null}, createdAt \in Times :
               \E carry \in SUBSET CarriablePaths(c) :
                   ContinueFrom(c, allowInvalid, carry, key, declared, custodyActor,
                                createdAt)

NewBuilder ==
    \E key \in Keys, declared \in SUBSET ActorIds : Construct(key, declared)

Next == FillBuilder \/ SealBuilder \/ NewBuilder \/ Continue(Issued)

Spec == Init /\ [][Next]_vars

-----------------------------------------------------------------------------
(* Properties *)

\* The type invariant of the builder.
TypeOK ==
    /\ originator \in Keys
    /\ participants \subseteq ActorIds
    /\ bareEvents \in Seq([actor : ActorIds \cup {HostActor}, kind : EventKinds,
                            action : Actions \cup {"session_ended", "custody_received"},
                            target : {bareEvents[i].target : i \in DOMAIN bareEvents},
                            timestamp : Times])
    /\ builders \in 1..MaxBuilders
    /\ Len(predecessors) <= MaxPredecessors
    /\ \A i \in DOMAIN sealed : sealed[i].builder \in 1..builders

OriginatorSigned(c) == <<"originator", c.manifest.originator>> \in Members(c.signers)

ActorsCovered(c) ==
    \A i \in DOMAIN Events(c) :
        ActorAllowed(Events(c)[i].bare.actor, c.manifest.participants)

WriterAndReaderAgree(seal) ==
    LET outer == seal.outer
        plain == IF seal.inner = Null THEN outer ELSE seal.inner
    IN  /\ VerifyOk(plain, NoOptions) <=> OriginatorSigned(plain) /\ ActorsCovered(plain)
        /\ seal.inner # Null =>
               /\ VerifyOk(outer, NoOptions)
                      <=> OriginatorSigned(outer) /\ ParticipantsOk(outer)
               /\ VerifyOk(plain, InnerOptions(outer, NoOptions))
                      <=> OriginatorSigned(plain) /\ ActorsCovered(plain)

\* What seal() emits passes verifyCapsule exactly when the originator key is
\* among the signers and the participants declared at seal time cover every
\* queued actor: the writer and the reader agree on everything else (identity,
\* index, blob, commitment, chain links, lineage).  An encrypted capsule is
\* held to it at L3, through decrypt() by one of its recipients; its outer
\* layer needs well-formed participants when the wait is over.
SealedVerifies == \A i \in DOMAIN sealed : WriterAndReaderAgree(sealed[i])

OpensForRecipients(seal) ==
    \A r \in Recipients :
        /\ CanDecrypt(seal.outer, r) <=> r \in seal.recipients
        /\ r \in seal.recipients => Decrypted(seal.outer) = seal.inner

\* decrypt() hands every recipient of a seal, and nobody else, the inner
\* capsule that was sealed with it.
RecipientsDecrypt ==
    \A i \in DOMAIN sealed : sealed[i].inner # Null => OpensForRecipients(sealed[i])

\* An id an issuer attested to before sealing is the id of every capsule the
\* builder then seals, whatever is appended, assigned or thrown in between.
PreviewIsSealedId ==
    \A i \in DOMAIN sealed, id \in previews :
        sealed[i].builder = builders => sealed[i].outer.manifest.id = id

ChainOf(s) == Events(IF s.inner = Null THEN s.outer ELSE s.inner)

IsPrefixOf(c, d) == Len(c) <= Len(d) /\ \A k \in DOMAIN c : c[k] = d[k]

\* Seals of one builder are snapshots of one growing line, in whatever order
\* they finish: same id, and of two chains one is a prefix of the other, hashes
\* included.  The backstop event of a first empty seal, or of a seal that threw,
\* is part of the line.
SealsOfOneLine ==
    \A i, j \in DOMAIN sealed :
        sealed[i].builder = sealed[j].builder =>
            /\ sealed[i].outer.manifest.id = sealed[j].outer.manifest.id
            /\ \/ IsPrefixOf(ChainOf(sealed[i]), ChainOf(sealed[j]))
               \/ IsPrefixOf(ChainOf(sealed[j]), ChainOf(sealed[i]))

\* A successor that opens its chain with the custody event never has the id of
\* the capsule it continues from, even where one key seals the same content at
\* the same instant.
CustodyGivesNewIdentity ==
    \A i \in DOMAIN sealed :
        LET manifest == sealed[i].outer.manifest
        IN  /\ ChainOf(sealed[i])[1].bare.action = "custody_received"
            /\ manifest.predecessors # Absent
            => manifest.predecessors[1].capsule_id # manifest.id

\* builder.js, where seal() checks the participants again: "never emit a
\* manifest that fails the namespace grammar".  It checks before it waits.
SealEmitsWellFormedParticipants ==
    \A i \in DOMAIN sealed : ParticipantsOk(sealed[i].outer)

=============================================================================

---------------------------- MODULE RewrapProofs ----------------------------
(***************************************************************************)
(* The hand-off of RewrapCommand: which files a rewrap leaves alone, and   *)
(* what `capsule verify` says of the successor.  For every rewrap, every   *)
(* set of files, a kill or a torn write at any point and files another     *)
(* process creates in between.                                             *)
(***************************************************************************)
EXTENDS VerifyProofs

-----------------------------------------------------------------------------
(* The builder of the command opens and verifies as the verifier does. *)

(* The lemmas about the builder (CapsuleBuilderProofs), of this one. *)
Proved == INSTANCE CapsuleBuilderProofs WITH
    written <- << >>, previews <- {}, sealing <- {},
    builders <- IF originator = Null THEN 0 ELSE 1,
    Contents <- {}, Actions <- {}, Kinds <- {}, Times <- {}, SkillIds <- {},
    PayloadNames <- {}, SignerLists <- {}, ArchiveEntries <- {}, Overrides <- BOOLEAN,
    MaxEvents <- 1, MaxSeals <- 1, MaxBuilders <- 1, MaxPredecessors <- 1

(* Whether a capsule opens. *)
LEMMA OneReader ==
    \A c : Author!OpenGate(c) = OpenGate(c) /\ Proved!OpenGate(c) = OpenGate(c)
  BY DEF
      Author!OpenGate, Proved!OpenGate, OpenGate, Author!ClassifyVersion,
      Proved!ClassifyVersion, ClassifyVersion, Author!ClassifyProfile,
      Proved!ClassifyProfile, ClassifyProfile, Author!KnownVersions,
      Proved!KnownVersions, KnownVersions, Author!NormalProfile,
      Proved!NormalProfile, NormalProfile, Author!DefaultProfile,
      Proved!DefaultProfile, DefaultProfile

(* Whether it holds. *)
LEMMA OneVerifier ==
    \A c, o : Author!VerifyOk(c, o) = VerifyOk(c, o) /\ Proved!VerifyOk(c, o) = VerifyOk(c, o)
  BY DEF
      Author!VerifyOk, Proved!VerifyOk, VerifyOk, Author!Gate, Proved!Gate, Gate,
      Author!OpenGate, Proved!OpenGate, OpenGate, Author!ClassifyVersion,
      Proved!ClassifyVersion, ClassifyVersion, Author!ClassifyProfile,
      Proved!ClassifyProfile, ClassifyProfile, Author!KnownVersions,
      Proved!KnownVersions, KnownVersions, Author!NormalProfile,
      Proved!NormalProfile, NormalProfile, Author!DefaultProfile,
      Proved!DefaultProfile, DefaultProfile, Author!ParticipantsOk,
      Proved!ParticipantsOk, ParticipantsOk, Author!ParticipantsWellFormed,
      Proved!ParticipantsWellFormed, ParticipantsWellFormed, Author!IdentityOk,
      Proved!IdentityOk, IdentityOk, Author!ComputeCapsuleId,
      Proved!ComputeCapsuleId, ComputeCapsuleId, Author!FirstEventHashOk,
      Proved!FirstEventHashOk, FirstEventHashOk, Author!ManifestHashOk,
      Proved!ManifestHashOk, ManifestHashOk, Author!ManifestHash,
      Proved!ManifestHash, ManifestHash, Author!ContentIndexOk,
      Proved!ContentIndexOk, ContentIndexOk, Author!Recomputed, Proved!Recomputed,
      Recomputed, Author!BuildContentIndex, Proved!BuildContentIndex,
      BuildContentIndex, Author!FileHash, Proved!FileHash, FileHash,
      Author!ContentIndexExclusions, Proved!ContentIndexExclusions,
      ContentIndexExclusions, Author!BlobPath, Proved!BlobPath, BlobPath,
      Author!BlobOk, Proved!BlobOk, BlobOk, Author!EncryptionOk,
      Proved!EncryptionOk, EncryptionOk, Author!LineageOk, Proved!LineageOk,
      LineageOk, Author!LineageEras, Proved!LineageEras, LineageEras,
      Author!PredecessorsWellFormed, Proved!PredecessorsWellFormed,
      PredecessorsWellFormed, Author!IsArray, Proved!IsArray, IsArray,
      Author!NullCoherent, Proved!NullCoherent, NullCoherent,
      Author!IdentityCoherent, Proved!IdentityCoherent, IdentityCoherent,
      Author!ChainOk, Proved!ChainOk, ChainOk, Author!VerifyChain,
      Proved!VerifyChain, VerifyChain, Author!ActorAllowed, Proved!ActorAllowed,
      ActorAllowed, Author!HostActor, Proved!HostActor, HostActor,
      Author!EventKinds, Proved!EventKinds, EventKinds, Author!GenesisPrev,
      Proved!GenesisPrev, GenesisPrev, Author!HashEvent, Proved!HashEvent,
      HashEvent, Author!IsEncrypted, Proved!IsEncrypted, IsEncrypted,
      Author!HasEvents, Proved!HasEvents, HasEvents, Author!Events, Proved!Events,
      Events, Author!EmptyChainOk, Proved!EmptyChainOk, EmptyChainOk,
      Author!WalkedChainOk, Proved!WalkedChainOk, WalkedChainOk,
      Author!FirstEventHash, Proved!FirstEventHash, FirstEventHash,
      Author!EntryHash, Proved!EntryHash, EntryHash, Author!ChainPath,
      Proved!ChainPath, ChainPath, Author!SignaturesOk, Proved!SignaturesOk,
      SignaturesOk, Author!SignerSetOk, Proved!SignerSetOk, SignerSetOk,
      Author!OriginatorBound, Proved!OriginatorBound, OriginatorBound,
      Author!RowsEvaluated, Proved!RowsEvaluated, RowsEvaluated,
      Author!SupportedCiphers, Proved!SupportedCiphers, SupportedCiphers,
      Author!HasDuplicateMember, Proved!HasDuplicateMember, HasDuplicateMember,
      Author!SignatureValid, Proved!SignatureValid, SignatureValid, Author!Sign,
      Proved!Sign, Sign, Author!Members, Proved!Members, Members, Author!OuterOk,
      Proved!OuterOk, OuterOk

(* A predecessor that holds does so whoever asks. *)
LEMMA HoldsForTheBuilder ==
    ASSUME NEW c
    PROVE  Author!VerifyOk(c, Author!NoOptions) <=> Holds(c)
  <1>1. /\ Author!NoOptions.outerEnvelope = Absent
        /\ [Options EXCEPT !.allowlist = {}].outerEnvelope = Absent
    BY DEF Author!NoOptions, Options
  <1>2. OuterOk(c, Author!NoOptions) /\ OuterOk(c, [Options EXCEPT !.allowlist = {}])
    BY <1>1 DEF OuterOk
  <1>3. Author!VerifyOk(c, Author!NoOptions) <=> VerifyOk(c, Author!NoOptions)
    BY OneVerifier, Zenon
  <1> QED BY <1>2, <1>3 DEF VerifyOk, Holds

(* What a refusal of the predecessor says of it. *)
LEMMA WhatARefusalSays ==
    ASSUME NEW c, NEW override, NEW refusal,
           refusal = Author!PredecessorRefusal(c, override)
    PROVE  /\ refusal = "none" =>
                  OpenGate(c) = "pass" /\ ~Author!IsEncrypted(c) /\ (override \/ Holds(c))
           /\ refusal \in {"verification_failed", "unsupported_version"} => ~Holds(c)
  <1>1. Author!OpenGate(c) = OpenGate(c)
    BY OneReader
  <1>2. Author!VerifyOk(c, Author!NoOptions) <=> Holds(c)
    BY HoldsForTheBuilder
  <1>3. Holds(c) => OpenGate(c) = "pass"
    BY DEF Holds, VerifyOk, Gate
  <1>4. CASE OpenGate(c) # "pass"
    <2>1. refusal # "none"
      BY <1>1, <1>4 DEF Author!PredecessorRefusal
    <2> QED BY <1>3, <1>4, <2>1
  <1>5. CASE OpenGate(c) = "pass" /\ Author!IsEncrypted(c)
    <2>1. refusal # "none"
      BY <1>1, <1>5 DEF Author!PredecessorRefusal
    <2>2. Holds(c) => refusal = "encrypted_predecessor"
      BY <1>1, <1>2, <1>5 DEF Author!PredecessorRefusal
    <2> QED BY <2>1, <2>2
  <1>6. CASE OpenGate(c) = "pass" /\ ~Author!IsEncrypted(c) /\ ~Holds(c) /\ ~override
    <2>1. refusal = "verification_failed"
      BY <1>1, <1>2, <1>6 DEF Author!PredecessorRefusal
    <2> QED BY <1>6, <2>1
  <1>7. CASE OpenGate(c) = "pass" /\ ~Author!IsEncrypted(c) /\ (Holds(c) \/ override)
    <2>1. refusal = "none"
      BY <1>1, <1>2, <1>7 DEF Author!PredecessorRefusal
    <2> QED BY <1>7, <2>1
  <1> QED BY <1>4, <1>5, <1>6, <1>7

-----------------------------------------------------------------------------
(* The files a rewrap leaves alone *)

Steps == {"called", "checked", "keyed", "opened", "filled", "sealed", "refused", "ended"}

(* The command has looked at the output path and has not written to it. *)
Looked == step \in {"checked", "keyed", "opened", "filled", "sealed", "refused"}

FilesKept ==
    /\ step \in Steps
    /\ Running => rewrapExit = Null
    /\ ~rewrap.force /\ found # Null =>
           step = "refused" /\ OnDisk(rewrap.out) /\ FileAt(rewrap.out) = found
    /\ Looked /\ OnDisk(rewrap.out) => FileAt(rewrap.out) \in Strangers \cup {found}
    /\ rewrapExit = 1 => ~(IsCapsule(predecessor) /\ Holds(predecessor))
    /\ step \in {"filled", "sealed"} \/ rewrapExit = 0 =>
           rewrap.allowInvalid \/ Holds(predecessor)

FilesInv == rewrap # Null /\ ~ArgumentsMissing => FilesKept

(* One file written, the others are what they were. *)
LEMMA PutFile ==
    ASSUME NEW content, Put(content)
    PROVE  /\ DOMAIN stored' = DOMAIN stored \cup {rewrap.out}
           /\ stored'[rewrap.out] = content
           /\ \A p \in DOMAIN stored : p # rewrap.out => stored'[p] = stored[p]
           /\ UNCHANGED verifyVarsButFiles
  BY DEF Put, Over, File

(* The call, and so what holds, is the same throughout. *)
LEMMA CallStays ==
    ASSUME [RewrapNext]_allVars
    PROVE  /\ UNCHANGED <<call, rewrap>>
           /\ \A c : Holds(c)' <=> Holds(c)
  <1>1. UNCHANGED call
    BY RewrapStep DEF Next, RefuseArguments, ReadSubject, FileMissing, Fail, ReadPredecessor,
                      StartVerification, WalkStep, Report, verifyVarsButFiles
  <1>2. UNCHANGED rewrap
    BY DEF RewrapNext, allVars, rewrapVars, CheckArguments, CheckOutput, ReadKey,
           OpenPredecessor, RefusePredecessor, RefuseArgument, ContinueFromPredecessor,
           SealSuccessor, WriteOutput, WriteTorn, Kill, CreatedMeanwhile, Verify
  <1>3. Options' = Options
    BY <1>1 DEF Options
  <1> QED BY <1>1, <1>2, <1>3 DEF Holds

(* What a verification step leaves of the files. *)
LEMMA VerifyKeepsFiles ==
    ASSUME Next
    PROVE  UNCHANGED <<stored, call>>
  BY DEF Next, RefuseArguments, ReadSubject, FileMissing, Fail, ReadPredecessor,
         StartVerification, WalkStep, Report

(* Every step keeps the files: before the write, only another process writes. *)
LEMMA FilesInvNext ==
    ASSUME FilesInv, [RewrapNext]_allVars
    PROVE  FilesInv'
  <1> SUFFICES ASSUME rewrap' # Null, ~ArgumentsMissing' PROVE FilesKept'
    BY DEF FilesInv
  <1>1. UNCHANGED <<call, rewrap>> /\ \A c : Holds(c)' <=> Holds(c)
    BY CallStays
  <1>2. rewrap # Null /\ ~ArgumentsMissing /\ FilesKept
    BY <1>1 DEF FilesInv, ArgumentsMissing
  <1>3. Null # 0 /\ Null # 1
    BY NullAssumption
  <1>4. CASE UNCHANGED <<stored, step, found, predecessor, rewrapExit>>
    BY <1>1, <1>2, <1>4
    DEF FilesKept, Looked, Running, OnDisk, FileAt, IsCapsule
  <1>5. CASE CheckArguments
    BY <1>2, <1>5 DEF CheckArguments
  <1>6. CASE CheckOutput
    BY <1>1, <1>2, <1>3, <1>6
    DEF FilesKept, Looked, Running, OnDisk, FileAt, CheckOutput, Refuse, verifyVars, vars, Steps
  <1>7. CASE ReadKey
    BY <1>1, <1>2, <1>3, <1>7
    DEF FilesKept, Looked, Running, OnDisk, FileAt, ReadKey, Refuse, verifyVars, vars, Steps
  <1>8. CASE OpenPredecessor
    <2>1. UnknownEra(predecessor') => ~Holds(predecessor')
      BY DEF UnknownEra, Holds, VerifyOk, Gate
    <2> QED BY <1>1, <1>2, <1>3, <1>8, <2>1
        DEF FilesKept, Looked, Running, OnDisk, FileAt, OpenPredecessor, Refuse, verifyVars, vars, Steps
  <1>9. CASE RefusePredecessor
    <2>1. RefusalCode(Refusal) = 1 => ~Holds(predecessor)
      BY WhatARefusalSays DEF RefusalCode, Refusal
    <2>2. RefusalCode(Refusal) \in {1, 2}
      BY DEF RefusalCode
    <2> QED BY <1>1, <1>2, <1>3, <1>9, <2>1, <2>2
        DEF FilesKept, Looked, Running, OnDisk, FileAt, RefusePredecessor, Refuse, verifyVars,
            vars, Steps, IsCapsule
  <1>10. CASE RefuseArgument
    BY <1>1, <1>2, <1>3, <1>10
    DEF FilesKept, Looked, Running, OnDisk, FileAt, RefuseArgument, Refuse, verifyVars, vars, Steps
  <1>11. CASE ContinueFromPredecessor
    <2>1. rewrap.allowInvalid \/ Holds(predecessor)
      BY <1>11, WhatARefusalSays DEF ContinueFromPredecessor, Author!ContinueFrom
    <2> QED BY <1>1, <1>2, <1>3, <1>11, <2>1
        DEF FilesKept, Looked, Running, OnDisk, FileAt, ContinueFromPredecessor, verifyVars, vars, Steps
  <1>12. CASE SealSuccessor
    BY <1>1, <1>2, <1>3, <1>12
    DEF FilesKept, Looked, Running, OnDisk, FileAt, SealSuccessor, verifyVars, vars, Steps
  <1>13. CASE WriteOutput \/ WriteTorn
    BY <1>1, <1>2, <1>3, <1>13
    DEF FilesKept, Looked, Running, WriteOutput, WriteTorn, Steps
  <1>14. CASE Kill
    BY <1>1, <1>2, <1>3, <1>14
    DEF FilesKept, Looked, Running, Kill, Steps
  <1>15. CASE CreatedMeanwhile
    <2>1. PICK content \in Strangers : Put(content)
      BY <1>15 DEF CreatedMeanwhile
    <2>2. stored'[rewrap.out] \in Strangers
      BY <2>1, PutFile
    <2> QED BY <1>1, <1>2, <1>3, <1>15, <2>2
        DEF FilesKept, Looked, Running, OnDisk, FileAt, CreatedMeanwhile, rewrapVars, Steps, IsCapsule
  <1>16. CASE Verify
    BY <1>4, <1>16, VerifyKeepsFiles DEF Verify, rewrapVars
  <1>17. CASE UNCHANGED allVars
    BY <1>4, <1>17 DEF allVars, vars, rewrapVars
  <1> QED
    BY <1>5, <1>6, <1>7, <1>8, <1>9, <1>10, <1>11, <1>12, <1>13, <1>14, <1>15, <1>16, <1>17
    DEF RewrapNext

(* A refused rewrap leaves the output path alone, exit 1 is never said of an  *)
(* artifact that holds, and only the override makes a successor of another.   *)
THEOREM RewrapKeepsTheFiles == RewrapSpec => []RewrapKeepsFiles
  <1>1. RewrapInit => FilesInv
    <2> SUFFICES ASSUME RewrapInit, rewrap # Null PROVE FilesKept
      BY DEF FilesInv
    <2>1. step = "called" /\ found = Null /\ rewrapExit = Null
      BY DEF RewrapInit
    <2>2. Null # 0 /\ Null # 1
      BY NullAssumption
    <2> QED BY <2>1, <2>2 DEF FilesKept, Looked, Steps
  <1>2. FilesInv /\ [RewrapNext]_allVars => FilesInv'
    BY FilesInvNext
  <1>3. FilesInv => RewrapKeepsFiles
    BY DEF FilesInv, FilesKept, Looked, RewrapKeepsFiles
  <1> QED BY <1>1, <1>2, <1>3, PTL DEF RewrapSpec

-----------------------------------------------------------------------------
(* What is sealed from what a rewrap was given *)

(* JSON values the code tells apart: what the builder computes is none of the *)
(* placeholders, and what it seals is not a file that is no capsule.          *)
Apart ==
    /\ Proved!Placeholders
    /\ \A e : <<e>> # Absent
    /\ \A a, b, c, d : [manifest |-> a, envelope |-> b, signers |-> c, files |-> d] # NotACapsule

SignersOf(key) == <<[role |-> "originator", public_key |-> key]>>

(* continueFrom has filled the builder from the artifact it was given. *)
Filled ==
    /\ originator = rewrap.key
    /\ ParticipantsWellFormed(participants)
    /\ predecessors = <<Author!DerivePredecessorEntry(predecessor)>>
    /\ PredecessorsWellFormed(predecessors)
    /\ BlobPath \notin DOMAIN carried
    /\ IsSeq(bareEvents)
    /\ \A i \in DOMAIN bareEvents :
           /\ bareEvents[i].kind \in EventKinds
           /\ ActorAllowed(bareEvents[i].actor, participants)

(* c is a successor of p: it holds and declares p, as p says it is. *)
SuccessorOf(c, p) ==
    /\ IsCapsule(c) /\ Holds(c) /\ OpenGate(c) = "pass"
    /\ c.manifest.predecessors = <<Author!DerivePredecessorEntry(p)>>
    /\ Declares(c)

(* What it seals. *)
LEMMA OneBuilder ==
    ASSUME NEW time, NEW signers
    PROVE  Author!PlainArtifact(Author!SealEvents(time), signers, time, Author!LineageMember)
               = Proved!PlainArtifact(Proved!SealEvents(time), signers, time,
                                      Proved!LineageMember)
  <1>1. Author!SealEvents(time) = Proved!SealEvents(time)
    BY DEF Author!SealEvents, Proved!SealEvents, Author!Backstop, Proved!Backstop,
           Author!BareEvent, Proved!BareEvent, Author!DefaultTarget, Proved!DefaultTarget,
           Author!HostActor, Proved!HostActor
  <1>2. Author!LineageMember = Proved!LineageMember
    BY DEF Author!LineageMember, Proved!LineageMember
  <1>3. \A bare : Author!BuildChainEvents(bare) = Proved!BuildChainEvents(bare)
    BY DEF Author!BuildChainEvents, Proved!BuildChainEvents, Author!BuildHash,
           Proved!BuildHash, Author!HashEvent, Proved!HashEvent, Author!GenesisPrev,
           Proved!GenesisPrev
  <1>4. \A events : Author!InnerFiles(events) = Proved!InnerFiles(events)
    BY DEF Author!InnerFiles, Proved!InnerFiles, Author!Over, Proved!Over, Author!File,
           Proved!File, Author!ChainPath, Proved!ChainPath, Author!Jsonl, Proved!Jsonl,
           Author!ProgramPath, Proved!ProgramPath, Author!Text, Proved!Text
  <1>5. \A events : Author!FirstEventHash(events) = Proved!FirstEventHash(events)
    BY DEF Author!FirstEventHash, Proved!FirstEventHash, Author!GenesisPrev, Proved!GenesisPrev
  <1>6. \A events : Author!EntryHash(events) = Proved!EntryHash(events)
    BY DEF Author!EntryHash, Proved!EntryHash, Author!GenesisPrev, Proved!GenesisPrev
  <1>7. \A k, first, version : Author!ComputeCapsuleId(k, first, version)
                                   = Proved!ComputeCapsuleId(k, first, version)
    BY DEF Author!ComputeCapsuleId, Proved!ComputeCapsuleId
  <1>8. \A files, cipher : Author!SealedIndex(files, cipher) = Proved!SealedIndex(files, cipher)
    BY DEF Author!SealedIndex, Proved!SealedIndex, Author!BuildContentIndex,
           Proved!BuildContentIndex, Author!FileHash, Proved!FileHash,
           Author!ContentIndexExclusions, Proved!ContentIndexExclusions, Author!BlobPath,
           Proved!BlobPath
  <1>9. /\ Author!CurrentVersion = Proved!CurrentVersion
        /\ Author!BuildSignerCommitment(signers) = Proved!BuildSignerCommitment(signers)
    BY DEF Author!CurrentVersion, Proved!CurrentVersion, Author!BuildSignerCommitment,
           Proved!BuildSignerCommitment, Author!Members, Proved!Members
  <1>10. \A id, key, members, first, index, encryption, commitment, cites :
             Author!BuildManifest(id, key, members, first, index, encryption, commitment, cites)
                 = Proved!BuildManifest(id, key, members, first, index, encryption,
                                        commitment, cites)
    BY DEF Author!BuildManifest, Proved!BuildManifest, Author!CurrentVersion,
           Proved!CurrentVersion
  <1>11. \A id, first, entry, hash, index, blob, cipher :
             Author!BuildEnvelope(id, first, entry, hash, index, blob, cipher, time)
                 = Proved!BuildEnvelope(id, first, entry, hash, index, blob, cipher, time)
    BY DEF Author!BuildEnvelope, Proved!BuildEnvelope, Author!CurrentVersion,
           Proved!CurrentVersion
  <1>12. \A manifest : Author!ManifestHash(manifest) = Proved!ManifestHash(manifest)
    BY DEF Author!ManifestHash, Proved!ManifestHash
  <1>13. \A envelope : Author!SignEnvelope(envelope, signers)
                           = Proved!SignEnvelope(envelope, signers)
    BY DEF Author!SignEnvelope, Proved!SignEnvelope, Author!Sign, Proved!Sign
  <1>14. \A files, events, cites :
             Author!SealArtifact(files, events, signers, time, Null, "none", Null, cites)
                 = Proved!SealArtifact(files, events, signers, time, Null, "none", Null, cites)
    BY <1>5, <1>6, <1>7, <1>8, <1>9, <1>10, <1>11, <1>12, <1>13
       DEF Author!SealArtifact, Proved!SealArtifact
  <1> QED BY <1>1, <1>2, <1>3, <1>4, <1>14 DEF Author!PlainArtifact, Proved!PlainArtifact

(* What seal() makes of the filled builder. *)
LEMMA SealedSuccessor ==
    ASSUME Apart, Filled, rewrap.key \in Keys, NEW time, NEW c,
           c = Author!PlainArtifact(Author!SealEvents(time), SignersOf(rewrap.key), time,
                                    Author!LineageMember)
    PROVE  SuccessorOf(c, predecessor)
  <1> DEFINE bare == Proved!SealEvents(time)
             events == Proved!BuildChainEvents(bare)
             signers == SignersOf(rewrap.key)
             lineage == Proved!LineageMember
             member == [role |-> "originator", public_key |-> rewrap.key]
  <1>1. c = Proved!PlainArtifact(bare, signers, time, lineage)
    BY OneBuilder
  <1>2. Proved!Bare(bareEvents)
    BY DEF Filled, Proved!Bare, IsSeq, Proved!IsSeq, Proved!EventKinds, EventKinds
  <1>3. Proved!Bare(bare) /\ bare # <<>>
    BY <1>2, Proved!BackstopIsBare
  <1>4. Proved!IsSeq(signers) /\ DOMAIN signers = {1} /\ signers[1] = member
    BY DEF SignersOf, Proved!IsSeq
  <1>5. Proved!Signing(signers)
    BY <1>4 DEF Proved!Signing, Proved!HasDuplicateMember
  <1>6. lineage = predecessors /\ PredecessorsWellFormed(lineage)
    BY DEF Filled, Proved!LineageMember, PredecessorsWellFormed
  <1>7. Proved!Declared(lineage)
    <2>1. Proved!PredecessorsWellFormed(lineage) <=> PredecessorsWellFormed(lineage)
      BY Zenon
      DEF Proved!PredecessorsWellFormed, PredecessorsWellFormed, Proved!IsArray, IsArray,
          Proved!ClassifyVersion, ClassifyVersion, Proved!KnownVersions, KnownVersions,
          Proved!NullCoherent, NullCoherent, Proved!IdentityCoherent, IdentityCoherent,
          Proved!ComputeCapsuleId, ComputeCapsuleId
    <2> QED BY <1>6, <2>1 DEF Proved!Declared
  <1>8. Proved!ClearInv
    BY DEF Filled, Proved!ClearInv, Proved!BlobPath, BlobPath
  <1>9. originator \in Keys /\ Proved!ParticipantsWellFormed(participants) /\ Proved!Placeholders
    BY DEF Filled, Apart, Proved!ParticipantsWellFormed, ParticipantsWellFormed
  <1> HIDE DEF bare, lineage, signers
  <1>10. /\ Proved!OpenGate(c) = "pass"
         /\ Proved!Events(c) = events
         /\ c.manifest.predecessors = lineage
         /\ \A options :
                Proved!VerifyOk(c, options)
                    <=> /\ Proved!OriginatorSigned(c) /\ Proved!ActorsCovered(c)
                        /\ Proved!OuterOk(c, options)
    BY <1>1, <1>3, <1>5, <1>7, <1>8, <1>9, Proved!PlainVerifies
  <1> DEFINE d == Proved!PlainArtifact(bare, signers, time, lineage)
  <1>11. /\ d = [manifest |-> d.manifest, envelope |-> d.envelope,
                 signers |-> d.signers, files |-> d.files]
         /\ d.manifest.version = "0.7" /\ d.manifest.originator = originator
         /\ d.manifest.participants = participants
         /\ d.signers = Proved!SignEnvelope(d.envelope, signers)
    BY DEF Proved!PlainArtifact, Proved!SealArtifact, Proved!BuildManifest,
           Proved!BuildEnvelope, Proved!CurrentVersion
  <1> HIDE DEF d
  <1>12. /\ c # NotACapsule
         /\ c.manifest.version = "0.7" /\ c.manifest.originator = originator
         /\ c.manifest.participants = participants
         /\ c.signers = Proved!SignEnvelope(c.envelope, signers)
    BY <1>1, <1>11 DEF Apart, d
  <1>13. Proved!OriginatorSigned(c)
    <2>1. Proved!Members(c.signers) = Proved!Members(signers)
      BY <1>4, <1>12, Proved!SignedRows
    <2>2. <<"originator", originator>> \in Proved!Members(signers)
      BY <1>4 DEF Proved!Members, Filled
    <2> QED BY <1>12, <2>1, <2>2 DEF Proved!OriginatorSigned
  <1>14. Proved!ActorsCovered(c)
    <2>1. \A i \in DOMAIN bare : Proved!ActorAllowed(bare[i].actor, participants)
      <3>1. CASE bareEvents = <<>>
        <4>1. bare = <<Proved!Backstop(time)>>
          BY <3>1 DEF bare, Proved!SealEvents
        <4>2. Proved!Backstop(time).actor = Proved!HostActor
          BY DEF Proved!Backstop, Proved!BareEvent
        <4> QED BY <4>1, <4>2 DEF Proved!ActorAllowed
      <3>2. CASE bareEvents # <<>>
        BY <3>2 DEF bare, Proved!SealEvents, Filled, ActorAllowed, Proved!ActorAllowed,
                    HostActor, Proved!HostActor
      <3> QED BY <3>1, <3>2
    <2>2. DOMAIN events = DOMAIN bare /\ \A i \in DOMAIN bare : events[i].bare = bare[i]
      BY DEF Proved!BuildChainEvents
    <2> QED BY <1>10, <1>12, <2>1, <2>2 DEF Proved!ActorsCovered
  <1>15. Holds(c)
    <2> DEFINE o == [Options EXCEPT !.allowlist = {}]
    <2>1. Proved!OuterOk(c, o)
      BY DEF Options, Proved!OuterOk
    <2>2. Proved!VerifyOk(c, o)
      BY <1>10, <1>13, <1>14, <2>1
    <2> QED BY <2>2, OneVerifier, Zenon DEF Holds
  <1>16. OpenGate(c) = "pass"
    BY <1>10, OneReader
  <1>17. Declares(c)
    BY <1>6, <1>10, <1>12 DEF Declares, Filled, Apart, LineageEras
  <1> QED
    BY <1>6, <1>10, <1>12, <1>15, <1>16, <1>17 DEF SuccessorOf, IsCapsule, Filled

-----------------------------------------------------------------------------
(* The rewrap, up to the file it leaves *)

(* The verification that follows has not begun. *)
Fresh ==
    /\ phase = "called" /\ subject = Null /\ supplied = <<>>
    /\ pool = <<>> /\ entries = <<>> /\ assigned = {} /\ cursor = 1 /\ ~done

(* The artifact the command continues from, which nobody but it overwrites. *)
TakenUp ==
    /\ IsCapsule(predecessor) /\ predecessor \in Contents
    /\ rewrap.file # rewrap.out => OnDisk(rewrap.file) /\ FileAt(rewrap.file) = predecessor

Handed ==
    /\ rewrap \in Rewraps /\ call \in FollowUps(rewrap)
    /\ step \in Steps
    /\ Running => Fresh /\ rewrapExit = Null /\ \A p \in DOMAIN stored : stored[p] \in Contents
    /\ step \in {"called", "checked", "keyed", "opened", "filled"} => sealed = <<>>
    /\ step \in {"opened", "filled", "sealed"} \/ rewrapExit = 0 => TakenUp
    /\ step \in {"filled", "sealed"} \/ rewrapExit = 0 =>
           OpenGate(predecessor) = "pass" /\ ~Author!IsEncrypted(predecessor)
    /\ step \in {"keyed", "opened", "filled"} => rewrap.key \in Keys
    /\ step = "filled" => Filled
    /\ step = "sealed" => SuccessorOf(Successor, predecessor)
    /\ rewrapExit = 0 => /\ step = "ended"
                         /\ OnDisk(rewrap.out) /\ SuccessorOf(FileAt(rewrap.out), predecessor)

HandedInv == rewrap # Null /\ ~ArgumentsMissing => Handed

(* continueFrom fills the builder. *)
LEMMA BuilderFilled ==
    ASSUME ContinueFromPredecessor
    PROVE  /\ Filled' /\ UNCHANGED sealed
           /\ OpenGate(predecessor) = "pass" /\ ~Author!IsEncrypted(predecessor)
  <1> DEFINE entry == Author!DerivePredecessorEntry(predecessor)
  <1>1. /\ Author!PredecessorRefusal(predecessor, rewrap.allowInvalid) = "none"
        /\ Author!ParticipantsWellFormed(rewrap.participants)
        /\ Author!PredecessorsWellFormed(<<entry>>)
        /\ originator' = rewrap.key
        /\ participants' = rewrap.participants
        /\ predecessors' = <<entry>>
        /\ carried' = [p \in Author!CarriablePaths(predecessor) |-> predecessor.files[p]]
        /\ rewrap.custodyActor # Null =>
               Author!ActorAllowed(rewrap.custodyActor, rewrap.participants)
        /\ bareEvents' = IF rewrap.custodyActor = Null THEN <<>>
                         ELSE <<Author!CustodyEvent(rewrap.custodyActor, entry.capsule_id,
                                                    rewrap.time)>>
        /\ sealed' = sealed
    BY DEF ContinueFromPredecessor, Author!ContinueFrom
  <1>2. entry' = entry /\ UNCHANGED rewrap
    BY DEF ContinueFromPredecessor
  <1> HIDE DEF entry
  <1>3. ParticipantsWellFormed(participants')
    BY <1>1 DEF ParticipantsWellFormed, Author!ParticipantsWellFormed
  <1>4. PredecessorsWellFormed(<<entry>>)
    BY <1>1, Zenon
    DEF Author!PredecessorsWellFormed, PredecessorsWellFormed, Author!IsArray, IsArray,
        Author!ClassifyVersion, ClassifyVersion, Author!KnownVersions, KnownVersions,
        Author!NullCoherent, NullCoherent, Author!IdentityCoherent, IdentityCoherent,
        Author!ComputeCapsuleId, ComputeCapsuleId
  <1>5. BlobPath \notin DOMAIN carried'
    BY <1>1 DEF Author!CarriablePaths, Author!IsCarriablePath, Author!BlobPath, BlobPath
  <1>6. /\ IsSeq(bareEvents')
        /\ \A i \in DOMAIN bareEvents' :
               /\ bareEvents'[i].kind \in EventKinds
               /\ ActorAllowed(bareEvents'[i].actor, participants')
    <2>1. CASE rewrap.custodyActor = Null
      BY <1>1, <2>1 DEF IsSeq
    <2>2. CASE rewrap.custodyActor # Null
      <3> DEFINE e == Author!CustodyEvent(rewrap.custodyActor, entry.capsule_id, rewrap.time)
      <3>1. e.kind = "observation" /\ e.actor = rewrap.custodyActor
        BY DEF Author!CustodyEvent, Author!BareEvent
      <3>2. bareEvents' = <<e>>
        BY <1>1, <2>2
      <3> HIDE DEF e
      <3>3. ActorAllowed(e.actor, participants')
        BY <1>1, <2>2, <3>1 DEF ActorAllowed, Author!ActorAllowed, HostActor, Author!HostActor
      <3>4. e.kind \in EventKinds
        BY <3>1 DEF EventKinds
      <3>5. IsSeq(<<e>>) /\ DOMAIN <<e>> = {1} /\ <<e>>[1] = e
        BY DEF IsSeq
      <3> QED BY <3>2, <3>3, <3>4, <3>5
    <2> QED BY <2>1, <2>2
  <1>7. OpenGate(predecessor) = "pass" /\ ~Author!IsEncrypted(predecessor)
    BY <1>1, WhatARefusalSays
  <1> QED BY <1>1, <1>2, <1>3, <1>4, <1>5, <1>6, <1>7 DEF Filled, entry

(* seal() issues a successor. *)
LEMMA SuccessorSealed ==
    ASSUME Apart, Filled, rewrap.key \in Keys, sealed = <<>>, SealSuccessor
    PROVE  SuccessorOf(Successor', predecessor)
  <1> DEFINE c == Author!PlainArtifact(Author!SealEvents(rewrap.time), SignersOf(rewrap.key),
                                       rewrap.time, Author!LineageMember)
             seal == [outer |-> c, inner |-> Null, recipients |-> {},
                      builder |-> IF originator = Null THEN 0 ELSE 1]
  <1>1. sealed' = Append(sealed, seal)
    BY DEF SealSuccessor, Author!SealPlain, Author!Issue, SignersOf
  <1>2. seal.outer = c
    OBVIOUS
  <1>3. SuccessorOf(c, predecessor)
    BY SealedSuccessor
  <1> HIDE DEF c, seal
  <1>4. sealed'[1] = seal
    BY <1>1
  <1> QED BY <1>2, <1>3, <1>4 DEF Successor

(* Every step of the hand-off keeps what the rewrap was given and has made. *)
LEMMA HandedNext ==
    ASSUME Apart, HandedInv, [RewrapNext]_allVars
    PROVE  HandedInv'
  <1> SUFFICES ASSUME rewrap' # Null, ~ArgumentsMissing' PROVE Handed'
    BY DEF HandedInv
  <1>1. UNCHANGED <<call, rewrap>> /\ \A c : Holds(c)' <=> Holds(c)
    BY CallStays
  <1>2. rewrap # Null /\ ~ArgumentsMissing /\ Handed
    BY <1>1 DEF HandedInv, ArgumentsMissing
  <1>3. Null # 0 /\ Null # 1 /\ Null # 2
    BY NullAssumption
  <1>4. CASE UNCHANGED <<stored, step, predecessor, rewrapExit, sealed>>
             /\ (Running => UNCHANGED verifyVars)
             /\ UNCHANGED builderVars
    <2>1. Running' = Running /\ (Running => (Fresh => Fresh'))
      BY <1>4 DEF Running, Fresh, verifyVars, vars, walkVars
    <2>2. Filled => Filled'
      BY <1>1, <1>4 DEF Filled, builderVars
    <2> QED BY <1>1, <1>2, <1>4, <2>1, <2>2
        DEF Handed, TakenUp, SuccessorOf, Successor, OnDisk, FileAt
  <1>5. CASE CheckArguments
    BY <1>2, <1>5 DEF CheckArguments
  <1>6. ASSUME UNCHANGED verifyVars, UNCHANGED builderVars, Running, step' = "refused",
               rewrapExit' \in {1, 2}
        PROVE  Handed'
    BY <1>1, <1>2, <1>6 DEF Handed, Running, Steps
  <1>7. ASSUME UNCHANGED verifyVars, UNCHANGED builderVars, UNCHANGED rewrapExit, Running,
               step' \in {"checked", "keyed"}, step # "sealed",
               step' = "keyed" => rewrap.key \in Keys
        PROVE  Handed'
    <2>1. Fresh' /\ UNCHANGED <<stored, sealed>>
      BY <1>2, <1>7 DEF Handed, Fresh, verifyVars, vars, walkVars, builderVars
    <2> QED BY <1>1, <1>2, <1>3, <1>7, <2>1 DEF Handed, Running, Steps
  <1>8. CASE CheckOutput \/ ReadKey
    <2>1. rewrap.key \notin {Absent, Malformed} => rewrap.key \in Keys
      BY <1>2, KeyAssumption DEF Handed, ArgumentsMissing
    <2> QED BY <1>2, <1>6, <1>7, <1>8, <2>1 DEF CheckOutput, ReadKey, Refuse, Running
  <1>9. CASE OpenPredecessor
    <2>1. CASE step' = "refused"
      BY <1>6, <1>9, <2>1 DEF OpenPredecessor, Refuse, Running
    <2>2. CASE step' # "refused"
      <3>1. /\ OnDisk(rewrap.file) /\ predecessor' = FileAt(rewrap.file)
            /\ IsCapsule(predecessor')
            /\ step = "keyed" /\ step' = "opened"
            /\ UNCHANGED <<stored, rewrapExit, sealed>>
        BY <1>9, <2>2 DEF OpenPredecessor, Refuse, verifyVars, vars, builderVars
      <3>2. Fresh'
        BY <1>2, <1>9, <3>1 DEF Handed, Running, Fresh, OpenPredecessor, verifyVars, vars, walkVars
      <3>3. TakenUp'
        BY <1>1, <1>2, <3>1 DEF Handed, Running, TakenUp, OnDisk, FileAt, Contents, IsCapsule
      <3> QED BY <1>1, <1>2, <1>3, <3>1, <3>2, <3>3 DEF Handed, Running, Steps
    <2> QED BY <2>1, <2>2
  <1>10. CASE RefusePredecessor \/ RefuseArgument
    <2>1. RefusalCode(Refusal) \in {1, 2}
      BY DEF RefusalCode
    <2> QED BY <1>6, <1>10, <2>1 DEF RefusePredecessor, RefuseArgument, Refuse, Running
  <1>11. CASE ContinueFromPredecessor
    <2>1. /\ step = "opened" /\ step' = "filled"
          /\ UNCHANGED <<stored, predecessor, rewrapExit>>
      BY <1>11 DEF ContinueFromPredecessor, verifyVars, vars
    <2>2. /\ Filled' /\ UNCHANGED sealed
          /\ OpenGate(predecessor) = "pass" /\ ~Author!IsEncrypted(predecessor)
      BY <1>11, BuilderFilled
    <2>3. Fresh'
      BY <1>2, <1>11, <2>1
      DEF Handed, Running, Fresh, ContinueFromPredecessor, verifyVars, vars, walkVars
    <2>4. TakenUp'
      BY <1>1, <1>2, <2>1 DEF Handed, TakenUp, OnDisk, FileAt
    <2>5. rewrap.key \in Keys
      BY <1>2, <2>1 DEF Handed
    <2> QED BY <1>1, <1>2, <1>3, <2>1, <2>2, <2>3, <2>4, <2>5 DEF Handed, Running, Steps
  <1>12. CASE SealSuccessor
    <2>1. /\ step = "filled" /\ step' = "sealed"
          /\ UNCHANGED <<stored, predecessor, rewrapExit>>
      BY <1>12 DEF SealSuccessor, verifyVars, vars
    <2>2. SuccessorOf(Successor', predecessor)
      BY <1>2, <1>12, <2>1, SuccessorSealed DEF Handed
    <2>3. SuccessorOf(Successor, predecessor)'
      BY <1>1, <2>1, <2>2 DEF SuccessorOf, Successor
    <2>4. Fresh'
      BY <1>2, <1>12, <2>1 DEF Handed, Running, Fresh, SealSuccessor, verifyVars, vars, walkVars
    <2>5. TakenUp'
      BY <1>1, <1>2, <2>1 DEF Handed, TakenUp, OnDisk, FileAt
    <2> QED BY <1>1, <1>2, <1>3, <2>1, <2>3, <2>4, <2>5 DEF Handed, Running, Steps
  <1>13. CASE WriteOutput
    <2>1. /\ Put(Successor) /\ step = "sealed" /\ step' = "ended" /\ rewrapExit' = 0
          /\ UNCHANGED predecessor
      BY <1>13 DEF WriteOutput
    <2>2. OnDisk(rewrap.out)' /\ FileAt(rewrap.out)' = Successor
      BY <1>1, <2>1, PutFile DEF OnDisk, FileAt
    <2>3. SuccessorOf(FileAt(rewrap.out), predecessor)'
      BY <1>1, <1>2, <2>1, <2>2 DEF Handed, SuccessorOf, FileAt
    <2>4. TakenUp'
      BY <1>1, <1>2, <2>1, PutFile DEF Handed, TakenUp, OnDisk, FileAt
    <2> QED BY <1>1, <1>2, <2>1, <2>2, <2>3, <2>4 DEF Handed, Running, Steps
  <1>14. CASE WriteTorn
    <2>1. step' = "ended" /\ rewrapExit' # 0
      BY <1>3, <1>14 DEF WriteTorn
    <2> QED BY <1>1, <1>2, <2>1 DEF Handed, Running, Steps
  <1>15. CASE Kill
    <2>1. step' = "ended" /\ rewrapExit' = Null
      BY <1>2, <1>15 DEF Kill, Handed
    <2> QED BY <1>1, <1>2, <1>3, <2>1 DEF Handed, Running, Steps
  <1>16. CASE CreatedMeanwhile
    <2>1. PICK content \in Strangers : Put(content)
      BY <1>16 DEF CreatedMeanwhile
    <2>2. /\ ~OnDisk(rewrap.out) /\ Running
          /\ UNCHANGED <<step, predecessor, rewrapExit, sealed, builderVars>>
      BY <1>16 DEF CreatedMeanwhile, rewrapVars, builderVars, Running
    <2>3. Fresh'
      BY <1>2, <2>1, <2>2, PutFile DEF Handed, Fresh, verifyVarsButFiles, walkVars
    <2>4. \A p \in DOMAIN stored' : stored'[p] \in Contents
      BY <1>2, <2>1, <2>2, PutFile DEF Handed, Contents
    <2>5. TakenUp => TakenUp'
      BY <1>1, <2>1, <2>2, PutFile DEF TakenUp, OnDisk, FileAt
    <2>6. Filled => Filled'
      BY <1>1, <2>2 DEF Filled, builderVars
    <2>7. SuccessorOf(Successor, predecessor) => SuccessorOf(Successor, predecessor)'
      BY <1>1, <2>2 DEF SuccessorOf, Successor
    <2> QED BY <1>1, <1>2, <1>3, <2>2, <2>3, <2>4, <2>5, <2>6, <2>7 DEF Handed, Running
  <1>17. CASE Verify
    <2>1. UNCHANGED <<stored, call>> /\ ~Running
      BY <1>17, VerifyKeepsFiles DEF Verify
    <2> QED BY <1>4, <1>17, <2>1 DEF Verify, rewrapVars, builderVars
  <1>18. CASE UNCHANGED allVars
    BY <1>4, <1>18 DEF allVars, verifyVars, vars, rewrapVars, builderVars
  <1> QED
    BY <1>5, <1>8, <1>9, <1>10, <1>11, <1>12, <1>13, <1>14, <1>15, <1>16, <1>17, <1>18
    DEF RewrapNext

(* A rewrap begins with the files as they are, and nothing read or sealed. *)
LEMMA HandedInit ==
    ASSUME RewrapInit
    PROVE  HandedInv
  <1> SUFFICES ASSUME rewrap # Null PROVE Handed
    BY DEF HandedInv
  <1>1. /\ rewrap \in Rewraps /\ call \in FollowUps(rewrap)
        /\ step = "called" /\ rewrapExit = Null /\ sealed = <<>>
        /\ Called({rewrap.file, rewrap.out} \ {Null})
    BY DEF RewrapInit
  <1>2. Fresh
    BY <1>1 DEF Called, Fresh
  <1>3. \A p \in DOMAIN stored : stored[p] \in Contents
    BY <1>1 DEF Called, FilesAt, Contents
  <1>4. Null # 0
    BY NullAssumption
  <1> QED BY <1>1, <1>2, <1>3, <1>4 DEF Handed, Steps

(* What the rewrap leaves, in every state. *)
LEMMA HandedInvariant ==
    ASSUME Apart
    PROVE  RewrapSpec => []HandedInv
  <1>1. RewrapInit => HandedInv
    BY HandedInit
  <1>2. HandedInv /\ [RewrapNext]_allVars => HandedInv'
    BY HandedNext
  <1> QED BY <1>1, <1>2, PTL DEF RewrapSpec

-----------------------------------------------------------------------------
(* The verification of the successor *)

(* What the follow-up reads as its predecessor files. *)
Given == IF call.predecessors = <<>> THEN <<>> ELSE <<FileAt(rewrap.file)>>

(* The predecessor is supplied as it was, and holds. *)
HandedIn ==
    call.predecessors # <<>> /\ rewrap.file # rewrap.out /\ Holds(predecessor)

(* The one artifact of the pool has not been looked at, or has verified the   *)
(* one entry of the successor; nothing it declares itself can be settled.     *)
Unmatched ==
    /\ assigned = {} /\ cursor = 1 /\ ~done
    /\ entries = <<Walk!MakeEntry(Claim(Author!DerivePredecessorEntry(predecessor)), 1, 0)>>

Matched ==
    /\ assigned = {1}
    /\ 1 \in DOMAIN entries /\ entries[1].status = "verified"
    /\ \A i \in DOMAIN entries : i # 1 => entries[i].status = "unverified"

Settling ==
    /\ pool = <<ClassifyArtifact(predecessor)>>
    /\ Unmatched \/ Matched

Following ==
    \/ Fresh
    \/ /\ phase = "reading"
       /\ subject = FileAt(rewrap.out) /\ supplied \in {<<>>, Given}
       /\ pool = <<>> /\ entries = <<>> /\ assigned = {} /\ cursor = 1 /\ ~done
    \/ /\ phase \in {"walking", "ended"}
       /\ subject = FileAt(rewrap.out) /\ supplied = Given
       /\ HandedIn => Settling
       /\ phase = "ended" => done /\ Reported

FollowInv == rewrap # Null /\ ~ArgumentsMissing /\ rewrapExit = 0 => Following

(* A rewrap that has ended moves no more. *)
LEMMA OnlyVerifies ==
    ASSUME Handed, rewrapExit = 0, [RewrapNext]_allVars
    PROVE  UNCHANGED <<call, stored, rewrapVars>> /\ (Next \/ UNCHANGED vars)
  <1>1. step = "ended"
    BY DEF Handed
  <1>2. Verify \/ UNCHANGED allVars
    BY <1>1 DEF RewrapNext, CheckArguments, CheckOutput, ReadKey, OpenPredecessor,
         RefusePredecessor, RefuseArgument, ContinueFromPredecessor, SealSuccessor, WriteOutput,
         WriteTorn, Kill, Running, CreatedMeanwhile
  <1>3. CASE Verify
    BY <1>3, VerifyKeepsFiles DEF Verify
  <1>4. CASE UNCHANGED allVars
    BY <1>4 DEF allVars, vars
  <1> QED BY <1>2, <1>3, <1>4

(* The predecessor, supplied, is verifiable and exactly what was declared. *)
LEMMA PredecessorClassified ==
    ASSUME Handed, rewrapExit = 0, Holds(predecessor)
    PROVE  LET record == ClassifyArtifact(predecessor)
               claim  == Claim(Author!DerivePredecessorEntry(predecessor))
           IN  /\ record.kind = "verifiable" /\ record.ok
               /\ claim.capsule_id = record.id
               /\ claim.manifest_hash = record.mh
               /\ claim.entry_hash = record.entry_hash
               /\ IsSeq(record.declares)
  <1> DEFINE p == predecessor
  <1>1. IsCapsule(p) /\ OpenGate(p) = "pass" /\ ~IsEncrypted(p)
    BY DEF Handed, TakenUp, IsEncrypted, Author!IsEncrypted, BlobPath, Author!BlobPath
  <1>2. VerifyOk(p, Options) /\ BlobOk(p) /\ Gate(p) = "pass"
    BY HoldsWhateverTheAllowlist DEF VerifyOk
  <1>3. p.envelope.cipher = "none" /\ BlobPath \notin DOMAIN p.files
    BY <1>1, <1>2 DEF BlobOk, IsEncrypted
  <1>4. FormatStatus(p) = "known" /\ p.manifest.profile \in {Absent, DefaultProfile}
    <2> DEFINE profile == ClassifyProfile(p.manifest.profile, p.envelope.profile)
    <2>1. ClassifyVersion(p.manifest.version) = "known" /\ profile = "default"
      <3>1. \A v : ClassifyVersion(v) \in {"known", "unknown_newer", "unknown_older", "invalid"}
        BY DEF ClassifyVersion
      <3>2. ClassifyVersion(p.manifest.version) = "known"
        BY <1>1, <3>1 DEF OpenGate
      <3>3. ClassifyVersion(p.envelope.version) = "known"
        BY <1>1, <3>1, <3>2 DEF OpenGate
      <3> HIDE DEF profile
      <3> QED BY <1>1, <3>2, <3>3 DEF OpenGate, profile
    <2>2. NormalProfile(p.manifest.profile) = DefaultProfile
      BY <2>1 DEF ClassifyProfile
    <2> QED BY <2>1, <2>2 DEF FormatStatus, NormalProfile
  <1>5. ArtifactKind(p) = "verifiable"
    BY <1>1, <1>3, <1>4 DEF ArtifactKind
  <1>6. IsSeq(ClassifyArtifact(p).declares)
    <2>1. CASE Declares(p)
      <3>1. ClassifyArtifact(p).declares = Claims(p.manifest.predecessors)
        BY <1>5, <2>1 DEF ClassifyArtifact
      <3>2. IsSeq(p.manifest.predecessors)
        BY <2>1 DEF Declares, PredecessorsWellFormed, IsArray, IsSeq
      <3> QED BY <3>1, <3>2, ClaimsAreSeq
    <2>2. CASE ~Declares(p)
      <3>1. ClassifyArtifact(p).declares = <<>>
        BY <2>2 DEF ClassifyArtifact
      <3> QED BY <3>1 DEF IsSeq
    <2> QED BY <2>1, <2>2
  <1> QED BY <1>2, <1>5, <1>6
      DEF ClassifyArtifact, Claim, Author!DerivePredecessorEntry, Author!ComputeCapsuleId,
          ComputeCapsuleId, Author!ManifestHash, ManifestHash

(* The match settles the entry, and adds only entries nothing can settle. *)
LEMMA PredecessorMatches ==
    ASSUME Handed, rewrapExit = 0, Holds(predecessor),
           pool = <<ClassifyArtifact(predecessor)>>, Unmatched, Walk!Match
    PROVE  Matched'
  <1> DEFINE record == ClassifyArtifact(predecessor)
             claim == Claim(Author!DerivePredecessorEntry(predecessor))
             entry == Walk!MakeEntry(claim, 1, 0)
  <1>1. pool[cursor] = record /\ cursor = 1 /\ assigned' = {1}
    BY DEF Unmatched, Walk!Match
  <1>2. DOMAIN entries = {1} /\ entries[1] = entry /\ Len(entries) = 1 /\ IsSeq(entries)
    BY DEF Unmatched, IsSeq
  <1>3. IsEntry(entry) /\ entry.status = "unverified" /\ States(entry, claim)
    BY EntryMade
  <1>4. /\ record.kind = "verifiable" /\ record.ok /\ IsSeq(record.declares)
        /\ claim.capsule_id = record.id
        /\ claim.manifest_hash = record.mh
        /\ claim.entry_hash = record.entry_hash
    BY PredecessorClassified
  <1>5. PICK i \in DOMAIN entries :
            LET resolved == [entries EXCEPT
                              ![i] = [@ EXCEPT !.status = Walk!StatusFor(entries[i], record),
                                               !.artifact = cursor]]
            IN  IF Walk!JoinsFrontier(entries[i], record) /\ entries[i].hop + 1 <= HopCap
                THEN entries' = resolved \o Walk!Frontier(record, entries[i].hop + 1, cursor)
                ELSE entries' = resolved
    BY <1>1 DEF Walk!Match, Walk!Candidates, Walk!Open
  <1> HIDE DEF record, claim, entry
  <1>6. Walk!StatusFor(entry, record) = "verified"
    BY <1>3, <1>4 DEF Walk!StatusFor, Walk!Exact, States
  <1> DEFINE settled == SettledBy(entry, "verified", 1)
             resolved == [entries EXCEPT ![1] = settled]
  <1>7. i = 1
    BY <1>2
  <1>8. \/ entries' = resolved
        \/ \E hop : entries' = resolved \o Walk!Frontier(record, hop, cursor)
    BY <1>1, <1>2, <1>5, <1>6, <1>7 DEF SettledBy
  <1>9. settled.status = "verified"
    BY <1>3, EntrySettled
  <1> HIDE DEF settled
  <1>10. DOMAIN resolved = {1} /\ resolved[1].status = "verified" /\ IsSeq(resolved)
    <2>1. resolved = <<settled>>
      BY <1>2 DEF IsSeq
    <2> HIDE DEF resolved
    <2> QED BY <1>9, <2>1 DEF IsSeq
  <1> HIDE DEF resolved
  <1>11. CASE entries' = resolved
    BY <1>1, <1>10, <1>11 DEF Matched
  <1>12. ASSUME NEW hop, entries' = resolved \o Walk!Frontier(record, hop, cursor)
         PROVE  Matched'
    <2> DEFINE f == Walk!Frontier(record, hop, cursor)
    <2>1. IsSeq(f) /\ \A k \in DOMAIN f : f[k].status = "unverified"
      BY <1>4, FrontierMade
    <2> HIDE DEF f
    <2>2. Extends(entries', resolved, f)
      BY <1>10, <1>12, <2>1, ConcatenatedSeq DEF f
    <2>3. \A k \in DOMAIN entries' : k \notin DOMAIN resolved => entries'[k].status = "unverified"
      BY <2>1, <2>2 DEF Extends
    <2>4. 1 \in DOMAIN entries' /\ entries'[1].status = "verified"
      BY <1>10, <2>2 DEF Extends
    <2> QED BY <1>1, <1>10, <2>3, <2>4 DEF Matched
  <1> QED BY <1>8, <1>11, <1>12

(* A step of the walk over the predecessor. *)
LEMMA SettlingStep ==
    ASSUME Handed, rewrapExit = 0, Holds(predecessor), Settling, Walk!Next,
           UNCHANGED <<call, predecessor>>
    PROVE  Settling'
  <1>1. ClassifyArtifact(predecessor)' = ClassifyArtifact(predecessor)
    BY DEF ClassifyArtifact, Options
  <1>2. pool' = pool
    BY DEF Walk!Next, Walk!Skip, Walk!Match, Walk!NextPass, Walk!Return
  <1>3. DOMAIN pool = {1} /\ pool[1] = ClassifyArtifact(predecessor)
    BY DEF Settling
  <1>4. CASE Unmatched
    <2> DEFINE record == ClassifyArtifact(predecessor)
               claim == Claim(Author!DerivePredecessorEntry(predecessor))
               entry == Walk!MakeEntry(claim, 1, 0)
    <2>1. DOMAIN entries = {1} /\ entries[1] = entry
      BY <1>4 DEF Unmatched
    <2>2. entry.status = "unverified" /\ States(entry, claim)
      BY EntryMade
    <2>3. record.kind = "verifiable" /\ claim.capsule_id = record.id
      BY PredecessorClassified
    <2> HIDE DEF record, claim, entry
    <2>4. 1 \in Walk!Open(record)
      BY <2>1, <2>2, <2>3 DEF Walk!Open, States
    <2>5. Walk!Candidates(record) # {}
      BY <2>4 DEF Walk!Candidates
    <2>6. ~Walk!Skip /\ ~Walk!NextPass /\ ~Walk!Return
      BY <1>3, <1>4, <2>3, <2>5 DEF Unmatched, record, Walk!Skip, Walk!NextPass, Walk!Return
    <2>7. Matched'
      BY <1>4, <2>6, PredecessorMatches DEF Settling, Walk!Next
    <2> QED BY <1>1, <1>2, <2>7 DEF Settling
  <1>5. CASE Matched
    <2>1. ~Walk!Match
      BY <1>3, <1>5 DEF Matched, Walk!Match, Walk!AtRecord
    <2>2. UNCHANGED <<entries, assigned>>
      BY <2>1 DEF Walk!Next, Walk!Skip, Walk!NextPass, Walk!Return
    <2> QED BY <1>1, <1>2, <1>5, <2>2 DEF Settling, Matched
  <1> QED BY <1>4, <1>5 DEF Settling

(* The verification a rewrap is followed by. *)
LEMMA FollowUpCall ==
    ASSUME Handed
    PROVE  /\ call.caller = "cli" /\ call.file = rewrap.out
           /\ call.allowlist = {} /\ call.accept = {}
           /\ call.predecessors \in {<<>>, <<rewrap.file>>}
  BY DEF Handed, FollowUps

(* Where the verification is depends on nothing but its state and the files. *)
LEMMA FollowingStays ==
    ASSUME Following, UNCHANGED <<call, stored, rewrapVars, phase, subject, supplied, result,
                                  printed, exit, walkVars>>
    PROVE  Following'
  <1>1. Reported' = Reported
    BY ResultStays DEF Reported, walkVars
  <1>2. Given' = Given /\ HandedIn' = HandedIn /\ Settling' = Settling /\ Fresh' = Fresh
    BY DEF Given, FileAt, HandedIn, Holds, Options, Settling, Unmatched, Matched, ClassifyArtifact,
           Fresh, walkVars, rewrapVars
  <1> QED BY <1>1, <1>2 DEF Following, FileAt, rewrapVars, walkVars

(* The file given as the predecessor is there to be read. *)
LEMMA GivenOnDisk ==
    ASSUME Handed, rewrapExit = 0
    PROVE  /\ OnDisk(rewrap.out) /\ OnDisk(rewrap.file)
           /\ rewrap.file # rewrap.out => FileAt(rewrap.file) = predecessor
  BY DEF Handed, TakenUp

(* The verification reads the two files, walks the one declaration, reports. *)
LEMMA FollowingNext ==
    ASSUME rewrap # Null, ~ArgumentsMissing, Handed, rewrapExit = 0, Following, Next,
           UNCHANGED <<call, stored, rewrapVars>>
    PROVE  Following'
  <1>1. /\ call.caller = "cli" /\ call.file = rewrap.out
        /\ call.allowlist = {} /\ call.accept = {}
        /\ call.predecessors \in {<<>>, <<rewrap.file>>}
    BY FollowUpCall
  <1>2. /\ OnDisk(rewrap.out) /\ OnDisk(rewrap.file)
        /\ rewrap.file # rewrap.out => FileAt(rewrap.file) = predecessor
    BY GivenOnDisk
  <1>3. Given' = Given /\ HandedIn' = HandedIn /\ FileAt(rewrap.out)' = FileAt(rewrap.out)
    BY DEF Given, FileAt, HandedIn, Holds, Options, rewrapVars
  <1>4. call.predecessors = <<>> => Given = <<>>
    BY DEF Given
  <1>5. call.predecessors # <<>> =>
            call.predecessors = <<rewrap.file>> /\ Given = <<FileAt(rewrap.file)>>
    BY <1>1 DEF Given
  <1>6. CASE RefuseArguments
    <2>1. call.file # Null /\ ~ArgumentsRefused
      BY <1>1 DEF ArgumentsMissing, ArgumentsRefused
    <2> QED BY <1>6, <2>1 DEF RefuseArguments
  <1>7. CASE ReadSubject
    BY <1>1, <1>3, <1>7 DEF ReadSubject, Following, Fresh, walkVars
  <1>8. CASE FileMissing
    <2>1. CASE phase = "called"
      BY <1>1, <1>2, <1>8, <2>1 DEF FileMissing, NextPath
    <2>2. CASE phase = "reading" /\ supplied = <<>>
      <3>1. Len(supplied) = 0 /\ call.predecessors = <<rewrap.file>>
        BY <1>1, <1>8, <2>2 DEF FileMissing, Reads
      <3>2. NextPath = rewrap.file
        BY <2>2, <3>1 DEF NextPath
      <3> QED BY <1>2, <1>8, <3>2 DEF FileMissing
    <2>3. CASE phase = "reading" /\ supplied = Given /\ supplied # <<>>
      <3>1. Len(supplied) = 1 /\ Len(call.predecessors) = 1
        BY <1>4, <1>5, <2>3
      <3> QED BY <1>8, <2>3, <3>1 DEF FileMissing, Reads
    <2> QED BY <1>8, <2>1, <2>2, <2>3 DEF FileMissing, Reads, Following, Fresh
  <1>9. CASE ReadPredecessor
    <2>1. phase = "reading" /\ Len(supplied) < Len(call.predecessors) /\ supplied \in {<<>>, Given}
      BY <1>9 DEF ReadPredecessor, Following, Fresh
    <2>2. supplied = <<>> /\ call.predecessors = <<rewrap.file>>
      BY <1>4, <1>5, <2>1
    <2>3. NextPath = rewrap.file
      BY <2>1, <2>2 DEF NextPath
    <2>4. supplied' = Given
      BY <1>5, <1>9, <2>2, <2>3 DEF ReadPredecessor
    <2> QED BY <1>3, <1>9, <2>1, <2>4 DEF ReadPredecessor, Following, Fresh, walkVars
  <1>10. CASE StartVerification
    <2>1. /\ phase = "reading" /\ phase' = "walking" /\ supplied = Given
          /\ subject = FileAt(rewrap.out)
          /\ assigned' = {} /\ cursor' = 1
          /\ UNCHANGED <<subject, supplied>>
      BY <1>4, <1>5, <1>10 DEF StartVerification, Following, Fresh
    <2>2. ASSUME HandedIn
          PROVE  Settling'
      <3>1. supplied = <<predecessor>>
        BY <1>2, <1>5, <2>1, <2>2 DEF HandedIn
      <3>2. SuccessorOf(subject, predecessor)
        BY <2>1 DEF Handed
      <3>3. /\ IsCapsule(subject) /\ Gate(subject) = "pass" /\ Declares(subject)
            /\ subject.manifest.predecessors = <<Author!DerivePredecessorEntry(predecessor)>>
        BY <3>2 DEF SuccessorOf, Holds, VerifyOk
      <3>4. /\ pool' = [k \in DOMAIN supplied |-> ClassifyArtifact(supplied[k])]
            /\ entries' = [i \in DOMAIN subject.manifest.predecessors |->
                              Walk!MakeEntry(Claim(subject.manifest.predecessors[i]), 1, 0)]
            /\ ~done'
        BY <1>10, <3>3 DEF StartVerification
      <3>5. pool' = <<ClassifyArtifact(predecessor)>>
        BY <3>1, <3>4
      <3>6. entries' = <<Walk!MakeEntry(Claim(Author!DerivePredecessorEntry(predecessor)), 1, 0)>>
        BY <3>3, <3>4
      <3>7. ClassifyArtifact(predecessor)' = ClassifyArtifact(predecessor)
        BY DEF ClassifyArtifact, Options, rewrapVars
      <3>8. Claim(Author!DerivePredecessorEntry(predecessor))'
                = Claim(Author!DerivePredecessorEntry(predecessor))
        BY DEF rewrapVars
      <3> QED BY <2>1, <3>4, <3>5, <3>6, <3>7, <3>8 DEF Settling, Unmatched
    <2> QED BY <1>3, <2>1, <2>2 DEF Following
  <1>11. CASE WalkStep
    <2>1. phase = "walking" /\ Walk!Next /\ UNCHANGED <<phase, subject, supplied>>
      BY <1>11 DEF WalkStep
    <2>2. ASSUME HandedIn
          PROVE  Settling'
      BY <2>1, <2>2, SettlingStep DEF HandedIn, Following, Fresh, rewrapVars
    <2> QED BY <1>3, <2>1, <2>2 DEF Following, Fresh
  <1>12. CASE Report
    <2>1. phase = "walking" /\ phase' = "ended" /\ done
          /\ UNCHANGED <<subject, supplied, walkVars>>
      BY <1>12 DEF Report
    <2>2. Reported'
      BY <1>12, <2>1, ResultStays DEF Report, Reported, walkVars
    <2>3. Settling' = Settling
      BY <2>1 DEF Settling, Unmatched, Matched, ClassifyArtifact, Options, walkVars, rewrapVars
    <2> QED BY <1>3, <2>1, <2>2, <2>3 DEF Following, Fresh, walkVars
  <1> QED BY <1>6, <1>7, <1>8, <1>9, <1>10, <1>11, <1>12 DEF Next

(* The verification of what a rewrap leaves begins with the rewrap's end. *)
LEMMA FollowInvNext ==
    ASSUME HandedInv, FollowInv, [RewrapNext]_allVars
    PROVE  FollowInv'
  <1> SUFFICES ASSUME rewrap' # Null, ~ArgumentsMissing', rewrapExit' = 0 PROVE Following'
    BY DEF FollowInv
  <1>1. UNCHANGED <<call, rewrap>>
    BY CallStays
  <1>2. rewrap # Null /\ ~ArgumentsMissing /\ Handed
    BY <1>1 DEF HandedInv, ArgumentsMissing
  <1>3. CASE rewrapExit = 0
    <2>1. Following
      BY <1>2, <1>3 DEF FollowInv
    <2>2. UNCHANGED <<call, stored, rewrapVars>> /\ (Next \/ UNCHANGED vars)
      BY <1>2, <1>3, OnlyVerifies
    <2>3. CASE Next
      BY <1>2, <1>3, <2>1, <2>2, <2>3, FollowingNext
    <2>4. CASE UNCHANGED vars
      BY <2>1, <2>2, <2>4, FollowingStays DEF vars
    <2> QED BY <2>2, <2>3, <2>4
  <1>4. CASE rewrapExit # 0
    <2>1. Null # 0
      BY NullAssumption
    <2>2. RefusalCode(Refusal) \in {1, 2}
      BY DEF RefusalCode
    <2>3. WriteOutput
      BY <1>4, <2>1, <2>2
      DEF RewrapNext, allVars, rewrapVars, CheckArguments, CheckOutput, ReadKey, OpenPredecessor,
          RefusePredecessor, RefuseArgument, Refuse, ContinueFromPredecessor, SealSuccessor,
          WriteTorn, Kill, CreatedMeanwhile, Verify
    <2>4. Fresh /\ UNCHANGED verifyVarsButFiles
      BY <1>2, <2>3 DEF WriteOutput, Put, Handed, Running
    <2> QED BY <2>4 DEF Fresh, Following, verifyVarsButFiles, walkVars
  <1> QED BY <1>3, <1>4

(* A rewrap without its arguments never succeeds. *)
MissingInv ==
    rewrap # Null /\ ArgumentsMissing =>
        rewrapExit # 0 /\ step \in {"called", "refused", "ended"}

(* It is refused at once, or killed. *)
LEMMA MissingInvariant == RewrapSpec => []MissingInv
  <1>1. Null # 0
    BY NullAssumption
  <1>2. RewrapInit => MissingInv
    BY <1>1 DEF RewrapInit, MissingInv
  <1>3. MissingInv /\ [RewrapNext]_allVars => MissingInv'
    <2> SUFFICES ASSUME MissingInv, [RewrapNext]_allVars, rewrap' # Null, ArgumentsMissing'
                 PROVE  rewrapExit' # 0 /\ step' \in {"called", "refused", "ended"}
      BY DEF MissingInv
    <2>1. UNCHANGED rewrap
      BY CallStays
    <2>2. ArgumentsMissing /\ rewrapExit # 0 /\ step \in {"called", "refused", "ended"}
      BY <2>1 DEF MissingInv, ArgumentsMissing
    <2> QED BY <1>1, <2>2
        DEF RewrapNext, allVars, rewrapVars, CheckArguments, CheckOutput, ReadKey, OpenPredecessor,
            RefusePredecessor, RefuseArgument, Refuse, ContinueFromPredecessor, SealSuccessor,
            WriteOutput, WriteTorn, Kill, CreatedMeanwhile, Verify
  <1> QED BY <1>2, <1>3, PTL DEF RewrapSpec

(* The verification of what a rewrap leaves, in every state. *)
LEMMA FollowInvariant ==
    ASSUME Apart
    PROVE  RewrapSpec => []FollowInv
  <1>1. RewrapInit => FollowInv
    BY NullAssumption DEF RewrapInit, FollowInv
  <1>2. HandedInv /\ FollowInv /\ [RewrapNext]_allVars => FollowInv'
    BY FollowInvNext
  <1> QED BY <1>1, <1>2, HandedInvariant, PTL DEF RewrapSpec

(* A successor is not what it declares: it would contain its own hash. *)
LEMMA NotItsOwnPredecessor ==
    ASSUME Apart, NEW c, NEW p \in Contents, IsCapsule(p), SuccessorOf(c, p)
    PROVE  ~Names(c, c)
  <1> SUFFICES ASSUME Names(c, c) PROVE FALSE
    OBVIOUS
  <1> DEFINE entry == Author!DerivePredecessorEntry(p)
  <1>1. c.manifest.predecessors = <<entry>> /\ entry.manifest_hash = ManifestHash(p.manifest)
    BY DEF SuccessorOf, Author!DerivePredecessorEntry, Author!ManifestHash, ManifestHash
  <1> HIDE DEF entry
  <1>2. Claim(entry) = DerivedClaim(c)
    BY <1>1 DEF Names
  <1>3. entry.manifest_hash = ManifestHash(c.manifest)
    BY <1>2 DEF Claim, DerivedClaim
  <1>4. p.manifest = c.manifest
    BY <1>1, <1>3 DEF ManifestHash
  <1>5. p.manifest.predecessors = <<entry>> /\ <<entry>> # Absent
    BY <1>1, <1>4 DEF Apart
  <1>6. 1 \in DOMAIN p.manifest.predecessors
        /\ p.manifest.predecessors[1].manifest_hash = ManifestHash(p.manifest)
    BY <1>1, <1>5
  <1> QED BY <1>5, <1>6, CitationAssumption DEF IsCapsule

(* Exit 0 says that the predecessor, if it was supplied, holds and is another. *)
LEMMA OnlyAHoldingPredecessor ==
    ASSUME Apart, Handed, rewrapExit = 0, Following, Linked, phase = "ended", exit = 0,
           call.predecessors # <<>>
    PROVE  rewrap.file # rewrap.out /\ Holds(predecessor)
  <1>1. call.caller = "cli" /\ Reported
    BY FollowUpCall DEF Following, Fresh
  <1>2. /\ Cardinality(Checked) >= Len(call.predecessors)
        /\ \A i \in Checked : entries[i].status = "verified"
    BY <1>1, DemandsMet DEF Reported
  <1>3. supplied = <<FileAt(rewrap.file)>> /\ subject = FileAt(rewrap.out)
    BY DEF Following, Fresh, Given
  <1> DEFINE a == FileAt(rewrap.file)
  <1>4. Supplied = {a}
    BY <1>3 DEF Supplied
  <1>5. Holds(a) /\ \E c \in Supplied \cup {subject} : Names(c, a)
    BY <1>2, <1>4, SuppliedAreNamed
  <1>6. rewrap.file # rewrap.out
    <2> SUFFICES ASSUME rewrap.file = rewrap.out PROVE FALSE
      OBVIOUS
    <2>1. Names(subject, subject)
      BY <1>3, <1>4, <1>5
    <2>2. SuccessorOf(subject, predecessor) /\ predecessor \in Contents /\ IsCapsule(predecessor)
      BY <1>3 DEF Handed, TakenUp
    <2> QED BY <2>1, <2>2, NotItsOwnPredecessor
  <1> QED BY <1>5, <1>6, GivenOnDisk

(* A successor verifies alone, and with a predecessor that was handed in. *)
LEMMA SuccessorExitsZero ==
    ASSUME Handed, rewrapExit = 0, Following, phase = "ended",
           call.predecessors # <<>> => rewrap.file # rewrap.out /\ Holds(predecessor)
    PROVE  exit = 0
  <1>1. /\ call.caller = "cli" /\ call.allowlist = {} /\ call.accept = {}
        /\ call.predecessors \in {<<>>, <<rewrap.file>>}
    BY FollowUpCall
  <1>2. Reported /\ done /\ subject = FileAt(rewrap.out) /\ (HandedIn => Settling)
    BY DEF Following, Fresh
  <1>3. exit = ExitCode(Result)
    BY <1>1, <1>2 DEF Reported
  <1>4. Result.ok
    <2>1. IsCapsule(subject) /\ Holds(subject)
      BY <1>2 DEF Handed, SuccessorOf
    <2>2. VerifyOk(subject, Options)
      BY <2>1, HoldsWhateverTheAllowlist
    <2> QED BY <2>1, <2>2 DEF Result
  <1>5. TrustPolicy(Result) = Null /\ VersionPolicy(Result) = Null /\ Null # FALSE
    BY <1>1, NullAssumption DEF TrustPolicy, VersionPolicy
  <1>6. CustodyPolicy # FALSE
    <2>1. CASE call.predecessors = <<>>
      BY <1>5, <2>1 DEF CustodyPolicy
    <2>2. CASE call.predecessors # <<>>
      <3>1. Len(call.predecessors) = 1
        BY <1>1, <2>2
      <3>2. Matched
        BY <1>2, <2>2 DEF HandedIn, Settling, Unmatched
      <3>3. Checked = {1} /\ entries[1].status = "verified"
        BY <3>2 DEF Matched, Checked
      <3>4. Cardinality(Checked) = 1
        BY <3>3, FS_Singleton
      <3>5. /\ Cardinality(Checked) >= Len(call.predecessors)
            /\ \A i \in Checked : entries[i].status = "verified"
        BY <3>1, <3>3, <3>4
      <3>6. CustodyPolicy = TRUE
        BY <2>2, <3>5 DEF CustodyPolicy
      <3> QED BY <3>6
    <2> QED BY <2>1, <2>2
  <1>7. FALSE \notin {TrustPolicy(Result), VersionPolicy(Result), CustodyPolicy}
    BY <1>5, <1>6
  <1> QED BY <1>3, <1>4, <1>7 DEF ExitCode

(* `capsule rewrap` and then `capsule verify` compose: the successor verifies,  *)
(* with its predecessor supplied exactly if that holds and was not overwritten. *)
THEOREM HandOffHolds ==
    ASSUME Apart
    PROVE  RewrapSpec => []HandOffComposes
  <1>1. ReportInv /\ LinkInv /\ HandedInv /\ FollowInv /\ MissingInv => HandOffComposes
    <2> SUFFICES ASSUME ReportInv, LinkInv, HandedInv, FollowInv, MissingInv,
                        rewrap # Null, rewrapExit = 0, phase = "ended"
                 PROVE  exit = 0 <=>
                            (call.predecessors # <<>> =>
                                rewrap.file # rewrap.out /\ Holds(predecessor))
      BY DEF HandOffComposes
    <2>1. ~ArgumentsMissing
      BY DEF MissingInv
    <2>2. Handed /\ Following
      BY <2>1 DEF HandedInv, FollowInv
    <2>3. ASSUME exit = 0
          PROVE  Linked
      BY <2>3, ReportedIsLinked
    <2> QED BY <2>2, <2>3, OnlyAHoldingPredecessor, SuccessorExitsZero
  <1> QED BY <1>1, ReportInvariant, LinkInvariant, HandedInvariant, FollowInvariant,
             MissingInvariant, PTL
=============================================================================

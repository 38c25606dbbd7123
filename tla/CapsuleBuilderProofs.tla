------------------------ MODULE CapsuleBuilderProofs ------------------------
(***************************************************************************)
(* Proofs about CapsuleBuilder: what seal() emits verifies, and the seals  *)
(* of one builder are one growing line.  For every number of events,       *)
(* builders and seals.                                                     *)
(***************************************************************************)
EXTENDS CapsuleBuilder, DataLemmas, SequenceTheorems, TLAPS

-----------------------------------------------------------------------------
(* The hash chain *)

\* h is the function BuildHash defines by recursion, up to event n.
Links(h, bare, n) ==
    h = [i \in 0..n |-> IF i = 0 THEN GenesisPrev ELSE HashEvent(bare[i], i, h[i - 1])]

LEMMA LinksOf ==
    ASSUME NEW h, NEW bare, NEW n \in Nat, Links(h, bare, n)
    PROVE  /\ DOMAIN h = 0..n
           /\ h[0] = GenesisPrev
           /\ \A i \in 1..n : h[i] = HashEvent(bare[i], i, h[i - 1])
  <1> DEFINE g == [i \in 0..n |-> IF i = 0 THEN GenesisPrev ELSE HashEvent(bare[i], i, h[i - 1])]
  <1>1. h = g
    BY DEF Links
  <1>2. /\ DOMAIN g = 0..n
        /\ g[0] = GenesisPrev
        /\ \A i \in 1..n : g[i] = HashEvent(bare[i], i, h[i - 1])
    OBVIOUS
  <1> HIDE DEF g
  <1> QED BY <1>1, <1>2

\* There is such a function for every length: each link is made of the one before.
LEMMA LinksExist ==
    ASSUME NEW bare, NEW n \in Nat
    PROVE  \E h : Links(h, bare, n)
  <1> DEFINE S == {k \in Nat : \E h : Links(h, bare, k)}
  <1>1. 0 \in S
    <2> DEFINE h == [i \in 0..0 |-> GenesisPrev]
    <2>1. Links(h, bare, 0)
      BY DEF Links
    <2> QED BY <2>1
  <1>2. ASSUME NEW k \in Nat, k \in S PROVE k + 1 \in S
    <2>1. PICK h : Links(h, bare, k)
      BY <1>2
    <2> DEFINE next == [i \in 0..(k + 1) |-> IF i = 0 THEN GenesisPrev
                                              ELSE HashEvent(bare[i], i, h[i - 1])]
    <2>2. \A i \in 0..k : next[i] = h[i]
      BY <2>1, LinksOf
    <2>3. \A i \in 1..(k + 1) : i - 1 \in 0..k
      OBVIOUS
    <2>4. next = [i \in 0..(k + 1) |-> IF i = 0 THEN GenesisPrev
                                       ELSE HashEvent(bare[i], i, next[i - 1])]
      <3>2. /\ DOMAIN next = 0..(k + 1)
            /\ next[0] = GenesisPrev
            /\ \A i \in 0..(k + 1) : i # 0 => next[i] = HashEvent(bare[i], i, h[i - 1])
        OBVIOUS
      <3>3. next = [i \in 0..(k + 1) |-> next[i]]
        OBVIOUS
      <3> HIDE DEF next
      <3>1. \A i \in 0..(k + 1) : i # 0 => next[i - 1] = h[i - 1]
        BY <2>2
      <3> QED BY <3>1, <3>2, <3>3
    <2> HIDE DEF next
    <2>5. Links(next, bare, k + 1)
      BY <2>4 DEF Links
    <2> QED BY <2>5
  <1> HIDE DEF S
  <1>3. n \in S
    BY <1>1, <1>2, AllNaturals
  <1> QED BY <1>3 DEF S

\* So BuildHash, which chooses it, satisfies its recursion.
LEMMA Hashes ==
    ASSUME NEW bare, Len(bare) \in Nat
    PROVE  Links(BuildHash(bare), bare, Len(bare))
  <1>1. PICK h : Links(h, bare, Len(bare))
    BY LinksExist
  <1> QED BY <1>1 DEF Links, BuildHash

LEMMA HashLinks ==
    ASSUME NEW bare, Len(bare) \in Nat
    PROVE  /\ BuildHash(bare)[0] = GenesisPrev
           /\ \A i \in 1..Len(bare) :
                  BuildHash(bare)[i] = HashEvent(bare[i], i, BuildHash(bare)[i - 1])
  <1> DEFINE h == BuildHash(bare)
  <1>1. Links(h, bare, Len(bare))
    BY Hashes
  <1> HIDE DEF h
  <1>2. /\ h[0] = GenesisPrev
        /\ \A i \in 1..Len(bare) : h[i] = HashEvent(bare[i], i, h[i - 1])
    BY <1>1, LinksOf
  <1> QED BY <1>2 DEF h

\* one is a beginning of other.
Begins(one, other) ==
    Len(one) <= Len(other) /\ \A i \in 1..Len(one) : one[i] = other[i]

\* A hash depends on the events up to its own.
LEMMA HashOfBeginning ==
    ASSUME NEW one, NEW other, IsSeq(one), IsSeq(other), Begins(one, other)
    PROVE  \A i \in 0..Len(one) : BuildHash(one)[i] = BuildHash(other)[i]
  <1> DEFINE g == BuildHash(one)
             h == BuildHash(other)
             S == {i \in Nat : i <= Len(one) => g[i] = h[i]}
  <1>1. Len(one) \in Nat /\ Len(other) \in Nat
    BY DEF IsSeq
  <1>2. /\ g[0] = GenesisPrev
        /\ \A i \in 1..Len(one) : g[i] = HashEvent(one[i], i, g[i - 1])
    BY <1>1, HashLinks
  <1>3. /\ h[0] = GenesisPrev
        /\ \A i \in 1..Len(other) : h[i] = HashEvent(other[i], i, h[i - 1])
    BY <1>1, HashLinks
  <1> HIDE DEF g, h
  <1>4. 0 \in S
    BY <1>2, <1>3
  <1>5. ASSUME NEW n \in Nat, n \in S PROVE n + 1 \in S
    <2> SUFFICES ASSUME n + 1 <= Len(one) PROVE g[n + 1] = h[n + 1]
      OBVIOUS
    <2>1. g[n] = h[n] /\ (n + 1) - 1 = n
      BY <1>1, <1>5
    <2>2. n + 1 \in 1..Len(one) /\ n + 1 \in 1..Len(other)
      BY <1>1 DEF Begins
    <2>3. one[n + 1] = other[n + 1]
      BY <2>2 DEF Begins
    <2> QED BY <1>2, <1>3, <2>1, <2>2, <2>3
  <1> HIDE DEF S
  <1>6. \A i \in Nat : i \in S
    BY <1>4, <1>5, AllNaturals
  <1> QED BY <1>1, <1>6 DEF S, g, h

\* The events seal() writes are those of the chain they begin.
LEMMA ChainOfBeginning ==
    ASSUME NEW one, NEW other, IsSeq(one), IsSeq(other), Begins(one, other)
    PROVE  Begins(BuildChainEvents(one), BuildChainEvents(other))
  <1> DEFINE c == BuildChainEvents(one)
             d == BuildChainEvents(other)
  <1>1. /\ Len(one) \in Nat /\ DOMAIN one = 1..Len(one)
        /\ Len(other) \in Nat /\ DOMAIN other = 1..Len(other)
    BY DEF IsSeq
  <1>2. Len(c) = Len(one) /\ Len(d) = Len(other)
    BY <1>1 DEF BuildChainEvents
  <1>3. ASSUME NEW i \in 1..Len(one) PROVE c[i] = d[i]
    <2>1. one[i] = other[i] /\ i \in 1..Len(other) /\ i - 1 \in 0..Len(one) /\ i \in 0..Len(one)
      BY <1>1 DEF Begins
    <2>2. /\ BuildHash(one)[i] = BuildHash(other)[i]
          /\ BuildHash(one)[i - 1] = BuildHash(other)[i - 1]
      BY <2>1, HashOfBeginning
    <2> QED BY <1>1, <2>1, <2>2 DEF BuildChainEvents
  <1> QED BY <1>1, <1>2, <1>3 DEF Begins



\* The two hashes the documents commit to.
LEMMA CommittedHashes ==
    ASSUME NEW bare, IsSeq(bare), bare # <<>>
    PROVE  LET events == BuildChainEvents(bare)
           IN  /\ Len(events) = Len(bare) /\ Len(bare) \in Nat \ {0}
               /\ FirstEventHash(events) = HashEvent(bare[1], 1, GenesisPrev)
               /\ EntryHash(events) = HashEvent(bare[Len(bare)], Len(bare),
                                                BuildHash(bare)[Len(bare) - 1])
  <1> DEFINE events == BuildChainEvents(bare)
  <1>1. Len(bare) \in Nat \ {0} /\ DOMAIN bare = 1..Len(bare)
    BY SeqShape
  <1>2. /\ Len(events) = Len(bare)
        /\ \A i \in 1..Len(bare) : events[i].hash = BuildHash(bare)[i]
    BY <1>1 DEF BuildChainEvents
  <1>3. /\ BuildHash(bare)[0] = GenesisPrev
        /\ \A i \in 1..Len(bare) :
               BuildHash(bare)[i] = HashEvent(bare[i], i, BuildHash(bare)[i - 1])
    BY <1>1, HashLinks
  <1>4. 1 \in 1..Len(bare) /\ Len(bare) \in 1..Len(bare) /\ 1 - 1 = 0
    BY <1>1
  <1> HIDE DEF events
  <1>5. events[1].hash = HashEvent(bare[1], 1, GenesisPrev)
    BY <1>2, <1>3, <1>4
  <1>6. events[Len(events)].hash = HashEvent(bare[Len(bare)], Len(bare),
                                             BuildHash(bare)[Len(bare) - 1])
    BY <1>2, <1>3, <1>4
  <1> QED BY <1>1, <1>2, <1>5, <1>6 DEF FirstEventHash, EntryHash, events

\* The reader accepts the chain the writer builds, exactly if every actor may act.
LEMMA BuiltChainVerifies ==
    ASSUME NEW bare, NEW declared, IsSeq(bare),
           \A i \in DOMAIN bare : bare[i].kind \in EventKinds
    PROVE  VerifyChain(BuildChainEvents(bare), declared)
               <=> \A i \in DOMAIN bare : ActorAllowed(bare[i].actor, declared)
  <1> DEFINE events == BuildChainEvents(bare)
             h == BuildHash(bare)
             prev(i) == IF i = 1 THEN GenesisPrev ELSE events[i - 1].hash
  <1>1. Len(bare) \in Nat /\ DOMAIN bare = 1..Len(bare)
    BY SeqShape
  <1>2. /\ DOMAIN events = DOMAIN bare
        /\ \A i \in DOMAIN bare : /\ events[i].bare = bare[i]
                                  /\ events[i].seq = i
                                  /\ events[i].prev_hash = h[i - 1]
                                  /\ events[i].hash = h[i]
    BY DEF BuildChainEvents
  <1>3. h[0] = GenesisPrev /\ \A i \in 1..Len(bare) : h[i] = HashEvent(bare[i], i, h[i - 1])
    BY <1>1, HashLinks
  <1> HIDE DEF h, events
  <1>4. ASSUME NEW i \in DOMAIN bare
        PROVE  /\ events[i].bare.kind \in EventKinds
               /\ events[i].seq = i
               /\ events[i].prev_hash = prev(i)
               /\ events[i].hash = HashEvent(events[i].bare, events[i].seq, events[i].prev_hash)
    <2>1. events[i].prev_hash = prev(i)
      <3>1. CASE i = 1
        BY <1>1, <1>2, <1>3, <3>1
      <3>2. CASE i # 1
        <4>1. i - 1 \in DOMAIN bare
          BY <1>1, <3>2
        <4> QED BY <1>2, <3>2, <4>1
      <3> QED BY <3>1, <3>2
    <2> QED BY <1>1, <1>2, <1>3, <2>1
  <1>5. VerifyChain(events, declared)
            <=> \A i \in DOMAIN bare : ActorAllowed(events[i].bare.actor, declared)
    BY <1>2, <1>4 DEF VerifyChain
  <1> QED BY <1>2, <1>5 DEF events

(* The entry hash commits to the whole chain: of two chains verifyChain     *)
(* accepts, under whatever participants, those with one entry hash have     *)
(* the same length and, event by event, the same content and the same links. *)
THEOREM EntryHashCommits ==
    ASSUME NEW c, NEW d, NEW P, NEW Q, IsSeq(c), IsSeq(d), c # <<>>, d # <<>>,
           VerifyChain(c, P), VerifyChain(d, Q), EntryHash(c) = EntryHash(d)
    PROVE  /\ Len(c) = Len(d)
           /\ \A i \in DOMAIN c :
                  /\ c[i].bare = d[i].bare /\ c[i].seq = d[i].seq
                  /\ c[i].prev_hash = d[i].prev_hash /\ c[i].hash = d[i].hash
  <1> DEFINE n == Len(c)
             Same(i) == /\ c[i].bare = d[i].bare /\ c[i].seq = d[i].seq
                        /\ c[i].prev_hash = d[i].prev_hash /\ c[i].hash = d[i].hash
             S == {k \in Nat : k < n => Same(n - k)}
  <1>1. /\ n \in Nat \ {0} /\ DOMAIN c = 1..n
        /\ Len(d) \in Nat \ {0} /\ DOMAIN d = 1..Len(d)
    BY SeqShape
  <1>2. /\ \A i \in DOMAIN c :
               /\ c[i].seq = i
               /\ i # 1 => c[i].prev_hash = c[i - 1].hash
               /\ c[i].hash = HashEvent(c[i].bare, c[i].seq, c[i].prev_hash)
        /\ \A i \in DOMAIN d :
               /\ d[i].seq = i
               /\ i # 1 => d[i].prev_hash = d[i - 1].hash
               /\ d[i].hash = HashEvent(d[i].bare, d[i].seq, d[i].prev_hash)
    BY DEF VerifyChain
  <1>3. \A a, b, e, f, g, h :
            HashEvent(a, b, e) = HashEvent(f, g, h) => a = f /\ b = g /\ e = h
    BY DEF HashEvent
  <1>4. n \in DOMAIN c /\ Len(d) \in DOMAIN d /\ c[n].hash = d[Len(d)].hash
    BY <1>1 DEF EntryHash
  <1>5. n = Len(d)
    BY <1>2, <1>3, <1>4
  <1> HIDE DEF n
  <1>6. 0 \in S
    BY <1>1, <1>2, <1>3, <1>4, <1>5
  <1>7. ASSUME NEW k \in Nat, k \in S PROVE k + 1 \in S
    <2> SUFFICES ASSUME k + 1 < n PROVE Same(n - (k + 1))
      OBVIOUS
    <2> DEFINE i == n - k
               j == n - (k + 1)
    <2>1. i \in 1..n /\ i # 1 /\ i - 1 = j /\ j \in 1..n /\ k < n
      BY <1>1
    <2>2. c[i].prev_hash = d[i].prev_hash
      BY <1>7, <2>1
    <2> HIDE DEF i, j
    <2>3. c[j].hash = d[j].hash
      BY <1>1, <1>2, <1>5, <2>1, <2>2
    <2>4. Same(j)
      BY <1>1, <1>2, <1>3, <1>5, <2>1, <2>3
    <2> QED BY <2>4 DEF j
  <1> HIDE DEF S
  <1>8. \A k \in Nat : k \in S
    BY <1>6, <1>7, AllNaturals
  <1>9. ASSUME NEW i \in DOMAIN c PROVE Same(i)
    <2>1. n - i \in Nat /\ n - i < n /\ n - (n - i) = i
      BY <1>1
    <2> QED BY <1>8, <2>1 DEF S
  <1> QED BY <1>5, <1>9 DEF n

-----------------------------------------------------------------------------
IsRow(row) ==
    row = [role |-> row.role, public_key |-> row.public_key, signature |-> row.signature]

(* The places a caller can write to are not the place of the blob. *)
LEMMA PathsApart ==
    /\ ProgramPath # BlobPath
    /\ AgentsPath # BlobPath
    /\ ChainPath # BlobPath
    /\ DecryptionPath # BlobPath
    /\ \A id : SkillJsonPath(id) # BlobPath /\ SkillMarkdownPath(id) # BlobPath
    /\ \A name : PayloadPath(name) # BlobPath
  <1>1. Len(BlobPath) = 1 /\ BlobPath[1] = "content.enc"
    BY DEF BlobPath
  <1>2. ProgramPath # BlobPath /\ AgentsPath # BlobPath
    BY DEF ProgramPath, AgentsPath, BlobPath
  <1>3. Len(ChainPath) = 2 /\ Len(DecryptionPath) = 3
    BY DEF ChainPath, DecryptionPath
  <1>4. \A id : Len(SkillJsonPath(id)) = 3 /\ Len(SkillMarkdownPath(id)) = 3
    BY DEF SkillJsonPath, SkillMarkdownPath
  <1>5. \A name : Len(PayloadPath(name)) = 2
    BY DEF PayloadPath
  <1> QED
    BY <1>1, <1>2, <1>3, <1>4, <1>5

(* The files of one set over another and of a single file. *)
LEMMA MergedFiles ==
    ASSUME NEW f, NEW g
    PROVE  /\ DOMAIN Over(f, g) = DOMAIN f \cup DOMAIN g
           /\ \A p \in DOMAIN f : Over(f, g)[p] = f[p]
  BY DEF Over

(* A set of one file. *)
LEMMA OneFile ==
    ASSUME NEW path, NEW bytes
    PROVE  DOMAIN File(path, bytes) = {path} /\ File(path, bytes)[path] = bytes
  BY DEF File

(* What signEnvelope emits: a valid row for every signer. *)
LEMMA SignedRows ==
    ASSUME NEW envelope, NEW signers, IsSeq(signers)
    PROVE  LET rows == SignEnvelope(envelope, signers)
           IN  /\ IsSeq(rows)
               /\ DOMAIN rows = DOMAIN signers
               /\ \A i \in DOMAIN rows :
                     /\ IsRow(rows[i])
                     /\ SignatureValid(rows[i], envelope)
                     /\ rows[i].signature.key = signers[i].public_key
               /\ Members(rows) = Members(signers)
  <1> DEFINE rows == SignEnvelope(envelope, signers)
  <1>1. DOMAIN signers = 1..Len(signers) /\ Len(signers) \in Nat
    BY DEF IsSeq
  <1>2. /\ DOMAIN rows = DOMAIN signers
        /\ \A i \in DOMAIN signers :
              rows[i] = [role       |-> signers[i].role,
                         public_key |-> signers[i].public_key,
                         signature  |-> Sign(signers[i].public_key, signers[i].role, envelope)]
    BY DEF SignEnvelope
  <1>3. rows = [i \in 1..Len(signers) |-> rows[i]]
    BY <1>1 DEF SignEnvelope
  <1> HIDE DEF rows
  <1>4. IsSeq(rows)
    BY <1>1, <1>2, <1>3 DEF IsSeq
  <1>5. \A i \in DOMAIN rows :
            /\ IsRow(rows[i])
            /\ SignatureValid(rows[i], envelope)
            /\ rows[i].signature.key = signers[i].public_key
    BY <1>2 DEF IsRow, SignatureValid, Sign
  <1>6. Members(rows) = Members(signers)
    <2>1. \A i \in DOMAIN signers :
              rows[i].role = signers[i].role /\ rows[i].public_key = signers[i].public_key
      BY <1>2
    <2> QED
      BY <1>2, <2>1 DEF Members
  <1> QED
    BY <1>2, <1>4, <1>5, <1>6 DEF rows


-----------------------------------------------------------------------------
(* What seal() emits and what verifyCapsule checks of it *)

\* JSON null, a missing member and what no grammar admits are none of the values
\* the writer computes.
Placeholders ==
    /\ Malformed # Absent
    /\ Malformed \notin Keys
    /\ \A a, b, c : Malformed # ComputeCapsuleId(a, b, c)
    /\ \A a, b, c : HashEvent(a, b, c) \notin {Malformed, Null}
    /\ \A a, b : Null # [metadata_path |-> a, cipher |-> b]
    /\ \A a, b, c, d : Null # [manifest |-> a, envelope |-> b, signers |-> c, files |-> d]

\* The members of the two documents, and what lies beside them.
LEMMA SealedDocuments ==
    ASSUME NEW files, NEW events, NEW signers, NEW signedAt,
           NEW blobHash, NEW cipher, NEW encryption, NEW lineage
    PROVE  LET c == SealArtifact(files, events, signers, signedAt, blobHash, cipher,
                                 encryption, lineage)
               feh == FirstEventHash(events)
               id == ComputeCapsuleId(originator, feh, CurrentVersion)
           IN  /\ c = [manifest |-> c.manifest, envelope |-> c.envelope,
                       signers |-> c.signers, files |-> files]
               /\ c.files = files
               /\ c.signers = SignEnvelope(c.envelope, signers)
               /\ c.manifest.version = CurrentVersion /\ c.envelope.version = CurrentVersion
               /\ c.manifest.profile = Absent /\ c.envelope.profile = Absent
               /\ c.manifest.id = id /\ c.envelope.capsule_id = id
               /\ c.manifest.originator = originator
               /\ c.manifest.participants = participants
               /\ c.manifest.first_event_hash = feh /\ c.envelope.first_event_hash = feh
               /\ c.envelope.entry_hash = EntryHash(events)
               /\ c.envelope.manifest_hash = ManifestHash(c.manifest)
               /\ c.manifest.content_index = SealedIndex(files, cipher)
               /\ c.envelope.content_index_hash = SealedIndex(files, cipher).index_hash
               /\ c.envelope.encrypted_blob_hash = blobHash
               /\ c.envelope.cipher = cipher
               /\ c.manifest.encryption = encryption
               /\ c.manifest.signer_commitment = Members(signers)
               /\ c.manifest.predecessors = lineage
  BY DEF SealArtifact, BuildManifest, BuildEnvelope, BuildSignerCommitment

\* Lists of signers seal() takes.
Signing(signers) == IsSeq(signers) /\ signers # <<>> /\ ~HasDuplicateMember(signers)

\* The signers a caller passes are a list.
LEMMA ListedAreSeq ==
    ASSUME NEW signers \in SignerLists
    PROVE  IsSeq(signers)
  BY SignersAssumption DEF IsSeq

\* A lineage member verifyCapsule finds well formed.
Declared(lineage) == lineage = Absent \/ PredecessorsWellFormed(lineage)

\* Identity, index, signatures, signer set and lineage of a sealed capsule are as
\* the reader wants them; participants, blob, chain and originator are left.
LEMMA SealedUpTo ==
    ASSUME Placeholders, originator \in Keys,
           NEW files, NEW events, NEW signers, NEW signedAt,
           NEW blobHash, NEW cipher \in SupportedCiphers, NEW encryption, NEW lineage,
           Signing(signers), Declared(lineage),
           FirstEventHash(events) \notin {Malformed, Null}
    PROVE  LET c == SealArtifact(files, events, signers, signedAt, blobHash, cipher,
                                 encryption, lineage)
           IN  /\ OpenGate(c) = "pass"
               /\ \A options :
                      VerifyOk(c, options)
                          <=> /\ ParticipantsOk(c) /\ BlobOk(c) /\ EncryptionOk(c) /\ ChainOk(c)
                              /\ OriginatorSigned(c) /\ OuterOk(c, options)
  <1> DEFINE c == SealArtifact(files, events, signers, signedAt, blobHash, cipher,
                               encryption, lineage)
             feh == FirstEventHash(events)
             id == ComputeCapsuleId(originator, feh, CurrentVersion)
  <1>1. /\ c.files = files
        /\ c.signers = SignEnvelope(c.envelope, signers)
        /\ c.manifest.version = CurrentVersion /\ c.envelope.version = CurrentVersion
        /\ c.manifest.profile = Absent /\ c.envelope.profile = Absent
        /\ c.manifest.id = id /\ c.envelope.capsule_id = id
        /\ c.manifest.originator = originator
        /\ c.manifest.first_event_hash = feh /\ c.envelope.first_event_hash = feh
        /\ c.envelope.manifest_hash = ManifestHash(c.manifest)
        /\ c.manifest.content_index = SealedIndex(files, cipher)
        /\ c.envelope.content_index_hash = SealedIndex(files, cipher).index_hash
        /\ c.envelope.cipher = cipher
        /\ c.manifest.signer_commitment = Members(signers)
        /\ c.manifest.predecessors = lineage
    BY SealedDocuments
  <1>2. id # Malformed /\ feh # Malformed /\ originator # Malformed
    BY DEF Placeholders
  <1> HIDE DEF c, feh, id
  <1>3. IsSeq(signers) /\ 1 \in DOMAIN signers
    BY SeqShape DEF Signing
  <1>4. /\ IsSeq(c.signers) /\ DOMAIN c.signers = DOMAIN signers
        /\ \A i \in DOMAIN c.signers : SignatureValid(c.signers[i], c.envelope)
        /\ Members(c.signers) = Members(signers)
        /\ \A i \in DOMAIN signers : /\ c.signers[i].role = signers[i].role
                                     /\ c.signers[i].public_key = signers[i].public_key
    <2>1. \A i \in DOMAIN signers : /\ c.signers[i].role = signers[i].role
                                    /\ c.signers[i].public_key = signers[i].public_key
      BY <1>1 DEF SignEnvelope
    <2> QED BY <1>1, <1>3, <2>1, SignedRows
  <1>5. c.signers # <<>>
    BY <1>3, <1>4
  <1>6. ClassifyVersion(CurrentVersion) = "known" /\ CurrentVersion \in LineageEras
    BY DEF ClassifyVersion, CurrentVersion, KnownVersions, LineageEras
  <1>7. ClassifyProfile(Absent, Absent) = "default"
    BY DEF ClassifyProfile, NormalProfile, Placeholders
  <1>8. OpenGate(c) = "pass" /\ Gate(c) = "pass"
    BY <1>1, <1>2, <1>5, <1>6, <1>7 DEF OpenGate, Gate
  <1>9. IdentityOk(c) /\ FirstEventHashOk(c) /\ ManifestHashOk(c)
    BY <1>1 DEF IdentityOk, FirstEventHashOk, ManifestHashOk, id
  <1>10. ContentIndexOk(c)
    BY <1>1 DEF ContentIndexOk, Recomputed, SealedIndex
  <1>11. LineageOk(c)
    BY <1>1 DEF LineageOk, Declared
  <1>12. RowsEvaluated(c) /\ SignaturesOk(c)
    BY <1>1, <1>4, <1>5 DEF RowsEvaluated, SignaturesOk, HasDuplicateMember, Signing
  <1>13. SignerSetOk(c)
    <2>1. Members(signers) # {}
      BY <1>3 DEF Members
    <2> QED BY <1>1, <1>4, <2>1 DEF SignerSetOk
  <1>14. OriginatorBound(c) <=> OriginatorSigned(c)
    BY <1>4, <1>12 DEF OriginatorBound, OriginatorSigned, Members
  <1>15. \A options :
            VerifyOk(c, options)
                <=> /\ ParticipantsOk(c) /\ BlobOk(c) /\ EncryptionOk(c) /\ ChainOk(c)
                    /\ OriginatorSigned(c) /\ OuterOk(c, options)
    BY <1>8, <1>9, <1>10, <1>11, <1>12, <1>13, <1>14 DEF VerifyOk
  <1> QED BY <1>8, <1>15 DEF c


(* No caller's file takes the place of a blob. *)
ClearInv == BlobPath \notin DOMAIN written /\ BlobPath \notin DOMAIN carried

\* A chain the builder may hold: a sequence of events of known kinds.
Bare(bare) == IsSeq(bare) /\ \A i \in DOMAIN bare : bare[i].kind \in EventKinds

\* A plain capsule verifies exactly if the originator signed and the participants
\* cover the actors, below an outer layer exactly if it agrees with that too.
LEMMA PlainVerifies ==
    ASSUME Placeholders, originator \in Keys, ParticipantsWellFormed(participants), ClearInv,
           NEW bare, Bare(bare), bare # <<>>,
           NEW signers, NEW signedAt, NEW lineage, Signing(signers), Declared(lineage)
    PROVE  LET c == PlainArtifact(bare, signers, signedAt, lineage)
               events == BuildChainEvents(bare)
           IN  /\ c # Null
               /\ OpenGate(c) = "pass"
               /\ Events(c) = events
               /\ c.manifest.id = ComputeCapsuleId(originator, FirstEventHash(events),
                                                   CurrentVersion)
               /\ c.envelope.capsule_id = c.manifest.id
               /\ c.envelope.first_event_hash = FirstEventHash(events)
               /\ c.envelope.entry_hash = EntryHash(events)
               /\ c.manifest.predecessors = lineage
               /\ \A options :
                      VerifyOk(c, options)
                          <=> /\ OriginatorSigned(c) /\ ActorsCovered(c)
                              /\ OuterOk(c, options)
  <1> DEFINE events == BuildChainEvents(bare)
             files == InnerFiles(events)
             feh == FirstEventHash(events)
             c == SealArtifact(files, events, signers, signedAt, Null, "none", Null, lineage)
  <1>1. /\ Len(events) = Len(bare) /\ Len(bare) \in Nat \ {0}
        /\ feh = HashEvent(bare[1], 1, GenesisPrev)
    BY CommittedHashes DEF Bare
  <1>2. events = BuildChainEvents(bare) /\ feh = FirstEventHash(events)
    OBVIOUS
  <1>3. /\ ChainPath \in DOMAIN files /\ files[ChainPath] = Jsonl(events)
        /\ BlobPath \notin DOMAIN files
    BY PathsApart DEF InnerFiles, Over, File, ClearInv
  <1>4. PlainArtifact(bare, signers, signedAt, lineage) = c
    BY DEF PlainArtifact
  <1> HIDE DEF events, files, feh
  <1>5. feh \notin {Malformed, Null}
    BY <1>1 DEF Placeholders
  <1>6. /\ c = [manifest |-> c.manifest, envelope |-> c.envelope,
                signers |-> c.signers, files |-> files]
        /\ c.files = files
        /\ c.manifest.id = ComputeCapsuleId(originator, feh, CurrentVersion)
        /\ c.envelope.capsule_id = c.manifest.id
        /\ c.manifest.participants = participants
        /\ c.manifest.first_event_hash = feh /\ c.envelope.first_event_hash = feh
        /\ c.envelope.entry_hash = EntryHash(events)
        /\ c.envelope.encrypted_blob_hash = Null
        /\ c.envelope.cipher = "none"
        /\ c.manifest.encryption = Null
        /\ c.manifest.predecessors = lineage
    BY <1>2, SealedDocuments
  <1>7. /\ OpenGate(c) = "pass"
        /\ \A options :
               VerifyOk(c, options)
                   <=> /\ ParticipantsOk(c) /\ BlobOk(c) /\ EncryptionOk(c) /\ ChainOk(c)
                       /\ OriginatorSigned(c) /\ OuterOk(c, options)
    BY <1>2, <1>5, SealedUpTo DEF SupportedCiphers
  <1> HIDE DEF c
  <1>8. ParticipantsOk(c) /\ BlobOk(c) /\ EncryptionOk(c)
    BY <1>3, <1>6 DEF ParticipantsOk, BlobOk, EncryptionOk
  <1>9. Events(c) = events /\ HasEvents(c) /\ ~IsEncrypted(c)
    BY <1>3, <1>6 DEF Events, HasEvents, IsEncrypted, Jsonl
  <1>10. events # <<>>
    BY <1>1
  <1>11. DOMAIN events = DOMAIN bare /\ \A i \in DOMAIN bare : events[i].bare = bare[i]
    BY DEF BuildChainEvents, events
  <1>12. VerifyChain(events, participants) <=> ActorsCovered(c)
    <2>1. VerifyChain(events, participants)
              <=> \A i \in DOMAIN bare : ActorAllowed(bare[i].actor, participants)
      BY <1>2, BuiltChainVerifies DEF Bare
    <2> QED BY <1>6, <1>9, <1>11, <2>1 DEF ActorsCovered
  <1>13. ChainOk(c) <=> ActorsCovered(c)
    BY <1>2, <1>5, <1>6, <1>9, <1>10, <1>12 DEF ChainOk, WalkedChainOk
  <1>14. c # Null
    BY <1>6 DEF Placeholders
  <1> QED BY <1>2, <1>4, <1>6, <1>7, <1>8, <1>9, <1>13, <1>14

\* An encrypted capsule opens for its recipients, and verifies exactly if the
\* originator signed and the participants it was finished with are well formed.
LEMMA OuterVerifies ==
    ASSUME Placeholders, originator \in Keys,
           NEW bare, Bare(bare), bare # <<>>,
           NEW inner, OpenGate(inner) = "pass",
           inner.envelope.capsule_id =
               ComputeCapsuleId(originator, FirstEventHash(BuildChainEvents(bare)), CurrentVersion),
           inner.envelope.first_event_hash = FirstEventHash(BuildChainEvents(bare)),
           NEW recipients, NEW contentKey, NEW signers, NEW signedAt, NEW lineage,
           Signing(signers), Declared(lineage)
    PROVE  LET c == OuterArtifact(bare, inner, recipients, contentKey, signers, signedAt, lineage)
               events == BuildChainEvents(bare)
           IN  /\ c.manifest.id = ComputeCapsuleId(originator, FirstEventHash(events),
                                                   CurrentVersion)
               /\ c.envelope.capsule_id = c.manifest.id
               /\ c.envelope.first_event_hash = FirstEventHash(events)
               /\ c.envelope.entry_hash = EntryHash(events)
               /\ c.manifest.predecessors = lineage
               /\ VerifyOk(c, NoOptions) <=> OriginatorSigned(c) /\ ParticipantsOk(c)
               /\ \A r : CanDecrypt(c, r) <=> r \in recipients
               /\ Decrypted(c) = inner
  <1> DEFINE events == BuildChainEvents(bare)
             files == EncryptedFiles(inner, recipients, contentKey)
             feh == FirstEventHash(events)
             aad == Aad(CurrentVersion, inner.envelope.capsule_id,
                        inner.envelope.first_event_hash, originator)
             bundles == KeyBundles(recipients, contentKey, CurrentVersion)
             encryption == [metadata_path |-> DecryptionPath, cipher |-> "ChaCha20-Poly1305"]
             c == SealArtifact(files, events, signers, signedAt, FileHash(files[BlobPath]),
                               "ChaCha20-Poly1305", encryption, lineage)
  <1>1. feh = HashEvent(bare[1], 1, GenesisPrev)
    BY CommittedHashes DEF Bare
  <1>2. /\ events = BuildChainEvents(bare) /\ feh = FirstEventHash(events)
        /\ encryption.metadata_path = DecryptionPath
        /\ encryption.cipher = "ChaCha20-Poly1305"
        /\ "ChaCha20-Poly1305" # "none"
        /\ "ChaCha20-Poly1305" \in SupportedCiphers
    BY DEF SupportedCiphers
  <1>3. /\ DOMAIN files = {DecryptionPath, BlobPath}
        /\ DecryptionPath # BlobPath
        /\ files[DecryptionPath] = DecryptionMetadata(bundles)
        /\ files[BlobPath] = Aead(contentKey, aad, inner)
    BY PathsApart DEF EncryptedFiles, Over, File
  <1>4. OuterArtifact(bare, inner, recipients, contentKey, signers, signedAt, lineage) = c
    BY DEF OuterArtifact
  <1>5. encryption # Null
    BY DEF Placeholders
  <1> HIDE DEF events, files, feh, encryption
  <1>6. feh \notin {Malformed, Null}
    BY <1>1 DEF Placeholders
  <1>7. /\ c.files = files
        /\ c.manifest.version = CurrentVersion /\ c.envelope.version = CurrentVersion
        /\ c.manifest.id = ComputeCapsuleId(originator, feh, CurrentVersion)
        /\ c.envelope.capsule_id = c.manifest.id
        /\ c.manifest.originator = originator
        /\ c.manifest.first_event_hash = feh /\ c.envelope.first_event_hash = feh
        /\ c.envelope.entry_hash = EntryHash(events)
        /\ c.manifest.content_index = SealedIndex(files, "ChaCha20-Poly1305")
        /\ c.envelope.encrypted_blob_hash = FileHash(files[BlobPath])
        /\ c.envelope.cipher = "ChaCha20-Poly1305"
        /\ c.manifest.encryption = encryption
        /\ c.manifest.predecessors = lineage
    BY <1>2, SealedDocuments
  <1>8. /\ OpenGate(c) = "pass"
        /\ \A options :
               VerifyOk(c, options)
                   <=> /\ ParticipantsOk(c) /\ BlobOk(c) /\ EncryptionOk(c) /\ ChainOk(c)
                       /\ OriginatorSigned(c) /\ OuterOk(c, options)
    BY <1>2, <1>6, SealedUpTo
  <1> HIDE DEF c, aad, bundles
  <1>9. IsEncrypted(c) /\ ChainOk(c) /\ BlobOk(c)
    BY <1>2, <1>3, <1>7 DEF IsEncrypted, ChainOk, BlobOk
  <1>10. EncryptionOk(c)
    <2>1. DecryptionPath \in DOMAIN SealedIndex(files, "ChaCha20-Poly1305").files
      BY <1>2, <1>3 DEF SealedIndex, BuildContentIndex, ContentIndexExclusions
    <2> QED BY <1>2, <1>3, <1>5, <1>7, <2>1 DEF EncryptionOk
  <1>11. OuterOk(c, NoOptions)
    BY DEF OuterOk, NoOptions
  <1>12. VerifyOk(c, NoOptions) <=> OriginatorSigned(c) /\ ParticipantsOk(c)
    BY <1>8, <1>9, <1>10, <1>11
  <1>13. MetadataPath(c) = DecryptionPath
    BY <1>2, <1>5, <1>7 DEF MetadataPath
  <1>14. /\ HasMetadata(c)
         /\ c.files[MetadataPath(c)][2] = bundles
    BY <1>3, <1>7, <1>13 DEF HasMetadata, DecryptionMetadata
  <1>15. /\ c.files[BlobPath][1] = "aead"
         /\ c.files[BlobPath][2] = contentKey
         /\ c.files[BlobPath][3] = aad
         /\ c.files[BlobPath][4] = inner
    BY <1>3, <1>7 DEF Aead
  <1>16. aad = AadOf(c)
    BY <1>2, <1>7 DEF aad, AadOf
  <1>17. ASSUME NEW r
         PROVE  (\E b \in BundlesOf(c, r) : contentKey = b.wrapped) <=> r \in recipients
    <2>1. BundlesOf(c, r) = {b \in bundles : b.recipient = r /\ b.version = CurrentVersion}
      BY <1>7, <1>14 DEF BundlesOf
    <2>2. bundles = {[recipient |-> q, version |-> CurrentVersion, wrapped |-> contentKey] :
                        q \in recipients}
      BY DEF bundles, KeyBundles
    <2> DEFINE own == [recipient |-> r, version |-> CurrentVersion, wrapped |-> contentKey]
    <2>3. r \in recipients => own \in BundlesOf(c, r) /\ own.wrapped = contentKey
      BY <2>1, <2>2
    <2>4. \A b \in BundlesOf(c, r) : r \in recipients
      BY <2>1, <2>2
    <2> HIDE DEF own
    <2> QED BY <2>3, <2>4
  <1>18. ASSUME NEW r
         PROVE  CanDecrypt(c, r) <=> r \in recipients
    <2>1. CanDecrypt(c, r) <=> \E b \in BundlesOf(c, r) : contentKey = b.wrapped
      BY <1>8, <1>9, <1>14, <1>15, <1>16 DEF CanDecrypt
    <2> QED BY <1>17, <2>1
  <1> QED BY <1>2, <1>4, <1>7, <1>12, <1>15, <1>18 DEF Decrypted

-----------------------------------------------------------------------------
(* The invariant behind SealedVerifies and RecipientsDecrypt *)

\* What an encrypted seal that waits has in its locals, for the originator the
\* builder keeps while it waits.
Pending(s, key) ==
    LET events == BuildChainEvents(s.bare)
    IN  /\ Signing(s.signers) /\ Declared(s.lineage)
        /\ Bare(s.bare) /\ s.bare # <<>>
        /\ s.inner # Null
        /\ OpenGate(s.inner) = "pass"
        /\ Events(s.inner) = events
        /\ s.inner.envelope.capsule_id =
               ComputeCapsuleId(key, FirstEventHash(events), CurrentVersion)
        /\ s.inner.envelope.first_event_hash = FirstEventHash(events)
        /\ s.inner.envelope.entry_hash = EntryHash(events)
        /\ Absent \in {s.inner.manifest.predecessors, s.lineage}
               \/ s.inner.manifest.predecessors = s.lineage
        /\ \A options :
               VerifyOk(s.inner, options)
                   <=> /\ OriginatorSigned(s.inner) /\ ActorsCovered(s.inner)
                       /\ OuterOk(s.inner, options)

SealInv ==
    /\ originator \in Keys
    /\ Bare(bareEvents)
    /\ ClearInv
    /\ IsSeq(sealed)
    /\ \A s \in sealing : Pending(s, originator)
    /\ \A i \in DOMAIN sealed :
           /\ WriterAndReaderAgree(sealed[i])
           /\ sealed[i].inner # Null => OpensForRecipients(sealed[i])

LEMMA BackstopIsBare ==
    ASSUME Bare(bareEvents), NEW signedAt
    PROVE  Bare(SealEvents(signedAt)) /\ SealEvents(signedAt) # <<>>
  <1> DEFINE one == <<Backstop(signedAt)>>
  <1>1. IsSeq(one) /\ one # <<>> /\ DOMAIN one = {1} /\ one[1] = Backstop(signedAt)
    BY DEF IsSeq
  <1>2. Backstop(signedAt).kind \in EventKinds
    BY DEF Backstop, BareEvent, EventKinds
  <1> HIDE DEF one
  <1>3. Bare(one)
    BY <1>1, <1>2 DEF Bare
  <1> QED BY <1>1, <1>3 DEF SealEvents, one

\* A plain seal.
LEMMA PlainSealAgrees ==
    ASSUME Placeholders, originator \in Keys, ClearInv, Bare(bareEvents),
           NEW signers \in SignerLists, NEW signedAt, SealAllowed(signers),
           ~HasDuplicateMember(signers)
    PROVE  WriterAndReaderAgree(
               [outer |-> PlainArtifact(SealEvents(signedAt), signers, signedAt, LineageMember),
                inner |-> Null, recipients |-> {}, builder |-> builders])
  <1> DEFINE bare == SealEvents(signedAt)
             c == PlainArtifact(bare, signers, signedAt, LineageMember)
             seal == [outer |-> c, inner |-> Null, recipients |-> {}, builder |-> builders]
  <1>1. Bare(bare) /\ bare # <<>>
    BY BackstopIsBare
  <1>2. Signing(signers) /\ Declared(LineageMember) /\ ParticipantsWellFormed(participants)
    BY ListedAreSeq DEF Signing, Declared, LineageMember, SealAllowed
  <1> HIDE DEF bare
  <1>3. VerifyOk(c, NoOptions)
            <=> OriginatorSigned(c) /\ ActorsCovered(c) /\ OuterOk(c, NoOptions)
    BY <1>1, <1>2, PlainVerifies
  <1> HIDE DEF c
  <1>4. OuterOk(c, NoOptions)
    BY DEF OuterOk, NoOptions
  <1>5. seal.outer = c /\ seal.inner = Null
    OBVIOUS
  <1> HIDE DEF seal
  <1>6. WriterAndReaderAgree(seal)
    BY <1>3, <1>4, <1>5 DEF WriterAndReaderAgree
  <1> QED BY <1>6 DEF seal, c, bare

\* The first half of an encrypted seal.
LEMMA BegunIsPending ==
    ASSUME Placeholders, originator \in Keys, ClearInv, Bare(bareEvents),
           NEW signers \in SignerLists, NEW signedAt, NEW recipients, NEW placement,
           SealAllowed(signers), ~HasDuplicateMember(signers)
    PROVE  Pending([bare       |-> SealEvents(signedAt),
                    inner      |-> PlainArtifact(SealEvents(signedAt), signers, signedAt,
                                       IF placement = "outer" THEN Absent ELSE LineageMember),
                    lineage    |-> IF placement = "inner" THEN Absent ELSE LineageMember,
                    signers    |-> signers,
                    signedAt   |-> signedAt,
                    recipients |-> recipients], originator)
  <1> DEFINE bare == SealEvents(signedAt)
             events == BuildChainEvents(bare)
             within == IF placement = "outer" THEN Absent ELSE LineageMember
             without == IF placement = "inner" THEN Absent ELSE LineageMember
             inner == PlainArtifact(bare, signers, signedAt, within)
             s == [bare |-> bare, inner |-> inner, lineage |-> without, signers |-> signers,
                   signedAt |-> signedAt, recipients |-> recipients]
  <1>1. Bare(bare) /\ bare # <<>>
    BY BackstopIsBare
  <1>2. /\ Signing(signers) /\ ParticipantsWellFormed(participants)
        /\ Declared(within) /\ Declared(without)
    BY ListedAreSeq DEF Signing, Declared, LineageMember, SealAllowed
  <1>3. Absent \in {within, without} \/ within = without
    OBVIOUS
  <1> HIDE DEF bare, within, without
  <1>4. /\ inner # Null
        /\ OpenGate(inner) = "pass"
        /\ Events(inner) = events
        /\ inner.manifest.id = ComputeCapsuleId(originator, FirstEventHash(events),
                                                CurrentVersion)
        /\ inner.envelope.capsule_id = inner.manifest.id
        /\ inner.envelope.first_event_hash = FirstEventHash(events)
        /\ inner.envelope.entry_hash = EntryHash(events)
        /\ inner.manifest.predecessors = within
        /\ \A options :
               VerifyOk(inner, options)
                   <=> /\ OriginatorSigned(inner) /\ ActorsCovered(inner)
                       /\ OuterOk(inner, options)
    BY <1>1, <1>2, PlainVerifies
  <1> HIDE DEF inner
  <1>5. /\ s.bare = bare /\ s.inner = inner /\ s.lineage = without /\ s.signers = signers
    OBVIOUS
  <1> HIDE DEF s
  <1>6. Pending(s, originator)
    BY <1>1, <1>2, <1>3, <1>4, <1>5 DEF Pending
  <1> QED BY <1>6 DEF s, bare, within, without, inner

\* The second half: the layers agree, whatever the builder became in between.
LEMMA FinishedAgrees ==
    ASSUME Placeholders, originator \in Keys, NEW s, Pending(s, originator), NEW contentKey
    PROVE  LET seal == [outer |-> OuterArtifact(s.bare, s.inner, s.recipients, contentKey,
                                                s.signers, s.signedAt, s.lineage),
                        inner |-> s.inner, recipients |-> s.recipients, builder |-> builders]
           IN  WriterAndReaderAgree(seal) /\ OpensForRecipients(seal)
  <1> DEFINE outer == OuterArtifact(s.bare, s.inner, s.recipients, contentKey,
                                    s.signers, s.signedAt, s.lineage)
             inner == s.inner
             events == BuildChainEvents(s.bare)
             options == InnerOptions(outer, NoOptions)
             seal == [outer |-> outer, inner |-> inner, recipients |-> s.recipients,
                      builder |-> builders]
  <1>1. /\ Signing(s.signers) /\ Declared(s.lineage)
        /\ Bare(s.bare) /\ s.bare # <<>>
        /\ inner # Null
        /\ OpenGate(inner) = "pass"
        /\ inner.envelope.capsule_id =
               ComputeCapsuleId(originator, FirstEventHash(events), CurrentVersion)
        /\ inner.envelope.first_event_hash = FirstEventHash(events)
        /\ inner.envelope.entry_hash = EntryHash(events)
        /\ Absent \in {inner.manifest.predecessors, s.lineage}
               \/ inner.manifest.predecessors = s.lineage
        /\ \A o : VerifyOk(inner, o)
                      <=> /\ OriginatorSigned(inner) /\ ActorsCovered(inner)
                          /\ OuterOk(inner, o)
    BY DEF Pending
  <1>2. /\ outer.manifest.id = ComputeCapsuleId(originator, FirstEventHash(events),
                                                CurrentVersion)
        /\ outer.envelope.capsule_id = outer.manifest.id
        /\ outer.envelope.first_event_hash = FirstEventHash(events)
        /\ outer.envelope.entry_hash = EntryHash(events)
        /\ outer.manifest.predecessors = s.lineage
        /\ VerifyOk(outer, NoOptions) <=> OriginatorSigned(outer) /\ ParticipantsOk(outer)
        /\ \A r : CanDecrypt(outer, r) <=> r \in s.recipients
        /\ Decrypted(outer) = inner
    BY <1>1, OuterVerifies
  <1> HIDE DEF outer, inner
  <1>3. /\ options.outerEnvelope = outer.envelope
        /\ options.outerManifest = outer.manifest
    BY DEF InnerOptions, NoOptions
  <1>4. OuterOk(inner, NoOptions) /\ OuterOk(inner, options)
    <2>1. OuterOk(inner, NoOptions)
      BY DEF OuterOk, NoOptions
    <2> HIDE DEF options
    <2>2. OuterOk(inner, options)
      BY <1>1, <1>2, <1>3 DEF OuterOk
    <2> QED BY <2>1, <2>2
  <1>5. seal.outer = outer /\ seal.inner = inner /\ seal.recipients = s.recipients
    OBVIOUS
  <1> HIDE DEF seal
  <1>6. WriterAndReaderAgree(seal)
    BY <1>1, <1>2, <1>4, <1>5 DEF WriterAndReaderAgree
  <1>7. OpensForRecipients(seal)
    BY <1>2, <1>5 DEF OpensForRecipients
  <1> QED BY <1>6, <1>7 DEF seal, outer, inner

-----------------------------------------------------------------------------
(* Issuing adds the new pair to what was issued and takes nothing back. *)
LEMMA IssueEffect ==
    ASSUME IsSeq(sealed), NEW outer, NEW inner, NEW recipients, Issue(outer, inner, recipients)
    PROVE  /\ IsSeq(sealed)'
           /\ DOMAIN sealed \subseteq DOMAIN sealed'
           /\ \A i \in DOMAIN sealed : sealed'[i] = sealed[i]
           /\ \A i \in DOMAIN sealed' \ DOMAIN sealed :
                 sealed'[i] = [outer |-> outer, inner |-> inner,
                  recipients |-> recipients, builder |-> builders]
           /\ Issued \subseteq Issued'
           /\ \A c \in Issued' : c \in Issued \/ c = outer \/ (c = inner /\ inner # Null)
  <1> DEFINE pair == [outer |-> outer, inner |-> inner,
                  recipients |-> recipients, builder |-> builders]
  <1>1. sealed' = Append(sealed, pair)
    BY DEF Issue
  <1>2. /\ IsSeq(sealed')
        /\ DOMAIN sealed \subseteq DOMAIN sealed'
        /\ \A i \in DOMAIN sealed : sealed'[i] = sealed[i]
        /\ \A i \in DOMAIN sealed' \ DOMAIN sealed : sealed'[i] = pair
    BY <1>1, AppendedSeq
  <1>3. IsSeq(sealed)'
    BY <1>2 DEF IsSeq
  <1>4. Issued \subseteq Issued'
    BY <1>2 DEF Issued
  <1>5. ASSUME NEW c \in Issued'
        PROVE  c \in Issued \/ c = outer \/ (c = inner /\ inner # Null)
    <2>1. PICK i \in DOMAIN sealed' :
              c = sealed'[i].outer \/ (c = sealed'[i].inner /\ sealed'[i].inner # Null)
      BY DEF Issued
    <2>2. CASE i \in DOMAIN sealed
      BY <1>2, <2>1, <2>2 DEF Issued
    <2>3. CASE i \notin DOMAIN sealed
      <3>1. sealed'[i].outer = outer /\ sealed'[i].inner = inner
        BY <1>2, <2>3
      <3> QED
        BY <2>1, <3>1
    <2> QED
      BY <2>2, <2>3
  <1> QED
    BY <1>2, <1>3, <1>4, <1>5

(* A file written anywhere but at the place of the blob. *)
LEMMA WriteKeepsClear ==
    ASSUME ClearInv, NEW path, path # BlobPath, NEW bytes,
           Write(Over(File(path, bytes), written))
    PROVE  ClearInv' /\ UNCHANGED <<sealing, sealed>>
  BY DEF ClearInv, Write, Over, File

(* The methods that fill a builder write no blob and seal nothing. *)
LEMMA FillSteps ==
    ASSUME ClearInv, FillBuilder
    PROVE  ClearInv' /\ UNCHANGED <<sealing, sealed>>
  <1>1. ASSUME NEW declared, AssignParticipants(declared)
        PROVE  ClearInv' /\ UNCHANGED <<sealing, sealed>>
    BY <1>1 DEF AssignParticipants, ClearInv
  <1>2. ASSUME NEW text, SetProgram(text) \/ SetAgents(text)
        PROVE  ClearInv' /\ UNCHANGED <<sealing, sealed>>
    BY <1>2, PathsApart, WriteKeepsClear DEF SetProgram, SetAgents
  <1>3. ASSUME NEW id, NEW json, NEW markdown, AddSkill(id, json, markdown)
        PROVE  ClearInv' /\ UNCHANGED <<sealing, sealed>>
    <2> DEFINE others == [p \in DOMAIN written \ {SkillJsonPath(id), SkillMarkdownPath(id)}
                              |-> written[p]]
               own == Over(IF json = Null THEN NoFiles
                           ELSE File(SkillJsonPath(id), Text(json)),
                           IF markdown = Null THEN NoFiles
                           ELSE File(SkillMarkdownPath(id), Text(markdown)))
    <2>1. written' = Over(own, others) /\ UNCHANGED <<carried, sealing, sealed>>
      BY <1>3 DEF AddSkill, Write
    <2>2. BlobPath \notin DOMAIN own
      BY PathsApart DEF Over, File, NoFiles
    <2>3. BlobPath \notin DOMAIN others
      BY DEF ClearInv
    <2>4. BlobPath \notin DOMAIN Over(own, others)
      <3> HIDE DEF own, others
      <3> QED
        BY <2>2, <2>3, MergedFiles
    <2> QED
      BY <2>1, <2>4 DEF ClearInv
  <1>4. ASSUME NEW name, NEW text, AddPayload(name, text)
        PROVE  ClearInv' /\ UNCHANGED <<sealing, sealed>>
    BY <1>4, PathsApart, WriteKeepsClear DEF AddPayload
  <1>5. ASSUME NEW actor, NEW kind, NEW action, NEW timestamp,
               AppendEvent(actor, kind, action, timestamp)
        PROVE  ClearInv' /\ UNCHANGED <<sealing, sealed>>
    BY <1>5 DEF AppendEvent, settings, ClearInv
  <1>6. ASSUME NEW entry, DeclarePredecessorEntry(entry)
        PROVE  ClearInv' /\ UNCHANGED <<sealing, sealed>>
    BY <1>6 DEF DeclarePredecessorEntry, ClearInv
  <1>7. CASE PreviewCapsuleId
    BY <1>7 DEF PreviewCapsuleId, settings, ClearInv
  <1> QED
    BY <1>1, <1>2, <1>3, <1>4, <1>5, <1>6, <1>7 DEF FillBuilder

(* What a successor carries is never a blob, whatever it continues from. *)
LEMMA NewBuilderSteps ==
    ASSUME ClearInv, NEW pool, NewBuilder \/ Continue(pool)
    PROVE  ClearInv' /\ UNCHANGED <<sealing, sealed>>
  <1>1. DOMAIN NoFiles = {}
    BY DEF NoFiles
  <1>2. ASSUME NEW key, NEW declared, Construct(key, declared)
        PROVE  ClearInv' /\ UNCHANGED <<sealing, sealed>>
    BY <1>1, <1>2 DEF Construct, ClearInv
  <1>3. ASSUME NEW c, NEW allowInvalid, DeclarePredecessor(c, allowInvalid)
        PROVE  ClearInv' /\ UNCHANGED <<sealing, sealed>>
    BY <1>3 DEF DeclarePredecessor, DeclarePredecessorEntry, ClearInv
  <1>4. ASSUME NEW c, NEW allowInvalid, NEW carry, NEW key, NEW declared,
               NEW custodyActor, NEW createdAt,
               ContinueFrom(c, allowInvalid, carry, key, declared, custodyActor, createdAt)
        PROVE  ClearInv' /\ UNCHANGED <<sealing, sealed>>
    <2>1. /\ carry \subseteq CarriablePaths(c)
          /\ carried' = [p \in carry |-> c.files[p]]
          /\ written' = NoFiles
          /\ UNCHANGED <<sealing, sealed>>
      BY <1>4 DEF ContinueFrom
    <2>2. BlobPath \notin CarriablePaths(c)
      BY DEF CarriablePaths, IsCarriablePath
    <2> QED
      BY <1>1, <2>1, <2>2 DEF ClearInv
  <1> QED
    BY <1>2, <1>3, <1>4 DEF NewBuilder, Continue


-----------------------------------------------------------------------------
(* What the steps do to the chain and to the identity of the builder *)

LEMMA BeginsItself ==
    ASSUME NEW bare
    PROVE  Begins(bare, bare)
  BY DEF Begins

LEMMA BeginsThrough ==
    ASSUME NEW a, NEW b, NEW c, IsSeq(a), IsSeq(b), IsSeq(c), Begins(a, b), Begins(b, c)
    PROVE  Begins(a, c)
  <1>1. Len(a) \in Nat /\ Len(b) \in Nat /\ Len(c) \in Nat
    BY SeqShape
  <1> QED BY <1>1 DEF Begins

\* The builder goes on with the line it has, or the next builder begins.
SameBuilder ==
    /\ UNCHANGED <<originator, builders>>
    /\ Begins(bareEvents, bareEvents')
    /\ UNCHANGED previews \/ PreviewCapsuleId

NextBuilder ==
    /\ sealing = {}
    /\ originator' \in Keys
    /\ builders' = builders + 1
    /\ previews' = {}

LEMMA AppendedEvent ==
    ASSUME Bare(bareEvents), NEW actor, NEW kind, NEW action, NEW timestamp,
           AppendEvent(actor, kind, action, timestamp)
    PROVE  Bare(bareEvents)' /\ SameBuilder
  <1> DEFINE e == BareEvent(actor, kind, action, DefaultTarget, timestamp)
             longer == Append(bareEvents, e)
  <1>1. /\ bareEvents' = longer
        /\ kind \in EventKinds
        /\ UNCHANGED <<originator, builders, previews>>
    BY DEF AppendEvent, settings
  <1>2. e.kind = kind
    BY DEF BareEvent
  <1>3. IsSeq(bareEvents) /\ \A i \in DOMAIN bareEvents : bareEvents[i].kind \in EventKinds
    BY DEF Bare
  <1> HIDE DEF e
  <1>4. /\ IsSeq(longer)
        /\ \A i \in DOMAIN bareEvents : longer[i] = bareEvents[i]
        /\ \A i \in DOMAIN longer \ DOMAIN bareEvents : longer[i] = e
        /\ DOMAIN bareEvents \subseteq DOMAIN longer
    BY <1>3, AppendedSeq
  <1>5. Len(longer) = Len(bareEvents) + 1 /\ Len(bareEvents) \in Nat
        /\ DOMAIN bareEvents = 1..Len(bareEvents)
    BY <1>3 DEF IsSeq
  <1> HIDE DEF longer
  <1>6. Bare(longer)
    BY <1>1, <1>2, <1>3, <1>4 DEF Bare
  <1>7. Begins(bareEvents, longer)
    BY <1>4, <1>5 DEF Begins
  <1> QED BY <1>1, <1>6, <1>7 DEF SameBuilder, Bare, IsSeq

LEMMA WorkSteps ==
    ASSUME Bare(bareEvents), NEW pool, FillBuilder \/ NewBuilder \/ Continue(pool)
    PROVE  Bare(bareEvents)' /\ (SameBuilder \/ NextBuilder)
  <1>1. ASSUME UNCHANGED <<originator, bareEvents, builders>>,
               UNCHANGED previews \/ PreviewCapsuleId
        PROVE  Bare(bareEvents)' /\ SameBuilder
    BY <1>1, BeginsItself DEF SameBuilder, Bare, IsSeq
  <1>2. ASSUME NEW declared, AssignParticipants(declared)
        PROVE  Bare(bareEvents)' /\ SameBuilder
    BY <1>1, <1>2 DEF AssignParticipants
  <1>3. ASSUME NEW files, Write(files)
        PROVE  Bare(bareEvents)' /\ SameBuilder
    BY <1>1, <1>3 DEF Write
  <1>4. ASSUME NEW id, NEW json, NEW markdown, AddSkill(id, json, markdown)
        PROVE  Bare(bareEvents)' /\ SameBuilder
    BY <1>3, <1>4 DEF AddSkill
  <1>5. ASSUME NEW entry, DeclarePredecessorEntry(entry)
        PROVE  Bare(bareEvents)' /\ SameBuilder
    BY <1>1, <1>5 DEF DeclarePredecessorEntry
  <1>6. ASSUME PreviewCapsuleId
        PROVE  Bare(bareEvents)' /\ SameBuilder
    BY <1>1, <1>6 DEF PreviewCapsuleId, settings
  <1>7. CASE FillBuilder
    BY <1>2, <1>3, <1>4, <1>5, <1>6, <1>7, AppendedEvent
       DEF FillBuilder, SetProgram, SetAgents, AddPayload
  <1>8. ASSUME bareEvents' = <<>>
        PROVE  Bare(bareEvents)'
    BY <1>8 DEF Bare, IsSeq
  <1>9. CASE NewBuilder
    <2>1. bareEvents' = <<>> /\ NextBuilder
      BY <1>9 DEF NewBuilder, Construct, CanConstruct, NextBuilder
    <2> QED BY <1>8, <2>1
  <1>10. ASSUME NEW c, NEW allowInvalid, NEW carry, NEW key \in Keys, NEW declared,
                NEW custodyActor, NEW createdAt,
                ContinueFrom(c, allowInvalid, carry, key, declared, custodyActor, createdAt)
         PROVE  Bare(bareEvents)' /\ NextBuilder
    <2> DEFINE e == CustodyEvent(custodyActor, DerivePredecessorEntry(c).capsule_id, createdAt)
    <2>1. /\ bareEvents' = <<>> \/ bareEvents' = <<e>>
          /\ NextBuilder
      BY <1>10 DEF ContinueFrom, CanConstruct, NextBuilder
    <2>2. e.kind \in EventKinds
      BY DEF CustodyEvent, BareEvent, EventKinds
    <2> HIDE DEF e
    <2>3. IsSeq(<<e>>) /\ DOMAIN <<e>> = {1} /\ <<e>>[1] = e
      BY DEF IsSeq
    <2>4. Bare(<<e>>)
      BY <2>2, <2>3 DEF Bare
    <2> QED BY <1>8, <2>1, <2>4 DEF Bare, IsSeq
  <1>11. CASE Continue(pool)
    BY <1>5, <1>10, <1>11 DEF Continue, DeclarePredecessor
  <1> QED BY <1>7, <1>9, <1>11

\* seal() keeps the line too, the backstop event it queues included.
LEMMA SealedLine ==
    ASSUME Bare(bareEvents), NEW signedAt, bareEvents' = SealEvents(signedAt)
    PROVE  Bare(bareEvents)' /\ bareEvents' # <<>> /\ Begins(bareEvents, bareEvents')
  <1>1. Bare(SealEvents(signedAt)) /\ SealEvents(signedAt) # <<>>
    BY BackstopIsBare
  <1>2. Begins(bareEvents, SealEvents(signedAt))
    <2>1. CASE bareEvents = <<>>
      <3>1. SealEvents(signedAt) = <<Backstop(signedAt)>>
        BY <2>1 DEF SealEvents
      <3>2. Len(<<Backstop(signedAt)>>) = 1 /\ Len(bareEvents) = 0
        BY <2>1
      <3> QED BY <3>1, <3>2 DEF Begins
    <2>2. CASE bareEvents # <<>>
      BY <2>2, BeginsItself DEF SealEvents
    <2> QED BY <2>1, <2>2
  <1> QED BY <1>1, <1>2 DEF Bare, IsSeq

-----------------------------------------------------------------------------
(* The writer and the reader agree *)

\* What keeps SealInv where nothing is issued and no seal begins.
LEMMA NothingSealed ==
    ASSUME SealInv, originator' \in Keys, Bare(bareEvents)', ClearInv',
           originator' = originator \/ sealing' = {},
           sealing' \subseteq sealing, UNCHANGED sealed
    PROVE  SealInv'
  <1>1. \A s \in sealing' : Pending(s, originator')
    BY DEF SealInv
  <1> QED BY <1>1 DEF SealInv, IsSeq

LEMMA WorkKeepsSealInv ==
    ASSUME SealInv, NEW pool, FillBuilder \/ NewBuilder \/ Continue(pool)
    PROVE  SealInv'
  <1>1. ClearInv' /\ UNCHANGED <<sealing, sealed>>
    BY FillSteps, NewBuilderSteps DEF SealInv
  <1>2. Bare(bareEvents)' /\ (SameBuilder \/ NextBuilder)
    BY WorkSteps DEF SealInv
  <1>3. originator' \in Keys /\ (originator' = originator \/ sealing' = {})
    BY <1>1, <1>2 DEF SameBuilder, NextBuilder, SealInv
  <1> QED BY <1>1, <1>2, <1>3, NothingSealed

\* A seal that agrees is added to those that do.
LEMMA IssuedAgree ==
    ASSUME SealInv, Bare(bareEvents)', UNCHANGED <<originator, written, carried>>,
           sealing' \subseteq sealing,
           NEW outer, NEW inner, NEW recipients, Issue(outer, inner, recipients),
           LET seal == [outer |-> outer, inner |-> inner, recipients |-> recipients,
                        builder |-> builders]
           IN  WriterAndReaderAgree(seal) /\ (inner # Null => OpensForRecipients(seal))
    PROVE  SealInv'
  <1> DEFINE seal == [outer |-> outer, inner |-> inner, recipients |-> recipients,
                      builder |-> builders]
  <1>1. seal.inner = inner
    OBVIOUS
  <1>2. WriterAndReaderAgree(seal) /\ (inner # Null => OpensForRecipients(seal))
    OBVIOUS
  <1>3. /\ IsSeq(sealed)'
        /\ \A i \in DOMAIN sealed : sealed'[i] = sealed[i]
        /\ \A i \in DOMAIN sealed' \ DOMAIN sealed : sealed'[i] = seal
    BY IssueEffect DEF SealInv
  <1> HIDE DEF seal
  <1>4. \A i \in DOMAIN sealed' :
            /\ WriterAndReaderAgree(sealed'[i])
            /\ sealed'[i].inner # Null => OpensForRecipients(sealed'[i])
    BY <1>1, <1>2, <1>3 DEF SealInv
  <1>5. \A s \in sealing' : Pending(s, originator')
    BY DEF SealInv
  <1>6. originator' \in Keys /\ ClearInv'
    BY DEF SealInv, ClearInv
  <1> QED BY <1>3, <1>4, <1>5, <1>6 DEF SealInv

LEMMA SealKeepsSealInv ==
    ASSUME Placeholders, SealInv, SealBuilder
    PROVE  SealInv'
  <1>1. originator \in Keys /\ Bare(bareEvents) /\ ClearInv
    BY DEF SealInv
  <1>2. ASSUME NEW signers \in SignerLists, NEW signedAt, SealPlain(signers, signedAt)
        PROVE  SealInv'
    <2> DEFINE c == PlainArtifact(SealEvents(signedAt), signers, signedAt, LineageMember)
    <2>1. /\ SealAllowed(signers) /\ ~HasDuplicateMember(signers)
          /\ bareEvents' = SealEvents(signedAt)
          /\ UNCHANGED <<originator, written, carried, sealing>>
          /\ Issue(c, Null, {})
      BY <1>2 DEF SealPlain, settings
    <2>2. WriterAndReaderAgree([outer |-> c, inner |-> Null, recipients |-> {},
                                builder |-> builders])
      BY <1>1, <2>1, PlainSealAgrees
    <2>3. Bare(bareEvents)'
      BY <1>1, <2>1, SealedLine
    <2> HIDE DEF c
    <2> QED BY <2>1, <2>2, <2>3, IssuedAgree
  <1>3. ASSUME NEW signers \in SignerLists, NEW signedAt, NEW recipients, NEW placement,
               BeginEncrypted(signers, signedAt, recipients, placement)
        PROVE  SealInv'
    <2> DEFINE new == [bare       |-> SealEvents(signedAt),
                       inner      |-> PlainArtifact(SealEvents(signedAt), signers, signedAt,
                                          IF placement = "outer" THEN Absent
                                          ELSE LineageMember),
                       lineage    |-> IF placement = "inner" THEN Absent ELSE LineageMember,
                       signers    |-> signers,
                       signedAt   |-> signedAt,
                       recipients |-> recipients]
    <2>1. /\ SealAllowed(signers) /\ ~HasDuplicateMember(signers)
          /\ bareEvents' = SealEvents(signedAt)
          /\ UNCHANGED <<originator, written, carried, sealed>>
          /\ sealing' = sealing \cup {new}
      BY <1>3 DEF BeginEncrypted, settings
    <2>2. Pending(new, originator)
      BY <1>1, <2>1, BegunIsPending
    <2>3. Bare(bareEvents)'
      BY <1>1, <2>1, SealedLine
    <2> HIDE DEF new
    <2>4. \A s \in sealing' : Pending(s, originator')
      BY <2>1, <2>2 DEF SealInv
    <2> QED BY <2>1, <2>3, <2>4 DEF SealInv, ClearInv, IsSeq
  <1>4. ASSUME NEW s \in sealing, FinishEncrypted(s)
        PROVE  SealInv'
    <2> DEFINE outer == OuterArtifact(s.bare, s.inner, s.recipients, Len(sealed) + 1,
                                      s.signers, s.signedAt, s.lineage)
               inner == s.inner
    <2>1. /\ UNCHANGED <<originator, bareEvents, written, carried>>
          /\ sealing' \subseteq sealing
          /\ Issue(outer, inner, s.recipients)
      BY <1>4 DEF FinishEncrypted, settings
    <2>2. Pending(s, originator)
      BY DEF SealInv
    <2>3. LET seal == [outer |-> outer, inner |-> inner, recipients |-> s.recipients,
                       builder |-> builders]
          IN  WriterAndReaderAgree(seal) /\ OpensForRecipients(seal)
      BY <1>1, <2>2, FinishedAgrees
    <2>4. Bare(bareEvents)'
      BY <1>1, <2>1 DEF Bare, IsSeq
    <2> HIDE DEF outer, inner
    <2> QED BY <2>1, <2>3, <2>4, IssuedAgree
  <1>5. ASSUME NEW signers, NEW signedAt, SealThrows(signers, signedAt)
        PROVE  SealInv'
    <2>1. /\ bareEvents' = SealEvents(signedAt)
          /\ UNCHANGED <<originator, written, carried, sealing, sealed>>
      BY <1>5 DEF SealThrows, settings
    <2>2. Bare(bareEvents)' /\ ClearInv'
      BY <1>1, <2>1, SealedLine DEF ClearInv
    <2> QED BY <1>1, <2>1, <2>2, NothingSealed
  <1> QED BY <1>2, <1>3, <1>4, <1>5 DEF SealBuilder

LEMMA SealInvInit == Init => SealInv
  <1> SUFFICES ASSUME Init PROVE SealInv
    OBVIOUS
  <1>1. /\ originator \in Keys /\ bareEvents = <<>> /\ sealed = <<>> /\ sealing = {}
        /\ written = NoFiles /\ carried = NoFiles
    BY DEF Init
  <1>2. IsSeq(sealed) /\ DOMAIN sealed = {} /\ Bare(bareEvents)
    BY <1>1 DEF IsSeq, Bare
  <1>3. ClearInv
    BY <1>1 DEF ClearInv, NoFiles
  <1> QED BY <1>1, <1>2, <1>3 DEF SealInv

\* A step of the author, whatever it continues from.
LEMMA SealInvStep ==
    ASSUME Placeholders, SealInv, NEW pool,
           FillBuilder \/ SealBuilder \/ NewBuilder \/ Continue(pool)
    PROVE  SealInv'
  BY WorkKeepsSealInv, SealKeepsSealInv

LEMMA SealInvStutter ==
    ASSUME SealInv, UNCHANGED vars
    PROVE  SealInv'
  <1>1. /\ UNCHANGED <<originator, bareEvents, sealing, sealed>>
        /\ ClearInv'
    BY DEF vars, SealInv, ClearInv
  <1>2. Bare(bareEvents)' /\ originator' \in Keys
    BY <1>1 DEF SealInv, Bare, IsSeq
  <1> QED BY <1>1, <1>2, NothingSealed

LEMMA SealInvHolds ==
    ASSUME Placeholders
    PROVE  Spec => []SealInv
  <1>1. SealInv /\ [Next]_vars => SealInv'
    BY SealInvStep, SealInvStutter DEF Next
  <1> QED BY <1>1, SealInvInit, PTL DEF Spec

(* What seal() emits verifies exactly if the originator is among the       *)
(* signers and the declared participants cover the queued actors, plain    *)
(* and encrypted, whatever was called before and between its two halves.   *)
THEOREM SealsVerify ==
    ASSUME Placeholders
    PROVE  Spec => []SealedVerifies
  <1>1. SealInv => SealedVerifies
    BY DEF SealInv, SealedVerifies
  <1> QED BY <1>1, SealInvHolds, PTL

(* decrypt() gives every recipient of a seal, and nobody else, the inner   *)
(* capsule that was sealed with it.                                        *)
THEOREM RecipientsOpen ==
    ASSUME Placeholders
    PROVE  Spec => []RecipientsDecrypt
  <1>1. SealInv => RecipientsDecrypt
    BY DEF SealInv, RecipientsDecrypt
  <1> QED BY <1>1, SealInvHolds, PTL

-----------------------------------------------------------------------------
(* The identity of a line *)

\* The id of every capsule that begins with the events of bare.
LineId(key, bare) ==
    ComputeCapsuleId(key, HashEvent(bare[1], 1, GenesisPrev), CurrentVersion)

\* The seals of the builder at work, the ones that wait and the previews have the
\* id of its line; the seals of each builder before it agree among themselves.
IdInv ==
    /\ Bare(bareEvents) /\ IsSeq(sealed) /\ builders \in Nat \ {0}
    /\ \A i \in DOMAIN sealed : sealed[i].builder \in 1..builders
    /\ \A i \in DOMAIN sealed : sealed[i].builder = builders =>
           bareEvents # <<>> /\ sealed[i].outer.manifest.id = LineId(originator, bareEvents)
    /\ \A s \in sealing : Bare(s.bare) /\ s.bare # <<>> /\ Begins(s.bare, bareEvents)
    /\ \A id \in previews : bareEvents # <<>> /\ id = LineId(originator, bareEvents)
    /\ \A i, j \in DOMAIN sealed : sealed[i].builder = sealed[j].builder =>
           sealed[i].outer.manifest.id = sealed[j].outer.manifest.id

LEMMA BegunLineId ==
    ASSUME NEW key, NEW one, NEW other, IsSeq(one), IsSeq(other), one # <<>>,
           Begins(one, other)
    PROVE  LineId(key, one) = LineId(key, other) /\ other # <<>>
  <1>1. Len(one) \in Nat \ {0} /\ Len(other) \in Nat
    BY SeqShape
  <1>2. 1 \in 1..Len(one) /\ Len(one) <= Len(other)
    BY <1>1 DEF Begins
  <1>3. one[1] = other[1]
    BY <1>2 DEF Begins
  <1>4. other # <<>>
    BY <1>1, <1>2, SeqShape
  <1> QED BY <1>3, <1>4 DEF LineId

LEMMA BuiltLineId ==
    ASSUME NEW key, NEW bare, IsSeq(bare), bare # <<>>
    PROVE  ComputeCapsuleId(key, FirstEventHash(BuildChainEvents(bare)), CurrentVersion)
               = LineId(key, bare)
  BY CommittedHashes DEF LineId

\* A step of one builder: its line grows, and what it adds is of the line.
LEMMA LineStep ==
    ASSUME IdInv, Bare(bareEvents)', Begins(bareEvents, bareEvents'),
           UNCHANGED <<originator, builders>>,
           \A id \in previews' :
               id \in previews \/ (bareEvents' # <<>> /\ id = LineId(originator, bareEvents')),
           \A s \in sealing' :
               s \in sealing \/ (Bare(s.bare) /\ s.bare # <<>> /\ Begins(s.bare, bareEvents')),
           IsSeq(sealed)',
           \A i \in DOMAIN sealed' :
               \/ i \in DOMAIN sealed /\ sealed'[i] = sealed[i]
               \/ /\ sealed'[i].builder = builders
                  /\ bareEvents' # <<>>
                  /\ sealed'[i].outer.manifest.id = LineId(originator, bareEvents')
    PROVE  IdInv'
  <1> DEFINE id == LineId(originator, bareEvents')
  <1>1. builders \in Nat \ {0} /\ IsSeq(bareEvents) /\ IsSeq(bareEvents')
    BY DEF IdInv, Bare, IsSeq
  <1>2. bareEvents # <<>> => bareEvents' # <<>> /\ LineId(originator, bareEvents) = id
    BY <1>1, BegunLineId
  <1> HIDE DEF id
  <1>3. ASSUME NEW i \in DOMAIN sealed'
        PROVE  /\ sealed'[i].builder \in 1..builders
               /\ sealed'[i].builder = builders =>
                      bareEvents' # <<>> /\ sealed'[i].outer.manifest.id = id
    <2>1. CASE i \in DOMAIN sealed /\ sealed'[i] = sealed[i]
      BY <1>2, <2>1 DEF IdInv
    <2>2. CASE ~(i \in DOMAIN sealed /\ sealed'[i] = sealed[i])
      <3>2. /\ sealed'[i].builder = builders
            /\ bareEvents' # <<>>
            /\ sealed'[i].outer.manifest.id = id
        BY <2>2 DEF id
      <3> QED BY <1>1, <3>2
    <2> QED BY <2>1, <2>2
  <1>4. \A s \in sealing' : Bare(s.bare) /\ s.bare # <<>> /\ Begins(s.bare, bareEvents')
    BY <1>1, BeginsThrough DEF IdInv, Bare
  <1>5. \A p \in previews' : bareEvents' # <<>> /\ p = id
    BY <1>2 DEF IdInv, id
  <1>6. ASSUME NEW i \in DOMAIN sealed', NEW j \in DOMAIN sealed',
               sealed'[i].builder = sealed'[j].builder
        PROVE  sealed'[i].outer.manifest.id = sealed'[j].outer.manifest.id
    <2>1. CASE sealed'[i].builder = builders
      BY <1>3, <1>6, <2>1
    <2>2. CASE sealed'[i].builder # builders
      <3>1. /\ i \in DOMAIN sealed /\ sealed'[i] = sealed[i]
            /\ j \in DOMAIN sealed /\ sealed'[j] = sealed[j]
        BY <1>6, <2>2
      <3> QED BY <1>6, <3>1 DEF IdInv
    <2> QED BY <2>1, <2>2
  <1> QED BY <1>1, <1>3, <1>4, <1>5, <1>6 DEF IdInv, Bare, IsSeq, id

\* The ids seal() and previewCapsuleId compute.
LEMMA PlainId ==
    ASSUME NEW bare, IsSeq(bare), bare # <<>>, NEW signers, NEW signedAt, NEW lineage
    PROVE  LET c == PlainArtifact(bare, signers, signedAt, lineage)
           IN  /\ c.manifest.id = LineId(originator, bare)
               /\ c.files[ChainPath] = Jsonl(BuildChainEvents(bare))
  <1> DEFINE events == BuildChainEvents(bare)
  <1>1. /\ ChainPath \in DOMAIN InnerFiles(events)
        /\ InnerFiles(events)[ChainPath] = Jsonl(events)
    BY DEF InnerFiles, Over, File
  <1> HIDE DEF events
  <1>2. LET c == PlainArtifact(bare, signers, signedAt, lineage)
        IN  /\ c.manifest.id = ComputeCapsuleId(originator, FirstEventHash(events),
                                                CurrentVersion)
            /\ c.files = InnerFiles(events)
    BY SealedDocuments DEF PlainArtifact, events
  <1> QED BY <1>1, <1>2, BuiltLineId DEF events

LEMMA OuterId ==
    ASSUME NEW bare, IsSeq(bare), bare # <<>>, NEW inner, NEW recipients, NEW contentKey,
           NEW signers, NEW signedAt, NEW lineage
    PROVE  OuterArtifact(bare, inner, recipients, contentKey, signers, signedAt,
                         lineage).manifest.id = LineId(originator, bare)
  BY SealedDocuments, BuiltLineId DEF OuterArtifact

\* Adding one seal, of the line the builder then has.
LEMMA IssuedOfLine ==
    ASSUME IdInv, Bare(bareEvents)', Begins(bareEvents, bareEvents'), bareEvents' # <<>>,
           UNCHANGED <<originator, builders, previews>>, sealing' \subseteq sealing,
           NEW outer, NEW inner, NEW recipients, Issue(outer, inner, recipients),
           outer.manifest.id = LineId(originator, bareEvents')
    PROVE  IdInv'
  <1> DEFINE seal == [outer |-> outer, inner |-> inner, recipients |-> recipients,
                      builder |-> builders]
  <1>1. seal.outer = outer /\ seal.builder = builders
    OBVIOUS
  <1>2. /\ IsSeq(sealed)'
        /\ \A i \in DOMAIN sealed : sealed'[i] = sealed[i]
        /\ \A i \in DOMAIN sealed' \ DOMAIN sealed : sealed'[i] = seal
    BY IssueEffect DEF IdInv
  <1> HIDE DEF seal
  <1>3. \A i \in DOMAIN sealed' :
            \/ i \in DOMAIN sealed /\ sealed'[i] = sealed[i]
            \/ /\ sealed'[i].builder = builders
               /\ bareEvents' # <<>>
               /\ sealed'[i].outer.manifest.id = LineId(originator, bareEvents')
    BY <1>1, <1>2
  <1> QED BY <1>2, <1>3, LineStep

\* A step that adds no seal.
LEMMA LineGrows ==
    ASSUME IdInv, Bare(bareEvents)', Begins(bareEvents, bareEvents'),
           UNCHANGED <<originator, builders, sealed>>,
           \A id \in previews' :
               id \in previews \/ (bareEvents' # <<>> /\ id = LineId(originator, bareEvents')),
           \A s \in sealing' :
               s \in sealing \/ (Bare(s.bare) /\ s.bare # <<>> /\ Begins(s.bare, bareEvents'))
    PROVE  IdInv'
  <1>1. IsSeq(sealed)' /\ \A i \in DOMAIN sealed' : i \in DOMAIN sealed /\ sealed'[i] = sealed[i]
    BY DEF IdInv, IsSeq
  <1> QED BY <1>1, LineStep

\* The next builder has issued nothing yet, and no seal waits.
LEMMA NextLine ==
    ASSUME IdInv, Bare(bareEvents)', NextBuilder, UNCHANGED <<sealing, sealed>>
    PROVE  IdInv'
  <1>1. /\ builders \in Nat \ {0} /\ builders' = builders + 1
        /\ \A i \in DOMAIN sealed : sealed[i].builder \in 1..builders
    BY DEF IdInv, NextBuilder
  <1>2. \A i \in DOMAIN sealed : /\ sealed[i].builder # builders'
                                 /\ sealed[i].builder \in 1..builders'
    BY <1>1
  <1>3. builders' \in Nat \ {0}
    BY <1>1
  <1>4. sealing' = {} /\ previews' = {}
    BY DEF NextBuilder
  <1> QED BY <1>2, <1>3, <1>4 DEF IdInv, IsSeq

LEMMA WorkKeepsIdInv ==
    ASSUME IdInv, ClearInv, NEW pool, FillBuilder \/ NewBuilder \/ Continue(pool)
    PROVE  IdInv'
  <1>1. UNCHANGED <<sealing, sealed>>
    BY FillSteps, NewBuilderSteps
  <1>2. Bare(bareEvents)' /\ (SameBuilder \/ NextBuilder)
    BY WorkSteps DEF IdInv
  <1>3. CASE SameBuilder
    <2>1. \A id \in previews' :
              id \in previews \/ (bareEvents' # <<>> /\ id = LineId(originator, bareEvents'))
      <3>1. CASE PreviewCapsuleId
        <4>1. /\ bareEvents # <<>> /\ bareEvents' = bareEvents
              /\ previews' = previews \cup
                     {ComputeCapsuleId(originator, FirstEventHash(BuildChainEvents(bareEvents)),
                                       CurrentVersion)}
          BY <3>1 DEF PreviewCapsuleId, settings
        <4> QED BY <4>1, BuiltLineId DEF IdInv, Bare
      <3> QED BY <1>3, <3>1 DEF SameBuilder
    <2> QED BY <1>1, <1>2, <1>3, <2>1, LineGrows DEF SameBuilder
  <1>4. CASE NextBuilder
    BY <1>1, <1>2, <1>4, NextLine
  <1> QED BY <1>2, <1>3, <1>4

LEMMA SealKeepsIdInv ==
    ASSUME IdInv, SealBuilder
    PROVE  IdInv'
  <1>1. Bare(bareEvents) /\ IsSeq(bareEvents)
    BY DEF IdInv, Bare
  <1>2. ASSUME NEW signedAt, bareEvents' = SealEvents(signedAt)
        PROVE  /\ Bare(bareEvents)' /\ IsSeq(bareEvents') /\ bareEvents' # <<>>
               /\ Begins(bareEvents, bareEvents')
    BY <1>1, <1>2, SealedLine DEF Bare
  <1>3. ASSUME NEW signers, NEW signedAt, SealPlain(signers, signedAt)
        PROVE  IdInv'
    <2> DEFINE c == PlainArtifact(bareEvents', signers, signedAt, LineageMember)
    <2>1. /\ bareEvents' = SealEvents(signedAt)
          /\ UNCHANGED <<originator, builders, previews, sealing>>
          /\ Issue(c, Null, {})
      BY <1>3 DEF SealPlain, settings
    <2>2. c.manifest.id = LineId(originator, bareEvents')
      BY <1>2, <2>1, PlainId
    <2> HIDE DEF c
    <2> QED BY <1>2, <2>1, <2>2, IssuedOfLine
  <1>4. ASSUME NEW signers, NEW signedAt, NEW recipients, NEW placement,
               BeginEncrypted(signers, signedAt, recipients, placement)
        PROVE  IdInv'
    <2>1. /\ bareEvents' = SealEvents(signedAt)
          /\ UNCHANGED <<originator, builders, previews, sealed>>
          /\ \A s \in sealing' : s \in sealing \/ s.bare = bareEvents'
      BY <1>4 DEF BeginEncrypted, settings
    <2> QED BY <1>2, <2>1, BeginsItself, LineGrows DEF Bare
  <1>5. ASSUME NEW s \in sealing, FinishEncrypted(s)
        PROVE  IdInv'
    <2> DEFINE outer == OuterArtifact(s.bare, s.inner, s.recipients, Len(sealed) + 1,
                                      s.signers, s.signedAt, s.lineage)
    <2>1. /\ UNCHANGED <<originator, bareEvents, builders, previews>>
          /\ sealing' \subseteq sealing
          /\ Issue(outer, s.inner, s.recipients)
      BY <1>5 DEF FinishEncrypted, settings
    <2>2. IsSeq(s.bare) /\ s.bare # <<>> /\ Begins(s.bare, bareEvents)
      BY DEF IdInv, Bare
    <2>3. outer.manifest.id = LineId(originator, s.bare)
      BY <2>2, OuterId
    <2>4. LineId(originator, s.bare) = LineId(originator, bareEvents) /\ bareEvents # <<>>
      BY <1>1, <2>2, BegunLineId
    <2>5. Bare(bareEvents)' /\ Begins(bareEvents, bareEvents')
      BY <1>1, <2>1, BeginsItself DEF Bare, IsSeq
    <2> HIDE DEF outer
    <2> QED BY <2>1, <2>3, <2>4, <2>5, IssuedOfLine
  <1>6. ASSUME NEW signers, NEW signedAt, SealThrows(signers, signedAt)
        PROVE  IdInv'
    <2>1. /\ bareEvents' = SealEvents(signedAt)
          /\ UNCHANGED <<originator, builders, previews, sealing, sealed>>
      BY <1>6 DEF SealThrows, settings
    <2> QED BY <1>2, <2>1, LineGrows
  <1> QED BY <1>3, <1>4, <1>5, <1>6 DEF SealBuilder

LEMMA IdInvInit == Init => IdInv
  <1> SUFFICES ASSUME Init PROVE IdInv
    OBVIOUS
  <1>1. /\ bareEvents = <<>> /\ sealed = <<>> /\ sealing = {} /\ previews = {}
        /\ builders = 1
    BY DEF Init
  <1>2. IsSeq(sealed) /\ DOMAIN sealed = {} /\ Bare(bareEvents)
    BY <1>1 DEF IsSeq, Bare
  <1> QED BY <1>1, <1>2 DEF IdInv

LEMMA IdInvStutter ==
    ASSUME IdInv, UNCHANGED vars
    PROVE  IdInv'
  <1>1. UNCHANGED <<originator, bareEvents, builders, previews, sealing, sealed>>
    BY DEF vars
  <1>2. Bare(bareEvents)' /\ IsSeq(sealed)' /\ (builders \in Nat \ {0})'
    BY <1>1 DEF IdInv, Bare, IsSeq
  <1>3. /\ \A i \in DOMAIN sealed' : sealed'[i].builder \in 1..builders'
        /\ \A i \in DOMAIN sealed' : sealed'[i].builder = builders' =>
               /\ bareEvents' # <<>>
               /\ sealed'[i].outer.manifest.id = LineId(originator', bareEvents')
        /\ \A i, j \in DOMAIN sealed' : sealed'[i].builder = sealed'[j].builder =>
               sealed'[i].outer.manifest.id = sealed'[j].outer.manifest.id
    BY <1>1 DEF IdInv
  <1>4. \A s \in sealing' : Bare(s.bare) /\ s.bare # <<>> /\ Begins(s.bare, bareEvents')
    BY <1>1 DEF IdInv
  <1>5. \A id \in previews' : bareEvents' # <<>> /\ id = LineId(originator', bareEvents')
    BY <1>1 DEF IdInv
  <1> QED BY <1>2, <1>3, <1>4, <1>5 DEF IdInv, Bare

LEMMA ClearInvHolds == Spec => []ClearInv
  <1>1. Init => ClearInv
    BY DEF Init, ClearInv, NoFiles
  <1>2. ClearInv /\ [Next]_vars => ClearInv'
    <2> SUFFICES ASSUME ClearInv, [Next]_vars PROVE ClearInv'
      OBVIOUS
    <2>1. CASE SealBuilder
      BY <2>1 DEF SealBuilder, SealPlain, BeginEncrypted, FinishEncrypted, SealThrows,
                  settings, ClearInv
    <2>2. CASE FillBuilder \/ NewBuilder \/ Continue(Issued)
      BY <2>2, FillSteps, NewBuilderSteps
    <2>3. CASE UNCHANGED vars
      BY <2>3 DEF vars, ClearInv
    <2> QED BY <2>1, <2>2, <2>3 DEF Next
  <1> QED BY <1>1, <1>2, PTL DEF Spec

LEMMA IdInvHolds == Spec => []IdInv
  <1>1. IdInv /\ ClearInv /\ [Next]_vars => IdInv'
    BY WorkKeepsIdInv, SealKeepsIdInv, IdInvStutter DEF Next
  <1> QED BY <1>1, IdInvInit, ClearInvHolds, PTL DEF Spec

(* An id previewed before sealing is the id of every capsule the builder   *)
(* then seals, whatever is appended, assigned, thrown or awaited between.  *)
THEOREM PreviewsHold == Spec => []PreviewIsSealedId
  <1>1. IdInv => PreviewIsSealedId
    BY DEF IdInv, PreviewIsSealedId
  <1> QED BY <1>1, IdInvHolds, PTL

-----------------------------------------------------------------------------
(* The seals of one builder are one growing line *)

LEMMA BuiltSeq ==
    ASSUME NEW bare, IsSeq(bare)
    PROVE  IsSeq(BuildChainEvents(bare))
  <1> DEFINE events == BuildChainEvents(bare)
  <1>1. Len(bare) \in Nat /\ DOMAIN bare = 1..Len(bare)
    BY SeqShape
  <1>2. events = [i \in 1..Len(bare) |-> events[i]] /\ DOMAIN events = 1..Len(bare)
    BY <1>1 DEF BuildChainEvents
  <1> HIDE DEF events
  <1>3. IsSeq(events)
    BY <1>1, <1>2 DEF IsSeq
  <1> QED BY <1>3 DEF events

\* Two beginnings of one chain.
LEMMA BeginningsOfOne ==
    ASSUME NEW a, NEW b, NEW c, IsSeq(a), IsSeq(b), IsSeq(c), Begins(a, c), Begins(b, c)
    PROVE  IsPrefixOf(a, b) \/ IsPrefixOf(b, a)
  <1>1. /\ Len(a) \in Nat /\ DOMAIN a = 1..Len(a)
        /\ Len(b) \in Nat /\ DOMAIN b = 1..Len(b)
        /\ Len(c) \in Nat
    BY SeqShape
  <1>2. CASE Len(a) <= Len(b)
    <2>1. \A k \in DOMAIN a : a[k] = b[k]
      BY <1>1, <1>2 DEF Begins
    <2> QED BY <1>2, <2>1 DEF IsPrefixOf
  <1>3. CASE Len(b) <= Len(a)
    <2>1. \A k \in DOMAIN b : b[k] = a[k]
      BY <1>1, <1>3 DEF Begins
    <2> QED BY <1>3, <2>1 DEF IsPrefixOf
  <1> QED BY <1>1, <1>2, <1>3

ChainInv ==
    /\ \A i \in DOMAIN sealed : IsSeq(ChainOf(sealed[i]))
    /\ \A i \in DOMAIN sealed : sealed[i].builder = builders =>
           Begins(ChainOf(sealed[i]), BuildChainEvents(bareEvents))
    /\ SealsOfOneLine

LEMMA ChainStep ==
    ASSUME ChainInv, IdInv', Bare(bareEvents), Bare(bareEvents)',
           Begins(bareEvents, bareEvents'), UNCHANGED builders,
           \A i \in DOMAIN sealed' :
               \/ i \in DOMAIN sealed /\ sealed'[i] = sealed[i]
               \/ /\ sealed'[i].builder = builders
                  /\ \E bare : /\ IsSeq(bare) /\ Begins(bare, bareEvents')
                               /\ ChainOf(sealed'[i]) = BuildChainEvents(bare)
    PROVE  ChainInv'
  <1> DEFINE now == BuildChainEvents(bareEvents)
             next == BuildChainEvents(bareEvents')
  <1>1. IsSeq(bareEvents) /\ IsSeq(bareEvents')
    BY DEF Bare, IsSeq
  <1>2. IsSeq(now) /\ IsSeq(next) /\ Begins(now, next)
    BY <1>1, BuiltSeq, ChainOfBeginning
  <1> HIDE DEF next
  <1>3. ASSUME NEW i \in DOMAIN sealed'
        PROVE  /\ IsSeq(ChainOf(sealed'[i]))
               /\ sealed'[i].builder = builders => Begins(ChainOf(sealed'[i]), next)
    <2>1. CASE i \in DOMAIN sealed /\ sealed'[i] = sealed[i]
      <3>1. /\ IsSeq(ChainOf(sealed[i]))
            /\ sealed[i].builder = builders => Begins(ChainOf(sealed[i]), now)
        BY <2>1 DEF ChainInv
      <3> HIDE DEF now
      <3> QED BY <1>2, <2>1, <3>1, BeginsThrough
    <2>2. CASE ~(i \in DOMAIN sealed /\ sealed'[i] = sealed[i])
      <3>1. PICK bare : /\ IsSeq(bare) /\ Begins(bare, bareEvents')
                        /\ ChainOf(sealed'[i]) = BuildChainEvents(bare)
        BY <2>2
      <3>2. IsSeq(BuildChainEvents(bare)) /\ Begins(BuildChainEvents(bare), next)
        BY <1>1, <3>1, BuiltSeq, ChainOfBeginning DEF next
      <3> QED BY <3>1, <3>2
    <2> QED BY <2>1, <2>2
  <1>4. ASSUME NEW i \in DOMAIN sealed', NEW j \in DOMAIN sealed',
               sealed'[i].builder = sealed'[j].builder
        PROVE  \/ IsPrefixOf(ChainOf(sealed'[i]), ChainOf(sealed'[j]))
               \/ IsPrefixOf(ChainOf(sealed'[j]), ChainOf(sealed'[i]))
    <2>1. CASE sealed'[i].builder = builders
      BY <1>2, <1>3, <1>4, <2>1, BeginningsOfOne
    <2>2. CASE sealed'[i].builder # builders
      <3>1. /\ i \in DOMAIN sealed /\ sealed'[i] = sealed[i]
            /\ j \in DOMAIN sealed /\ sealed'[j] = sealed[j]
        BY <1>4, <2>2
      <3> QED BY <1>4, <3>1 DEF ChainInv, SealsOfOneLine
    <2> QED BY <2>1, <2>2
  <1>5. SealsOfOneLine'
    BY <1>4 DEF IdInv, SealsOfOneLine
  <1> QED BY <1>3, <1>5 DEF ChainInv, next

\* Nothing is issued.
LEMMA ChainGrows ==
    ASSUME ChainInv, IdInv', Bare(bareEvents), Bare(bareEvents)',
           Begins(bareEvents, bareEvents'), UNCHANGED <<builders, sealed>>
    PROVE  ChainInv'
  BY ChainStep

\* A seal is issued whose chain the builder's begins with.
LEMMA ChainIssued ==
    ASSUME ChainInv, IdInv', Bare(bareEvents), Bare(bareEvents)',
           Begins(bareEvents, bareEvents'), UNCHANGED builders, IsSeq(sealed),
           NEW outer, NEW inner, NEW recipients, Issue(outer, inner, recipients),
           NEW bare, IsSeq(bare), Begins(bare, bareEvents'),
           Events(IF inner = Null THEN outer ELSE inner) = BuildChainEvents(bare)
    PROVE  ChainInv'
  <1> DEFINE seal == [outer |-> outer, inner |-> inner, recipients |-> recipients,
                      builder |-> builders]
  <1>1. seal.outer = outer /\ seal.inner = inner /\ seal.builder = builders
    OBVIOUS
  <1>2. /\ \A i \in DOMAIN sealed : sealed'[i] = sealed[i]
        /\ \A i \in DOMAIN sealed' \ DOMAIN sealed : sealed'[i] = seal
    BY IssueEffect
  <1> HIDE DEF seal
  <1>3. ChainOf(seal) = BuildChainEvents(bare)
    BY <1>1 DEF ChainOf
  <1>4. \A i \in DOMAIN sealed' :
            \/ i \in DOMAIN sealed /\ sealed'[i] = sealed[i]
            \/ /\ sealed'[i].builder = builders
               /\ ChainOf(sealed'[i]) = BuildChainEvents(bare)
    BY <1>1, <1>2, <1>3
  <1> QED BY <1>4, ChainStep

LEMMA WorkKeepsChainInv ==
    ASSUME ChainInv, IdInv, IdInv', ClearInv, NEW pool,
           FillBuilder \/ NewBuilder \/ Continue(pool)
    PROVE  ChainInv'
  <1>1. UNCHANGED sealed
    BY FillSteps, NewBuilderSteps
  <1>2. Bare(bareEvents) /\ Bare(bareEvents)' /\ (SameBuilder \/ NextBuilder)
    BY WorkSteps DEF IdInv
  <1>3. CASE SameBuilder
    BY <1>1, <1>2, <1>3, ChainGrows DEF SameBuilder
  <1>4. CASE NextBuilder
    <2>1. \A i \in DOMAIN sealed' : sealed'[i].builder # builders'
      <3>1. /\ builders \in Nat \ {0} /\ builders' = builders + 1
            /\ \A i \in DOMAIN sealed : sealed[i].builder \in 1..builders
        BY <1>4 DEF IdInv, NextBuilder
      <3> QED BY <1>1, <3>1
    <2>2. SealsOfOneLine'
      BY <1>1 DEF ChainInv, SealsOfOneLine
    <2>3. \A i \in DOMAIN sealed' : IsSeq(ChainOf(sealed'[i]))
      BY <1>1 DEF ChainInv
    <2> QED BY <2>1, <2>2, <2>3 DEF ChainInv
  <1> QED BY <1>2, <1>3, <1>4

LEMMA SealKeepsChainInv ==
    ASSUME Placeholders, ChainInv, SealInv, IdInv, IdInv', SealBuilder
    PROVE  ChainInv'
  <1>1. /\ Bare(bareEvents) /\ IsSeq(bareEvents) /\ ClearInv /\ IsSeq(sealed)
        /\ originator \in Keys
    BY DEF SealInv, Bare
  <1>2. ASSUME NEW signedAt, bareEvents' = SealEvents(signedAt)
        PROVE  /\ Bare(bareEvents)' /\ IsSeq(bareEvents') /\ bareEvents' # <<>>
               /\ Begins(bareEvents, bareEvents')
    BY <1>1, <1>2, SealedLine DEF Bare
  <1>3. ASSUME NEW signers \in SignerLists, NEW signedAt, SealPlain(signers, signedAt)
        PROVE  ChainInv'
    <2> DEFINE c == PlainArtifact(SealEvents(signedAt), signers, signedAt, LineageMember)
    <2>1. /\ bareEvents' = SealEvents(signedAt)
          /\ UNCHANGED builders
          /\ Issue(c, Null, {})
          /\ SealAllowed(signers) /\ ~HasDuplicateMember(signers)
      BY <1>3 DEF SealPlain, settings
    <2>2. Bare(SealEvents(signedAt)) /\ SealEvents(signedAt) # <<>>
      BY <1>1, BackstopIsBare
    <2>3. Signing(signers) /\ Declared(LineageMember) /\ ParticipantsWellFormed(participants)
      BY <2>1, ListedAreSeq DEF Signing, Declared, LineageMember, SealAllowed
    <2>4. Events(c) = BuildChainEvents(SealEvents(signedAt))
      BY <1>1, <2>2, <2>3, PlainVerifies
    <2> HIDE DEF c
    <2>5. PICK bare : bare = SealEvents(signedAt)
      OBVIOUS
    <2>6. IsSeq(bare) /\ Begins(bare, bareEvents') /\ Events(c) = BuildChainEvents(bare)
      BY <2>1, <2>2, <2>4, <2>5, BeginsItself DEF Bare
    <2> QED BY <1>1, <1>2, <2>1, <2>6, ChainIssued
  <1>4. ASSUME NEW s \in sealing, FinishEncrypted(s)
        PROVE  ChainInv'
    <2> DEFINE outer == OuterArtifact(s.bare, s.inner, s.recipients, Len(sealed) + 1,
                                      s.signers, s.signedAt, s.lineage)
    <2>1. /\ UNCHANGED <<bareEvents, builders>>
          /\ Issue(outer, s.inner, s.recipients)
      BY <1>4 DEF FinishEncrypted, settings
    <2>2. s.inner # Null /\ Events(s.inner) = BuildChainEvents(s.bare)
      BY DEF SealInv, Pending
    <2>3. IsSeq(s.bare) /\ Begins(s.bare, bareEvents')
      BY <2>1 DEF IdInv, Bare
    <2>4. Bare(bareEvents)' /\ Begins(bareEvents, bareEvents')
      BY <1>1, <2>1, BeginsItself DEF Bare, IsSeq
    <2> HIDE DEF outer
    <2> QED BY <1>1, <2>1, <2>2, <2>3, <2>4, ChainIssued
  <1>5. ASSUME NEW signers, NEW signedAt,
               \/ \E recipients, placement :
                      BeginEncrypted(signers, signedAt, recipients, placement)
               \/ SealThrows(signers, signedAt)
        PROVE  ChainInv'
    <2>1. bareEvents' = SealEvents(signedAt) /\ UNCHANGED <<builders, sealed>>
      BY <1>5 DEF BeginEncrypted, SealThrows, settings
    <2> QED BY <1>1, <1>2, <2>1, ChainGrows
  <1> QED BY <1>3, <1>4, <1>5 DEF SealBuilder

LEMMA ChainInvInit == Init => ChainInv
  <1>1. Init => DOMAIN sealed = {}
    BY DEF Init
  <1> QED BY <1>1 DEF ChainInv, SealsOfOneLine

LEMMA ChainInvStutter ==
    ASSUME ChainInv, UNCHANGED vars
    PROVE  ChainInv'
  BY DEF vars, ChainInv, SealsOfOneLine

(* The seals of one builder have one id, and of two of their chains one    *)
(* begins the other, hashes included, in whatever order they finished.     *)
THEOREM OneLinePerBuilder ==
    ASSUME Placeholders
    PROVE  Spec => []SealsOfOneLine
  <1>1. ChainInv /\ SealInv /\ IdInv /\ IdInv' /\ [Next]_vars => ChainInv'
    BY WorkKeepsChainInv, SealKeepsChainInv, ChainInvStutter DEF Next, SealInv
  <1>2. ChainInv => SealsOfOneLine
    BY DEF ChainInv
  <1> QED BY <1>1, <1>2, ChainInvInit, SealInvHolds, IdInvHolds, PTL DEF Spec

-----------------------------------------------------------------------------
(* Types *)

EventActors == ActorIds \cup {HostActor}
EventActions == Actions \cup {"session_ended", "custody_received"}

IsEvent(e) ==
    /\ e = [actor |-> e.actor, kind |-> e.kind, action |-> e.action, target |-> e.target,
            timestamp |-> e.timestamp]
    /\ e.actor \in EventActors /\ e.kind \in EventKinds /\ e.action \in EventActions
    /\ e.timestamp \in Times

EventList(bare) == IsSeq(bare) /\ \A i \in DOMAIN bare : IsEvent(bare[i])

TypeInv ==
    /\ originator \in Keys
    /\ participants \subseteq ActorIds
    /\ EventList(bareEvents)
    /\ builders \in 1..MaxBuilders
    /\ IsSeq(predecessors) /\ Len(predecessors) <= MaxPredecessors
    /\ IsSeq(sealed)
    /\ \A i \in DOMAIN sealed : sealed[i].builder \in 1..builders

LEMMA EventListSeq ==
    ASSUME NEW bare, EventList(bare)
    PROVE  bare \in Seq([actor : EventActors, kind : EventKinds, action : EventActions,
                         target : {bare[i].target : i \in DOMAIN bare}, timestamp : Times])
  <1> DEFINE S == [actor : EventActors, kind : EventKinds, action : EventActions,
                   target : {bare[i].target : i \in DOMAIN bare}, timestamp : Times]
  <1>1. ASSUME NEW i \in DOMAIN bare PROVE bare[i] \in S
    <2>1. IsEvent(bare[i])
      BY DEF EventList
    <2>2. bare[i].target \in {bare[j].target : j \in DOMAIN bare}
      OBVIOUS
    <2> QED BY <2>1, <2>2 DEF IsEvent
  <1> HIDE DEF S
  <1>2. bare \in Seq({bare[i] : i \in DOMAIN bare}) /\ {bare[i] : i \in DOMAIN bare} \subseteq S
    BY <1>1 DEF EventList, IsSeq
  <1>3. bare \in Seq(S)
    BY <1>2
  <1> QED BY <1>3 DEF S

LEMMA TypeInvTypeOK == TypeInv => TypeOK
  BY EventListSeq DEF TypeInv, TypeOK, EventActors, EventActions

LEMMA OneEvent ==
    ASSUME NEW actor \in EventActors, NEW kind \in EventKinds, NEW action \in EventActions,
           NEW target, NEW timestamp \in Times
    PROVE  /\ IsEvent(BareEvent(actor, kind, action, target, timestamp))
           /\ EventList(<<BareEvent(actor, kind, action, target, timestamp)>>)
  <1> DEFINE e == BareEvent(actor, kind, action, target, timestamp)
  <1>1. IsEvent(e)
    BY DEF IsEvent, BareEvent
  <1> HIDE DEF e
  <1>2. IsSeq(<<e>>) /\ DOMAIN <<e>> = {1} /\ <<e>>[1] = e
    BY DEF IsSeq
  <1>3. EventList(<<e>>)
    BY <1>1, <1>2 DEF EventList
  <1> QED BY <1>1, <1>3 DEF e

LEMMA NoEvents == EventList(<<>>)
  BY DEF EventList, IsSeq

LEMMA AppendedList ==
    ASSUME NEW bare, EventList(bare), NEW e, IsEvent(e)
    PROVE  EventList(Append(bare, e))
  BY AppendedSeq DEF EventList

LEMMA SealedList ==
    ASSUME EventList(bareEvents), NEW signedAt \in Times
    PROVE  EventList(SealEvents(signedAt))
  <1>1. EventList(<<Backstop(signedAt)>>)
    BY OneEvent DEF Backstop, EventActors, EventActions, EventKinds
  <1> QED BY <1>1 DEF SealEvents

LEMMA TypeInvInit == Init => TypeInv
  <1> SUFFICES ASSUME Init PROVE TypeInv
    OBVIOUS
  <1>1. /\ originator \in Keys /\ participants \subseteq ActorIds /\ bareEvents = <<>>
        /\ builders = 1 /\ predecessors = <<>> /\ sealed = <<>>
    BY DEF Init
  <1>2. IsSeq(sealed) /\ DOMAIN sealed = {} /\ IsSeq(predecessors) /\ Len(predecessors) = 0
    BY <1>1 DEF IsSeq
  <1>3. 1 \in 1..MaxBuilders /\ 0 <= MaxPredecessors
    BY BoundsAssumption
  <1> QED BY <1>1, <1>2, <1>3, NoEvents DEF TypeInv

LEMMA DeclareKeepsTypes ==
    ASSUME TypeInv, NEW entry, DeclarePredecessorEntry(entry)
    PROVE  TypeInv'
  <1>1. /\ predecessors' = Append(predecessors, entry)
        /\ Len(predecessors) < MaxPredecessors
        /\ UNCHANGED <<originator, participants, bareEvents, builders, sealed>>
    BY DEF DeclarePredecessorEntry
  <1>2. IsSeq(Append(predecessors, entry))
    BY AppendedSeq DEF TypeInv
  <1>3. Len(Append(predecessors, entry)) = Len(predecessors) + 1 /\ Len(predecessors) \in Nat
    BY DEF TypeInv, IsSeq
  <1>4. Len(predecessors') <= MaxPredecessors
    BY <1>1, <1>3, BoundsAssumption
  <1> QED BY <1>1, <1>2, <1>4 DEF TypeInv, EventList, IsEvent, IsSeq

LEMMA FillKeepsTypes ==
    ASSUME TypeInv, FillBuilder
    PROVE  TypeInv'
  <1>1. ASSUME NEW declared \in SUBSET ActorIds, AssignParticipants(declared)
        PROVE  TypeInv'
    BY <1>1 DEF AssignParticipants, TypeInv, EventList, IsEvent, IsSeq
  <1>2. ASSUME NEW files, Write(files)
        PROVE  TypeInv'
    BY <1>2 DEF Write, TypeInv, EventList, IsEvent, IsSeq
  <1>3. ASSUME NEW actor \in EventActors, NEW kind, NEW action \in Actions,
               NEW timestamp \in Times, AppendEvent(actor, kind, action, timestamp)
        PROVE  TypeInv'
    <2> DEFINE e == BareEvent(actor, kind, action, DefaultTarget, timestamp)
    <2>1. /\ kind \in EventKinds /\ bareEvents' = Append(bareEvents, e)
          /\ UNCHANGED <<originator, participants, builders, predecessors, sealed>>
      BY <1>3 DEF AppendEvent, settings
    <2>2. IsEvent(e)
      BY <2>1, OneEvent DEF EventActions
    <2> HIDE DEF e
    <2>3. EventList(Append(bareEvents, e))
      BY <2>2, AppendedList DEF TypeInv
    <2> QED BY <2>1, <2>3 DEF TypeInv, EventList, IsEvent, IsSeq
  <1>4. ASSUME NEW entry, DeclarePredecessorEntry(entry)
        PROVE  TypeInv'
    BY <1>4, DeclareKeepsTypes
  <1>5. ASSUME PreviewCapsuleId
        PROVE  TypeInv'
    BY <1>5 DEF PreviewCapsuleId, settings, TypeInv, EventList, IsEvent, IsSeq
  <1> QED BY <1>1, <1>2, <1>3, <1>4, <1>5
          DEF FillBuilder, SetProgram, SetAgents, AddSkill, AddPayload, EventActors

\* The builder's counter, bounded by the model.
LEMMA NextCounted ==
    ASSUME TypeInv, builders < MaxBuilders
    PROVE  /\ builders + 1 \in 1..MaxBuilders
           /\ \A i \in DOMAIN sealed : sealed[i].builder \in 1..(builders + 1)
  BY BoundsAssumption DEF TypeInv

LEMMA BuildersKeepTypes ==
    ASSUME TypeInv, NEW pool, NewBuilder \/ Continue(pool)
    PROVE  TypeInv'
  <1>1. ASSUME NEW key \in Keys, NEW declared \in SUBSET ActorIds, Construct(key, declared)
        PROVE  TypeInv'
    <2>1. /\ originator' = key /\ participants' = declared /\ bareEvents' = <<>>
          /\ predecessors' = <<>> /\ builders < MaxBuilders /\ builders' = builders + 1
          /\ UNCHANGED sealed
      BY <1>1 DEF Construct, CanConstruct
    <2>2. IsSeq(<<>>) /\ Len(<<>>) <= MaxPredecessors
      BY BoundsAssumption DEF IsSeq
    <2> QED BY <2>1, <2>2, NoEvents, NextCounted
            DEF TypeInv, EventList, IsEvent, IsSeq
  <1>2. ASSUME NEW c, NEW allowInvalid, NEW carry, NEW key \in Keys,
               NEW declared \in SUBSET ActorIds,
               NEW custodyActor \in ActorIds \cup {HostActor, Null}, NEW createdAt \in Times,
               ContinueFrom(c, allowInvalid, carry, key, declared, custodyActor, createdAt)
        PROVE  TypeInv'
    <2> DEFINE entry == DerivePredecessorEntry(c)
               e == CustodyEvent(custodyActor, entry.capsule_id, createdAt)
    <2>1. /\ originator' = key /\ participants' = declared
          /\ predecessors' = <<entry>> /\ MaxPredecessors > 0
          /\ bareEvents' = <<>> \/ (custodyActor # Null /\ bareEvents' = <<e>>)
          /\ builders < MaxBuilders /\ builders' = builders + 1
          /\ UNCHANGED sealed
      BY <1>2 DEF ContinueFrom, CanConstruct
    <2>2. custodyActor # Null => EventList(<<e>>)
      BY OneEvent DEF CustodyEvent, EventActors, EventActions, EventKinds
    <2> HIDE DEF entry, e
    <2>3. IsSeq(<<entry>>) /\ Len(<<entry>>) <= MaxPredecessors
      BY <2>1, BoundsAssumption DEF IsSeq
    <2>4. EventList(bareEvents')
      BY <2>1, <2>2, NoEvents
    <2> QED BY <2>1, <2>3, <2>4, NextCounted
            DEF TypeInv, EventList, IsEvent, IsSeq
  <1>3. ASSUME NEW c, NEW allowInvalid, DeclarePredecessor(c, allowInvalid)
        PROVE  TypeInv'
    BY <1>3, DeclareKeepsTypes DEF DeclarePredecessor
  <1> QED BY <1>1, <1>2, <1>3 DEF NewBuilder, Continue

LEMMA SealKeepsTypes ==
    ASSUME TypeInv, SealBuilder
    PROVE  TypeInv'
  <1>1. ASSUME NEW signedAt \in Times, bareEvents' = SealEvents(signedAt)
        PROVE  EventList(bareEvents')
    BY <1>1, SealedList DEF TypeInv
  <1>2. ASSUME NEW outer, NEW inner, NEW recipients, Issue(outer, inner, recipients),
               UNCHANGED builders
        PROVE  IsSeq(sealed') /\ \A i \in DOMAIN sealed' : sealed'[i].builder \in 1..builders
    <2>1. /\ IsSeq(sealed)'
          /\ \A i \in DOMAIN sealed : sealed'[i] = sealed[i]
          /\ \A i \in DOMAIN sealed' \ DOMAIN sealed : sealed'[i].builder = builders
      BY <1>2, IssueEffect DEF TypeInv
    <2>2. builders \in 1..builders
      BY BoundsAssumption DEF TypeInv
    <2> QED BY <2>1, <2>2 DEF TypeInv, IsSeq
  <1>3. ASSUME NEW signers, NEW signedAt \in Times, SealPlain(signers, signedAt)
        PROVE  TypeInv'
    <2>1. /\ bareEvents' = SealEvents(signedAt) /\ UNCHANGED <<settings, builders>>
          /\ \E outer : Issue(outer, Null, {})
      BY <1>3 DEF SealPlain
    <2> QED BY <1>1, <1>2, <2>1 DEF TypeInv, settings, EventList, IsEvent, IsSeq
  <1>4. ASSUME NEW signers, NEW signedAt \in Times,
               \/ \E recipients, placement :
                      BeginEncrypted(signers, signedAt, recipients, placement)
               \/ SealThrows(signers, signedAt)
        PROVE  TypeInv'
    <2>1. bareEvents' = SealEvents(signedAt) /\ UNCHANGED <<settings, builders, sealed>>
      BY <1>4 DEF BeginEncrypted, SealThrows
    <2> QED BY <1>1, <2>1 DEF TypeInv, settings, EventList, IsEvent, IsSeq
  <1>5. ASSUME NEW s, FinishEncrypted(s)
        PROVE  TypeInv'
    <2>1. /\ UNCHANGED <<settings, bareEvents, builders>>
          /\ \E outer, inner, recipients : Issue(outer, inner, recipients)
      BY <1>5 DEF FinishEncrypted
    <2> QED BY <1>2, <2>1 DEF TypeInv, settings, EventList, IsEvent, IsSeq
  <1> QED BY <1>3, <1>4, <1>5 DEF SealBuilder

(* The type invariant of the builder. *)
THEOREM BuilderTypes == Spec => []TypeOK
  <1>1. TypeInv /\ [Next]_vars => TypeInv'
    <2>1. TypeInv /\ UNCHANGED vars => TypeInv'
      BY DEF vars, TypeInv, EventList, IsEvent, IsSeq
    <2> QED BY <2>1, FillKeepsTypes, BuildersKeepTypes, SealKeepsTypes DEF Next
  <1> QED BY <1>1, TypeInvInit, TypeInvTypeOK, PTL DEF Spec

-----------------------------------------------------------------------------
(* Custody: a successor has an identity of its own *)

\* A chain that opens with the custody event names the first of the predecessors.
OpensCiting(bare, lineage) ==
    bare # <<>> /\ bare[1].action = "custody_received" =>
        /\ lineage # <<>>
        /\ \E actor, createdAt :
               bare[1] = CustodyEvent(actor, lineage[1].capsule_id, createdAt)

\* A seal, the chain it was made of, and what its outer manifest cites.
CitesItsFirst(seal) ==
    \E key, bare :
        /\ bare # <<>>
        /\ seal.outer.manifest.id = LineId(key, bare)
        /\ ChainOf(seal)[1].bare = bare[1]
        /\ seal.outer.manifest.predecessors # Absent =>
               OpensCiting(bare, seal.outer.manifest.predecessors)

CustodyInv ==
    /\ IsSeq(predecessors)
    /\ OpensCiting(bareEvents, predecessors)
    /\ \A s \in sealing : s.lineage # Absent => OpensCiting(s.bare, s.lineage)
    /\ \A i \in DOMAIN sealed : CitesItsFirst(sealed[i])

\* Only continueFrom makes the custody event, which is told by its action; and
\* an id is a digest: it is not the id of a chain that begins with naming it.
CustodyIsTold ==
    /\ "custody_received" \notin Actions
    /\ \A key, actor, id, createdAt :
           id # LineId(key, <<CustodyEvent(actor, id, createdAt)>>)

LEMMA FirstOfAppended ==
    ASSUME NEW s, IsSeq(s), NEW e
    PROVE  /\ IsSeq(Append(s, e)) /\ Append(s, e) # <<>>
           /\ Append(s, e)[1] = IF s = <<>> THEN e ELSE s[1]
  <1>1. Len(s) \in Nat /\ DOMAIN s = 1..Len(s) /\ (s = <<>> <=> Len(s) = 0)
    BY SeqShape
  <1>2. /\ IsSeq(Append(s, e))
        /\ \A i \in DOMAIN s : Append(s, e)[i] = s[i]
        /\ Append(s, e)[Len(s) + 1] = e
        /\ Len(s) + 1 \in DOMAIN Append(s, e)
    BY AppendedSeq
  <1>3. Append(s, e) # <<>>
    BY <1>2
  <1> QED BY <1>1, <1>2, <1>3

LEMMA FillKeepsCustody ==
    ASSUME "custody_received" \notin Actions, CustodyInv, IsSeq(bareEvents), ClearInv,
           FillBuilder
    PROVE  CustodyInv'
  <1>1. UNCHANGED <<sealing, sealed>>
    BY FillSteps
  <1>2. ASSUME UNCHANGED <<bareEvents, predecessors>>
        PROVE  CustodyInv'
    BY <1>1, <1>2 DEF CustodyInv, IsSeq
  <1>3. ASSUME NEW actor, NEW kind, NEW action \in Actions, NEW timestamp,
               AppendEvent(actor, kind, action, timestamp)
        PROVE  CustodyInv'
    <2> DEFINE e == BareEvent(actor, kind, action, DefaultTarget, timestamp)
    <2>1. bareEvents' = Append(bareEvents, e) /\ UNCHANGED predecessors
      BY <1>3 DEF AppendEvent, settings
    <2>2. e.action # "custody_received"
      BY DEF BareEvent
    <2> HIDE DEF e
    <2>3. bareEvents'[1] = IF bareEvents = <<>> THEN e ELSE bareEvents[1]
      BY <2>1, FirstOfAppended
    <2>4. OpensCiting(bareEvents', predecessors)
      BY <2>2, <2>3 DEF CustodyInv, OpensCiting
    <2> QED BY <1>1, <2>1, <2>4 DEF CustodyInv, IsSeq
  <1>4. ASSUME NEW entry, DeclarePredecessorEntry(entry)
        PROVE  CustodyInv'
    <2>1. predecessors' = Append(predecessors, entry) /\ UNCHANGED bareEvents
      BY <1>4 DEF DeclarePredecessorEntry
    <2>2. /\ IsSeq(predecessors') /\ predecessors' # <<>>
          /\ predecessors # <<>> => predecessors'[1] = predecessors[1]
      BY <2>1, FirstOfAppended DEF CustodyInv
    <2>3. OpensCiting(bareEvents, predecessors')
      BY <2>2 DEF CustodyInv, OpensCiting
    <2> QED BY <1>1, <2>1, <2>2, <2>3 DEF CustodyInv, IsSeq
  <1> QED BY <1>2, <1>3, <1>4
          DEF FillBuilder, SetProgram, SetAgents, AddSkill, AddPayload, AssignParticipants,
              Write, PreviewCapsuleId, settings

LEMMA BuildersKeepCustody ==
    ASSUME CustodyInv, ClearInv, NEW pool, NewBuilder \/ Continue(pool)
    PROVE  CustodyInv'
  <1>1. UNCHANGED <<sealing, sealed>>
    BY NewBuilderSteps
  <1>2. ASSUME NEW key, NEW declared, Construct(key, declared)
        PROVE  CustodyInv'
    <2>1. bareEvents' = <<>> /\ predecessors' = <<>>
      BY <1>2 DEF Construct
    <2> QED BY <1>1, <2>1 DEF CustodyInv, OpensCiting, IsSeq
  <1>3. ASSUME NEW c, NEW allowInvalid, NEW carry, NEW key, NEW declared,
               NEW custodyActor, NEW createdAt,
               ContinueFrom(c, allowInvalid, carry, key, declared, custodyActor, createdAt)
        PROVE  CustodyInv'
    <2> DEFINE entry == DerivePredecessorEntry(c)
               e == CustodyEvent(custodyActor, entry.capsule_id, createdAt)
    <2>1. predecessors' = <<entry>> /\ bareEvents' \in {<<>>, <<e>>}
      BY <1>3 DEF ContinueFrom
    <2> HIDE DEF entry
    <2>2. IsSeq(<<entry>>) /\ <<entry>> # <<>> /\ <<entry>>[1] = entry
      BY DEF IsSeq
    <2>3. OpensCiting(bareEvents', <<entry>>)
      BY <2>1, <2>2 DEF OpensCiting
    <2> QED BY <1>1, <2>1, <2>2, <2>3 DEF CustodyInv, IsSeq
  <1>4. ASSUME NEW c, NEW allowInvalid, DeclarePredecessor(c, allowInvalid)
        PROVE  CustodyInv'
    <2>1. PICK entry : DeclarePredecessorEntry(entry)
      BY <1>4 DEF DeclarePredecessor
    <2>2. predecessors' = Append(predecessors, entry) /\ UNCHANGED bareEvents
      BY <2>1 DEF DeclarePredecessorEntry
    <2>3. /\ IsSeq(predecessors') /\ predecessors' # <<>>
          /\ predecessors # <<>> => predecessors'[1] = predecessors[1]
      BY <2>2, FirstOfAppended DEF CustodyInv
    <2>4. OpensCiting(bareEvents, predecessors')
      BY <2>3 DEF CustodyInv, OpensCiting
    <2> QED BY <1>1, <2>2, <2>3, <2>4 DEF CustodyInv, IsSeq
  <1> QED BY <1>2, <1>3, <1>4 DEF NewBuilder, Continue

\* One seal, of a chain that cites the first of what the outer manifest lists.
LEMMA IssuedCites ==
    ASSUME IsSeq(sealed), \A i \in DOMAIN sealed : CitesItsFirst(sealed[i]),
           NEW outer, NEW inner, NEW recipients, Issue(outer, inner, recipients),
           NEW bare, IsSeq(bare), bare # <<>>,
           outer.manifest.id = LineId(originator, bare),
           Events(IF inner = Null THEN outer ELSE inner) = BuildChainEvents(bare),
           outer.manifest.predecessors # Absent => OpensCiting(bare, outer.manifest.predecessors)
    PROVE  \A i \in DOMAIN sealed' : CitesItsFirst(sealed'[i])
  <1> DEFINE seal == [outer |-> outer, inner |-> inner, recipients |-> recipients,
                      builder |-> builders]
  <1>1. seal.outer = outer /\ seal.inner = inner
    OBVIOUS
  <1>2. /\ \A i \in DOMAIN sealed : sealed'[i] = sealed[i]
        /\ \A i \in DOMAIN sealed' \ DOMAIN sealed : sealed'[i] = seal
    BY IssueEffect
  <1> HIDE DEF seal
  <1>3. 1 \in DOMAIN bare
    BY SeqShape
  <1>4. BuildChainEvents(bare)[1].bare = bare[1]
    BY <1>3 DEF BuildChainEvents
  <1>5. ChainOf(seal)[1].bare = bare[1]
    BY <1>1, <1>4 DEF ChainOf
  <1>6. CitesItsFirst(seal)
    BY <1>1, <1>5 DEF CitesItsFirst
  <1> QED BY <1>2, <1>6

LEMMA SealKeepsCustody ==
    ASSUME Placeholders, CustodyInv, SealInv, SealBuilder
    PROVE  CustodyInv'
  <1>1. /\ Bare(bareEvents) /\ IsSeq(bareEvents) /\ ClearInv /\ IsSeq(sealed)
        /\ originator \in Keys
    BY DEF SealInv, Bare
  <1>2. ASSUME NEW signedAt
        PROVE  OpensCiting(SealEvents(signedAt), predecessors)
    <2>1. CASE bareEvents = <<>>
      <3>1. SealEvents(signedAt)[1] = Backstop(signedAt)
        BY <2>1 DEF SealEvents
      <3>2. Backstop(signedAt).action # "custody_received"
        BY DEF Backstop, BareEvent
      <3> QED BY <3>1, <3>2 DEF OpensCiting
    <2>2. CASE bareEvents # <<>>
      BY <2>2 DEF SealEvents, CustodyInv
    <2> QED BY <2>1, <2>2
  <1>3. LineageMember \in {Absent, predecessors}
    BY DEF LineageMember
  <1>4. ASSUME NEW signers \in SignerLists, NEW signedAt, SealPlain(signers, signedAt)
        PROVE  CustodyInv'
    <2> DEFINE c == PlainArtifact(SealEvents(signedAt), signers, signedAt, LineageMember)
    <2>1. /\ bareEvents' = SealEvents(signedAt)
          /\ UNCHANGED <<predecessors, sealing>>
          /\ Issue(c, Null, {})
          /\ SealAllowed(signers) /\ ~HasDuplicateMember(signers)
      BY <1>4 DEF SealPlain, settings
    <2>2. PICK bare : bare = SealEvents(signedAt)
      OBVIOUS
    <2>3. Bare(bare) /\ IsSeq(bare) /\ bare # <<>>
      BY <1>1, <2>2, BackstopIsBare DEF Bare
    <2>4. Signing(signers) /\ Declared(LineageMember) /\ ParticipantsWellFormed(participants)
      BY <2>1, ListedAreSeq DEF Signing, Declared, LineageMember, SealAllowed
    <2>5. Events(c) = BuildChainEvents(bare) /\ c.manifest.predecessors = LineageMember
      BY <1>1, <2>2, <2>3, <2>4, PlainVerifies
    <2>6. c.manifest.id = LineId(originator, bare)
      BY <2>2, <2>3, PlainId
    <2> HIDE DEF c
    <2>7. c.manifest.predecessors # Absent => OpensCiting(bare, c.manifest.predecessors)
      BY <1>2, <1>3, <2>2, <2>5
    <2>8. \A i \in DOMAIN sealed' : CitesItsFirst(sealed'[i])
      BY <1>1, <2>1, <2>3, <2>5, <2>6, <2>7, IssuedCites DEF CustodyInv
    <2> QED BY <1>2, <2>1, <2>8 DEF CustodyInv, IsSeq
  <1>5. ASSUME NEW signers, NEW signedAt, NEW recipients, NEW placement,
               BeginEncrypted(signers, signedAt, recipients, placement)
        PROVE  CustodyInv'
    <2>1. /\ bareEvents' = SealEvents(signedAt)
          /\ UNCHANGED <<predecessors, sealed>>
          /\ \A s \in sealing' :
                 s \in sealing \/ (s.bare = bareEvents' /\ s.lineage \in {Absent, LineageMember})
      BY <1>5 DEF BeginEncrypted, settings
    <2>2. \A s \in sealing' : s.lineage # Absent => OpensCiting(s.bare, s.lineage)
      BY <1>2, <1>3, <2>1 DEF CustodyInv
    <2> QED BY <1>2, <2>1, <2>2 DEF CustodyInv, IsSeq
  <1>6. ASSUME NEW s \in sealing, FinishEncrypted(s)
        PROVE  CustodyInv'
    <2> DEFINE outer == OuterArtifact(s.bare, s.inner, s.recipients, Len(sealed) + 1,
                                      s.signers, s.signedAt, s.lineage)
    <2>1. /\ UNCHANGED <<bareEvents, predecessors>>
          /\ sealing' \subseteq sealing
          /\ Issue(outer, s.inner, s.recipients)
      BY <1>6 DEF FinishEncrypted, settings
    <2>2. /\ s.inner # Null /\ Events(s.inner) = BuildChainEvents(s.bare)
          /\ IsSeq(s.bare) /\ s.bare # <<>>
      BY DEF SealInv, Pending, Bare
    <2>3. outer.manifest.id = LineId(originator, s.bare)
      BY <2>2, OuterId
    <2>4. outer.manifest.predecessors = s.lineage
      BY SealedDocuments DEF OuterArtifact
    <2> HIDE DEF outer
    <2>5. outer.manifest.predecessors # Absent => OpensCiting(s.bare, outer.manifest.predecessors)
      BY <2>4 DEF CustodyInv
    <2>6. \A i \in DOMAIN sealed' : CitesItsFirst(sealed'[i])
      BY <1>1, <2>1, <2>2, <2>3, <2>5, IssuedCites DEF CustodyInv
    <2> QED BY <2>1, <2>6 DEF CustodyInv, IsSeq
  <1>7. ASSUME NEW signers, NEW signedAt, SealThrows(signers, signedAt)
        PROVE  CustodyInv'
    <2>1. bareEvents' = SealEvents(signedAt) /\ UNCHANGED <<predecessors, sealing, sealed>>
      BY <1>7 DEF SealThrows, settings
    <2> QED BY <1>2, <2>1 DEF CustodyInv, IsSeq
  <1> QED BY <1>4, <1>5, <1>6, <1>7 DEF SealBuilder

LEMMA CustodyInvInit == Init => CustodyInv
  BY DEF Init, CustodyInv, OpensCiting, IsSeq

LEMMA CustodyInvStep ==
    ASSUME Placeholders, CustodyIsTold, CustodyInv, SealInv, NEW pool,
           FillBuilder \/ SealBuilder \/ NewBuilder \/ Continue(pool)
    PROVE  CustodyInv'
  <1>1. IsSeq(bareEvents) /\ ClearInv /\ "custody_received" \notin Actions
    BY DEF SealInv, Bare, CustodyIsTold
  <1> QED BY <1>1, FillKeepsCustody, SealKeepsCustody, BuildersKeepCustody

LEMMA CustodyInvStutter ==
    ASSUME CustodyInv, UNCHANGED vars
    PROVE  CustodyInv'
  BY DEF vars, CustodyInv, IsSeq

\* An id that the first event of its own chain named would be its own digest.
LEMMA CitingIsAnother ==
    ASSUME CustodyIsTold, CustodyInv
    PROVE  CustodyGivesNewIdentity
  <1> SUFFICES ASSUME NEW i \in DOMAIN sealed,
                      ChainOf(sealed[i])[1].bare.action = "custody_received",
                      sealed[i].outer.manifest.predecessors # Absent
               PROVE  sealed[i].outer.manifest.predecessors[1].capsule_id
                          # sealed[i].outer.manifest.id
    BY DEF CustodyGivesNewIdentity
  <1> DEFINE id == sealed[i].outer.manifest.predecessors[1].capsule_id
  <1>1. PICK key, bare :
            /\ bare # <<>>
            /\ sealed[i].outer.manifest.id = LineId(key, bare)
            /\ ChainOf(sealed[i])[1].bare = bare[1]
            /\ OpensCiting(bare, sealed[i].outer.manifest.predecessors)
    BY DEF CustodyInv, CitesItsFirst
  <1>2. PICK actor, createdAt : bare[1] = CustodyEvent(actor, id, createdAt)
    BY <1>1 DEF OpensCiting
  <1>3. LineId(key, bare) = LineId(key, <<CustodyEvent(actor, id, createdAt)>>)
    BY <1>2 DEF LineId
  <1> HIDE DEF id
  <1>4. id # LineId(key, bare)
    BY <1>3 DEF CustodyIsTold
  <1> QED BY <1>1, <1>4 DEF id

(* A capsule whose chain opens with the custody event of continueFrom does *)
(* not have the id of the predecessor it lists first, even where one key   *)
(* seals the same content at the same instant and after further events,    *)
(* declarations, seals that throw and seals that wait.                     *)
THEOREM SuccessorsAreAnother ==
    ASSUME Placeholders, CustodyIsTold
    PROVE  Spec => []CustodyGivesNewIdentity
  <1>1. CustodyInv /\ SealInv /\ [Next]_vars => CustodyInv'
    BY CustodyInvStep, CustodyInvStutter DEF Next
  <1>2. CustodyInv => CustodyGivesNewIdentity
    BY CitingIsAnother
  <1> QED BY <1>1, <1>2, CustodyInvInit, SealInvHolds, PTL DEF Spec

=============================================================================

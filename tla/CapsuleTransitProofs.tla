------------------------ MODULE CapsuleTransitProofs ------------------------
(***************************************************************************)
(* Proofs about CapsuleTransit: whatever a capsule goes through, one that  *)
(* verifies under an honest originator key is one that was sealed.  For    *)
(* every number of keys, builders, seals and edits.                        *)
(***************************************************************************)
EXTENDS CapsuleTransit, CapsuleBuilderProofs, TLAPS

(* The shapes the edits keep: what the operators on records and sequences   *)
(* need to know about the artifacts in circulation.                         *)
WellFormed(c) ==
    /\ c = [manifest |-> c.manifest, envelope |-> c.envelope,
            signers |-> c.signers, files |-> c.files]
    /\ IsSeq(c.signers)
    /\ \A i \in DOMAIN c.signers : IsRow(c.signers[i])

-----------------------------------------------------------------------------
(* Whatever files and events seal() is given, its artifact is tied. *)
LEMMA SealedTied ==
    ASSUME NEW files, NEW events, NEW signers \in SignerLists, NEW signedAt,
           NEW blobHash, NEW cipher, NEW encryption, NEW lineage,
           IF cipher = "none"
           THEN blobHash = Null /\ BlobPath \notin DOMAIN files
           ELSE /\ BlobPath \in DOMAIN files
                /\ blobHash = FileHash(files[BlobPath])
    PROVE  LET c == SealArtifact(files, events, signers, signedAt, blobHash, cipher,
                                 encryption, lineage)
           IN  /\ Tied(c)
               /\ WellFormed(c)
               /\ c.envelope.cipher = cipher
               /\ c.files = files
  <1> DEFINE c == SealArtifact(files, events, signers, signedAt, blobHash, cipher,
                               encryption, lineage)
  <1>1. /\ c = [manifest |-> c.manifest, envelope |-> c.envelope,
                signers |-> c.signers, files |-> c.files]
        /\ c.signers = SignEnvelope(c.envelope, signers)
        /\ c.files = files
        /\ c.envelope.cipher = cipher
        /\ c.envelope.encrypted_blob_hash = blobHash
        /\ c.envelope.manifest_hash = ManifestHash(c.manifest)
        /\ c.envelope.content_index_hash =
              BuildContentIndex(files, ContentIndexExclusions(cipher # "none")).index_hash
        /\ c.manifest.signer_commitment = Members(signers)
    BY DEF SealArtifact, SealedIndex, BuildManifest, BuildEnvelope, BuildSignerCommitment
  <1> HIDE DEF c
  <1>2. IsSeq(signers)
    BY SignersAssumption DEF IsSeq
  <1>3. /\ IsSeq(c.signers)
        /\ \A i \in DOMAIN c.signers : IsRow(c.signers[i]) /\ SignatureValid(c.signers[i], c.envelope)
        /\ Members(c.signers) = Members(signers)
    BY <1>1, <1>2, SignedRows
  <1>4. WellFormed(c)
    BY <1>1, <1>3 DEF WellFormed
  <1>5. BlobOk(c)
    BY <1>1 DEF BlobOk
  <1>6. c.envelope.content_index_hash = Recomputed(c).index_hash
    BY <1>1 DEF Recomputed
  <1>7. c.manifest.signer_commitment # Absent
    BY <1>1, SignersAssumption DEF BuildSignerCommitment
  <1>8. Tied(c)
    BY <1>1, <1>3, <1>5, <1>6, <1>7 DEF Tied
  <1> QED
    BY <1>1, <1>4, <1>8 DEF c

(* The same for the plain capsule, which stores no blob. *)
LEMMA PlainTied ==
    ASSUME BlobPath \notin DOMAIN written, BlobPath \notin DOMAIN carried,
           NEW bare, NEW signers \in SignerLists, NEW signedAt, NEW lineage
    PROVE  LET c == PlainArtifact(bare, signers, signedAt, lineage)
           IN  Tied(c) /\ WellFormed(c) /\ c.envelope.cipher = "none"
  <1>1. \A events : BlobPath \notin DOMAIN InnerFiles(events)
    BY PathsApart DEF InnerFiles, Over, File
  <1> QED
    BY <1>1, SealedTied DEF PlainArtifact

(* The same for the encrypted outer, whose blob holds the inner capsule. *)
LEMMA OuterTied ==
    ASSUME NEW bare, NEW inner, NEW recipients, NEW contentKey,
           NEW signers \in SignerLists, NEW signedAt, NEW lineage
    PROVE  LET c == OuterArtifact(bare, inner, recipients, contentKey, signers,
                                  signedAt, lineage)
           IN  Tied(c) /\ WellFormed(c) /\ c.files[BlobPath][4] = inner
  <1> DEFINE files == EncryptedFiles(inner, recipients, contentKey)
             aad == Aad(CurrentVersion, inner.envelope.capsule_id,
                        inner.envelope.first_event_hash, originator)
  <1>1. BlobPath \in DOMAIN files /\ files[BlobPath] = Aead(contentKey, aad, inner)
    BY PathsApart DEF EncryptedFiles, Over, File
  <1>2. Aead(contentKey, aad, inner)[4] = inner
    BY DEF Aead
  <1>3. "ChaCha20-Poly1305" # "none"
    OBVIOUS
  <1> QED
    BY <1>1, <1>2, <1>3, SealedTied DEF OuterArtifact

-----------------------------------------------------------------------------
(* The part of the invariant that is about what was sealed. *)
IssuedInv ==
    /\ IsSeq(sealed)
    /\ \A c \in Issued : Tied(c) /\ WellFormed(c)
    /\ \A i \in DOMAIN sealed : PairTied(sealed[i])

(* Issuing tied artifacts keeps everything issued tied. *)
LEMMA IssueKeeps ==
    ASSUME IssuedInv, NEW outer, NEW inner, NEW recipients, Issue(outer, inner, recipients),
           Tied(outer), WellFormed(outer),
           inner # Null => Tied(inner) /\ WellFormed(inner) /\ inner.envelope.cipher = "none",
           outer.envelope.cipher # "none" => outer.files[BlobPath][4] = inner
    PROVE  IssuedInv' /\ Issued \subseteq Issued'
  <1>1. /\ IsSeq(sealed)'
        /\ Issued \subseteq Issued'
        /\ \A c \in Issued' : c \in Issued \/ c = outer \/ (c = inner /\ inner # Null)
        /\ \A i \in DOMAIN sealed : sealed'[i] = sealed[i]
        /\ \A i \in DOMAIN sealed' \ DOMAIN sealed :
              sealed'[i] = [outer |-> outer, inner |-> inner,
                  recipients |-> recipients, builder |-> builders]
    BY IssueEffect DEF IssuedInv
  <1>2. \A c \in Issued' : Tied(c) /\ WellFormed(c)
    BY <1>1 DEF IssuedInv
  <1>3. ASSUME NEW i \in DOMAIN sealed' PROVE PairTied(sealed'[i])
    <2>1. CASE i \in DOMAIN sealed
      BY <1>1, <2>1 DEF IssuedInv
    <2>2. CASE i \notin DOMAIN sealed
      <3>1. sealed'[i].outer = outer /\ sealed'[i].inner = inner
        BY <1>1, <2>2
      <3> QED
        BY <3>1 DEF PairTied
    <2> QED
      BY <2>1, <2>2
  <1> QED
    BY <1>1, <1>2, <1>3 DEF IssuedInv, Tied, WellFormed, PairTied, SignatureValid, IsRow, IsSeq

(* A step that seals nothing changes nothing about what was issued. *)
LEMMA IssuedUnchanged ==
    ASSUME IssuedInv, UNCHANGED sealed
    PROVE  IssuedInv' /\ Issued' = Issued
  <1>1. Issued' = Issued
    BY DEF Issued
  <1>2. IsSeq(sealed)'
    BY DEF IssuedInv, IsSeq
  <1>3. \A c \in Issued' : Tied(c) /\ WellFormed(c)
    BY <1>1 DEF IssuedInv
  <1>4. \A i \in DOMAIN sealed' : PairTied(sealed'[i])
    BY DEF IssuedInv
  <1> QED
    BY <1>1, <1>2, <1>3, <1>4
       DEF IssuedInv, Tied, WellFormed, PairTied, SignatureValid, IsRow, IsSeq

-----------------------------------------------------------------------------
(* The author's steps keep the writer's places clear of a blob, and what they *)
(* seal, or are about to seal, is tied together.                              *)
PendingInv ==
    \A s \in sealing : /\ s.signers \in SignerLists
                       /\ Tied(s.inner)
                       /\ WellFormed(s.inner)
                       /\ s.inner.envelope.cipher = "none"

(* A step that begins no seal leaves the waiting ones as they are. *)
LEMMA PendingShrinks ==
    ASSUME PendingInv, sealing' \subseteq sealing
    PROVE  PendingInv'
  BY DEF PendingInv, Tied, WellFormed, SignatureValid, IsRow, IsSeq

(* The first half of an encrypted seal adds a tied inner capsule. *)
LEMMA BeginSteps ==
    ASSUME ClearInv, PendingInv, NEW signers \in SignerLists, NEW signedAt, NEW recipients,
           NEW placement, BeginEncrypted(signers, signedAt, recipients, placement)
    PROVE  PendingInv'
  <1> DEFINE inner == PlainArtifact(bareEvents', signers, signedAt,
                            IF placement = "outer" THEN Absent ELSE LineageMember)
             new == [bare       |-> bareEvents',
                     inner      |-> inner,
                     lineage    |-> IF placement = "inner" THEN Absent ELSE LineageMember,
                     signers    |-> signers,
                     signedAt   |-> signedAt,
                     recipients |-> recipients]
  <1>1. Tied(inner) /\ WellFormed(inner) /\ inner.envelope.cipher = "none"
    BY PlainTied DEF ClearInv
  <1>2. sealing' = sealing \cup {new}
    BY DEF BeginEncrypted
  <1>3. new.inner = inner /\ new.signers = signers
    OBVIOUS
  <1> HIDE DEF new, inner
  <1>4. \A s \in sealing' : /\ s.signers \in SignerLists
                           /\ Tied(s.inner)
                           /\ WellFormed(s.inner)
                           /\ s.inner.envelope.cipher = "none"
    BY <1>1, <1>2, <1>3 DEF PendingInv
  <1> QED
    BY <1>4 DEF PendingInv, Tied, WellFormed, SignatureValid, IsRow, IsSeq

(* Each outcome of seal(), the throwing one included. *)
LEMMA SealSteps ==
    ASSUME ClearInv, IssuedInv, PendingInv, SealBuilder
    PROVE  ClearInv' /\ IssuedInv' /\ PendingInv' /\ Issued \subseteq Issued'
  <1>1. ASSUME NEW signers \in SignerLists, NEW signedAt, SealPlain(signers, signedAt)
        PROVE  ClearInv' /\ IssuedInv' /\ PendingInv' /\ Issued \subseteq Issued'
    <2> DEFINE c == PlainArtifact(bareEvents', signers, signedAt, LineageMember)
    <2>1. Tied(c) /\ WellFormed(c) /\ c.envelope.cipher = "none"
      BY PlainTied DEF ClearInv
    <2>2. Issue(c, Null, {})
      BY <1>1 DEF SealPlain
    <2>3. UNCHANGED <<written, carried, sealing>>
      BY <1>1 DEF SealPlain, settings
    <2> HIDE DEF c
    <2>4. IssuedInv' /\ Issued \subseteq Issued'
      BY <2>1, <2>2, IssueKeeps
    <2> QED
      BY <2>3, <2>4, PendingShrinks DEF ClearInv
  <1>2. ASSUME NEW signers \in SignerLists, NEW signedAt, NEW recipients, NEW placement,
               BeginEncrypted(signers, signedAt, recipients, placement)
        PROVE  ClearInv' /\ IssuedInv' /\ PendingInv' /\ Issued \subseteq Issued'
    <2>1. UNCHANGED <<written, carried, sealed>>
      BY <1>2 DEF BeginEncrypted, settings
    <2> QED
      BY <1>2, <2>1, BeginSteps, IssuedUnchanged DEF ClearInv
  <1>3. ASSUME NEW s \in sealing, FinishEncrypted(s)
        PROVE  ClearInv' /\ IssuedInv' /\ PendingInv' /\ Issued \subseteq Issued'
    <2> DEFINE inner == s.inner
               outer == OuterArtifact(s.bare, inner, s.recipients, Len(sealed) + 1,
                                      s.signers, s.signedAt, s.lineage)
    <2>1. /\ s.signers \in SignerLists
          /\ Tied(inner) /\ WellFormed(inner) /\ inner.envelope.cipher = "none"
      BY DEF PendingInv
    <2>2. Tied(outer) /\ WellFormed(outer) /\ outer.files[BlobPath][4] = inner
      <3> HIDE DEF inner
      <3> QED
        BY <2>1, OuterTied
    <2>3. Issue(outer, inner, s.recipients) /\ UNCHANGED <<written, carried>>
      BY <1>3 DEF FinishEncrypted, settings
    <2>4. sealing' \subseteq sealing
      BY <1>3 DEF FinishEncrypted
    <2> HIDE DEF inner, outer
    <2>5. IssuedInv' /\ Issued \subseteq Issued'
      BY <2>1, <2>2, <2>3, IssueKeeps
    <2> QED
      BY <2>3, <2>4, <2>5, PendingShrinks DEF ClearInv
  <1>4. ASSUME NEW signers, NEW signedAt, SealThrows(signers, signedAt)
        PROVE  ClearInv' /\ IssuedInv' /\ PendingInv' /\ Issued \subseteq Issued'
    <2>1. UNCHANGED <<written, carried, sealing, sealed>>
      BY <1>4 DEF SealThrows, settings
    <2> QED
      BY <2>1, IssuedUnchanged, PendingShrinks DEF ClearInv
  <1> QED
    BY <1>1, <1>2, <1>3, <1>4 DEF SealBuilder

(* All steps of an author. *)
LEMMA AuthorSteps ==
    ASSUME ClearInv, IssuedInv, PendingInv, Author
    PROVE  ClearInv' /\ IssuedInv' /\ PendingInv' /\ Issued \subseteq Issued'
  <1>1. CASE SealBuilder
    BY <1>1, SealSteps
  <1>2. CASE FillBuilder \/ NewBuilder \/ Continue(Issued \cup (IF held = Null THEN {} ELSE {held}))
    <2>1. ClearInv' /\ UNCHANGED <<sealing, sealed>>
      BY <1>2, FillSteps, NewBuilderSteps
    <2> QED
      BY <2>1, IssuedUnchanged, PendingShrinks
  <1> QED
    BY <1>1, <1>2 DEF Author

-----------------------------------------------------------------------------
(* What an edit can do to the signer rows of the copy in transit. *)
HonestRow(row) ==
    row.signature.key \in HonestKeys => \E d \in Issued : row.signature.over = d.envelope

GoodRows(rows) ==
    IsSeq(rows) /\ \A i \in DOMAIN rows : IsRow(rows[i]) /\ HonestRow(rows[i])

Shaped(c) ==
    c = [manifest |-> c.manifest, envelope |-> c.envelope,
         signers |-> c.signers, files |-> c.files]

Good(c) == Shaped(c) /\ GoodRows(c.signers)

(* A good copy is a well-formed one whose honest signatures are over sealed envelopes. *)
LEMMA GoodIsInvariant ==
    ASSUME NEW c
    PROVE  Good(c) <=> WellFormed(c) /\ HonestSignatures(c)
  BY DEF Good, Shaped, GoodRows, HonestRow, WellFormed, HonestSignatures

(* Replacing a part keeps the shape, and a copy is good if its rows are. *)
LEMMA GoodEdit ==
    ASSUME NEW c, Good(c), NEW v
    PROVE  /\ Good([c EXCEPT !.manifest = v])
           /\ Good([c EXCEPT !.envelope = v])
           /\ Good([c EXCEPT !.files = v])
           /\ GoodRows(v) => Good([c EXCEPT !.signers = v])
  <1>1. Shaped(c) /\ GoodRows(c.signers)
    BY DEF Good
  <1>2. Good([c EXCEPT !.manifest = v])
    <2> DEFINE d == [c EXCEPT !.manifest = v]
    <2>1. Shaped(d) /\ d.signers = c.signers
      BY <1>1 DEF Shaped
    <2> HIDE DEF d
    <2>2. Good(d)
      BY <1>1, <2>1 DEF Good
    <2> QED
      BY <2>2 DEF d
  <1>3. Good([c EXCEPT !.envelope = v])
    <2> DEFINE d == [c EXCEPT !.envelope = v]
    <2>1. Shaped(d) /\ d.signers = c.signers
      BY <1>1 DEF Shaped
    <2> HIDE DEF d
    <2>2. Good(d)
      BY <1>1, <2>1 DEF Good
    <2> QED
      BY <2>2 DEF d
  <1>4. Good([c EXCEPT !.files = v])
    <2> DEFINE d == [c EXCEPT !.files = v]
    <2>1. Shaped(d) /\ d.signers = c.signers
      BY <1>1 DEF Shaped
    <2> HIDE DEF d
    <2>2. Good(d)
      BY <1>1, <2>1 DEF Good
    <2> QED
      BY <2>2 DEF d
  <1>5. GoodRows(v) => Good([c EXCEPT !.signers = v])
    <2> DEFINE d == [c EXCEPT !.signers = v]
    <2>1. Shaped(d) /\ d.signers = v
      BY <1>1 DEF Shaped
    <2> HIDE DEF d
    <2>2. GoodRows(v) => Good(d)
      BY <1>1, <2>1 DEF Good
    <2> QED
      BY <2>2 DEF d
  <1> QED
    BY <1>2, <1>3, <1>4, <1>5

(* The rows of an issued capsule are good: they sign what was issued. *)
LEMMA IssuedGood ==
    ASSUME IssuedInv, NEW c \in Issued
    PROVE  Good(c)
  <1>1. WellFormed(c) /\ Tied(c)
    BY DEF IssuedInv
  <1>2. \A i \in DOMAIN c.signers : c.signers[i].signature.over = c.envelope
    <2>1. \A key, role : Sign(key, role, c.envelope).over = c.envelope
      BY DEF Sign
    <2> QED
      BY <1>1, <2>1 DEF Tied, SignatureValid
  <1> QED
    BY <1>1, <1>2 DEF Good, Shaped, GoodRows, HonestRow, WellFormed

(* AppendRow and Countersign. *)
LEMMA AppendedGood ==
    ASSUME NEW rows, GoodRows(rows), NEW row, IsRow(row), HonestRow(row)
    PROVE  GoodRows(Append(rows, row))
  <1>1. /\ IsSeq(Append(rows, row))
        /\ \A i \in DOMAIN rows : Append(rows, row)[i] = rows[i]
        /\ \A i \in DOMAIN Append(rows, row) \ DOMAIN rows : Append(rows, row)[i] = row
    BY AppendedSeq DEF GoodRows
  <1>2. ASSUME NEW i \in DOMAIN Append(rows, row)
        PROVE  IsRow(Append(rows, row)[i]) /\ HonestRow(Append(rows, row)[i])
    <2>1. CASE i \in DOMAIN rows
      <3>1. Append(rows, row)[i] = rows[i]
        BY <1>1, <2>1
      <3> QED
        BY <2>1, <3>1 DEF GoodRows
    <2>2. CASE i \notin DOMAIN rows
      <3>1. Append(rows, row)[i] = row
        BY <1>1, <2>2
      <3> QED
        BY <3>1
    <2> QED
      BY <2>1, <2>2
  <1> QED
    BY <1>1, <1>2 DEF GoodRows

(* DropRow. *)
LEMMA DroppedGood ==
    ASSUME NEW rows, GoodRows(rows), NEW i \in DOMAIN rows
    PROVE  GoodRows([j \in 1..(Len(rows) - 1) |-> IF j < i THEN rows[j] ELSE rows[j + 1]])
  <1> DEFINE short == [j \in 1..(Len(rows) - 1) |-> IF j < i THEN rows[j] ELSE rows[j + 1]]
  <1>1. DOMAIN rows = 1..Len(rows) /\ Len(rows) \in Nat /\ Len(rows) - 1 \in Nat
    BY DEF GoodRows, IsSeq
  <1>2. \A j \in DOMAIN short : \E k \in DOMAIN rows : short[j] = rows[k]
    BY <1>1
  <1>3. IsSeq(short)
    BY <1>1 DEF IsSeq
  <1> HIDE DEF short
  <1>4. \A j \in DOMAIN short : IsRow(short[j]) /\ HonestRow(short[j])
    BY <1>2 DEF GoodRows
  <1> QED
    BY <1>3, <1>4 DEF GoodRows, short

(* RelabelRow and GarbleRow. *)
LEMMA ChangedGood ==
    ASSUME NEW rows, GoodRows(rows), NEW i \in DOMAIN rows,
           NEW row, IsRow(row), HonestRow(row)
    PROVE  GoodRows([rows EXCEPT ![i] = row])
  <1> DEFINE new == [rows EXCEPT ![i] = row]
  <1>1. DOMAIN rows = 1..Len(rows) /\ Len(rows) \in Nat
    BY DEF GoodRows, IsSeq
  <1>2. /\ DOMAIN new = DOMAIN rows
        /\ new[i] = row
        /\ \A j \in DOMAIN rows \ {i} : new[j] = rows[j]
    OBVIOUS
  <1>3. new = [j \in 1..Len(rows) |-> new[j]]
    BY <1>1
  <1> HIDE DEF new
  <1>4. IsSeq(new)
    BY <1>1, <1>2, <1>3 DEF IsSeq
  <1>5. \A j \in DOMAIN new : IsRow(new[j]) /\ HonestRow(new[j])
    BY <1>2 DEF GoodRows
  <1> QED
    BY <1>4, <1>5 DEF GoodRows, new

(* A row another key made says nothing in an honest key's name. *)
LEMMA ForeignRow ==
    ASSUME NEW key \in OtherKeys, NEW role, NEW envelope
    PROVE  LET row == [role |-> role, public_key |-> key,
                       signature |-> Sign(key, role, envelope)]
           IN  IsRow(row) /\ HonestRow(row)
  BY DEF OtherKeys, IsRow, HonestRow, Sign

-----------------------------------------------------------------------------
(* Every step of the journey keeps the copy in transit good. *)
HeldInv == held # Null => Good(held)

(* Edits of manifest.json and of the signed envelope members. *)
LEMMA EditedDocuments ==
    ASSUME Good(held), NEW c, EditDocuments, held' = c
    PROVE  Good(c)
  <1>1. ASSUME NEW member, NEW value, EditManifest(member, value)
        PROVE  Good(c)
    <2> DEFINE v == [held.manifest EXCEPT ![member] = value]
    <2>1. c = [held EXCEPT !.manifest = v]
      BY <1>1 DEF EditManifest, Edit
    <2> HIDE DEF v
    <2> QED
      BY <2>1, GoodEdit
  <1>2. ASSUME NEW member, NEW value, EditEnvelope(member, value)
        PROVE  Good(c)
    <2> DEFINE v == [held.envelope EXCEPT ![member] = value]
    <2>1. c = [held EXCEPT !.envelope = v]
      BY <1>2 DEF EditEnvelope, Edit
    <2> HIDE DEF v
    <2> QED
      BY <2>1, GoodEdit
  <1> QED
    BY <1>1, <1>2 DEF EditDocuments

(* Edits of the stored files. *)
LEMMA EditedFiles ==
    ASSUME Good(held), NEW c, EditFiles, held' = c
    PROVE  Good(c)
  <1>1. ASSUME NEW path, NEW bytes, StoreFile(path, bytes)
        PROVE  Good(c)
    <2> DEFINE v == Over(File(path, bytes), held.files)
    <2>1. c = [held EXCEPT !.files = v]
      BY <1>1 DEF StoreFile, Edit
    <2> HIDE DEF v
    <2> QED
      BY <2>1, GoodEdit
  <1>2. ASSUME NEW path, DropFile(path)
        PROVE  Good(c)
    <2> DEFINE v == [p \in DOMAIN held.files \ {path} |-> held.files[p]]
    <2>1. c = [held EXCEPT !.files = v]
      BY <1>2 DEF DropFile, Edit
    <2> HIDE DEF v
    <2> QED
      BY <2>1, GoodEdit
  <1> QED
    BY <1>1, <1>2 DEF EditFiles

(* Edits of the signer rows, and countersignatures by other keys. *)
LEMMA EditedSigners ==
    ASSUME IssuedInv, Good(held), NEW c, EditSigners, held' = c
    PROVE  Good(c)
  <1>1. GoodRows(held.signers)
    BY DEF Good
  <1>2. ASSUME NEW row, IsRow(row), HonestRow(row), AppendRow(row)
        PROVE  Good(c)
    <2> DEFINE v == Append(held.signers, row)
    <2>1. c = [held EXCEPT !.signers = v]
      BY <1>2 DEF AppendRow, Edit
    <2>2. GoodRows(v)
      BY <1>1, <1>2, AppendedGood
    <2> HIDE DEF v
    <2> QED
      BY <2>1, GoodEdit, <2>2
  <1>3. ASSUME NEW row \in Rows, AppendRow(row)
        PROVE  Good(c)
    <2>1. PICK d \in Issued : \E i \in DOMAIN d.signers : row = d.signers[i]
      BY <1>3 DEF Rows
    <2>2. IsRow(row) /\ HonestRow(row)
      BY <2>1, IssuedGood DEF Good, GoodRows
    <2> QED
      BY <1>2, <1>3, <2>2
  <1>4. ASSUME NEW i \in DOMAIN held.signers, DropRow(i)
        PROVE  Good(c)
    <2> DEFINE v == [j \in 1..(Len(held.signers) - 1) |->
                     IF j < i THEN held.signers[j] ELSE held.signers[j + 1]]
    <2>1. c = [held EXCEPT !.signers = v]
      BY <1>4 DEF DropRow, Edit
    <2>2. GoodRows(v)
      BY <1>1, <1>4, DroppedGood
    <2> HIDE DEF v
    <2> QED
      BY <2>1, GoodEdit, <2>2
  <1>5. ASSUME NEW i \in DOMAIN held.signers, GarbleRow(i)
        PROVE  Good(c)
    <2> DEFINE row == [held.signers[i] EXCEPT !.signature = GarbledSignature]
               v == [held.signers EXCEPT ![i] = row]
    <2>1. c = [held EXCEPT !.signers = v]
      BY <1>5 DEF GarbleRow, Edit
    <2>2. IsRow(held.signers[i])
      BY <1>1, <1>5 DEF GoodRows
    <2>3. row = [role |-> held.signers[i].role, public_key |-> held.signers[i].public_key,
                 signature |-> GarbledSignature]
      BY <2>2 DEF IsRow
    <2>4. IsRow(row) /\ HonestRow(row)
      BY <2>3, KeysAssumption DEF IsRow, HonestRow, GarbledSignature
    <2> HIDE DEF row
    <2>5. GoodRows(v)
      BY <1>1, <1>5, <2>4, ChangedGood
    <2> HIDE DEF v
    <2> QED
      BY <2>1, <2>5, GoodEdit
  <1>6. ASSUME NEW i \in DOMAIN held.signers, NEW role, RelabelRow(i, role)
        PROVE  Good(c)
    <2> DEFINE row == [held.signers[i] EXCEPT !.role = role]
               v == [held.signers EXCEPT ![i] = row]
    <2>1. c = [held EXCEPT !.signers = v]
      BY <1>6 DEF RelabelRow, Edit
    <2>2. IsRow(held.signers[i]) /\ HonestRow(held.signers[i])
      BY <1>1, <1>6 DEF GoodRows
    <2>3. row = [role |-> role, public_key |-> held.signers[i].public_key,
                 signature |-> held.signers[i].signature]
      BY <2>2 DEF IsRow
    <2>4. IsRow(row) /\ HonestRow(row)
      BY <2>2, <2>3 DEF IsRow, HonestRow
    <2> HIDE DEF row
    <2>5. GoodRows(v)
      BY <1>1, <1>6, <2>4, ChangedGood
    <2> HIDE DEF v
    <2> QED
      BY <2>1, <2>5, GoodEdit
  <1>7. ASSUME NEW key \in OtherKeys, NEW role, Countersign(key, role)
        PROVE  Good(c)
    BY <1>2, <1>7, ForeignRow DEF Countersign
  <1> QED
    BY <1>3, <1>4, <1>5, <1>6, <1>7 DEF EditSigners

(* Recomputing the digests touches no signer row. *)
LEMMA RederivedGood ==
    ASSUME NEW c, Good(c)
    PROVE  Good(Rederived(c))
  <1>1. \A m, e : Good([[c EXCEPT !.manifest = m] EXCEPT !.envelope = e])
    BY GoodEdit
  <1>2. \A m, e : [c EXCEPT !.manifest = m, !.envelope = e]
                     = [[c EXCEPT !.manifest = m] EXCEPT !.envelope = e]
    OBVIOUS
  <1> QED
    BY <1>1, <1>2 DEF Rederived

(* Splicing with issued artifacts, re-deriving, and sealing anew under another key. *)
LEMMA Recombined ==
    ASSUME IssuedInv, Good(held), NEW c, Recombine, held' = c
    PROVE  Good(c)
  <1>1. ASSUME NEW part \in {"manifest", "envelope", "signers", "files"},
               NEW d \in Issued, Splice(part, d)
        PROVE  Good(c)
    <2>1. c = [held EXCEPT ![part] = d[part]]
      BY <1>1 DEF Splice, Edit
    <2>2. GoodRows(d.signers)
      BY IssuedGood DEF Good
    <2>3. CASE part = "manifest"
      BY <2>1, <2>3, GoodEdit
    <2>4. CASE part = "envelope"
      BY <2>1, <2>4, GoodEdit
    <2>5. CASE part = "signers"
      BY <2>1, <2>2, <2>5, GoodEdit
    <2>6. CASE part = "files"
      BY <2>1, <2>6, GoodEdit
    <2> QED
      BY <2>3, <2>4, <2>5, <2>6
  <1>2. CASE Rederive
    BY <1>2, RederivedGood DEF Rederive, Edit
  <1>3. ASSUME NEW key \in OtherKeys, Reseal(key)
        PROVE  Good(c)
    <2> DEFINE own == [held EXCEPT !.manifest = [held.manifest EXCEPT
                            !.originator = key,
                            !.signer_commitment = {<<"originator", key>>}]]
               signer == <<[role |-> "originator", public_key |-> key]>>
               d == Rederived(own)
               v == SignEnvelope(d.envelope, signer)
    <2>1. c = [d EXCEPT !.signers = v]
      BY <1>3 DEF Reseal, Edit
    <2>2. Good(own)
      BY GoodEdit
    <2>3. Good(d)
      <3> HIDE DEF own
      <3> QED
        BY <2>2, RederivedGood
    <2>4. IsSeq(signer) /\ DOMAIN signer = {1} /\ signer[1].public_key = key
      BY DEF IsSeq
    <2> HIDE DEF d, signer
    <2>5. /\ IsSeq(v)
          /\ \A i \in DOMAIN v : IsRow(v[i]) /\ v[i].signature.key = key
      BY <2>4, SignedRows
    <2> HIDE DEF v
    <2>6. GoodRows(v)
      BY <2>5 DEF GoodRows, HonestRow, OtherKeys
    <2> QED
      BY <2>1, <2>3, <2>6, GoodEdit
  <1> QED
    BY <1>1, <1>2, <1>3 DEF Recombine

(* All steps of the journey. *)
LEMMA TransitSteps ==
    ASSUME ClearInv, IssuedInv, PendingInv, HeldInv, Transit
    PROVE  ClearInv' /\ IssuedInv' /\ PendingInv' /\ Issued' = Issued /\ HeldInv'
  <1>1. UNCHANGED <<written, carried, sealing, sealed>> /\ (UNCHANGED held \/ (held' # Null => Good(held')))
    <2>1. ASSUME NEW c \in Issued, Receive(c)
          PROVE  UNCHANGED vars /\ Good(held')
      BY <2>1, IssuedGood DEF Receive
    <2>2. ASSUME held # Null, EditDocuments
          PROVE  UNCHANGED vars /\ Good(held')
      <3>1. Good(held')
        BY <2>2, EditedDocuments DEF HeldInv
      <3>2. UNCHANGED vars
        BY <2>2 DEF EditDocuments, EditManifest, EditEnvelope, Edit
      <3> QED
        BY <3>1, <3>2
    <2>3. ASSUME held # Null, EditFiles
          PROVE  UNCHANGED vars /\ Good(held')
      <3>1. Good(held')
        BY <2>3, EditedFiles DEF HeldInv
      <3>2. UNCHANGED vars
        BY <2>3 DEF EditFiles, StoreFile, DropFile, Edit
      <3> QED
        BY <3>1, <3>2
    <2>4. ASSUME held # Null, EditSigners
          PROVE  UNCHANGED vars /\ Good(held')
      <3>1. Good(held')
        BY <2>4, EditedSigners DEF HeldInv
      <3>2. UNCHANGED vars
        BY <2>4 DEF EditSigners, AppendRow, DropRow, GarbleRow, RelabelRow, Countersign, Edit
      <3> QED
        BY <3>1, <3>2
    <2>5. ASSUME held # Null, Recombine
          PROVE  UNCHANGED vars /\ Good(held')
      <3>1. Good(held')
        BY <2>5, Recombined DEF HeldInv
      <3>2. UNCHANGED vars
        BY <2>5 DEF Recombine, Splice, Rederive, Reseal, Edit
      <3> QED
        BY <3>1, <3>2
    <2>6. ASSUME AcceptHeld \/ \E r \in Recipients : AcceptDecrypted(r)
          PROVE  UNCHANGED vars /\ UNCHANGED held
      BY <2>6 DEF AcceptHeld, AcceptDecrypted
    <2> QED
      BY <2>1, <2>2, <2>3, <2>4, <2>5, <2>6 DEF Transit, vars
  <1>2. IssuedInv' /\ Issued' = Issued
    BY <1>1, IssuedUnchanged
  <1>3. ClearInv' /\ PendingInv'
    BY <1>1, PendingShrinks DEF ClearInv
  <1>4. HeldInv'
    BY <1>1, <1>2 DEF HeldInv, Good, Shaped, GoodRows, HonestRow, IsRow, IsSeq
  <1> QED
    BY <1>2, <1>3, <1>4

-----------------------------------------------------------------------------
(* The invariant over all steps. *)
TransitInv == ClearInv /\ IssuedInv /\ PendingInv /\ HeldInv

(* The invariant holds before anything is sealed. *)
LEMMA TransitInvInit == TransitInit => TransitInv
  <1> SUFFICES ASSUME TransitInit PROVE TransitInv
    OBVIOUS
  <1>1. sealed = <<>> /\ sealing = {} /\ written = NoFiles /\ carried = NoFiles /\ held = Null
    BY DEF TransitInit, Init
  <1>2. ClearInv
    BY <1>1 DEF ClearInv, NoFiles
  <1>3. DOMAIN sealed = {} /\ IsSeq(sealed)
    BY <1>1 DEF IsSeq
  <1>4. Issued = {}
    BY <1>3 DEF Issued
  <1>5. IssuedInv
    BY <1>3, <1>4 DEF IssuedInv
  <1> QED
    BY <1>1, <1>2, <1>5 DEF TransitInv, PendingInv, HeldInv

(* Every step of authors, holders and recipients keeps it. *)
LEMMA TransitInvNext == TransitInv /\ [TransitNext]_allVars => TransitInv'
  <1> SUFFICES ASSUME TransitInv, [TransitNext]_allVars PROVE TransitInv'
    OBVIOUS
  <1> USE DEF TransitInv
  <1>1. CASE Transit
    BY <1>1, TransitSteps
  <1>2. CASE Author
    <2>1. ClearInv' /\ IssuedInv' /\ PendingInv' /\ Issued \subseteq Issued'
      BY <1>2, AuthorSteps
    <2>2. held' = held
      BY <1>2 DEF Author, transitVars
    <2>3. HeldInv'
      BY <2>1, <2>2 DEF HeldInv, Good, Shaped, GoodRows, HonestRow, IsRow, IsSeq
    <2> QED
      BY <2>1, <2>3
  <1>3. CASE UNCHANGED allVars
    <2>1. UNCHANGED <<written, carried, sealing, sealed, held>>
      BY <1>3 DEF allVars, vars
    <2>2. IssuedInv' /\ Issued' = Issued
      BY <2>1, IssuedUnchanged
    <2>3. PendingInv'
      BY <2>1, PendingShrinks
    <2> QED
      BY <2>1, <2>2, <2>3 DEF ClearInv, HeldInv, Good, Shaped, GoodRows, HonestRow, IsRow, IsSeq
  <1> QED
    BY <1>1, <1>2, <1>3 DEF TransitNext

(* Hence it holds always. *)
LEMMA TransitInvHolds == TransitSpec => []TransitInv
  BY TransitInvInit, TransitInvNext, PTL DEF TransitSpec

(* What is sealed is tied together by hashes and signatures, and nothing in *)
(* transit carries an honest signature over anything but a sealed envelope. *)
THEOREM SealsAlwaysHold == TransitSpec => []SealsHold
  <1>1. TransitInv => SealsHold
    BY GoodIsInvariant DEF TransitInv, SealsHold, ClearInv, IssuedInv, PendingInv, HeldInv
  <1> QED
    BY <1>1, TransitInvHolds, PTL

-----------------------------------------------------------------------------
(* Why a capsule that verifies is one that was issued: the honest row's       *)
(* signature fixes the envelope, the envelope the manifest, the index and the *)
(* blob, and the manifest the signer set.                                     *)
LEMMA SameIndexSameFiles ==
    ASSUME NEW f, NEW g, NEW excluded,
           BuildContentIndex(f, excluded).index_hash = BuildContentIndex(g, excluded).index_hash
    PROVE  /\ DOMAIN f \ excluded = DOMAIN g \ excluded
           /\ \A p \in DOMAIN f \ excluded : f[p] = g[p]
  <1> DEFINE F == [p \in DOMAIN f \ excluded |-> FileHash(f[p])]
             G == [p \in DOMAIN g \ excluded |-> FileHash(g[p])]
  <1>1. <<"sha256-index", F>> = <<"sha256-index", G>>
    BY DEF BuildContentIndex
  <1>2. F = G
    <2> HIDE DEF F, G
    <2> QED
      BY <1>1
  <1>3. DOMAIN F = DOMAIN f \ excluded /\ DOMAIN G = DOMAIN g \ excluded
    OBVIOUS
  <1>4. DOMAIN f \ excluded = DOMAIN g \ excluded
    BY <1>2, <1>3
  <1>5. ASSUME NEW p \in DOMAIN f \ excluded PROVE f[p] = g[p]
    <2>1. F[p] = FileHash(f[p]) /\ G[p] = FileHash(g[p])
      BY <1>4, <1>5
    <2>2. FileHash(f[p]) = FileHash(g[p])
      BY <1>2, <2>1
    <2> QED
      BY <2>2 DEF FileHash
  <1> QED
    BY <1>4, <1>5

(* Any valid row of an honest key, in any role, makes a valid capsule a sealed one. *)
LEMMA ValidIsIssued ==
    ASSUME IssuedInv, NEW c, Good(c), NEW options, VerifyOk(c, options),
           NEW i \in DOMAIN c.signers,
           SignatureValid(c.signers[i], c.envelope),
           c.signers[i].public_key \in HonestKeys
    PROVE  \E d \in Issued : SameCapsule(c, d)
  <1>1. c.signers[i].signature.key = c.signers[i].public_key
        /\ c.signers[i].signature.over = c.envelope
    <2>1. \A key, role, envelope : Sign(key, role, envelope).key = key
                                  /\ Sign(key, role, envelope).over = envelope
      BY DEF Sign
    <2> QED
      BY <2>1 DEF SignatureValid
  <1>2. PICK d \in Issued : c.envelope = d.envelope
    BY <1>1 DEF Good, GoodRows, HonestRow
  <1>3. Tied(d)
    BY DEF IssuedInv
  <1>4. ManifestHashOk(c) /\ ContentIndexOk(c) /\ BlobOk(c) /\ SignerSetOk(c)
    BY DEF VerifyOk
  <1>5. c.manifest = d.manifest
    <2>1. ManifestHash(c.manifest) = ManifestHash(d.manifest)
      BY <1>2, <1>3, <1>4 DEF ManifestHashOk, Tied
    <2> QED
      BY <2>1 DEF ManifestHash
  <1>6. Members(c.signers) = Members(d.signers)
    BY <1>3, <1>4, <1>5 DEF SignerSetOk, Tied
  <1>7. SameFiles(c.files, d.files)
    <2> DEFINE excluded == ContentIndexExclusions(c.envelope.cipher # "none")
    <2>1. BuildContentIndex(c.files, excluded).index_hash
             = BuildContentIndex(d.files, excluded).index_hash
      BY <1>2, <1>3, <1>4 DEF ContentIndexOk, Recomputed, Tied
    <2>2. excluded \subseteq {BlobPath}
      BY DEF ContentIndexExclusions
    <2> HIDE DEF excluded
    <2>3. /\ DOMAIN c.files \ excluded = DOMAIN d.files \ excluded
          /\ \A p \in DOMAIN c.files \ excluded : c.files[p] = d.files[p]
      BY <2>1, SameIndexSameFiles
    <2>4. /\ BlobPath \in DOMAIN c.files <=> BlobPath \in DOMAIN d.files
          /\ BlobPath \in DOMAIN c.files => FileHash(c.files[BlobPath]) = FileHash(d.files[BlobPath])
      BY <1>2, <1>3, <1>4 DEF BlobOk, Tied
    <2>5. BlobPath \in DOMAIN c.files => c.files[BlobPath] = d.files[BlobPath]
      BY <2>4 DEF FileHash
    <2> QED
      BY <2>2, <2>3, <2>4, <2>5 DEF SameFiles
  <1> QED
    BY <1>2, <1>5, <1>6, <1>7 DEF SameCapsule

(* A capsule that verifies under an honest originator key is one that was *)
(* sealed, whatever happened to it on the way.                            *)
THEOREM ValidCapsulesWereSealed == TransitSpec => []ValidImpliesSealed
  <1>1. TransitInv => ValidImpliesSealed
    <2> SUFFICES ASSUME TransitInv, held # Null, VerifyOk(held, NoOptions),
                        held.manifest.originator \in HonestKeys
                 PROVE  \E c \in Issued : SameCapsule(held, c)
      BY DEF ValidImpliesSealed
    <2>1. PICK i \in DOMAIN held.signers :
              /\ held.signers[i].public_key = held.manifest.originator
              /\ SignatureValid(held.signers[i], held.envelope)
      BY DEF VerifyOk, OriginatorBound
    <2> QED
      BY <2>1, ValidIsIssued DEF TransitInv, HeldInv
  <1> QED
    BY <1>1, TransitInvHolds, PTL

(* In particular the row the originator binding asks for. *)
LEMMA HonestOriginatorIssued ==
    ASSUME IssuedInv, NEW c, Good(c), NEW options, VerifyOk(c, options),
           c.manifest.originator \in HonestKeys
    PROVE  \E d \in Issued : SameCapsule(c, d)
  <1>1. PICK i \in DOMAIN c.signers :
            /\ c.signers[i].public_key = c.manifest.originator
            /\ SignatureValid(c.signers[i], c.envelope)
    BY DEF VerifyOk, OriginatorBound
  <1> QED
    BY <1>1, ValidIsIssued

(* A skill is called signed on the word of an honest key only if it is one of *)
(* a capsule such a key sealed.                                               *)
THEOREM SignedSkillsAreSealed == TransitSpec => []SignedSkillsWereSealed
  <1>1. TransitInv => SignedSkillsWereSealed
    <2> DEFINE options == [NoOptions EXCEPT !.allowlist = HonestKeys]
    <2> SUFFICES ASSUME TransitInv, held # Null, SignedSkills(held, options) # {}
                 PROVE  \E c \in Issued :
                            /\ SameCapsule(held, c)
                            /\ \E i \in DOMAIN c.signers : c.signers[i].public_key \in HonestKeys
      BY DEF SignedSkillsWereSealed
    <2>1. options.allowlist = HonestKeys
      BY DEF NoOptions
    <2> HIDE DEF options
    <2>2. CapsuleSigned(held, options)
      BY DEF SignedSkills
    <2>3. VerifyOk(held, options)
      BY <2>2 DEF CapsuleSigned, Verdict
    <2>4. PICK k \in HonestKeys, i \in DOMAIN held.signers :
              held.signers[i].public_key = k /\ SignatureValid(held.signers[i], held.envelope)
      BY <2>1, <2>2 DEF CapsuleSigned, TrustedSigners
    <2>5. PICK c \in Issued : SameCapsule(held, c)
      BY <2>3, <2>4, ValidIsIssued DEF TransitInv, HeldInv
    <2>6. <<held.signers[i].role, k>> \in Members(c.signers)
      BY <2>4, <2>5 DEF SameCapsule, Members
    <2>7. PICK j \in DOMAIN c.signers :
              <<held.signers[i].role, k>> = <<c.signers[j].role, c.signers[j].public_key>>
      BY <2>6 DEF Members
    <2> QED
      BY <2>5, <2>7
  <1> QED
    BY <1>1, TransitInvHolds, PTL

-----------------------------------------------------------------------------
(* What a step can change: only a seal adds to what was sealed, and only a    *)
(* recipient's step to what was accepted.                                     *)
LEMMA EditsAcceptNothing ==
    ASSUME EditDocuments \/ EditFiles \/ EditSigners \/ Recombine
    PROVE  UNCHANGED <<vars, accepted>>
  <1>1. \A c : Edit(c) => UNCHANGED <<vars, accepted>>
    BY DEF Edit
  <1>2. CASE EditDocuments
    BY <1>1, <1>2 DEF EditDocuments, EditManifest, EditEnvelope
  <1>3. CASE EditFiles
    BY <1>1, <1>3 DEF EditFiles, StoreFile, DropFile
  <1>4. CASE EditSigners
    BY <1>1, <1>4 DEF EditSigners, AppendRow, DropRow, GarbleRow, RelabelRow, Countersign
  <1>5. CASE Recombine
    BY <1>1, <1>5 DEF Recombine, Splice, Rederive, Reseal
  <1> QED
    BY <1>2, <1>3, <1>4, <1>5

(* Only recipients accept. *)
LEMMA OnlyRecipientsAccept ==
    ASSUME [TransitNext]_allVars
    PROVE  UNCHANGED accepted \/ AcceptHeld \/ \E r \in Recipients : AcceptDecrypted(r)
  <1>1. CASE Author
    BY <1>1 DEF Author, transitVars
  <1>2. CASE Transit
    BY <1>2, EditsAcceptNothing DEF Transit, Receive
  <1>3. CASE UNCHANGED allVars
    BY <1>3 DEF allVars
  <1> QED
    BY <1>1, <1>2, <1>3 DEF TransitNext

(* Only seals add to what was sealed. *)
LEMMA SealedGrows ==
    ASSUME ClearInv, [TransitNext]_allVars
    PROVE  UNCHANGED sealed \/ \E outer, inner, recipients : Issue(outer, inner, recipients)
  <1>1. CASE SealBuilder
    BY <1>1 DEF SealBuilder, SealPlain, BeginEncrypted, FinishEncrypted, SealThrows
  <1>2. CASE FillBuilder
    BY <1>2, FillSteps
  <1>3. CASE NewBuilder \/ Continue(Issued \cup (IF held = Null THEN {} ELSE {held}))
    BY <1>3, NewBuilderSteps
  <1>4. CASE Transit
    BY <1>4, EditsAcceptNothing DEF Transit, Receive, AcceptHeld, AcceptDecrypted, vars
  <1>5. CASE UNCHANGED allVars
    BY <1>5 DEF allVars, vars
  <1> QED
    BY <1>1, <1>2, <1>3, <1>4, <1>5 DEF TransitNext, Author

-----------------------------------------------------------------------------
(* The journey implements the promise. *)
LEMMA SameIsVouched ==
    ASSUME NEW c, NEW d, SameCapsule(c, d)
    PROVE  Vouched(c) = Vouched(d)
  <1>1. [p \in DOMAIN c.files |-> c.files[p]] = [p \in DOMAIN d.files |-> d.files[p]]
    BY DEF SameCapsule, SameFiles
  <1> QED
    BY <1>1 DEF Vouched, SameCapsule

(* What recipients accept as an honest author's is what that author issued:   *)
(* every step of authors, copies and recipients is a step of the promise.     *)
THEOREM TransitKeepsPromise == TransitSpec => PromiseKept
  <1>1. TransitInit => Promise!Init
    <2> SUFFICES ASSUME TransitInit PROVE IssuedCapsules = {} /\ AcceptedCapsules = {}
      BY DEF Promise!Init
    <2>1. sealed = <<>> /\ accepted = {}
      BY DEF TransitInit, Init
    <2>2. Issued = {}
      BY <2>1 DEF Issued
    <2> QED
      BY <2>1, <2>2 DEF IssuedCapsules, AcceptedCapsules
  <1>2. TransitInv /\ [TransitNext]_allVars
            => [Promise!Issue \/ Promise!Vouch]_<<IssuedCapsules, AcceptedCapsules>>
    <2> SUFFICES ASSUME TransitInv, [TransitNext]_allVars
                 PROVE  [Promise!Issue \/ Promise!Vouch]_<<IssuedCapsules, AcceptedCapsules>>
      OBVIOUS
    <2>1. ASSUME Issued \subseteq Issued', UNCHANGED accepted
          PROVE  Promise!Issue
      <3>1. IssuedCapsules \subseteq IssuedCapsules' /\ UNCHANGED AcceptedCapsules
        BY <2>1 DEF IssuedCapsules, AcceptedCapsules, Vouched
      <3> QED
        BY <3>1 DEF Promise!Issue
    <2>2. CASE Author
      <3>1. Issued \subseteq Issued'
        BY <2>2, AuthorSteps DEF TransitInv
      <3>2. UNCHANGED accepted
        BY <2>2 DEF Author, transitVars
      <3> QED
        BY <2>1, <3>1, <3>2
    <2>3. ASSUME UNCHANGED accepted, Transit PROVE Promise!Issue
      BY <2>1, <2>3, TransitSteps DEF TransitInv
    <2>4. ASSUME NEW inner, held # Null, VerifyOk(held, NoOptions), Transit,
                 accepted' = accepted \cup {[outer |-> held, inner |-> inner]}
          PROVE  [Promise!Issue \/ Promise!Vouch]_<<IssuedCapsules, AcceptedCapsules>>
      <3> DEFINE pair == [outer |-> held, inner |-> inner]
                 honest == {b \in accepted : b.outer.manifest.originator \in HonestKeys}
      <3>1. Issued' = Issued
        BY <2>4, TransitSteps DEF TransitInv
      <3>2. IssuedCapsules' = IssuedCapsules
        BY <3>1 DEF IssuedCapsules, Vouched
      <3>3. pair.outer = held
        OBVIOUS
      <3>4. accepted' = accepted \cup {pair}
        BY <2>4
      <3> HIDE DEF pair
      <3>5. CASE held.manifest.originator \in HonestKeys
        <4>1. PICK d \in Issued : SameCapsule(held, d)
          BY <2>4, <3>5, HonestOriginatorIssued DEF TransitInv, HeldInv
        <4>2. Vouched(held) \in IssuedCapsules
          BY <4>1, SameIsVouched DEF IssuedCapsules
        <4>3. honest' = honest \cup {pair}
          BY <3>3, <3>4, <3>5
        <4>4. AcceptedCapsules' = AcceptedCapsules \cup {Vouched(held)}
          BY <3>3, <4>3 DEF AcceptedCapsules, Vouched
        <4>5. Promise!Vouch
          BY <3>2, <4>2, <4>4 DEF Promise!Vouch
        <4> QED
          BY <4>5
      <3>6. CASE held.manifest.originator \notin HonestKeys
        <4>1. honest' = honest
          BY <3>3, <3>4, <3>6
        <4>2. AcceptedCapsules' = AcceptedCapsules
          BY <4>1 DEF AcceptedCapsules, Vouched
        <4> QED
          BY <3>2, <4>2
      <3> QED
        BY <3>5, <3>6
    <2>5. CASE Transit
      <3>1. CASE UNCHANGED accepted
        BY <2>3, <2>5, <3>1
      <3>2. CASE AcceptHeld
        BY <2>4, <2>5, <3>2 DEF AcceptHeld
      <3>3. ASSUME NEW r \in Recipients, AcceptDecrypted(r)
            PROVE  [Promise!Issue \/ Promise!Vouch]_<<IssuedCapsules, AcceptedCapsules>>
        BY <2>4, <2>5, <3>3 DEF AcceptDecrypted
      <3>4. UNCHANGED accepted \/ AcceptHeld \/ \E r \in Recipients : AcceptDecrypted(r)
        BY OnlyRecipientsAccept
      <3> QED
        BY <3>1, <3>2, <3>3, <3>4
    <2>6. CASE UNCHANGED allVars
      <3>1. UNCHANGED sealed /\ UNCHANGED accepted
        BY <2>6 DEF allVars, vars
      <3>2. Issued' = Issued
        BY <3>1 DEF Issued
      <3> QED
        BY <2>1, <3>1, <3>2
    <2> QED
      BY <2>2, <2>5, <2>6 DEF TransitNext
  <1> QED
    BY <1>1, <1>2, TransitInvHolds, PTL DEF TransitSpec, PromiseKept, Promise!Spec

-----------------------------------------------------------------------------
(* The pair of layers a recipient accepts at L3. *)
LEMMA DecryptedPair ==
    ASSUME TransitInv, held # Null, NEW r, VerifyOk(held, NoOptions), CanDecrypt(held, r),
           held.manifest.originator \in HonestKeys
    PROVE  \E i \in DOMAIN sealed :
               /\ SameCapsule(held, sealed[i].outer)
               /\ Decrypted(held) = sealed[i].inner
  <1>1. PICK d \in Issued : SameCapsule(held, d)
    BY HonestOriginatorIssued DEF TransitInv, HeldInv
  <1>2. held.envelope.cipher # "none" /\ BlobPath \in DOMAIN held.files
    BY DEF CanDecrypt, IsEncrypted
  <1>3. d.envelope.cipher # "none" /\ d.files[BlobPath] = held.files[BlobPath]
    BY <1>1, <1>2 DEF SameCapsule, SameFiles
  <1>4. PICK i \in DOMAIN sealed :
            d = sealed[i].outer \/ (d = sealed[i].inner /\ sealed[i].inner # Null)
    BY DEF Issued
  <1>5. PairTied(sealed[i])
    BY DEF TransitInv, IssuedInv
  <1>6. d = sealed[i].outer
    BY <1>3, <1>4, <1>5 DEF PairTied
  <1>7. Decrypted(held) = sealed[i].inner
    BY <1>3, <1>5, <1>6 DEF PairTied, Decrypted
  <1> QED
    BY <1>1, <1>6, <1>7

(* A decrypted capsule accepted under an honest outer originator is the one  *)
(* that was sealed with that outer.                                          *)
THEOREM PairsStayTogether == TransitSpec => []AcceptedPairsWereSealedTogether
  <1> DEFINE Together(a, s) ==
                 \E i \in DOMAIN s : SameCapsule(a.outer, s[i].outer) /\ a.inner = s[i].inner
             PairInv == AcceptedPairsWereSealedTogether
  <1>1. TransitInit => PairInv
    BY DEF TransitInit, AcceptedPairsWereSealedTogether
  <1>2. TransitInv /\ PairInv /\ [TransitNext]_allVars => PairInv'
    <2> SUFFICES ASSUME TransitInv, PairInv, [TransitNext]_allVars,
                        NEW a \in accepted', a.inner # Null,
                        a.outer.manifest.originator \in HonestKeys
                 PROVE  Together(a, sealed')
      BY DEF AcceptedPairsWereSealedTogether, SameCapsule, SameFiles
    <2>1. /\ DOMAIN sealed \subseteq DOMAIN sealed'
          /\ \A i \in DOMAIN sealed : sealed'[i] = sealed[i]
      <3>1. UNCHANGED sealed \/ \E outer, inner, recipients : Issue(outer, inner, recipients)
        BY SealedGrows DEF TransitInv
      <3> QED
        BY <3>1, IssueEffect DEF TransitInv, IssuedInv
    <2>2. ASSUME Together(a, sealed) PROVE Together(a, sealed')
      BY <2>1, <2>2
    <2>3. CASE a \in accepted
      BY <2>2, <2>3 DEF AcceptedPairsWereSealedTogether
    <2>4. CASE a \notin accepted
      <3>1. AcceptHeld \/ \E r \in Recipients : AcceptDecrypted(r)
        BY <2>4, OnlyRecipientsAccept
      <3>2. PICK r \in Recipients : AcceptDecrypted(r)
        BY <2>4, <3>1 DEF AcceptHeld
      <3>3. a = [outer |-> held, inner |-> Decrypted(held)]
        BY <2>4, <3>2 DEF AcceptDecrypted
      <3>4. a.outer = held /\ a.inner = Decrypted(held)
        BY <3>3
      <3>5. Together(a, sealed)
        BY <3>2, <3>4, DecryptedPair DEF AcceptDecrypted
      <3> QED
        BY <2>2, <3>5
    <2> QED
      BY <2>3, <2>4
  <1> QED
    BY <1>1, <1>2, TransitInvHolds, PTL DEF TransitSpec

-----------------------------------------------------------------------------
(* What a builder cites. *)
Cites(entry) ==
    entry.originator_public_key \in HonestKeys /\ entry \notin ArchiveEntries =>
        \E d \in Issued :
            /\ entry = DerivePredecessorEntry(d)
            /\ d.envelope.cipher = "none"

CitationInv ==
    /\ IsSeq(predecessors)
    /\ \A i \in DOMAIN predecessors : Cites(predecessors[i])

(* The predecessor gate without its override lets only sealed capsules through. *)
LEMMA DerivedCites ==
    ASSUME IssuedInv, NEW c, Good(c), PredecessorRefusal(c, FALSE) = "none"
    PROVE  Cites(DerivePredecessorEntry(c))
  <1>1. VerifyOk(c, NoOptions) /\ ~IsEncrypted(c)
    BY DEF PredecessorRefusal
  <1>2. c.envelope.cipher = "none"
    BY <1>1 DEF VerifyOk, BlobOk, IsEncrypted
  <1>3. DerivePredecessorEntry(c).originator_public_key = c.manifest.originator
    BY DEF DerivePredecessorEntry
  <1>4. ASSUME c.manifest.originator \in HonestKeys
        PROVE  \E d \in Issued : /\ DerivePredecessorEntry(c) = DerivePredecessorEntry(d)
                                /\ d.envelope.cipher = "none"
    <2>1. PICK d \in Issued : SameCapsule(c, d)
      BY <1>1, <1>4, HonestOriginatorIssued
    <2>2. c.manifest = d.manifest /\ c.envelope = d.envelope
      BY <2>1 DEF SameCapsule
    <2>3. DerivePredecessorEntry(c) = DerivePredecessorEntry(d)
      BY <2>2 DEF DerivePredecessorEntry
    <2> QED
      BY <1>2, <2>2, <2>3
  <1> QED
    BY <1>3, <1>4 DEF Cites

(* Appending an entry that cites a sealed capsule. *)
LEMMA DeclaredCites ==
    ASSUME CitationInv, NEW entry, Cites(entry), DeclarePredecessorEntry(entry)
    PROVE  IsSeq(predecessors') /\ \A i \in DOMAIN predecessors' : Cites(predecessors'[i])
  <1>1. predecessors' = Append(predecessors, entry)
    BY DEF DeclarePredecessorEntry
  <1>2. /\ IsSeq(predecessors')
        /\ \A i \in DOMAIN predecessors : predecessors'[i] = predecessors[i]
        /\ \A i \in DOMAIN predecessors' \ DOMAIN predecessors : predecessors'[i] = entry
    BY <1>1, AppendedSeq DEF CitationInv
  <1>3. ASSUME NEW i \in DOMAIN predecessors' PROVE Cites(predecessors'[i])
    <2>1. CASE i \in DOMAIN predecessors
      <3>1. predecessors'[i] = predecessors[i]
        BY <1>2, <2>1
      <3> QED
        BY <2>1, <3>1 DEF CitationInv
    <2>2. CASE i \notin DOMAIN predecessors
      <3>1. predecessors'[i] = entry
        BY <1>2, <2>2
      <3> QED
        BY <3>1
    <2> QED
      BY <2>1, <2>2
  <1> QED
    BY <1>2, <1>3

(* Every step keeps the builder's citations those of sealed capsules. *)
LEMMA CitationSteps ==
    ASSUME TransitInv, CitationInv, TRUE \notin Overrides, [TransitNext]_allVars
    PROVE  IsSeq(predecessors') /\ \A i \in DOMAIN predecessors' : Cites(predecessors'[i])
  <1> DEFINE Goal == IsSeq(predecessors') /\ \A i \in DOMAIN predecessors' : Cites(predecessors'[i])
  <1>1. ASSUME UNCHANGED predecessors PROVE Goal
    BY <1>1 DEF CitationInv
  <1>2. ASSUME predecessors' = <<>> PROVE Goal
    BY <1>2 DEF IsSeq
  <1>3. CASE SealBuilder
    BY <1>1, <1>3 DEF SealBuilder, SealPlain, BeginEncrypted, FinishEncrypted, SealThrows, settings
  <1>4. CASE FillBuilder
    <2>1. ASSUME NEW entry \in ArchiveEntries, DeclarePredecessorEntry(entry) PROVE Goal
      BY <2>1, DeclaredCites DEF Cites
    <2> QED
      BY <1>1, <1>4, <2>1 DEF FillBuilder, AssignParticipants, SetProgram, SetAgents, AddSkill,
            AddPayload, Write, AppendEvent, PreviewCapsuleId, settings
  <1>5. CASE NewBuilder
    BY <1>2, <1>5 DEF NewBuilder, Construct
  <1>6. ASSUME NEW c \in Issued \cup (IF held = Null THEN {} ELSE {held}),
               NEW allowInvalid \in Overrides, PredecessorRefusal(c, allowInvalid) = "none"
        PROVE  Cites(DerivePredecessorEntry(c))
    <2>1. Good(c)
      BY <1>6, IssuedGood DEF TransitInv, HeldInv
    <2>2. allowInvalid = FALSE
      BY <1>6, OverridesAssumption
    <2> QED
      BY <1>6, <2>1, <2>2, DerivedCites DEF TransitInv
  <1>7. CASE Continue(Issued \cup (IF held = Null THEN {} ELSE {held}))
    <2>1. PICK c \in Issued \cup (IF held = Null THEN {} ELSE {held}), allowInvalid \in Overrides :
              \/ DeclarePredecessor(c, allowInvalid)
              \/ \E key \in Keys, declared \in SUBSET ActorIds,
                    custodyActor \in ActorIds \cup {HostActor, Null}, createdAt \in Times :
                     \E carry \in SUBSET CarriablePaths(c) :
                         ContinueFrom(c, allowInvalid, carry, key, declared, custodyActor,
                                      createdAt)
      BY <1>7 DEF Continue
    <2>2. CASE DeclarePredecessor(c, allowInvalid)
      <3> DEFINE entry == DerivePredecessorEntry(c)
      <3>1. Cites(entry) /\ DeclarePredecessorEntry(entry)
        BY <1>6, <2>2 DEF DeclarePredecessor
      <3> HIDE DEF entry
      <3> QED
        BY <3>1, DeclaredCites
    <2>3. ASSUME NEW carry, NEW key, NEW declared, NEW custodyActor, NEW createdAt,
                 ContinueFrom(c, allowInvalid, carry, key, declared, custodyActor,
                              createdAt)
          PROVE  Goal
      <3> DEFINE entry == DerivePredecessorEntry(c)
      <3>1. Cites(entry) /\ predecessors' = <<entry>>
        BY <1>6, <2>3 DEF ContinueFrom
      <3> HIDE DEF entry
      <3> QED
        BY <3>1 DEF IsSeq
    <2> QED
      BY <2>1, <2>2, <2>3
  <1>8. CASE Transit
    BY <1>1, <1>8, EditsAcceptNothing DEF Transit, Receive, AcceptHeld, AcceptDecrypted, vars
  <1>9. CASE UNCHANGED allVars
    BY <1>1, <1>9 DEF allVars, vars
  <1> QED
    BY <1>3, <1>4, <1>5, <1>7, <1>8, <1>9 DEF TransitNext, Author

(* Without the override, an entry derived under an honest originator cites a *)
(* plain capsule that was sealed, however the copy it came from was edited.  *)
THEOREM CitationsNameSealed == TransitSpec => []CitationsAreSealed
  <1>1. TransitInit => CitationInv
    BY DEF TransitInit, Init, CitationInv, IsSeq
  <1>2. ASSUME TRUE \notin Overrides
        PROVE  TransitInv /\ CitationInv /\ [TransitNext]_allVars => CitationInv'
    <2> SUFFICES ASSUME TransitInv, CitationInv, [TransitNext]_allVars PROVE CitationInv'
      OBVIOUS
    <2>1. IsSeq(predecessors') /\ \A i \in DOMAIN predecessors' : Cites(predecessors'[i])
      BY <1>2, CitationSteps
    <2>2. Issued \subseteq Issued'
      <3>1. UNCHANGED sealed \/ \E outer, inner, recipients : Issue(outer, inner, recipients)
        BY SealedGrows DEF TransitInv
      <3> QED
        BY <3>1, IssueEffect, IssuedUnchanged DEF TransitInv, IssuedInv
    <2> QED
      BY <2>1, <2>2 DEF CitationInv, Cites, IsSeq, DerivePredecessorEntry
  <1>3. CitationInv => CitationsAreSealed
    BY DEF CitationInv, Cites, CitationsAreSealed
  <1>4. CASE TRUE \in Overrides
    <2>1. CitationsAreSealed
      BY <1>4 DEF CitationsAreSealed
    <2> QED
      BY <2>1, PTL
  <1>5. CASE TRUE \notin Overrides
    <2>1. TransitInv /\ CitationInv /\ [TransitNext]_allVars => CitationInv'
      BY <1>2, <1>5
    <2> QED
      BY <1>1, <1>3, <2>1, TransitInvHolds, PTL DEF TransitSpec
  <1> QED
    BY <1>4, <1>5

-----------------------------------------------------------------------------
(* Nothing in transit reaches an author's builder but what it continues from. *)
LEMMA TransitLeavesAuthors ==
    ASSUME Transit
    PROVE  UNCHANGED vars
  BY EditsAcceptNothing DEF Transit, Receive, AcceptHeld, AcceptDecrypted

(* The writer and the reader go on agreeing where authors continue from       *)
(* whatever is in transit, edited or spliced, and where they override the     *)
(* gate on predecessors: none of it makes a seal that fails, or that opens    *)
(* for somebody else.                                                         *)
THEOREM SealsVerifyInTransit ==
    ASSUME Placeholders
    PROVE  TransitSpec => [](SealedVerifies /\ RecipientsDecrypt)
  <1>1. TransitInit => SealInv
    BY SealInvInit DEF TransitInit
  <1>2. SealInv /\ [TransitNext]_allVars => SealInv'
    <2> SUFFICES ASSUME SealInv, [TransitNext]_allVars PROVE SealInv'
      OBVIOUS
    <2>1. CASE Author
      BY <2>1, SealInvStep DEF Author
    <2>2. CASE Transit
      BY <2>2, TransitLeavesAuthors, SealInvStutter
    <2>3. CASE UNCHANGED allVars
      BY <2>3, SealInvStutter DEF allVars
    <2> QED BY <2>1, <2>2, <2>3 DEF TransitNext
  <1>3. SealInv => SealedVerifies /\ RecipientsDecrypt
    BY DEF SealInv, SealedVerifies, RecipientsDecrypt
  <1> QED BY <1>1, <1>2, <1>3, PTL DEF TransitSpec

(* Nor does anything in transit give a successor the id of the capsule it     *)
(* continues from, where the gate on predecessors is overridden and what is   *)
(* continued from was edited or spliced.                                      *)
THEOREM SuccessorsAreAnotherInTransit ==
    ASSUME Placeholders, CustodyIsTold
    PROVE  TransitSpec => []CustodyGivesNewIdentity
  <1>1. TransitInit => SealInv /\ CustodyInv
    BY SealInvInit, CustodyInvInit DEF TransitInit
  <1>2. SealInv /\ CustodyInv /\ [TransitNext]_allVars => (SealInv /\ CustodyInv)'
    <2> SUFFICES ASSUME SealInv, CustodyInv, [TransitNext]_allVars
                 PROVE  SealInv' /\ CustodyInv'
      OBVIOUS
    <2>1. CASE Author
      BY <2>1, SealInvStep, CustodyInvStep DEF Author
    <2>2. CASE Transit
      BY <2>2, TransitLeavesAuthors, SealInvStutter, CustodyInvStutter
    <2>3. CASE UNCHANGED allVars
      BY <2>3, SealInvStutter, CustodyInvStutter DEF allVars
    <2> QED BY <2>1, <2>2, <2>3 DEF TransitNext
  <1>3. CustodyInv => CustodyGivesNewIdentity
    BY CitingIsAnother
  <1> QED BY <1>1, <1>2, <1>3, PTL DEF TransitSpec

=============================================================================

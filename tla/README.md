# A TLA+ model of the capsule protocol

A capsule is a ZIP container with a manifest, a hash chain of events, content
files and a signed envelope; an encrypted capsule is a container around another
one. This directory specifies the reference SDK (`src/sdk-js/src`) in TLA+:
what an author's builder emits, what a verifier accepts, what may happen to a
capsule in between, how the lineage of a capsule is checked against files a host
supplies, how attestations of signers are issued and judged, what the archive
layer accepts, and what the commands `verify`, `rewrap` and `extract` make of all
that. The conformance vectors of the repository are part of it: the models
rebuild the artifacts of the generators and reproduce the recorded verdicts. The
modules are translated from the code; where the code and the
documents disagree, the model follows the code and a run shows the difference.

## Inventory

| component | code | state it keeps | operations | what makes it correct |
|---|---|---|---|---|
| documents | `manifest.js`, `envelope.js`, `versions.js`, `profiles.js` | none | identity, hashes, content index, commitment, signing input, lineage grammar, version and profile classes | each digest binds what it should, writer and reader use one rule per era |
| event chain | `chain.js` | none | `buildChainEvents`, `verifyChain` | a chain built is a chain accepted; links are anchored at both ends |
| builder | `builder.js` | `CapsuleBuilder`: settings, queued events, written and carried files, lineage entries | the setters, `appendEvent`, `previewCapsuleId`, `declarePredecessor(Entry)`, `continueFrom`, `seal`, `rewrapCapsule` | what is emitted verifies; repeated seals are one growing line; previewed ids hold |
| reader and encryption | `reader.js`, `crypto.js`, `keys.js` | an opened container | opening gates, `decrypt` | recipients, and only they, get the inner capsule of that seal |
| verifier | `verifier.js` | none (one pure evaluation) | `verifyCapsule`, verdict, skill trust | nothing is valid under a key that did not seal it |
| lineage | `lineage.js` | the report being built | `evaluateLineage`: classification and linkage walk | a claim is called verified only on exact, valid bytes; no hop is hearsay; the walk ends |
| federation overlay | `federation/*.js` | the trust roots and verified identities a host keeps | `signIdentityAttestation`, `verifyIdentityAttestation` (native, JWT), discovery, `evaluateSignerPolicy` | an attestation counts for one capsule, one key, one role, in its time window; unknown is never negative |
| canonical JSON | `canonical.js` | none | strict parse, JCS | one byte string per value |
| container | `zip.js` | none | `packZip`, scan, strictness pass, `unpackZip`, limits | what is accepted has one reading; what is packed comes back |
| Pith | `pith.js` | none | text normalization | idempotent, marked in the event |
| command line | `cli/src` | files on disk | `verify`, `rewrap`, `extract`; `keygen`, `inspect`, `chain`, `manifest`, `envelope`, `program`, `agents`, `vectors` | exit 0 means every demand was met; a refusal writes nothing; a directory never mixes two capsules |
| other lanes | `sdk-py`, `verifier-rust`, `sdk-swift`, `sdk-kotlin` | as above | as above | verdicts equal to the reference's |
| conformance tooling | `tools`, `sdk-js/tools`, `spec/vectors` | recorded fixtures | generators, vector runner | the recorded verdicts are the rules' |

The builder calls the documents and the chain; the verifier calls them again on
what arrives, through the reader. `continueFrom` runs reader and verifier on a
predecessor and makes a builder of it. `evaluateLineage` is called by the
verifier and calls it back for each supplied file. The federation overlay reads
the verifier's result. The reader opens what the container layer unpacked. The
commands call reader, verifier, lineage and builder, and read and write files.
The SDK persists nothing and there is one thread; what is concurrent is the
await inside an encrypted `seal()`, the two awaited fetches of a trust-root
refresh while issuers rotate keys, the order in which a host supplies files,
another process at a command's output path, and, above all, that a capsule
leaves its author: anybody who holds a copy may edit, recombine and re-derive it
before the next reader. What survives a crash are the files of `rewrap` and
`extract`.

The hard behaviours, each listed at its line under `hazards` in `PROJECT.json`:
a builder used while its seal waits; a seal that throws half way; parts of
genuine capsules combined; signer rows outside every signature; an inner capsule
under another outer; predecessors that are damaged, encrypted or known from
records only; files supplied in any order, twice, or of a later seal of the same
line; a frontier that grows while it is walked; attestations that arrive edited,
late, or before their key; archives that two parsers read differently; a command
killed between two writes and run again.

## Modules

| module | models | kind |
|---|---|---|
| `CapsuleFormat` | documents | operators |
| `CapsuleChain` | event chain | operators |
| `CapsuleVerifier` | reader's gates and `verifyCapsule` | operators, one per block of the code |
| `CapsuleEncryption` | blob, key bundles, `decrypt` | operators |
| `CapsuleBuilder` | the author: one builder after another | state machine |
| `CapsuleTransit` | authors + what happens to a copy + a recipient | composition |
| `CapsulePromise` | what a recipient is promised | abstract specification |
| `LineageClaims` | what one artifact says about one entry | operators |
| `LineageWalk` | the linkage walk, one loop iteration per step | state machine |
| `LineageReport` | what the lineage area promises | abstract specification |
| `Attestation` | issuing and verifying attestations | operators |
| `Federation` | issuers, hosts and servers, copies of attestations, the policy | state machine |
| `CapsuleResult` | the verifier's result: verdict, reason, qualifiers, notes, areas | operators |
| `VerifyCommand` | `capsule verify` and `verifyCapsule`, from arguments to exit code and report, driving `LineageWalk` | composition |
| `RewrapCommand` | `capsule rewrap` and then `capsule verify`, driving `CapsuleBuilder` | composition |
| `Container` | `zip.js`, and JSZip and other readers beside it | operators |
| `ExtractCommand` | `capsule extract`, run after run into one directory | state machine |
| `CapsuleFixtures`, `DeclarationFixtures`, `LineageFixtures` | the artifacts of the fixture generators | operators |
| `SpecVectors`, `AttestationVectors`, `ContainerVectors` | the recorded vectors and the comparisons of the vector runner | operators |
| `MC...` (seven modules) | instances for TLC | |
| `CapsuleBuilderProofs`, `CapsuleTransitProofs`, `LineageWalkProofs`, `FederationProofs`, `ContainerProofs`, `VerifyProofs`, `RewrapProofs` | theorems | |
| `DataLemmas` | induction over naturals as a fact about sets, sequences of any elements | lemmas |

`CapsuleFormat` <- `CapsuleChain` <- `CapsuleVerifier` <- `CapsuleEncryption` <-
`CapsuleBuilder` <- `CapsuleTransit`, each extending the one before.
`LineageClaims` is extended by `LineageWalk` and `LineageReport`. `Attestation`
<- `Federation`. `CapsuleResult` (over `CapsuleEncryption`) <- `VerifyCommand`,
which instantiates `LineageWalk`, <- `RewrapCommand`, which instantiates
`CapsuleBuilder`. `Container` <- `ExtractCommand` <- `ContainerVectors`.
Operators named in a comment "Mutation of X" are plausible mistakes in X; nothing
else refers to them.

### How the data is abstracted

* A digest is the value it commits to under the tag of its domain: equal exactly
  when domain and input are. A signature is a record of key, role and covered
  envelope. An AEAD box carries key, associated data and plaintext. So the model
  says nothing of the strength of SHA-256, Ed25519 or ChaCha20-Poly1305 and
  everything of what the code feeds into them.
* A container is `[manifest, envelope, signers, files]`. `signers` is apart from
  `envelope` because `envelopeCanonicalPayload` leaves exactly that member out of
  the signing input. Files are a function from paths to contents.
* Members whose grammar alone is checked are their value or `Malformed`; a
  missing member is `Absent`, JSON null is `Null`.
* Versions and profiles are one representative per class the code distinguishes.
* In `LineageClaims`, `entry_hash` stands for the equalities other than the pair
  (id, manifest hash). Of the six only `entry_hash` is not inside the manifest
  hash, so it is the one that can differ on its own.
* An instant of an attestation is a number of ticks and the form it was written
  in (parseable or not, number or not), because the code treats the forms
  differently; `TicksPerSecond` and `Skew` are the rounding and leeway of JWTs.
* An archive is a sequence of end records, the last one found first, each with
  what it declares and the entries in front of it; a name is a sequence of
  segments and a directory name ends in an empty one. Offsets and lengths inside
  the bytes are abstracted to the entries they delimit. The entry count wraps at
  `CountModulus` (2^16). How JSZip rewrites a name is the constant `Resolve`, of
  which only idempotence and two shape facts are assumed; TLC runs with the
  rewriting JSZip has.
* A file on disk is its content under `<<directory, name>>`; `NotACapsule` is
  anything else, a torn write included.

### How state and actions correspond to the code

`CapsuleBuilder`: the variables are the fields of the class (`written` joins
`programMd`, `agentsMd`, `skills` and `payload`, which become files under fixed
paths). Each method is an action. A call that throws before it changed anything
is not enabled. A call that throws after a change is an action: `SealThrows` is
`buildSignerCommitment` refusing a repeated signer after the backstop event was
queued. A plain `seal()` reads the builder before its only await and is one
action. An encrypted `seal()` awaits `packZip` for the inner archive
(`builder.js:685`) and reads `this` again afterwards, so it is `BeginEncrypted`
and `FinishEncrypted`, with the locals it keeps in `sealing`, and every other
action may happen in between. `this.predecessors` is replaced, never mutated
(`declarePredecessorEntry`), so the list kept across the await is the one that
was there. `rewrapCapsule` is `ContinueFrom` followed by a seal.
`AssignParticipants` is the assignment of the public property that two comments
of the code speak of.

`CapsuleTransit`: `held` is one artifact on its way. `Edit...`, `StoreFile`,
`DropFile`, `AppendRow`, `DropRow`, `RelabelRow`, `GarbleRow` change one thing;
`Splice` takes the manifest, envelope, rows or files of another capsule;
`Rederive` recomputes every keyless digest so that the edit is consistent;
`Countersign` and `Reseal` use keys outside `HonestKeys`. A key in `HonestKeys`
signs only through `seal()`; that is the one assumption about its owner.
`AcceptHeld` is `verifyCapsule` at L1/L2, `AcceptDecrypted` is `decrypt` and
`verifyCapsule` on both layers. Authors go on working, and may continue from
what is in transit.

`LineageWalk`: `cursor` is the index of the `for` loop, `changed` the flag of
the `while`, `assigned` the records' flag, `walked` the seen-set. `Skip`,
`Match`, `NextPass` and `Return` are the branches of one iteration. The variable
`artifact` of an entry is the record behind `entry.artifact`; `from` is history:
whose declaration the entry came from. What `classifyArtifact` computes for a
supplied file is the input; the verification inside it is `CapsuleVerifier`'s.

`Federation`: `Issue...` is `signIdentityAttestation`, or an issuer's JWT signer.
The caller of either chooses the key, whether the document names it (`kid`), and
what the times say: an instant on either side of the host's clock, text that does
not parse, or nothing; a token may lack its binding object. `Rotate` is what issuers
do to `/.well-known`. A refresh is
`FetchIssuerMetadata` (first await), then `LoadTrustRoots` (second) or
`AbandonRefresh`, and anything may happen in between; `CanServe` is what a server
may answer, including documents that point elsewhere. `Check` is
`verifyIdentityAttestation` with whatever is cached at that moment, and keeps the
identity if it verified; `Satisfied` is `evaluateSignerPolicy` over the kept
list, in whatever order it grew.

`VerifyCommand`: `phase` is the place in `verifyCmd`: `RefuseArguments`,
`ReadSubject` and `ReadPredecessor` (one file each, each of which may be
missing), `StartVerification`, the walk of `LineageWalk` step by step, and the
report with its exit code. A call by `"cli"` is the command; a call by the vector
runner stops at the result. `RewrapCommand` puts `rewrapCmd` in front of it:
`CheckArguments`, `CheckOutput` (existsSync), `ReadKey`, `OpenPredecessor`,
`RefusePredecessor`/`RefuseArgument`, `ContinueFromPredecessor` and
`SealSuccessor` (the builder's own actions), then `WriteOutput` or `WriteTorn`.
`Kill` may come between any two, and `CreatedMeanwhile` is another process that
puts a capsule at the output path after the command looked. The `verify` that
follows reads what is then on disk.

`ExtractCommand`: `Start` gives the command an archive (anything, or what
`packZip` wrote), `Open` is the reader with the whole container layer, `Inspect`
the check of the existing directory, `WriteNext` one file of the write loop with
its own path check, `Finish` the report; `Kill` may come between any two, and
`MaxRuns` runs share one directory. `WriteFails` is a `mkdir` or `writeFile` that
fails, or in which the process dies: nothing, the file's directory or the first
bytes of the file are left, and the run is over, with exit 2 or with none.

## Properties and runs

Eight runs pass; four show a disagreement. Sizes are distinct states; every run
takes between ten seconds and three minutes with two workers.

| run | question | states |
|---|---|---|
| `Builder` | does what a builder emits verify exactly when its originator signed and its actors are covered (`SealedVerifies`); is a previewed id kept (`PreviewIsSealedId`); are repeated seals one growing line (`SealsOfOneLine`); with encrypted seals that overlap each other and the builder's use, at every lineage placement, does each recipient get its own seal's inner capsule, and nobody else (`RecipientsDecrypt`) | 264,960 |
| `Transit` | after two edits of any kind, can anything verify under an honest originator that was not sealed (`ValidImpliesSealed`), can skills be called signed (`SignedSkillsWereSealed`); do authors, transit and recipient implement `CapsulePromise` (`PromiseKept`) | 754,365 |
| `TransitPairs` | is an inner capsule accepted at L3 the one sealed with its outer (`AcceptedPairsWereSealedTogether`); do derived lineage entries cite sealed plain capsules, whatever the builder was given (`CitationsAreSealed`) | 102,878 |
| `TransitOverride` | with the override and damaged predecessors: do successors still verify (`SealedVerifies`), and do they have an identity of their own (`CustodyGivesNewIdentity`) | 182,382 |
| `Lineage` | every pool of up to four artifacts in every order: `OneEntryPerArtifact`, `HopsAreFirstPerson`, `NothingLeftToMatch`, `DepthIsBacked`, no declaration joins the list twice (`DeclarationsJoinOnce`), what is supplied without ambiguity is verified (`UnambiguousIsVerified`), refinement of `LineageReport` (`ImplementsReport`), termination (`WalkReturns`) within a stated number of iterations (`WalkIsBounded`) | 148,207 |
| `Federation` | does a host hold only keys of the issuer itself (`RootsComeFromTheirIssuer`); was what it calls verified issued for this capsule and signer (`VerifiedWasIssued`); is the verdict on a genuine attestation that has begun and not expired exactly what the cached keys say of its key (`GenuineFollowsItsKey`), and unknown never a cover for wrong (`UnverifiedIsNotNegative`); does a satisfied policy have a quorum of distinct trusted signers (`SatisfiedIsBacked`) with no key in two roles (`DutiesAreSeparate`); do verdicts change, as time passes and refreshes end, only for a cause (`VerdictsChangeForCause`); are the attestation vectors reproduced | 103,177 |
| `Verify` | are the verdicts, reasons, qualifiers, areas, lineage entries, skill trust and notes of the conformance vectors reproduced (`VectorsReproduced`); is exit 0 exactly as strong as every demand (`ExitZeroMeansDemandsMet`) and exit 1 always owed to something the operator supplied (`ExitOneHasAReason`); is an unqualified VALID readable at face value (`UnqualifiedValidIsStrong`); does a refusal stand alone (`RefusalIsAlone`) and the report hide nothing (`ReportIsComplete`); does `rewrap && verify` compose for every predecessor (`HandOffComposes`) and leave other files alone, killed, torn or refused (`RewrapKeepsFiles`) | 19,712 |
| `Extract` | does every accepted archive have one reading (`ReadersAgree`); does what `packZip` writes come back, and exactly when (`WrittenIsRead`); are the malformed-layout vectors refused for the recorded reason (`LayoutVectorsReproduced`); does a directory hold one capsule, whatever runs were killed or writes failed before (`ExtractedIsTheCapsule`) | 110,229 |

Four statements the theorems establish for every instance are not run again:
the type invariants of the builder and of the walk (`BuilderTypes`, `TypeCorrect`),
`VerifiedIsExact`, which is part of what `ImplementsReport` refines, and `SealsHold`,
the strengthening behind `ValidImpliesSealed`.

`SealedVerifies` is an equivalence: the writer and the reader agree on identity,
index, blob, commitment, chain and lineage for every seal, and the two things
`seal()` leaves to its caller are exactly the ones that decide the verdict. Both
are worth knowing: `seal()` takes any non-empty signers list although
`spec/envelope.md` asks for the originator's row, and it does not check again
that reassigned participants cover the queued actors although `spec/chain.md`
forbids a writer to emit what its reader rejects.

### What the documents say and the code does not do

* `VSealEmitsWellFormedParticipants`: `seal()` checks the participants first
  ("never emit a manifest that fails the namespace grammar", `builder.js:531`)
  and the encrypted path reads `this.participants` again after its await. An
  assignment in between reaches the outer manifest; the capsule is signed and
  emitted, and no conformant reader accepts it.
* `VMismatchNeverContributes`: "A mismatched artifact is NOT the declared
  artifact and never contributes" (`lineage.js:400`). The condition below it
  compares the manifest hash alone, so a record with one wrong chain anchor is
  reported `mismatch` and its declaration is walked.
* `VUnverifiedMeansNoBytes`: "`unverified` - no bytes supplied for this entry"
  (`spec/lineage.md`). A file settles one entry. Where two parents have one
  common grandparent, the second entry for it stays unverified although its
  bytes are in the pool, and `verifiedDepth` stays at 1.
* `VPairMatchDecides`: artifacts are "matched against declared entries by the
  recomputed pair" (`spec/lineage.md`). A later seal of the same line that comes
  first in the pool takes the entry by id alone and turns it into a mismatch; the
  exact artifact behind it then matches nothing. The report depends on the order
  of the pool.

Met while modelling, each stated by a property as the code behaves:

* `packZip` checks names with `assertSafePath` and counts entries, and nothing
  else: it seals names that end in `/` with content, names JSZip rewrites
  (`payload//x`, `payload/./x`), and capsules beyond the total size limit, all of
  which `unpackZip` refuses, although `spec/format.md:111-115` says a signed
  capsule must never contain either shape. `WrittenIsRead` states the exact
  condition.
* `extract.mjs:46-48` refuses any path with two dots in it (`a..b`) in the middle
  of its loop, after files were written, although the comment there takes
  `assertSafePath` to have rejected such paths already. `ExtractedIsTheCapsule`
  names such capsules as the ones that cannot be written.
* `rewrap` looks for the output file before it reads its key and its input; a
  file created after that is overwritten, although its usage text says that it
  refuses to overwrite an existing file without `--force`. `RewrapKeepsFiles`
  promises only what was there when it looked. With `--force` and the
  predecessor itself as `--out`, the successor replaces its predecessor, and a
  torn write destroys both.

### Bounds

`MaxEvents`, `MaxSeals`, `MaxBuilders`, `MaxPredecessors`, `MaxEdits`, `MaxTime`,
`MaxKeys`, `MaxIssued`, `MaxRuns` and the cap `HopCap` are the only bounds. Two
seals are needed for a line, for a splice and for two overlapping awaits, two
builders for a successor; a second event for links, anchors that differ and an
append during a wait. Two edits are enough for an edit and the re-derivation that
makes it consistent, or for two parts taken from elsewhere; the theorems cover
any number. `CanConstruct` keeps one builder at a time: builders share nothing,
and a new one is made only when no seal of the old one waits. Pools of four
artifacts out of a family with every kind contain a diamond with a repeated file,
both orders of a chain of two, a later seal, a damaged and an unverifiable copy;
a cap of three hops lets a chain of two be walked to its end.

The `setup` of a run says what its authors do, so that one instance holds several
ways to work without their product: `MCCapsuleBuilder` has plain and encrypted
work, `MCCapsuleTransit` has `"edits"` (authors finish before a copy travels),
`"pairs"` (they seal for recipients; the plain capsules are the inner ones),
`"citations"` and `"override"` (they continue from what is in transit). Each is a
restriction of `TransitNext`, which the theorems are about.

`Federation`: two issuers of which the host has configured one, two capsules, two
signers, two keys per issuer, two clock ticks to a second, one tick of skew and the
clock from 0 to 3. Up to two ordinary attestations travel together, one of which may
be a JWT or be edited: two suffice for a key attested twice, in two roles or for two
capsules, and a quorum of two needs two. An attestation with any other time in it, or
without a `kid`, travels alone: no operator relates the times of two documents, and
the policy reads none. Native documents take every pair of an issue and an expiry
time in which one of the two is not the ordinary one, tokens one unusual date at a
time; among them are an issue time beyond the skew, an `nbf` not reached yet, and an
expiry already over. Issuers sign with their newest key and rotate before the clock
moves. That loses nothing: a document says when it was made only by its instants, and
those are set against every later time, and one signed with an older key is one
signed before the rotation. Refreshes, rotations, ticks, edits and checks interleave
freely otherwise.

`Verify`: every artifact of eleven generators; the calls of the vectors, and
command lines that cross files with allowlists, accepted versions, lists of
supplied predecessors (repeats, gaps, strangers, later seals, files that are no
capsules) and both output forms. The hop cap is the code's 256. Rewrap takes
every lineage, tamper, version and semantic-binding artifact with and without
the override, and varies one further argument at a time on three predecessors (valid,
without events, damaged): the arguments are checked one after the other and meet
only in the builder.

`Extract`: the two documents and up to two further entries, each as it should be or
with one member wrong, under names of every class; end records that disagree with
their directory; at most 5 entries and 4 bytes, with capsules at and beyond both
limits, and the count wrapping at 8. The second run of a directory takes one of
four capsules an author packed.

Deadlock is not checked: an author may stop, a recipient may refuse, a walk that
returned and a command that ended are over.

### Fairness

Only `LineageWalk` has a liveness property, under `WF_vars(Next)`:
`evaluateLineage` is one async function over local variables, nothing else
writes them, and its only await inside the walk's data is before the walk. No
fairness is assumed of authors, holders of copies, recipients, issuers, servers
or operators.

## Proofs

TLAPS checks the proof modules for every value of the constants that meets the
assumptions: bounds are natural numbers and there may be one builder, `Null` is no
key and no reason, `Overrides` are Booleans, signers lists are sequences of
role/key records whose commitment is not the absent member, the hop cap is
positive, pools and declarations are sequences of well-typed records, limits are
positive and the entry limit lies below the count at which an archive stops counting
(65,535; the default is 10,000), archives name paths, the path order lists every path
once, an author's files are functions from paths to contents that have a length and
none of them is stored as a damaged entry, `Null` is no path, exit code, truth value, reason or version policy, the key of a rewrap is a key or one
of the three ways to have none, no file's declaration contains its own manifest
hash (it would have to be known before it was computed), capsules and signers have names, issuers write their times as natural numbers (or
as text, or not at all), and JSZip's rewriting of a
name is idempotent and keeps directories directories.

Some theorems have one hypothesis more, `Placeholders`, `AbsentIsNone` or `Apart`:
what stands for JSON null, for a missing member, for malformed text and for a file
that is no capsule is none of the values the code computes, no hash, no signature,
no list, no capsule. TLC gives those
constants model values, which differ from everything, so every instance satisfies
it; it is a hypothesis of the theorem and not an `ASSUME` because it ranges over
all values, which TLC cannot enumerate. `CustodyIsTold` is of the same kind: the
custody event is told from other events by its action, which no author queues by
hand, and no id is the id of a chain whose first event names that very id. An id is
a term of the model that contains what it digests, and nothing contains itself;
the provers do not have that axiom, and of SHA-256 it says that nobody finds a
digest that is its own input's.

*Induction.* The library's induction theorems take an operator and cannot be used
here; but well-foundedness of the naturals is stated of sets, and the set of
counterexamples to a claim has a least element. `DataLemmas` has this once
(`LeastNatural`, `AllNaturals`, `LastPlace`), and every induction below is a use
of it.

*Builder.* The hash of event `i` is a function defined by recursion over the
events. That it exists, that it depends on the events up to its own and that it
determines them is `LinksExist`, `HashOfBeginning` and `EntryHashCommits`: two
chains that `verifyChain` accepts and that end in one entry hash are equal event
by event. `SealsVerify` and `RecipientsOpen` need an invariant over `sealing`:
what an encrypted seal keeps across its await (`Pending` in `SealInv`) is an inner
capsule that already agrees with its reader, and everything the second half reads
again from the builder enters the outer capsule only. `PreviewsHold` needs that a
builder with a queued event has its id fixed by originator and first event
(`IdInv`), since events are only appended and the two are assigned once.
`SuccessorsAreAnother` needs that every chain that opens with a custody event, queued,
waiting or sealed, cites in that event the capsule its predecessor list names first,
whatever was declared, queued or cleared since (`CustodyInv`); an id that was the
predecessor's would then be fixed by an event that names it.
`OneLinePerBuilder` needs that the chain of each capsule sealed, or waiting to be,
begins what is queued now (`ChainInv`); two beginnings of one list begin each
other. `BuilderTypes` is the type invariant with what the await keeps
(`TypeInv`).

*Transit.* The question is what a signature by an honest key can be over. The
invariant `SealsHold` says: every signature by an honest key in `held` covers an
envelope that was sealed; every sealed capsule is tied (its envelope commits to
its manifest, its files, its blob; its commitment is its signer set; its
signatures are valid), those waiting in `sealing` too; and no builder ever
carries or writes a file at the blob's path, without which an outer or plain
capsule would not be tied. The invariant proved inductive has these as
`ClearInv`, `PendingInv`, `IssuedInv` and `HeldInv`. Preservation has one lemma
per group of actions; the edits need only that no edit creates a signature by an
honest key over something new. From it `ValidCapsulesWereSealed` follows in one
state: a valid capsule has a valid originator row, its envelope was sealed with
some capsule, its manifest is that capsule's by the manifest hash, its files by
the content index and the blob hash, its signer set by the commitment. In the
same way `SignedSkillsAreSealed`; with history in `accepted`, `PairsStayTogether`
and the refinement `TransitKeepsPromise` (`TransitSpec` implements
`CapsulePromise`); with the predecessor gate, `CitationsNameSealed`. Transit leaves
the authors to `CapsuleBuilder`, so its theorems hold again with successors of
edited and damaged capsules among the sealed ones (`SealsVerifyInTransit`,
`SuccessorsAreAnotherInTransit`).

*Lineage.* `WalkInv` (type correctness, which record settled which entry, where
an entry came from, what a pass without change has left over) is inductive;
`ReportCorrect` proves it, and from it follow `TypeCorrect`,
`ArtifactsCountOnce`, `VerifiedCorrect`, `NoHopIsHearsay`, `WalkIsExhaustive` and
the refinement `WalkImplementsReport`. `DeclarationsCountOnce` needs one more
invariant, that whoever an entry came from is in the seen-set. For
`DepthIsBackedByBytes` the reported depth has to exist: the hops at which the
count must stop include the cap, so there is a least one; below it every hop has
an entry and only verified ones, and by the pigeonhole principle it is at most
the number of entries. Who declared a hop is then `HopsAreFirstPerson`.

`UnambiguousVerifies` says which reports do not depend on the order of the pool
(`VPairMatchDecides` shows one that does). It needs that whatever settled an entry
gave it the status of that very record and shares its id (`SettledJustly`): a file
whose id no other file has can then be taken by no other entry, nor its entry by
another file, and if neither happened the file would be left over with an open entry,
which `WalkIsExhaustive` excludes. `WalkEnds` proves what `WalkReturns` rests on
without fairness: `StepsLeft`, a number at most the square of the files supplied plus
one, falls with every iteration. Entries that join the list do not count in it, only
files not yet assigned do, and a pass that changes something assigns one.

*Federation.* `RootsInv` (whatever is cached or half fetched for an issuer was
published by it) gives `RootsStayTheIssuers`. `WorldInv` says of every
attestation on its way that it has one of two shapes and that its signature is
one an issuer made, over the input it states; every edit keeps that, because no
edit makes a signature. From both, `VerifiedStandsOnASignature` and
`UnverifiedIsOnlyUnknown` follow in one state. The converse, what a host makes of an
authentic attestation whose time is now (`GenuineVerdictsFollowTheKey`), needs to
know what issuers sign: with one of their keys, under its number or none
(`SignatureInv`); and that every list on its way to the cache has each key once in
both its forms and no key twice (`ListsInv`). Then a number selects exactly the key
it names, if that is held, since an ambiguous number would select none; and a
document without a number selects a key only where a single one is held
(`SelectedKeys`, `UnnamedKeys`, which counts the usable entries). So the key code is
one of three: the key that signed, another one, or none (`ChosenKeys`), and no other
code is reported, because the claims are bound and the times are right
(`FollowsTheKey`).
`PoliciesAreBacked` carries `VerifiedWasIssued` into the list of identities
(`IdentityInv`); the keys that meet a requirement are themselves the quorum.
`DutiesStaySeparate` is a fact about the latest attestation of a key.

`VerdictsHaveACause` joins the two directions over a step. What verifies now is
authentic for the capsule and signer it names, has begun and has not expired
(`VerifiedMeansGenuine`). It stays authentic whatever anybody does, as edits make
another document and not this one (`AuthenticLasts`, `WorldGrows`), and the clock
never goes back, not even rounded to seconds (`TimePasses`). So after the step its
verdict is what the cache then says of its key. And what verifies after the step was
as authentic and unexpired before it: if it was rejected then, either its time had
not come, or its key was mistaken.

What this says of the code, and no document denies, is worth a host's attention. A
`kid` is optional, and without one `selectKey` takes the only usable key there is.
A genuine attestation without a `kid`, at a host whose cache holds exactly one key
and not the one that signed (rotated since, or not refreshed yet), is therefore
rejected for its signature, where the same attestation with a `kid` would be
unknown; a refresh can turn either verdict into the other. An `nbf` or `issued_at`
ahead of the host's clock is rejected too, and accepted once its time has come.
`TakenForAForgery` and `Begun` are these cases, and the theorems say there are no
others. Three limits of the overlay's properties: `VerifiedWasIssued` stands on one
set of trust roots per issuer, as the specification defines them, and not on the
mixed sets a comment in `attestation.js` (line 143) allows for;
`UnverifiedIsNotNegative` speaks of the wrapper's issuer, because a token without a
cached key is reported before its `iss` and `aud` are looked at; and the host clock
is assumed not to be set back.

*Container.* `AcceptedArchivesHaveOneReading`, for archives of any size and any
names: what `unpackZip` accepted has as many keys as admitted names and no other
ones, so the keys are the names; each name is then the rewriting of some name and,
as rewriting twice is rewriting once, JSZip left it alone; names are unique, so
one entry stands behind each of them for every reader, and every reader walks the
same entries because the end record declares what is there. The invariant
(`ReadInv`) only carries this along the runs of the command.

`PackedFilesComeBack` is the other direction: what `packZip` wrote and `unpackZip`
reads. The packed names are a list without repetitions that names every file once
(`OrderedLists`), so each name stands before one entry, which holds its file; the
scan refuses nothing of such an archive but its size, and the declared sizes add up
to the files' total, which is a number because the files are finitely many
(`TotalIsNat`, by induction over their number). If JSZip rewrites no name the keys
are the names and the contents the files; and if an archive is accepted with those
very files, no name was rewritten or taken for a directory's (`GivenBack`). The invariant
`PackInv` says of the run that its archive is what was packed and its answer what
`unpackZip` says of it. With an entry limit of 65,535 or more the theorem would be
false: `packZip` would write a count that `unpackZip` takes for ZIP64.

*Extraction.* `DirectoriesHoldOneCapsule`, for any archives, any directory and any
number of runs. `ExtractedIsTheCapsule` is not inductive: it does not say how far a
run has come. The invariant `DirectoryInv` adds `Progress`: while a run writes, the
files done are whole in the directory, none is suspicious and none takes the place
of another's directory, and a directory that was empty holds exactly those. A
refused path is then a fault of the capsule and not of an earlier run
(`RefusedPath`), the last pending file makes the capsule whole, and a write that
fails adds at most one path that is not whole. That the loop takes one of the
pending paths is well-foundedness of the order they are listed in
(`NextIsPending`).

*Verify.* The theorems are about `RewrapSpec`, so they hold of `verify` run alone and
after a rewrap. `ReportInv` says that until the report nothing was returned or
printed and no code but 2 exited with, and that afterwards result, report and exit
code are functions of the subject, the call and the walk. That is all that
`RefusalStandsAlone` and `ReportKeepsNothingBack` need: they are then facts about
what is computed in one state. The other three are about the files supplied.
`LineageWalkProofs` is about pools of well-typed records, and here the pool is what
`classifyArtifact` makes of arbitrary files, so the walk has an invariant without
types (`EntriesOk`: who declared an entry, which record settled it, that no record
settles two), which `LinkInv` ties to the files read: the pool is their
classification, and the first entries are what the subject declares.
`UnqualifiedIsStrong` follows, since an entry without a lineage qualifier is
verified, a verified entry has its file, and the file is exact and valid.
`ExitZeroIsEarned` has to turn a count into an assignment: custody is satisfied if
as many entries were settled as files supplied; each file settles one entry, so
the map from settled entries to files is injective between sets of these sizes, and
therefore reaches every file.

`RefusalsHaveReasons` is the converse, and the harder half: nothing but what its
statement lists makes the command exit 1, not the order of the files, not what they
declare themselves, not entries nobody has a file for. `ServedInv` follows the walk
for files that are in hand (`InHand`: each valid, declared exactly by the subject, and
there once). The entry of such a file is open as long as the file is not assigned, and
it is the first the file could take: the subject's own entries precede those that
joined the list, and one manifest hash is declared once (`OwnEntryIsOpen`). So each file
settles its own entry as verified when the first pass meets it, and when the walk is
done every file has one; the map from settled entries to files is onto, which gives the
count the exit code asks for.

*Rewrap.* `FilesInv` (the output path holds what was found there or what another
process put there, until the command writes; it writes only if the artifact holds or
the override was given) gives `RewrapKeepsTheFiles`. For `HandOffHolds`, `HandedInv`
follows the artifact through the command: the builder is filled with a declaration of
it that is well formed, what is sealed verifies and declares exactly that, by the
lemmas about the builder (`CapsuleBuilderProofs`, instantiated with the builder of the
command as `Proved`), and with exit 0 it is what the output path holds. `FollowInv`
follows the verification after it: both files are there to be read, the pool is the
predecessor alone, and if that holds the one entry is settled by it as verified and
the entries it declares itself stay open (`Settling`), so custody is satisfied. Exit 0
with a predecessor that was overwritten would need a capsule that declares itself.

Only model-checked: `WalkReturns` (liveness is out of the prover's reach; the bound
behind it is proved) and the three vector properties (`VectorsReproduced`,
`AttestationVectorsReproduced`, `LayoutVectorsReproduced`), which are statements about finitely many given inputs.

## Plan

Done: documents, chain, verifier, encryption, builder, transit and lineage;
federation; the verdict surface with `verify`; `rewrap` and `extract`; the
container; the conformance vectors; the proofs above. In order of worth, what
could follow:

1. Recipient key resolution and the clerk directory of `discovery.js`.
2. The strict parser's duplicate members as a second reading of one document.
3. `keygen` and the file modes of private keys.

## Not modelled

* `discovery.js:76-91` and `103-113` (`resolveRecipientKeys`,
  `clerkRecipientDirectory`): lookups without state, whose results only feed
  `seal()`. A host is assumed to keep its trust roots apart per issuer, as the
  arguments of `verifyIdentityAttestation` suggest; the SDK does not enforce it.
* `keygen`, `inspect`, `chain`, `manifest`, `envelope`, `program`, `agents`,
  `vectors` of the command line: one printed report or two key files each.
* Conformance: byte stability of fixtures, the registry, the running of other
  lanes, and vectors whose fault is below the model's data: `invalid-untrusted-path`,
  `commitment-unsorted`, `member-not-array`, `entry-missing-manifest-hash`,
  `bad-hex-uppercase`, `malformed-shape`, the advisory-member variants. Several
  grammar variants are one `Malformed`, and the text a note must contain is the
  kind of note.
* `canonical.js` and `pith.js`: character-level code; the models use equality of
  what they serialize.
* What one of two barriers does alone. The pair comparison at L3
  (`verifier.js:1003`) stands behind the blob hash, which by itself keeps an inner
  capsule to the outer it was sealed with: `AcceptedPairsWereSealedTogether` shows that
  the two together hold, not that each is needed. JSZip checks the checksum of every
  entry it loads, directory markers included; `Container` checks those of the files it
  keeps, and so accepts more archives than the code.
* Limits a caller sets above 65535 entries, and the byte offsets of an archive.
* Key parsing and the primitives: abstracted as said above.
* The other lanes: implementations of the same rules, held to the reference by
  the vectors; the reference lane is the one modelled.

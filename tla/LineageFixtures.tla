--------------------------- MODULE LineageFixtures ---------------------------
(***************************************************************************)
(* The capsules of the lineage vectors: one line of custody from Alice on, *)
(* its forks, and declarations that are wrong in one way each.             *)
(***************************************************************************)
EXTENDS DeclarationFixtures

\* derivePredecessorEntry on an artifact the generator has just built.
EntryOf(c) ==
    [capsule_id            |-> ComputeCapsuleId(c.manifest.originator,
                                   c.manifest.first_event_hash, c.manifest.version),
     format_version        |-> c.manifest.version,
     originator_public_key |-> c.manifest.originator,
     first_event_hash      |-> c.manifest.first_event_hash,
     entry_hash            |-> c.envelope.entry_hash,
     manifest_hash         |-> ManifestHash(c.manifest)]

Custody(c) == Bare(HostActor, "observation", <<"custody_received", EntryOf(c).capsule_id>>)

AliceEvents ==
    <<Bare("human:alice", "observation", "scoped"),
      Bare("ai:assistant", "observation", "analyzed"),
      Bare("human:alice", "decision", "approved"),
      Bare("ai:assistant", "observation", "extended")>>

\* Alice's line after its first n events.
AliceLine(n) ==
    Sealed([Draft("alice", {"human:alice", "ai:assistant"},
                  BuildChainEvents(SubSeq(AliceEvents, 1, n)))
            EXCEPT !.files = Over(File(AgentsPath, Text("agents")),
                                  Over(File(PayloadPath("data"), Text("rows")), Program))])

Alice == AliceLine(3)

TamperedAlice == WithFile(Alice, ProgramPath, Text("flipped"))

\* continueFrom, the events that follow, and the seal.
Continued(c, key, participants, bare, cites, files) ==
    Sealed([Draft(key, participants, BuildChainEvents(<<Custody(c)>> \o bare))
            EXCEPT !.cites = cites, !.files = Over(files, c.files)])

\* rewrapCapsule: custody alone.
Rewrapped(c, key) == Continued(c, key, {}, <<>>, <<EntryOf(c)>>, << >>)

Bob ==
    Continued(Alice, "bob", {"human:bob"}, <<Bare("human:bob", "decision", "continued")>>,
              <<EntryOf(Alice)>>, File(ProgramPath, Text("continued")))

Carol == Rewrapped(Bob, "carol")

Dana ==
    Sealed(Draft("dana", {"human:dana"},
                 BuildChainEvents(<<Bare("human:dana", "observation", "collected")>>)))

\* Two declared parents.
Merge ==
    Continued(Alice, "bob", {"human:bob"}, <<>>, <<EntryOf(Alice), EntryOf(Dana)>>, << >>)

\* A key of nobody's continues somebody's line: all of it holds.
Unendorsed == Rewrapped(Alice, "attacker")

SuccessorOfV06 ==
    Continued(FrozenV06, "bob", {"human:bob"}, <<>>, <<EntryOf(FrozenV06)>>, << >>)

ZeroEvent(cites) == Sealed([Draft("alice", {}, <<>>) EXCEPT !.cites = cites])

Template == ZeroEvent(Absent)

SuccessorOfTemplate == Rewrapped(Template, "bob")

\* Two capsules without events of one originator share their id.
SelfIdRewrap == ZeroEvent(<<EntryOf(Template)>>)

NoteDraft(key) ==
    Draft(key, {"human:alice"}, BuildChainEvents(<<Bare("human:alice", "observation", "noted")>>))

SealedWithPredecessors(predecessors) == Sealed([NoteDraft("alice") EXCEPT !.cites = predecessors])

MalformedDeclarations ==
    [empty_array       |-> <<>>,
     version_grammar   |-> <<[EntryOf(Alice) EXCEPT !.format_version = "v0.7"]>>,
     duplicate_hash    |-> <<EntryOf(Alice), EntryOf(Alice)>>,
     null_incoherent   |-> <<[EntryOf(Alice) EXCEPT !.first_event_hash = Null]>>,
     id_not_derivable  |-> <<[EntryOf(Alice)
                              EXCEPT !.capsule_id = ComputeCapsuleId("dana", Null, "0.7")]>>]

\* The era of the entry is none this verifier knows: its id is not recomputed.
EraUnknown == SealedWithPredecessors(<<[EntryOf(Alice) EXCEPT !.format_version = "99.0"]>>)

\* What fails in one era is an unknown member in the era before.
V06Inert ==
    Sealed([NoteDraft("alice") EXCEPT !.cites = <<>>, !.version = "0.6", !.envelopeVersion = "0.6"])

AltProfilePred == Sealed([NoteDraft("dana") EXCEPT !.profile = AlternateProfile])

SuccessorOfAltProfile ==
    Sealed([Draft("bob", {"human:bob"}, BuildChainEvents(<<Custody(AltProfilePred)>>))
            EXCEPT !.cites = <<EntryOf(AltProfilePred)>>])

AliceEncrypted == Encrypted(Alice, "recipient", "alice", Absent)

\* Inside it cites Alice, outside Dana, both under one identity.
InnerOuterMismatch ==
    Encrypted(Sealed([Draft("bob", {}, BuildChainEvents(<<Custody(Alice)>>))
                      EXCEPT !.cites = <<EntryOf(Alice)>>]),
              "recipient", "bob", <<EntryOf(Dana)>>)

TamperedMember ==
    [Bob EXCEPT !.manifest.predecessors[1].manifest_hash = ManifestHash(Dana.manifest)]

Lineage ==
    [alice          |-> Alice,
     later_seal     |-> AliceLine(4),
     tampered_alice |-> TamperedAlice,
     bob            |-> Bob,
     carol          |-> Carol,
     dana           |-> Dana,
     merge          |-> Merge,
     unendorsed     |-> Unendorsed,
     v06            |-> FrozenV06,
     of_v06         |-> SuccessorOfV06,
     template       |-> Template,
     of_template    |-> SuccessorOfTemplate,
     self_id        |-> SelfIdRewrap,
     era_unknown    |-> EraUnknown,
     v06_inert      |-> V06Inert,
     alt_profile    |-> AltProfilePred,
     of_alt_profile |-> SuccessorOfAltProfile,
     encrypted      |-> AliceEncrypted,
     split_citation |-> InnerOuterMismatch,
     member         |-> TamperedMember]
    @@ [name \in DOMAIN MalformedDeclarations |->
           SealedWithPredecessors(MalformedDeclarations[name])]

=============================================================================

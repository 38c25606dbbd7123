---------------------------- MODULE MCLineageWalk ----------------------------
(***************************************************************************)
(* Small instances of LineageWalk: every pool of up to four artifacts out  *)
(* of a family that has every kind, in every order, with repetitions.      *)
(***************************************************************************)
EXTENDS LineageWalk

Artifact(kind, id, mh, anchor, ok, declares) ==
    [kind |-> kind, id |-> id, mh |-> mh, entry_hash |-> anchor, ok |-> ok,
     declares |-> declares]

Entry(id, mh, anchor) == [capsule_id |-> id, manifest_hash |-> mh, entry_hash |-> anchor]

\* Q continues P, P continues G, G continues Z; P2 is a later seal of P's line.
EntryZ == Entry("z", "mZ", "hZ")
EntryG == Entry("g", "mG", "hG")
EntryP == Entry("p", "mP", "hP")
EntryQ == Entry("q", "mQ", "hQ")

ArtifactG == Artifact("verifiable", "g", "mG", "hG", TRUE, <<EntryZ>>)
ArtifactP == Artifact("verifiable", "p", "mP", "hP", TRUE, <<EntryG>>)
ArtifactP2 == Artifact("verifiable", "p", "mP2", "hP2", TRUE, <<EntryG>>)
DamagedP == Artifact("verifiable", "p", "mP", "hP", FALSE, <<EntryG>>)
ArtifactQ == Artifact("verifiable", "q", "mQ", "hQ", TRUE, <<EntryP>>)
EncryptedP == Artifact("encrypted", "p", "none", "none", FALSE, <<>>)
Unreadable == Artifact("unreadable", "none", "none", "none", FALSE, <<>>)

Family == {ArtifactG, ArtifactP, ArtifactP2, DamagedP, ArtifactQ, EncryptedP, Unreadable}

MCPools == UNION {[1..n -> Family] : n \in 0..4}

\* One predecessor, a line one hop too long for the cap, a merge of P with Q that
\* has P at two hops, a record of P with one wrong anchor, and a merge of two
\* snapshots of P's line.
MCDeclarations ==
    {<<EntryP>>, <<EntryQ>>, <<EntryP, EntryQ>>, <<Entry("p", "mP", "hX")>>,
     <<EntryP, Entry("p", "mP2", "hP2")>>}

MCValues == {"z", "mZ", "hZ", "g", "mG", "hG", "p", "mP", "hP", "q", "mQ", "hQ", "mP2", "hP2", "hX", "none"}

=============================================================================

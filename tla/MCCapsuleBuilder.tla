-------------------------- MODULE MCCapsuleBuilder --------------------------
(***************************************************************************)
(* Small instances of CapsuleBuilder for TLC.  Two questions share a run:  *)
(* setup says whether authors seal plainly, with several builders, or      *)
(* encrypt what one builder cites.                                         *)
(***************************************************************************)
EXTENDS CapsuleBuilder

CONSTANTS
    k1, k2, r1, r2,   \* model values: two signing keys, two recipients
    archived          \* a manifest nobody has the bytes of any more

VARIABLE setup

S(role, key) == [role |-> role, public_key |-> key]

\* Signed by the originator, by its key in another role, by one member twice.
MCSignerLists ==
    {<<S("originator", k1)>>, <<S("reviewer", k1)>>,
     <<S("originator", k1), S("originator", k1)>>}

OneSigner == <<S("originator", k1)>>

\* A record of a capsule of the first era.
MCArchiveEntries ==
    {[capsule_id |-> ComputeCapsuleId(k2, Null, "0.6"), format_version |-> "0.6",
      originator_public_key |-> k2, first_event_hash |-> Null, entry_hash |-> Null,
      manifest_hash |-> ManifestHash(archived)]}

MCInit ==
    /\ Init
    /\ setup \in {"plain", "encrypted"}
    /\ setup = "encrypted" => participants = {}

\* Participants, actors and kinds of all sorts, and signers in the wrong role.
PlainWork ==
    \/ \E declared \in SUBSET ActorIds : AssignParticipants(declared)
    \/ \E actor \in ActorIds \cup {HostActor}, kind \in Kinds, action \in Actions,
          timestamp \in Times : AppendEvent(actor, kind, action, timestamp)
    \/ PreviewCapsuleId
    \/ \E signers \in SignerLists, signedAt \in Times :
           SealPlain(signers, signedAt) \/ SealThrows(signers, signedAt)
    \/ NewBuilder

\* Seals that wait, over every lineage placement, beside plain ones.
EncryptedWork ==
    \/ \E declared \in SUBSET InvalidActorIds : AssignParticipants(declared)
    \/ \E actor \in InvalidActorIds \cup {HostActor}, action \in Actions,
          timestamp \in Times : AppendEvent(actor, "decision", action, timestamp)
    \/ \E entry \in ArchiveEntries : DeclarePredecessorEntry(entry)
    \/ \E c \in Issued, allowInvalid \in Overrides : DeclarePredecessor(c, allowInvalid)
    \/ PreviewCapsuleId
    \/ \E signedAt \in Times :
           \/ SealPlain(OneSigner, signedAt)
           \/ \E recipients \in SUBSET Recipients, placement \in {"both", "inner", "outer"} :
                  BeginEncrypted(OneSigner, signedAt, recipients, placement)
    \/ \E s \in sealing : FinishEncrypted(s)

MCNext ==
    /\ \/ setup = "plain" /\ PlainWork
       \/ setup = "encrypted" /\ EncryptedWork
    /\ UNCHANGED setup

MCSpec == MCInit /\ [][MCNext]_<<vars, setup>>

=============================================================================

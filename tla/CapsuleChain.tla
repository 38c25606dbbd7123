---------------------------- MODULE CapsuleChain ----------------------------
(***************************************************************************)
(* The event chain (chain.js): how a writer links bare events and how a    *)
(* reader walks the linked ones.                                           *)
(*                                                                         *)
(* A bare event has the members the builder queued; a chain event adds     *)
(* seq, prev_hash and hash.  action stands for the members that carry what *)
(* happened (event_id, action, target, payload), whose grammars appendEvent*)
(* and verifyChain check alike.                                            *)
(***************************************************************************)
EXTENDS CapsuleFormat

CONSTANTS
    ValidActorIds,    \* actor ids inside the closed namespace set
    InvalidActorIds   \* ids a caller may write that are outside it

HostActor == "system:host"
EventKinds == {"decision", "observation", "mutation", "session", "checkpoint"}

\* The 32 zero bytes the first link hangs from.
GenesisPrev == <<"genesis">>

ActorIds == ValidActorIds \cup InvalidActorIds

\* participantActorIdProblems is empty.
ParticipantsWellFormed(participants) == participants \subseteq ValidActorIds

\* spec/chain.md step 6: an empty set binds nobody, any other binds everyone
\* but the host.
ActorAllowed(actor, participants) ==
    participants = {} \/ actor = HostActor \/ actor \in participants

\* SHA-256 over prev_hash's raw bytes and the canonical event without hash.
HashEvent(bare, seq, prevHash) == <<"sha256-event", prevHash, seq, bare>>

\* prev of event i in a chain whose hashes are what bare says they are.
BuildHash(bare) ==
    LET h[i \in 0..Len(bare)] ==
            IF i = 0 THEN GenesisPrev ELSE HashEvent(bare[i], i, h[i - 1])
    IN  h

\* Mutation of BuildChainEvents: sequence numbers start at zero.
ChainEventsFromZero(bare) ==
    [i \in DOMAIN bare |->
        [bare      |-> bare[i],
         seq       |-> i - 1,
         prev_hash |-> BuildHash(bare)[i - 1],
         hash      |-> BuildHash(bare)[i]]]

BuildChainEvents(bare) ==
    [i \in DOMAIN bare |->
        [bare      |-> bare[i],
         seq       |-> i,
         prev_hash |-> BuildHash(bare)[i - 1],
         hash      |-> BuildHash(bare)[i]]]

FirstEventHash(events) == events[1].hash
EntryHash(events) == events[Len(events)].hash

\* verifyChain reports no error.  The walk carries the STORED hash forward,
\* so link i is checked against what event i - 1 stores.
VerifyChain(events, participants) ==
    \A i \in DOMAIN events :
        LET e    == events[i]
            prev == IF i = 1 THEN GenesisPrev ELSE events[i - 1].hash
        IN  /\ ActorAllowed(e.bare.actor, participants)
            /\ e.bare.kind \in EventKinds
            /\ e.seq = i
            /\ e.prev_hash = prev
            /\ e.hash = HashEvent(e.bare, e.seq, e.prev_hash)

=============================================================================

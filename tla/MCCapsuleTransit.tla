-------------------------- MODULE MCCapsuleTransit --------------------------
(***************************************************************************)
(* Small instances of CapsuleTransit for TLC.  What its authors do is the  *)
(* setup of a run:                                                         *)
(*   "edits"      plain capsules with every kind of file, sealed before    *)
(*                any copy travels, so that a journey can mix all of them; *)
(*   "pairs"      the same for recipients: the plain ones are the inner;   *)
(*   "citations"  continuing from what is in transit, after one edit of it; *)
(*   "override"   the same with the plain ones, after as many edits as the  *)
(*                bound allows.                                            *)
(***************************************************************************)
EXTENDS CapsuleTransit

CONSTANTS
    k1, k2, x, r1,    \* two honest keys, another key, a recipient
    Setups            \* what the authors of a run do

VARIABLE setup

S(role, key) == [role |-> role, public_key |-> key]

\* k1 alone or with k2 beside it; x is the originator and k1 countersigns.
MCSignerLists ==
    {<<S("originator", k1)>>, <<S("reviewer", k2), S("originator", k1)>>,
     <<S("originator", x), S("reviewer", k1)>>}

FewSignerLists ==
    {<<S("originator", k1)>>, <<S("reviewer", k2), S("originator", k1)>>}

OneSigner == {<<S("originator", k1)>>}

\* Records of capsules nobody has the bytes of: of a known and of an unknown era.
MCArchiveEntries ==
    {[capsule_id |-> ComputeCapsuleId(x, Null, "0.6"), format_version |-> "0.6",
      originator_public_key |-> x, first_event_hash |-> Null, entry_hash |-> Null,
      manifest_hash |-> ManifestHash(Malformed)],
     [capsule_id |-> <<"capsule-id", "99.0", x, Null>>, format_version |-> "99.0",
      originator_public_key |-> x, first_event_hash |-> Null, entry_hash |-> Null,
      manifest_hash |-> ManifestHash(Malformed)]}

MCInit ==
    /\ TransitInit
    /\ setup \in Setups
    /\ originator \in {k1, x}
    /\ \E signers \in SignerLists : S("originator", originator) \in {signers[i] : i \in DOMAIN signers}
    /\ participants = IF setup \in {"citations", "override"} THEN {} ELSE ValidActorIds

\* Each builder method that writes files, once, after a first seal.
WriteSomething ==
    /\ written = NoFiles
    /\ sealed # <<>>
    /\ \/ \E text \in Contents : SetProgram(text) \/ SetAgents(text)
       \/ \E name \in PayloadNames, text \in Contents : AddPayload(name, text)
       \/ \E id \in SkillIds, json, markdown \in Contents \cup {Null} :
              AddSkill(id, json, markdown)

MCAuthor ==
    /\ held = Null
    /\ WriteSomething \/ SealBuilder
    /\ UNCHANGED transitVars

\* Authors who only seal for recipients: the plain capsules are the inner ones.
MCEncrypt ==
    /\ held = Null
    /\ \/ \E signers \in SignerLists, signedAt \in Times, recipients \in SUBSET Recipients :
              BeginEncrypted(signers, signedAt, recipients, "both")
       \/ \E s \in sealing : FinishEncrypted(s)
    /\ UNCHANGED transitVars

\* Authors who also continue from what is in transit, as often as they like.
MCContinue ==
    /\ \/ SealBuilder
       \/ NewBuilder
       \/ \E entry \in ArchiveEntries : DeclarePredecessorEntry(entry)
       \/ Continue(Issued \cup (IF held = Null THEN {} ELSE {held}))
    /\ UNCHANGED transitVars

\* Who continues has one honest key, which signs alone, and no participants;
\* what recipients accept changes nothing for it.
OneKey ==
    /\ originator' # k2 /\ participants' = {}
    /\ held' # Null => held'.manifest.originator # k2 /\ held'.manifest.participants = {}
    /\ \A i \in DOMAIN sealed' : Len(sealed'[i].outer.signers) = 1
    /\ \A s \in sealing' : Len(s.signers) = 1
    /\ \A i \in DOMAIN bareEvents' : bareEvents'[i].actor = HostActor
    /\ UNCHANGED accepted

MCNext ==
    /\ \/ setup = "edits" /\ MCAuthor
       \/ setup = "pairs" /\ MCEncrypt
       \/ setup \in {"citations", "override"} /\ MCContinue
       \/ Transit
    /\ setup \in {"citations", "override"} => OneKey
    /\ setup = "citations" => edits' <= 1
    /\ setup \in {"edits", "override"} => sealing' = {}
    /\ UNCHANGED setup

MCSpec == MCInit /\ [][MCNext]_<<allVars, setup>>

=============================================================================

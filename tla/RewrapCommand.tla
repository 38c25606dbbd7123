---------------------------- MODULE RewrapCommand ----------------------------
(***************************************************************************)
(* `capsule rewrap` (cli commands/rewrap.mjs) and then `capsule verify` on *)
(* what it left behind: the hand-off as an operator does it.  The command  *)
(* looks at the output path, reads the key and the predecessor, seals the  *)
(* successor with rewrapCapsule (CapsuleBuilder) and writes it.  It can be *)
(* killed at any point, writeFile can fail half way, and another process   *)
(* may create the output file in between.                                  *)
(*                                                                         *)
(* rewrap is what was asked for, or Null if verify runs alone:             *)
(*   file, out      paths <<directory, name>>, Null if not given;          *)
(*   key            the public key of --key; Null if not given, Absent if  *)
(*                  the file cannot be read, Malformed if it is no key;    *)
(*   participants   the actors declared;                                   *)
(*   custodyActor   who receives; Null for --no-custody-event;             *)
(*   time           both timestamps, or Malformed;                         *)
(*   allowInvalid, force   the two flags.                                  *)
(***************************************************************************)
EXTENDS VerifyCommand

CONSTANTS
    Rewraps,     \* what may be asked for
    Strangers    \* the capsules another process may put at the output path

\* parsePrivateKey: a key, or one of the two ways to have none.
ASSUME KeyAssumption == \A r \in Rewraps : r.key \in Keys \cup {Null, Absent, Malformed}

Contents == Strangers \cup UNION {{Disk[d][name] : name \in DOMAIN Disk[d]} : d \in DOMAIN Disk}

\* No file cites itself: its manifest hash would have to be known in advance.
ASSUME CitationAssumption ==
    \A c \in Contents \ {NotACapsule} :
        c.manifest.predecessors # Absent =>
            \A i \in DOMAIN c.manifest.predecessors :
                c.manifest.predecessors[i].manifest_hash # ManifestHash(c.manifest)

VARIABLES
    rewrap,
    step,         \* "called", "checked", "keyed", "opened", "filled", "sealed";
                  \* "refused" or "ended"
    predecessor,  \* the artifact read, Null before
    found,        \* what was at the output path when it was looked at, or Null
    rewrapExit,   \* the exit code, Null while there is none and after a kill
    originator, participants, bareEvents, carried, predecessors, sealed \* CapsuleBuilder's

builderVars == <<originator, participants, bareEvents, carried, predecessors, sealed>>
rewrapVars == <<rewrap, step, predecessor, found, rewrapExit, builderVars>>
verifyVars == vars
verifyVarsButFiles == <<call, phase, subject, supplied, result, printed, exit, walkVars>>
allVars == <<vars, rewrapVars>>

\* The one builder of the command, which writes no file of its own.
Author == INSTANCE CapsuleBuilder WITH
    written <- << >>, previews <- {}, sealing <- {},
    builders <- IF originator = Null THEN 0 ELSE 1,
    Contents <- {}, Actions <- {}, Kinds <- {}, Times <- {}, SkillIds <- {},
    PayloadNames <- {}, SignerLists <- {}, ArchiveEntries <- {}, Overrides <- BOOLEAN,
    MaxEvents <- 1, MaxSeals <- 1, MaxBuilders <- 1, MaxPredecessors <- 1

Successor == sealed[1].outer

-----------------------------------------------------------------------------
\* The verification that follows: of the output, with or without its predecessor.
FollowUps(r) ==
    {[caller |-> "cli", file |-> r.out, allowlist |-> {}, accept |-> {},
      predecessors |-> supply, json |-> FALSE] : supply \in {<<>>, <<r.file>>}}

RewrapInit ==
    /\ \/ /\ rewrap = Null
          /\ step = "ended"
          /\ call \in Calls
          /\ Called(PathsOf(call))
       \/ /\ rewrap \in Rewraps
          /\ step = "called"
          /\ call \in FollowUps(rewrap)
          /\ Called({rewrap.file, rewrap.out} \ {Null})
    /\ predecessor = Null
    /\ found = Null
    /\ rewrapExit = Null
    /\ originator = Null
    /\ participants = {}
    /\ bareEvents = <<>>
    /\ carried = << >>
    /\ predecessors = <<>>
    /\ sealed = <<>>

\* A CLIError: nothing has been written.
Refuse(code) ==
    /\ step' = "refused"
    /\ rewrapExit' = code

Running == step \notin {"refused", "ended"}

ArgumentsMissing == Null \in {rewrap.file, rewrap.key, rewrap.out}

CheckArguments ==
    /\ step = "called"
    /\ ArgumentsMissing
    /\ Refuse(2)
    /\ UNCHANGED <<verifyVars, rewrap, predecessor, found, builderVars>>

\* existsSync: an existing file is left alone without --force.
CheckOutput ==
    /\ step = "called"
    /\ ~ArgumentsMissing
    /\ found' = IF OnDisk(rewrap.out) THEN FileAt(rewrap.out) ELSE Null
    /\ IF OnDisk(rewrap.out) /\ ~rewrap.force
       THEN Refuse(2)
       ELSE step' = "checked" /\ UNCHANGED rewrapExit
    /\ UNCHANGED <<verifyVars, rewrap, predecessor, builderVars>>

\* The key file, then the timestamps.
ReadKey ==
    /\ step = "checked"
    /\ IF rewrap.key \in {Absent, Malformed} \/ rewrap.time = Malformed
       THEN Refuse(2)
       ELSE step' = "keyed" /\ UNCHANGED rewrapExit
    /\ UNCHANGED <<verifyVars, rewrap, predecessor, found, builderVars>>

UnknownEra(c) == IsCapsule(c) /\ OpenGate(c) \in {"unknown_newer", "unknown_older"}

\* An unknown era is a verdict; any other file that does not open is an error.
OpenPredecessor ==
    /\ step = "keyed"
    /\ IF ~OnDisk(rewrap.file) THEN Refuse(2) /\ UNCHANGED predecessor
       ELSE /\ predecessor' = FileAt(rewrap.file)
            /\ IF UnknownEra(predecessor') THEN Refuse(1)
               ELSE IF ~IsCapsule(predecessor') \/ OpenGate(predecessor') # "pass" THEN Refuse(2)
               ELSE step' = "opened" /\ UNCHANGED rewrapExit
    /\ UNCHANGED <<verifyVars, rewrap, found, builderVars>>

Refusal == Author!PredecessorRefusal(predecessor, rewrap.allowInvalid)

RefusalCode(reason) == IF reason \in {"verification_failed", "unsupported_version"} THEN 1 ELSE 2

\* Mutation of RefusePredecessor: the output is opened for writing first.
RefuseIntoOpenFile ==
    /\ step = "opened"
    /\ Refusal # "none"
    /\ Refuse(RefusalCode(Refusal))
    /\ stored' = Over(File(rewrap.out, NotACapsule), stored)
    /\ UNCHANGED <<verifyVarsButFiles, rewrap, predecessor, found, builderVars>>

RefusePredecessor ==
    /\ step = "opened"
    /\ Refusal # "none"
    /\ Refuse(RefusalCode(Refusal))
    /\ UNCHANGED <<verifyVars, rewrap, predecessor, found, builderVars>>

\* The builder throws on an argument: the actors, or what it would declare.
RefuseArgument ==
    /\ step = "opened"
    /\ Refusal = "none"
    /\ \/ ~ParticipantsWellFormed(rewrap.participants)
       \/ ~PredecessorsWellFormed(<<Author!DerivePredecessorEntry(predecessor)>>)
       \/ /\ rewrap.custodyActor # Null
          /\ ~ActorAllowed(rewrap.custodyActor, rewrap.participants)
    /\ Refuse(2)
    /\ UNCHANGED <<verifyVars, rewrap, predecessor, found, builderVars>>

\* rewrapCapsule: continueFrom, which carries every file it may ...
ContinueFromPredecessor ==
    /\ step = "opened"
    /\ Author!ContinueFrom(predecessor, rewrap.allowInvalid,
                           Author!CarriablePaths(predecessor), rewrap.key,
                           rewrap.participants, rewrap.custodyActor, rewrap.time)
    /\ step' = "filled"
    /\ UNCHANGED <<verifyVars, rewrap, predecessor, found, rewrapExit>>

\* ... and the seal under the new key.
SealSuccessor ==
    /\ step = "filled"
    /\ Author!SealPlain(<<[role |-> "originator", public_key |-> rewrap.key]>>, rewrap.time)
    /\ step' = "sealed"
    /\ UNCHANGED <<verifyVars, rewrap, predecessor, found, rewrapExit>>

Put(content) ==
    /\ stored' = Over(File(rewrap.out, content), stored)
    /\ UNCHANGED verifyVarsButFiles

\* writeFile replaces whatever is there now.
WriteOutput ==
    /\ step = "sealed"
    /\ Put(Successor)
    /\ step' = "ended"
    /\ rewrapExit' = 0
    /\ UNCHANGED <<rewrap, predecessor, found, builderVars>>

\* writeFile truncates first: it fails, or the process dies, with part written.
WriteTorn ==
    /\ step = "sealed"
    /\ Put(NotACapsule)
    /\ step' = "ended"
    /\ rewrapExit' \in {Null, 2}
    /\ UNCHANGED <<rewrap, predecessor, found, builderVars>>

Kill ==
    /\ Running
    /\ step' = "ended"
    /\ UNCHANGED <<verifyVars, rewrap, predecessor, found, rewrapExit, builderVars>>

\* Another process creates the output file after the command looked for it.
CreatedMeanwhile ==
    /\ step \in {"checked", "keyed", "opened", "filled", "sealed"}
    /\ ~OnDisk(rewrap.out)
    /\ \E content \in Strangers : Put(content)
    /\ UNCHANGED rewrapVars

Verify ==
    /\ ~Running
    /\ Next
    /\ UNCHANGED rewrapVars

RewrapNext ==
    \/ CheckArguments \/ CheckOutput \/ ReadKey \/ OpenPredecessor
    \/ RefusePredecessor \/ RefuseArgument \/ ContinueFromPredecessor
    \/ SealSuccessor \/ WriteOutput \/ WriteTorn \/ Kill
    \/ CreatedMeanwhile \/ Verify

RewrapSpec == RewrapInit /\ [][RewrapNext]_allVars

-----------------------------------------------------------------------------
(* Properties *)

\* `capsule rewrap p ... && capsule verify s` composes: a successor verifies
\* whatever its predecessor was, and verifies with the predecessor supplied
\* exactly if that holds by itself and was not overwritten by its successor.
HandOffComposes ==
    rewrap # Null /\ rewrapExit = 0 /\ phase = "ended" =>
        (exit = 0 <=>
            (call.predecessors # <<>> => rewrap.file # rewrap.out /\ Holds(predecessor)))

\* A refusal leaves the output path as it was; without --force, so does every
\* other end if a file was there at the start, though not if it came later.
\* Exit 1 says of the artifact that it does not hold, and a successor of one that
\* does not hold is written under the override alone.
RewrapKeepsFiles ==
    rewrap # Null /\ ~ArgumentsMissing =>
        /\ step = "refused" /\ OnDisk(rewrap.out) =>
               FileAt(rewrap.out) \in Strangers \cup {found}
        /\ ~rewrap.force /\ found # Null => FileAt(rewrap.out) = found
        /\ rewrapExit = 1 => ~(IsCapsule(predecessor) /\ Holds(predecessor))
        /\ rewrapExit = 0 => rewrap.allowInvalid \/ Holds(predecessor)

=============================================================================

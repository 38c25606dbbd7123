--------------------------- MODULE VerifyCommand ---------------------------
(***************************************************************************)
(* One run of `capsule verify` (cli commands/verify.mjs) over verifyCapsule*)
(* (CapsuleResult) and its lineage walk (LineageWalk): the arguments, the  *)
(* files read one after the other, the verification, and what is printed   *)
(* with which exit code.  The same machine runs one check of the vector    *)
(* runner, which calls verifyCapsule itself.                               *)
(*                                                                         *)
(* call is what was asked for:                                             *)
(*   caller        "cli" or "sdk" (no argument checks, no exit code);      *)
(*   file          a path <<directory, name>>, or Null;                    *)
(*   allowlist     the keys of --allowlist; Malformed if one is no key;    *)
(*   accept        the versions of --accept-versions, none for no policy;  *)
(*   predecessors  the paths of --predecessor, in order;                   *)
(*   json          whether the report is printed as JSON.                  *)
(***************************************************************************)
EXTENDS CapsuleResult

CONSTANTS
    Disk,           \* the files at first: a directory's name to its files by name
    NotACapsule,    \* the content of a file that is not a capsule
    Calls,          \* what may be asked for
    HopCap          \* LINEAGE_HOP_CAP_DEFAULT

ASSUME HopCapAssumption == HopCap \in Nat /\ HopCap >= 1

\* null is no exit code, truth value or reason, and no policy of a host.
ASSUME NullAssumption ==
    /\ Null \notin Nat \cup BOOLEAN \cup Reasons
    /\ \A c \in Calls : c.accept # Null

VARIABLES
    call,
    stored,      \* the files on disk that a command names, by path
    phase,       \* "called", "reading", "walking" or "ended"
    subject,     \* the content of the capsule file, Null until it is read
    supplied,    \* the contents of the predecessor files read so far, in order
    result,      \* what verifyCapsule returned, or Null
    printed,     \* the blocks of the report that were printed
    exit,        \* the exit code, or Null
    pool, entries, assigned, walked, cursor, changed, done  \* LineageWalk's

walkVars == <<pool, entries, assigned, walked, cursor, changed, done>>
vars == <<call, stored, phase, subject, supplied, result, printed, exit, walkVars>>

Walk == INSTANCE LineageWalk WITH Values <- {}, Pools <- {}, Declarations <- {}

-----------------------------------------------------------------------------
(* What the lineage walk is given *)

Options ==
    [allowlist      |-> call.allowlist,
     acceptVersions |-> IF call.accept = {} THEN Null ELSE call.accept,
     outerEnvelope  |-> Absent,
     outerManifest  |-> Absent]

OnDisk(path) == path \in DOMAIN stored

FileAt(path) == stored[path]

IsCapsule(a) == a # NotACapsule

\* new CapsuleReader did not throw.
Opened == IsCapsule(subject) /\ OpenGate(subject) = "pass"

\* A declaration as LineageClaims has it: what else it states under entry_hash.
Claim(entry) ==
    [capsule_id    |-> entry.capsule_id,
     manifest_hash |-> entry.manifest_hash,
     entry_hash    |-> <<entry.format_version, entry.originator_public_key,
                         entry.first_event_hash, entry.entry_hash>>]

Claims(predecessors) == [i \in DOMAIN predecessors |-> Claim(predecessors[i])]

\* The declaration of a capsule is interpreted and well formed.
Declares(c) ==
    /\ c.manifest.predecessors # Absent
    /\ c.manifest.version \in LineageEras
    /\ PredecessorsWellFormed(c.manifest.predecessors)

\* The scope of a supplied artifact comes first: nothing is recomputed under
\* rules that may not be its own.
ArtifactKind(a) ==
    CASE ~IsCapsule(a) -> "unreadable"
      [] a.envelope.cipher # "none" \/ BlobPath \in DOMAIN a.files -> "encrypted"
      [] FormatStatus(a) # "known" -> "unsupported_version"
      [] a.manifest.profile \notin {Absent, DefaultProfile} -> "unsupported_profile"
      [] OTHER -> "verifiable"

ClassifyArtifact(a) ==
    LET kind == ArtifactKind(a)
        m    == a.manifest
    IN  [kind       |-> kind,
         id         |-> CASE kind = "unreadable" -> Null
                          [] kind # "verifiable" -> IF m.id = Malformed THEN Null ELSE m.id
                          [] OTHER -> ComputeCapsuleId(m.originator, m.first_event_hash,
                                                       m.version),
         mh         |-> IF kind # "verifiable" THEN Null ELSE ManifestHash(m),
         entry_hash |-> IF kind # "verifiable" THEN Null
                        ELSE <<m.version, m.originator, m.first_event_hash,
                               a.envelope.entry_hash>>,
         ok         |-> kind = "verifiable" /\ VerifyOk(a, Options),
         declares   |-> IF kind = "verifiable" /\ Declares(a)
                        THEN Claims(m.predecessors) ELSE <<>>]

-----------------------------------------------------------------------------
(* The lineage channel of the result *)

LineageDeclared(c) ==
    /\ Gate(c) = "pass"
    /\ c.manifest.predecessors # Absent
    /\ c.manifest.version \in LineageEras

LineageChannel(c) ==
    LET statuses == {entries[i].status : i \in DOMAIN entries}
    IN  [declared |-> LineageDeclared(c),
         statuses |-> statuses,
         ok       |-> /\ Gate(c) = "pass"
                      /\ LineageDeclared(c) => Declares(c)
                      /\ statuses \cap {"mismatch", "predecessor_invalid"} = {}]

Reason(entry) ==
    IF entry.status # "predecessor_unverifiable" THEN Null
    ELSE IF pool[entry.artifact].kind = "encrypted" THEN "encrypted_predecessor"
    ELSE pool[entry.artifact].kind

IdentityChecked(entry) == entry.entry_hash[1] \in KnownVersions

\* The lineage notes: what is declared, and what was supplied for nothing; of a
\* member its era does not define, only that it was not interpreted.
LineageNotes(c) ==
    IF Gate(c) # "pass" \/ c.manifest.predecessors = Absent THEN {}
    ELSE IF ~LineageDeclared(c) THEN {<<"not interpreted">>}
    ELSE IF ~Declares(c) THEN {}
    ELSE {<<"declaration">>}
         \cup {<<"matched no entry", k>> : k \in DOMAIN pool \ assigned}
         \cup {<<"declared, not verified", i>> :
                  i \in {j \in DOMAIN entries :
                            entries[j].status \in {"unverified", "predecessor_unverifiable"}}}

FailClosed ==
    [ok |-> FALSE, verdict |-> "invalid", reason |-> Null, qualifiers |-> <<>>,
     trusted |-> {}, accepted |-> Null, notes |-> {}, lineageNotes |-> {},
     capsuleSigned |-> FALSE, skills |-> {}]

Result ==
    LET c       == subject
        lineage == LineageChannel(c)
    IN  IF ~IsCapsule(c) THEN FailClosed
        ELSE [ok            |-> VerifyOk(c, Options),
              verdict       |-> Verdict(c, Options),
              reason        |-> VerdictReason(c),
              qualifiers    |-> Emitted(Qualifiers(c, Options, lineage)),
              trusted       |-> TrustedSigners(c, Options),
              accepted      |-> AcceptedByPolicy(c, Options),
              notes         |-> Notes(c, Options),
              lineageNotes  |-> LineageNotes(c),
              capsuleSigned |-> CapsuleSigned(c, Options),
              skills        |-> ReportedSkills(c)]

-----------------------------------------------------------------------------
(* The demands of the command line: satisfied, failed, or Null for none *)

TrustPolicy(r) == IF call.allowlist = {} THEN Null ELSE r.trusted # {}

VersionPolicy(r) == IF call.accept = {} THEN Null ELSE r.accepted

Checked == {i \in DOMAIN entries : entries[i].status # "unverified"}

\* Mutation of CustodyPolicy: a file that matched nothing is not missed.
CustodyPolicyOfChecked ==
    IF call.predecessors = <<>> THEN Null
    ELSE \A i \in Checked : entries[i].status = "verified"

\* Mutation of CustodyPolicy: every entry of the report has to be verified.
CustodyPolicyOfEvery ==
    IF call.predecessors = <<>> THEN Null
    ELSE \A i \in DOMAIN entries : entries[i].status = "verified"

\* As many entries were resolved as files supplied, each of them verified.
CustodyPolicy ==
    IF call.predecessors = <<>> THEN Null
    ELSE /\ Cardinality(Checked) >= Len(call.predecessors)
         /\ \A i \in Checked : entries[i].status = "verified"

ExitCode(r) ==
    IF r.ok /\ FALSE \notin {TrustPolicy(r), VersionPolicy(r), CustodyPolicy} THEN 0 ELSE 1

-----------------------------------------------------------------------------
(* The report *)

CustodyBlockShown ==
    Opened /\ (LineageDeclared(subject) \/ call.predecessors # <<>>)

\* Mutation of PolicyLines: the demands are printed whatever became of the file.
PolicyLinesAlways(r) ==
    {<<"trust policy", TrustPolicy(r)>>, <<"custody policy", CustodyPolicy>>,
     <<"version policy", VersionPolicy(r)>>}

\* The outcome of every demand, beside the verdict; nothing beside a refusal.
PolicyLines(r) ==
    {line \in {<<"trust policy", TrustPolicy(r)>>, <<"custody policy", CustodyPolicy>>,
               <<"version policy", VersionPolicy(r)>>} :
        line[2] # Null /\ (line[1] = "version policy" \/ Opened)}

\* Mutation of ReportBlocks: the notes section leaves the lineage notes out.
ReportBlocksUnnoted(r) ==
    PolicyLines(r)
    \cup {<<"qualifier", r.qualifiers[i]>> : i \in DOMAIN r.qualifiers}
    \cup (IF Opened THEN {<<"checks">>, <<"trust">>, <<"signers">>} ELSE {})
    \cup (IF CustodyBlockShown THEN {<<"custody", n>> : n \in r.lineageNotes} ELSE {})
    \cup {<<"note", <<n>>>> : n \in r.notes}

\* Lineage notes are printed in the custody block, and where there is none,
\* among the other notes.
ReportBlocks(r) ==
    PolicyLines(r)
    \cup {<<"qualifier", r.qualifiers[i]>> : i \in DOMAIN r.qualifiers}
    \cup (IF Opened THEN {<<"checks">>, <<"trust">>, <<"signers">>} ELSE {})
    \cup (IF CustodyBlockShown THEN {<<"custody">>} ELSE {})
    \cup (IF CustodyBlockShown THEN {<<"custody", n>> : n \in r.lineageNotes}
          ELSE {<<"note", n>> : n \in r.lineageNotes})
    \cup {<<"note", <<n>>>> : n \in r.notes}

-----------------------------------------------------------------------------
PathsOf(c) == ({c.file} \cup {c.predecessors[i] : i \in DOMAIN c.predecessors}) \ {Null}

\* The commands see no other file than those they are given.
FilesAt(paths) ==
    [path \in {p \in paths : p[1] \in DOMAIN Disk /\ p[2] \in DOMAIN Disk[p[1]]} |->
        Disk[path[1]][path[2]]]

Called(paths) ==
    /\ stored = FilesAt(paths)
    /\ phase = "called"
    /\ subject = Null
    /\ supplied = <<>>
    /\ result = Null
    /\ printed = {}
    /\ exit = Null
    /\ pool = <<>>
    /\ entries = <<>>
    /\ assigned = {}
    /\ walked = {}
    /\ cursor = 1
    /\ changed = FALSE
    /\ done = FALSE

Init == call \in Calls /\ Called(PathsOf(call))

\* A key or a version that could never match is an error of the operator.
ArgumentsRefused ==
    call.caller = "cli" /\ Malformed \in call.allowlist \cup call.accept

\* The command ends before it verified anything.
Fail ==
    /\ phase' = "ended"
    /\ exit' = 2
    /\ UNCHANGED <<call, stored, subject, supplied, result, printed, walkVars>>

RefuseArguments ==
    /\ phase = "called"
    /\ call.file = Null \/ ArgumentsRefused
    /\ Fail

ReadSubject ==
    /\ phase = "called"
    /\ call.file # Null
    /\ ~ArgumentsRefused
    /\ OnDisk(call.file)
    /\ phase' = "reading"
    /\ subject' = FileAt(call.file)
    /\ UNCHANGED <<call, stored, supplied, result, printed, exit, walkVars>>

\* The path the command reads next.
NextPath ==
    IF phase = "called" THEN call.file ELSE call.predecessors[Len(supplied) + 1]

Reads ==
    \/ phase = "called" /\ call.file # Null /\ ~ArgumentsRefused
    \/ phase = "reading" /\ Len(supplied) < Len(call.predecessors)

\* An unreadable path is an error, never a smaller pool.
FileMissing ==
    /\ Reads
    /\ ~OnDisk(NextPath)
    /\ Fail

ReadPredecessor ==
    /\ phase = "reading"
    /\ Len(supplied) < Len(call.predecessors)
    /\ OnDisk(NextPath)
    /\ supplied' = Append(supplied, FileAt(NextPath))
    /\ UNCHANGED <<call, stored, phase, subject, result, printed, exit, walkVars>>

\* verifyCapsule up to the linkage: the pool is classified only for a capsule
\* whose declaration is read and well formed.
StartVerification ==
    /\ phase = "reading"
    /\ Len(supplied) = Len(call.predecessors)
    /\ phase' = "walking"
    /\ IF IsCapsule(subject) /\ Gate(subject) = "pass" /\ Declares(subject)
       THEN /\ pool' = [k \in DOMAIN supplied |-> ClassifyArtifact(supplied[k])]
            /\ entries' = [i \in DOMAIN subject.manifest.predecessors |->
                              Walk!MakeEntry(Claim(subject.manifest.predecessors[i]), 1, 0)]
            /\ done' = FALSE
       ELSE /\ done' = TRUE
            /\ UNCHANGED <<pool, entries>>
    /\ UNCHANGED <<call, stored, subject, supplied, result, printed, exit, assigned, walked, cursor, changed>>

WalkStep ==
    /\ phase = "walking"
    /\ Walk!Next
    /\ UNCHANGED <<call, stored, phase, subject, supplied, result, printed, exit>>

\* The rest of verifyCapsule, then the report.
Report ==
    /\ phase = "walking"
    /\ done
    /\ phase' = "ended"
    /\ result' = Result
    /\ printed' = IF call.caller = "sdk" \/ call.json THEN {} ELSE ReportBlocks(result')
    /\ exit' = IF call.caller = "sdk" THEN Null ELSE ExitCode(result')
    /\ UNCHANGED <<call, stored, subject, supplied, walkVars>>

Next ==
    RefuseArguments \/ ReadSubject \/ FileMissing \/ ReadPredecessor
    \/ StartVerification \/ WalkStep \/ Report

Spec == Init /\ [][Next]_vars

-----------------------------------------------------------------------------
(* Properties *)

Supplied == {supplied[k] : k \in DOMAIN supplied}

Holds(c) == VerifyOk(c, [Options EXCEPT !.allowlist = {}])

\* What a declaration that cites exactly a says.
DerivedClaim(a) ==
    Claim([capsule_id            |-> ComputeCapsuleId(a.manifest.originator,
                                         a.manifest.first_event_hash, a.manifest.version),
           format_version        |-> a.manifest.version,
           originator_public_key |-> a.manifest.originator,
           first_event_hash      |-> a.manifest.first_event_hash,
           entry_hash            |-> a.envelope.entry_hash,
           manifest_hash         |-> ManifestHash(a.manifest)])

\* c's declaration names artifact a with every member it has.
Names(c, a) ==
    /\ IsCapsule(a) /\ IsCapsule(c)
    /\ Declares(c)
    /\ \E i \in DOMAIN c.manifest.predecessors :
           Claim(c.manifest.predecessors[i]) = DerivedClaim(a)

\* Exit 0 means that the capsule holds and that every demand was met: a trusted
\* key signed it, its era is accepted, and every file given as a predecessor
\* holds by itself and is exactly what the capsule, or another of those files,
\* declares.
ExitZeroMeansDemandsMet ==
    exit = 0 =>
        /\ IsCapsule(subject) /\ Holds(subject)
        /\ call.allowlist # {} =>
               \E k \in call.allowlist, i \in DOMAIN subject.signers :
                   /\ subject.signers[i].public_key = k
                   /\ SignatureValid(subject.signers[i], subject.envelope)
        /\ call.accept # {} => subject.manifest.version \in call.accept
        /\ \A a \in Supplied :
               /\ IsCapsule(a) /\ Holds(a)
               /\ \E c \in Supplied \cup {subject} : Names(c, a)

\* Exit 1 always has a reason in what the operator supplied: the capsule does not
\* hold, no key of the allowlist signed it, its era is not accepted, or one of the
\* predecessor files is no plain capsule that holds and that the capsule declares
\* exactly, or is there twice.  Neither their order, nor what they declare
\* themselves, nor an entry nobody has the file for is a reason.
ExitOneHasAReason ==
    exit = 1 =>
        \/ ~IsCapsule(subject) \/ ~Holds(subject)
        \/ /\ call.allowlist # {}
           /\ ~\E k \in call.allowlist, i \in DOMAIN subject.signers :
                  /\ subject.signers[i].public_key = k
                  /\ SignatureValid(subject.signers[i], subject.envelope)
        \/ call.accept # {} /\ subject.manifest.version \notin call.accept
        \/ \E k \in DOMAIN supplied :
               \/ ArtifactKind(supplied[k]) # "verifiable"
               \/ ~Holds(supplied[k])
               \/ ~Names(subject, supplied[k])
        \/ \E k, m \in DOMAIN supplied :
               /\ k # m
               /\ ManifestHash(supplied[k].manifest) = ManifestHash(supplied[m].manifest)

\* A VALID verdict without qualifiers can be read at face value: the signer set
\* and every actor are bound by the seal, the chain has events and was walked,
\* a key of the host signed, the era is accepted, and each declared predecessor
\* was supplied, holds and is the declared one.
UnqualifiedValidIsStrong ==
    result # Null /\ result.verdict = "valid" /\ result.qualifiers = <<>> =>
        /\ subject.manifest.signer_commitment = Members(subject.signers)
        /\ subject.manifest.participants # {}
        /\ HasEvents(subject) /\ Events(subject) # <<>>
        /\ \A i \in DOMAIN Events(subject) :
               Events(subject)[i].bare.actor \in subject.manifest.participants \cup {HostActor}
        /\ TrustedSigners(subject, Options) # {}
        /\ call.accept # {} => subject.manifest.version \in call.accept
        /\ Declares(subject) =>
               \A i \in DOMAIN subject.manifest.predecessors :
                   \E a \in Supplied :
                       /\ IsCapsule(a) /\ Holds(a)
                       /\ DerivedClaim(a) = Claim(subject.manifest.predecessors[i])

\* A refusal for what the capsule declares is a verdict, exit 1, and stands
\* alone: no qualifier, note, trust, skill or policy outcome goes with it.
RefusalIsAlone ==
    result # Null /\ result.verdict = "unsupported" =>
        /\ result.reason # Null
        /\ result.qualifiers = <<>> /\ result.lineageNotes = {}
        /\ result.trusted = {} /\ result.accepted = Null
        /\ ~result.capsuleSigned /\ result.skills = {}
        /\ printed = {}
        /\ call.caller = "cli" => exit = 1

\* The printed report keeps nothing back: a VALID verdict that exits 1 names the
\* demand that failed, every qualifier is listed, and every note, of the lineage
\* channel or not, is printed in exactly one place.
ReportIsComplete ==
    result # Null /\ call.caller = "cli" /\ ~call.json =>
        /\ result.verdict = "valid" /\ exit = 1 =>
               \E p \in {"trust policy", "custody policy", "version policy"} :
                   <<p, FALSE>> \in printed
        /\ \A i \in DOMAIN result.qualifiers : <<"qualifier", result.qualifiers[i]>> \in printed
        /\ \A n \in result.notes : <<"note", <<n>>>> \in printed
        /\ \A n \in result.lineageNotes :
               (<<"custody", n>> \in printed) # (<<"note", n>> \in printed)

=============================================================================

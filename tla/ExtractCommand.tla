--------------------------- MODULE ExtractCommand ---------------------------
(***************************************************************************)
(* `capsule extract` (cli commands/extract.mjs), run after run into one    *)
(* output directory: the archive is unpacked, the directory is looked at,  *)
(* the files are written one by one.  A run can be killed between any two  *)
(* writes and started again, on the same capsule or on another.            *)
(***************************************************************************)
EXTENDS Container

CONSTANTS
    Archives,       \* archives that arrive from anywhere
    FileMaps,       \* files an author has packZip write
    Targets,        \* what the output directory may hold at first
    Limits,         \* the reader's limits, which are also the packer's
    MaxRuns,        \* how often the command is run
    PathOrder,      \* the paths as JavaScript's string comparison orders them
    DotSegments,    \* segments in which ".." occurs, as in "a..b"
    NotJson         \* a content that does not parse

\* resolveLimits takes nothing else, and the defaults, which the command has, stay
\* below the count at which an archive stops counting.
ASSUME LimitsAssumption ==
    /\ Limits.maxEntries \in Nat \ {0} /\ Limits.maxEntries < CountModulus - 1
    /\ Limits.maxTotalBytes \in Nat \ {0}

VARIABLES
    target,     \* the files under the output directory, by path
    before,     \* what they were when the run began
    archive,    \* the archive of the run
    packed,     \* the files packZip wrote into it, Null if it came from anywhere
    force,      \* whether --force was given
    phase,      \* "called", "opened", "writing"; "idle" or, after a write that
                \* could not be done, "failed"
    unpacked,   \* what unpackZip returned
    pending,    \* the paths not yet written
    exit,       \* the exit code, Null while there is none and after a kill
    runs        \* how many runs were started

vars == <<target, before, archive, packed, force, phase, unpacked, pending, exit, runs>>

-----------------------------------------------------------------------------
ManifestPath == <<"manifest.json">>
EnvelopePath == <<"provenance", "envelope.json">>

\* Why CapsuleReader refuses the files before it looks into the documents.
OpenRefusal(files) ==
    IF ManifestPath \notin DOMAIN files THEN "missing_required_file"
    ELSE IF files[ManifestPath] = NotJson THEN "invalid_json"
    ELSE IF EnvelopePath \notin DOMAIN files THEN "missing_required_file"
    ELSE IF files[EnvelopePath] = NotJson THEN "invalid_json"
    ELSE Null

ASSUME PathOrderAssumption ==
    /\ PathOrder \in Seq(Paths)
    /\ Paths = {PathOrder[i] : i \in DOMAIN PathOrder}
    /\ \A i, j \in DOMAIN PathOrder : PathOrder[i] = PathOrder[j] => i = j

Ordered(paths) ==
    LET upTo[n \in 0..Len(PathOrder)] ==
            IF n = 0 THEN <<>>
            ELSE IF PathOrder[n] \in paths THEN Append(upTo[n - 1], PathOrder[n])
            ELSE upTo[n - 1]
    IN  upTo[Len(PathOrder)]

\* An author's files are a Map from paths to bytes.
ASSUME FileMapsAssumption ==
    /\ Null \notin Paths
    /\ \A files \in FileMaps :
           /\ files = [path \in DOMAIN files |-> files[path]]
           /\ DOMAIN files \subseteq Paths
           /\ \A path \in DOMAIN files :
                  Len(files[path]) \in Nat /\ Stored(path, files[path]) # Junk

ASSUME ExitCodesAssumption == Null \notin {0, 2}

ASSUME ArchivesAssumption == \A bytes \in Archives : IsArchive(bytes)

\* The first of some paths, in the order the reader returns them.
NextOf(paths) ==
    PathOrder[CHOOSE i \in DOMAIN PathOrder :
                  /\ PathOrder[i] \in paths
                  /\ \A j \in DOMAIN PathOrder : PathOrder[j] \in paths => i <= j]

\* path lies in a directory whose place the file other takes.
Below(path, other) ==
    Len(other) < Len(path) /\ SubSeq(path, 1, Len(other)) = other

\* Writing path makes a directory of what is a file, or a file of a directory.
Obstructed(path) ==
    \E other \in DOMAIN target : Below(path, other) \/ Below(other, path)

Suspicious(path) ==
    Segments(path) \cap ({".."} \cup ParentInside \cup DotSegments) # {} \/ path[1] = ""

File(path, bytes) == [p \in {path} |-> bytes]

\* The files under a directory after some were written into it.
Over(new, files) ==
    [p \in DOMAIN new \cup DOMAIN files |-> IF p \in DOMAIN new THEN new[p] ELSE files[p]]

Write(path) ==
    /\ target' = Over(File(path, unpacked.files[path]), target)
    /\ pending' = pending \ {path}
    /\ UNCHANGED exit

\* An empty directory stands in target under a name that ends in "/".
Folder(path) == Append(Front(path), "")

\* What may be new of a file that was not written to its end: its directory, its
\* first bytes, or nothing.
Remains(path) ==
    {<<>>} \cup {File(f, <<>>) : f \in {Folder(path)} \ ({<<"">>} \cup DOMAIN target)}
    \cup {File(path, SubSeq(unpacked.files[path], 1, n)) : n \in 0..Len(unpacked.files[path])}

-----------------------------------------------------------------------------
Init ==
    /\ target \in Targets
    /\ before = target
    /\ archive = <<>>
    /\ packed = Null
    /\ force = FALSE
    /\ phase = "idle"
    /\ unpacked = Refused(Null)
    /\ pending = {}
    /\ exit = Null
    /\ runs = 0

Start(bytes, files, forced) ==
    /\ phase \in {"idle", "failed"}
    /\ runs < MaxRuns
    /\ archive' = bytes
    /\ packed' = files
    /\ force' = forced
    /\ before' = target
    /\ phase' = "called"
    /\ exit' = Null
    /\ runs' = runs + 1
    /\ unpacked' = Refused(Null)
    /\ UNCHANGED <<target, pending>>

StartAny ==
    \E forced \in BOOLEAN :
        \/ \E bytes \in Archives : Start(bytes, Null, forced)
        \/ \E files \in FileMaps :
               LET bytes == PackZip(files, Ordered(DOMAIN files), Limits)
               IN  bytes # Null /\ Start(bytes, files, forced)

Exit(code) ==
    /\ exit' = code
    /\ phase' = "idle"
    /\ pending' = {}

Open ==
    /\ phase = "called"
    /\ unpacked' = UnpackZip(archive, Limits)
    /\ IF unpacked'.ok /\ OpenRefusal(unpacked'.files) = Null
       THEN phase' = "opened" /\ UNCHANGED <<pending, exit>>
       ELSE Exit(2)
    /\ UNCHANGED <<target, before, archive, packed, force, runs>>

\* Mutation of Inspect: only a directory with paths of the capsule is populated.
InspectOwnPaths ==
    /\ phase = "opened"
    /\ IF DOMAIN target \cap DOMAIN unpacked.files # {} /\ ~force
       THEN Exit(2)
       ELSE phase' = "writing" /\ pending' = DOMAIN unpacked.files /\ UNCHANGED exit
    /\ UNCHANGED <<target, before, archive, packed, force, unpacked, runs>>

\* A populated directory is left alone without --force.
Inspect ==
    /\ phase = "opened"
    /\ IF DOMAIN target # {} /\ ~force
       THEN Exit(2)
       ELSE phase' = "writing" /\ pending' = DOMAIN unpacked.files /\ UNCHANGED exit
    /\ UNCHANGED <<target, before, archive, packed, force, unpacked, runs>>

WriteNext ==
    /\ phase = "writing"
    /\ pending # {}
    /\ LET path == NextOf(pending)
       IN  IF Suspicious(path) \/ Obstructed(path)
           THEN Exit(2) /\ UNCHANGED target
           ELSE Write(path) /\ UNCHANGED phase
    /\ UNCHANGED <<before, archive, packed, force, unpacked, runs>>

\* mkdir or writeFile fails, or the process dies in them.
WriteFails ==
    /\ phase = "writing"
    /\ pending # {}
    /\ LET path == NextOf(pending)
       IN  /\ ~Suspicious(path) /\ ~Obstructed(path)
           /\ \E left \in Remains(path) : target' = Over(left, target)
    /\ \/ exit' = 2 /\ phase' = "failed"
       \/ exit' = Null /\ phase' = "idle"
    /\ pending' = {}
    /\ UNCHANGED <<before, archive, packed, force, unpacked, runs>>

Finish ==
    /\ phase = "writing"
    /\ pending = {}
    /\ Exit(0)
    /\ UNCHANGED <<target, before, archive, packed, force, unpacked, runs>>

Kill ==
    /\ phase \in {"called", "opened", "writing"}
    /\ Exit(Null)
    /\ UNCHANGED <<target, before, archive, packed, force, unpacked, runs>>

Next == StartAny \/ Open \/ Inspect \/ WriteNext \/ WriteFails \/ Finish \/ Kill

Spec == Init /\ [][Next]_vars

-----------------------------------------------------------------------------
(* Properties *)

\* The archive of the run has been read.
Read == unpacked.ok \/ unpacked.reason # Null

\* An archive that unpackZip accepts has one reading: whichever way another
\* reader decides where the directory ends, what an entry is called, which of
\* them are directories and which of two wins, it extracts the same files.
ReadersAgree ==
    unpacked.ok =>
        \A reader \in Readers :
            LET files == FilesFor(reader, archive)
            IN  /\ DOMAIN files = DOMAIN unpacked.files
                /\ \A path \in DOMAIN files : files[path] = unpacked.files[path]

\* What packZip writes unpackZip gives back, every path and every byte, exactly
\* if it is not too large in total and no name is one that JSZip rewrites or
\* takes for a directory: packZip checks neither.
WrittenIsRead ==
    packed # Null /\ Read =>
        (unpacked.ok /\ unpacked.files = packed
            <=> /\ TotalBytes(packed) <= Limits.maxTotalBytes
                /\ \A path \in DOMAIN packed : Resolve(path) = path /\ ~IsDirName(path))

\* Some path of the capsule cannot be written beside the others.
Unwritable(files) ==
    \E path \in DOMAIN files :
        Suspicious(path) \/ \E other \in DOMAIN files \ {path} : Below(path, other)

\* What there is at a path of the directory is the capsule's file, or what was
\* left of it when it could not be written.
Whole(path) == path \in DOMAIN unpacked.files /\ target[path] = unpacked.files[path]

InPart(path) ==
    \/ \E other \in DOMAIN unpacked.files : path = Folder(other)
    \/ /\ path \in DOMAIN unpacked.files
       /\ \E n \in 0..Len(unpacked.files[path]) :
              target[path] = SubSeq(unpacked.files[path], 1, n)

\* Nothing but paths of the capsule changes, --force or not.
OthersUntouched ==
    \A path \in DOMAIN before \ DOMAIN unpacked.files :
        path \in DOMAIN target /\ target[path] = before[path]

\* Without --force the directory is as the run found it, or it was empty and
\* holds this capsule alone, every file whole but at most the last one.
OneCapsuleInDirectory ==
    ~force /\ target # before =>
        /\ DOMAIN before = {}
        /\ \A path \in DOMAIN target : Whole(path) \/ InPart(path)
        /\ \A path, other \in DOMAIN target : path = other \/ Whole(path) \/ Whole(other)

\* The run exits 0 only with every file whole, of a capsule whose paths can all
\* be written; it refuses no such capsule for an empty directory.
ExitSaysExtracted ==
    /\ exit = 0 =>
           /\ OpenRefusal(unpacked.files) = Null /\ ~Unwritable(unpacked.files)
           /\ \A path \in DOMAIN unpacked.files : path \in DOMAIN target /\ Whole(path)
           /\ ~force => DOMAIN target = DOMAIN unpacked.files
    /\ exit = 2 /\ phase = "idle" /\ unpacked.ok /\ DOMAIN before = {} =>
           OpenRefusal(unpacked.files) # Null \/ Unwritable(unpacked.files)

\* A directory never mixes two capsules without --force, whatever runs were
\* killed before, and exit 0 is said only of the whole capsule.
ExtractedIsTheCapsule ==
    runs > 0 => OthersUntouched /\ OneCapsuleInDirectory /\ ExitSaysExtracted

=============================================================================

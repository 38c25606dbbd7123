----------------------------- MODULE Container -----------------------------
(***************************************************************************)
(* The archive a capsule travels in (sdk-js zip.js): packZip, unpackZip,   *)
(* the scan of the raw central directory, and JSZip, the library that      *)
(* writes and extracts it.                                                 *)
(*                                                                         *)
(* A path is the sequence of its "/"-separated segments, so that a name    *)
(* that ends in "/" ends in the segment "".  Contents are sequences of     *)
(* bytes, files a function from paths to contents.                         *)
(*                                                                         *)
(* An archive is the sequence of its end-of-central-directory records, as  *)
(* they lie in the file.  Such a record has                                *)
(*   exact      whether its comment ends where the file ends;              *)
(*   total      the number of entries it declares (16 bits);               *)
(*   size       the size of the directory it declares, in entries;         *)
(*   directory  what lies between the declared offset and the record:      *)
(*              entries, and Junk where no entry begins.                   *)
(* An entry has its central name, the local name (Null where no local      *)
(* header is), method, dirBit (the DOS directory attribute), link (a Unix  *)
(* symlink), the declared size, crcOk, and the stored data.                *)
(***************************************************************************)
EXTENDS FiniteSets, Sequences, SequencesExt, Integers

CONSTANTS
    Null, Junk,
    Paths,          \* the names entries may have
    CountModulus,   \* 2^16, where the entry count of an archive wraps
    ParentInside,   \* segments with a ".." between backslashes
    NulSegments,    \* segments with a NUL byte
    Drives,         \* segments such as "C:", read as a drive
    Resolve(_)      \* how JSZip rewrites a name while it loads

ASSUME CountModulusAssumption == CountModulus \in Nat /\ CountModulus >= 2

\* Why an archive is refused.
Reasons ==
    {"structure", "duplicate_entry", "unsafe_path", "local_central_name_mismatch",
     "directory_marker_shape", "unsupported_compression", "symlink_entry",
     "entry_count_limit", "total_size_limit"}

ASSUME NullAssumption == Null \notin Reasons

-----------------------------------------------------------------------------
(* Names *)

Segments(path) == {path[i] : i \in DOMAIN path}

\* Mutation of SafePath: a leading "/" is accepted.
SafePathFromRoot(path) ==
    /\ path # <<"">>
    /\ path[1] \notin Drives
    /\ Segments(path) \cap (NulSegments \cup ParentInside \cup {".."}) = {}

\* assertSafePath.
SafePath(path) ==
    /\ path # <<"">>
    /\ path[1] # "" /\ path[1] \notin Drives
    /\ Segments(path) \cap (NulSegments \cup ParentInside \cup {".."}) = {}

IsDirName(path) == path[Len(path)] = ""

\* A rewritten name is a sequence of segments, is left alone if rewritten again,
\* and ends in "/" if the name did.
ASSUME ResolveAssumption ==
    \A path \in Paths :
        /\ Resolve(path) \in Seq(Segments(Resolve(path)) \cup {""})
        /\ IsDirName(path) => IsDirName(Resolve(path))
        /\ Resolve(path) \in Paths => Resolve(Resolve(path)) = Resolve(path)

\* An archive whose names are all among the paths.
IsArchive(archive) ==
    archive # <<>> =>
        LET d == archive[Len(archive)].directory
        IN  /\ Len(d) \in Nat /\ DOMAIN d = 1..Len(d)
            /\ \A i \in DOMAIN d : d[i] # Junk => d[i].name \in Paths

-----------------------------------------------------------------------------
(* The scan of the central directory, and what it admits *)

\* The directory of an archive that the scan reads: that of the last record.
Directory(archive) == archive[Len(archive)].directory

\* The last end record whose comment is exact is the last one with the
\* signature at all; its directory ends at it and has the count it declares.
ScanAdmits(archive, limits) ==
    /\ archive # <<>>
    /\ LET end == archive[Len(archive)]
       IN  /\ end.exact
           /\ end.total # CountModulus - 1
           /\ end.total <= limits.maxEntries
           /\ end.size = Len(end.directory)
           /\ \A i \in DOMAIN end.directory :
                  end.directory[i] # Junk /\ end.directory[i].local # Null
           /\ Len(end.directory) <= limits.maxEntries
           /\ Len(end.directory) = end.total

\* Mutation of EntryRefusal: local names are not compared.
EntryRefusalByCentral(entries, i) ==
    LET e == entries[i]
    IN  IF \E j \in 1..(i - 1) : entries[j].name = e.name THEN "duplicate_entry"
        ELSE IF ~SafePath(e.name) THEN "unsafe_path"
        ELSE IF e.dirBit /\ ~IsDirName(e.name) THEN "directory_marker_shape"
        ELSE IF IsDirName(e.name) THEN
            IF e.size = 0 /\ e.data = <<>> THEN Null ELSE "directory_marker_shape"
        ELSE IF e.method # "STORED" THEN "unsupported_compression"
        ELSE IF e.link THEN "symlink_entry"
        ELSE Null

\* The first objection to entry i (assertStrictEntries), or Null.
EntryRefusal(entries, i) ==
    LET e == entries[i]
    IN  IF \E j \in 1..(i - 1) : entries[j].name = e.name THEN "duplicate_entry"
        ELSE IF ~SafePath(e.name) THEN "unsafe_path"
        ELSE IF e.local # e.name THEN "local_central_name_mismatch"
        ELSE IF e.dirBit /\ ~IsDirName(e.name) THEN "directory_marker_shape"
        ELSE IF IsDirName(e.name) THEN
            IF e.size = 0 /\ e.data = <<>> THEN Null ELSE "directory_marker_shape"
        ELSE IF e.method # "STORED" THEN "unsupported_compression"
        ELSE IF e.link THEN "symlink_entry"
        ELSE Null

RefusedEntries(entries) == {i \in DOMAIN entries : EntryRefusal(entries, i) # Null}

FirstRefusal(entries) ==
    EntryRefusal(entries, CHOOSE i \in RefusedEntries(entries) :
                              \A j \in RefusedEntries(entries) : i <= j)

\* The names of the files among admitted entries.
Expected(entries) ==
    {entries[i].name : i \in {j \in DOMAIN entries : ~IsDirName(entries[j].name)}}

-----------------------------------------------------------------------------
(* JSZip *)

\* The key of an entry: its local name rewritten, "/" appended to what it takes
\* for a directory.
IsDirEntry(e) == e.dirBit \/ IsDirName(e.local)

Key(e) ==
    LET path == Resolve(e.local)
    IN  IF e.dirBit /\ ~IsDirName(path) THEN Append(path, "") ELSE path

\* Of entries with one key the last is kept.
Kept(entries, key) ==
    CHOOSE i \in DOMAIN entries :
        /\ Key(entries[i]) = key
        /\ \A j \in DOMAIN entries : Key(entries[j]) = key => j <= i

\* The keys of the entries it calls files.
ZipFiles(entries) ==
    {key \in {Key(entries[i]) : i \in DOMAIN entries} : ~IsDirEntry(entries[Kept(entries, key)])}

\* The stored bytes are checked against their length and CRC.
Intact(e) == e.crcOk /\ e.size = Len(e.data)

-----------------------------------------------------------------------------
(* Other readers of the same bytes, each with its own way to decide *)

Readers ==
    [walk : {"size", "total", "signature"}, names : {"central", "local"},
     dirs : {"name", "bit"}, keeps : {"first", "last"}]

\* How far into the directory a reader walks.
WalkedTo(reader, end) ==
    CASE reader.walk = "size"  -> end.size
      [] reader.walk = "total" -> end.total
      [] OTHER                 -> Len(end.directory)

StoredName(reader, e) == IF reader.names = "central" THEN e.name ELSE e.local

NameFor(reader, e) == IF reader.names = "central" THEN e.name ELSE Resolve(e.local)

\* The name of a directory is no file to anyone.
FileFor(reader, e) ==
    /\ ~IsDirName(StoredName(reader, e))
    /\ reader.dirs = "bit" => ~e.dirBit

FilesFor(reader, archive) ==
    LET end   == archive[Len(archive)]
        files == {i \in 1..WalkedTo(reader, end) :
                     end.directory[i] # Junk /\ FileFor(reader, end.directory[i])}
        named(path) == {i \in files : NameFor(reader, end.directory[i]) = path}
        kept(path)  == CHOOSE i \in named(path) :
                           \A j \in named(path) :
                               IF reader.keeps = "first" THEN i <= j ELSE j <= i
    IN  [path \in {NameFor(reader, end.directory[i]) : i \in files} |->
            end.directory[kept(path)].data]

-----------------------------------------------------------------------------
(* unpackZip and packZip *)

TotalBytes(files) == FoldFunction(LAMBDA bytes, sum : Len(bytes) + sum, 0, files)

Refused(reason) == [ok |-> FALSE, reason |-> reason, files |-> <<>>]

\* Mutation of Extract: the limit itself is refused.
ExtractBelowLimit(entries, limits) ==
    LET keys  == ZipFiles(entries)
        files == [key \in keys |-> entries[Kept(entries, key)].data]
    IN  IF \E key \in keys : ~SafePath(key) THEN Refused("unsafe_path")
        ELSE IF ~(keys \subseteq Expected(entries)) THEN Refused("structure")
        ELSE IF \E key \in keys : ~Intact(entries[Kept(entries, key)])
             THEN Refused("structure")
        ELSE IF Cardinality(keys) > limits.maxEntries THEN Refused("entry_count_limit")
        ELSE IF TotalBytes(files) >= limits.maxTotalBytes THEN Refused("total_size_limit")
        ELSE IF Cardinality(keys) # Cardinality(Expected(entries)) THEN Refused("structure")
        ELSE [ok |-> TRUE, reason |-> Null, files |-> files]

\* What JSZip extracted of entries the scan admitted: the same set of names.
Extract(entries, limits) ==
    LET keys  == ZipFiles(entries)
        files == [key \in keys |-> entries[Kept(entries, key)].data]
    IN  IF \E key \in keys : ~SafePath(key) THEN Refused("unsafe_path")
        ELSE IF ~(keys \subseteq Expected(entries)) THEN Refused("structure")
        ELSE IF \E key \in keys : ~Intact(entries[Kept(entries, key)])
             THEN Refused("structure")
        ELSE IF Cardinality(keys) > limits.maxEntries THEN Refused("entry_count_limit")
        ELSE IF TotalBytes(files) > limits.maxTotalBytes THEN Refused("total_size_limit")
        ELSE IF Cardinality(keys) # Cardinality(Expected(entries)) THEN Refused("structure")
        ELSE [ok |-> TRUE, reason |-> Null, files |-> files]

UnpackZip(archive, limits) ==
    IF ~ScanAdmits(archive, limits) THEN Refused("structure")
    ELSE IF RefusedEntries(Directory(archive)) # {}
         THEN Refused(FirstRefusal(Directory(archive)))
    ELSE Extract(Directory(archive), limits)

\* An entry as the packer has JSZip write it.
Stored(path, bytes) ==
    [name |-> path, local |-> path, method |-> "STORED", dirBit |-> FALSE, link |-> FALSE,
     size |-> Len(bytes), crcOk |-> TRUE, data |-> bytes]

\* The end record of a well-formed archive.
End(entries) ==
    [exact |-> TRUE, total |-> Len(entries) % CountModulus, size |-> Len(entries),
     directory |-> entries]

\* packZip of files in the order of paths, or Null where it throws.
PackZip(files, paths, limits) ==
    IF \/ Len(paths) > limits.maxEntries
       \/ \E path \in DOMAIN files : ~SafePath(path)
    THEN Null
    ELSE <<End([i \in DOMAIN paths |-> Stored(paths[i], files[paths[i]])])>>

=============================================================================

-------------------------- MODULE ContainerProofs --------------------------
(***************************************************************************)
(* An archive that unpackZip accepts has one reading, for archives of any  *)
(* number of entries and whatever names JSZip rewrites.  The argument: the *)
(* keys JSZip extracted are exactly the names the scan admitted, so every  *)
(* admitted name is the rewriting of some name, and as rewriting twice is  *)
(* rewriting once, JSZip left it alone; names are unique, so one entry     *)
(* stands behind each of them for every reader.                            *)
(***************************************************************************)
EXTENDS ExtractCommand, FiniteSetTheorems, SequenceTheorems, DataLemmas, TLAPS

\* An end of archive that the scan and the strictness pass admit.
Admitted(bytes) ==
    /\ bytes # <<>>
    /\ ScanAdmits(bytes, Limits)
    /\ RefusedEntries(Directory(bytes)) = {}

\* What the strictness pass knows of each entry.
LEMMA AdmittedEntries ==
    ASSUME NEW bytes, IsArchive(bytes), Admitted(bytes)
    PROVE  LET d == Directory(bytes)
           IN  /\ bytes[Len(bytes)].size = Len(d)
               /\ bytes[Len(bytes)].total = Len(d)
               /\ Len(d) \in Nat /\ DOMAIN d = 1..Len(d)
               /\ \A i \in DOMAIN d :
                      /\ d[i] # Junk
                      /\ d[i].name \in Paths
                      /\ d[i].local = d[i].name
                      /\ d[i].dirBit => IsDirName(d[i].name)
                      /\ \A j \in DOMAIN d : d[i].name = d[j].name => i = j
  <1> DEFINE d == Directory(bytes)
  <1>1. /\ bytes[Len(bytes)].size = Len(d)
        /\ bytes[Len(bytes)].total = Len(d)
        /\ \A i \in DOMAIN d : d[i] # Junk
    BY DEF Admitted, ScanAdmits, Directory
  <1>2. Len(d) \in Nat /\ DOMAIN d = 1..Len(d) /\ \A i \in DOMAIN d : d[i].name \in Paths
    BY <1>1 DEF Admitted, IsArchive, Directory
  <1>3. \A i \in DOMAIN d : EntryRefusal(d, i) = Null
    BY DEF Admitted, RefusedEntries
  <1>4. ASSUME NEW i \in DOMAIN d
        PROVE  /\ d[i].local = d[i].name
               /\ d[i].dirBit => IsDirName(d[i].name)
               /\ \A j \in 1..(i - 1) : d[j].name # d[i].name
    BY <1>3, NullAssumption DEF EntryRefusal, Reasons
  <1>5. ASSUME NEW i \in DOMAIN d, NEW j \in DOMAIN d, d[i].name = d[j].name
        PROVE  i = j
    <2>1. i \in Int /\ j \in Int /\ 1 <= i /\ 1 <= j
      BY <1>2
    <2>2. ~(i < j)
      BY <2>1, <1>4, <1>5
    <2>3. ~(j < i)
      BY <2>1, <1>4, <1>5
    <2> QED BY <2>1, <2>2, <2>3
  <1> QED BY <1>1, <1>2, <1>4, <1>5

\* What Extract checked of the keys.
LEMMA ExtractedKeys ==
    ASSUME NEW entries, Extract(entries, Limits).ok
    PROVE  /\ ZipFiles(entries) \subseteq Expected(entries)
           /\ Cardinality(ZipFiles(entries)) = Cardinality(Expected(entries))
           /\ Extract(entries, Limits).files =
                  [key \in ZipFiles(entries) |-> entries[Kept(entries, key)].data]
  BY DEF Extract, Refused

\* The names the scan admits are finitely many.
LEMMA ExpectedIsFinite ==
    ASSUME NEW entries, NEW n \in Nat, DOMAIN entries = 1..n
    PROVE  IsFiniteSet(Expected(entries))
  <1>1. IsFiniteSet(1..n)
    BY FS_Interval
  <1> DEFINE files == {j \in DOMAIN entries : ~IsDirName(entries[j].name)}
  <1>2. IsFiniteSet(files)
    BY <1>1, FS_Subset
  <1> DEFINE name == [i \in files |-> entries[i].name]
  <1>3. name \in Surjection(files, Expected(entries))
    BY DEF Expected, Surjection
  <1> QED BY <1>2, <1>3, FS_Surjection

\* Where the keys are the admitted names, JSZip left each of them alone.
LEMMA NamesAreResolved ==
    ASSUME NEW bytes, IsArchive(bytes), Admitted(bytes),
           Extract(Directory(bytes), Limits).ok,
           NEW path \in Expected(Directory(bytes))
    PROVE  /\ path \in Paths /\ ~IsDirName(path)
           /\ Resolve(path) = path
           /\ path \in ZipFiles(Directory(bytes))
  <1> DEFINE d == Directory(bytes)
  <1>1. ZipFiles(d) = Expected(d)
    <2>1. IsFiniteSet(Expected(d))
      BY AdmittedEntries, ExpectedIsFinite
    <2> QED BY <2>1, ExtractedKeys, FS_Subset
  <1>2. path \in Paths /\ ~IsDirName(path)
    BY AdmittedEntries DEF Expected
  <1>3. PICK i \in DOMAIN d : path = Key(d[i])
    BY <1>1 DEF ZipFiles
  <1>4. d[i].name \in Paths /\ d[i].local = d[i].name
    BY AdmittedEntries
  <1>5. path = Resolve(d[i].name)
    <2> DEFINE resolved == Resolve(d[i].name)
               segments == Segments(resolved) \cup {""}
    <2>1. resolved \in Seq(segments) /\ "" \in segments
      BY <1>4, ResolveAssumption
    <2>2. /\ Len(Append(resolved, "")) = Len(resolved) + 1
          /\ Append(resolved, "")[Len(resolved) + 1] = ""
      <3> HIDE DEF resolved, segments
      <3> QED BY <2>1, AppendProperties
    <2>3. IsDirName(Append(resolved, ""))
      BY <2>2 DEF IsDirName
    <2> QED BY <1>2, <1>3, <1>4, <2>3 DEF Key
  <1> QED BY <1>1, <1>2, <1>4, <1>5, ResolveAssumption

\* One entry stands behind an admitted name.
LEMMA OneEntryPerName ==
    ASSUME NEW bytes, IsArchive(bytes), Admitted(bytes),
           Extract(Directory(bytes), Limits).ok,
           NEW path \in Expected(Directory(bytes))
    PROVE  \E i \in DOMAIN Directory(bytes) :
               /\ Directory(bytes)[i].name = path
               /\ \A j \in DOMAIN Directory(bytes) :
                      /\ Directory(bytes)[j].name = path => j = i
                      /\ Key(Directory(bytes)[j]) = path => j = i
               /\ Kept(Directory(bytes), path) = i
  <1> DEFINE d == Directory(bytes)
  <1>1. PICK i \in DOMAIN d : d[i].name = path /\ ~IsDirName(d[i].name)
    BY DEF Expected
  <1>2. \A j \in DOMAIN d : d[j].name = path => j = i
    BY <1>1, AdmittedEntries
  <1>3. ASSUME NEW j \in DOMAIN d, Key(d[j]) = path
        PROVE  j = i
    <2>1. d[j].name \in Paths /\ d[j].local = d[j].name /\ (d[j].dirBit => IsDirName(d[j].name))
      BY AdmittedEntries
    <2>2. ~IsDirName(path)
      BY NamesAreResolved
    <2>3. CASE IsDirName(d[j].name)
      <3>1. IsDirName(Resolve(d[j].name))
        BY <2>1, <2>3, ResolveAssumption
      <3> QED BY <1>3, <2>1, <2>2, <3>1 DEF Key
    <2>4. CASE ~IsDirName(d[j].name)
      <3>1. d[j].name \in Expected(d)
        BY <2>4 DEF Expected
      <3>2. Resolve(d[j].name) = d[j].name
        BY <3>1, NamesAreResolved
      <3>3. d[j].name = path
        BY <1>3, <2>1, <2>4, <3>2 DEF Key
      <3> QED BY <1>2, <3>3
    <2> QED BY <2>3, <2>4
  <1>4. Key(d[i]) = path
    <2>1. Resolve(path) = path
      BY NamesAreResolved
    <2> QED BY <1>1, <2>1, AdmittedEntries DEF Key
  <1>5. i \in Int
    BY AdmittedEntries
  <1>6. Kept(d, path) = i
    BY <1>3, <1>4, <1>5 DEF Kept
  <1> QED BY <1>1, <1>2, <1>3, <1>6

-----------------------------------------------------------------------------
(* The one reading *)

\* How far each reader walks, and what it calls an admitted entry.
LEMMA ReadersOfAdmitted ==
    ASSUME NEW bytes, IsArchive(bytes), Admitted(bytes),
           Extract(Directory(bytes), Limits).ok, NEW reader \in Readers
    PROVE  /\ 1..WalkedTo(reader, bytes[Len(bytes)]) = DOMAIN Directory(bytes)
           /\ \A i \in DOMAIN Directory(bytes) :
                  LET e == Directory(bytes)[i]
                  IN  /\ e # Junk
                      /\ FileFor(reader, e) <=> ~IsDirName(e.name)
                      /\ FileFor(reader, e) => NameFor(reader, e) = e.name
  <1> DEFINE d == Directory(bytes)
  <1>1. 1..WalkedTo(reader, bytes[Len(bytes)]) = DOMAIN d
    BY AdmittedEntries DEF WalkedTo, Directory
  <1>2. ASSUME NEW i \in DOMAIN d
        PROVE  /\ d[i] # Junk
               /\ FileFor(reader, d[i]) <=> ~IsDirName(d[i].name)
               /\ FileFor(reader, d[i]) => NameFor(reader, d[i]) = d[i].name
    <2>1. /\ d[i] # Junk /\ d[i].local = d[i].name
          /\ d[i].dirBit => IsDirName(d[i].name)
      BY AdmittedEntries
    <2>2. FileFor(reader, d[i]) <=> ~IsDirName(d[i].name)
      BY <2>1 DEF FileFor, StoredName
    <2>3. ASSUME FileFor(reader, d[i])
          PROVE  NameFor(reader, d[i]) = d[i].name
      <3>1. d[i].name \in Expected(d)
        BY <2>2, <2>3 DEF Expected
      <3>2. Resolve(d[i].name) = d[i].name
        BY <3>1, NamesAreResolved
      <3> QED BY <2>1, <3>2 DEF NameFor
    <2> QED BY <2>1, <2>2, <2>3
  <1> QED BY <1>1, <1>2

\* What unpackZip returns is what every reader extracts.
LEMMA OneReading ==
    ASSUME NEW bytes, IsArchive(bytes), UnpackZip(bytes, Limits).ok,
           bytes # <<>>, NEW reader \in Readers
    PROVE  LET mine   == UnpackZip(bytes, Limits).files
               theirs == FilesFor(reader, bytes)
           IN  /\ DOMAIN theirs = DOMAIN mine
               /\ \A path \in DOMAIN theirs : theirs[path] = mine[path]
  <1> DEFINE d      == Directory(bytes)
             end    == bytes[Len(bytes)]
             mine   == UnpackZip(bytes, Limits).files
             theirs == FilesFor(reader, bytes)
             files  == {i \in 1..WalkedTo(reader, end) :
                           end.directory[i] # Junk /\ FileFor(reader, end.directory[i])}
             named(path) == {i \in files : NameFor(reader, end.directory[i]) = path}
             kept(path)  == CHOOSE i \in named(path) :
                                \A j \in named(path) :
                                    IF reader.keeps = "first" THEN i <= j ELSE j <= i
             names  == {NameFor(reader, end.directory[i]) : i \in files}
  <1>1. /\ Admitted(bytes)
        /\ UnpackZip(bytes, Limits) = Extract(d, Limits)
        /\ Extract(d, Limits).ok
    BY DEF UnpackZip, Admitted, Refused
  <1>2. ZipFiles(d) = Expected(d)
    <2>1. Expected(d) \subseteq ZipFiles(d)
      BY <1>1, NamesAreResolved
    <2> QED BY <1>1, <2>1, ExtractedKeys
  <1>3. mine = [key \in Expected(d) |-> d[Kept(d, key)].data]
    BY <1>1, <1>2, ExtractedKeys
  <1>4. /\ end.directory = d
        /\ files = {i \in DOMAIN d : ~IsDirName(d[i].name)}
        /\ \A i \in files : NameFor(reader, d[i]) = d[i].name
    BY <1>1, ReadersOfAdmitted DEF Directory
  <1>5. names = Expected(d)
    BY <1>4 DEF Expected
  <1>6. theirs = [path \in names |-> end.directory[kept(path)].data]
    BY DEF FilesFor
  <1>7. ASSUME NEW path \in Expected(d)
        PROVE  theirs[path] = mine[path]
    <2>1. PICK i \in DOMAIN d :
              /\ d[i].name = path
              /\ \A j \in DOMAIN d : d[j].name = path => j = i
              /\ Kept(d, path) = i
      BY <1>1, OneEntryPerName
    <2>2. ~IsDirName(path)
      BY <1>1, NamesAreResolved
    <2>3. named(path) = {i}
      BY <1>4, <2>1, <2>2
    <2>4. i \in Int
      BY <1>1, AdmittedEntries
    <2>5. kept(path) = i
      BY <2>3, <2>4
    <2>6. theirs[path] = d[i].data
      <3>1. path \in names
        BY <1>5
      <3>2. theirs[path] = end.directory[kept(path)].data
        <4> HIDE DEF names, kept
        <4> QED BY <1>6, <3>1
      <3> QED BY <1>4, <2>5, <3>2
    <2>7. mine[path] = d[i].data
      BY <1>3, <2>1
    <2> QED BY <2>6, <2>7
  <1>8. DOMAIN theirs = DOMAIN mine /\ DOMAIN theirs = Expected(d)
    BY <1>3, <1>5, <1>6
  <1> QED BY <1>7, <1>8

-----------------------------------------------------------------------------
(* Of every run of the command *)

ReadInv ==
    /\ IsArchive(archive)
    /\ unpacked.ok => archive # <<>> /\ unpacked = UnpackZip(archive, Limits)

\* packZip writes each path once.
LEMMA OrderedLists ==
    ASSUME NEW paths, paths \subseteq Paths
    PROVE  LET s == Ordered(paths)
           IN  /\ s \in Seq(paths) /\ Len(s) \in Nat /\ DOMAIN s = 1..Len(s)
               /\ \A path \in paths : \E i \in DOMAIN s : s[i] = path
               /\ \A i, j \in DOMAIN s : s[i] = s[j] => i = j
  <1> DEFINE m == Len(PathOrder)
             f == CHOOSE g : Selects(g, PathOrder, paths, m)
  <1>1. IsSeq(PathOrder)
    BY PathOrderAssumption, SeqOfIsSeq
  <1>2. Ordered(paths) = f[m]
    BY DEF Ordered, Selects
  <1>3. Selects(f, PathOrder, paths, m)
    BY PathOrderAssumption, SelectionExists
  <1> HIDE DEF f
  <1>4. Listed(f[m], PathOrder, paths, m)
    BY <1>1, <1>3, PathOrderAssumption, SelectionLists
  <1>5. ASSUME NEW path \in paths
        PROVE  \E i \in DOMAIN f[m] : f[m][i] = path
    <2>1. PICK k \in 1..m : PathOrder[k] = path
      BY PathOrderAssumption
    <2> QED BY <1>4, <2>1 DEF Listed
  <1>6. f[m] \in Seq(paths) /\ \A i, j \in DOMAIN f[m] : f[m][i] = f[m][j] => i = j
    BY <1>4 DEF Listed
  <1> QED BY <1>2, <1>5, <1>6

\* What arrives and what packZip writes are archives over the paths.
LEMMA PackedIsArchive ==
    ASSUME NEW files \in FileMaps,
           PackZip(files, Ordered(DOMAIN files), Limits) # Null
    PROVE  IsArchive(PackZip(files, Ordered(DOMAIN files), Limits))
  <1> DEFINE paths   == Ordered(DOMAIN files)
             entries == [i \in DOMAIN paths |-> Stored(paths[i], files[paths[i]])]
  <1>1. paths \in Seq(DOMAIN files) /\ DOMAIN files \subseteq Paths
    BY OrderedLists, FileMapsAssumption
  <1>2. Len(entries) \in Nat /\ DOMAIN entries = 1..Len(entries)
    <2> HIDE DEF paths
    <2> QED BY <1>1
  <1>3. \A i \in DOMAIN entries : entries[i].name \in Paths
    <2> HIDE DEF paths
    <2> QED BY <1>1 DEF Stored
  <1>4. PackZip(files, paths, Limits) = <<End(entries)>>
    BY DEF PackZip
  <1>5. <<End(entries)>>[Len(<<End(entries)>>)].directory = entries
    BY DEF End
  <1>6. IsArchive(<<End(entries)>>)
    <2> HIDE DEF entries
    <2> QED BY <1>2, <1>3, <1>5 DEF IsArchive
  <1> QED BY <1>4, <1>6

LEMMA ReadInvInit == Init => ReadInv
  BY DEF Init, ReadInv, IsArchive, Refused

LEMMA ReadInvStep == ReadInv /\ [Next]_vars => ReadInv'
  <1> SUFFICES ASSUME ReadInv, [Next]_vars PROVE ReadInv'
    OBVIOUS
  <1>1. CASE StartAny
    <2>1. ASSUME NEW bytes, NEW files, NEW forced, IsArchive(bytes), Start(bytes, files, forced)
          PROVE  ReadInv'
      BY <2>1 DEF Start, ReadInv, Refused, IsArchive
    <2> QED BY <1>1, <2>1, ArchivesAssumption, PackedIsArchive DEF StartAny
  <1>2. CASE Open
    <2>1. archive' = archive /\ unpacked' = UnpackZip(archive, Limits)
      BY <1>2 DEF Open
    <2>2. UnpackZip(archive, Limits).ok => archive # <<>>
      BY DEF UnpackZip, ScanAdmits, Refused
    <2> QED BY <2>1, <2>2 DEF ReadInv, IsArchive
  <1>3. CASE Inspect \/ WriteNext \/ WriteFails \/ Finish \/ Kill \/ UNCHANGED vars
    <2>1. archive' = archive /\ unpacked' = unpacked
      BY <1>3 DEF Inspect, WriteNext, WriteFails, Finish, Kill, vars
    <2> QED BY <2>1 DEF ReadInv, IsArchive
  <1> QED BY <1>1, <1>2, <1>3 DEF Next

\* Whatever archives arrive: what unpackZip accepts, every reader extracts alike.
THEOREM AcceptedArchivesHaveOneReading == Spec => []ReadersAgree
  <1>1. ReadInv => ReadersAgree
    BY OneReading DEF ReadInv, ReadersAgree
  <1> QED BY <1>1, ReadInvInit, ReadInvStep, PTL DEF Spec

-----------------------------------------------------------------------------
(* The total of a set of files is a number *)

Taken(paths) == CHOOSE path \in paths : TRUE

\* The total of some of the files, from the totals of fewer of them.
OneMore(files, totals, paths) ==
    IF paths = {} THEN 0
    ELSE Len(files[Taken(paths)]) + totals[paths \ {Taken(paths)}]

Totals(totals, files) ==
    totals = [paths \in SUBSET DOMAIN files |-> OneMore(files, totals, paths)]

LEMMA TotalIsChosen ==
    ASSUME NEW files
    PROVE  TotalBytes(files) = (CHOOSE totals : Totals(totals, files))[DOMAIN files]
  BY DEF TotalBytes, FoldFunction, FoldFunctionOnSet, MapThenFoldSet, Totals, OneMore, Taken

LEMMA OneFewer ==
    ASSUME NEW S, IsFiniteSet(S), NEW paths \in SUBSET S, paths # {}
    PROVE  /\ Taken(paths) \in paths
           /\ paths \ {Taken(paths)} \in SUBSET S
           /\ Cardinality(paths) \in Nat
           /\ Cardinality(paths \ {Taken(paths)}) = Cardinality(paths) - 1
  <1>1. Taken(paths) \in paths
    BY DEF Taken
  <1>2. IsFiniteSet(paths)
    BY FS_Subset
  <1> HIDE DEF Taken
  <1> QED BY <1>1, <1>2, FS_RemoveElement, FS_CardinalityType

\* The fold that TotalBytes chooses exists, by induction on the number of files.
LEMMA TotalsExist ==
    ASSUME NEW files, IsFiniteSet(DOMAIN files)
    PROVE  \E totals : Totals(totals, files)
  <1> DEFINE D == DOMAIN files
             UpTo(t, n) ==
                 \A paths \in SUBSET D :
                     Cardinality(paths) <= n => t[paths] = OneMore(files, t, paths)
             S == {n \in Nat : \E t : UpTo(t, n)}
  <1>1. \A paths \in SUBSET D : /\ Cardinality(paths) \in Nat
                                /\ Cardinality(paths) <= Cardinality(D)
                                /\ Cardinality(paths) = 0 <=> paths = {}
    BY FS_Subset, FS_CardinalityType, FS_EmptySet
  <1>2. 0 \in S
    <2> DEFINE t == [paths \in SUBSET D |-> 0]
    <2>1. UpTo(t, 0)
      BY <1>1 DEF OneMore
    <2> QED BY <2>1
  <1>3. ASSUME NEW n \in Nat, n \in S
        PROVE  n + 1 \in S
    <2>1. PICK t : UpTo(t, n)
      BY <1>3
    <2> DEFINE u == [paths \in SUBSET D |->
                         IF Cardinality(paths) = n + 1 THEN OneMore(files, t, paths)
                         ELSE t[paths]]
    <2>2. ASSUME NEW paths \in SUBSET D, Cardinality(paths) <= n + 1
          PROVE  u[paths] = OneMore(files, u, paths)
      <3>1. u[paths] = OneMore(files, t, paths)
        BY <1>1, <2>1, <2>2
      <3>2. CASE paths = {}
        BY <3>1, <3>2 DEF OneMore
      <3>3. CASE paths # {}
        <4> DEFINE rest == paths \ {Taken(paths)}
        <4>1. rest \in SUBSET D /\ Cardinality(rest) # n + 1
          BY <1>1, <2>2, <3>3, OneFewer
        <4>2. u[rest] = t[rest]
          <5> HIDE DEF rest
          <5> QED BY <4>1
        <4> HIDE DEF u
        <4> QED BY <3>1, <3>3, <4>2 DEF OneMore
      <3> QED BY <3>2, <3>3
    <2>3. UpTo(u, n + 1)
      BY <2>2
    <2> HIDE DEF u
    <2>4. n + 1 \in S
      BY <2>3
    <2> QED BY <2>4
  <1> HIDE DEF S
  <1>4. Cardinality(D) \in S
    BY <1>1, <1>2, <1>3, AllNaturals, FS_CardinalityType
  <1>5. PICK t : UpTo(t, Cardinality(D))
    BY <1>4 DEF S
  <1> DEFINE totals == [paths \in SUBSET D |-> t[paths]]
  <1>6. ASSUME NEW paths \in SUBSET D
        PROVE  totals[paths] = OneMore(files, totals, paths)
    <2>1. t[paths] = OneMore(files, t, paths)
      BY <1>1, <1>5
    <2>2. paths # {} => paths \ {Taken(paths)} \in SUBSET D
      OBVIOUS
    <2>3. OneMore(files, t, paths) = OneMore(files, totals, paths)
      BY <2>2 DEF OneMore
    <2> QED BY <2>1, <2>3
  <1>7. DOMAIN totals = SUBSET D /\ totals = [paths \in SUBSET D |-> totals[paths]]
    OBVIOUS
  <1> HIDE DEF totals
  <1>8. [paths \in SUBSET D |-> totals[paths]]
            = [paths \in SUBSET D |-> OneMore(files, totals, paths)]
    BY <1>6
  <1>9. Totals(totals, files)
    BY <1>7, <1>8 DEF Totals
  <1> QED BY <1>9

LEMMA TotalIsNat ==
    ASSUME NEW files, IsFiniteSet(DOMAIN files),
           \A path \in DOMAIN files : Len(files[path]) \in Nat
    PROVE  TotalBytes(files) \in Nat
  <1> DEFINE D == DOMAIN files
             totals == CHOOSE t : Totals(t, files)
             S == {n \in Nat : \A paths \in SUBSET D :
                                  Cardinality(paths) <= n => totals[paths] \in Nat}
  <1>1. Totals(totals, files)
    BY TotalsExist
  <1> HIDE DEF totals
  <1>2. \A paths \in SUBSET D : totals[paths] = OneMore(files, totals, paths)
    BY <1>1 DEF Totals
  <1>3. \A paths \in SUBSET D : /\ Cardinality(paths) \in Nat
                                /\ Cardinality(paths) = 0 <=> paths = {}
    BY FS_Subset, FS_CardinalityType, FS_EmptySet
  <1>4. totals[{}] = 0
    <2>1. OneMore(files, totals, {}) = 0
      BY DEF OneMore
    <2> QED BY <1>2, <2>1
  <1>5. 0 \in S
    <2>1. \A paths \in SUBSET D : Cardinality(paths) <= 0 => paths = {}
      BY <1>3
    <2>2. ASSUME NEW paths \in SUBSET D, Cardinality(paths) <= 0
          PROVE  totals[paths] \in Nat
      <3>1. paths = {}
        BY <2>1, <2>2
      <3>2. totals[paths] = 0
        BY <1>4, <3>1
      <3> QED BY <3>2
    <2> QED BY <2>2
  <1>6. ASSUME NEW n \in Nat, n \in S
        PROVE  n + 1 \in S
    <2> SUFFICES ASSUME NEW paths \in SUBSET D, Cardinality(paths) <= n + 1
                 PROVE  totals[paths] \in Nat
      OBVIOUS
    <2>1. CASE paths = {}
      BY <1>4, <2>1
    <2>2. CASE paths # {}
      <3> DEFINE rest == paths \ {Taken(paths)}
      <3>1. /\ Taken(paths) \in paths /\ rest \in SUBSET D
            /\ Cardinality(rest) = Cardinality(paths) - 1
        BY <2>2, OneFewer
      <3>2. Cardinality(rest) <= n
        BY <1>3, <3>1
      <3>3. totals[rest] \in Nat
        <4> HIDE DEF rest
        <4> QED BY <1>6, <3>1, <3>2
      <3>4. Len(files[Taken(paths)]) \in Nat
        BY <3>1
      <3>5. totals[paths] = Len(files[Taken(paths)]) + totals[rest]
        BY <1>2, <2>2 DEF OneMore
      <3> HIDE DEF rest
      <3> QED BY <3>3, <3>4, <3>5
    <2> QED BY <2>1, <2>2
  <1> HIDE DEF S
  <1>7. Cardinality(D) \in S
    BY <1>3, <1>5, <1>6, AllNaturals
  <1>8. totals[D] \in Nat
    BY <1>3, <1>7 DEF S
  <1> QED BY <1>8, TotalIsChosen DEF totals

-----------------------------------------------------------------------------
(* What packZip writes, unpackZip gives back *)

\* The archive packZip wrote of files, where it wrote one.
PackedOf(bytes, files) ==
    /\ files \in FileMaps
    /\ bytes = PackZip(files, Ordered(DOMAIN files), Limits)
    /\ bytes # Null

\* Each path has one entry, which says of the file what is the case.
LEMMA PackedEntries ==
    ASSUME NEW bytes, NEW files, PackedOf(bytes, files)
    PROVE  LET d == Directory(bytes)
           IN  /\ bytes = <<End(d)>> /\ Len(d) \in Nat /\ DOMAIN d = 1..Len(d)
               /\ Len(d) <= Limits.maxEntries
               /\ \A i \in DOMAIN d :
                      /\ d[i] = Stored(d[i].name, files[d[i].name])
                      /\ d[i].name \in DOMAIN files /\ SafePath(d[i].name)
                      /\ \A j \in DOMAIN d : d[i].name = d[j].name => i = j
               /\ \A path \in DOMAIN files : \E i \in DOMAIN d : d[i].name = path
  <1> DEFINE paths   == Ordered(DOMAIN files)
             entries == [i \in DOMAIN paths |-> Stored(paths[i], files[paths[i]])]
  <1>1. /\ paths \in Seq(DOMAIN files) /\ Len(paths) \in Nat /\ DOMAIN paths = 1..Len(paths)
        /\ \A path \in DOMAIN files : \E i \in DOMAIN paths : paths[i] = path
        /\ \A i, j \in DOMAIN paths : paths[i] = paths[j] => i = j
    BY OrderedLists, FileMapsAssumption DEF PackedOf
  <1>2. /\ bytes = <<End(entries)>> /\ Len(paths) <= Limits.maxEntries
        /\ \A path \in DOMAIN files : SafePath(path)
    <2>1. /\ ~(Len(paths) > Limits.maxEntries)
          /\ ~(\E path \in DOMAIN files : ~SafePath(path))
      BY DEF PackedOf, PackZip
    <2>2. bytes = <<End(entries)>>
      BY DEF PackedOf, PackZip
    <2> HIDE DEF paths
    <2>3. Len(paths) <= Limits.maxEntries
      BY <1>1, <2>1, LimitsAssumption
    <2> QED BY <2>1, <2>2, <2>3
  <1> HIDE DEF paths
  <1>3. /\ Len(entries) = Len(paths) /\ DOMAIN entries = DOMAIN paths
        /\ \A i \in DOMAIN entries :
               entries[i] = Stored(paths[i], files[paths[i]]) /\ entries[i].name = paths[i]
    BY <1>1 DEF Stored
  <1> HIDE DEF entries
  <1>4. Directory(bytes) = entries
    BY <1>2 DEF Directory, End
  <1>5. \A i \in DOMAIN entries :
            /\ entries[i] = Stored(entries[i].name, files[entries[i].name])
            /\ entries[i].name \in DOMAIN files /\ SafePath(entries[i].name)
            /\ \A j \in DOMAIN entries : entries[i].name = entries[j].name => i = j
    BY <1>1, <1>2, <1>3
  <1>6. \A path \in DOMAIN files : \E i \in DOMAIN entries : entries[i].name = path
    <2> SUFFICES ASSUME NEW path \in DOMAIN files
                 PROVE  \E i \in DOMAIN entries : entries[i].name = path
      OBVIOUS
    <2>1. PICK i \in DOMAIN paths : paths[i] = path
      BY <1>1
    <2> QED BY <1>3, <2>1
  <1>7. /\ bytes = <<End(entries)>> /\ Len(entries) \in Nat
        /\ DOMAIN entries = 1..Len(entries) /\ Len(entries) <= Limits.maxEntries
    BY <1>1, <1>2, <1>3
  <1> QED BY <1>4, <1>5, <1>6, <1>7

\* The scan admits it: the limit is below the count at which the record wraps.
LEMMA PackedIsScanned ==
    ASSUME NEW bytes, NEW files, PackedOf(bytes, files)
    PROVE  ScanAdmits(bytes, Limits)
  <1> DEFINE d == Directory(bytes)
  <1>1. bytes = <<End(d)>> /\ Len(d) \in Nat /\ Len(d) <= Limits.maxEntries
    BY PackedEntries
  <1>2. \A i \in DOMAIN d : d[i] # Junk /\ d[i].local # Null
    <2> TAKE i \in DOMAIN d
    <2>1. d[i] = Stored(d[i].name, files[d[i].name]) /\ d[i].name \in DOMAIN files
      BY PackedEntries
    <2>2. Stored(d[i].name, files[d[i].name]) # Junk /\ d[i].name # Null
      BY <2>1, FileMapsAssumption DEF PackedOf
    <2>3. d[i].local = d[i].name
      BY <2>1 DEF Stored
    <2> QED BY <2>1, <2>2, <2>3
  <1> HIDE DEF d
  <1>3. Len(d) % CountModulus = Len(d) /\ Len(d) # CountModulus - 1
    <2>1. Len(d) < CountModulus - 1
      BY <1>1, LimitsAssumption, CountModulusAssumption
    <2>2. \A a, m \in Nat : a < m - 1 => a % m = a /\ a # m - 1
      OBVIOUS
    <2> QED BY <1>1, <2>1, <2>2, CountModulusAssumption
  <1>4. /\ bytes # <<>> /\ bytes[Len(bytes)] = End(d)
        /\ End(d).exact = TRUE /\ End(d).total = Len(d) /\ End(d).size = Len(d)
        /\ End(d).directory = d
    BY <1>1, <1>3 DEF End
  <1> QED BY <1>1, <1>2, <1>3, <1>4 DEF ScanAdmits

\* Where no name is rewritten or looks like a directory, nothing is refused and
\* JSZip returns the files.
LEMMA PackedIsExtracted ==
    ASSUME NEW bytes, NEW files, PackedOf(bytes, files),
           \A path \in DOMAIN files : Resolve(path) = path /\ ~IsDirName(path)
    PROVE  LET d == Directory(bytes)
           IN  /\ RefusedEntries(d) = {}
               /\ ZipFiles(d) = DOMAIN files /\ Expected(d) = DOMAIN files
               /\ \A path \in DOMAIN files :
                      /\ d[Kept(d, path)] = Stored(path, files[path])
                      /\ Intact(d[Kept(d, path)])
  <1> DEFINE d == Directory(bytes)
  <1>1. /\ Len(d) \in Nat /\ DOMAIN d = 1..Len(d)
        /\ \A i \in DOMAIN d :
               /\ d[i] = Stored(d[i].name, files[d[i].name])
               /\ d[i].name \in DOMAIN files /\ SafePath(d[i].name)
               /\ \A j \in DOMAIN d : d[i].name = d[j].name => i = j
        /\ \A path \in DOMAIN files : \E i \in DOMAIN d : d[i].name = path
    BY PackedEntries
  <1> HIDE DEF d
  <1>2. ASSUME NEW i \in DOMAIN d
        PROVE  /\ d[i].local = d[i].name /\ d[i].method = "STORED" /\ ~d[i].dirBit
               /\ ~d[i].link /\ ~IsDirName(d[i].name) /\ Intact(d[i])
               /\ Key(d[i]) = d[i].name
    <2> DEFINE path == d[i].name
    <2>1. d[i] = Stored(path, files[path]) /\ Resolve(path) = path /\ ~IsDirName(path)
      BY <1>1
    <2> HIDE DEF path
    <2>2. /\ d[i].local = path /\ d[i].method = "STORED" /\ ~d[i].dirBit
          /\ ~d[i].link /\ Intact(d[i])
      BY <2>1 DEF Stored, Intact
    <2>3. Key(d[i]) = path
      BY <2>1, <2>2 DEF Key
    <2> QED BY <2>1, <2>2, <2>3 DEF path
  <1>3. RefusedEntries(d) = {}
    <2> SUFFICES ASSUME NEW i \in DOMAIN d PROVE EntryRefusal(d, i) = Null
      BY DEF RefusedEntries
    <2>1. ~\E j \in 1..(i - 1) : d[j].name = d[i].name
      BY <1>1
    <2> QED BY <1>1, <1>2, <2>1 DEF EntryRefusal
  <1>4. Expected(d) = {d[i].name : i \in DOMAIN d}
    BY <1>2 DEF Expected
  <1>5. ASSUME NEW path \in DOMAIN files
        PROVE  \E i \in DOMAIN d :
                   d[i].name = path /\ Key(d[i]) = path /\ Kept(d, path) = i
    <2>1. PICK i \in DOMAIN d : d[i].name = path
      BY <1>1
    <2>2. \A j \in DOMAIN d : Key(d[j]) = path => j = i
      BY <1>1, <1>2, <2>1
    <2>3. Key(d[i]) = path
      BY <1>2, <2>1
    <2>4. i \in Int
      BY <1>1
    <2>5. Kept(d, path) = i
      BY <2>2, <2>3, <2>4 DEF Kept
    <2> QED BY <2>1, <2>3, <2>5
  <1>6. {d[i].name : i \in DOMAIN d} = DOMAIN files
    <2>1. \A path \in DOMAIN files : path \in {d[i].name : i \in DOMAIN d}
      BY <1>1
    <2>2. \A i \in DOMAIN d : d[i].name \in DOMAIN files
      BY <1>1
    <2> QED BY <2>1, <2>2
  <1>7. ZipFiles(d) = DOMAIN files
    <2>1. {Key(d[i]) : i \in DOMAIN d} = DOMAIN files
      BY <1>2, <1>6
    <2>2. \A path \in DOMAIN files : ~IsDirEntry(d[Kept(d, path)])
      BY <1>2, <1>5 DEF IsDirEntry
    <2> QED BY <2>1, <2>2 DEF ZipFiles
  <1>8. ASSUME NEW path \in DOMAIN files
        PROVE  d[Kept(d, path)] = Stored(path, files[path]) /\ Intact(d[Kept(d, path)])
    <2>1. PICK i \in DOMAIN d : d[i].name = path /\ Kept(d, path) = i
      BY <1>5
    <2>2. d[i] = Stored(d[i].name, files[d[i].name])
      BY <1>1
    <2> QED BY <1>2, <2>1, <2>2
  <1> QED BY <1>3, <1>4, <1>6, <1>7, <1>8 DEF d

LEMMA PackedIsFinite ==
    ASSUME NEW bytes, NEW files, PackedOf(bytes, files)
    PROVE  /\ IsFiniteSet(DOMAIN files) /\ Cardinality(DOMAIN files) \in Nat
           /\ Cardinality(DOMAIN files) <= Limits.maxEntries
  <1> DEFINE d == Directory(bytes)
             name == [i \in DOMAIN d |-> d[i].name]
  <1>1. /\ Len(d) \in Nat /\ DOMAIN d = 1..Len(d) /\ Len(d) <= Limits.maxEntries
        /\ name \in Surjection(DOMAIN d, DOMAIN files)
    BY PackedEntries DEF Surjection
  <1> HIDE DEF d, name
  <1>2. IsFiniteSet(1..Len(d)) /\ Cardinality(1..Len(d)) = Len(d)
    BY <1>1, FS_Interval
  <1>3. IsFiniteSet(DOMAIN files) /\ Cardinality(DOMAIN files) <= Len(d)
    BY <1>1, <1>2, FS_Surjection
  <1> QED BY <1>1, <1>3, FS_CardinalityType, LimitsAssumption

\* unpackZip returns what was packed exactly if no name is rewritten or taken for
\* a directory, and the total is within the limit.
LEMMA GivenBack ==
    ASSUME NEW bytes, NEW files, PackedOf(bytes, files)
    PROVE  LET unzipped == UnpackZip(bytes, Limits)
           IN  unzipped.ok /\ unzipped.files = files
                   <=> /\ TotalBytes(files) <= Limits.maxTotalBytes
                       /\ \A path \in DOMAIN files : Resolve(path) = path /\ ~IsDirName(path)
  <1> DEFINE d == Directory(bytes)
             unzipped == UnpackZip(bytes, Limits)
             whole == [key \in ZipFiles(d) |-> d[Kept(d, key)].data]
  <1>1. TotalBytes(files) \in Nat /\ Limits.maxTotalBytes \in Nat
    BY PackedIsFinite, TotalIsNat, FileMapsAssumption, LimitsAssumption DEF PackedOf
  <1>2. ASSUME unzipped.ok, unzipped.files = files
        PROVE  /\ TotalBytes(files) <= Limits.maxTotalBytes
               /\ \A path \in DOMAIN files : Resolve(path) = path /\ ~IsDirName(path)
    <2>1. /\ Admitted(bytes) /\ unzipped = Extract(d, Limits) /\ Extract(d, Limits).ok
      BY <1>2, PackedIsScanned DEF UnpackZip, Admitted, Refused, ScanAdmits
    <2>2. IsArchive(bytes)
      BY PackedIsArchive DEF PackedOf
    <2>3. ZipFiles(d) \subseteq Expected(d) /\ files = whole
      BY <1>2, <2>1, ExtractedKeys
    <2>4. \A path \in DOMAIN files : Resolve(path) = path /\ ~IsDirName(path)
      BY <2>1, <2>2, <2>3, NamesAreResolved
    <2>5. ~(TotalBytes(whole) > Limits.maxTotalBytes)
      BY <2>1 DEF Extract, Refused
    <2>6. ~(TotalBytes(files) > Limits.maxTotalBytes)
      BY <2>3, <2>5
    <2> QED BY <1>1, <2>4, <2>6
  <1>3. ASSUME TotalBytes(files) <= Limits.maxTotalBytes,
               \A path \in DOMAIN files : Resolve(path) = path /\ ~IsDirName(path)
        PROVE  unzipped.ok /\ unzipped.files = files
    <2>1. /\ RefusedEntries(d) = {}
          /\ ZipFiles(d) = DOMAIN files /\ Expected(d) = DOMAIN files
          /\ \A path \in DOMAIN files :
                 d[Kept(d, path)] = Stored(path, files[path]) /\ Intact(d[Kept(d, path)])
      BY <1>3, PackedIsExtracted
    <2>2. \A path \in DOMAIN files : SafePath(path)
      BY PackedEntries
    <2> HIDE DEF d
    <2>3. whole = files
      <3>1. \A path \in DOMAIN files : d[Kept(d, path)].data = files[path]
        <4> SUFFICES ASSUME NEW path \in DOMAIN files
                     PROVE  d[Kept(d, path)].data = files[path]
          OBVIOUS
        <4>1. d[Kept(d, path)] = Stored(path, files[path])
          BY <2>1
        <4>2. Stored(path, files[path]).data = files[path]
          BY DEF Stored
        <4> QED BY <4>1, <4>2
      <3>2. files = [path \in DOMAIN files |-> files[path]]
        BY FileMapsAssumption DEF PackedOf
      <3> QED BY <2>1, <3>1, <3>2
    <2>4. /\ ~\E key \in ZipFiles(d) : ~SafePath(key)
          /\ ~\E key \in ZipFiles(d) : ~Intact(d[Kept(d, key)])
      BY <2>1, <2>2
    <2>5. ~(Cardinality(ZipFiles(d)) > Limits.maxEntries)
      BY <2>1, PackedIsFinite, LimitsAssumption
    <2>6. ~(TotalBytes(whole) > Limits.maxTotalBytes)
      BY <1>1, <1>3, <2>3
    <2>7. Extract(d, Limits) = [ok |-> TRUE, reason |-> Null, files |-> whole]
      <3> HIDE DEF whole
      <3> QED BY <2>1, <2>4, <2>5, <2>6 DEF Extract, whole
    <2>8. unzipped = Extract(d, Limits)
      BY <2>1, PackedIsScanned DEF UnpackZip, d
    <2> QED BY <2>3, <2>7, <2>8
  <1> QED BY <1>2, <1>3

\* Of a run that has read an archive packZip wrote.
PackInv ==
    /\ packed # Null => PackedOf(archive, packed)
    /\ unpacked \in {Refused(Null), UnpackZip(archive, Limits)}

LEMMA PackInvStep == PackInv /\ [Next]_vars => PackInv'
  <1> SUFFICES ASSUME PackInv, [Next]_vars PROVE PackInv'
    OBVIOUS
  <1>1. CASE StartAny
    <2>1. ASSUME NEW bytes, NEW files, NEW forced, Start(bytes, files, forced),
                 files # Null => PackedOf(bytes, files)
          PROVE  PackInv'
      BY <2>1 DEF Start, PackInv, PackedOf, Refused
    <2> QED BY <1>1, <2>1 DEF StartAny, PackedOf
  <1>2. CASE Open
    BY <1>2 DEF Open, PackInv, PackedOf
  <1>3. CASE Inspect \/ WriteNext \/ WriteFails \/ Finish \/ Kill \/ UNCHANGED vars
    <2>1. UNCHANGED <<archive, packed, unpacked>>
      BY <1>3 DEF Inspect, WriteNext, WriteFails, Finish, Kill, vars
    <2> QED BY <2>1 DEF PackInv, PackedOf
  <1> QED BY <1>1, <1>2, <1>3 DEF Next

(* What an author packs comes back, every path and every byte, exactly if it  *)
(* is within the total and JSZip rewrites no name of it: for any files, names *)
(* and limits, packZip checking neither.                                      *)
THEOREM PackedFilesComeBack == Spec => []WrittenIsRead
  <1>1. Init => PackInv
    BY DEF Init, PackInv
  <1>2. PackInv => WrittenIsRead
    <2> SUFFICES ASSUME PackInv, packed # Null, Read
                 PROVE  unpacked.ok /\ unpacked.files = packed
                            <=> /\ TotalBytes(packed) <= Limits.maxTotalBytes
                                /\ \A path \in DOMAIN packed :
                                       Resolve(path) = path /\ ~IsDirName(path)
      BY DEF WrittenIsRead
    <2>1. unpacked # Refused(Null)
      BY DEF Read, Refused
    <2>2. unpacked = UnpackZip(archive, Limits) /\ PackedOf(archive, packed)
      BY <2>1 DEF PackInv
    <2> QED BY <2>2, GivenBack
  <1> QED BY <1>1, <1>2, PackInvStep, PTL DEF Spec

-----------------------------------------------------------------------------
(* The directory a run leaves behind *)

\* The next path is one of those left.
LEMMA NextIsPending ==
    ASSUME NEW paths, paths \subseteq Paths, paths # {}
    PROVE  NextOf(paths) \in paths
  <1> DEFINE S == {i \in DOMAIN PathOrder : PathOrder[i] \in paths}
  <1>1. S \subseteq Nat /\ S # {}
    BY PathOrderAssumption
  <1>2. PICK n \in S : \A m \in S : n <= m
    <2> HIDE DEF S
    <2> QED BY <1>1, LeastNatural
  <1>3. \E i \in DOMAIN PathOrder :
            /\ PathOrder[i] \in paths
            /\ \A j \in DOMAIN PathOrder : PathOrder[j] \in paths => i <= j
    BY <1>2
  <1> QED BY <1>3 DEF NextOf

\* What unpackZip returns are files under paths.
LEMMA FilesHavePaths ==
    ASSUME NEW bytes, IsArchive(bytes), UnpackZip(bytes, Limits).ok
    PROVE  DOMAIN UnpackZip(bytes, Limits).files \subseteq Paths
  <1> DEFINE d == Directory(bytes)
  <1>1. /\ Admitted(bytes)
        /\ UnpackZip(bytes, Limits) = Extract(d, Limits)
        /\ Extract(d, Limits).ok
    BY DEF UnpackZip, Admitted, Refused, ScanAdmits
  <1>2. DOMAIN UnpackZip(bytes, Limits).files = ZipFiles(d) /\ ZipFiles(d) \subseteq Expected(d)
    BY <1>1, ExtractedKeys
  <1>3. Expected(d) \subseteq Paths
    BY <1>1, AdmittedEntries DEF Expected
  <1> QED BY <1>2, <1>3

Files == DOMAIN unpacked.files

\* While files are written: those done are whole and do not stand in each other's
\* way, and in a directory that was empty there is nothing else.
Progress ==
    /\ pending \subseteq Files /\ Files \subseteq Paths
    /\ \A path \in Files \ pending :
           path \in DOMAIN target /\ Whole(path) /\ ~Suspicious(path)
    /\ \A path, other \in Files \ pending : path # other => ~Below(path, other)
    /\ ~force => DOMAIN before = {}
    /\ DOMAIN before = {} => DOMAIN target = Files \ pending

DirectoryInv ==
    /\ phase \in {"called", "opened", "writing"} => exit = Null
    /\ phase \in {"called", "opened"} => target = before
    /\ phase \in {"opened", "writing"} =>
           unpacked.ok /\ OpenRefusal(unpacked.files) = Null
    /\ phase = "writing" => Progress
    /\ OthersUntouched
    /\ OneCapsuleInDirectory
    /\ ExitSaysExtracted

LEMMA DirectoryInit == Init => DirectoryInv
  BY ExitCodesAssumption
     DEF Init, DirectoryInv, OthersUntouched, OneCapsuleInDirectory, ExitSaysExtracted, Refused

\* As long as the files are not touched, only the verdict on the run changes.
LEMMA DirectoryUntouched ==
    ASSUME DirectoryInv, UNCHANGED <<target, before, force, unpacked>>
    PROVE  OthersUntouched' /\ OneCapsuleInDirectory'
  BY DEF DirectoryInv, OthersUntouched, OneCapsuleInDirectory, Whole, InPart, Folder

LEMMA StartKeeps ==
    ASSUME NEW bytes, NEW files, NEW forced, Start(bytes, files, forced)
    PROVE  DirectoryInv'
  <1>1. target' = target /\ before' = target /\ exit' = Null /\ phase' = "called"
    BY DEF Start
  <1> QED
    BY <1>1, ExitCodesAssumption
       DEF DirectoryInv, OthersUntouched, OneCapsuleInDirectory, ExitSaysExtracted

LEMMA OpenKeeps ==
    ASSUME DirectoryInv, Open
    PROVE  DirectoryInv'
  <1>1. target' = before' /\ exit \in {Null} /\ phase' \in {"opened", "idle"}
    BY DEF Open, DirectoryInv, Exit
  <1>2. OthersUntouched' /\ OneCapsuleInDirectory'
    BY <1>1 DEF OthersUntouched, OneCapsuleInDirectory
  <1>3. CASE phase' = "opened"
    <2>1. exit' = Null /\ unpacked'.ok /\ OpenRefusal(unpacked'.files) = Null
      BY <1>1, <1>3 DEF Open, Exit
    <2> QED
      BY <1>1, <1>2, <1>3, <2>1, ExitCodesAssumption DEF DirectoryInv, ExitSaysExtracted
  <1>4. CASE phase' = "idle"
    <2>1. exit' = 2 /\ (unpacked'.ok => OpenRefusal(unpacked'.files) # Null)
      BY <1>4 DEF Open, Exit
    <2> QED
      BY <1>1, <1>2, <1>4, <2>1 DEF DirectoryInv, ExitSaysExtracted
  <1> QED BY <1>1, <1>3, <1>4

LEMMA InspectKeeps ==
    ASSUME ReadInv, DirectoryInv, Inspect
    PROVE  DirectoryInv'
  <1>1. /\ phase = "opened" /\ target = before /\ exit = Null
        /\ unpacked.ok /\ OpenRefusal(unpacked.files) = Null
        /\ UNCHANGED <<target, before, force, unpacked>>
    BY DEF Inspect, DirectoryInv
  <1>2. OthersUntouched' /\ OneCapsuleInDirectory'
    BY <1>1, DirectoryUntouched
  <1>3. CASE DOMAIN target # {} /\ ~force
    <2>1. exit' = 2 /\ phase' = "idle" /\ DOMAIN before' # {}
      BY <1>1, <1>3 DEF Inspect, Exit
    <2> QED
      BY <1>2, <2>1 DEF DirectoryInv, ExitSaysExtracted
  <1>4. CASE ~(DOMAIN target # {} /\ ~force)
    <2>1. exit' = Null /\ phase' = "writing" /\ pending' = Files'
      BY <1>1, <1>4 DEF Inspect, Files
    <2>2. Files' \subseteq Paths
      BY <1>1, FilesHavePaths DEF ReadInv, Files
    <2>3. Progress'
      BY <1>1, <1>4, <2>1, <2>2 DEF Progress
    <2> QED
      BY <1>1, <1>2, <2>1, <2>3, ExitCodesAssumption DEF DirectoryInv, ExitSaysExtracted
  <1> QED BY <1>3, <1>4

\* The path to be written, where it is refused: the capsule is at fault.
LEMMA RefusedPath ==
    ASSUME Progress, NEW path \in pending, Suspicious(path) \/ Obstructed(path),
           DOMAIN before = {}
    PROVE  Unwritable(unpacked.files)
  <1>1. CASE Suspicious(path)
    BY <1>1 DEF Unwritable, Progress, Files
  <1>2. CASE Obstructed(path)
    <2>1. PICK other \in DOMAIN target : Below(path, other) \/ Below(other, path)
      BY <1>2 DEF Obstructed
    <2>2. other \in Files /\ other # path /\ path \in Files
      BY <2>1 DEF Progress
    <2> QED BY <2>1, <2>2 DEF Unwritable, Files
  <1> QED BY <1>1, <1>2

LEMMA WriteKeeps ==
    ASSUME DirectoryInv, phase = "writing", NEW path \in pending,
           ~Suspicious(path), ~Obstructed(path), Write(path),
           UNCHANGED <<before, force, unpacked, phase>>
    PROVE  DirectoryInv'
  <1>1. /\ Progress /\ exit' = Null
        /\ unpacked.ok /\ OpenRefusal(unpacked.files) = Null
    BY DEF DirectoryInv, Write
  <1>2. /\ DOMAIN target' = {path} \cup DOMAIN target
        /\ target'[path] = unpacked.files[path]
        /\ \A other \in DOMAIN target \ {path} : target'[other] = target[other]
    <2>1. target' = Over(File(path, unpacked.files[path]), target)
      BY DEF Write
    <2> QED BY <2>1 DEF Over, File
  <1>3. /\ pending' = pending \ {path}
        /\ Files' = Files /\ path \in Files
        /\ Files' \ pending' = (Files \ pending) \cup {path}
    BY <1>1 DEF Write, Files, Progress
  <1>4. Whole(path)' /\ \A other \in Files \ pending : Whole(other)'
    BY <1>1, <1>2, <1>3 DEF Whole, Files, Progress
  <1>5. \A other \in Files \ pending : ~Below(path, other) /\ ~Below(other, path)
    BY <1>1 DEF Obstructed, Progress
  <1>6. Progress'
    <2>1. /\ pending' \subseteq Files' /\ Files' \subseteq Paths
          /\ \A other \in Files' \ pending' :
                 other \in DOMAIN target' /\ Whole(other)' /\ ~Suspicious(other)
          /\ \A one, other \in Files' \ pending' : one # other => ~Below(one, other)
      BY <1>1, <1>2, <1>3, <1>4, <1>5 DEF Progress
    <2>2. /\ ~force' => DOMAIN before' = {}
          /\ DOMAIN before' = {} => DOMAIN target' = Files' \ pending'
      BY <1>1, <1>2, <1>3 DEF Progress
    <2> QED BY <2>1, <2>2 DEF Progress
  <1>7. OthersUntouched'
    BY <1>2, <1>3 DEF DirectoryInv, OthersUntouched, Files
  <1>8. OneCapsuleInDirectory'
    BY <1>6 DEF OneCapsuleInDirectory, Progress
  <1> QED
    BY <1>1, <1>6, <1>7, <1>8, ExitCodesAssumption DEF DirectoryInv, ExitSaysExtracted

LEMMA WriteNextKeeps ==
    ASSUME DirectoryInv, WriteNext
    PROVE  DirectoryInv'
  <1> DEFINE path == NextOf(pending)
  <1>1. Progress /\ phase = "writing" /\ path \in pending
    BY NextIsPending DEF WriteNext, DirectoryInv, Progress
  <1>2. CASE Suspicious(path) \/ Obstructed(path)
    <2>1. /\ exit' = 2 /\ phase' = "idle"
          /\ UNCHANGED <<target, before, force, unpacked>>
      BY <1>2 DEF WriteNext, Exit
    <2>2. DOMAIN before' = {} => Unwritable(unpacked'.files)
      BY <1>1, <1>2, <2>1, RefusedPath
    <2>3. OthersUntouched' /\ OneCapsuleInDirectory'
      BY <2>1, DirectoryUntouched
    <2> QED BY <2>1, <2>2, <2>3 DEF DirectoryInv, ExitSaysExtracted
  <1>3. CASE ~(Suspicious(path) \/ Obstructed(path))
    <2>1. Write(path) /\ UNCHANGED <<before, force, unpacked, phase>>
      BY <1>3 DEF WriteNext
    <2> HIDE DEF path
    <2> QED BY <1>1, <1>3, <2>1, WriteKeeps
  <1> QED BY <1>2, <1>3

\* What is left of a file is the only thing that is not whole.
LEMMA WriteFailsKeeps ==
    ASSUME DirectoryInv, WriteFails
    PROVE  DirectoryInv'
  <1> PICK path : path = NextOf(pending)
    OBVIOUS
  <1>1. /\ Progress /\ path \in pending
        /\ unpacked' = unpacked /\ before' = before /\ force' = force
        /\ \/ exit' = 2 /\ phase' = "failed"
           \/ exit' = Null /\ phase' = "idle"
    BY NextIsPending DEF WriteFails, DirectoryInv, Progress
  <1>2. PICK left \in Remains(path) : target' = Over(left, target)
    BY DEF WriteFails
  <1>3. /\ DOMAIN target' = DOMAIN left \cup DOMAIN target
        /\ \A other \in DOMAIN target \ DOMAIN left : target'[other] = target[other]
        /\ \A other \in DOMAIN left : target'[other] = left[other]
    BY <1>2 DEF Over
  <1>4. \E name : /\ DOMAIN left \subseteq {name}
                  /\ name \in DOMAIN left => InPart(name)'
                  /\ name \in DOMAIN left => name \in Files \/ name \notin DOMAIN target
    <2>1. path \in Files
      BY <1>1 DEF Progress
    <2>2. CASE left = <<>>
      <3>1. DOMAIN left = {}
        BY <2>2
      <3> QED BY <3>1
    <2>3. CASE left \in {File(f, <<>>) : f \in {Folder(path)} \ ({<<"">>} \cup DOMAIN target)}
      <3>1. DOMAIN left = {Folder(path)} /\ Folder(path) \notin DOMAIN target
        BY <2>3 DEF File
      <3>2. InPart(Folder(path))'
        BY <1>1, <2>1 DEF InPart, Files, Folder
      <3> QED BY <3>1, <3>2
    <2>4. CASE left \in {File(path, SubSeq(unpacked.files[path], 1, n)) :
                             n \in 0..Len(unpacked.files[path])}
      <3>1. PICK n \in 0..Len(unpacked.files[path]) :
                left = File(path, SubSeq(unpacked.files[path], 1, n))
        BY <2>4
      <3>2. DOMAIN left = {path} /\ left[path] = SubSeq(unpacked.files[path], 1, n)
        BY <3>1 DEF File
      <3>3. target'[path] = SubSeq(unpacked.files[path], 1, n)
        BY <1>3, <3>2
      <3>4. InPart(path)'
        BY <1>1, <2>1, <3>3 DEF InPart, Files
      <3> QED BY <2>1, <3>2, <3>4
    <2> QED BY <1>2, <2>2, <2>3, <2>4 DEF Remains
  <1>5. PICK name : /\ DOMAIN left \subseteq {name}
                    /\ name \in DOMAIN left => InPart(name)'
                    /\ name \in DOMAIN left => name \in Files \/ name \notin DOMAIN target
    BY <1>4
  <1>6. OthersUntouched'
    BY <1>1, <1>3, <1>5 DEF DirectoryInv, OthersUntouched, Files
  <1>7. OneCapsuleInDirectory'
    <2> SUFFICES ASSUME ~force', target' # before'
                 PROVE  /\ DOMAIN before' = {}
                        /\ \A other \in DOMAIN target' : Whole(other)' \/ InPart(other)'
                        /\ \A other \in DOMAIN target' : other = name \/ Whole(other)'
      BY DEF OneCapsuleInDirectory
    <2>1. DOMAIN before = {} /\ DOMAIN target = Files \ pending
      BY <1>1 DEF Progress
    <2>2. \A other \in DOMAIN target \ DOMAIN left : Whole(other)'
      BY <1>1, <1>3, <2>1 DEF Progress, Whole, Files
    <2> QED BY <1>1, <1>3, <1>5, <2>1, <2>2
  <1> QED
    BY <1>1, <1>6, <1>7, ExitCodesAssumption DEF DirectoryInv, ExitSaysExtracted

LEMMA FinishKeeps ==
    ASSUME DirectoryInv, Finish
    PROVE  DirectoryInv'
  <1>1. /\ Progress /\ pending = {} /\ OpenRefusal(unpacked.files) = Null
        /\ exit' = 0 /\ phase' = "idle"
        /\ UNCHANGED <<target, before, force, unpacked>>
    BY DEF Finish, DirectoryInv, Exit
  <1>2. OthersUntouched' /\ OneCapsuleInDirectory'
    BY <1>1, DirectoryUntouched
  <1>3. ~Unwritable(unpacked.files)
    BY <1>1 DEF Unwritable, Progress, Files
  <1>4. \A path \in Files : path \in DOMAIN target /\ Whole(path)
    BY <1>1 DEF Progress
  <1>5. ~force => DOMAIN target = Files
    BY <1>1 DEF Progress
  <1>6. ExitSaysExtracted'
    BY <1>1, <1>3, <1>4, <1>5 DEF ExitSaysExtracted, Files, Whole
  <1> QED BY <1>1, <1>2, <1>6 DEF DirectoryInv

LEMMA KillKeeps ==
    ASSUME DirectoryInv, Kill
    PROVE  DirectoryInv'
  <1>1. /\ exit' = Null /\ phase' = "idle"
        /\ UNCHANGED <<target, before, force, unpacked>>
    BY DEF Kill, Exit
  <1>2. OthersUntouched' /\ OneCapsuleInDirectory'
    BY <1>1, DirectoryUntouched
  <1> QED BY <1>1, <1>2, ExitCodesAssumption DEF DirectoryInv, ExitSaysExtracted

LEMMA DirectoryStep == ReadInv /\ DirectoryInv /\ [Next]_vars => DirectoryInv'
  <1> SUFFICES ASSUME ReadInv, DirectoryInv, [Next]_vars PROVE DirectoryInv'
    OBVIOUS
  <1>1. CASE StartAny
    BY <1>1, StartKeeps DEF StartAny
  <1>2. CASE UNCHANGED vars
    BY <1>2
       DEF vars, DirectoryInv, OthersUntouched, OneCapsuleInDirectory, ExitSaysExtracted,
           Progress, Files, Whole, InPart
  <1> QED
    BY <1>1, <1>2, OpenKeeps, InspectKeeps, WriteNextKeeps, WriteFailsKeeps, FinishKeeps,
       KillKeeps DEF Next

\* Whatever archives arrive and however often runs are killed or their writes
\* fail: without --force a directory holds files of one capsule, and exit 0 is
\* said only of all of them.
THEOREM DirectoriesHoldOneCapsule == Spec => []ExtractedIsTheCapsule
  <1>1. DirectoryInv => ExtractedIsTheCapsule
    BY DEF DirectoryInv, ExtractedIsTheCapsule
  <1>2. Init => ReadInv /\ DirectoryInv
    BY ReadInvInit, DirectoryInit
  <1>3. ReadInv /\ DirectoryInv /\ [Next]_vars => ReadInv' /\ DirectoryInv'
    BY ReadInvStep, DirectoryStep
  <1> QED BY <1>1, <1>2, <1>3, PTL DEF Spec

=============================================================================

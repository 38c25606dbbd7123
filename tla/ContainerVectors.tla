-------------------------- MODULE ContainerVectors --------------------------
(***************************************************************************)
(* The malformed-layout vectors: the archives that                         *)
(* generate-malformed-fixtures.mjs derives from a clean capsule, and the   *)
(* reason for which each must be refused (Null where the capsule opens and *)
(* only its verification fails).                                           *)
(***************************************************************************)
EXTENDS ExtractCommand

ChainPath   == <<"chain", "events.jsonl">>
ProgramPath == <<"program.md">>

Body == <<"b">>

CleanEntries ==
    <<Stored(ChainPath, Body), Stored(ManifestPath, Body), Stored(ProgramPath, Body),
      Stored(EnvelopePath, Body)>>

RawZip(entries) == <<End(entries)>>

Without(path) == RawZip(SelectSeq(CleanEntries, LAMBDA e : e.name # path))

\* Every entry of that name replaced by f(e).
WithEntry(path, f(_)) ==
    RawZip([i \in DOMAIN CleanEntries |->
               IF CleanEntries[i].name = path THEN f(CleanEntries[i]) ELSE CleanEntries[i]])

WithData(path, bytes) == WithEntry(path, LAMBDA e : Stored(path, bytes))

And(e) == RawZip(Append(CleanEntries, e))

Vector(name, archived, reason) == [name |-> name, archive |-> archived, reason |-> reason]

LayoutVectors ==
    {Vector("missing-manifest", Without(ManifestPath), "missing_required_file"),
     Vector("missing-envelope", Without(EnvelopePath), "missing_required_file"),
     Vector("invalid-manifest-json", WithData(ManifestPath, NotJson), "invalid_json"),
     Vector("missing-chain", Without(ChainPath), Null),
     Vector("invalid-chain-json", WithData(ChainPath, NotJson), Null),
     Vector("duplicate-entry",
            RawZip(InsertAt(CleanEntries, 4, Stored(ProgramPath, <<"#", "d">>))),
            "duplicate_entry"),
     Vector("traversal-path", And(Stored(<<"..", "escape.txt">>, Body)), "unsafe_path"),
     Vector("absolute-path", And(Stored(<<"", "absolute.txt">>, Body)), "unsafe_path"),
     Vector("compressed-entry",
            WithEntry(ProgramPath, LAMBDA e : [e EXCEPT !.method = "DEFLATE"]),
            "unsupported_compression"),
     Vector("symlink-entry", And([Stored(<<"link">>, Body) EXCEPT !.link = TRUE]),
            "symlink_entry"),
     Vector("dir-bit-smuggle", And([Stored(<<"smuggled.md">>, Body) EXCEPT !.dirBit = TRUE]),
            "directory_marker_shape"),
     Vector("dir-marker-with-content",
            And([Stored(<<"notes", "">>, Body) EXCEPT !.dirBit = TRUE]),
            "directory_marker_shape"),
     Vector("local-name-mismatch",
            And([Stored(<<"notes.md">>, Body) EXCEPT !.local = ProgramPath]),
            "local_central_name_mismatch")}

\* Every vector is refused for the recorded reason, or opens where it should.
LayoutVectorsReproduced ==
    Read =>
        \A v \in LayoutVectors :
            archive = v.archive =>
                v.reason = IF unpacked.ok THEN OpenRefusal(unpacked.files) ELSE unpacked.reason

=============================================================================

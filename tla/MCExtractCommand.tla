-------------------------- MODULE MCExtractCommand --------------------------
(***************************************************************************)
(* Small instances of ExtractCommand for TLC: archives with up to two      *)
(* entries of any shape beside the documents, end records of any shape,    *)
(* and what packZip writes, extracted twice into one directory.            *)
(***************************************************************************)
EXTENDS ContainerVectors

\* JSZip's utils.resolve: "." and empty segments go, ".." takes the one before.
MCResolve(path) ==
    LET step(done, i) ==
            IF path[i] = "." \/ (path[i] = "" /\ i \notin {1, Len(path)}) THEN done
            ELSE IF path[i] = ".." THEN IF done = <<>> THEN done ELSE Front(done)
            ELSE Append(done, path[i])
    IN  FoldLeftDomain(step, <<>>, path)

MCPathOrder ==
    <<<<"", "absolute.txt">>, <<"..", "escape.txt">>, <<"C:", "x">>, <<"a..b">>,
      <<"chain", "events.jsonl">>, <<"escape.txt">>, <<"link">>, <<"manifest.json">>, <<"notes">>, <<"notes", "">>,
      <<"notes", ".", "x">>, <<"notes", "x">>, <<"notes.md">>, <<"program.md">>,
      <<"provenance", "envelope.json">>, <<"smuggled.md">>, <<"x\\..">>, <<"z">>, <<"\\0">>>>

MCPaths == {MCPathOrder[i] : i \in DOMAIN MCPathOrder}

\* Segments that are not what they look like: a backslash with a parent after
\* it, and a NUL character.
MCParentInside == {"x\\.."}
MCNulSegments == {"\\0"}

MCNotJson == <<"{">>

MCLimits == [maxEntries |-> 5, maxTotalBytes |-> 4]

Documents == <<Stored(ManifestPath, Body), Stored(EnvelopePath, Body)>>

Names ==
    {<<"..", "escape.txt">>, <<"C:", "x">>, <<"x\\..">>, <<"\\0">>, <<"a..b">>, <<"notes">>, <<"notes", "">>, <<"notes", ".", "x">>,
     <<"notes", "x">>, <<"program.md">>}

\* Entries of one name, each member as it should be or not.
EntriesNamed(name) ==
    LET e == Stored(name, <<name[1]>>)
    IN  {e, Stored(name, <<"q", "r">>), Stored(name, <<>>)}
        \cup {[e EXCEPT !.local = other] : other \in Names \cup {Null}}
        \cup {[e EXCEPT !.method = "DEFLATE"], [e EXCEPT !.link = TRUE],
              [e EXCEPT !.dirBit = TRUE], [e EXCEPT !.size = 0], [e EXCEPT !.crcOk = FALSE],
              [Stored(name, <<>>) EXCEPT !.dirBit = TRUE]}

Few == {<<"notes">>, <<"notes", "">>, <<"program.md">>}

Directories ==
    {Documents}
    \cup {Documents \o <<e>> : e \in UNION {EntriesNamed(n) : n \in Names}}
    \cup {Documents \o <<e, f>> : e, f \in UNION {EntriesNamed(n) : n \in Few}}
    \cup {Documents \o <<Stored(m, <<"p">>), Stored(n, <<>>)>> : m, n \in Names}

\* End records that declare something else than there is.
OddEnds(entries) ==
    {[End(entries) EXCEPT !.exact = FALSE]}
    \cup {[End(entries) EXCEPT !.total = n] : n \in {Len(entries) - 1, Len(entries) + 1, CountModulus - 1}}
    \cup {[End(entries) EXCEPT !.size = n] : n \in {Len(entries) - 1, Len(entries) + 1}}
    \cup {[End(Append(entries, Junk)) EXCEPT !.total = Len(entries)],
          [End(Append(entries, Junk)) EXCEPT !.total = Len(entries), !.size = Len(entries)]}

MCArchives ==
    {<<>>}
    \cup {RawZip(d) : d \in Directories}
    \cup {<<end>> : end \in OddEnds(Documents)}
    \cup {<<End(Documents), end>> : end \in OddEnds(CleanEntries) \cup {End(CleanEntries)}}
    \cup {RawZip(CleanEntries \o Documents)}
    \cup {v.archive : v \in LayoutVectors}

\* What authors pack: the documents and any two other files.
MCFileMaps ==
    {(ManifestPath :> Body) @@ (EnvelopePath :> Body) @@ [n \in ns |-> bytes] :
        ns \in {S \in SUBSET (Names \cup {<<"notes.md">>, <<"z">>}) : Cardinality(S) <= 2},
        bytes \in {<<"p">>, <<>>}}
    \cup {[n \in {ManifestPath, EnvelopePath, <<"notes.md">>} |-> <<"p", "q">>]}
    \cup {[n \in MCPaths \ {<<"", "absolute.txt">>, <<"..", "escape.txt">>} |-> <<>>]}

MCTargets == {<<>>, <<"notes", "x">> :> <<"s">>, <<"z">> :> <<"s">>}

\* What is extracted next: capsules an author packed.
Again ==
    {RawZip(Documents), RawZip(CleanEntries), RawZip(Documents \o <<Stored(<<"notes">>, <<"q">>)>>),
     RawZip(<<Stored(<<"a..b">>, Body)>> \o Documents)}

MCNext ==
    \/ runs = 0 /\ StartAny
    \/ runs > 0 /\ \E bytes \in Again, forced \in BOOLEAN : Start(bytes, Null, forced)
    \/ Open \/ Inspect \/ WriteNext \/ WriteFails \/ Finish \/ Kill

MCSpec == Init /\ [][MCNext]_vars

=============================================================================

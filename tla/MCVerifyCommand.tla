--------------------------- MODULE MCVerifyCommand ---------------------------
(***************************************************************************)
(* VerifyCommand over the generated capsules: the calls of the vectors, and*)
(* command lines that cross files, demands and supplied predecessors; and  *)
(* RewrapCommand over the same files, one argument varied at a time.       *)
(***************************************************************************)
EXTENDS SpecVectors, RewrapCommand

MCDisk == Fixtures @@ [other |-> [notes |-> NotACapsule]]

InLine(names) == [i \in DOMAIN names |-> <<"lineage", names[i]>>]

\* Genealogies with gaps, repeats, strangers and files that are no capsules.
MCPredecessorLists ==
    {<<>>} \cup {InLine(names) : names \in
        {<<"alice">>, <<"alice", "bob">>, <<"bob", "alice">>, <<"alice", "alice">>,
         <<"tampered_alice">>, <<"later_seal", "alice">>, <<"dana">>, <<"alice", "dana">>,
         <<"encrypted">>, <<"alice", "missing">>, <<"alt_profile">>}}
    \cup {<< <<"lineage", "alice">>, <<"other", "notes">> >>}

MCLineageFiles ==
    {<<"lineage", f>> : f \in {"alice", "bob", "carol", "merge", "of_alt_profile", "v06_inert",
                               "empty_array", "member"}}

MCOtherFiles ==
    {<<"result_vocabulary", f>> : f \in DOMAIN ResultVocabulary}
    \cup {<<"profile_declaration", "vendor">>, <<"profile_declaration", "mismatch_value">>,
          <<"version_compat", "v06">>, <<"version_compat", "not_a_version">>,
          <<"signer_set", "add">>, <<"signer_set", "absent">>,
          <<"other", "notes">>, <<"lineage", "missing">>, Null}

Command(file, allowlist, accept, supply, json) ==
    [caller |-> "cli", file |-> file, allowlist |-> allowlist, accept |-> accept,
     predecessors |-> supply, json |-> json]

MCCalls ==
    VectorCalls
    \cup {Command(f, a, {}, p, j) :
             f \in MCLineageFiles, a \in {{}, {"alice"}, {"bob", "dana"}},
             p \in MCPredecessorLists, j \in BOOLEAN}
    \cup {Command(f, a, v, p, j) :
             f \in MCOtherFiles,
             a \in {{}, {"originator"}, {"stranger", "tamper"}, {"originator", Malformed}},
             v \in {{}, {"0.6"}, {"0.6", "0.7"}, {Malformed}},
             p \in {<<>>, InLine(<<"alice">>)}, j \in BOOLEAN}

-----------------------------------------------------------------------------
MCRewrapFiles ==
    {<<"lineage", f>> : f \in DOMAIN Lineage}
    \cup {<<"tamper_detection", f>> : f \in DOMAIN TamperDetection}
    \cup {<<"version_compat", f>> : f \in DOMAIN VersionCompat}
    \cup {<<"semantic_binding", f>> : f \in DOMAIN SemanticBinding}
    \cup {<<"other", "notes">>, <<"lineage", "missing">>, Null}

HandOff(file) ==
    [file |-> file, out |-> <<"other", "successor">>, key |-> "carol", participants |-> {},
     custodyActor |-> HostActor, time |-> "t1", allowInvalid |-> FALSE, force |-> FALSE]

MCRewraps ==
    LET handOffs == {HandOff(<<"lineage", f>>) : f \in {"alice", "template", "tampered_alice"}}
    IN  {HandOff(f) : f \in MCRewrapFiles}
        \cup {[HandOff(f) EXCEPT !.allowInvalid = TRUE] : f \in MCRewrapFiles}
        \cup {[h EXCEPT !.out = out, !.force = force] :
                  h \in handOffs, force \in BOOLEAN,
                  out \in {<<"other", "notes">>, <<"lineage", "alice">>, Null}}
        \cup {[h EXCEPT !.key = key] : h \in handOffs, key \in {"alice", Null, Absent, Malformed}}
        \cup {[h EXCEPT !.time = time] : h \in handOffs, time \in {"t0", Malformed}}
        \cup {[h EXCEPT !.participants = declared, !.custodyActor = actor] :
                  h \in handOffs, declared \in {{}, {"human:bob"}, {"robot:origin"}},
                  actor \in {HostActor, "human:bob", "human:dana", Null}}

MCStrangers == {Dana}

=============================================================================

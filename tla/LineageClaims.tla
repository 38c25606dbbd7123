---------------------------- MODULE LineageClaims ----------------------------
(***************************************************************************)
(* Lineage linkage (lineage.js): what one supplied artifact says about one *)
(* declared entry.                                                         *)
(*                                                                         *)
(* A supplied artifact is the record classifyArtifact makes of it:         *)
(*   kind        "verifiable", "encrypted", "unsupported_version",         *)
(*               "unsupported_profile" or "unreadable";                    *)
(*   id          the recomputed capsule id, the CLAIMED one for the kinds  *)
(*               nothing can be recomputed for;                            *)
(*   mh          the recomputed manifest hash;                             *)
(*   entry_hash  the other chain anchor (and stands for format_version,    *)
(*               originator key and first event hash: the members besides  *)
(*               id and mh in which declaration and artifact can differ);  *)
(*   ok          whether it passes its own verification;                   *)
(*   declares    the entries it declares itself: empty when it declares    *)
(*               none, in an era without lineage, or a malformed list.     *)
(* A member nothing could be computed for has a value no entry declares.   *)
(***************************************************************************)
EXTENDS Naturals, Sequences, FiniteSets

CONSTANT Values    \* capsule ids and hashes

Declared == [capsule_id : Values, manifest_hash : Values, entry_hash : Values]

Kinds == {"verifiable", "encrypted", "unsupported_version", "unsupported_profile",
          "unreadable"}

Artifacts == [kind : Kinds, id : Values, mh : Values, entry_hash : Values,
              ok : BOOLEAN, declares : Seq(Declared)]

Statuses == {"unverified", "verified", "mismatch", "predecessor_invalid",
             "predecessor_unverifiable"}

\* makeEntry; artifact and from are indices into the supplied pool, 0 for none:
\* what resolved the entry, and whose declaration it is (0: the subject's).
MakeEntry(declared, hop, from) ==
    [capsule_id    |-> declared.capsule_id,
     manifest_hash |-> declared.manifest_hash,
     entry_hash    |-> declared.entry_hash,
     hop           |-> hop,
     status        |-> "unverified",
     artifact      |-> 0,
     from          |-> from]

\* equalityDiffs is empty.
Exact(entry, record) ==
    /\ entry.capsule_id = record.id
    /\ entry.manifest_hash = record.mh
    /\ entry.entry_hash = record.entry_hash

StatusFor(entry, record) ==
    CASE record.kind # "verifiable" -> "predecessor_unverifiable"
      [] ~record.ok                 -> "predecessor_invalid"
      [] ~Exact(entry, record)      -> "mismatch"
      [] OTHER                      -> "verified"

\* Mutation of Frontier: the hop is not counted.
FrontierAtHopOne(record, hop, from) ==
    [k \in DOMAIN record.declares |-> MakeEntry(record.declares[k], 1, from)]

\* The artifact's own declaration joins the frontier, one hop further.
Frontier(record, hop, from) ==
    [k \in DOMAIN record.declares |-> MakeEntry(record.declares[k], hop, from)]

=============================================================================

----------------------------- MODULE LineageWalk -----------------------------
(***************************************************************************)
(* The linkage walk of evaluateLineage (lineage.js), one loop iteration at *)
(* a time: passes over the supplied artifacts in the order the host gave   *)
(* them, each matched at most once against the entries declared so far,    *)
(* until a pass changes nothing.                                           *)
(***************************************************************************)
EXTENDS LineageClaims

CONSTANTS
    Pools,           \* the sequences of artifacts a host may supply
    Declarations,    \* the well-formed declarations a subject may carry
    HopCap           \* options.lineageHopCap

ASSUME HopCapAssumption == HopCap \in Nat /\ HopCap >= 1

ASSUME InputsAssumption ==
    /\ Pools \subseteq Seq(Artifacts)
    /\ Declarations \subseteq Seq(Declared)

VARIABLES
    pool,        \* records, in the order supplied
    entries,     \* lineage.entries
    assigned,    \* the records with assigned = true, by index
    walked,      \* manifest hashes whose declaration joined the frontier
    cursor,      \* the record the current pass is at
    changed,     \* whether this pass resolved anything
    done         \* the walk has returned

vars == <<pool, entries, assigned, walked, cursor, changed, done>>

-----------------------------------------------------------------------------
Init ==
    /\ pool \in Pools
    /\ \E declared \in Declarations :
           entries = [i \in DOMAIN declared |-> MakeEntry(declared[i], 1, 0)]
    /\ assigned = {}
    /\ walked = {}
    /\ cursor = 1
    /\ changed = FALSE
    /\ done = FALSE

\* Mutation of Open: a settled entry can be matched again.
OpenOrSettled(record) == {i \in DOMAIN entries : entries[i].capsule_id = record.id}

Open(record) ==
    {i \in DOMAIN entries :
        entries[i].status = "unverified" /\ entries[i].capsule_id = record.id}

\* The pair match comes first; an artifact that only shares the identity takes
\* what is left.  Artifacts whose rules are unavailable match by claimed id.
Candidates(record) ==
    LET pair == {i \in Open(record) : entries[i].manifest_hash = record.mh}
    IN  IF record.kind = "verifiable" /\ pair # {} THEN pair ELSE Open(record)

AtRecord == ~done /\ cursor \in DOMAIN pool

\* Assigned, unreadable, or matching no open entry (yet).
Skip ==
    /\ AtRecord
    /\ \/ cursor \in assigned
       \/ pool[cursor].kind = "unreadable"
       \/ Candidates(pool[cursor]) = {}
    /\ cursor' = cursor + 1
    /\ UNCHANGED <<pool, entries, assigned, walked, changed, done>>

\* Mutation of JoinsFrontier: sharing the identity is enough.
JoinsFrontierByIdentity(entry, record) ==
    record.kind = "verifiable" /\ record.mh \notin walked

\* Mutation of JoinsFrontier: a declaration is walked again with every copy.
JoinsFrontierAgain(entry, record) ==
    record.kind = "verifiable" /\ entry.manifest_hash = record.mh

\* The declared artifact itself, and its declaration not walked before.
JoinsFrontier(entry, record) ==
    /\ record.kind = "verifiable"
    /\ entry.manifest_hash = record.mh
    /\ record.mh \notin walked

Match ==
    /\ AtRecord
    /\ cursor \notin assigned
    /\ pool[cursor].kind # "unreadable"
    /\ \E i \in Candidates(pool[cursor]) :
          LET record == pool[cursor]
              entry  == entries[i]
              resolved == [entries EXCEPT
                              ![i] = [@ EXCEPT !.status = StatusFor(entry, record),
                                               !.artifact = cursor]]
          IN  /\ \A j \in Candidates(record) : i <= j
              /\ IF JoinsFrontier(entry, record) /\ entry.hop + 1 <= HopCap
                 THEN entries' = resolved \o Frontier(record, entry.hop + 1, cursor)
                 ELSE entries' = resolved
              /\ walked' = IF JoinsFrontier(entry, record)
                           THEN walked \cup {record.mh} ELSE walked
    /\ assigned' = assigned \cup {cursor}
    /\ changed' = TRUE
    /\ cursor' = cursor + 1
    /\ UNCHANGED <<pool, done>>

\* Mutations of NextPass: the index is reset one too low, and changed not at all.
NextPassFromZero ==
    /\ ~done
    /\ cursor \notin DOMAIN pool
    /\ changed
    /\ cursor' = 0
    /\ changed' = FALSE
    /\ UNCHANGED <<pool, entries, assigned, walked, done>>

NextPassUnreset ==
    /\ ~done
    /\ cursor \notin DOMAIN pool
    /\ changed
    /\ cursor' = 1
    /\ UNCHANGED <<pool, entries, assigned, walked, changed, done>>

NextPass ==
    /\ ~done
    /\ cursor \notin DOMAIN pool
    /\ changed
    /\ cursor' = 1
    /\ changed' = FALSE
    /\ UNCHANGED <<pool, entries, assigned, walked, done>>

\* Mutation of Return: one pass over the pool is enough.
ReturnAfterOnePass ==
    /\ ~done
    /\ cursor \notin DOMAIN pool
    /\ done' = TRUE
    /\ UNCHANGED <<pool, entries, assigned, walked, cursor, changed>>

Return ==
    /\ ~done
    /\ cursor \notin DOMAIN pool
    /\ ~changed
    /\ done' = TRUE
    /\ UNCHANGED <<pool, entries, assigned, walked, cursor, changed>>

Next == Skip \/ Match \/ NextPass \/ Return

\* One async function with no other writer: it runs until it returns.
Spec == Init /\ [][Next]_vars /\ WF_vars(Next)

-----------------------------------------------------------------------------
(* The report *)

Within(n) == {i \in DOMAIN entries : entries[i].hop <= n}

\* Mutation of VerifiedDepth: the deepest verified entry, whatever is before it.
DeepestVerified ==
    CHOOSE n \in 0..Len(entries) :
        /\ \A i \in DOMAIN entries : entries[i].status = "verified" => entries[i].hop <= n
        /\ n # 0 => \E i \in DOMAIN entries :
                        entries[i].status = "verified" /\ entries[i].hop = n

\* verifiedDepth: the loop over hop, stopping at a hop nobody declared.
VerifiedDepth ==
    CHOOSE n \in 0..Len(entries) :
        /\ \A h \in 1..n : \E i \in DOMAIN entries : entries[i].hop = h
        /\ \A i \in Within(n) : entries[i].status = "verified"
        /\ \/ ~\E i \in DOMAIN entries : entries[i].hop = n + 1
           \/ \E i \in Within(n + 1) : entries[i].status # "verified"

-----------------------------------------------------------------------------
(* Properties *)

Entries == [capsule_id : Values, manifest_hash : Values, entry_hash : Values,
            hop : 1..HopCap, status : Statuses, artifact : Nat, from : Nat]

TypeOK ==
    /\ pool \in Pools
    /\ entries \in Seq(Entries)
    /\ assigned \subseteq DOMAIN pool
    /\ cursor \in 1..(Len(pool) + 1)
    /\ changed \in BOOLEAN
    /\ done \in BOOLEAN

\* The report is the abstract one: each entry is resolved once, by an artifact
\* that justifies its status, and entries are only ever appended.
Report == INSTANCE LineageReport

ImplementsReport == Report!Spec

\* No supplied file is counted for two entries, none is counted in secret, and
\* an entry is settled exactly when some file was spent on it.
OneEntryPerArtifact ==
    /\ \A i \in DOMAIN entries :
          entries[i].status = "unverified" <=> entries[i].artifact = 0
    /\ assigned = {entries[i].artifact : i \in DOMAIN entries} \ {0}
    /\ \A i, j \in DOMAIN entries :
          entries[i].artifact = entries[j].artifact /\ entries[i].artifact # 0 => i = j

\* "verified" is said of an entry only when a supplied artifact has all its
\* declared members and passes its own verification.
VerifiedIsExact ==
    \A i \in DOMAIN entries :
        entries[i].status = "verified" =>
            /\ entries[i].artifact # 0
            /\ Exact(entries[i], pool[entries[i].artifact])
            /\ pool[entries[i].artifact].kind = "verifiable"
            /\ pool[entries[i].artifact].ok

\* No hop is hearsay: a deeper entry is the declaration of a supplied artifact
\* whose manifest hash an entry one hop nearer to the subject committed to.
HopsAreFirstPerson ==
    \A i \in DOMAIN entries :
        IF entries[i].hop = 1 THEN entries[i].from = 0
        ELSE /\ entries[i].from # 0
             /\ \E j \in DOMAIN entries :
                   /\ entries[j].hop + 1 = entries[i].hop
                   /\ entries[j].artifact = entries[i].from
                   /\ entries[j].manifest_hash = pool[entries[i].from].mh
             /\ \E k \in DOMAIN pool[entries[i].from].declares :
                   /\ pool[entries[i].from].declares[k].capsule_id = entries[i].capsule_id
                   /\ pool[entries[i].from].declares[k].manifest_hash = entries[i].manifest_hash

\* Nothing supplied is left over that an open entry could still take.
NothingLeftToMatch ==
    done => \A k \in DOMAIN pool \ assigned :
                pool[k].kind # "unreadable" => Open(pool[k]) = {}

\* A depth is backed by bytes at every hop: some entry there is resolved by a
\* valid artifact, which the artifact verified one hop nearer declared itself.
DepthIsBacked ==
    done => \A h \in 1..VerifiedDepth : \E i \in DOMAIN entries :
                /\ entries[i].hop = h
                /\ entries[i].status = "verified"
                /\ h = 1 \/ \E j \in DOMAIN entries :
                                /\ entries[j].hop = h - 1
                                /\ entries[j].status = "verified"
                                /\ entries[j].artifact = entries[i].from

\* A declaration joins the report once, through one supplied artifact, however
\* many copies of it were supplied and by however many routes it is reached.
DeclarationsJoinOnce ==
    \A i, j \in DOMAIN entries :
        /\ entries[i].from # 0
        /\ entries[j].from # 0
        /\ pool[entries[i].from].mh = pool[entries[j].from].mh
        => entries[i].from = entries[j].from

\* What a host supplies without ambiguity is verified: a valid file that is
\* exactly what an entry declares, if no other file claims its identity and no
\* other entry cites it, settles that entry as verified, whatever the order of
\* the files and whichever pass first met the entry.
UnambiguousIsVerified ==
    done => \A i \in DOMAIN entries, k \in DOMAIN pool :
                /\ pool[k].kind = "verifiable" /\ pool[k].ok /\ Exact(entries[i], pool[k])
                /\ \A m \in DOMAIN pool \ {k} : pool[m].id # pool[k].id
                /\ \A j \in DOMAIN entries \ {i} : entries[j].capsule_id # entries[i].capsule_id
                => entries[i].status = "verified" /\ entries[i].artifact = k

\* What is left of the loops: a pass for every file not yet assigned, one more
\* if this pass changed something, and the rest of this pass.
StepsLeft ==
    IF done THEN 0
    ELSE 1 + (Len(pool) + 1 - cursor)
           + (Len(pool) + 1) * (Len(pool) - Cardinality(assigned) + (IF changed THEN 1 ELSE 0))

\* Every iteration brings the return nearer, although entries are added while
\* the loops run: for n files there are at most (n + 1) * (n + 1) of them,
\* whatever the files declare and however deep the hop cap lets them.
WalkIsBounded == [][StepsLeft' \in 0..(StepsLeft - 1)]_vars

\* The walk returns, for every pool.
WalkReturns == <>done

-----------------------------------------------------------------------------
(* What the documents say of the walk and the walk does not do *)

Cites(entry, record) ==
    /\ record.kind = "verifiable"
    /\ entry.capsule_id = record.id
    /\ entry.manifest_hash = record.mh

\* "A mismatched artifact is NOT the declared artifact and never contributes."
MismatchNeverContributes ==
    \A i \in DOMAIN entries :
        \A j \in DOMAIN entries :
            entries[j].artifact # 0 /\ entries[j].artifact = entries[i].from
                => entries[j].status # "mismatch"

\* "unverified - no bytes supplied for this entry."
UnverifiedMeansNoBytes ==
    done => \A i \in DOMAIN entries :
                entries[i].status = "unverified" =>
                    ~\E k \in DOMAIN pool : Cites(entries[i], pool[k])

\* Artifacts are "matched against declared entries by the recomputed pair": an
\* entry whose artifact was supplied is not spent on another one.
PairMatchDecides ==
    done => \A i \in DOMAIN entries, k \in DOMAIN pool :
                Cites(entries[i], pool[k]) /\ entries[i].artifact # 0
                    => Cites(entries[i], pool[entries[i].artifact])

=============================================================================

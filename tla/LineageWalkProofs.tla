-------------------------- MODULE LineageWalkProofs --------------------------
(***************************************************************************)
(* Proofs about LineageWalk, for every pool, declaration and hop cap.      *)
(***************************************************************************)
EXTENDS LineageWalk, SequenceTheorems, FiniteSetTheorems, DataLemmas, TLAPS

(* What the report says of an entry is settled by files: the walk's part of *)
(* the inductive invariant that the other properties are read from.         *)
WalkInv ==
    /\ TypeOK
    /\ OneEntryPerArtifact
    /\ VerifiedIsExact
    /\ HopsAreFirstPerson

(* What a pass that has changed nothing so far has left behind.             *)
PassSettles ==
    /\ ~changed => \A k \in 1..(cursor - 1) \ assigned :
                       pool[k].kind # "unreadable" => Open(pool[k]) = {}
    /\ done => ~changed /\ cursor = Len(pool) + 1

-----------------------------------------------------------------------------
(* The records of a pool and the frontier they give are well typed. *)
LEMMA PoolTypes ==
    ASSUME pool \in Pools
    PROVE  /\ pool \in Seq(Artifacts)
           /\ \A k \in DOMAIN pool : pool[k] \in Artifacts
           /\ DOMAIN pool = 1..Len(pool)
           /\ Len(pool) \in Nat
  BY InputsAssumption

(* A status a record gives is one of the five. *)
LEMMA StatusTypes ==
    ASSUME NEW entry, NEW record
    PROVE  /\ StatusFor(entry, record) \in Statuses
           /\ StatusFor(entry, record) # "unverified"
           /\ StatusFor(entry, record) = "verified" =>
                  record.kind = "verifiable" /\ record.ok /\ Exact(entry, record)
  BY DEF StatusFor, Statuses

(* The entries a declaration contributes are typed, one hop further, and open. *)
LEMMA FrontierTypes ==
    ASSUME NEW record \in Artifacts, NEW hop \in 1..HopCap, NEW from \in Nat
    PROVE  /\ Frontier(record, hop, from) \in Seq(Entries)
           /\ Len(Frontier(record, hop, from)) = Len(record.declares)
           /\ \A k \in 1..Len(record.declares) :
                  Frontier(record, hop, from)[k] = MakeEntry(record.declares[k], hop, from)
  <1>1. record.declares \in Seq(Declared)
    BY DEF Artifacts
  <1>2. \A k \in 1..Len(record.declares) : MakeEntry(record.declares[k], hop, from) \in Entries
    <2>1. SUFFICES ASSUME NEW k \in 1..Len(record.declares)
                  PROVE  MakeEntry(record.declares[k], hop, from) \in Entries
      OBVIOUS
    <2>2. record.declares[k] \in Declared
      BY <1>1
    <2>3. "unverified" \in Statuses
      BY DEF Statuses
    <2> QED
      BY <2>2, <2>3 DEF MakeEntry, Entries, Declared
  <1> QED
    BY <1>1, <1>2 DEF Frontier

-----------------------------------------------------------------------------
(* Entry i, and the list, once the artifact at the cursor has settled it. *)
Settled(i) == [entries[i] EXCEPT !.status = StatusFor(entries[i], pool[cursor]),
                                 !.artifact = cursor]
Resolved(i) == [entries EXCEPT ![i] = Settled(i)]
Joined(i) == Frontier(pool[cursor], entries[i].hop + 1, cursor)

(* The two outcomes of Match, without its conditionals. *)
LEMMA MatchOutcome ==
    ASSUME TypeOK, Match
    PROVE  /\ cursor \in DOMAIN pool /\ cursor \in Nat /\ pool[cursor] \in Artifacts
           /\ \E i \in DOMAIN entries :
                /\ i \in Open(pool[cursor])
                /\ \/ entries' = Resolved(i)
                   \/ /\ entries[i].manifest_hash = pool[cursor].mh
                      /\ entries[i].hop + 1 <= HopCap
                      /\ entries' = Resolved(i) \o Joined(i)
  <1>1. cursor \in DOMAIN pool /\ cursor \in Nat /\ pool[cursor] \in Artifacts
    BY PoolTypes DEF TypeOK, Match, AtRecord
  <1>2. PICK i \in Candidates(pool[cursor]) :
            IF JoinsFrontier(entries[i], pool[cursor]) /\ entries[i].hop + 1 <= HopCap
            THEN entries' = Resolved(i) \o Joined(i)
            ELSE entries' = Resolved(i)
    BY DEF Match, Resolved, Settled, Joined
  <1>3. i \in Open(pool[cursor]) /\ i \in DOMAIN entries
    BY <1>2 DEF Candidates, Open
  <1>4. JoinsFrontier(entries[i], pool[cursor]) => entries[i].manifest_hash = pool[cursor].mh
    BY DEF JoinsFrontier
  <1> QED
    BY <1>1, <1>2, <1>3, <1>4

(* The same, entry by entry: one open entry is settled, the others stay, and *)
(* what is appended was declared by the artifact, one hop further.           *)
LEMMA MatchEffect ==
    ASSUME TypeOK, Match
    PROVE  \E i \in DOMAIN entries :
             /\ i \in Open(pool[cursor])
             /\ entries' \in Seq(Entries)
             /\ Len(entries) <= Len(entries')
             /\ entries'[i] = Settled(i)
             /\ \A j \in DOMAIN entries \ {i} : entries'[j] = entries[j]
             /\ \A j \in DOMAIN entries' \ DOMAIN entries :
                   /\ entries[i].manifest_hash = pool[cursor].mh
                   /\ \E k \in DOMAIN pool[cursor].declares :
                         entries'[j] = MakeEntry(pool[cursor].declares[k],
                                                 entries[i].hop + 1, cursor)
  <1>1. cursor \in Nat /\ pool[cursor] \in Artifacts /\ pool[cursor].declares \in Seq(Declared)
    BY MatchOutcome DEF Artifacts
  <1>2. PICK i \in DOMAIN entries :
           /\ i \in Open(pool[cursor])
           /\ \/ entries' = Resolved(i)
              \/ /\ entries[i].manifest_hash = pool[cursor].mh
                 /\ entries[i].hop + 1 <= HopCap
                 /\ entries' = Resolved(i) \o Joined(i)
    BY MatchOutcome
  <1>3. entries \in Seq(Entries) /\ entries[i] \in Entries
    BY <1>2 DEF TypeOK
  <1>4. entries[i].hop \in 1..HopCap
    BY <1>3 DEF Entries
  <1>5. Settled(i) \in Entries
    BY <1>1, <1>3, StatusTypes DEF Settled, Entries
  <1>6. /\ Resolved(i) \in Seq(Entries)
        /\ Len(Resolved(i)) = Len(entries)
        /\ DOMAIN Resolved(i) = DOMAIN entries
        /\ Resolved(i)[i] = Settled(i)
        /\ \A j \in DOMAIN entries \ {i} : Resolved(i)[j] = entries[j]
    BY <1>2, <1>3, <1>5 DEF Resolved
  <1>7. CASE entries' = Resolved(i)
    BY <1>2, <1>3, <1>6, <1>7
  <1>8. CASE /\ entries[i].manifest_hash = pool[cursor].mh
             /\ entries[i].hop + 1 <= HopCap
             /\ entries' = Resolved(i) \o Joined(i)
    <2>1. entries[i].hop + 1 \in 1..HopCap
      BY <1>4, <1>8, HopCapAssumption
    <2>2. /\ Joined(i) \in Seq(Entries)
          /\ Len(Joined(i)) = Len(pool[cursor].declares)
          /\ \A k \in 1..Len(pool[cursor].declares) :
                Joined(i)[k] = MakeEntry(pool[cursor].declares[k], entries[i].hop + 1, cursor)
      BY <1>1, <2>1, FrontierTypes DEF Joined
    <2>3. entries' \in Seq(Entries) /\ Len(entries') = Len(entries) + Len(Joined(i))
      <3>1. /\ Resolved(i) \in Seq(Entries)
            /\ Joined(i) \in Seq(Entries)
            /\ Len(Resolved(i)) = Len(entries)
        BY <1>6, <2>2
      <3>2. /\ Resolved(i) \o Joined(i) \in Seq(Entries)
            /\ Len(Resolved(i) \o Joined(i)) = Len(Resolved(i)) + Len(Joined(i))
        BY <3>1
      <3>3. entries' = Resolved(i) \o Joined(i)
        BY <1>8
      <3> QED
        BY <3>1, <3>2, <3>3
    <2>4. \A j \in DOMAIN entries : entries'[j] = Resolved(i)[j]
      BY <1>3, <1>6, <1>8, <2>2
    <2>5. \A j \in DOMAIN entries' \ DOMAIN entries :
              /\ j - Len(entries) \in 1..Len(Joined(i))
              /\ entries'[j] = Joined(i)[j - Len(entries)]
      BY <1>3, <1>6, <1>8, <2>2, <2>3
    <2>6. DOMAIN pool[cursor].declares = 1..Len(Joined(i))
      BY <1>1, <2>2
    <2>7. \A j \in DOMAIN entries' \ DOMAIN entries :
               \E k \in DOMAIN pool[cursor].declares :
                   entries'[j] = MakeEntry(pool[cursor].declares[k], entries[i].hop + 1, cursor)
      BY <2>2, <2>5, <2>6
    <2>8. Len(entries) <= Len(entries')
      BY <1>3, <2>2, <2>3
    <2> QED
      BY <1>2, <1>6, <1>8, <2>3, <2>4, <2>7, <2>8
  <1> QED
    BY <1>2, <1>7, <1>8

-----------------------------------------------------------------------------
(* TypeOK: the report and the walk's bookkeeping stay what they are declared *)
(* to be.                                                                    *)
THEOREM TypeCorrect == Spec => []TypeOK
  <1>1. Init => TypeOK
    <2> SUFFICES ASSUME Init PROVE TypeOK
      OBVIOUS
    <2>1. PICK declared \in Declarations :
              entries = [i \in DOMAIN declared |-> MakeEntry(declared[i], 1, 0)]
      BY DEF Init
    <2>2. declared \in Seq(Declared)
      BY InputsAssumption
    <2>3. \A i \in 1..Len(declared) : MakeEntry(declared[i], 1, 0) \in Entries
      <3>1. SUFFICES ASSUME NEW i \in 1..Len(declared)
                     PROVE  MakeEntry(declared[i], 1, 0) \in Entries
        OBVIOUS
      <3>2. declared[i] \in Declared
        BY <2>2
      <3>3. "unverified" \in Statuses /\ 1 \in 1..HopCap
        BY HopCapAssumption DEF Statuses
      <3> QED
        BY <3>2, <3>3 DEF MakeEntry, Entries, Declared
    <2>4. entries \in Seq(Entries)
      BY <2>1, <2>2, <2>3
    <2>5. pool \in Pools /\ 1 \in 1..(Len(pool) + 1)
      BY PoolTypes DEF Init
    <2> QED
      BY <2>4, <2>5 DEF Init, TypeOK
  <1>2. TypeOK /\ [Next]_vars => TypeOK'
    <2> SUFFICES ASSUME TypeOK, [Next]_vars PROVE TypeOK'
      OBVIOUS
    <2> USE PoolTypes
    <2>1. CASE Skip
      BY <2>1 DEF Skip, AtRecord, TypeOK
    <2>2. CASE Match
      <3>1. entries' \in Seq(Entries)
        BY <2>2, MatchEffect
      <3> QED
        BY <2>2, <3>1 DEF Match, AtRecord, TypeOK
    <2>3. CASE NextPass
      <3>1. 1 \in 1..(Len(pool) + 1)
        BY DEF TypeOK
      <3> QED
        BY <2>3, <3>1 DEF NextPass, TypeOK
    <2>4. CASE Return
      BY <2>4 DEF Return, TypeOK
    <2>5. CASE UNCHANGED vars
      BY <2>5 DEF vars, TypeOK
    <2> QED
      BY <2>1, <2>2, <2>3, <2>4, <2>5 DEF Next
  <1> QED
    BY <1>1, <1>2, PTL DEF Spec

-----------------------------------------------------------------------------
(* Members of an entry that Match has settled or appended. *)
LEMMA SettledMembers ==
    ASSUME TypeOK, NEW i \in DOMAIN entries, cursor \in Nat
    PROVE  /\ Settled(i).capsule_id = entries[i].capsule_id
           /\ Settled(i).manifest_hash = entries[i].manifest_hash
           /\ Settled(i).entry_hash = entries[i].entry_hash
           /\ Settled(i).hop = entries[i].hop
           /\ Settled(i).from = entries[i].from
           /\ Settled(i).artifact = cursor
           /\ Settled(i).status = StatusFor(entries[i], pool[cursor])
  <1>1. entries[i] \in Entries
    BY DEF TypeOK
  <1> QED
    BY <1>1 DEF Settled, Entries

(* The first four conjuncts of the walk's invariant hold initially. *)
LEMMA InitReport ==
    ASSUME Init
    PROVE  OneEntryPerArtifact /\ VerifiedIsExact /\ HopsAreFirstPerson
  <1>1. \A i \in DOMAIN entries :
            /\ entries[i].status = "unverified"
            /\ entries[i].artifact = 0
            /\ entries[i].hop = 1
            /\ entries[i].from = 0
    BY DEF Init, MakeEntry
  <1>2. assigned = {}
    BY DEF Init
  <1> QED
    BY <1>1, <1>2 DEF OneEntryPerArtifact, VerifiedIsExact, HopsAreFirstPerson

(* Match spends an artifact that was not spent before, on an open entry. *)
LEMMA MatchKeepsOneEntry ==
    ASSUME TypeOK, OneEntryPerArtifact, Match
    PROVE  OneEntryPerArtifact'
  <1>1. cursor \in DOMAIN pool /\ cursor \in Nat /\ cursor # 0
    BY MatchOutcome, PoolTypes DEF TypeOK
  <1>2. PICK i \in DOMAIN entries :
             /\ i \in Open(pool[cursor])
             /\ entries' \in Seq(Entries)
             /\ Len(entries) <= Len(entries')
             /\ entries'[i] = Settled(i)
             /\ \A j \in DOMAIN entries \ {i} : entries'[j] = entries[j]
             /\ \A j \in DOMAIN entries' \ DOMAIN entries :
                   \E k \in DOMAIN pool[cursor].declares :
                         entries'[j] = MakeEntry(pool[cursor].declares[k],
                                                 entries[i].hop + 1, cursor)
    BY MatchEffect
  <1>3. /\ entries'[i].artifact = cursor
        /\ entries'[i].status # "unverified"
    BY <1>1, <1>2, SettledMembers, StatusTypes
  <1>4. \A j \in DOMAIN entries' \ DOMAIN entries :
            entries'[j].status = "unverified" /\ entries'[j].artifact = 0
    BY <1>2 DEF MakeEntry
  <1>5. DOMAIN entries \subseteq DOMAIN entries'
    BY <1>2 DEF TypeOK
  <1>6. entries[i].artifact = 0
    BY <1>2 DEF Open, OneEntryPerArtifact
  <1>7. assigned' = assigned \cup {cursor} /\ cursor \notin assigned /\ pool' = pool
    BY DEF Match
  <1>8. \A j \in DOMAIN entries : entries[j].artifact # cursor
    BY <1>1, <1>7 DEF OneEntryPerArtifact
  <1>9. \A j \in DOMAIN entries' :
            entries'[j].status = "unverified" <=> entries'[j].artifact = 0
    BY <1>1, <1>2, <1>3, <1>4 DEF OneEntryPerArtifact
  <1>10. assigned' = {entries'[j].artifact : j \in DOMAIN entries'} \ {0}
    <2>1. ASSUME NEW j \in DOMAIN entries', entries'[j].artifact # 0
          PROVE  entries'[j].artifact \in assigned'
      <3>1. CASE j = i
        BY <1>3, <1>7, <3>1
      <3>2. CASE j # i
        <4>1. j \in DOMAIN entries
          BY <1>4, <2>1
        <4>2. entries'[j] = entries[j]
          BY <1>2, <3>2, <4>1
        <4> QED
          BY <1>7, <2>1, <4>1, <4>2 DEF OneEntryPerArtifact
      <3> QED
        BY <3>1, <3>2
    <2>2. ASSUME NEW k \in assigned'
          PROVE  k # 0 /\ \E j \in DOMAIN entries' : entries'[j].artifact = k
      <3>1. CASE k = cursor
        BY <1>1, <1>3, <1>5, <3>1
      <3>2. CASE k # cursor
        <4>1. k \in assigned
          BY <1>7, <2>2, <3>2
        <4>2. PICK j \in DOMAIN entries : entries[j].artifact = k /\ k # 0
          BY <4>1 DEF OneEntryPerArtifact
        <4>3. j # i /\ entries'[j] = entries[j]
          BY <1>2, <1>6, <4>2
        <4> QED
          BY <1>5, <4>2, <4>3
      <3> QED
        BY <3>1, <3>2
    <2> QED
      BY <2>1, <2>2
  <1>11. ASSUME NEW j \in DOMAIN entries', NEW k \in DOMAIN entries',
                entries'[j].artifact = entries'[k].artifact, entries'[j].artifact # 0
         PROVE  j = k
    <2>1. j \in DOMAIN entries /\ k \in DOMAIN entries
      BY <1>4, <1>11
    <2>2. CASE j = i \/ k = i
      BY <1>2, <1>3, <1>8, <1>11, <2>1, <2>2
    <2>3. CASE j # i /\ k # i
      BY <1>2, <1>11, <2>1, <2>3 DEF OneEntryPerArtifact
    <2> QED
      BY <2>2, <2>3
  <1> QED
    BY <1>9, <1>10, <1>11 DEF OneEntryPerArtifact

(* Match says "verified" only of the artifact it spends on the entry. *)
LEMMA MatchKeepsVerified ==
    ASSUME TypeOK, VerifiedIsExact, Match
    PROVE  VerifiedIsExact'
  <1>1. cursor \in DOMAIN pool /\ cursor \in Nat /\ cursor # 0 /\ pool' = pool
    <2>1. pool' = pool
      BY DEF Match
    <2> QED
      BY <2>1, MatchOutcome, PoolTypes DEF TypeOK
  <1>2. PICK i \in DOMAIN entries :
             /\ entries' \in Seq(Entries)
             /\ entries'[i] = Settled(i)
             /\ \A j \in DOMAIN entries \ {i} : entries'[j] = entries[j]
             /\ \A j \in DOMAIN entries' \ DOMAIN entries :
                   \E k \in DOMAIN pool[cursor].declares :
                         entries'[j] = MakeEntry(pool[cursor].declares[k],
                                                 entries[i].hop + 1, cursor)
    BY MatchEffect
  <1>3. SUFFICES ASSUME NEW j \in DOMAIN entries', entries'[j].status = "verified"
                 PROVE  /\ entries'[j].artifact # 0
                        /\ Exact(entries'[j], pool[entries'[j].artifact])
                        /\ pool[entries'[j].artifact].kind = "verifiable"
                        /\ pool[entries'[j].artifact].ok
    BY <1>1 DEF VerifiedIsExact, Exact
  <1>4. j \in DOMAIN entries
    BY <1>2, <1>3 DEF MakeEntry
  <1>5. CASE j = i
    <2>1. /\ entries'[j].artifact = cursor
          /\ entries'[j].capsule_id = entries[i].capsule_id
          /\ entries'[j].manifest_hash = entries[i].manifest_hash
          /\ entries'[j].entry_hash = entries[i].entry_hash
          /\ StatusFor(entries[i], pool[cursor]) = "verified"
      BY <1>1, <1>2, <1>3, <1>5, SettledMembers
    <2>2. /\ pool[cursor].kind = "verifiable"
          /\ pool[cursor].ok
          /\ Exact(entries[i], pool[cursor])
      BY <2>1, StatusTypes
    <2> QED
      BY <1>1, <2>1, <2>2 DEF Exact
  <1>6. CASE j # i
    BY <1>2, <1>3, <1>4, <1>6 DEF VerifiedIsExact
  <1> QED
    BY <1>5, <1>6

(* Entries that join at a deeper hop come from the artifact just matched. *)
LEMMA MatchKeepsHops ==
    ASSUME TypeOK, OneEntryPerArtifact, HopsAreFirstPerson, Match
    PROVE  HopsAreFirstPerson'
  <1>1. cursor \in DOMAIN pool /\ cursor \in Nat /\ cursor # 0 /\ pool' = pool
    <2>1. pool' = pool
      BY DEF Match
    <2> QED
      BY <2>1, MatchOutcome, PoolTypes DEF TypeOK
  <1>2. PICK i \in DOMAIN entries :
             /\ i \in Open(pool[cursor])
             /\ entries' \in Seq(Entries)
             /\ Len(entries) <= Len(entries')
             /\ entries'[i] = Settled(i)
             /\ \A j \in DOMAIN entries \ {i} : entries'[j] = entries[j]
             /\ \A j \in DOMAIN entries' \ DOMAIN entries :
                   /\ entries[i].manifest_hash = pool[cursor].mh
                   /\ \E k \in DOMAIN pool[cursor].declares :
                         entries'[j] = MakeEntry(pool[cursor].declares[k],
                                                 entries[i].hop + 1, cursor)
    BY MatchEffect
  <1>3. /\ entries'[i].artifact = cursor
        /\ entries[i].artifact = 0
        /\ DOMAIN entries \subseteq DOMAIN entries'
    BY <1>1, <1>2, SettledMembers DEF Open, OneEntryPerArtifact, TypeOK
  \* Settling an entry leaves what it declares, and at which hop, alone.
  <1>4. \A j \in DOMAIN entries :
            /\ entries'[j].hop = entries[j].hop
            /\ entries'[j].from = entries[j].from
            /\ entries'[j].capsule_id = entries[j].capsule_id
            /\ entries'[j].manifest_hash = entries[j].manifest_hash
            /\ entries[j].artifact # 0 => entries'[j].artifact = entries[j].artifact
    BY <1>1, <1>2, <1>3, SettledMembers
  <1>5. ASSUME NEW j \in DOMAIN entries'
        PROVE  IF entries'[j].hop = 1 THEN entries'[j].from = 0
               ELSE /\ entries'[j].from # 0
                    /\ \E m \in DOMAIN entries' :
                          /\ entries'[m].hop + 1 = entries'[j].hop
                          /\ entries'[m].artifact = entries'[j].from
                          /\ entries'[m].manifest_hash = pool[entries'[j].from].mh
                    /\ \E k \in DOMAIN pool[entries'[j].from].declares :
                          LET d == pool[entries'[j].from].declares[k]
                          IN  /\ d.capsule_id = entries'[j].capsule_id
                              /\ d.manifest_hash = entries'[j].manifest_hash
    <2>1. CASE j \in DOMAIN entries /\ entries[j].hop = 1
      BY <1>4, <2>1 DEF HopsAreFirstPerson
    <2>2. CASE j \in DOMAIN entries /\ entries[j].hop # 1
      <3>1. PICK m \in DOMAIN entries :
                /\ entries[m].hop + 1 = entries[j].hop
                /\ entries[m].artifact = entries[j].from
                /\ entries[m].manifest_hash = pool[entries[j].from].mh
        BY <2>2 DEF HopsAreFirstPerson
      <3>2. entries[j].from # 0
        BY <2>2 DEF HopsAreFirstPerson
      <3>3. \E k \in DOMAIN pool[entries[j].from].declares :
               /\ pool[entries[j].from].declares[k].capsule_id = entries[j].capsule_id
               /\ pool[entries[j].from].declares[k].manifest_hash = entries[j].manifest_hash
        BY <2>2 DEF HopsAreFirstPerson
      <3>4. m \in DOMAIN entries' /\ entries'[m].artifact = entries[j].from
        BY <1>3, <1>4, <3>1, <3>2
      <3> QED
        BY <1>4, <2>2, <3>1, <3>2, <3>3, <3>4
    <2>3. CASE j \notin DOMAIN entries
      <3>1. PICK k \in DOMAIN pool[cursor].declares :
                entries'[j] = MakeEntry(pool[cursor].declares[k], entries[i].hop + 1, cursor)
        BY <1>2, <2>3
      <3>2. /\ entries'[j].hop = entries[i].hop + 1
            /\ entries'[j].from = cursor
            /\ entries'[j].capsule_id = pool[cursor].declares[k].capsule_id
            /\ entries'[j].manifest_hash = pool[cursor].declares[k].manifest_hash
        BY <3>1 DEF MakeEntry
      <3>3. entries[i].hop + 1 # 1
        <4>1. entries[i] \in Entries
          BY DEF TypeOK
        <4> QED
          BY <4>1, HopCapAssumption DEF Entries
      <3>4. entries[i].manifest_hash = pool[cursor].mh
        BY <1>2, <2>3
      <3>5. i \in DOMAIN entries' /\ entries'[i].hop + 1 = entries'[j].hop
        BY <1>3, <1>4, <3>2
      <3> QED
        BY <1>1, <1>3, <1>4, <3>2, <3>3, <3>4, <3>5
    <2> QED
      BY <2>1, <2>2, <2>3
  <1> QED
    BY <1>1, <1>5 DEF HopsAreFirstPerson

-----------------------------------------------------------------------------
(* The inductive invariant: only Match touches the report. *)
THEOREM ReportCorrect == Spec => []WalkInv
  <1>1. Init => OneEntryPerArtifact /\ VerifiedIsExact /\ HopsAreFirstPerson
    BY InitReport
  <1>2. WalkInv /\ [Next]_vars
            => OneEntryPerArtifact' /\ VerifiedIsExact' /\ HopsAreFirstPerson'
    <2> SUFFICES ASSUME WalkInv, [Next]_vars
                 PROVE  OneEntryPerArtifact' /\ VerifiedIsExact' /\ HopsAreFirstPerson'
      OBVIOUS
    <2>1. CASE Match
      BY <2>1, MatchKeepsOneEntry, MatchKeepsVerified, MatchKeepsHops DEF WalkInv
    <2>2. CASE Skip \/ NextPass \/ Return \/ UNCHANGED vars
      <3>1. UNCHANGED <<pool, entries, assigned>>
        BY <2>2 DEF Skip, NextPass, Return, vars
      <3> QED
        BY <3>1 DEF WalkInv, OneEntryPerArtifact, VerifiedIsExact, HopsAreFirstPerson, Exact
    <2> QED
      BY <2>1, <2>2 DEF Next
  <1>3. Spec => []TypeOK
    BY TypeCorrect
  <1>4. Init /\ TypeOK => WalkInv
    BY <1>1 DEF WalkInv
  <1>5. WalkInv /\ [Next]_vars /\ TypeOK' => WalkInv'
    BY <1>2 DEF WalkInv
  <1> QED
    BY <1>3, <1>4, <1>5, PTL DEF Spec

(* OneEntryPerArtifact: no supplied file is counted for two entries. *)
COROLLARY ArtifactsCountOnce == Spec => []OneEntryPerArtifact
  <1>1. WalkInv => OneEntryPerArtifact
    BY DEF WalkInv
  <1> QED
    BY <1>1, ReportCorrect, PTL

(* VerifiedIsExact: "verified" is said only of the declared artifact, valid. *)
COROLLARY VerifiedCorrect == Spec => []VerifiedIsExact
  <1>1. WalkInv => VerifiedIsExact
    BY DEF WalkInv
  <1> QED
    BY <1>1, ReportCorrect, PTL

(* HopsAreFirstPerson: every deeper entry is a supplied artifact's own claim. *)
COROLLARY NoHopIsHearsay == Spec => []HopsAreFirstPerson
  <1>1. WalkInv => HopsAreFirstPerson
    BY DEF WalkInv
  <1> QED
    BY <1>1, ReportCorrect, PTL

-----------------------------------------------------------------------------
(* The walk implements the abstract report: each step resolves one open entry *)
(* with an unused artifact of its identity, or does not touch the report.      *)
THEOREM WalkImplementsReport == Spec => ImplementsReport
  <1>1. Init => Report!Init
    BY DEF Init, Report!Init, MakeEntry
  <1>2. WalkInv /\ [Next]_vars => [Report!Next]_<<pool, entries>>
    <2> SUFFICES ASSUME WalkInv, [Next]_vars
                 PROVE  [Report!Next]_<<pool, entries>>
      OBVIOUS
    <2>1. CASE Match
      <3>1. PICK i \in DOMAIN entries :
                /\ cursor \in DOMAIN pool
                /\ cursor # 0
                /\ i \in Open(pool[cursor])
                /\ \/ entries' = Resolved(i)
                   \/ /\ entries[i].manifest_hash = pool[cursor].mh
                      /\ entries[i].hop + 1 <= HopCap
                      /\ entries' = Resolved(i) \o Joined(i)
        <4>1. TypeOK
          BY DEF WalkInv
        <4>2. cursor \in 1..Len(pool)
          BY <4>1, <2>1, PoolTypes DEF TypeOK, Match, AtRecord
        <4>3. cursor # 0
          BY <4>2
        <4> QED
          BY <4>1, <4>3, <2>1, MatchOutcome
      <3>2. /\ pool' = pool
            /\ cursor \notin assigned
            /\ pool[cursor].kind # "unreadable"
        BY <2>1 DEF Match
      <3>3. \A j \in DOMAIN entries : entries[j].artifact # cursor
        BY <3>1, <3>2 DEF WalkInv, OneEntryPerArtifact
      <3>4. Report!Resolve(i, cursor)
        <4>1. Report!StatusFor(entries[i], pool[cursor]) = StatusFor(entries[i], pool[cursor])
          BY DEF Report!StatusFor, StatusFor, Report!Exact, Exact
        <4>2. Report!Frontier(pool[cursor], entries[i].hop + 1, cursor) = Joined(i)
          BY DEF Report!Frontier, Joined, Frontier, Report!MakeEntry, MakeEntry
        <4> QED
          BY <3>1, <3>2, <3>3, <4>1, <4>2 DEF Report!Resolve, Open, Resolved, Settled
      <3> QED
        BY <3>1, <3>4 DEF Report!Next
    <2>2. CASE Skip \/ NextPass \/ Return \/ UNCHANGED vars
      BY <2>2 DEF Skip, NextPass, Return, vars
    <2> QED
      BY <2>1, <2>2 DEF Next
  <1> QED
    BY <1>1, <1>2, ReportCorrect, PTL DEF Spec, ImplementsReport, Report!Spec

-----------------------------------------------------------------------------
(* NothingLeftToMatch: when the walk returns, no supplied artifact is left that *)
(* an open entry could still take, in whatever order the host gave them.        *)
THEOREM WalkIsExhaustive == Spec => []NothingLeftToMatch
  <1>1. Init => PassSettles
    BY DEF Init, PassSettles
  <1>2. TypeOK /\ PassSettles /\ [Next]_vars => PassSettles'
    <2> SUFFICES ASSUME TypeOK, PassSettles, [Next]_vars PROVE PassSettles'
      OBVIOUS
    <2>1. CASE Skip
      <3>1. /\ UNCHANGED <<pool, entries, assigned, changed, done>>
            /\ ~done
            /\ cursor' = cursor + 1
            /\ \/ cursor \in assigned
               \/ pool[cursor].kind = "unreadable"
               \/ Candidates(pool[cursor]) = {}
        BY <2>1 DEF Skip, AtRecord
      <3>2. Candidates(pool[cursor]) = {} => Open(pool[cursor]) = {}
        BY DEF Candidates
      <3>3. \A k : Open(pool[k])' = Open(pool[k])
        BY <3>1 DEF Open
      <3>4. cursor \in Nat
        BY PoolTypes DEF TypeOK
      <3>5. ASSUME ~changed, NEW k \in 1..cursor \ assigned, pool[k].kind # "unreadable"
            PROVE  Open(pool[k]) = {}
        <4>1. CASE k = cursor
          BY <3>1, <3>2, <3>5, <4>1
        <4>2. CASE k # cursor
          <5>1. k \in 1..(cursor - 1) \ assigned
            BY <3>4, <3>5, <4>2
          <5> QED
            BY <3>5, <5>1 DEF PassSettles
        <4> QED
          BY <4>1, <4>2
      <3>6. cursor' - 1 = cursor
        BY <3>1, <3>4
      <3> QED
        BY <3>1, <3>3, <3>5, <3>6 DEF PassSettles
    <2>2. CASE Match
      BY <2>2 DEF Match, AtRecord, PassSettles
    <2>3. CASE NextPass
      BY <2>3 DEF NextPass, PassSettles
    <2>4. CASE Return
      <3>1. cursor = Len(pool) + 1
        BY <2>4, PoolTypes DEF Return, TypeOK
      <3>2. UNCHANGED <<pool, entries, assigned, cursor, changed>> /\ ~changed
        BY <2>4 DEF Return
      <3>3. \A k : Open(pool[k])' = Open(pool[k])
        BY <3>2 DEF Open
      <3> QED
        BY <3>1, <3>2, <3>3 DEF PassSettles
    <2>5. CASE UNCHANGED vars
      BY <2>5 DEF vars, PassSettles, Open
    <2> QED
      BY <2>1, <2>2, <2>3, <2>4, <2>5 DEF Next
  <1>3. TypeOK /\ PassSettles => NothingLeftToMatch
    <2> SUFFICES ASSUME TypeOK, PassSettles, done,
                        NEW k \in DOMAIN pool \ assigned, pool[k].kind # "unreadable"
                 PROVE  Open(pool[k]) = {}
      BY DEF NothingLeftToMatch
    <2>1. k \in 1..(cursor - 1) \ assigned /\ ~changed
      BY PoolTypes DEF TypeOK, PassSettles
    <2> QED
      BY <2>1 DEF PassSettles
  <1> QED
    BY <1>1, <1>2, <1>3, TypeCorrect, PTL DEF Spec

-----------------------------------------------------------------------------
(* What joined the report was walked, and stays walked. *)
FromWalked ==
    \A i \in DOMAIN entries :
        entries[i].from # 0 =>
            entries[i].from \in DOMAIN pool /\ pool[entries[i].from].mh \in walked

JoinInv == FromWalked /\ DeclarationsJoinOnce

(* Entries are appended only with a hash that was not walked before. *)
LEMMA MatchWalks ==
    ASSUME TypeOK, Match
    PROVE  /\ walked \subseteq walked'
           /\ DOMAIN entries' # DOMAIN entries =>
                  /\ pool[cursor].mh \notin walked
                  /\ pool[cursor].mh \in walked'
  <1>1. PICK i \in Candidates(pool[cursor]) :
            /\ IF JoinsFrontier(entries[i], pool[cursor]) /\ entries[i].hop + 1 <= HopCap
               THEN entries' = Resolved(i) \o Joined(i)
               ELSE entries' = Resolved(i)
            /\ walked' = IF JoinsFrontier(entries[i], pool[cursor])
                         THEN walked \cup {pool[cursor].mh} ELSE walked
    BY DEF Match, Resolved, Settled, Joined
  <1>2. walked \subseteq walked'
    BY <1>1
  <1>3. CASE JoinsFrontier(entries[i], pool[cursor])
    BY <1>1, <1>2, <1>3 DEF JoinsFrontier
  <1>4. CASE ~JoinsFrontier(entries[i], pool[cursor])
    <2>1. entries' = Resolved(i)
      BY <1>1, <1>4
    <2>2. DOMAIN Resolved(i) = DOMAIN entries
      BY DEF Resolved
    <2> QED
      BY <1>2, <2>1, <2>2
  <1> QED
    BY <1>3, <1>4

(* DeclarationsJoinOnce: of all the copies of one artifact, one contributes its *)
(* declaration, whatever the order of the pool and the routes that lead to it.  *)
THEOREM DeclarationsCountOnce == Spec => []DeclarationsJoinOnce
  <1>1. Init => JoinInv
    <2> SUFFICES ASSUME Init PROVE JoinInv
      OBVIOUS
    <2>1. \A i \in DOMAIN entries : entries[i].from = 0
      BY DEF Init, MakeEntry
    <2> QED
      BY <2>1 DEF JoinInv, FromWalked, DeclarationsJoinOnce
  <1>2. TypeOK /\ JoinInv /\ [Next]_vars => JoinInv'
    <2> SUFFICES ASSUME TypeOK, JoinInv, [Next]_vars PROVE JoinInv'
      OBVIOUS
    <2>1. CASE Match
      <3>1. PICK i \in DOMAIN entries :
               /\ entries' \in Seq(Entries)
               /\ Len(entries) <= Len(entries')
               /\ entries'[i] = Settled(i)
               /\ \A j \in DOMAIN entries \ {i} : entries'[j] = entries[j]
               /\ \A j \in DOMAIN entries' \ DOMAIN entries :
                     \E k \in DOMAIN pool[cursor].declares :
                         entries'[j] = MakeEntry(pool[cursor].declares[k],
                                                 entries[i].hop + 1, cursor)
        BY <2>1, MatchEffect
      <3>2. cursor \in DOMAIN pool /\ cursor \in Nat /\ pool' = pool
        BY <2>1, MatchOutcome DEF Match
      <3>3. \A j \in DOMAIN entries : entries'[j].from = entries[j].from
        BY <3>1, <3>2, SettledMembers
      <3>4. \A j \in DOMAIN entries' \ DOMAIN entries : entries'[j].from = cursor
        BY <3>1 DEF MakeEntry
      <3>5. /\ walked \subseteq walked'
            /\ DOMAIN entries' # DOMAIN entries =>
                   pool[cursor].mh \notin walked /\ pool[cursor].mh \in walked'
        BY <2>1, MatchWalks
      <3>6. FromWalked'
        BY <3>2, <3>3, <3>4, <3>5 DEF JoinInv, FromWalked
      <3>7. ASSUME NEW j \in DOMAIN entries', NEW k \in DOMAIN entries',
                   entries'[j].from # 0, entries'[k].from # 0,
                   pool[entries'[j].from].mh = pool[entries'[k].from].mh
            PROVE  entries'[j].from = entries'[k].from
        <4>1. CASE j \in DOMAIN entries /\ k \in DOMAIN entries
          BY <3>3, <3>7, <4>1 DEF JoinInv, DeclarationsJoinOnce
        <4>2. CASE j \notin DOMAIN entries /\ k \notin DOMAIN entries
          BY <3>4, <4>2
        <4>3. CASE j \in DOMAIN entries /\ k \notin DOMAIN entries
          BY <3>3, <3>4, <3>5, <3>7, <4>3 DEF JoinInv, FromWalked
        <4>4. CASE j \notin DOMAIN entries /\ k \in DOMAIN entries
          BY <3>3, <3>4, <3>5, <3>7, <4>4 DEF JoinInv, FromWalked
        <4> QED
          BY <4>1, <4>2, <4>3, <4>4
      <3> QED
        BY <3>2, <3>6, <3>7 DEF JoinInv, DeclarationsJoinOnce
    <2>2. CASE Skip \/ NextPass \/ Return \/ UNCHANGED vars
      <3>1. UNCHANGED <<pool, entries, walked>>
        BY <2>2 DEF Skip, NextPass, Return, vars
      <3> QED
        BY <3>1 DEF JoinInv, FromWalked, DeclarationsJoinOnce
    <2> QED
      BY <2>1, <2>2 DEF Next
  <1>3. JoinInv => DeclarationsJoinOnce
    BY DEF JoinInv
  <1> QED
    BY <1>1, <1>2, <1>3, TypeCorrect, PTL DEF Spec

-----------------------------------------------------------------------------
(* What VerifiedDepth is chosen to be. *)
IsDepth(n) ==
    /\ \A h \in 1..n : \E i \in DOMAIN entries : entries[i].hop = h
    /\ \A i \in Within(n) : entries[i].status = "verified"
    /\ \/ ~\E i \in DOMAIN entries : entries[i].hop = n + 1
       \/ \E i \in Within(n + 1) : entries[i].status # "verified"

LEMMA IntervalSize ==
    ASSUME NEW n \in Nat
    PROVE  IsFiniteSet(1..n) /\ Cardinality(1..n) = n
  <1>1. \A a, b \in Int : /\ IsFiniteSet(a..b)
                          /\ Cardinality(a..b) = IF a > b THEN 0 ELSE b - a + 1
    BY FS_Interval
  <1>2. 1 \in Int /\ n \in Int
    OBVIOUS
  <1>3. IsFiniteSet(1..n) /\ Cardinality(1..n) = IF 1 > n THEN 0 ELSE n - 1 + 1
    BY <1>1, <1>2
  <1>4. (IF 1 > n THEN 0 ELSE n - 1 + 1) = n
    OBVIOUS
  <1> QED
    BY <1>3, <1>4

(* Hops that all have an entry are no more than the entries. *)
LEMMA HopsFitEntries ==
    ASSUME TypeOK, NEW n \in Nat,
           \A h \in 1..n : \E i \in DOMAIN entries : entries[i].hop = h
    PROVE  n <= Len(entries)
  <1> DEFINE f == [h \in 1..n |-> CHOOSE i \in DOMAIN entries : entries[i].hop = h]
  <1>1. entries \in Seq(Entries) /\ Len(entries) \in Nat /\ DOMAIN entries = 1..Len(entries)
    BY DEF TypeOK
  <1>2. \A h \in 1..n : f[h] \in 1..Len(entries) /\ entries[f[h]].hop = h
    BY <1>1
  <1>3. f \in [1..n -> 1..Len(entries)]
    BY <1>2
  <1> HIDE DEF f
  <1>4. /\ IsFiniteSet(1..n) /\ Cardinality(1..n) = n
        /\ IsFiniteSet(1..Len(entries)) /\ Cardinality(1..Len(entries)) = Len(entries)
    BY <1>1, IntervalSize
  <1>5. ASSUME Len(entries) < n PROVE FALSE
    <2> DEFINE S == 1..n
               T == 1..Len(entries)
    <2>1. IsFiniteSet(S) /\ IsFiniteSet(T) /\ Cardinality(T) < Cardinality(S)
      BY <1>4, <1>5
    <2>2. f \in [S -> T]
      BY <1>3
    <2> HIDE DEF S, T
    <2>3. \E x, y \in S : x # y /\ f[x] = f[y]
      BY <2>1, <2>2, FS_PigeonHole
    <2> QED
      BY <1>2, <2>3 DEF S
  <1> QED
    BY <1>1, <1>5

LEMMA DepthExists ==
    ASSUME TypeOK
    PROVE  VerifiedDepth \in 0..Len(entries) /\ IsDepth(VerifiedDepth)
  <1> DEFINE Stops == {n \in Nat : \/ ~\E i \in DOMAIN entries : entries[i].hop = n + 1
                                  \/ \E i \in Within(n + 1) : entries[i].status # "verified"}
  <1>1. \A i \in DOMAIN entries : entries[i].hop \in 1..HopCap
    <2> TAKE i \in DOMAIN entries
    <2>1. entries[i] \in Entries
      BY DEF TypeOK
    <2> QED
      BY <2>1 DEF Entries
  <1>2. HopCap \in Stops
    BY <1>1, HopCapAssumption
  <1>3. PICK n \in Stops : \A m \in Stops : n <= m
    <2>1. Stops \subseteq Nat /\ Stops # {}
      BY <1>2
    <2> HIDE DEF Stops
    <2> QED
      BY <2>1, LeastNatural
  <1>4. n \in Nat
    BY <1>3
  <1>5. \A h \in 1..n : /\ \E i \in DOMAIN entries : entries[i].hop = h
                       /\ \A i \in Within(h) : entries[i].status = "verified"
    <2> TAKE h \in 1..n
    <2>1. h - 1 \in Nat /\ ~(n <= h - 1) /\ (h - 1) + 1 = h
      BY <1>4
    <2>2. h - 1 \notin Stops
      BY <1>3, <2>1
    <2> QED
      BY <2>1, <2>2
  <1>6. \A i \in Within(n) : entries[i].status = "verified"
    <2>1. CASE n = 0
      BY <1>1, <2>1, HopCapAssumption DEF Within
    <2>2. CASE n # 0
      BY <1>4, <1>5, <2>2
    <2> QED
      BY <2>1, <2>2
  <1>7. IsDepth(n)
    BY <1>3, <1>5, <1>6 DEF IsDepth
  <1>8. n \in 0..Len(entries)
    <2>1. n <= Len(entries)
      BY <1>4, <1>5, HopsFitEntries
    <2>2. Len(entries) \in Nat
      BY DEF TypeOK
    <2> QED
      BY <1>4, <2>1, <2>2
  <1>9. VerifiedDepth = CHOOSE d \in 0..Len(entries) : IsDepth(d)
    BY DEF VerifiedDepth, IsDepth
  <1> QED
    BY <1>7, <1>8, <1>9

(* DepthIsBacked: every hop the reported depth covers is backed by a supplied *)
(* artifact that is valid and was declared by the one before it.              *)
THEOREM DepthIsBackedByBytes == Spec => []DepthIsBacked
  <1>1. WalkInv => DepthIsBacked
    <2> SUFFICES ASSUME WalkInv, NEW h \in 1..VerifiedDepth
                 PROVE  \E i \in DOMAIN entries :
                            /\ entries[i].hop = h
                            /\ entries[i].status = "verified"
                            /\ h = 1 \/ \E j \in DOMAIN entries :
                                            /\ entries[j].hop = h - 1
                                            /\ entries[j].status = "verified"
                                            /\ entries[j].artifact = entries[i].from
      BY DEF DepthIsBacked
    <2>1. /\ VerifiedDepth \in Nat
          /\ \A k \in 1..VerifiedDepth : \E i \in DOMAIN entries : entries[i].hop = k
          /\ \A i \in Within(VerifiedDepth) : entries[i].status = "verified"
      BY DepthExists DEF WalkInv, IsDepth
    <2>2. \A j \in DOMAIN entries : entries[j].hop \in Nat
      <3> TAKE j \in DOMAIN entries
      <3>1. entries[j] \in Entries
        BY DEF WalkInv, TypeOK
      <3> QED
        BY <3>1, HopCapAssumption DEF Entries
    <2>3. h \in Nat /\ h <= VerifiedDepth
      BY <2>1
    <2>4. PICK i \in DOMAIN entries : entries[i].hop = h
      BY <2>1
    <2>5. entries[i].status = "verified"
      BY <2>1, <2>3, <2>4 DEF Within
    <2>6. CASE h # 1
      <3>1. PICK j \in DOMAIN entries : /\ entries[j].hop + 1 = entries[i].hop
                                        /\ entries[j].artifact = entries[i].from
        BY <2>4, <2>6 DEF WalkInv, HopsAreFirstPerson
      <3>2. entries[j].hop = h - 1 /\ entries[j].hop <= VerifiedDepth
        BY <2>1, <2>2, <2>3, <2>4, <3>1
      <3>3. entries[j].status = "verified"
        BY <2>1, <3>2 DEF Within
      <3> QED
        BY <2>4, <2>5, <3>1, <3>2, <3>3
    <2> QED
      BY <2>4, <2>5, <2>6
  <1> QED
    BY <1>1, ReportCorrect, PTL

-----------------------------------------------------------------------------
(* What an entry was settled by has its identity and gave it its status. *)
SettledByRecord(entry) ==
    /\ entry.artifact \in DOMAIN pool
    /\ entry.capsule_id = pool[entry.artifact].id
    /\ entry.status = StatusFor(entry, pool[entry.artifact])

SettledJustly ==
    \A i \in DOMAIN entries : entries[i].artifact # 0 => SettledByRecord(entries[i])

(* The status compares members that settling an entry leaves alone. *)
LEMMA StatusIsLasting ==
    ASSUME NEW entry, NEW other, NEW record,
           other.capsule_id = entry.capsule_id,
           other.manifest_hash = entry.manifest_hash,
           other.entry_hash = entry.entry_hash
    PROVE  StatusFor(other, record) = StatusFor(entry, record)
  <1>1. Exact(other, record) <=> Exact(entry, record)
    BY DEF Exact
  <1> QED
    BY <1>1 DEF StatusFor

LEMMA MatchSettlesJustly ==
    ASSUME TypeOK, SettledJustly, Match
    PROVE  SettledJustly'
  <1>1. cursor \in DOMAIN pool /\ cursor \in Nat /\ pool' = pool
    BY MatchOutcome DEF Match
  <1>2. PICK i \in DOMAIN entries :
             /\ i \in Open(pool[cursor])
             /\ entries'[i] = Settled(i)
             /\ \A j \in DOMAIN entries \ {i} : entries'[j] = entries[j]
             /\ \A j \in DOMAIN entries' \ DOMAIN entries :
                   \E k \in DOMAIN pool[cursor].declares :
                         entries'[j] = MakeEntry(pool[cursor].declares[k],
                                                 entries[i].hop + 1, cursor)
    BY MatchEffect
  <1>3. SUFFICES ASSUME NEW j \in DOMAIN entries', entries'[j].artifact # 0
                 PROVE  /\ entries'[j].artifact \in DOMAIN pool
                        /\ entries'[j].capsule_id = pool[entries'[j].artifact].id
                        /\ entries'[j].status
                               = StatusFor(entries'[j], pool[entries'[j].artifact])
    BY <1>1, Zenon DEF SettledJustly, SettledByRecord
  <1>4. j \in DOMAIN entries
    BY <1>2, <1>3 DEF MakeEntry
  <1>5. CASE j = i
    <2>1. /\ entries'[i].artifact = cursor
          /\ entries'[i].capsule_id = entries[i].capsule_id
          /\ entries'[i].manifest_hash = entries[i].manifest_hash
          /\ entries'[i].entry_hash = entries[i].entry_hash
          /\ entries'[i].status = StatusFor(entries[i], pool[cursor])
      BY <1>1, <1>2, SettledMembers
    <2>2. StatusFor(entries'[i], pool[cursor]) = StatusFor(entries[i], pool[cursor])
      BY <2>1, StatusIsLasting
    <2>3. entries[i].capsule_id = pool[cursor].id
      BY <1>2 DEF Open
    <2> QED
      BY <1>1, <1>5, <2>1, <2>2, <2>3
  <1>6. CASE j # i
    BY <1>2, <1>3, <1>4, <1>6 DEF SettledJustly, SettledByRecord
  <1> QED
    BY <1>5, <1>6

(* UnambiguousIsVerified: the exact and valid file of an entry, unambiguous    *)
(* among the files and among the entries, verifies it in whatever order the    *)
(* host gave the files.  The entry does not stay open, or the file would have  *)
(* been taken (NothingLeftToMatch); no other file can have settled it.         *)
THEOREM UnambiguousVerifies == Spec => []UnambiguousIsVerified
  <1>1. Init => SettledJustly
    BY DEF Init, MakeEntry, SettledJustly
  <1>2. TypeOK /\ SettledJustly /\ [Next]_vars => SettledJustly'
    <2> SUFFICES ASSUME TypeOK, SettledJustly, [Next]_vars PROVE SettledJustly'
      OBVIOUS
    <2>1. CASE Match
      BY <2>1, MatchSettlesJustly
    <2>2. CASE Skip \/ NextPass \/ Return \/ UNCHANGED vars
      <3>1. UNCHANGED <<pool, entries>>
        BY <2>2 DEF Skip, NextPass, Return, vars
      <3> QED
        BY <3>1 DEF SettledJustly, SettledByRecord
    <2> QED
      BY <2>1, <2>2 DEF Next
  <1>3. WalkInv /\ SettledJustly /\ NothingLeftToMatch => UnambiguousIsVerified
    <2> SUFFICES ASSUME WalkInv, SettledJustly, NothingLeftToMatch, done,
                        NEW i \in DOMAIN entries, NEW k \in DOMAIN pool,
                        pool[k].kind = "verifiable", pool[k].ok, Exact(entries[i], pool[k]),
                        \A m \in DOMAIN pool \ {k} : pool[m].id # pool[k].id,
                        \A j \in DOMAIN entries \ {i} :
                            entries[j].capsule_id # entries[i].capsule_id
                 PROVE  entries[i].status = "verified" /\ entries[i].artifact = k
      BY DEF UnambiguousIsVerified
    <2>1. entries[i].capsule_id = pool[k].id
      BY DEF Exact
    <2>2. entries[i].artifact # 0
      <3>1. CASE k \in assigned
        <4>1. PICK j \in DOMAIN entries : entries[j].artifact = k /\ k # 0
          BY <3>1 DEF WalkInv, OneEntryPerArtifact
        <4>2. entries[j].capsule_id = pool[k].id
          BY <4>1 DEF SettledJustly, SettledByRecord
        <4>3. j = i
          BY <2>1, <4>2
        <4> QED
          BY <4>1, <4>3
      <3>2. CASE k \notin assigned
        <4>1. Open(pool[k]) = {}
          BY <3>2 DEF NothingLeftToMatch
        <4>2. entries[i].status # "unverified"
          BY <2>1, <4>1 DEF Open
        <4> QED
          BY <4>2 DEF WalkInv, OneEntryPerArtifact
      <3> QED
        BY <3>1, <3>2
    <2>3. /\ entries[i].artifact \in DOMAIN pool
          /\ entries[i].capsule_id = pool[entries[i].artifact].id
          /\ entries[i].status = StatusFor(entries[i], pool[entries[i].artifact])
      BY <2>2 DEF SettledJustly, SettledByRecord
    <2>4. entries[i].artifact = k
      BY <2>1, <2>3
    <2> QED
      BY <2>3, <2>4 DEF StatusFor
  <1> QED
    BY <1>1, <1>2, <1>3, TypeCorrect, ReportCorrect, WalkIsExhaustive, PTL DEF Spec

-----------------------------------------------------------------------------
(* How far the walk still has to go *)

LEMMA AssignedCount ==
    ASSUME TypeOK
    PROVE  /\ IsFiniteSet(assigned)
           /\ Cardinality(assigned) \in 0..Len(pool)
           /\ \A k \in DOMAIN pool \ assigned :
                  /\ Cardinality(assigned \cup {k}) = Cardinality(assigned) + 1
                  /\ Cardinality(assigned) < Len(pool)
  <1>1. Len(pool) \in Nat /\ DOMAIN pool = 1..Len(pool) /\ assigned \subseteq 1..Len(pool)
    BY PoolTypes DEF TypeOK
  <1>2. IsFiniteSet(1..Len(pool)) /\ Cardinality(1..Len(pool)) = Len(pool)
    BY <1>1, IntervalSize
  <1>3. /\ IsFiniteSet(assigned) /\ Cardinality(assigned) \in Nat
        /\ Cardinality(assigned) <= Len(pool)
    <2> DEFINE S == 1..Len(pool)
    <2>1. IsFiniteSet(S) /\ Cardinality(S) = Len(pool) /\ assigned \in SUBSET S
      BY <1>1, <1>2
    <2> HIDE DEF S
    <2>2. IsFiniteSet(assigned) /\ Cardinality(assigned) <= Cardinality(S)
      BY <2>1, FS_Subset
    <2> QED
      BY <2>1, <2>2, FS_CardinalityType
  <1>4. ASSUME NEW k \in DOMAIN pool \ assigned
        PROVE  /\ Cardinality(assigned \cup {k}) = Cardinality(assigned) + 1
               /\ Cardinality(assigned) < Len(pool)
    <2>1. Cardinality(assigned \cup {k}) = Cardinality(assigned) + 1
      BY <1>3, FS_AddElement
    <2> DEFINE S == 1..Len(pool)
    <2>2. IsFiniteSet(S) /\ Cardinality(S) = Len(pool) /\ assigned \cup {k} \in SUBSET S
      BY <1>1, <1>2
    <2> HIDE DEF S
    <2>3. Cardinality(assigned \cup {k}) <= Len(pool)
      BY <2>2, FS_Subset
    <2> QED
      BY <1>1, <1>3, <2>1, <2>3
  <1> QED
    BY <1>1, <1>3, <1>4

(* Passes are counted in whole passes. *)
LEMMA OnePassLess ==
    ASSUME NEW n \in Nat, NEW m \in Nat
    PROVE  (n + 1) * m \in Nat /\ (n + 1) * (m + 1) = (n + 1) * m + (n + 1)
  OBVIOUS

LEMMA StepsAreCounted ==
    ASSUME TypeOK
    PROVE  StepsLeft \in Nat /\ (~done => StepsLeft # 0)
  <1>1. Len(pool) \in Nat /\ cursor \in 1..(Len(pool) + 1)
    BY PoolTypes DEF TypeOK
  <1> DEFINE m == Len(pool) - Cardinality(assigned) + (IF changed THEN 1 ELSE 0)
  <1>2. m \in Nat
    BY <1>1, AssignedCount
  <1>3. StepsLeft = IF done THEN 0 ELSE 1 + (Len(pool) + 1 - cursor) + (Len(pool) + 1) * m
    BY DEF StepsLeft
  <1> HIDE DEF m
  <1>4. (Len(pool) + 1) * m \in Nat
    BY <1>1, <1>2, OnePassLess
  <1> QED
    BY <1>1, <1>3, <1>4

(* WalkIsBounded: whatever the files declare, the loops of evaluateLineage make *)
(* at most (n + 1) * (n + 1) iterations over n files: a file is assigned once,  *)
(* and only a pass that assigned one is followed by another.                    *)
THEOREM WalkEnds ==
    /\ Init => StepsLeft = (Len(pool) + 1) * (Len(pool) + 1)
    /\ Spec => WalkIsBounded
  <1>1. ASSUME Init
        PROVE  StepsLeft = (Len(pool) + 1) * (Len(pool) + 1)
    <2>1. Len(pool) \in Nat
      BY <1>1, PoolTypes DEF Init
    <2>2. /\ assigned = {} /\ cursor = 1 /\ ~changed /\ ~done
          /\ Cardinality({}) = 0
      BY <1>1, FS_EmptySet DEF Init
    <2>3. StepsLeft = 1 + Len(pool) + (Len(pool) + 1) * Len(pool)
      BY <2>1, <2>2 DEF StepsLeft
    <2> QED
      BY <2>1, <2>3, OnePassLess
  <1>2. ASSUME TypeOK, StepsLeft \in Nat, (StepsLeft \in Nat)', Next
        PROVE  StepsLeft' \in 0..(StepsLeft - 1)
    <2> DEFINE n == Len(pool)
               a == Cardinality(assigned)
    <2>1. n \in Nat /\ DOMAIN pool = 1..n /\ cursor \in 1..(n + 1) /\ a \in 0..n
      BY <1>2, PoolTypes, AssignedCount DEF TypeOK
    <2>2. StepsLeft \in Nat /\ StepsLeft' \in Nat
      BY <1>2
    <2>3. CASE Skip
      <3>1. /\ UNCHANGED <<pool, assigned, changed, done>> /\ ~done
            /\ cursor' = cursor + 1
        BY <2>3 DEF Skip, AtRecord
      <3> DEFINE p == (Len(pool) + 1)
                          * (Len(pool) - Cardinality(assigned) + (IF changed THEN 1 ELSE 0))
      <3>2. p \in Nat
        BY <2>1, OnePassLess
      <3>3. /\ StepsLeft = 1 + (n + 1 - cursor) + p
            /\ StepsLeft' = 1 + (n + 1 - (cursor + 1)) + p
        BY <3>1 DEF StepsLeft
      <3> HIDE DEF p, n
      <3> QED
        BY <2>1, <2>2, <3>2, <3>3
    <2>4. CASE Match
      <3>1. /\ pool' = pool /\ done' = done /\ ~done /\ changed' = TRUE
            /\ cursor \in 1..n /\ cursor \notin assigned
            /\ cursor' = cursor + 1 /\ assigned' = assigned \cup {cursor}
        BY <2>1, <2>4 DEF Match, AtRecord
      <3>2. Cardinality(assigned') = a + 1 /\ a < n
        BY <1>2, <2>1, <3>1, AssignedCount
      <3>3. /\ StepsLeft = 1 + (n + 1 - cursor) + (n + 1) * (n - a + (IF changed THEN 1 ELSE 0))
            /\ StepsLeft' = 1 + (n + 1 - (cursor + 1)) + (n + 1) * (n - (a + 1) + 1)
        BY <3>1, <3>2 DEF StepsLeft
      <3>4. (n + 1) * (n - a + 1) = (n + 1) * (n - a) + (n + 1) /\ (n + 1) * (n - a) \in Nat
        <4>1. n - a \in Nat
          BY <2>1
        <4> HIDE DEF n, a
        <4> QED BY <2>1, <4>1, OnePassLess
      <3>5. n - (a + 1) + 1 = n - a /\ n - a + 0 = n - a
        BY <2>1
      <3> HIDE DEF n, a
      <3>6. CASE changed
        BY <2>1, <2>2, <3>1, <3>3, <3>4, <3>5, <3>6
      <3>7. CASE ~changed
        BY <2>1, <2>2, <3>1, <3>3, <3>4, <3>5, <3>7
      <3> QED BY <3>6, <3>7
    <2>5. CASE NextPass
      <3>1. /\ pool' = pool /\ done' = done /\ ~done /\ changed /\ changed' = FALSE
            /\ cursor = n + 1 /\ cursor' = 1 /\ assigned' = assigned
        BY <2>1, <2>5 DEF NextPass
      <3>2. /\ StepsLeft = 1 + (n + 1 - cursor) + (n + 1) * (n - a + 1)
            /\ StepsLeft' = 1 + (n + 1 - 1) + (n + 1) * (n - a + 0)
        BY <3>1 DEF StepsLeft
      <3>3. n - a \in Nat /\ n - a + 0 = n - a
        BY <2>1
      <3> HIDE DEF n, a
      <3>4. (n + 1) * (n - a + 1) = (n + 1) * (n - a) + (n + 1) /\ (n + 1) * (n - a) \in Nat
        BY <2>1, <3>3, OnePassLess
      <3> QED
        BY <2>1, <2>2, <3>1, <3>2, <3>3, <3>4
    <2>6. CASE Return
      <3>1. ~done /\ StepsLeft' = 0
        BY <2>6 DEF Return, StepsLeft
      <3> QED
        BY <1>2, <2>2, <3>1, StepsAreCounted
    <2> QED
      BY <1>2, <2>3, <2>4, <2>5, <2>6 DEF Next
  <1>3. TypeOK => StepsLeft \in Nat
    BY StepsAreCounted
  <1>4. TypeOK /\ StepsLeft \in Nat /\ (StepsLeft \in Nat)' /\ [Next]_vars
            => [StepsLeft' \in 0..(StepsLeft - 1)]_vars
    BY <1>2
  <1>5. Spec => WalkIsBounded
    BY <1>3, <1>4, TypeCorrect, PTL DEF Spec, WalkIsBounded
  <1> QED
    BY <1>1, <1>5

=============================================================================

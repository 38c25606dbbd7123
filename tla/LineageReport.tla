---------------------------- MODULE LineageReport ----------------------------
(***************************************************************************)
(* What the lineage area promises, whatever order the walk works in: every *)
(* entry starts unverified, is resolved at most once, by one supplied      *)
(* artifact of the identity it declares and with the status that artifact  *)
(* justifies; the list only grows, and only by the declarations of the     *)
(* artifact that resolves an entry with exactly its manifest hash.         *)
(***************************************************************************)
EXTENDS LineageClaims

CONSTANT HopCap

VARIABLES pool, entries

Init == \A i \in DOMAIN entries : entries[i].status = "unverified" /\ entries[i].hop = 1

Resolve(i, k) ==
    LET entry == entries[i]
        resolved == [entries EXCEPT ![i] = [@ EXCEPT !.status = StatusFor(entry, pool[k]),
                                                     !.artifact = k]]
    IN  /\ entry.status = "unverified"
        /\ pool[k].kind # "unreadable"
        /\ entry.capsule_id = pool[k].id
        /\ \A j \in DOMAIN entries : entries[j].artifact # k
        /\ \/ entries' = resolved
           \/ /\ entry.manifest_hash = pool[k].mh
              /\ entry.hop + 1 <= HopCap
              /\ entries' = resolved \o Frontier(pool[k], entry.hop + 1, k)
        /\ UNCHANGED pool

Next == \E i \in DOMAIN entries, k \in DOMAIN pool : Resolve(i, k)

Spec == Init /\ [][Next]_<<pool, entries>>

=============================================================================

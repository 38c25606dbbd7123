--------------------------- MODULE CapsulePromise ---------------------------
(***************************************************************************)
(* What the format promises a recipient, without hashes, signatures or     *)
(* containers: authors issue capsules, and a capsule the recipient takes   *)
(* for an author's is one that author issued.                              *)
(***************************************************************************)

VARIABLES
    issued,     \* the capsules authors sealed so far
    vouched     \* the capsules recipients took for an honest author's

Init == issued = {} /\ vouched = {}

Issue ==
    /\ issued \subseteq issued'
    /\ UNCHANGED vouched

Vouch ==
    /\ \E c \in issued : vouched' = vouched \cup {c}
    /\ UNCHANGED issued

Spec == Init /\ [][Issue \/ Vouch]_<<issued, vouched>>

=============================================================================

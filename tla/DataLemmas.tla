----------------------------- MODULE DataLemmas -----------------------------
(***************************************************************************)
(* What the proofs need to know of numbers and sequences: induction over   *)
(* sets of naturals, from WFMin of WellFoundedInduction, which takes a set *)
(* and not a predicate; and sequences of whatever elements.                *)
(***************************************************************************)
EXTENDS Naturals, Sequences, WellFoundedInduction, TLAPS

\* A nonempty set has an element below which R has none.
LEMMA MinimalElement ==
    ASSUME NEW R, IsWellFoundedOn(R, Nat), NEW S, S \subseteq Nat, S # {}
    PROVE  \E n \in S : \A m \in S : ~(<<m, n>> \in R)
  BY WFMin

\* A nonempty set of naturals has a least element.
LEMMA LeastNatural ==
    ASSUME NEW S, S \subseteq Nat, S # {}
    PROVE  \E n \in S : \A m \in S : n <= m
  <1> DEFINE R == OpToRel(<, Nat)
  <1>1. IsWellFoundedOn(R, Nat)
    BY NatLessThanWellFounded
  <1>2. \A a, b \in Nat : a < b => <<a, b>> \in R
    BY DEF OpToRel
  <1> HIDE DEF R
  <1>3. PICK n \in S : \A m \in S : ~(<<m, n>> \in R)
    BY <1>1, MinimalElement
  <1>4. \A m \in S : n <= m
    <2> TAKE m \in S
    <2>1. m \in Nat /\ n \in Nat
      OBVIOUS
    <2>2. ~(m < n)
      BY <1>2, <1>3, <2>1
    <2> QED BY <2>1, <2>2
  <1> QED BY <1>4

\* A set with zero and every successor of its members holds every natural.
LEMMA AllNaturals ==
    ASSUME NEW S, 0 \in S, \A n \in Nat : n \in S => n + 1 \in S
    PROVE  \A n \in Nat : n \in S
  <1> SUFFICES ASSUME NEW k \in Nat, k \notin S PROVE FALSE
    OBVIOUS
  <1>1. PICK n \in Nat \ S : \A m \in Nat \ S : n <= m
    BY LeastNatural
  <1>2. n # 0 /\ n - 1 \in Nat
    BY <1>1
  <1>3. n - 1 \in S
    BY <1>1, <1>2
  <1> QED BY <1>1, <1>2, <1>3

\* A nonempty set of places in a list has a last one.
LEMMA LastPlace ==
    ASSUME NEW n \in Nat, NEW S, S \subseteq 1..n, S # {}
    PROVE  \E k \in S : \A j \in S : j <= k
  <1> DEFINE T == {n - k : k \in S}
  <1>1. T \subseteq Nat /\ T # {}
    <2>1. \A k \in S : n - k \in Nat
      OBVIOUS
    <2> QED BY <2>1
  <1>2. PICK m \in T : \A j \in T : m <= j
    BY <1>1, LeastNatural
  <1>3. PICK k \in S : m = n - k
    BY <1>2
  <1>4. \A j \in S : m <= n - j
    BY <1>2
  <1> QED BY <1>3, <1>4

-----------------------------------------------------------------------------
(* A sequence, of whatever elements. *)
IsSeq(s) == s \in Seq({s[i] : i \in DOMAIN s})

LEMMA SeqShape ==
    ASSUME NEW s, IsSeq(s)
    PROVE  Len(s) \in Nat /\ DOMAIN s = 1..Len(s) /\ (s = <<>> <=> Len(s) = 0)
  BY DEF IsSeq

LEMMA SeqOfIsSeq ==
    ASSUME NEW S, NEW s \in Seq(S)
    PROVE  IsSeq(s)
  <1> DEFINE elements == {s[i] : i \in DOMAIN s}
  <1>1. Len(s) \in Nat /\ DOMAIN s = 1..Len(s) /\ s = [i \in 1..Len(s) |-> s[i]]
    OBVIOUS
  <1>2. \A i \in 1..Len(s) : s[i] \in elements
    BY <1>1
  <1> HIDE DEF elements
  <1>3. s \in Seq(elements)
    BY <1>1, <1>2
  <1> QED BY <1>3 DEF elements, IsSeq

(* So is every function over 1..n. *)
LEMMA IndexedIsSeq ==
    ASSUME NEW s, NEW n \in Nat, s = [i \in 1..n |-> s[i]]
    PROVE  IsSeq(s) /\ DOMAIN s = 1..n /\ Len(s) = n
  <1> DEFINE elements == {s[i] : i \in 1..n}
             t == [i \in 1..n |-> s[i]]
  <1>1. \A i \in 1..n : s[i] \in elements
    OBVIOUS
  <1>2. DOMAIN s = 1..n
    OBVIOUS
  <1>3. {s[i] : i \in DOMAIN s} = elements
    BY <1>2
  <1> HIDE DEF elements
  <1>4. t \in Seq(elements) /\ Len(t) = n
    BY <1>1
  <1>5. s = t
    OBVIOUS
  <1> HIDE DEF t
  <1> QED BY <1>2, <1>3, <1>4, <1>5 DEF IsSeq

(* Append keeps what was there and adds one element. *)
LEMMA AppendedSeq ==
    ASSUME NEW s, NEW e, IsSeq(s)
    PROVE  /\ IsSeq(Append(s, e))
           /\ DOMAIN s \subseteq DOMAIN Append(s, e)
           /\ \A i \in DOMAIN s : Append(s, e)[i] = s[i]
           /\ \A i \in DOMAIN Append(s, e) \ DOMAIN s : Append(s, e)[i] = e
           /\ Len(s) + 1 \in DOMAIN Append(s, e)
           /\ Append(s, e)[Len(s) + 1] = e
  <1> DEFINE S == {s[i] : i \in DOMAIN s} \cup {e}
             t == Append(s, e)
  <1>1. s \in Seq(S)
    BY DEF IsSeq
  <1>2. /\ t \in Seq(S)
        /\ DOMAIN t = 1..(Len(s) + 1)
        /\ DOMAIN s = 1..Len(s)
        /\ Len(s) \in Nat
        /\ \A i \in 1..Len(s) : t[i] = s[i]
        /\ t[Len(s) + 1] = e
    BY <1>1
  <1>3. t \in Seq({t[i] : i \in DOMAIN t})
    BY <1>2
  <1> HIDE DEF t
  <1>4. IsSeq(t)
    BY <1>3 DEF IsSeq
  <1> QED
    BY <1>2, <1>4 DEF t

(* So does \o, and it adds a sequence. *)
Extends(u, s, t) ==
    /\ IsSeq(u)
    /\ DOMAIN s \subseteq DOMAIN u
    /\ \A i \in DOMAIN s : u[i] = s[i]
    /\ \A i \in DOMAIN u \ DOMAIN s : \E k \in DOMAIN t : u[i] = t[k]

LEMMA ConcatenatedSeq ==
    ASSUME NEW s, NEW t, IsSeq(s), IsSeq(t), NEW u, u = s \o t
    PROVE  Extends(u, s, t)
  <1> DEFINE S == {s[i] : i \in DOMAIN s} \cup {t[i] : i \in DOMAIN t}
  <1>1. s \in Seq(S) /\ t \in Seq(S)
    BY DEF IsSeq
  <1>2. /\ u \in Seq(S)
        /\ DOMAIN u = 1..(Len(s) + Len(t))
        /\ DOMAIN s = 1..Len(s) /\ DOMAIN t = 1..Len(t)
        /\ Len(s) \in Nat /\ Len(t) \in Nat
        /\ \A i \in 1..Len(s) : u[i] = s[i]
        /\ \A i \in (Len(s) + 1)..(Len(s) + Len(t)) : u[i] = t[i - Len(s)]
    BY <1>1
  <1>3. IsSeq(u)
    BY <1>2, SeqOfIsSeq
  <1> HIDE DEF S
  <1>4. ASSUME NEW i \in DOMAIN u \ DOMAIN s
        PROVE  \E k \in DOMAIN t : u[i] = t[k]
    <2>1. i \in (Len(s) + 1)..(Len(s) + Len(t)) /\ i - Len(s) \in DOMAIN t
      BY <1>2, <1>4
    <2> QED BY <1>2, <2>1
  <1> QED
    BY <1>2, <1>3, <1>4 DEF Extends

-----------------------------------------------------------------------------
(* f selects the members of set among the first m of list, in order. *)
Selects(f, list, set, m) ==
    f = [n \in 0..m |-> IF n = 0 THEN <<>>
                        ELSE IF list[n] \in set THEN Append(f[n - 1], list[n]) ELSE f[n - 1]]

(* Such a function exists, by induction on the length. *)
LEMMA SelectionExists ==
    ASSUME NEW list, NEW set, NEW m \in Nat
    PROVE  \E f : Selects(f, list, set, m)
  <1> DEFINE S == {n \in Nat : \E f : Selects(f, list, set, n)}
  <1>1. 0 \in S
    <2> DEFINE g == [n \in 0..0 |-> <<>>]
    <2>1. Selects(g, list, set, 0)
      BY DEF Selects
    <2> QED BY <2>1
  <1>2. ASSUME NEW n \in Nat, n \in S
        PROVE  n + 1 \in S
    <2>1. PICK f : Selects(f, list, set, n)
      BY <1>2
    <2> DEFINE next == IF list[n + 1] \in set THEN Append(f[n], list[n + 1]) ELSE f[n]
               g == [k \in 0..(n + 1) |-> IF k = n + 1 THEN next ELSE f[k]]
               h == [k \in 0..(n + 1) |->
                        IF k = 0 THEN <<>>
                        ELSE IF list[k] \in set THEN Append(g[k - 1], list[k]) ELSE g[k - 1]]
    <2>2. \A k \in 0..(n + 1) : g[k] = h[k]
      <3> TAKE k \in 0..(n + 1)
      <3>1. CASE k = n + 1
        <4>1. g[k] = next /\ g[k - 1] = f[n] /\ k # 0
          BY <3>1
        <4> HIDE DEF g
        <4> QED BY <3>1, <4>1
      <3>2. CASE k # n + 1 /\ k # 0
        <4>1. k \in 0..n /\ k - 1 \in 0..n
          BY <3>2
        <4>2. g[k] = f[k] /\ g[k - 1] = f[k - 1]
          BY <3>2, <4>1
        <4>3. f[k] = IF list[k] \in set THEN Append(f[k - 1], list[k]) ELSE f[k - 1]
          BY <2>1, <3>2, <4>1 DEF Selects
        <4> HIDE DEF g
        <4> QED BY <3>2, <4>2, <4>3
      <3>3. CASE k # n + 1 /\ k = 0
        <4>1. f[0] = <<>> /\ g[0] = f[0]
          BY <2>1, <3>3 DEF Selects
        <4> HIDE DEF g
        <4> QED BY <3>3, <4>1
      <3> QED BY <3>1, <3>2, <3>3
    <2>3. g = h
      BY <2>2
    <2>4. Selects(g, list, set, n + 1)
      <3> HIDE DEF g
      <3> QED BY <2>3 DEF Selects
    <2> QED BY <2>4
  <1> HIDE DEF S
  <1>3. m \in S
    BY <1>1, <1>2, AllNaturals
  <1> QED BY <1>3 DEF S

(* s lists the members of set among the first n of list, each once. *)
Listed(s, list, set, n) ==
    /\ s \in Seq(set)
    /\ \A i \in DOMAIN s : \E k \in 1..n : s[i] = list[k]
    /\ \A k \in 1..n : list[k] \in set => \E i \in DOMAIN s : s[i] = list[k]
    /\ \A i, j \in DOMAIN s : s[i] = s[j] => i = j

(* Of a list without repetitions each member of the set is listed once. *)
LEMMA SelectionLists ==
    ASSUME NEW list, IsSeq(list), NEW set, NEW f, Selects(f, list, set, Len(list)),
           \A i, j \in DOMAIN list : list[i] = list[j] => i = j
    PROVE  Listed(f[Len(list)], list, set, Len(list))
  <1> DEFINE m == Len(list)
             S == {n \in Nat : n <= m => Listed(f[n], list, set, n)}
  <1>1. m \in Nat /\ DOMAIN list = 1..m
    BY SeqShape
  <1>2. \A n \in 0..m : f[n] = IF n = 0 THEN <<>>
                                ELSE IF list[n] \in set THEN Append(f[n - 1], list[n])
                                ELSE f[n - 1]
    BY DEF Selects
  <1>3. 0 \in S
    <2>1. f[0] = <<>>
      BY <1>1, <1>2
    <2>2. Listed(<<>>, list, set, 0)
      BY DEF Listed
    <2> QED BY <2>1, <2>2
  <1>4. ASSUME NEW n \in Nat, n \in S
        PROVE  n + 1 \in S
    <2> SUFFICES ASSUME n + 1 <= m PROVE Listed(f[n + 1], list, set, n + 1)
      OBVIOUS
    <2> DEFINE s == f[n]
               e == list[n + 1]
    <2>1. Listed(s, list, set, n)
      BY <1>1, <1>4
    <2>2. f[n + 1] = IF e \in set THEN Append(s, e) ELSE s
      <3>1. n + 1 \in 0..m /\ n + 1 # 0 /\ (n + 1) - 1 = n
        BY <1>1
      <3> QED BY <1>2, <3>1
    <2>3. 1..(n + 1) = (1..n) \cup {n + 1} /\ n + 1 \in DOMAIN list /\ 1..n \subseteq DOMAIN list
      BY <1>1
    <2>4. CASE e \in set
      <3> DEFINE t == Append(s, e)
      <3>1. /\ t \in Seq(set) /\ Len(s) \in Nat
            /\ DOMAIN s = 1..Len(s) /\ DOMAIN t = (1..Len(s)) \cup {Len(s) + 1}
            /\ \A i \in DOMAIN s : t[i] = s[i]
            /\ t[Len(s) + 1] = e
        BY <2>1, <2>4 DEF Listed
      <3> HIDE DEF t
      <3>2. \A i \in DOMAIN s : s[i] # e
        <4> SUFFICES ASSUME NEW i \in DOMAIN s, s[i] = e PROVE FALSE
          OBVIOUS
        <4>1. PICK k \in 1..n : s[i] = list[k]
          BY <2>1 DEF Listed
        <4>2. k = n + 1
          BY <2>3, <4>1
        <4> QED BY <4>1, <4>2
      <3>3. \A i \in DOMAIN t : \E k \in 1..(n + 1) : t[i] = list[k]
        BY <2>1, <2>3, <3>1 DEF Listed
      <3>4. \A k \in 1..(n + 1) : list[k] \in set => \E i \in DOMAIN t : t[i] = list[k]
        BY <2>1, <2>3, <3>1 DEF Listed
      <3>5. \A i, j \in DOMAIN t : t[i] = t[j] => i = j
        BY <2>1, <3>1, <3>2 DEF Listed
      <3>6. Listed(t, list, set, n + 1)
        BY <3>1, <3>3, <3>4, <3>5 DEF Listed
      <3>7. f[n + 1] = t
        BY <2>2, <2>4 DEF t
      <3> QED BY <3>6, <3>7
    <2>5. CASE e \notin set
      <3>1. Listed(s, list, set, n + 1)
        BY <2>1, <2>3, <2>5 DEF Listed
      <3>2. f[n + 1] = s
        BY <2>2, <2>5
      <3> QED BY <3>1, <3>2
    <2> QED BY <2>4, <2>5
  <1> HIDE DEF S
  <1>5. m \in S
    BY <1>1, <1>3, <1>4, AllNaturals
  <1> QED BY <1>1, <1>5 DEF S

=============================================================================

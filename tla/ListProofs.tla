----------------------------- MODULE ListProofs -----------------------------
EXTENDS Lists, SequenceTheorems, FiniteSetTheorems, TLAPS

(* A set of numbers that is not empty has a least one: what induction is    *)
(* for, in a form without a predicate.                                      *)
LEMMA LeastNumber ==
  ASSUME NEW T \in SUBSET Nat, T # {}
  PROVE  \E m \in T : \A n \in T : m <= n
<1> DEFINE Below == {0 .. n : n \in T}
           Shorter == StrictSubsetOrdering(Nat)
<1>1. Below \subseteq FiniteSubsetsOf(Nat)
  <2>1. ASSUME NEW n \in T PROVE IsFiniteSet(0 .. n) /\ 0 .. n \in SUBSET Nat
    BY FS_Interval
  <2>2. QED
    BY <2>1 DEF FiniteSubsetsOf
<1>2. Below # {}
  OBVIOUS
<1>3. \E x \in Below : \A y \in Below : ~ (<<y, x>> \in Shorter)
  <2> HIDE DEF Below, Shorter
  <2>1. IsWellFoundedOn(Shorter, FiniteSubsetsOf(Nat))
    BY FS_StrictSubsetOrderingWellFounded DEF Shorter
  <2>2. QED
    BY <1>1, <1>2, <2>1, WFMin
<1>4. PICK m \in T : \A n \in T : ~ (<<0 .. n, 0 .. m>> \in Shorter)
  BY <1>3
<1>5. ASSUME NEW n \in T PROVE m <= n
  <2>1. SUFFICES ASSUME n < m PROVE FALSE
    OBVIOUS
  <2>2. 0 .. n \subseteq 0 .. m /\ m \in 0 .. m /\ m \notin 0 .. n
    BY <2>1
  <2>3. 0 .. n # 0 .. m /\ 0 .. n \in SUBSET Nat /\ 0 .. m \in SUBSET Nat
    BY <2>2
  <2>4. \A A, B \in SUBSET Nat : A \subseteq B /\ A # B => <<A, B>> \in Shorter
    BY DEF StrictSubsetOrdering
  <2>5. <<0 .. n, 0 .. m>> \in Shorter
    <3> HIDE DEF Shorter
    <3>1. QED
      BY <2>2, <2>3, <2>4
  <2>6. QED
    BY <1>4, <2>5
<1>6. QED
  BY <1>5

-----------------------------------------------------------------------------
(* kept is a table of the values of Only for the beginnings of s up to k.   *)
Table(kept, s, S, k) ==
  /\ DOMAIN kept = 0 .. k /\ kept[0] = <<>>
  /\ \A n \in 1 .. k : kept[n] = IF s[n] \in S THEN Append(kept[n - 1], s[n])
                                ELSE kept[n - 1]

LEMMA TableExists ==
  ASSUME NEW s, NEW S, NEW k \in Nat
  PROVE  \E kept : kept = [n \in 0 .. k |-> kept[n]] /\ Table(kept, s, S, k)
<1> DEFINE Good(n) == \E kept : kept = [i \in 0 .. n |-> kept[i]] /\ Table(kept, s, S, n)
           Bad == {n \in Nat : ~Good(n)}
<1>1. Good(0)
  <2> DEFINE kept == [n \in 0 .. 0 |-> <<>>]
  <2>1. kept = [i \in 0 .. 0 |-> kept[i]] /\ Table(kept, s, S, 0)
    BY DEF Table
  <2> HIDE DEF kept
  <2>2. QED
    BY <2>1
<1>2. ASSUME NEW n \in Nat, Good(n) PROVE Good(n + 1)
  <2>1. PICK kept : Table(kept, s, S, n)
    BY <1>2
  <2> DEFINE next == IF s[n + 1] \in S THEN Append(kept[n], s[n + 1]) ELSE kept[n]
             more == [i \in 0 .. n + 1 |-> IF i = n + 1 THEN next ELSE kept[i]]
  <2>2. /\ more = [i \in 0 .. n + 1 |-> more[i]]
        /\ \A i \in 0 .. n : more[i] = kept[i]
        /\ more[n + 1] = next
    OBVIOUS
  <2> HIDE DEF more
  <2>3. \A i \in 1 .. n + 1 : i = n + 1 \/ (i \in 1 .. n /\ i - 1 \in 0 .. n)
    OBVIOUS
  <2>4. \A i \in 1 .. n + 1 : more[i] = IF s[i] \in S THEN Append(more[i - 1], s[i])
                                      ELSE more[i - 1]
    <3>1. ASSUME NEW i \in 1 .. n + 1
          PROVE  more[i] = IF s[i] \in S THEN Append(more[i - 1], s[i]) ELSE more[i - 1]
      <4>1. CASE i = n + 1
        <5>1. i - 1 = n /\ n \in 0 .. n
          BY <4>1
        <5>2. more[i - 1] = kept[n]
          BY <2>2, <5>1
        <5>3. QED
          BY <2>2, <4>1, <5>2
      <4>2. CASE i \in 1 .. n
        <5>1. i \in 0 .. n /\ i - 1 \in 0 .. n
          BY <4>2
        <5>2. more[i] = kept[i] /\ more[i - 1] = kept[i - 1]
          BY <2>2, <5>1
        <5>3. QED
          BY <2>1, <4>2, <5>2 DEF Table
      <4>3. QED
        BY <2>3, <4>1, <4>2
    <3>2. QED
      BY <3>1
  <2>5. Table(more, s, S, n + 1)
    BY <2>1, <2>2, <2>4 DEF Table
  <2>6. QED
    BY <2>2, <2>5
<1>3. Bad = {}
  <2>1. SUFFICES ASSUME Bad # {} PROVE FALSE
    OBVIOUS
  <2>2. PICK m \in Bad : \A n \in Bad : m <= n
    <3> HIDE DEF Good
    <3>1. QED
      BY <2>1, LeastNumber
  <2> HIDE DEF Good
  <2>3. m # 0 /\ m - 1 \in Nat /\ m - 1 \notin Bad
    BY <1>1, <2>2
  <2>4. QED
    BY <1>2, <2>2, <2>3
<1>4. QED
  BY <1>3

LEMMA OnlyIsTable ==
  ASSUME NEW T, NEW s \in Seq(T), NEW S
  PROVE  \E kept : Table(kept, s, S, Len(s)) /\ Only(s, S) = kept[Len(s)]
<1> DEFINE step(g, n) == IF n = 0 THEN <<>>
                         ELSE IF s[n] \in S THEN Append(g[n - 1], s[n]) ELSE g[n - 1]
           g0 == CHOOSE g : g = [n \in 0 .. Len(s) |-> step(g, n)]
<1>1. Len(s) \in Nat
  OBVIOUS
<1>2. \E g : g = [n \in 0 .. Len(s) |-> step(g, n)]
  <2>1. PICK g : g = [n \in 0 .. Len(s) |-> g[n]] /\ Table(g, s, S, Len(s))
    BY <1>1, TableExists
  <2>2. \A n \in 0 .. Len(s) : g[n] = step(g, n)
    <3>1. ASSUME NEW n \in 0 .. Len(s), n # 0 PROVE n \in 1 .. Len(s)
      BY <1>1, <3>1
    <3>2. QED
      BY <2>1, <3>1 DEF Table
  <2>3. QED
    BY <2>1, <2>2
<1>3. g0 = [n \in 0 .. Len(s) |-> step(g0, n)]
  BY <1>2
<1>4. Only(s, S) = g0[Len(s)]
  BY DEF Only
<1> HIDE DEF g0
<1>5. Table(g0, s, S, Len(s))
  <2>1. DOMAIN g0 = 0 .. Len(s)
    BY <1>3, Zenon
  <2>2. \A n \in 0 .. Len(s) : g0[n] = step(g0, n)
    BY <1>3, Zenon
  <2>3. 0 \in 0 .. Len(s) /\ \A n \in 1 .. Len(s) : n \in 0 .. Len(s) /\ n # 0
    BY <1>1
  <2>4. QED
    BY <2>1, <2>2, <2>3 DEF Table
<1>6. QED
  BY <1>4, <1>5

(* o holds the entries of the first k of s that are in S, and f says where  *)
(* they come from.                                                          *)
Picks(o, f, s, S, k) ==
  /\ f \in [1 .. Len(o) -> 1 .. k]
  /\ \A i \in 1 .. Len(o) : o[i] = s[f[i]] /\ o[i] \in S
  /\ \A i, j \in 1 .. Len(o) : i < j => f[i] < f[j]
  /\ \A n \in 1 .. k : s[n] \in S => \E i \in 1 .. Len(o) : f[i] = n

LEMMA TablePicks ==
  ASSUME NEW T, NEW s \in Seq(T), NEW S, NEW kept, Table(kept, s, S, Len(s))
  PROVE  kept[Len(s)] \in Seq(T) /\ \E f : Picks(kept[Len(s)], f, s, S, Len(s))
<1> DEFINE Good(n) == kept[n] \in Seq(T) /\ \E f : Picks(kept[n], f, s, S, n)
           Bad == {n \in 0 .. Len(s) : ~Good(n)}
<1>1. Len(s) \in Nat /\ \A n \in 1 .. Len(s) : s[n] \in T
  OBVIOUS
<1>2. Good(0)
  <2>1. kept[0] = <<>>
    BY DEF Table
  <2>2. Picks(<<>>, <<>>, s, S, 0)
    BY DEF Picks
  <2>3. QED
    BY <2>1, <2>2
<1>3. ASSUME NEW n \in 0 .. Len(s), n # Len(s), Good(n) PROVE Good(n + 1)
  <2>1. n \in Nat /\ n + 1 \in 1 .. Len(s) /\ s[n + 1] \in T
    BY <1>1, <1>3
  <2>2. kept[n + 1] = IF s[n + 1] \in S THEN Append(kept[n], s[n + 1]) ELSE kept[n]
    <3>1. (n + 1) - 1 = n
      BY <2>1
    <3>2. QED
      BY <2>1, <3>1 DEF Table
  <2>3. PICK f : Picks(kept[n], f, s, S, n)
    BY <1>3
  <2>4. CASE s[n + 1] \notin S
    <3>1. Picks(kept[n], f, s, S, n + 1)
      BY <2>1, <2>3, <2>4 DEF Picks
    <3>2. QED
      BY <1>3, <2>2, <2>4, <3>1
  <2>5. CASE s[n + 1] \in S
    <3> DEFINE o == kept[n]
               p == Append(o, s[n + 1])
               g == [i \in 1 .. Len(p) |-> IF i = Len(p) THEN n + 1 ELSE f[i]]
    <3>1. /\ p \in Seq(T) /\ Len(o) \in Nat /\ Len(p) = Len(o) + 1
          /\ p[Len(p)] = s[n + 1] /\ \A i \in 1 .. Len(o) : p[i] = o[i]
      BY <1>3, <2>1
    <3>2. /\ \A i \in 1 .. Len(p) : i = Len(p) \/ (i \in 1 .. Len(o) /\ i # Len(p))
          /\ \A i \in 1 .. Len(o) : i \in 1 .. Len(p) /\ i # Len(p)
          /\ Len(p) \in 1 .. Len(p)
          /\ \A i, j \in 1 .. Len(p) : i < j => i \in 1 .. Len(o)
      BY <3>1
    <3>3. g[Len(p)] = n + 1 /\ \A i \in 1 .. Len(o) : g[i] = f[i]
      BY <3>2
    <3>4. g = [i \in 1 .. Len(p) |-> g[i]]
      OBVIOUS
    <3>5. Picks(o, f, s, S, n)
      BY <2>3
    <3> HIDE DEF o, p, g
    <3>6. \A i \in 1 .. Len(o) : f[i] \in 1 .. n /\ o[i] = s[f[i]] /\ o[i] \in S
      BY <3>5 DEF Picks
    <3>7. \A i \in 1 .. Len(p) : g[i] \in 1 .. n + 1 /\ p[i] = s[g[i]] /\ p[i] \in S
      <4>1. \A i \in 1 .. Len(o) : g[i] \in 1 .. n + 1 /\ p[i] = s[g[i]] /\ p[i] \in S
        BY <2>1, <3>1, <3>3, <3>6
      <4>2. n + 1 \in 1 .. n + 1
        BY <2>1
      <4>3. QED
        BY <2>5, <3>1, <3>2, <3>3, <4>1, <4>2
    <3>8. \A i, j \in 1 .. Len(p) : i < j => g[i] < g[j]
      <4>1. ASSUME NEW i \in 1 .. Len(p), NEW j \in 1 .. Len(p), i < j
            PROVE  g[i] < g[j]
        <5>1. i \in 1 .. Len(o) /\ g[i] = f[i] /\ f[i] \in 1 .. n
          BY <3>2, <3>3, <3>6, <4>1
        <5>2. CASE j = Len(p)
          BY <2>1, <3>3, <5>1, <5>2
        <5>3. CASE j \in 1 .. Len(o)
          BY <3>5, <3>3, <4>1, <5>1, <5>3 DEF Picks
        <5>4. QED
          BY <3>2, <5>2, <5>3
      <4>2. QED
        BY <4>1
    <3>9. \A m \in 1 .. n + 1 : s[m] \in S => \E i \in 1 .. Len(p) : g[i] = m
      <4>1. ASSUME NEW m \in 1 .. n + 1, s[m] \in S
            PROVE  \E i \in 1 .. Len(p) : g[i] = m
        <5>1. CASE m = n + 1
          BY <3>2, <3>3, <5>1
        <5>2. CASE m \in 1 .. n
          <6>1. PICK i \in 1 .. Len(o) : f[i] = m
            BY <3>5, <4>1, <5>2 DEF Picks
          <6>2. i \in 1 .. Len(p) /\ g[i] = m
            BY <3>2, <3>3, <6>1
          <6>3. QED
            BY <6>2
        <5>3. QED
          BY <2>1, <5>1, <5>2
      <4>2. QED
        BY <4>1
    <3>10. Picks(p, g, s, S, n + 1)
      <4>1. g \in [1 .. Len(p) -> 1 .. n + 1]
        BY <3>7, <3>4
      <4>2. QED
        BY <3>7, <3>8, <3>9, <4>1 DEF Picks
    <3>11. kept[n + 1] = p
      BY <2>2, <2>5 DEF p, o
    <3>12. QED
      BY <3>1, <3>10, <3>11
  <2>6. QED
    BY <2>4, <2>5
<1>4. Bad = {}
  <2> HIDE DEF Good
  <2>1. SUFFICES ASSUME Bad # {} PROVE FALSE
    OBVIOUS
  <2>2. PICK m \in Bad : \A n \in Bad : m <= n
    <3>1. Bad \in SUBSET Nat
      BY <1>1
    <3>2. QED
      BY <2>1, <3>1, LeastNumber
  <2>3. m # 0 /\ m \in 0 .. Len(s) /\ m - 1 \in 0 .. Len(s) /\ m - 1 # Len(s)
        /\ m - 1 \notin Bad
    BY <1>1, <1>2, <2>2
  <2>4. QED
    BY <1>3, <2>2, <2>3
<1>5. QED
  BY <1>1, <1>4

(* What Only does, without the recursion: the rest of the proofs use this.  *)
THEOREM OnlyPicks ==
  ASSUME NEW T, NEW s \in Seq(T), NEW S
  PROVE  Only(s, S) \in Seq(T) /\ \E f : Picks(Only(s, S), f, s, S, Len(s))
  BY OnlyIsTable, TablePicks

(* The same as its uses need it: Only(s, S) has the entries of s that are   *)
(* in S, and two of them are in the order they have in s.                   *)
THEOREM OnlyKeeps ==
  ASSUME NEW T, NEW s \in Seq(T), NEW S
  PROVE  LET o == Only(s, S) IN
         /\ o \in Seq(T)
         /\ \A i \in 1 .. Len(o) : o[i] \in S /\ \E n \in 1 .. Len(s) : s[n] = o[i]
         /\ \A n \in 1 .. Len(s) : s[n] \in S => \E i \in 1 .. Len(o) : o[i] = s[n]
         /\ \A i, j \in 1 .. Len(o) : i < j =>
              \E n, k \in 1 .. Len(s) : n < k /\ s[n] = o[i] /\ s[k] = o[j]
<1> DEFINE o == Only(s, S)
<1>1. PICK f : Picks(o, f, s, S, Len(s))
  BY OnlyPicks
<1>2. o \in Seq(T)
  BY OnlyPicks
<1> HIDE DEF o
<1>3. \A i \in 1 .. Len(o) : f[i] \in 1 .. Len(s) /\ o[i] = s[f[i]] /\ o[i] \in S
  BY <1>1 DEF Picks
<1>4. \A n \in 1 .. Len(s) : s[n] \in S => \E i \in 1 .. Len(o) : o[i] = s[n]
  <2>1. \A n \in 1 .. Len(s) : s[n] \in S => \E i \in 1 .. Len(o) : f[i] = n
    BY <1>1 DEF Picks
  <2>2. QED
    BY <1>3, <2>1
<1>5. \A i, j \in 1 .. Len(o) : i < j => f[i] < f[j]
  BY <1>1 DEF Picks
<1>6. QED
  BY <1>2, <1>3, <1>4, <1>5 DEF o

(* Where the entries of Append and Tail come from.                          *)
LEMMA AppendAt ==
  ASSUME NEW T, NEW q \in Seq(T), NEW e \in T
  PROVE  /\ Len(q) \in Nat /\ Append(q, e) \in Seq(T)
         /\ Len(q) + 1 \in 1 .. Len(Append(q, e)) /\ Append(q, e)[Len(q) + 1] = e
         /\ \A n \in 1 .. Len(q) : n \in 1 .. Len(Append(q, e)) /\ Append(q, e)[n] = q[n]
         /\ \A n \in 1 .. Len(Append(q, e)) :
              \/ n \in 1 .. Len(q) /\ Append(q, e)[n] = q[n]
              \/ n = Len(q) + 1
<1>1. /\ Append(q, e) \in Seq(T) /\ Len(Append(q, e)) = Len(q) + 1
      /\ \A i \in 1 .. Len(q) : Append(q, e)[i] = q[i]
      /\ Append(q, e)[Len(q) + 1] = e
  BY AppendProperties
<1>2. Len(q) \in Nat
  OBVIOUS
<1>3. QED
  BY <1>1, <1>2

LEMMA TailAt ==
  ASSUME NEW T, NEW q \in Seq(T), q # <<>>
  PROVE  /\ Tail(q) \in Seq(T) /\ Head(q) = q[1] /\ 1 \in 1 .. Len(q) /\ q[1] \in T
         /\ Len(q) \in Nat
         /\ \A n \in 1 .. Len(Tail(q)) : n + 1 \in 1 .. Len(q) /\ Tail(q)[n] = q[n + 1]
         /\ \A n \in 1 .. Len(q) : n # 1 =>
              n - 1 \in 1 .. Len(Tail(q)) /\ Tail(q)[n - 1] = q[n]
<1>1. /\ Head(q) \in T /\ Tail(q) \in Seq(T) /\ Len(Tail(q)) = Len(q) - 1
      /\ \A i \in 1 .. Len(Tail(q)) : Tail(q)[i] = q[i + 1]
  BY HeadTailProperties
<1>2. Len(q) \in Nat \ {0} /\ Head(q) = q[1]
  BY EmptySeq
<1>3. \A n \in 1 .. Len(q) : n # 1 =>
        n - 1 \in 1 .. Len(Tail(q)) /\ Tail(q)[n - 1] = q[n]
  <2>1. ASSUME NEW n \in 1 .. Len(q), n # 1
        PROVE  n - 1 \in 1 .. Len(Tail(q)) /\ Tail(q)[n - 1] = q[n]
    <3>1. n - 1 \in 1 .. Len(Tail(q)) /\ (n - 1) + 1 = n
      BY <1>1, <1>2, <2>1
    <3>2. Tail(q)[n - 1] = q[(n - 1) + 1]
      BY <1>1, <3>1
    <3>3. QED
      BY <3>1, <3>2
  <2>2. QED
    BY <2>1
<1>4. QED
  BY <1>1, <1>2, <1>3

(* The numbers of a set, the greatest first: what a query that orders by the*)
(* date of creation returns.                                                *)
LEMMA NewestOnly ==
  ASSUME NEW N \in Nat, NEW rows \in SUBSET (1 .. N)
  PROVE  LET q == Only([k \in 1 .. N |-> N + 1 - k], rows) IN
         /\ q \in Seq(1 .. N) /\ Len(q) \in Nat
         /\ \A i \in 1 .. Len(q) : q[i] \in rows
         /\ \A r \in rows : \E i \in 1 .. Len(q) : q[i] = r
         /\ \A i, j \in 1 .. Len(q) : i < j => q[j] < q[i]
<1> DEFINE all == [k \in 1 .. N |-> N + 1 - k]
           q == Only(all, rows)
<1>1. all \in Seq(1 .. N) /\ Len(all) = N
  <2>1. all \in [1 .. N -> 1 .. N]
    OBVIOUS
  <2>2. QED
    BY <2>1
<1>2. \A n \in 1 .. N : all[n] = N + 1 - n
  OBVIOUS
<1> HIDE DEF all
<1>3. /\ q \in Seq(1 .. N)
      /\ \A i \in 1 .. Len(q) : q[i] \in rows /\ \E n \in 1 .. Len(all) : all[n] = q[i]
      /\ \A n \in 1 .. Len(all) : all[n] \in rows => \E i \in 1 .. Len(q) : q[i] = all[n]
      /\ \A i, j \in 1 .. Len(q) : i < j =>
           \E n, k \in 1 .. Len(all) : n < k /\ all[n] = q[i] /\ all[k] = q[j]
  <2> DEFINE T == 1 .. N
  <2>1. all \in Seq(T)
    BY <1>1
  <2> HIDE DEF T
  <2>2. LET o == Only(all, rows) IN
         /\ o \in Seq(T)
         /\ \A i \in 1 .. Len(o) : o[i] \in rows /\ \E n \in 1 .. Len(all) : all[n] = o[i]
         /\ \A n \in 1 .. Len(all) : all[n] \in rows => \E i \in 1 .. Len(o) : o[i] = all[n]
         /\ \A i, j \in 1 .. Len(o) : i < j =>
              \E n, k \in 1 .. Len(all) : n < k /\ all[n] = o[i] /\ all[k] = o[j]
    BY <2>1, OnlyKeeps
  <2>3. QED
    BY <2>2 DEF T
<1>4. Len(q) \in Nat
  BY <1>3
<1> HIDE DEF q
<1>5. ASSUME NEW r \in rows PROVE \E i \in 1 .. Len(q) : q[i] = r
  <2>1. PICK n \in 1 .. N : n = N + 1 - r
    OBVIOUS
  <2>2. all[n] = r /\ n \in 1 .. Len(all)
    BY <1>1, <1>2, <2>1
  <2>3. QED
    BY <1>3, <2>2
<1>6. ASSUME NEW i \in 1 .. Len(q), NEW j \in 1 .. Len(q), i < j PROVE q[j] < q[i]
  <2>1. PICK n \in 1 .. Len(all), k \in 1 .. Len(all) : n < k /\ all[n] = q[i] /\ all[k] = q[j]
    BY <1>3, <1>6
  <2>2. QED
    BY <1>1, <1>2, <2>1
<1>7. QED
  BY <1>3, <1>4, <1>5, <1>6 DEF q, all

=============================================================================

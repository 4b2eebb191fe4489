---------------------------- MODULE KeyPathProofs ----------------------------
(***************************************************************************)
(* The proof that every value of a document is found by the key path it    *)
(* was written with and by no other, for all keys, paths, documents,       *)
(* numbers of parses and of changes.                                       *)
(*                                                                         *)
(* The keys of a path lead from table to table (Leads).  They lead to one  *)
(* value at most, and since a value has one place only, one path at most   *)
(* leads to it from a root (LeadsNowhereElse).  The parser only adds to    *)
(* the heap (Grows), so what keys lead to once they lead to ever after;    *)
(* with what DocumentUseProofs knows of the heap every step keeps the      *)
(* names of all that was written (WrittenInv).  The last part shows that   *)
(* the recursion of the access by key paths goes where the keys lead.      *)
(***************************************************************************)
EXTENDS DocumentUseProofs

----------------------------------------------------------------------------
\* Key paths: what leads somewhere, and that it leads nowhere else

\* The arrays of tables of a heap.
TableArrays(h) == {n \in Node : isArray(h, n) /\ h[n].source # "Value"}

\* A path that is not empty is a prefix of itself, and the prefixes of a prefix
\* are prefixes.
LEMMA PrefixesOfPath ==
    ASSUME NEW K \in Seq(Key)
    PROVE  /\ K # <<>> => K \in Prefixes(K)
           /\ \A J \in Prefixes(K) : /\ J \in Seq(Key) /\ Len(J) \in 1..Len(K)
                                     /\ \A i \in 1..Len(J) : J[i] = K[i]
                                     /\ Prefixes(J) \subseteq Prefixes(K)
<1>1. ASSUME NEW n \in 1..Len(K)
      PROVE  /\ SubSeq(K, 1, n) \in Seq(Key) /\ Len(SubSeq(K, 1, n)) = n
             /\ \A i \in 1..n : SubSeq(K, 1, n)[i] = K[i]
  OBVIOUS
<1>2. ASSUME NEW n \in 1..Len(K), NEW m \in 1..n
      PROVE  SubSeq(SubSeq(K, 1, n), 1, m) = SubSeq(K, 1, m)
  <2> DEFINE J == SubSeq(K, 1, n)
  <2>1. J \in Seq(Key) /\ Len(J) = n /\ \A i \in 1..n : J[i] = K[i]
    BY <1>1
  <2> HIDE DEF J
  <2>2. m \in 1..Len(K) /\ m \in 1..Len(J)
    BY <2>1
  <2>3. /\ SubSeq(J, 1, m) \in Seq(Key) /\ Len(SubSeq(J, 1, m)) = m
        /\ \A i \in 1..m : SubSeq(J, 1, m)[i] = J[i]
    BY <2>1, <2>2
  <2>4. /\ SubSeq(K, 1, m) \in Seq(Key) /\ Len(SubSeq(K, 1, m)) = m
        /\ \A i \in 1..m : SubSeq(K, 1, m)[i] = K[i]
    BY <1>1, <2>2
  <2>5. \A i \in 1..m : SubSeq(J, 1, m)[i] = SubSeq(K, 1, m)[i]
    BY <2>1, <2>3, <2>4
  <2>6. SubSeq(J, 1, m) = SubSeq(K, 1, m)
    BY <2>3, <2>4, <2>5, SeqEqual
  <2> QED
    BY <2>6 DEF J
<1>3. K # <<>> => Len(K) \in 1..Len(K) /\ SubSeq(K, 1, Len(K)) = K
  BY SubSeqFull, EmptySeq
<1>4. ASSUME NEW n \in 1..Len(K), NEW m \in 1..Len(SubSeq(K, 1, n))
      PROVE  m \in 1..Len(K) /\ SubSeq(SubSeq(K, 1, n), 1, m) = SubSeq(K, 1, m)
  <2>1. m \in 1..n /\ m \in 1..Len(K)
    BY <1>1
  <2> QED
    BY <1>2, <2>1
<1>5. ASSUME NEW n \in 1..Len(K) PROVE Prefixes(SubSeq(K, 1, n)) \subseteq Prefixes(K)
  BY <1>4 DEF Prefixes
<1> QED
  BY <1>1, <1>3, <1>5 DEF Prefixes

\* A path with one key more has one prefix more.
LEMMA PrefixesOfLonger ==
    ASSUME NEW K \in Seq(Key), NEW k \in Key
    PROVE  /\ Append(K, k) \in Seq(Key) \ {<<>>} /\ Append(K, k) \notin Prefixes(K)
           /\ Prefixes(Append(K, k)) = Prefixes(K) \cup {Append(K, k)}
<1> DEFINE L == Append(K, k)
<1>1. /\ L \in Seq(Key) /\ Len(L) = Len(K) + 1 /\ Len(K) \in Nat
      /\ \A i \in 1..Len(K) : L[i] = K[i]
  OBVIOUS
<1> HIDE DEF L
<1>2. \A n \in 1..Len(K) : SubSeq(L, 1, n) = SubSeq(K, 1, n)
  <2> SUFFICES ASSUME NEW n \in 1..Len(K) PROVE SubSeq(L, 1, n) = SubSeq(K, 1, n)
    OBVIOUS
  <2>1. /\ SubSeq(L, 1, n) \in Seq(Key) /\ Len(SubSeq(L, 1, n)) = n
        /\ \A i \in 1..n : SubSeq(L, 1, n)[i] = L[i]
    BY <1>1
  <2>2. /\ SubSeq(K, 1, n) \in Seq(Key) /\ Len(SubSeq(K, 1, n)) = n
        /\ \A i \in 1..n : SubSeq(K, 1, n)[i] = K[i]
    OBVIOUS
  <2>3. \A i \in 1..n : SubSeq(L, 1, n)[i] = SubSeq(K, 1, n)[i]
    BY <1>1, <2>1, <2>2
  <2> QED
    BY <2>1, <2>2, <2>3, SeqEqual
<1>3. L # <<>> /\ SubSeq(L, 1, Len(L)) = L
  BY <1>1, SubSeqFull, EmptySeq
<1>4. Prefixes(L) = Prefixes(K) \cup {L}
  <2>1. 1..Len(L) = (1..Len(K)) \cup {Len(L)}
    BY <1>1
  <2> QED
    BY <1>2, <1>3, <2>1 DEF Prefixes
<1>5. L \notin Prefixes(K)
  <2>1. \A J \in Prefixes(K) : Len(J) <= Len(K)
    BY PrefixesOfPath
  <2> QED
    BY <1>1, <2>1
<1> QED
  BY <1>1, <1>3, <1>4, <1>5 DEF L

\* One key more leads from a table to its entry, and back.
LEMMA LeadsFurther ==
    ASSUME NEW h, NEW r, NEW K \in Seq(Key), NEW k \in Key, NEW n \in Node
    PROVE  Leads(h, r, Append(K, k), n) <=>
             \E p \in Node : Leads(h, r, K, p) /\ isTable(h, p) /\ h[p].entries[k] = n
<1> DEFINE l == Len(K)
           L == Append(K, k)
<1>1. l \in Nat /\ Len(L) = l + 1 /\ L[l + 1] = k /\ \A i \in 1..l : L[i] = K[i]
  OBVIOUS
<1> HIDE DEF l, L
<1>2. ASSUME NEW p \in Node, Leads(h, r, K, p), isTable(h, p), h[p].entries[k] = n
      PROVE  Leads(h, r, L, n)
  <2>1. PICK at \in [0..l -> Node] :
           /\ at[0] = r /\ at[l] = p
           /\ \A i \in 1..l : isTable(h, at[i - 1]) /\ h[at[i - 1]].entries[K[i]] = at[i]
    BY <1>2 DEF Leads, l
  <2> DEFINE bt == [i \in 0..(l + 1) |-> IF i = l + 1 THEN n ELSE at[i]]
  <2>2. bt \in [0..(l + 1) -> Node] /\ bt[l + 1] = n /\ \A i \in 0..l : bt[i] = at[i]
    BY <1>1, <2>1
  <2> HIDE DEF bt
  <2>3. ASSUME NEW i \in 1..(l + 1)
        PROVE  isTable(h, bt[i - 1]) /\ h[bt[i - 1]].entries[L[i]] = bt[i]
    <3>1. CASE i = l + 1
      <4>1. i - 1 = l /\ bt[i - 1] = p
        BY <1>1, <2>1, <2>2, <3>1
      <4> QED
        BY <1>1, <1>2, <2>2, <3>1, <4>1
    <3>2. CASE i # l + 1
      <4>1. i \in 1..l /\ i - 1 \in 0..l /\ i \in 0..l
        BY <1>1, <3>2
      <4> QED
        BY <1>1, <2>1, <2>2, <4>1
    <3> QED
      BY <3>1, <3>2
  <2>4. bt[0] = r
    BY <1>1, <2>1, <2>2
  <2> QED
    BY <1>1, <2>2, <2>3, <2>4 DEF Leads
<1>3. ASSUME Leads(h, r, L, n)
      PROVE  \E p \in Node : Leads(h, r, K, p) /\ isTable(h, p) /\ h[p].entries[k] = n
  <2>1. PICK at \in [0..(l + 1) -> Node] :
           /\ at[0] = r /\ at[l + 1] = n
           /\ \A i \in 1..(l + 1) : isTable(h, at[i - 1]) /\ h[at[i - 1]].entries[L[i]] = at[i]
    BY <1>1, <1>3 DEF Leads
  <2> DEFINE bt == [i \in 0..l |-> at[i]]
  <2>2. bt \in [0..l -> Node] /\ \A i \in 0..l : bt[i] = at[i]
    BY <1>1, <2>1
  <2> HIDE DEF bt
  <2>3. ASSUME NEW i \in 1..l
        PROVE  isTable(h, bt[i - 1]) /\ h[bt[i - 1]].entries[K[i]] = bt[i]
    <3>1. i \in 1..(l + 1) /\ i - 1 \in 0..l /\ i \in 0..l
      BY <1>1
    <3> QED
      BY <1>1, <2>1, <2>2, <3>1
  <2>4. bt[0] = r /\ at[l] = bt[l] /\ bt[l] \in Node
    BY <1>1, <2>1, <2>2
  <2>5. Leads(h, r, K, at[l])
    BY <2>2, <2>3, <2>4 DEF Leads, l
  <2>6. isTable(h, at[l]) /\ h[at[l]].entries[k] = n
    <3>1. l + 1 \in 1..(l + 1) /\ (l + 1) - 1 = l
      BY <1>1
    <3> QED
      BY <1>1, <2>1, <3>1
  <2> QED
    BY <2>4, <2>5, <2>6
<1> QED
  BY <1>2, <1>3 DEF L

\* Where a path leads somewhere, so do its prefixes.
LEMMA LeadsPart ==
    ASSUME NEW h, NEW r, NEW K \in Seq(Key), NEW n, Leads(h, r, K, n), NEW J \in Prefixes(K)
    PROVE  \E m \in Node : Leads(h, r, J, m)
<1>1. /\ Len(J) \in 1..Len(K) /\ Len(K) \in Nat
      /\ \A i \in 1..Len(J) : J[i] = K[i]
  BY PrefixesOfPath
<1>2. PICK at \in [0..Len(K) -> Node] :
         /\ at[0] = r
         /\ \A i \in 1..Len(K) : isTable(h, at[i - 1]) /\ h[at[i - 1]].entries[K[i]] = at[i]
  BY DEF Leads
<1> DEFINE bt == [i \in 0..Len(J) |-> at[i]]
<1>3. bt \in [0..Len(J) -> Node] /\ \A i \in 0..Len(J) : bt[i] = at[i]
  BY <1>1, <1>2
<1> HIDE DEF bt
<1>4. ASSUME NEW i \in 1..Len(J)
      PROVE  isTable(h, bt[i - 1]) /\ h[bt[i - 1]].entries[J[i]] = bt[i]
  <2>1. i \in 1..Len(K) /\ i - 1 \in 0..Len(J) /\ i \in 0..Len(J)
    BY <1>1
  <2> QED
    BY <1>1, <1>2, <1>3, <2>1
<1>5. bt[0] = r /\ bt[Len(J)] \in Node
  BY <1>1, <1>2, <1>3
<1> QED
  BY <1>3, <1>4, <1>5 DEF Leads

\* What holds for the first number and is handed on holds for all.
LEMMA HandedOn ==
    ASSUME NEW N \in Nat, NEW S, 0 \in S, \A i \in 1..N : i - 1 \in S => i \in S
    PROVE  0..N \subseteq S
<1> DEFINE wrong == (0..N) \ S
<1>1. SUFFICES ASSUME wrong # {} PROVE FALSE
  OBVIOUS
<1>2. PICK x \in wrong : \A y \in wrong : ~ (<<y, x>> \in OpToRel(<, Nat))
  <2>1. wrong \subseteq Nat
    OBVIOUS
  <2> HIDE DEF wrong
  <2> QED
    BY <1>1, <2>1, NatLessThanWellFounded, WFMin
<1>3. \A y \in wrong : ~ (y < x)
  <2>1. \A y \in wrong : y \in Nat /\ x \in Nat
    OBVIOUS
  <2> QED
    BY <1>2, <2>1 DEF OpToRel
<1>4. x # 0 /\ x \in 1..N /\ x - 1 \in 0..N /\ x - 1 < x
  OBVIOUS
<1>5. x - 1 \in S
  BY <1>3, <1>4
<1> QED
  BY <1>4, <1>5

\* A path as Leads speaks of.
PathTo(h, r, K, at) ==
    /\ at \in [0..Len(K) -> Node] /\ at[0] = r
    /\ \A i \in 1..Len(K) : isTable(h, at[i - 1]) /\ h[at[i - 1]].entries[K[i]] = at[i]

\* The same keys lead to the same value,
LEMMA LeadsToOne ==
    ASSUME NEW h, NEW r, NEW K \in Seq(Key), NEW n, Leads(h, r, K, n), NEW m, Leads(h, r, K, m)
    PROVE  n = m
<1> DEFINE l == Len(K)
<1>0. l \in Nat
  OBVIOUS
<1>1. PICK at : PathTo(h, r, K, at) /\ at[l] = n
  BY DEF Leads, PathTo
<1>2. PICK bt : PathTo(h, r, K, bt) /\ bt[l] = m
  BY DEF Leads, PathTo
<1> DEFINE S == {i \in 0..l : at[i] = bt[i]}
<1>3. 0 \in S
  BY <1>0, <1>1, <1>2 DEF PathTo
<1>4. ASSUME NEW i \in 1..l, i - 1 \in S PROVE i \in S
  <2>1. i \in 0..l /\ at[i - 1] = bt[i - 1]
    BY <1>0, <1>4
  <2> QED
    BY <1>1, <1>2, <2>1 DEF PathTo
<1>5. 0..l \subseteq S
  <2> HIDE DEF S
  <2> QED
    BY <1>0, <1>3, <1>4, HandedOn
<1>6. l \in 0..l
  BY <1>0
<1> QED
  BY <1>1, <1>2, <1>5, <1>6

\* each step of a path is a place of the value it leads to,
LEMMA PathPlaces ==
    ASSUME NEW h, NEW r, NEW K \in Seq(Key), NEW at, PathTo(h, r, K, at), NEW i \in 1..Len(K)
    PROVE  <<at[i - 1], K[i]>> \in Places(h, at[i])
<1>1. i - 1 \in 0..Len(K) /\ at[i - 1] \in Node /\ K[i] \in Key
  BY DEF PathTo
<1>2. h[at[i - 1]].entries[K[i]] = at[i]
  BY DEF PathTo
<1> QED
  BY <1>1, <1>2 DEF Places

\* and in a tree other keys lead to another value.
LEMMA LeadsApart ==
    ASSUME NEW h, NEW r, OnePlace(h), Places(h, r) = {}, NEW n,
           NEW K \in Seq(Key), Leads(h, r, K, n), NEW L \in Seq(Key), Leads(h, r, L, n),
           Len(K) <= Len(L)
    PROVE  K = L
<1> DEFINE l == Len(K)
           m == Len(L)
<1>0. l \in Nat /\ m \in Nat /\ l <= m
  OBVIOUS
<1>1. PICK at : PathTo(h, r, K, at) /\ at[l] = n
  BY DEF Leads, PathTo
<1>2. PICK bt : PathTo(h, r, L, bt) /\ bt[m] = n
  BY DEF Leads, PathTo
<1>3. /\ \A i \in 0..l : at[i] \in Node
      /\ \A i \in 1..l : <<at[i - 1], K[i]>> \in Places(h, at[i])
      /\ \A i \in 1..m : <<bt[i - 1], L[i]>> \in Places(h, bt[i])
      /\ at[0] = r
  BY <1>1, <1>2, PathPlaces DEF PathTo
<1> HIDE DEF l, m
<1>4. ASSUME NEW i \in 1..l, NEW j \in 1..m, at[i] = bt[j]
      PROVE  at[i - 1] = bt[j - 1] /\ K[i] = L[j]
  <2>1. at[i] \in Node
    BY <1>0, <1>3
  <2>2. <<at[i - 1], K[i]>> = <<bt[j - 1], L[j]>>
    BY <1>3, <1>4, <2>1 DEF OnePlace
  <2> QED
    BY <2>2
<1> DEFINE S == {i \in 0..l : at[l - i] = bt[m - i]}
<1>5. 0..l \subseteq S
  <2>1. 0 \in S
    BY <1>0, <1>1, <1>2
  <2>2. ASSUME NEW i \in 1..l, i - 1 \in S PROVE i \in S
    <3> DEFINE a == l - (i - 1)
               b == m - (i - 1)
    <3>1. a \in 1..l /\ b \in 1..m /\ a - 1 = l - i /\ b - 1 = m - i /\ i \in 0..l
      BY <1>0
    <3>2. at[a] = bt[b]
      BY <2>2
    <3> QED
      BY <1>4, <3>1, <3>2
  <2> HIDE DEF S
  <2> QED
    BY <1>0, <2>1, <2>2, HandedOn
<1>6. l = m
  <2> SUFFICES ASSUME l # m PROVE FALSE
    OBVIOUS
  <2>1. l \in 0..l /\ l - l = 0 /\ m - l \in 1..m
    BY <1>0
  <2>2. bt[m - l] = r
    BY <1>3, <1>5, <2>1
  <2> QED
    BY <1>3, <2>1, <2>2
<1>7. ASSUME NEW i \in 1..l PROVE K[i] = L[i]
  <2>1. l - i \in 0..l /\ l - (l - i) = i /\ m - (l - i) = i /\ i \in 1..m
    BY <1>0, <1>6
  <2>2. at[i] = bt[i]
    BY <1>5, <2>1
  <2> QED
    BY <1>4, <2>1, <2>2
<1> QED
  BY <1>6, <1>7, SeqEqual DEF l, m

\* So two paths to a value are the same.
LEMMA LeadsNowhereElse ==
    ASSUME NEW h, NEW r, OnePlace(h), Places(h, r) = {}, NEW n,
           NEW K \in Seq(Key), Leads(h, r, K, n), NEW L \in Seq(Key), Leads(h, r, L, n)
    PROVE  K = L
<1>1. Len(K) \in Nat /\ Len(L) \in Nat
  OBVIOUS
<1>2. CASE Len(K) <= Len(L)
  BY <1>2, LeadsApart
<1>3. CASE Len(L) <= Len(K)
  BY <1>3, LeadsApart
<1> QED
  BY <1>1, <1>2, <1>3

\* What keys lead to is part of the tree, and not in an array.
LEMMA LeadsThroughTables ==
    ASSUME NEW h \in Heap, NEW r \in Node, NEW K \in Seq(Key), NEW n, Leads(h, r, K, n)
    PROVE  /\ n \in Reach(h, {r})
           /\ OnePlace(h) /\ ItemsOfArrays(h) /\ Places(h, r) = {} => ~InArray(h, n)
<1> DEFINE l == Len(K)
<1>0. l \in Nat /\ l \in 0..l
  OBVIOUS
<1>1. PICK at : PathTo(h, r, K, at) /\ at[l] = n
  BY DEF Leads, PathTo
<1>2. /\ \A i \in 0..l : at[i] \in Node
      /\ \A i \in 1..l : <<at[i - 1], K[i]>> \in Places(h, at[i])
      /\ at[0] = r
  BY <1>1, PathPlaces DEF PathTo
<1> HIDE DEF l
<1>3. ASSUME NEW i \in 1..l PROVE i - 1 \in 0..l /\ i \in 0..l /\ at[i] \in Children(h, at[i - 1])
  <2>1. i - 1 \in 0..l /\ i \in 0..l
    BY <1>0
  <2> QED
    BY <1>2, <2>1, ChildHasPlace
<1>4. n \in Reach(h, {r})
  <2> DEFINE S == {i \in 0..l : at[i] \in Reach(h, {r})}
  <2>1. 0 \in S
    BY <1>0, <1>2, ReachIsLeast
  <2>2. \A i \in 1..l : i - 1 \in S => i \in S
    BY <1>3, ReachIsLeast
  <2>3. 0..l \subseteq S
    <3> HIDE DEF S
    <3> QED
      BY <1>0, <2>1, <2>2, HandedOn
  <2> QED
    BY <1>0, <1>1, <2>3 DEF l
<1>5. ASSUME OnePlace(h), ItemsOfArrays(h), Places(h, r) = {}, NEW a \in Node, NEW j \in DOMAIN h[a].items
      PROVE  n \notin Reach(h, {h[a].items[j]})
  <2> DEFINE c == h[a].items[j]
             S == {i \in 0..l : at[i] \notin Reach(h, {c})}
  <2>1. c \in Node /\ <<a, j>> \in Places(h, c) /\ {c} \in SUBSET Node
    BY <1>5, HeapTyping DEF Places
  <2> HIDE DEF c
  <2>2. 0 \in S
    <3>1. r \notin {c}
      BY <1>5, <2>1
    <3> QED
      BY <1>0, <1>2, <1>5, <2>1, <3>1, LooseUnreached
  <2>3. ASSUME NEW i \in 1..l, i - 1 \in S PROVE i \in S
    <3>1. /\ i - 1 \in 0..l /\ i \in 0..l /\ at[i] \in Children(h, at[i - 1])
          /\ at[i - 1] \in Node /\ at[i - 1] \notin Reach(h, {c})
      BY <1>2, <1>3, <2>3
    <3>2. at[i] \notin {c}
      <4> SUFFICES ASSUME at[i] = c PROVE FALSE
        OBVIOUS
      <4>1. h[at[i - 1]].entries[K[i]] = c /\ isTable(h, at[i - 1])
        BY <1>1 DEF PathTo, l
      <4>2. <<at[i - 1], K[i]>> = <<a, j>>
        BY <1>2, <1>5, <2>1 DEF OnePlace
      <4> QED
        BY <1>5, <4>1, <4>2 DEF ItemsOfArrays, isTable, isArray
    <3> QED
      BY <1>5, <2>1, <3>1, <3>2, ChildUnreached
  <2>4. 0..l \subseteq S
    <3> HIDE DEF S
    <3> QED
      BY <1>0, <2>2, <2>3, HandedOn
  <2> QED
    BY <1>0, <1>1, <2>4 DEF c, l
<1> QED
  BY <1>4, <1>5 DEF InArray

----------------------------------------------------------------------------
\* Trees that grow: what is named stays named

\* The parser only adds to the heap.
Grows(h, g) ==
    /\ g \in Heap
    /\ \A n \in Node :
        /\ h[n].type # "Free" => g[n].type = h[n].type
        /\ \A k \in Key : h[n].entries[k] # Null => g[n].entries[k] = h[n].entries[k]
        /\ \A i \in DOMAIN h[n].items : i \in DOMAIN g[n].items /\ g[n].items[i] = h[n].items[i]

\* A heap that has grown twice has grown.
LEMMA GrowsOn ==
    ASSUME NEW h \in Heap, NEW g, Grows(h, g), NEW f, Grows(g, f)
    PROVE  Grows(h, f)
<1> SUFFICES ASSUME NEW n \in Node
             PROVE  /\ h[n].type # "Free" => f[n].type = h[n].type
                    /\ \A k \in Key : h[n].entries[k] # Null => f[n].entries[k] = h[n].entries[k]
                    /\ \A i \in DOMAIN h[n].items :
                          i \in DOMAIN f[n].items /\ f[n].items[i] = h[n].items[i]
  BY DEF Grows
<1>1. /\ h[n].type # "Free" => g[n].type = h[n].type
      /\ \A k \in Key : h[n].entries[k] # Null => g[n].entries[k] = h[n].entries[k]
      /\ \A i \in DOMAIN h[n].items : i \in DOMAIN g[n].items /\ g[n].items[i] = h[n].items[i]
  BY DEF Grows
<1>2. /\ g[n].type # "Free" => f[n].type = g[n].type
      /\ \A k \in Key : g[n].entries[k] # Null => f[n].entries[k] = g[n].entries[k]
      /\ \A i \in DOMAIN g[n].items : i \in DOMAIN f[n].items /\ f[n].items[i] = g[n].items[i]
  BY DEF Grows
<1> QED
  BY <1>1, <1>2

\* Nothing is in the cell n.
FreeAt(h, n) == h[n].type = "Free" /\ h[n].items = <<>> /\ \A k \in Key : h[n].entries[k] = Null

\* A heap grows when something is created in a free cell,
LEMMA GrowsByCell ==
    ASSUME NEW h \in Heap, NEW n \in Node, FreeAt(h, n), NEW cell, Blank(cell)
    PROVE  /\ Grows(h, [h EXCEPT ![n] = cell])
           /\ cell.type # "Array" \/ cell.source = "Value" =>
                TableArrays([h EXCEPT ![n] = cell]) \subseteq TableArrays(h)
           /\ TableArrays([h EXCEPT ![n] = cell]) \subseteq TableArrays(h) \cup {n}
<1> DEFINE g == [h EXCEPT ![n] = cell]
<1>1. g \in Heap /\ g[n] = cell /\ \A m \in Node : m # n => g[m] = h[m]
  BY DEF Heap, Blank
<1> HIDE DEF g
<1>2. h[n].type = "Free" /\ h[n].items = <<>> /\ \A k \in Key : h[n].entries[k] = Null
  BY DEF FreeAt
<1>3. ASSUME NEW m \in Node
      PROVE  /\ h[m].type # "Free" => g[m].type = h[m].type
             /\ \A k \in Key : h[m].entries[k] # Null => g[m].entries[k] = h[m].entries[k]
             /\ \A i \in DOMAIN h[m].items : i \in DOMAIN g[m].items /\ g[m].items[i] = h[m].items[i]
  BY <1>1, <1>2
<1>4. Grows(h, g)
  BY <1>1, <1>3 DEF Grows
<1>5. TableArrays(g) \subseteq TableArrays(h) \cup {n}
  BY <1>1 DEF TableArrays, isArray
<1>6. ASSUME cell.type # "Array" \/ cell.source = "Value" PROVE n \notin TableArrays(g)
  BY <1>1, <1>6 DEF TableArrays, isArray
<1> QED
  BY <1>4, <1>5, <1>6 DEF g

\* when a table gets a new entry,
LEMMA GrowsByEntry ==
    ASSUME NEW h \in Heap, NEW n \in Node, isTable(h, n), NEW k \in Key, NEW v \in Node,
           h[n].entries[k] \in {Null, v}
    PROVE  /\ Grows(h, setValue(h, n, k, v)) /\ setValue(h, n, k, v)[n].entries[k] = v
           /\ TableArrays(setValue(h, n, k, v)) = TableArrays(h)
           /\ \A m \in Node : setValue(h, n, k, v)[m].type = h[m].type
<1> DEFINE g == setValue(h, n, k, v)
<1>1. EntrySet(h, g, n, k, v)
  BY SetValueFields, NodeTyping
<1> HIDE DEF g
<1>2. Grows(h, g)
  <2>1. ASSUME NEW m \in Node, NEW j \in Key, h[m].entries[j] # Null
        PROVE  g[m].entries[j] = h[m].entries[j]
    BY <1>1, <2>1 DEF EntrySet
  <2> QED
    BY <1>1, <2>1 DEF EntrySet, Grows
<1>3. TableArrays(g) = TableArrays(h)
  BY <1>1 DEF EntrySet, TableArrays, isArray
<1> QED
  BY <1>1, <1>2, <1>3 DEF EntrySet, g

\* when an array gets an element,
LEMMA GrowsByItem ==
    ASSUME NEW h \in Heap, NEW n \in Node, NEW v \in Node
    PROVE  /\ Grows(h, addValue(h, n, v))
           /\ TableArrays(addValue(h, n, v)) = TableArrays(h)
           /\ isArray(h, n) /\ (h[n].source = "ExplicitTable" => isTable(h, v)) =>
                \E i \in DOMAIN addValue(h, n, v)[n].items : addValue(h, n, v)[n].items[i] = v
<1> DEFINE g == addValue(h, n, v)
<1>1. CASE ~ (isArray(h, n) /\ (h[n].source = "ExplicitTable" => isTable(h, v)))
  <2>1. g = h
    BY <1>1 DEF addValue
  <2> QED
    BY <1>1, <2>1 DEF Grows
<1>2. CASE isArray(h, n) /\ (h[n].source = "ExplicitTable" => isTable(h, v))
  <2>1. ItemAdded(h, g, n, v)
    BY <1>2, AddValueFields
  <2> HIDE DEF g
  <2>2. /\ h[n].items \in Seq(Node) /\ Len(h[n].items) \in Nat /\ DOMAIN h[n].items = 1..Len(h[n].items)
        /\ DOMAIN g[n].items = 1..(Len(h[n].items) + 1)
        /\ g[n].items[Len(h[n].items) + 1] = v
        /\ \A i \in 1..Len(h[n].items) : g[n].items[i] = h[n].items[i]
    <3>1. h[n].items \in Seq(Node) /\ g[n].items = Append(h[n].items, v)
      BY <2>1, HeapTyping DEF ItemAdded
    <3> QED
      BY <3>1
  <2>3. ASSUME NEW m \in Node, NEW i \in DOMAIN h[m].items
        PROVE  i \in DOMAIN g[m].items /\ g[m].items[i] = h[m].items[i]
    <3>1. CASE m = n
      <4>1. i \in DOMAIN h[n].items
        BY ONLY <2>3, <3>1
      <4>2. i \in 1..Len(h[n].items) /\ i \in 1..(Len(h[n].items) + 1)
        BY ONLY <2>2, <4>1
      <4>3. i \in DOMAIN g[n].items /\ g[n].items[i] = h[n].items[i]
        BY ONLY <2>2, <4>2
      <4> QED
        BY ONLY <3>1, <4>3
    <3>2. CASE m # n
      BY <2>1, <2>3, <3>2 DEF ItemAdded
    <3> QED
      BY <3>1, <3>2
  <2>4. Grows(h, g)
    BY <2>1, <2>3 DEF ItemAdded, Grows
  <2>5. TableArrays(g) = TableArrays(h)
    BY <2>1 DEF ItemAdded, TableArrays, isArray
  <2>6. Len(h[n].items) + 1 \in DOMAIN g[n].items
    BY <2>2
  <2> QED
    BY <2>2, <2>4, <2>5, <2>6 DEF g
<1> QED
  BY <1>1, <1>2

\* and when a table is made explicit.
LEMMA GrowsByExplicit ==
    ASSUME NEW h \in Heap, NEW n \in Node, isTable(h, n)
    PROVE  /\ Grows(h, makeExplicit(h, n))
           /\ TableArrays(makeExplicit(h, n)) = TableArrays(h)
           /\ \A m \in Node : /\ makeExplicit(h, n)[m].entries = h[m].entries
                              /\ makeExplicit(h, n)[m].type = h[m].type
<1> DEFINE g == makeExplicit(h, n)
<1>1. MadeExplicit(h, g, n)
  BY MakeExplicitFields
<1> HIDE DEF g
<1>2. Grows(h, g)
  BY <1>1 DEF MadeExplicit, Grows
<1>3. TableArrays(g) = TableArrays(h)
  BY <1>1 DEF MadeExplicit, TableArrays, isArray, isTable
<1> QED
  BY <1>1, <1>2, <1>3 DEF MadeExplicit, g

\* In a heap that has grown the keys lead where they led,
LEMMA LeadsStill ==
    ASSUME NEW h \in Heap, NEW g, Grows(h, g), NEW r, NEW K, NEW n, Leads(h, r, K, n), Len(K) \in Nat,
           \A i \in 1..Len(K) : K[i] \in Key
    PROVE  Leads(g, r, K, n)
<1>1. PICK at : PathTo(h, r, K, at) /\ at[Len(K)] = n
  BY DEF Leads, PathTo
<1>2. ASSUME NEW i \in 1..Len(K)
      PROVE  isTable(g, at[i - 1]) /\ g[at[i - 1]].entries[K[i]] = at[i]
  <2>1. /\ i - 1 \in 0..Len(K) /\ i \in 0..Len(K)
        /\ at[i - 1] \in Node /\ at[i] \in Node /\ K[i] \in Key
        /\ isTable(h, at[i - 1]) /\ h[at[i - 1]].entries[K[i]] = at[i]
    BY <1>1 DEF PathTo
  <2>2. at[i] # Null
    BY <2>1, NodeTyping
  <2> QED
    BY <2>1, <2>2 DEF Grows, isTable
<1> QED
  BY <1>1, <1>2 DEF PathTo, Leads

\* what was in an array still is,
LEMMA InArrayStill ==
    ASSUME NEW h \in Heap, NEW g, Grows(h, g), NEW n, InArray(h, n)
    PROVE  InArray(g, n)
<1>0. PICK a \in Node : \E i \in DOMAIN h[a].items : n \in Reach(h, {h[a].items[i]})
  BY DEF InArray
<1>1. PICK i \in DOMAIN h[a].items : n \in Reach(h, {h[a].items[i]})
  BY <1>0
<1>2. i \in DOMAIN g[a].items /\ g[a].items[i] = h[a].items[i]
  BY DEF Grows
<1> DEFINE c == h[a].items[i]
<1>3. {c} \in SUBSET Node
  BY HeapTyping
<1> HIDE DEF c
<1>4. g \in Heap
  BY DEF Grows
<1>5. \A m \in Node : Children(h, m) \subseteq Children(g, m)
  BY DEF Grows, Children
<1>6. Closed(h, Reach(g, {c})) /\ {c} \subseteq Reach(g, {c})
  BY <1>3, <1>4, <1>5, ReachIsLeast DEF Closed
<1>7. n \in Reach(g, {c})
  BY <1>1, <1>3, <1>6, ReachIsLeast DEF c
<1> QED
  BY <1>2, <1>7 DEF InArray, c

\* and names stay right.
LEMMA NamedStill ==
    ASSUME NEW h \in Heap, NEW g, Grows(h, g), NEW d, NEW ls, NEW K \in Seq(Key), NEW n,
           Named(h, d, ls, K, n)
    PROVE  Named(g, d, ls, K, n)
<1>1. Len(K) \in Nat /\ \A i \in 1..Len(K) : K[i] \in Key
  OBVIOUS
<1> QED
  BY <1>1, LeadsStill, InArrayStill DEF Named

\* A tree in which the arrays of tables are the ones noted.
Charted(h, d, ls) ==
    /\ h \in Heap /\ OnePlace(h) /\ ItemsOfArrays(h)
    /\ d \in Node /\ Places(h, d) = {}
    /\ ls \in SUBSET (Seq(Key) \ {<<>>})
    /\ NotedAreArrays(h, d, ls)
    /\ ArraysAreNoted(h, d, ls)

\* What is below a value in an array is in the array, too,
LEMMA InArrayBelow ==
    ASSUME NEW h \in Heap, NEW p \in Node, InArray(h, p), NEW c \in Children(h, p)
    PROVE  InArray(h, c)
<1>1. PICK a \in Node : \E i \in DOMAIN h[a].items : p \in Reach(h, {h[a].items[i]})
  BY DEF InArray
<1>2. PICK i \in DOMAIN h[a].items : p \in Reach(h, {h[a].items[i]})
  BY <1>1
<1>3. {h[a].items[i]} \in SUBSET Node
  BY HeapTyping
<1>4. c \in Reach(h, {h[a].items[i]})
  BY <1>2, <1>3, ReachIsLeast
<1> QED
  BY <1>4 DEF InArray

\* and so are its elements.
LEMMA ItemInArray ==
    ASSUME NEW h \in Heap, NEW a \in Node, NEW i \in DOMAIN h[a].items
    PROVE  InArray(h, h[a].items[i])
<1>1. {h[a].items[i]} \in SUBSET Node
  BY HeapTyping
<1>2. h[a].items[i] \in Reach(h, {h[a].items[i]})
  BY <1>1, ReachIsLeast
<1> QED
  BY <1>2 DEF InArray

\* What is stored as a new entry, or is an entry and no array, is named by one
\* key more,
LEMMA NextTable ==
    ASSUME NEW h, NEW d, NEW ls, Charted(h, d, ls),
           NEW K \in Seq(Key), NEW p \in Node, isTable(h, p), Named(h, d, ls, K, p),
           NEW k \in Key, h[p].entries[k] \in Node => ~isArray(h, h[p].entries[k]),
           NEW g, Grows(h, g), NEW v \in Node, g[p].entries[k] = v
    PROVE  Named(g, d, ls, Append(K, k), v)
<1> DEFINE L == Append(K, k)
<1>0. h \in Heap /\ g \in Heap /\ isTable(g, p)
  BY DEF Charted, Grows, isTable
<1>1. L \in Seq(Key) \ {<<>>} /\ L \notin Prefixes(K) /\ Prefixes(L) = Prefixes(K) \cup {L}
  BY PrefixesOfLonger
<1>2. Named(g, d, ls, K, p)
  BY <1>0, NamedStill
<1>3. Leads(g, d, K, p) => Leads(g, d, L, v)
  BY <1>0, LeadsFurther
<1>4. InArray(g, p) => InArray(g, v)
  <2>1. v \in Children(g, p)
    BY NodeTyping DEF Children
  <2> QED
    BY <1>0, <2>1, InArrayBelow
<1>5. ASSUME Prefixes(K) \cap ls = {}, L \in ls PROVE FALSE
  <2>1. Prefixes(L) \cap ls = {L}
    BY <1>1, <1>5
  <2>2. PICK n \in Node : isArray(h, n) /\ Leads(h, d, L, n)
    BY <1>5, <2>1 DEF Charted, NotedAreArrays
  <2>3. PICK q \in Node : Leads(h, d, K, q) /\ h[q].entries[k] = n
    BY <2>2, LeadsFurther
  <2>4. Leads(h, d, K, p)
    BY <1>5 DEF Named
  <2>5. q = p
    BY <2>3, <2>4, LeadsToOne
  <2> QED
    BY <2>2, <2>3, <2>5
<1> HIDE DEF L
<1> QED
  BY <1>1, <1>2, <1>3, <1>4, <1>5 DEF Named, L

\* and an array of tables has been noted, itself or one before it.
LEMMA NextArray ==
    ASSUME NEW h, NEW d, NEW ls, Charted(h, d, ls),
           NEW K \in Seq(Key), NEW p \in Node, isTable(h, p), Named(h, d, ls, K, p),
           NEW k \in Key, h[p].entries[k] \in TableArrays(h), h[p].entries[k] >= d
    PROVE  Prefixes(Append(K, k)) \cap ls # {}
<1> DEFINE L == Append(K, k)
           c == h[p].entries[k]
<1>1. L \in Seq(Key) \ {<<>>} /\ L \notin Prefixes(K) /\ Prefixes(L) = Prefixes(K) \cup {L}
  BY PrefixesOfLonger
<1>2. SUFFICES ASSUME Prefixes(L) \cap ls = {} PROVE FALSE
  OBVIOUS
<1>3. c \in Node /\ isArray(h, c) /\ h[c].source # "Value" /\ c >= d
  BY DEF TableArrays
<1>4. Leads(h, d, K, p)
  BY <1>1, <1>2 DEF Named
<1> HIDE DEF L
<1>5. Leads(h, d, L, c)
  BY <1>3, <1>4, LeadsFurther DEF L
<1> HIDE DEF c
<1>6. ~InArray(h, c)
  BY <1>1, <1>3, <1>5, LeadsThroughTables DEF Charted
<1>7. PICK J \in ls : Leads(h, d, J, c)
  BY <1>3, <1>6 DEF Charted, ArraysAreNoted
<1>8. J = L
  <2>1. J \in Seq(Key) /\ L \in Seq(Key)
    BY <1>1 DEF Charted
  <2> QED
    BY <1>5, <1>7, <2>1, LeadsNowhereElse DEF Charted
<1> QED
  BY <1>1, <1>2, <1>7, <1>8

\* What a header of an array of tables adds to the notes names what it did.
LEMMA NotedMore ==
    ASSUME NEW h, NEW d, NEW ls, Charted(h, d, ls),
           NEW K \in Seq(Key), NEW p \in Node, isTable(h, p), Named(h, d, ls, K, p), NEW k \in Key,
           h[p].entries[k] = Null \/ (h[p].entries[k] \in TableArrays(h) /\ h[p].entries[k] >= d),
           NEW J \in Seq(Key), NEW n, Named(h, d, ls, J, n)
    PROVE  Named(h, d, ls \cup {Append(K, k)}, J, n)
<1> DEFINE L == Append(K, k)
<1>1. L \in Seq(Key) \ {<<>>} /\ Prefixes(L) = Prefixes(K) \cup {L}
  BY PrefixesOfLonger
<1>2. ASSUME Prefixes(J) \cap ls = {}, L \in Prefixes(J) PROVE FALSE
  <2>1. Prefixes(L) \subseteq Prefixes(J)
    BY <1>2, PrefixesOfPath
  <2>2. Prefixes(L) \cap ls = {} /\ Prefixes(K) \cap ls = {}
    BY <1>1, <1>2, <2>1
  <2>3. h[p].entries[k] = Null
    BY <2>2, NextArray
  <2>4. Leads(h, d, J, n) /\ Leads(h, d, K, p)
    BY <1>2, <2>2 DEF Named
  <2>5. PICK m \in Node : Leads(h, d, L, m)
    BY <1>2, <2>4, LeadsPart
  <2>6. \E q \in Node : Leads(h, d, K, q) /\ isTable(h, q) /\ h[q].entries[k] = m
    BY <2>5, LeadsFurther
  <2>7. PICK q \in Node : Leads(h, d, K, q) /\ h[q].entries[k] = m
    BY <2>6
  <2>8. q = p
    BY <2>4, <2>7, LeadsToOne
  <2> QED
    BY <2>3, <2>7, <2>8, NodeTyping
<1> HIDE DEF L
<1> QED
  BY <1>2 DEF Named, L

\* and that note is right: its keys lead to the array.
LEMMA ArraysOfNotes ==
    ASSUME NEW h, NEW d, NEW ls, Charted(h, d, ls),
           NEW K \in Seq(Key), NEW p \in Node, isTable(h, p), Named(h, d, ls, K, p), NEW k \in Key,
           NEW g, Grows(h, g), NEW a \in Node, isArray(g, a), g[p].entries[k] = a
    PROVE  NotedAreArrays(g, d, ls \cup {Append(K, k)})
<1> DEFINE L == Append(K, k)
<1>0. h \in Heap /\ isTable(g, p)
  BY DEF Charted, Grows, isTable
<1>1. L \in Seq(Key) \ {<<>>} /\ L \notin Prefixes(K) /\ Prefixes(L) = Prefixes(K) \cup {L}
  BY PrefixesOfLonger
<1>2. Leads(g, d, K, p) => Leads(g, d, L, a)
  BY <1>0, LeadsFurther
<1>3. ls \in SUBSET Seq(Key)
  BY DEF Charted
<1> HIDE DEF L
<1> SUFFICES ASSUME NEW J \in ls \cup {L}, Prefixes(J) \cap (ls \cup {L}) = {J}
             PROVE  \E n \in Node : isArray(g, n) /\ Leads(g, d, J, n)
  BY DEF NotedAreArrays, L
<1>4. CASE J \in ls
  <2>1. Prefixes(J) \cap ls = {J}
    BY <1>4
  <2>2. PICK n \in Node : isArray(h, n) /\ Leads(h, d, J, n)
    BY <1>4, <2>1 DEF Charted, NotedAreArrays
  <2>3. isArray(g, n)
    BY <2>2 DEF Grows, isArray
  <2>4. Leads(g, d, J, n)
    <3>1. J \in Seq(Key)
      BY <1>3, <1>4
    <3>2. Len(J) \in Nat /\ \A i \in 1..Len(J) : J[i] \in Key
      BY <3>1
    <3> QED
      BY <1>0, <2>2, <3>2, LeadsStill
  <2> QED
    BY <2>3, <2>4
<1>5. CASE J = L /\ L \notin ls
  <2>1. Prefixes(K) \cap ls = {}
    BY <1>1, <1>5
  <2>2. Leads(h, d, K, p)
    BY <2>1 DEF Named
  <2>3. Len(K) \in Nat /\ \A i \in 1..Len(K) : K[i] \in Key
    OBVIOUS
  <2>4. Leads(g, d, K, p)
    BY <1>0, <2>2, <2>3, LeadsStill
  <2> QED
    BY <1>2, <1>5, <2>4
<1> QED
  BY <1>4, <1>5

\* Notes stay right while the tree grows.
LEMMA NotesStay ==
    ASSUME NEW h, NEW d, NEW ls, Charted(h, d, ls), NEW g, Grows(h, g)
    PROVE  /\ NotedAreArrays(g, d, ls)
           /\ \A ks, a : /\ ls \subseteq ks
                         /\ TableArrays(g) \subseteq TableArrays(h) \cup {a}
                         /\ a \in TableArrays(g) => InArray(g, a) \/ \E K \in ks : Leads(g, d, K, a)
                         => ArraysAreNoted(g, d, ks)
<1>0. h \in Heap /\ ls \in SUBSET Seq(Key)
  BY DEF Charted
<1>1. ASSUME NEW J \in ls, NEW n, Leads(h, d, J, n) PROVE Leads(g, d, J, n)
  <2>1. J \in Seq(Key)
    BY <1>0
  <2>2. Len(J) \in Nat /\ \A i \in 1..Len(J) : J[i] \in Key
    BY <2>1
  <2> QED
    BY <1>0, <1>1, <2>2, LeadsStill
<1>2. ASSUME NEW n \in Node PROVE isArray(h, n) => isArray(g, n)
  BY DEF Grows, isArray
<1>3. NotedAreArrays(g, d, ls)
  BY <1>1, <1>2 DEF Charted, NotedAreArrays
<1>4. ASSUME NEW ks, NEW a, ls \subseteq ks,
             TableArrays(g) \subseteq TableArrays(h) \cup {a},
             a \in TableArrays(g) => InArray(g, a) \/ \E K \in ks : Leads(g, d, K, a),
             NEW n \in Node, n >= d, isArray(g, n), g[n].source # "Value"
      PROVE  InArray(g, n) \/ \E K \in ks : Leads(g, d, K, n)
  <2>1. n \in TableArrays(g)
    BY <1>4 DEF TableArrays
  <2>2. CASE n = a
    BY <1>4, <2>1, <2>2
  <2>3. CASE n \in TableArrays(h)
    <3>1. InArray(h, n) \/ \E J \in ls : Leads(h, d, J, n)
      BY <1>4, <2>3 DEF TableArrays, Charted, ArraysAreNoted
    <3> QED
      BY <1>0, <1>1, <1>4, <3>1, InArrayStill
  <2> QED
    BY <1>4, <2>1, <2>2, <2>3
<1> QED
  BY <1>3, <1>4 DEF ArraysAreNoted

----------------------------------------------------------------------------
\* The steps of the parser and what was written

\* What the invariants say of a parse that is under way,
LEMMA Standing ==
    ASSUME UseInv, WrittenInv, outcome = "parsing"
    PROVE  /\ Charted(heap, document, listed) /\ heap \in Heap
           /\ CellsInUse(heap, used) /\ used \in Nat /\ new \in Nat /\ new > used
           /\ document \in Node /\ document \in Nat /\ used >= document
           /\ walk \in Walk /\ currentTable \in Node /\ value \in Ref
           /\ isValueAssignment => value # Null
<1> USE SeenAssumptions
<1>1. /\ SeenP!TreeInv /\ heap \in Heap /\ InOrder /\ HeapFits(heap, used)
  BY SameTreeInv, SeenFacts DEF UseInv, ParserApart, TypeOK
<1>2. /\ document \in Node /\ Places(heap, document) = {} /\ document <= used
      /\ used \in Nat /\ walk \in Walk /\ value \in Ref
  BY <1>1, DocumentLoose, NodeTyping DEF InOrder
<1>3. Charted(heap, document, listed)
  BY <1>1, <1>2 DEF Charted, HeapFits, WrittenInv
<1>4. new \in Nat /\ new > used /\ document \in Nat /\ used >= document
  BY <1>2, NodeTyping DEF new
<1>5. currentTable \in Node
  BY <1>1, AllRecent DEF Recent
<1>6. isValueAssignment => value # Null
  BY <1>1 DEF SeenP!TreeInv, SeenP!FramesFit, SeenP!isValueAssignment, isValueAssignment, SeenP!Null, Null
<1> QED
  BY <1>1, <1>2, <1>3, <1>4, <1>5, <1>6 DEF HeapFits

\* and of the walk.
LEMMA WalkStanding ==
    ASSUME UseInv, WrittenInv, outcome = "parsing", walk.goal # "none", walk.pos <= Len(walk.keys)
    PROVE  /\ walk.at \in Node /\ isTable(heap, walk.at) /\ key \in Key
           /\ heap[walk.at].entries[key] = child
           /\ child # Null => child \in Node /\ child >= document
           /\ child # Null /\ heap[child].source # "Value" /\ isArray(heap, child) =>
                 /\ isTable(heap, lastItem)
                 /\ \E i \in DOMAIN heap[child].items : heap[child].items[i] = lastItem
           /\ walk.keys \in Seq(Key) /\ walk.pos \in 1..Len(walk.keys)
<1> USE SeenAssumptions
<1>1. /\ SeenP!TreeInv /\ heap \in Heap /\ walk \in Walk /\ document \in Nat
  BY SameTreeInv, Standing DEF UseInv, ParserApart
<1>2. /\ key \in Key /\ walk.at \in Recent /\ View[walk.at] = heap[walk.at]
      /\ child # Null => child \in Recent
      /\ child # Null /\ heap[child].source # "Value" /\ isArray(heap, child) =>
            /\ size(heap, child) # 0 /\ isTable(heap, lastItem)
  BY <1>1, SeenPlaces
<1>3. isTable(heap, walk.at) /\ walk.pos >= 1
  BY <1>1, <1>2 DEF SeenP!TreeInv, SeenP!IndInv, SeenP!WalkInv, SeenP!isTable, isTable
<1>4. child = heap[walk.at].entries[key]
  BY <1>3 DEF child, valueFromKey
<1>5. walk.keys \in Seq(Key) /\ walk.pos \in 1..Len(walk.keys)
  BY <1>1, <1>3 DEF Walk
<1>6. child # Null => child \in Node /\ child >= document
  BY <1>2 DEF Recent
<1>7. ASSUME child # Null, heap[child].source # "Value", isArray(heap, child)
      PROVE  \E i \in DOMAIN heap[child].items : heap[child].items[i] = lastItem
  <2> DEFINE l == Len(heap[child].items)
  <2>1. heap[child].items \in Seq(Node) /\ l \in Nat
    BY <1>1, <1>6, <1>7, HeapTyping
  <2>2. l # 0 /\ lastItem = valueAt(heap, child, l - 1)
    BY <1>2, <1>7 DEF size, isTable, isArray, lastItem
  <2>3. l - 1 < l /\ (l - 1) + 1 = l /\ l \in DOMAIN heap[child].items
    BY <2>1, <2>2
  <2>4. lastItem = heap[child].items[l]
    BY <1>7, <2>2, <2>3 DEF valueAt
  <2> QED
    BY <2>3, <2>4
<1> QED
  BY <1>2, <1>3, <1>4, <1>5, <1>6, <1>7 DEF Recent

\* One more step makes the keys behind the walk longer by one.
LEMMA KeysBehind ==
    ASSUME walk \in Walk, names \in Seq(Key), walk.pos \in 1..Len(walk.keys)
    PROVE  /\ Walked \in Seq(Key)
           /\ \A n : StepTo(n) /\ names' = names => Walked' = Append(Walked, key)
           /\ walk.pos = Len(walk.keys) =>
                 Append(Walked, key) = (IF walk.goal = "assign" THEN names ELSE <<>>) \o walk.keys
<1> DEFINE s == IF walk.goal = "assign" THEN names ELSE <<>>
           ks == walk.keys
           i == walk.pos
<1>1. s \in Seq(Key) /\ ks \in Seq(Key) /\ i \in 1..Len(ks) /\ i \in Nat
  BY DEF Walk
<1>2. Walked = s \o SubSeq(ks, 1, i - 1) /\ key = ks[i]
  BY DEF Walked, key
<1> HIDE DEF s, ks, i
<1>3. /\ SubSeq(ks, 1, i) = Append(SubSeq(ks, 1, i - 1), ks[i])
      /\ SubSeq(ks, 1, i - 1) \in Seq(Key) /\ ks[i] \in Key
  <2> DEFINE a == SubSeq(ks, 1, i)
             b == SubSeq(ks, 1, i - 1)
  <2>1. a \in Seq(Key) /\ Len(a) = i /\ \A j \in 1..i : a[j] = ks[j]
    BY <1>1
  <2>2. b \in Seq(Key) /\ Len(b) = i - 1 /\ \A j \in 1..(i - 1) : b[j] = ks[j]
    BY <1>1
  <2>3. ks[i] \in Key
    BY <1>1
  <2> HIDE DEF a, b
  <2>4. Append(b, ks[i]) \in Seq(Key) /\ Len(Append(b, ks[i])) = i
        /\ \A j \in 1..i : Append(b, ks[i])[j] = ks[j]
    BY <1>1, <2>2, <2>3
  <2>5. a = Append(b, ks[i])
    BY <2>1, <2>4, SeqEqual
  <2> QED
    BY <2>2, <2>3, <2>5 DEF a, b
<1>4. s \o SubSeq(ks, 1, i) = Append(s \o SubSeq(ks, 1, i - 1), ks[i])
  <2> DEFINE b == SubSeq(ks, 1, i - 1)
  <2> HIDE DEF b
  <2>1. b \in Seq(Key) /\ ks[i] \in Key /\ SubSeq(ks, 1, i) = Append(b, ks[i])
    BY <1>3 DEF b
  <2>2. s \o Append(b, ks[i]) = Append(s \o b, ks[i])
    BY <1>1, <2>1
  <2> QED
    BY <2>1, <2>2 DEF b
<1>5. Walked \in Seq(Key)
  BY <1>1, <1>2, <1>3
<1>6. ASSUME NEW n, StepTo(n), names' = names PROVE Walked' = Append(Walked, key)
  <2>1. walk'.goal = walk.goal /\ walk'.keys = ks /\ walk'.pos = i + 1
    BY <1>6 DEF StepTo, Walk, ks, i
  <2>2. walk'.pos - 1 = i
    BY <1>1, <2>1
  <2>3. Walked' = s \o SubSeq(ks, 1, i)
    BY <1>6, <2>1, <2>2 DEF Walked, s
  <2> QED
    BY <1>2, <1>4, <2>3
<1>7. ASSUME i = Len(ks) PROVE SubSeq(ks, 1, i) = ks
  BY <1>1, <1>7, SubSeqFull
<1> QED
  BY <1>2, <1>4, <1>5, <1>6, <1>7 DEF s, ks, i

\* A step of the parse that leaves the section alone.
LEMMA SameSection ==
    ASSUME UseInv, WrittenInv, outcome = "parsing", outcome' = "parsing",
           UNCHANGED <<document, currentTable, names, listed>>,
           NEW g, heap' = g, Grows(heap, g), TableArrays(g) \subseteq TableArrays(heap),
           written' \in SUBSET [keys : Seq(Key), node : Node],
           \A w \in written' \ written : Named(g, document, listed, w.keys, w.node),
           walk'.goal \notin {"none", "inline"} => Named(g, document, listed, Walked', walk'.at)
    PROVE  WrittenInv'
<1>1. /\ Charted(heap, document, listed) /\ heap \in Heap
      /\ names \in Seq(Key) /\ listed \in SUBSET (Seq(Key) \ {<<>>})
      /\ written \in SUBSET [keys : Seq(Key), node : Node]
  BY Standing DEF WrittenInv
<1>2. Named(g, document, listed, names, currentTable)
  BY <1>1, NamedStill DEF WrittenInv
<1>3. ASSUME NEW w \in written PROVE Named(g, document, listed, w.keys, w.node)
  <2>1. w.keys \in Seq(Key) /\ Named(heap, document, listed, w.keys, w.node)
    BY <1>1 DEF WrittenInv
  <2> QED
    BY <1>1, <2>1, NamedStill
<1>4. NotedAreArrays(g, document, listed)
  BY <1>1, NotesStay
<1>5. ArraysAreNoted(g, document, listed)
  <2>1. /\ TableArrays(g) \subseteq TableArrays(heap) \cup {Null}
        /\ Null \notin TableArrays(g)
    BY NodeTyping DEF TableArrays
  <2> QED
    BY <1>1, <2>1, NotesStay
<1>6. outcome' # "ok"
  OBVIOUS
<1> QED
  BY <1>1, <1>2, <1>3, <1>4, <1>5, <1>6 DEF WrittenInv

\* A heap that stays the same grows.
LEMMA GrowsNot ==
    ASSUME NEW h \in Heap
    PROVE  Grows(h, h) /\ TableArrays(h) \subseteq TableArrays(h)
  BY DEF Grows

\* The empty path names the root.
LEMMA RootNamed ==
    ASSUME NEW h, NEW d \in Node, NEW ls
    PROVE  Named(h, d, ls, <<>>, d)
<1>1. Prefixes(<<>>) = {}
  BY DEF Prefixes
<1> DEFINE at == [i \in {0} |-> d]
<1>2. at \in [0..Len(<<>>) -> Node] /\ at[0] = d /\ at[Len(<<>>)] = d /\ 1..Len(<<>>) = {}
  OBVIOUS
<1>3. Leads(h, d, <<>>, d)
  BY <1>2 DEF Leads
<1> QED
  BY <1>1, <1>3 DEF Named

\* What the notes do in a step of a parse.
LEMMA NotesOfStep ==
    ASSUME outcome = "parsing", Noted
    PROVE  /\ sections' = sections => names' = names /\ listed' = listed
           /\ sections' # sections =>
                 /\ names' = walk.keys
                 /\ listed' = IF walk.goal = "tableArray" THEN listed \cup {walk.keys} ELSE listed
           /\ ~AssignValue => written' = written
           /\ AssignValue => written' = written \cup {[keys |-> names \o walk.keys, node |-> value]}
  BY DEF Noted

\* Steps that leave the heap and the walk alone, or begin a walk.
LEMMA WrittenBegun ==
    ASSUME UseInv, WrittenInv, outcome = "parsing", Noted,
           \/ \E path \in Path : BeginStatement(path) \/ BeginInlineEntry(path)
           \/ CloseValue \/ BeginInlineWalk \/ BeginAssignWalk
    PROVE  WrittenInv'
<1>1. /\ UNCHANGED <<heap, document, currentTable, sections, outcome>>
      /\ walk.goal = "none"
  BY DEF BeginStatement, BeginTable, BeginArrayOfTables, BeginAssignment, BeginInlineEntry,
     CloseValue, BeginInlineWalk, BeginAssignWalk, AtStatement, HasValue, InValue
<1>2. ~AssignValue
  BY <1>1 DEF AssignValue, Binding, Walking
<1>3. UNCHANGED <<names, listed, written>>
  BY <1>1, <1>2, NotesOfStep
<1>4. heap \in Heap /\ document \in Node /\ names \in Seq(Key)
  BY Standing DEF WrittenInv
<1>5. walk'.goal \notin {"none", "inline"} => Named(heap, document, listed, Walked', walk'.at)
  <2>1. ASSUME NEW goal \in {"table", "tableArray"}, NEW path \in Path, StartWalk(goal, document, path)
        PROVE  Named(heap, document, listed, Walked', walk'.at)
    <3>1. walk'.goal = goal /\ walk'.at = document /\ walk'.keys = path /\ walk'.pos = 1
      BY <2>1 DEF StartWalk
    <3>2. path \in Seq(Key)
      BY PathAssumption
    <3>3. SubSeq(path, 1, 1 - 1) = <<>> /\ <<>> \o <<>> = <<>>
      BY <3>2
    <3>4. Walked' = <<>>
      BY <2>1, <3>1, <3>3 DEF Walked
    <3> QED
      BY <1>4, <3>1, <3>4, RootNamed
  <2>2. CASE \E path \in Path : BeginTable(path) \/ BeginArrayOfTables(path)
    BY <2>1, <2>2 DEF BeginTable, BeginArrayOfTables
  <2>3. CASE BeginInlineWalk
    BY <2>3 DEF BeginInlineWalk, StartWalk
  <2>4. CASE BeginAssignWalk
    <3>1. walk'.goal = "assign" /\ walk'.at = currentTable /\ walk'.keys = top.keys /\ walk'.pos = 1
      BY <2>4 DEF BeginAssignWalk, StartWalk
    <3>2. top.keys \in Seq(Key)
      <4>1. frames \in Seq(Frame) /\ frames # <<>>
        BY <2>4 DEF BeginAssignWalk, HasValue, InValue, UseInv, TypeOK
      <4>2. top \in Frame
        BY <4>1 DEF top
      <4> QED
        BY <4>2 DEF Frame
    <3>3. SubSeq(top.keys, 1, 1 - 1) = <<>> /\ names \o <<>> = names
      BY <1>4, <3>2
    <3>4. Walked' = names
      BY <1>3, <3>1, <3>3 DEF Walked
    <3> QED
      BY <3>1, <3>4 DEF WrittenInv
  <2>5. CASE CloseValue \/ \E path \in Path : BeginAssignment(path) \/ BeginInlineEntry(path)
    BY <1>1, <2>5 DEF CloseValue, BeginAssignment, BeginInlineEntry
  <2> QED
    BY <2>2, <2>3, <2>4, <2>5 DEF BeginStatement
<1>6. written' \in SUBSET [keys : Seq(Key), node : Node] /\ written' \ written = {}
  BY <1>3 DEF WrittenInv
<1>7. Grows(heap, heap) /\ TableArrays(heap) \subseteq TableArrays(heap)
  BY <1>4, GrowsNot
<1> QED
  BY <1>1, <1>3, <1>5, <1>6, <1>7, SameSection

\* New values.
LEMMA GrowsByNew ==
    ASSUME UseInv, WrittenInv, outcome = "parsing", used < MaxNodes, NEW cell, Blank(cell)
    PROVE  /\ new \in Node /\ Grows(heap, Create(cell)) /\ Create(cell) \in Heap
           /\ cell.type # "Array" \/ cell.source = "Value" =>
                TableArrays(Create(cell)) \subseteq TableArrays(heap)
           /\ TableArrays(Create(cell)) \subseteq TableArrays(heap) \cup {new}
           /\ \A n \in Node : n # new => Create(cell)[n] = heap[n]
           /\ Create(cell)[new] = cell
           /\ \A n \in Node : n > used => FreeAt(heap, n)
<1>1. heap \in Heap /\ used \in Nat /\ CellsInUse(heap, used) /\ new > used
  BY Standing
<1>2. new \in Node
  BY <1>1, MaxNodesAssumption DEF new, Node
<1>3. Create(cell)[new] = cell /\ \A n \in Node : n # new => Create(cell)[n] = heap[n]
  BY <1>1, <1>2 DEF Create, Heap
<1>6. \A n \in Node : n > used => FreeAt(heap, n)
  BY <1>1 DEF CellsInUse, FreeAt
<1>4. /\ Grows(heap, Create(cell))
      /\ cell.type # "Array" \/ cell.source = "Value" =>
           TableArrays(Create(cell)) \subseteq TableArrays(heap)
      /\ TableArrays(Create(cell)) \subseteq TableArrays(heap) \cup {new}
  BY <1>1, <1>2, <1>6, GrowsByCell DEF Create
<1>5. Create(cell) \in Heap
  BY <1>4 DEF Grows
<1> QED
  BY <1>2, <1>3, <1>4, <1>5, <1>6

\* Steps that create or store a value which no keys name, or not yet.
LEMMA WrittenInValues ==
    ASSUME UseInv, WrittenInv, outcome = "parsing", Noted,
           ParseScalar \/ OpenArray \/ OpenInlineTable \/ AddArrayItem \/ AssignInlineEntry
    PROVE  WrittenInv'
<1>1. /\ UNCHANGED <<document, currentTable, sections, outcome>>
      /\ walk.goal # "assign"
  BY DEF ParseScalar, OpenArray, OpenInlineTable, OpenValue, AddArrayItem, AssignInlineEntry, NeedsValue,
     InValue, HasValue, Binding
<1>2. ~AssignValue
  BY <1>1 DEF AssignValue, Binding
<1>3. UNCHANGED <<names, listed, written>>
  BY <1>1, <1>2, NotesOfStep
<1>4. written' \in SUBSET [keys : Seq(Key), node : Node] /\ written' \ written = {}
  BY <1>3 DEF WrittenInv
<1>5. walk'.goal \in {"none", "inline"}
  BY DEF ParseScalar, OpenArray, OpenInlineTable, OpenValue, AddArrayItem, AssignInlineEntry, NeedsValue,
     InValue, HasValue, NoWalk
<1>6. heap \in Heap
  BY Standing
<1>7. Grows(heap, heap') /\ TableArrays(heap') \subseteq TableArrays(heap)
  <2>1. CASE ParseScalar \/ OpenArray \/ OpenInlineTable
    <3>1. used < MaxNodes
      BY <2>1 DEF ParseScalar, OpenArray, OpenInlineTable, OpenValue
    <3>2. /\ Blank(NewScalar) /\ NewScalar.source = "Value"
          /\ Blank(NewArray("Value")) /\ NewArray("Value").source = "Value"
          /\ Blank(NewTable("Value")) /\ NewTable("Value").source = "Value"
      BY BlankCells DEF Source
    <3> QED
      BY <2>1, <3>1, <3>2, GrowsByNew DEF ParseScalar, OpenArray, OpenInlineTable, OpenValue
  <2>2. CASE AddArrayItem
    <3>1. SeenP!TreeInv
      BY SameTreeInv DEF UseInv, ParserApart
    <3>2. top.node \in Node /\ value \in Node
      BY <1>6, <2>2, <3>1, AllRecent DEF AddArrayItem, HasValue, InValue, Recent
    <3> QED
      BY <1>6, <2>2, <3>2, GrowsByItem DEF AddArrayItem
  <2>3. CASE AssignInlineEntry
    <3>1. walk.goal # "none" /\ walk.pos <= Len(walk.keys) /\ child = Null /\ isValueAssignment
      BY <2>3, Standing DEF AssignInlineEntry, Binding, Walking, Walk, isValueAssignment
    <3>2. walk.at \in Node /\ isTable(heap, walk.at) /\ key \in Key /\ heap[walk.at].entries[key] = Null
          /\ value \in Node
      BY <3>1, Standing, WalkStanding DEF Ref
    <3> QED
      BY <1>6, <2>3, <3>2, GrowsByEntry DEF AssignInlineEntry
  <2> QED
    BY <2>1, <2>2, <2>3
<1> DEFINE g == heap'
<1>8. heap' = g /\ Grows(heap, g) /\ TableArrays(g) \subseteq TableArrays(heap)
  BY <1>7
<1> HIDE DEF g
<1> QED
  BY <1>1, <1>3, <1>4, <1>5, <1>8, SameSection

\* A new value, stored where the walk stands.
LEMMA GrowsByNewEntry ==
    ASSUME UseInv, WrittenInv, outcome = "parsing", walk.goal # "none", walk.pos <= Len(walk.keys),
           child = Null, used < MaxNodes, NEW cell, Blank(cell),
           NEW g, g = setValue(Create(cell), walk.at, key, new)
    PROVE  /\ new \in Node /\ Grows(heap, g) /\ g[walk.at].entries[key] = new
           /\ cell.type # "Array" \/ cell.source = "Value" => TableArrays(g) \subseteq TableArrays(heap)
           /\ TableArrays(g) \subseteq TableArrays(heap) \cup {new}
           /\ g[new].type = cell.type /\ g[new].source = cell.source
           /\ \A n \in Node : n > new => FreeAt(g, n)
<1> DEFINE c == Create(cell)
<1>1. /\ new \in Node /\ Grows(heap, c) /\ c \in Heap
      /\ cell.type # "Array" \/ cell.source = "Value" => TableArrays(c) \subseteq TableArrays(heap)
      /\ TableArrays(c) \subseteq TableArrays(heap) \cup {new}
      /\ \A n \in Node : n # new => c[n] = heap[n]
      /\ c[new] = cell
      /\ \A n \in Node : n > used => FreeAt(heap, n)
  BY GrowsByNew
<1>2. /\ walk.at \in Node /\ isTable(heap, walk.at) /\ key \in Key
      /\ heap[walk.at].entries[key] = Null
  BY WalkStanding
<1>3. walk.at <= used /\ heap \in Heap /\ used \in Nat /\ new \in Nat /\ new > used
  BY <1>2, Standing, NodeTyping DEF CellsInUse, isTable
<1>4. walk.at # new
  BY <1>2, <1>3, NodeTyping
<1> HIDE DEF c
<1>5. isTable(c, walk.at) /\ c[walk.at].entries[key] = Null
  BY <1>1, <1>2, <1>4 DEF isTable
<1>6. g = setValue(c, walk.at, key, new)
  BY DEF c
<1>7. Grows(c, g) /\ TableArrays(g) = TableArrays(c) /\ g[walk.at].entries[key] = new
  BY <1>1, <1>2, <1>5, <1>6, GrowsByEntry
<1>8. EntrySet(c, g, walk.at, key, new)
  BY <1>1, <1>2, <1>5, <1>6, SetValueFields, NodeTyping
<1>9. Grows(heap, g)
  BY <1>1, <1>3, <1>7, GrowsOn
<1>10. ASSUME NEW n \in Node, n > new PROVE FreeAt(g, n)
  <2>1. n # new /\ n # walk.at /\ n > used
    BY <1>2, <1>3, <1>10, NodeTyping
  <2>2. FreeAt(c, n)
    BY <1>1, <2>1 DEF FreeAt
  <2> QED
    BY <1>8, <2>1, <2>2 DEF EntrySet, FreeAt
<1>11. g[new].type = cell.type /\ g[new].source = cell.source
  BY <1>1, <1>8 DEF EntrySet
<1> QED
  BY <1>1, <1>7, <1>9, <1>10, <1>11

\* The walk goes on: it has one key more behind it.
LEMMA WrittenInWalk ==
    ASSUME UseInv, WrittenInv, outcome = "parsing", outcome' = "parsing", Noted,
           DescendToNewTable \/ DescendToTable \/ DescendIntoArray
    PROVE  WrittenInv'
<1>1. /\ UNCHANGED <<document, currentTable, sections>>
      /\ walk.goal # "none" /\ walk.pos < Len(walk.keys)
      /\ \E n : StepTo(n)
  BY DEF DescendToNewTable, DescendToTable, DescendIntoArray, Throw, Descending, Walking
<1>2. ~AssignValue
  <2>1. walk.pos # Len(walk.keys)
    BY <1>1, Standing DEF Walk
  <2> QED
    BY <2>1 DEF AssignValue, Binding
<1>3. UNCHANGED <<names, listed, written>>
  BY <1>1, <1>2, NotesOfStep
<1>4. written' \in SUBSET [keys : Seq(Key), node : Node] /\ written' \ written = {}
  BY <1>3 DEF WrittenInv
<1>5. heap \in Heap /\ walk \in Walk /\ names \in Seq(Key) /\ Charted(heap, document, listed)
  BY Standing DEF WrittenInv
<1>6. walk.pos <= Len(walk.keys)
  BY <1>1, <1>5 DEF Walk
<1>7. /\ walk.at \in Node /\ isTable(heap, walk.at) /\ key \in Key
      /\ heap[walk.at].entries[key] = child
      /\ child # Null => child \in Node /\ child >= document
      /\ child # Null /\ heap[child].source # "Value" /\ isArray(heap, child) =>
            /\ isTable(heap, lastItem)
            /\ \E i \in DOMAIN heap[child].items : heap[child].items[i] = lastItem
      /\ walk.pos \in 1..Len(walk.keys)
  BY <1>1, <1>6, WalkStanding
<1>8. Walked \in Seq(Key) /\ Walked' = Append(Walked, key) /\ walk'.goal = walk.goal
  <2>1. PICK n : StepTo(n)
    BY <1>1
  <2>2. Walked \in Seq(Key) /\ Walked' = Append(Walked, key)
    BY <1>3, <1>5, <1>7, <2>1, KeysBehind
  <2>3. walk'.goal = walk.goal
    BY <1>5, <2>1 DEF StepTo, Walk
  <2> QED
    BY <2>2, <2>3
<1>9. walk.goal # "inline" => Named(heap, document, listed, Walked, walk.at)
  BY <1>1 DEF WrittenInv
<1>10. CASE DescendToTable
  <2>1. heap' = heap /\ child # Null /\ ~isArray(heap, child) /\ walk'.at = child
    BY <1>5, <1>10 DEF DescendToTable, StepTo, Walk
  <2>2. Grows(heap, heap) /\ TableArrays(heap) \subseteq TableArrays(heap)
    BY <1>5, GrowsNot
  <2>3. walk.goal # "inline" => Named(heap, document, listed, Append(Walked, key), child)
    BY <1>5, <1>7, <1>8, <1>9, <2>1, <2>2, NextTable
  <2> QED
    BY <1>1, <1>3, <1>4, <1>8, <2>1, <2>2, <2>3, SameSection
<1>11. CASE DescendIntoArray
  <2>1. heap' = heap /\ child # Null /\ isArray(heap, child) /\ heap[child].source # "Value"
        /\ walk'.at = lastItem
    BY <1>5, <1>11 DEF DescendIntoArray, StepTo, Walk, Throw
  <2>2. Grows(heap, heap) /\ TableArrays(heap) \subseteq TableArrays(heap)
    BY <1>5, GrowsNot
  <2>3. heap[walk.at].entries[key] \in TableArrays(heap) /\ heap[walk.at].entries[key] >= document
    BY <1>7, <2>1 DEF TableArrays
  <2>4. walk.goal # "inline" => Prefixes(Append(Walked, key)) \cap listed # {}
    BY <1>5, <1>7, <1>8, <1>9, <2>3, NextArray
  <2>5. InArray(heap, lastItem)
    <3>1. PICK i \in DOMAIN heap[child].items : heap[child].items[i] = lastItem
      BY <1>7, <2>1
    <3> QED
      BY <1>5, <1>7, <2>1, <3>1, ItemInArray
  <2>6. walk.goal # "inline" => Named(heap, document, listed, Append(Walked, key), lastItem)
    BY <2>4, <2>5 DEF Named
  <2> QED
    BY <1>1, <1>3, <1>4, <1>8, <2>1, <2>2, <2>6, SameSection
<1>12. CASE DescendToNewTable
  <2>1. used < MaxNodes /\ child = Null /\ walk'.at = new
    BY <1>5, <1>12 DEF DescendToNewTable, StepTo, Walk
  <2>2. PICK source \in Source : heap' = setValue(Create(NewTable(source)), walk.at, key, new)
    BY <1>12 DEF DescendToNewTable, Source
  <2>3. Blank(NewTable(source)) /\ NewTable(source).type # "Array"
    BY BlankCells
  <2> DEFINE g == heap'
  <2>4. g = setValue(Create(NewTable(source)), walk.at, key, new)
    BY <2>2
  <2> HIDE DEF g
  <2>5. /\ new \in Node /\ Grows(heap, g) /\ TableArrays(g) \subseteq TableArrays(heap)
        /\ g[walk.at].entries[key] = new
    BY <1>1, <1>6, <2>1, <2>3, <2>4, GrowsByNewEntry
  <2>6. walk.goal # "inline" => Named(g, document, listed, Append(Walked, key), new)
    BY <1>5, <1>7, <1>8, <1>9, <2>1, <2>5, NodeTyping, NextTable
  <2>7. heap' = g
    BY DEF g
  <2> QED
    BY <1>1, <1>3, <1>4, <1>8, <2>1, <2>5, <2>6, <2>7, SameSection
<1> QED
  BY <1>10, <1>11, <1>12

\* A value is assigned: it is named by the keys that are noted.
LEMMA WrittenByAssignment ==
    ASSUME UseInv, WrittenInv, outcome = "parsing", outcome' = "parsing", Noted, AssignValue
    PROVE  WrittenInv'
<1>1. /\ UNCHANGED <<document, currentTable, sections>> /\ walk'.goal = "none"
      /\ walk.goal = "assign" /\ walk.pos = Len(walk.keys) /\ child = Null
      /\ heap' = makeExplicit(setValue(heap, walk.at, key, value), walk.at)
  BY DEF AssignValue, Binding, NoWalk
<1>2. /\ heap \in Heap /\ walk \in Walk /\ names \in Seq(Key) /\ Charted(heap, document, listed)
      /\ value \in Ref /\ value # Null
  BY <1>1, Standing DEF WrittenInv, isValueAssignment
<1>3. walk.goal # "none" /\ walk.pos <= Len(walk.keys) /\ value \in Node
  BY <1>1, <1>2 DEF Walk, Ref
<1>4. /\ walk.at \in Node /\ isTable(heap, walk.at) /\ key \in Key
      /\ heap[walk.at].entries[key] = Null /\ walk.pos \in 1..Len(walk.keys)
  BY <1>1, <1>3, WalkStanding
<1>5. Walked \in Seq(Key) /\ Append(Walked, key) = names \o walk.keys
  BY <1>1, <1>2, <1>4, KeysBehind
<1>6. UNCHANGED <<names, listed>>
      /\ written' = written \cup {[keys |-> names \o walk.keys, node |-> value]}
  BY <1>1, NotesOfStep
<1>7. Named(heap, document, listed, Walked, walk.at)
  BY <1>1 DEF WrittenInv
<1> DEFINE e == setValue(heap, walk.at, key, value)
           g == makeExplicit(e, walk.at)
<1>8. Grows(heap, e) /\ TableArrays(e) = TableArrays(heap) /\ e[walk.at].entries[key] = value
  BY <1>2, <1>3, <1>4, GrowsByEntry
<1> HIDE DEF e
<1>9. e \in Heap /\ isTable(e, walk.at)
  BY <1>4, <1>8 DEF Grows, isTable
<1>10. Grows(e, g) /\ TableArrays(g) = TableArrays(e) /\ g[walk.at].entries[key] = value
  BY <1>4, <1>8, <1>9, GrowsByExplicit
<1> HIDE DEF g
<1>11. Grows(heap, g) /\ TableArrays(g) \subseteq TableArrays(heap)
  BY <1>2, <1>8, <1>10, GrowsOn
<1>12. Named(g, document, listed, Append(Walked, key), value)
  BY <1>2, <1>3, <1>4, <1>5, <1>7, <1>10, <1>11, NodeTyping, NextTable
<1>13. /\ written' \in SUBSET [keys : Seq(Key), node : Node]
       /\ \A w \in written' \ written : Named(g, document, listed, w.keys, w.node)
  <2> DEFINE L == names \o walk.keys
  <2>1. L \in Seq(Key)
    BY <1>2 DEF Walk
  <2>2. Named(g, document, listed, L, value)
    BY <1>5, <1>12
  <2>3. written' = written \cup {[keys |-> L, node |-> value]}
    BY <1>6
  <2> HIDE DEF L
  <2> QED
    BY <1>3, <2>1, <2>2, <2>3 DEF WrittenInv
<1>14. heap' = g
  BY <1>1 DEF g, e
<1> QED
  BY <1>1, <1>6, <1>11, <1>13, <1>14, SameSection

\* A step that makes a table current.
LEMMA NextSection ==
    ASSUME UseInv, WrittenInv, outcome = "parsing", outcome' = "parsing",
           UNCHANGED <<document, written>>, walk'.goal = "none",
           NEW K \in Seq(Key), names' = K, NEW ls, listed' = ls, ls \in SUBSET (Seq(Key) \ {<<>>}),
           NEW g, heap' = g, Grows(heap, g),
           \A J \in Seq(Key), n \in Node :
               Named(heap, document, listed, J, n) => Named(heap, document, ls, J, n),
           NEW t, currentTable' = t, Named(g, document, ls, K, t),
           NotedAreArrays(g, document, ls), ArraysAreNoted(g, document, ls)
    PROVE  WrittenInv'
<1>1. heap \in Heap
  BY Standing
<1>2. ASSUME NEW w \in written PROVE Named(g, document, ls, w.keys, w.node)
  <2>1. w.keys \in Seq(Key) /\ w.node \in Node /\ Named(heap, document, listed, w.keys, w.node)
    BY DEF WrittenInv
  <2>2. Named(heap, document, ls, w.keys, w.node)
    BY <2>1
  <2> QED
    BY <1>1, <2>1, <2>2, NamedStill
<1>3. outcome' # "ok"
  OBVIOUS
<1> QED
  BY <1>2, <1>3 DEF WrittenInv

\* The walk is at its end: what the headers have in common.
LEMMA AtHeader ==
    ASSUME UseInv, WrittenInv, outcome = "parsing", Noted, NEW goal \in {"table", "tableArray"},
           Binding(goal), NEW t, EnterSection(t)
    PROVE  /\ walk.goal # "none" /\ walk.pos <= Len(walk.keys) /\ walk.goal = goal
           /\ Walked \in Seq(Key) /\ Append(Walked, key) \in Seq(Key) \ {<<>>}
           /\ Named(heap, document, listed, Walked, walk.at)
           /\ names' = Append(Walked, key)
           /\ listed' = IF goal = "tableArray" THEN listed \cup {Append(Walked, key)} ELSE listed
           /\ written' = written /\ walk'.goal = "none" /\ currentTable' = t
<1>1. /\ walk.goal = goal /\ walk.goal # "none" /\ walk.goal # "assign"
      /\ walk.pos = Len(walk.keys) /\ walk'.goal = "none" /\ currentTable' = t
      /\ sections' = Append(sections, t)
  BY DEF Binding, EnterSection, NoWalk
<1>2. walk \in Walk /\ sections \in Seq(Node) /\ names \in Seq(Key)
  BY Standing DEF UseInv, TypeOK, WrittenInv
<1>3. walk.pos <= Len(walk.keys)
  BY <1>1, <1>2 DEF Walk
<1>4. key \in Key /\ walk.keys \in Seq(Key) /\ walk.pos \in 1..Len(walk.keys)
  BY <1>1, <1>3, WalkStanding
<1>5. Walked \in Seq(Key) /\ Append(Walked, key) = <<>> \o walk.keys
  BY <1>1, <1>2, <1>4, KeysBehind
<1>6. Append(Walked, key) \in Seq(Key) \ {<<>>}
  BY <1>4, <1>5, PrefixesOfLonger
<1>7. <<>> \o walk.keys = walk.keys
  BY <1>4
<1>8. sections' # sections
  <2>1. Len(Append(sections, t)) = Len(sections) + 1 /\ Len(sections) \in Nat
    BY <1>2
  <2> QED
    BY <1>1, <2>1
<1>9. ~AssignValue
  BY <1>1 DEF AssignValue, Binding
<1>10. names' = walk.keys /\ written' = written
       /\ listed' = IF goal = "tableArray" THEN listed \cup {walk.keys} ELSE listed
  BY <1>1, <1>8, <1>9, NotesOfStep
<1>11. Named(heap, document, listed, Walked, walk.at)
  BY <1>1 DEF WrittenInv
<1> QED
  BY <1>1, <1>3, <1>5, <1>6, <1>7, <1>10, <1>11

\* Headers of tables.
LEMMA WrittenByTable ==
    ASSUME UseInv, WrittenInv, outcome = "parsing", outcome' = "parsing", Noted,
           CreateNewTable \/ CreateImpliedTable
    PROVE  WrittenInv'
<1> DEFINE K == Append(Walked, key)
           g == heap'
           t == currentTable'
<1>1. Binding("table") /\ EnterSection(t) /\ document' = document
  BY DEF CreateNewTable, CreateImpliedTable, EnterSection
<1>2. /\ walk.goal # "none" /\ walk.pos <= Len(walk.keys)
      /\ Walked \in Seq(Key) /\ K \in Seq(Key) \ {<<>>}
      /\ Named(heap, document, listed, Walked, walk.at)
      /\ names' = K /\ listed' = listed /\ written' = written /\ walk'.goal = "none"
  BY <1>1, AtHeader
<1>3. /\ walk.at \in Node /\ isTable(heap, walk.at) /\ key \in Key
      /\ heap[walk.at].entries[key] = child
      /\ child # Null => child \in Node
  BY <1>2, WalkStanding
<1>4. heap \in Heap /\ Charted(heap, document, listed) /\ listed \in SUBSET (Seq(Key) \ {<<>>})
  BY Standing DEF WrittenInv
<1>5. /\ Grows(heap, g) /\ TableArrays(g) \subseteq TableArrays(heap)
      /\ g[walk.at].entries[key] = t /\ t \in Node
      /\ child \in Node => ~isArray(heap, child)
  <2>1. CASE CreateNewTable
    <3>1. /\ child = Null /\ used < MaxNodes /\ t = new
          /\ g = setValue(Create(NewTable("ExplicitTable")), walk.at, key, new)
      BY <2>1 DEF CreateNewTable, EnterSection
    <3>2. Blank(NewTable("ExplicitTable")) /\ NewTable("ExplicitTable").type # "Array"
      BY BlankCells DEF Source
    <3> HIDE DEF g, t
    <3> QED
      BY <1>2, <3>1, <3>2, GrowsByNewEntry, NodeTyping
  <2>2. CASE CreateImpliedTable
    <3> DEFINE e == makeExplicit(heap, child)
    <3>1. /\ child # Null /\ isTable(heap, child) /\ t = child
          /\ g = setValue(e, walk.at, key, child)
      BY <2>2 DEF CreateImpliedTable, EnterSection
    <3>2. /\ Grows(heap, e) /\ TableArrays(e) = TableArrays(heap)
          /\ \A m \in Node : e[m].entries = heap[m].entries /\ e[m].type = heap[m].type
      BY <1>3, <1>4, <3>1, GrowsByExplicit
    <3> HIDE DEF g, t, e
    <3>3. e \in Heap /\ isTable(e, walk.at) /\ e[walk.at].entries[key] = child
      BY <1>3, <3>2 DEF Grows, isTable
    <3>4. Grows(e, g) /\ TableArrays(g) = TableArrays(e) /\ g[walk.at].entries[key] = child
      BY <1>3, <3>1, <3>3, GrowsByEntry
    <3>5. Grows(heap, g)
      BY <1>4, <3>2, <3>4, GrowsOn
    <3> QED
      BY <1>3, <3>1, <3>2, <3>4, <3>5 DEF isTable, isArray
  <2> QED
    BY <2>1, <2>2
<1>6. heap' = g /\ currentTable' = t
  OBVIOUS
<1> HIDE DEF g, t
<1>7. Named(g, document, listed, K, t)
  BY <1>2, <1>3, <1>4, <1>5, NextTable
<1> HIDE DEF K
<1>8. NotedAreArrays(g, document, listed) /\ ArraysAreNoted(g, document, listed)
  <2>1. TableArrays(g) \subseteq TableArrays(heap) \cup {Null} /\ Null \notin TableArrays(g)
    BY <1>5, NodeTyping DEF TableArrays
  <2> QED
    BY <1>4, <1>5, <2>1, NotesStay
<1> QED
  BY <1>1, <1>2, <1>4, <1>5, <1>6, <1>7, <1>8, NextSection

\* Headers of arrays of tables: the array a is found under the keys, and the
\* new table t is in it.
LEMMA WrittenByArray ==
    ASSUME UseInv, WrittenInv, outcome = "parsing", outcome' = "parsing", Noted,
           CreateNewArrayOfTables \/ ExtendArrayOfTables
    PROVE  WrittenInv'
<1> DEFINE K == Append(Walked, key)
           g == heap'
           t == currentTable'
           ls == listed \cup {K}
           a == IF child = Null THEN new ELSE child
<1>1. Binding("tableArray") /\ EnterSection(t) /\ document' = document
  BY DEF CreateNewArrayOfTables, ExtendArrayOfTables, EnterSection
<1>2. /\ walk.goal # "none" /\ walk.pos <= Len(walk.keys)
      /\ Walked \in Seq(Key) /\ K \in Seq(Key) \ {<<>>}
      /\ Named(heap, document, listed, Walked, walk.at)
      /\ names' = K /\ listed' = ls /\ written' = written /\ walk'.goal = "none"
  BY <1>1, AtHeader
<1>3. /\ walk.at \in Node /\ isTable(heap, walk.at) /\ key \in Key
      /\ heap[walk.at].entries[key] = child
      /\ child # Null => child \in Node /\ child >= document
  BY <1>2, WalkStanding
<1>4. /\ heap \in Heap /\ Charted(heap, document, listed) /\ listed \in SUBSET (Seq(Key) \ {<<>>})
      /\ new \in Nat /\ used \in Nat /\ new > used
  BY Standing DEF WrittenInv
<1>5. /\ Grows(heap, g) /\ TableArrays(g) \subseteq TableArrays(heap) \cup {a}
      /\ a \in Node /\ g[walk.at].entries[key] = a /\ isArray(g, a)
      /\ \E i \in DOMAIN g[a].items : g[a].items[i] = t
      /\ child = Null \/ (child \in TableArrays(heap) /\ child >= document)
  <2>1. CASE ExtendArrayOfTables
    <3> DEFINE c == Create(NewTable("ExplicitTable"))
    <3>1. /\ child # Null /\ isArray(heap, child) /\ heap[child].source # "Value" /\ a = child
          /\ used < MaxNodes /\ t = new /\ g = addValue(c, child, new)
      BY <2>1 DEF ExtendArrayOfTables, EnterSection
    <3>2. Blank(NewTable("ExplicitTable")) /\ NewTable("ExplicitTable").type = "Table"
      BY BlankCells DEF Source
    <3>3. /\ new \in Node /\ Grows(heap, c) /\ TableArrays(c) \subseteq TableArrays(heap)
          /\ \A n \in Node : n # new => c[n] = heap[n]
          /\ c[new] = NewTable("ExplicitTable")
          /\ \A n \in Node : n > used => FreeAt(heap, n)
      BY <3>1, <3>2, GrowsByNew
    <3> HIDE DEF g, t, c, a
    <3>4. child # new /\ walk.at # new
      BY <1>3, <1>4, <3>1, <3>3 DEF FreeAt, isArray, isTable
    <3>5. c \in Heap /\ isArray(c, child) /\ isTable(c, new) /\ c[walk.at].entries[key] = child
      BY <1>3, <3>1, <3>2, <3>3, <3>4 DEF Grows, isArray, isTable
    <3>6. /\ Grows(c, g) /\ TableArrays(g) = TableArrays(c)
          /\ \E i \in DOMAIN g[child].items : g[child].items[i] = new
      BY <1>3, <3>1, <3>3, <3>5, GrowsByItem
    <3>7. Grows(heap, g)
      BY <1>4, <3>3, <3>6, GrowsOn
    <3>8. g[walk.at].entries[key] = child /\ isArray(g, child)
      BY <1>3, <3>1, <3>5, <3>6 DEF Grows, isArray
    <3> QED
      BY <1>3, <3>1, <3>3, <3>6, <3>7, <3>8 DEF TableArrays
  <2>2. CASE CreateNewArrayOfTables
    <3> DEFINE b == setValue(Create(NewArray("ExplicitTable")), walk.at, key, new)
               c == [b EXCEPT ![new + 1] = NewTable("ExplicitTable")]
    <3>1. /\ child = Null /\ used + 2 <= MaxNodes /\ t = new + 1 /\ a = new
          /\ g = addValue(c, new, new + 1)
      BY <2>2 DEF CreateNewArrayOfTables, EnterSection
    <3>2. /\ Blank(NewTable("ExplicitTable")) /\ NewTable("ExplicitTable").type = "Table"
          /\ Blank(NewArray("ExplicitTable")) /\ NewArray("ExplicitTable").type = "Array"
      BY BlankCells DEF Source
    <3>3. /\ new = used + 1 /\ used < MaxNodes /\ new + 1 \in Node /\ new + 1 > new
          /\ new + 1 # new
      BY <1>4, <3>1, MaxNodesAssumption DEF new, Node
    <3> HIDE DEF g, t, b, a
    <3>4. /\ new \in Node /\ Grows(heap, b) /\ b[walk.at].entries[key] = new
          /\ TableArrays(b) \subseteq TableArrays(heap) \cup {new}
          /\ b[new].type = "Array"
          /\ \A n \in Node : n > new => FreeAt(b, n)
      BY <1>2, <3>1, <3>2, <3>3, GrowsByNewEntry DEF b
    <3>5. b \in Heap
      BY <3>4 DEF Grows
    <3>6. /\ Grows(b, c) /\ TableArrays(c) \subseteq TableArrays(b)
      BY <3>2, <3>3, <3>4, <3>5, GrowsByCell
    <3>7. c[new] = b[new] /\ c[new + 1] = NewTable("ExplicitTable")
      BY <3>3, <3>4, <3>5 DEF Heap
    <3> HIDE DEF c
    <3>8. c \in Heap /\ isArray(c, new) /\ isTable(c, new + 1)
      BY <3>2, <3>4, <3>6, <3>7 DEF Grows, isArray, isTable
    <3>9. c[walk.at].entries[key] = new
      BY <1>3, <3>4, <3>6, NodeTyping DEF Grows
    <3>10. /\ Grows(c, g) /\ TableArrays(g) = TableArrays(c)
           /\ \E i \in DOMAIN g[new].items : g[new].items[i] = new + 1
      BY <3>1, <3>3, <3>4, <3>8, GrowsByItem
    <3>11. g[walk.at].entries[key] = new /\ isArray(g, new)
      BY <1>3, <3>4, <3>8, <3>9, <3>10, NodeTyping DEF Grows, isArray
    <3>12. Grows(heap, g)
      <4>1. Grows(heap, c)
        BY <1>4, <3>4, <3>6, GrowsOn
      <4> QED
        BY <1>4, <3>10, <4>1, GrowsOn
    <3> QED
      BY <3>1, <3>4, <3>6, <3>10, <3>11, <3>12
  <2> QED
    BY <2>1, <2>2
<1>6. heap' = g /\ currentTable' = t
  OBVIOUS
<1> HIDE DEF g, t, a
<1>7. Named(g, document, ls, K, t)
  <2>1. PICK i \in DOMAIN g[a].items : g[a].items[i] = t
    BY <1>5
  <2>2. InArray(g, t)
    BY <1>5, <2>1, ItemInArray DEF Grows
  <2>3. K \in Prefixes(K)
    BY <1>2, PrefixesOfPath
  <2> QED
    BY <2>2, <2>3 DEF Named
<1>8. ASSUME NEW J \in Seq(Key), NEW n \in Node, Named(heap, document, listed, J, n)
      PROVE  Named(heap, document, ls, J, n)
  BY <1>2, <1>3, <1>4, <1>5, <1>8, NotedMore
<1>9. NotedAreArrays(g, document, ls)
  BY <1>2, <1>3, <1>4, <1>5, ArraysOfNotes
<1>10. ArraysAreNoted(g, document, ls)
  <2>1. ASSUME a \in TableArrays(g)
        PROVE  InArray(g, a) \/ \E J \in ls : Leads(g, document, J, a)
    <3>1. CASE child = Null
      <4>1. Named(g, document, listed, K, a)
        BY <1>2, <1>3, <1>4, <1>5, <3>1, NodeTyping, NextTable
      <4> QED
        BY <4>1 DEF Named
    <3>2. CASE child # Null
      <4>1. a = child /\ child \in TableArrays(heap) /\ child \in Node /\ child >= document
        BY <1>3, <1>5, <3>2 DEF a
      <4>2. InArray(heap, a) \/ \E J \in listed : Leads(heap, document, J, a)
        BY <1>4, <4>1 DEF Charted, ArraysAreNoted, TableArrays
      <4>3. ASSUME NEW J \in listed, Leads(heap, document, J, a) PROVE Leads(g, document, J, a)
        <5>1. J \in Seq(Key)
          BY <1>4
        <5>2. Len(J) \in Nat /\ \A i \in 1..Len(J) : J[i] \in Key
          BY <5>1
        <5> QED
          BY <1>4, <1>5, <4>3, <5>2, LeadsStill
      <4>4. InArray(heap, a) => InArray(g, a)
        BY <1>4, <1>5, InArrayStill
      <4> QED
        BY <4>2, <4>3, <4>4
    <3> QED
      BY <3>1, <3>2
  <2>2. listed \subseteq ls
    OBVIOUS
  <2> HIDE DEF ls
  <2> QED
    BY <1>4, <1>5, <2>1, <2>2, NotesStay
<1>11. ls \in SUBSET (Seq(Key) \ {<<>>})
  BY <1>2, <1>4
<1> HIDE DEF K, ls
<1> QED
  BY <1>1, <1>2, <1>5, <1>6, <1>7, <1>8, <1>9, <1>10, <1>11, NextSection

\* While a parse goes on, what was written stays where its keys lead.
LEMMA WrittenOn ==
    ASSUME UseInv, WrittenInv, outcome = "parsing", outcome' = "parsing", Next, Noted
    PROVE  WrittenInv'
<1>1. ~BeginParse /\ ~EndOfDocument /\ ~Abort /\ ~DescendConflict /\ ~CreateTableConflict
      /\ ~CreateArrayOfTablesConflict /\ ~AssignConflict
  BY DEF BeginParse, EndOfDocument, Abort, DescendConflict, CreateTableConflict,
     CreateArrayOfTablesConflict, AssignConflict, Conflict, Throw
<1>2. CASE \E path \in Path : BeginStatement(path) \/ BeginInlineEntry(path)
  BY <1>2, WrittenBegun
<1>3. CASE ParseValue
  BY <1>3, WrittenBegun, WrittenInValues DEF ParseValue
<1>4. CASE Descend
  BY <1>1, <1>4, WrittenInWalk DEF Descend
<1>5. CASE Bind
  BY <1>1, <1>5, WrittenByTable, WrittenByArray, WrittenByAssignment, WrittenInValues DEF Bind
<1> QED
  BY <1>1, <1>2, <1>3, <1>4, <1>5 DEF Next

\* A document that is accepted stays as it was parsed, and the next one begins
\* with nothing written.
LEMMA WrittenAtEnds ==
    ASSUME UseInv, WrittenInv, Next, Noted, outcome # "parsing" \/ outcome' # "parsing"
    PROVE  WrittenInv'
<1>0. /\ names \in Seq(Key) /\ listed \in SUBSET (Seq(Key) \ {<<>>})
      /\ written \in SUBSET [keys : Seq(Key), node : Node]
  BY DEF WrittenInv
<1>1. CASE outcome # "parsing"
  <2>1. BeginParse
    BY <1>1, FirstSteps
  <2>2. /\ used < MaxNodes /\ heap' = Create(NewTable("ExplicitTable"))
        /\ document' = new /\ currentTable' = new /\ walk' = walk /\ outcome' = "parsing"
    BY <2>1 DEF BeginParse
  <2>3. names' = <<>> /\ listed' = {} /\ written' = {}
    BY <1>1 DEF Noted
  <2>4. /\ heap \in Heap /\ CellsInUse(heap, used) /\ walk.goal = "none"
        /\ used \in Nat /\ new \in Node /\ new > used
    BY <1>1, <2>2, MaxNodesAssumption DEF UseInv, TypeOK, HeapFits, NothingLeft, new, Node
  <2> DEFINE g == heap'
             d == new
  <2>5. /\ \A n \in Node : n # d => g[n] = heap[n]
        /\ g[d].type = "Table"
    BY <2>2, <2>4 DEF Create, Heap, NewTable, NewCell
  <2>6. g = heap' /\ d = document' /\ d = currentTable' /\ d \in Node /\ d > used
    BY <2>2, <2>4
  <2> HIDE DEF g, d
  <2>7. Named(g, d, {}, <<>>, d)
    BY <2>6, RootNamed
  <2>8. NotedAreArrays(g, d, {})
    BY DEF NotedAreArrays
  <2>9. ArraysAreNoted(g, d, {})
    <3> SUFFICES ASSUME NEW n \in Node, n >= d, isArray(g, n) PROVE FALSE
      BY DEF ArraysAreNoted
    <3>1. n # d
      BY <2>5 DEF isArray
    <3>2. n > used
      BY <2>4, <2>6, NodeTyping
    <3> QED
      BY <2>4, <2>5, <3>1, <3>2 DEF CellsInUse, isArray
  <2>10. <<>> \in Seq(Key)
    OBVIOUS
  <2> QED
    BY <2>2, <2>3, <2>4, <2>6, <2>7, <2>8, <2>9, <2>10 DEF WrittenInv
<1>2. CASE outcome = "parsing" /\ outcome' # "parsing"
  <2>1. UNCHANGED <<heap, sections>>
    <3>1. EndOfDocument \/ \E error : Throw(error)
      BY <1>2, LastSteps
    <3> QED
      BY <3>1 DEF EndOfDocument, Throw
  <2>2. ~AssignValue
    BY <1>2 DEF AssignValue
  <2>3. UNCHANGED <<names, listed, written>>
    BY <1>2, <2>1, <2>2, NotesOfStep
  <2>4. ASSUME outcome' = "ok" PROVE document \in returned'
    <3>1. \A error \in {"grammar", "conflict", "inlineConflict", "logic"} : ~Throw(error)
      BY <2>4 DEF Throw
    <3>2. ~Abort /\ ~Conflict
      BY <3>1 DEF Abort, Conflict
    <3>3. ~BeginParse /\ ~\E path \in Path : BeginStatement(path) \/ BeginInlineEntry(path)
      BY <1>2 DEF BeginParse, BeginStatement, BeginTable, BeginArrayOfTables, BeginAssignment, BeginInlineEntry
    <3>4. ~ParseValue
      BY <1>2 DEF ParseValue, ParseScalar, OpenArray, OpenInlineTable, OpenValue, CloseValue, AddArrayItem,
         BeginInlineWalk, BeginAssignWalk
    <3>5. ~Descend
      BY <1>2, <3>1, <3>2 DEF Descend, DescendToNewTable, DescendToTable, DescendIntoArray, DescendConflict
    <3>6. ~Bind
      BY <1>2, <3>2 DEF Bind, CreateNewTable, CreateImpliedTable, CreateNewArrayOfTables, ExtendArrayOfTables,
         AssignValue, AssignInlineEntry, CreateTableConflict, CreateArrayOfTablesConflict, AssignConflict
    <3>7. EndOfDocument
      BY <3>2, <3>3, <3>4, <3>5, <3>6 DEF Next
    <3> QED
      BY <3>7 DEF EndOfDocument
  <2>5. \A w \in written : Named(heap, document, listed, w.keys, w.node)
    BY <1>2 DEF WrittenInv
  <2> QED
    BY <1>0, <1>2, <2>1, <2>3, <2>4, <2>5 DEF WrittenInv
<1> QED
  BY <1>1, <1>2

\* What the program reads changes nothing; what it changes makes history of what
\* was written.
LEMMA WrittenInUse ==
    ASSUME WrittenInv, Use
    PROVE  WrittenInv'
<1>1. CASE Changing
  BY <1>1 DEF Changing, Idle, WrittenInv
<1>2. CASE Reading
  BY <1>2 DEF Reading, Idle, vars, history, WrittenInv
<1> QED
  BY <1>1, <1>2 DEF Use, CreateValue, CreateFallback, StoreValue, AppendValue, MakeExplicit, CloneValue,
     BeginLoop, LoopStep, EndLoop

\* Every step of the parser and of the program keeps what is known of the values
\* that were written.
LEMMA WrittenNext == UseInv /\ WrittenInv /\ [UseNext]_allVars => WrittenInv'
<1> SUFFICES ASSUME UseInv, WrittenInv, [UseNext]_allVars PROVE WrittenInv'
  OBVIOUS
<1>1. CASE Parse
  BY <1>1, WrittenOn, WrittenAtEnds DEF Parse
<1>2. CASE Use
  BY <1>2, WrittenInUse
<1>3. CASE UNCHANGED allVars
  <2>1. UNCHANGED <<heap, document, currentTable, walk, outcome, returned, names, listed, written>>
    BY <1>3 DEF allVars, vars, history
  <2>2. Walked' = Walked
    BY <2>1 DEF Walked
  <2> QED
    BY <2>1, <2>2 DEF WrittenInv
<1> QED
  BY <1>1, <1>2, <1>3 DEF UseNext

\* The keys a value of the document was written with lead to it, or into an
\* array of tables, at every moment of the parse and after it.
THEOREM WrittenInvariance == UseSpec => []WrittenInv
<1>1. UseInit => WrittenInv
  <2> SUFFICES ASSUME UseInit PROVE WrittenInv
    OBVIOUS
  <2>1. names = <<>> /\ listed = {} /\ written = {} /\ outcome = "idle"
    BY DEF UseInit, Init
  <2>2. <<>> \in Seq(Key)
    OBVIOUS
  <2> QED
    BY <2>1, <2>2 DEF WrittenInv
<1> QED
  BY <1>1, WrittenNext, UseInvariance, PTL DEF UseSpec

----------------------------------------------------------------------------
\* The access by key paths

\* A key without a dot is its one part.
LEMMA OnePart ==
    ASSUME NEW k \in Key
    PROVE  /\ DotFree(k) => Parts[k] = <<Parts[k][1]>>
           /\ \A p : Parts[k] = <<p>> => DotFree(k) /\ Parts[k][1] = p
<1>1. Parts[k] \in Seq({Parts[k][i] : i \in DOMAIN Parts[k]})
  BY PartsAssumption
<1>2. ASSUME DotFree(k) PROVE Parts[k] = <<Parts[k][1]>>
  BY <1>1, <1>2 DEF DotFree
<1>3. ASSUME NEW p, Parts[k] = <<p>> PROVE DotFree(k) /\ Parts[k][1] = p
  BY <1>3 DEF DotFree
<1> QED
  BY <1>2, <1>3

\* The text of key paths: a part for each key.
LEMMA TextParts ==
    ASSUME NEW K \in Seq(Key)
    PROVE  /\ Len(TextOf(K)) = Len(K)
           /\ \A i \in 1..Len(K) : TextOf(K)[i] = Parts[K[i]][1]
           /\ \A J \in Seq(Key) : Len(J) = Len(K) /\ (\A i \in 1..Len(K) : Parts[J[i]][1] = Parts[K[i]][1])
                                    => TextOf(J) = TextOf(K)
<1>1. \A J \in Seq(Key) : /\ Len(J) \in Nat /\ DOMAIN J = 1..Len(J)
                          /\ TextOf(J) = [i \in 1..Len(J) |-> Parts[J[i]][1]]
  BY DEF TextOf
<1>2. ASSUME NEW n \in Nat, NEW f, f = [i \in 1..n |-> Parts[K[i]][1]] PROVE Len(f) = n
  <2> DEFINE S == {f[i] : i \in 1..n}
  <2>1. f \in [1..n -> S]
    BY <1>2
  <2> QED
    BY <2>1
<1>3. Len(TextOf(K)) = Len(K)
  BY <1>1, <1>2
<1> QED
  BY <1>1, <1>3

\* The value of the key with one part as its text.
LEMMA TextLookup ==
    ASSUME NEW h \in Heap, NEW m \in Node, NEW p
    PROVE  /\ \A k \in Key : Parts[k] = <<p>> =>
                valueOfText(h, m, <<p>>) = IF isTable(h, m) THEN h[m].entries[k] ELSE Null
           /\ valueOfText(h, m, <<p>>) # Null => \E k \in Key : Parts[k] = <<p>>
<1> DEFINE found == {k \in Key : Parts[k] = <<p>> /\ hasKey(h, m, k)}
<1>1. valueOfText(h, m, <<p>>) = IF found = {} THEN Null ELSE valueFromKey(h, m, CHOOSE k \in found : TRUE)
  BY DEF valueOfText
<1>2. ASSUME NEW k \in Key, Parts[k] = <<p>>
      PROVE  valueOfText(h, m, <<p>>) = IF isTable(h, m) THEN h[m].entries[k] ELSE Null
  <2>1. found \subseteq {k}
    BY <1>2, PartsAssumption
  <2>2. k \in found <=> hasKey(h, m, k)
    BY <1>2
  <2> HIDE DEF found
  <2>3. CASE hasKey(h, m, k)
    <3>1. found = {k} /\ (CHOOSE x \in {k} : TRUE) = k
      BY <2>1, <2>2, <2>3
    <3> QED
      BY <1>1, <3>1 DEF valueFromKey
  <2>4. CASE ~hasKey(h, m, k)
    <3>1. found = {}
      BY <2>1, <2>2, <2>4
    <3> QED
      BY <1>1, <2>4, <3>1 DEF hasKey, valueFromKey
  <2> QED
    BY <2>3, <2>4
<1>3. ASSUME valueOfText(h, m, <<p>>) # Null PROVE \E k \in Key : Parts[k] = <<p>>
  <2>1. found # {}
    BY <1>1, <1>3
  <2> QED
    BY <2>1
<1> QED
  BY <1>2, <1>3

\* One part of the text further, as in the recursion of valueAtPath.
PathStep(h, m, part) == IF m = Null THEN Null ELSE valueOfText(h, m, <<part>>)
IsPath(h, r, text, l, f) == f = [i \in 0..l |-> IF i = 0 THEN r ELSE PathStep(h, f[i - 1], text[i])]

\* The function valueAtPath is defined by is one that follows the text,
LEMMA PathChosen ==
    ASSUME NEW h, NEW r, NEW text
    PROVE  valueAtPath(h, r, text) = (CHOOSE f : IsPath(h, r, text, Len(text), f))[Len(text)]
  BY DEF valueAtPath, IsPath, PathStep

\* there is one for every text,
LEMMA PathExists ==
    ASSUME NEW h, NEW r, NEW text, NEW l \in Nat
    PROVE  \E f : IsPath(h, r, text, l, f)
<1> DEFINE S == {j \in 0..l : \E f : IsPath(h, r, text, j, f)}
<1>1. 0 \in S
  <2> DEFINE f == [i \in 0..0 |-> r]
  <2>1. IsPath(h, r, text, 0, f)
    BY DEF IsPath
  <2> QED
    BY <2>1
<1>2. ASSUME NEW j \in 1..l, j - 1 \in S PROVE j \in S
  <2>1. PICK f : IsPath(h, r, text, j - 1, f)
    BY <1>2
  <2>2. \A i \in 0..(j - 1) : f[i] = IF i = 0 THEN r ELSE PathStep(h, f[i - 1], text[i])
    BY <2>1 DEF IsPath
  <2> DEFINE g == [i \in 0..j |-> IF i = j THEN PathStep(h, f[j - 1], text[j]) ELSE f[i]]
  <2>3. \A i \in 0..(j - 1) : g[i] = f[i]
    OBVIOUS
  <2>4. g[j] = PathStep(h, f[j - 1], text[j])
    OBVIOUS
  <2>5. DOMAIN g = 0..j /\ g = [i \in 0..j |-> g[i]]
    OBVIOUS
  <2> HIDE DEF g
  <2>6. ASSUME NEW i \in 0..j PROVE g[i] = IF i = 0 THEN r ELSE PathStep(h, g[i - 1], text[i])
    <3>1. CASE i = j
      <4>1. i # 0 /\ j - 1 \in 0..(j - 1) /\ g[i - 1] = f[j - 1]
        BY <2>3, <3>1
      <4> QED
        BY <2>4, <3>1, <4>1
    <3>2. CASE i # j
      <4>1. i \in 0..(j - 1) /\ (i # 0 => i - 1 \in 0..(j - 1))
        BY <3>2
      <4> QED
        BY <2>2, <2>3, <4>1
    <3> QED
      BY <3>1, <3>2
  <2>7. IsPath(h, r, text, j, g)
    BY <2>5, <2>6 DEF IsPath
  <2> QED
    BY <2>7
<1> HIDE DEF S
<1>3. 0..l \subseteq S
  BY <1>1, <1>2, HandedOn
<1>4. l \in S
  BY <1>3
<1> QED
  BY <1>4 DEF S

\* The path that the text describes, and what makes it one.
PathOf(h, r, text, l) == CHOOSE f : IsPath(h, r, text, l, f)
Follows(h, r, text, l, f) ==
    f[0] = r /\ \A i \in 1..l : f[i] = PathStep(h, f[i - 1], text[i])

\* and so valueAtPath follows the text.
LEMMA PathIsPath ==
    ASSUME NEW h, NEW r, NEW text, NEW l \in Nat, Len(text) = l,
           NEW f, f = PathOf(h, r, text, l)
    PROVE  Follows(h, r, text, l, f) /\ f[l] = valueAtPath(h, r, text)
<1>1. f[l] = valueAtPath(h, r, text)
  BY PathChosen DEF PathOf
<1>2. IsPath(h, r, text, l, f)
  BY PathExists DEF PathOf
<1>3. \A i \in 0..l : f[i] = IF i = 0 THEN r ELSE PathStep(h, f[i - 1], text[i])
  BY <1>2 DEF IsPath
<1>4. 0 \in 0..l /\ \A i \in 1..l : i \in 0..l /\ i # 0
  OBVIOUS
<1>5. f[0] = r /\ \A i \in 1..l : f[i] = PathStep(h, f[i - 1], text[i])
  BY <1>3, <1>4
<1> QED
  BY <1>1, <1>5 DEF Follows

\* A value is found where its keys lead, if none of them has a dot,
LEMMA PathFound ==
    ASSUME NEW h \in Heap, NEW r \in Node, NEW K \in Seq(Key), \A i \in 1..Len(K) : DotFree(K[i]),
           NEW n, Leads(h, r, K, n)
    PROVE  valueAtPath(h, r, TextOf(K)) = n
<1> DEFINE l == Len(K)
           text == TextOf(K)
           f == PathOf(h, r, text, l)
<1>0. l \in Nat /\ Len(text) = l /\ \A i \in 1..l : text[i] = Parts[K[i]][1] /\ K[i] \in Key
  BY TextParts
<1>1. PICK at : PathTo(h, r, K, at) /\ at[l] = n
  BY DEF Leads, PathTo
<1>l. l \in Nat /\ Len(text) = l
  BY ONLY <1>0
<1>f. f = PathOf(h, r, text, l)
  OBVIOUS
<1> HIDE DEF f, text, l
<1>p. Follows(h, r, text, l, f) /\ f[l] = valueAtPath(h, r, text)
  BY ONLY <1>l, <1>f, PathIsPath
<1>2. /\ f[0] = r /\ f[l] = valueAtPath(h, r, text)
      /\ \A i \in 1..l : f[i] = PathStep(h, f[i - 1], text[i])
  BY ONLY <1>p DEF Follows
<1> DEFINE S == {i \in 0..l : f[i] = at[i]}
<1>3. 0 \in S
  BY <1>0, <1>1, <1>2 DEF PathTo
<1>4. ASSUME NEW i \in 1..l, i - 1 \in S PROVE i \in S
  <2>1. /\ i \in 0..l /\ f[i - 1] = at[i - 1] /\ K[i] \in Key
        /\ at[i - 1] \in Node /\ isTable(h, at[i - 1]) /\ h[at[i - 1]].entries[K[i]] = at[i]
    BY <1>0, <1>1, <1>4 DEF PathTo, l
  <2>2. Parts[K[i]] = <<text[i]>>
    BY <1>0, <2>1, OnePart DEF l
  <2>3. f[i] = valueOfText(h, at[i - 1], <<text[i]>>)
    BY <1>2, <2>1, NodeTyping DEF PathStep
  <2>4. f[i] = at[i]
    BY <2>1, <2>2, <2>3, TextLookup
  <2> QED
    BY <2>1, <2>4
<1> HIDE DEF S
<1>5. 0..l \subseteq S
  BY <1>0, <1>3, <1>4, HandedOn
<1>6. f[l] = at[l]
  BY <1>0, <1>5 DEF S
<1> QED
  BY <1>1, <1>2, <1>6 DEF text

\* and what is found is where keys without dots lead.
LEMMA PathLeads ==
    ASSUME NEW h \in Heap, NEW r \in Node, NEW J \in Seq(Key), NEW n \in Node,
           valueAtPath(h, r, TextOf(J)) = n
    PROVE  \E K \in Seq(Key) : /\ Leads(h, r, K, n) /\ TextOf(K) = TextOf(J)
                               /\ \A i \in 1..Len(K) : DotFree(K[i])
<1> DEFINE l == Len(J)
           text == TextOf(J)
           f == PathOf(h, r, text, l)
<1>0. l \in Nat /\ Len(text) = l /\ \A i \in 1..l : text[i] = Parts[J[i]][1]
  BY TextParts
<1>l. l \in Nat /\ Len(text) = l
  BY ONLY <1>0
<1>f. f = PathOf(h, r, text, l)
  OBVIOUS
<1> HIDE DEF f, text, l
<1>p. Follows(h, r, text, l, f) /\ f[l] = valueAtPath(h, r, text)
  BY ONLY <1>l, <1>f, PathIsPath
<1>1. /\ f[0] = r /\ f[l] = valueAtPath(h, r, text)
      /\ \A i \in 1..l : f[i] = PathStep(h, f[i - 1], text[i])
  BY ONLY <1>p DEF Follows
<1>2. f[l] = n
  BY <1>1 DEF text
<1>3. \A i \in 0..l : f[i] # Null
  <2> DEFINE S == {i \in 0..l : f[l - i] # Null}
  <2>1. 0 \in S
    BY <1>0, <1>2, NodeTyping
  <2>2. ASSUME NEW i \in 1..l, i - 1 \in S PROVE i \in S
    <3> DEFINE j == l - (i - 1)
    <3>1. j \in 1..l /\ j - 1 = l - i /\ i \in 0..l /\ f[j] # Null
      BY <1>0, <2>2
    <3> HIDE DEF j
    <3>2. f[j - 1] # Null
      BY <1>1, <3>1 DEF PathStep
    <3> QED
      BY <3>1, <3>2
  <2> HIDE DEF S
  <2>3. 0..l \subseteq S
    BY <1>0, <2>1, <2>2, HandedOn
  <2> SUFFICES ASSUME NEW i \in 0..l PROVE f[i] # Null
    OBVIOUS
  <2>4. l - i \in 0..l /\ l - (l - i) = i
    BY <1>0
  <2>5. l - i \in S
    BY <2>3, <2>4
  <2> QED
    BY <2>4, <2>5 DEF S
<1>4. ASSUME NEW m \in Node, NEW i \in 1..l, PathStep(h, m, text[i]) # Null
      PROVE  \E k \in Key : /\ Parts[k] = <<text[i]>> /\ isTable(h, m)
                            /\ h[m].entries[k] = PathStep(h, m, text[i])
                            /\ PathStep(h, m, text[i]) \in Node
  <2>1. PathStep(h, m, text[i]) = valueOfText(h, m, <<text[i]>>)
    BY NodeTyping DEF PathStep
  <2>2. PICK k \in Key : Parts[k] = <<text[i]>>
    BY <1>4, <2>1, TextLookup
  <2>3. PathStep(h, m, text[i]) = IF isTable(h, m) THEN h[m].entries[k] ELSE Null
    BY <2>1, <2>2, TextLookup
  <2>4. isTable(h, m) /\ h[m].entries[k] \in Node
    BY <1>4, <2>3, HeapTyping DEF Ref
  <2> QED
    BY <2>2, <2>3, <2>4
<1>5. \A i \in 0..l : f[i] \in Node
  <2> DEFINE S == {i \in 0..l : f[i] \in Node}
  <2>1. 0 \in S
    BY <1>0, <1>1
  <2>2. ASSUME NEW i \in 1..l, i - 1 \in S PROVE i \in S
    <3>1. i \in 0..l /\ f[i] # Null /\ f[i - 1] \in Node /\ f[i] = PathStep(h, f[i - 1], text[i])
      BY <1>1, <1>3, <2>2
    <3> QED
      BY <1>4, <3>1
  <2> HIDE DEF S
  <2>3. 0..l \subseteq S
    BY <1>0, <2>1, <2>2, HandedOn
  <2> QED
    BY <2>3 DEF S
<1> DEFINE K == [i \in 1..l |-> CHOOSE k \in Key : Parts[k] = <<text[i]>>]
<1>6. ASSUME NEW i \in 1..l
      PROVE  /\ K[i] \in Key /\ Parts[K[i]] = <<text[i]>>
             /\ isTable(h, f[i - 1]) /\ h[f[i - 1]].entries[K[i]] = f[i]
  <2>1. /\ f[i - 1] \in Node /\ f[i] # Null /\ f[i] = PathStep(h, f[i - 1], text[i])
    <3>1. i - 1 \in 0..l /\ i \in 0..l
      BY <1>0
    <3> QED
      BY <1>1, <1>3, <1>5, <3>1
  <2> DEFINE m == f[i - 1]
             t == f[i]
  <2> HIDE DEF m, t
  <2>2. m \in Node /\ PathStep(h, m, text[i]) = t /\ t # Null
    BY ONLY <2>1 DEF m, t
  <2>3. \E k \in Key : Parts[k] = <<text[i]>> /\ isTable(h, m) /\ h[m].entries[k] = t
    <3>1. \E k \in Key : /\ Parts[k] = <<text[i]>> /\ isTable(h, m)
                          /\ h[m].entries[k] = PathStep(h, m, text[i])
      BY ONLY <1>4, <2>2, i \in 1..l
    <3> QED
      BY ONLY <2>2, <3>1
  <2>4. PICK k \in Key : /\ Parts[k] = <<text[i]>> /\ isTable(h, f[i - 1])
                         /\ h[f[i - 1]].entries[k] = f[i]
    BY ONLY <2>3 DEF m, t
  <2>5. K[i] = k
    <3> DEFINE x == CHOOSE j \in Key : Parts[j] = <<text[i]>>
    <3>1. x \in Key /\ Parts[x] = <<text[i]>>
      BY ONLY <2>4
    <3>2. K[i] = x
      OBVIOUS
    <3> HIDE DEF x, K
    <3>3. x = k
      <4>1. x \in Key /\ Parts[x] = Parts[k]
        BY ONLY <2>4, <3>1
      <4> QED
        BY ONLY <4>1, <2>4, PartsAssumption
    <3> QED
      BY ONLY <3>2, <3>3
  <2> QED
    BY <2>4, <2>5
<1>7. K \in Seq(Key) /\ Len(K) = l
  <2>1. K \in [1..l -> Key]
    BY <1>6
  <2> HIDE DEF K
  <2> QED
    BY <1>0, <2>1
<1> HIDE DEF K
<1>8. Leads(h, r, K, n)
  <2> DEFINE at == [i \in 0..l |-> f[i]]
  <2>1. at \in [0..l -> Node] /\ at[0] = r /\ at[l] = n
    BY <1>0, <1>1, <1>2, <1>5
  <2>2. \A i \in 1..l : at[i - 1] = f[i - 1] /\ at[i] = f[i]
    BY <1>0
  <2> HIDE DEF at
  <2>3. at \in [0..Len(K) -> Node] /\ at[0] = r /\ at[Len(K)] = n
    BY ONLY <1>7, <2>1
  <2>4. \A i \in 1..Len(K) : isTable(h, at[i - 1]) /\ h[at[i - 1]].entries[K[i]] = at[i]
    BY ONLY <1>6, <1>7, <2>2
  <2> QED
    BY ONLY <2>3, <2>4 DEF Leads
<1>9. \A i \in 1..l : DotFree(K[i]) /\ Parts[K[i]][1] = text[i]
  BY <1>6, OnePart
<1>10. TextOf(K) = TextOf(J)
  BY <1>0, <1>7, <1>9, TextParts DEF l
<1> QED
  BY <1>7, <1>8, <1>9, <1>10

\* Every value is found by the key path it was written with, and by no other
\* (Value.cpp:55-71): in a tree only one path of keys leads to a value.
THEOREM KeyPathsFind == UseSpec => []WrittenIsFound
<1>1. ASSUME UseInv, WrittenInv, TreesAreSeparate PROVE WrittenIsFound
  <2> SUFFICES ASSUME outcome = "ok", NEW w \in written, NEW root \in returned,
                      w.node \in Reach(heap, {root}),
                      NEW text \in {TextOf(w.keys)} \cup Text
               PROVE  valueAtPath(heap, root, text) = w.node <=> ByPath(w) /\ text = TextOf(w.keys)
    BY DEF WrittenIsFound
  <2> DEFINE K == w.keys
             n == w.node
  <2>0. K \in Seq(Key) /\ n \in Node
    BY <1>1 DEF WrittenInv
  <2>1. PICK J \in Seq(Key) : text = TextOf(J)
    BY <2>0, PathAssumption DEF Text
  <2>2. heap \in Heap /\ OnePlace(heap) /\ ItemsOfArrays(heap)
        /\ Roots \in SUBSET Node /\ \A r \in Roots : Places(heap, r) = {}
    BY <1>1, ProgramFacts DEF UseInv, HeapFits
  <2>3. root \in Roots /\ root \in Node /\ Places(heap, root) = {}
    BY <2>2 DEF Roots
  <2>4. PICK d \in returned : Named(heap, d, listed, K, n)
    BY <1>1 DEF WrittenInv
  <2>5. d \in Roots /\ d \in Node
    BY <2>2 DEF Roots
  <2>6. \A L \in Seq(Key) : Leads(heap, root, L, n) => ~InArray(heap, n)
    BY <2>2, <2>3, LeadsThroughTables
  <2>7. ByPath(w) <=> (\A i \in 1..Len(K) : DotFree(K[i])) /\ Prefixes(K) \cap listed = {}
    BY <2>0 DEF ByPath
  <2> HIDE DEF K, n
  <2>8. CASE Prefixes(K) \cap listed = {}
    <3>1. Leads(heap, d, K, n)
      BY <2>4, <2>8 DEF Named
    <3>2. d = root
      <4>1. n \in Reach(heap, {d})
        BY <2>0, <2>2, <2>5, <3>1, LeadsThroughTables
      <4> QED
        BY <1>1, <2>3, <2>5, <4>1 DEF TreesAreSeparate, n
    <3>3. ASSUME valueAtPath(heap, root, text) = n PROVE ByPath(w) /\ text = TextOf(K)
      <4>1. PICK L \in Seq(Key) : /\ Leads(heap, root, L, n) /\ TextOf(L) = TextOf(J)
                                  /\ \A i \in 1..Len(L) : DotFree(L[i])
        BY <2>0, <2>1, <2>2, <2>3, <3>3, PathLeads
      <4>2. L = K
        BY <2>0, <2>2, <2>3, <3>1, <3>2, <4>1, LeadsNowhereElse
      <4> QED
        BY <2>1, <2>7, <2>8, <4>1, <4>2
    <3>4. ASSUME ByPath(w), text = TextOf(K) PROVE valueAtPath(heap, root, text) = n
      BY <2>0, <2>2, <2>3, <2>7, <3>1, <3>2, <3>4, PathFound
    <3> QED
      BY <3>3, <3>4 DEF K, n
  <2>9. CASE Prefixes(K) \cap listed # {}
    <3>1. InArray(heap, n) /\ ~ByPath(w)
      BY <2>4, <2>7, <2>9 DEF Named
    <3>2. valueAtPath(heap, root, text) # n
      <4> SUFFICES ASSUME valueAtPath(heap, root, text) = n PROVE FALSE
        OBVIOUS
      <4>1. \E L \in Seq(Key) : Leads(heap, root, L, n)
        BY <2>0, <2>1, <2>2, <2>3, PathLeads
      <4> QED
        BY <2>6, <3>1, <4>1
    <3> QED
      BY <3>1, <3>2 DEF K, n
  <2> QED
    BY <2>8, <2>9
<1> QED
  BY <1>1, UseInvariance, WrittenInvariance, TreesStaySeparate, PTL

=============================================================================

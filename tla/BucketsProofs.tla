---------------------------- MODULE BucketsProofs ----------------------------
(***************************************************************************)
(* Proofs about module Buckets, for any set of records, any number of ids  *)
(* that fits an AtomicCounter and any sizes at which a table grows and     *)
(* shrinks: the chains are what their back pointers say, a lookup finds    *)
(* exactly the record with its id, and the table implements Registry.      *)
(***************************************************************************)
EXTENDS Buckets, FiniteSetTheorems, WellFoundedInduction, TLAPS

(***************************************************************************)
(* Induction.  The recursive functions of module Buckets walk along links  *)
(* on which a rank goes down.                                              *)
(***************************************************************************)

\* A set of natural numbers that is not empty has a least one, since of the
\* intervals from 0 to one of its elements one contains no other.
LEMMA LeastNumber ==
    ASSUME NEW T, T \subseteq Nat, T # {}
    PROVE  \E n \in T : \A m \in T : n <= m
<1> DEFINE Less == StrictSubsetOrdering(Nat)
           W    == {0..n : n \in T}
<1>1. IsWellFoundedOn(Less, FiniteSubsetsOf(Nat))
  BY FS_StrictSubsetOrderingWellFounded
<1>2. W \subseteq FiniteSubsetsOf(Nat)
  <2> SUFFICES ASSUME NEW n \in T
               PROVE  0..n \in FiniteSubsetsOf(Nat)
    OBVIOUS
  <2>1. IsFiniteSet(0..n)
    BY FS_Interval
  <2> QED
    BY <2>1 DEF FiniteSubsetsOf
<1>3. W # {}
  OBVIOUS
<1>4. PICK x \in W : \A y \in W : ~(<<y, x>> \in Less)
  <2> HIDE DEF Less, W
  <2> QED
    BY <1>1, <1>2, <1>3, WFMin
<1>5. PICK n \in T : x = 0..n
  OBVIOUS
<1>6. ASSUME NEW m \in T
      PROVE  n <= m
  <2> SUFFICES ASSUME m < n
               PROVE  FALSE
    OBVIOUS
  <2>1. 0..m \subseteq 0..n /\ n \in 0..n /\ n \notin 0..m
    OBVIOUS
  <2>2. 0..m # 0..n
    BY <2>1
  <2>3. <<0..m, 0..n>> \in Less
    BY <2>1, <2>2 DEF StrictSubsetOrdering
  <2> QED
    BY <1>4, <1>5, <2>3
<1> QED
  BY <1>6

\* Induction on a rank.
LEMMA ByRank ==
    ASSUME NEW D, NEW rank \in [D -> Nat], NEW S,
           \A q \in D : (\A p \in D : rank[p] < rank[q] => p \in S) => q \in S
    PROVE  D \subseteq S
<1> SUFFICES ASSUME D \ S # {}
             PROVE  FALSE
  OBVIOUS
<1> DEFINE T == {rank[q] : q \in D \ S}
<1>1. T \subseteq Nat /\ T # {}
  OBVIOUS
<1>2. PICK n \in T : \A m \in T : n <= m
  <2> HIDE DEF T
  <2> QED
    BY <1>1, LeastNumber
<1>3. PICK q \in D \ S : rank[q] = n
  OBVIOUS
<1>4. ASSUME NEW p \in D, rank[p] < rank[q], p \notin S
      PROVE  FALSE
  <2>1. rank[p] \in T
    BY <1>4
  <2>2. n <= rank[p] /\ n \in Nat /\ rank[p] \in Nat
    BY <1>1, <1>2, <2>1
  <2> QED
    BY <1>3, <1>4, <2>2
<1> QED
  BY <1>3, <1>4

\* Induction on the natural numbers, for a set.
LEMMA FromZero ==
    ASSUME NEW S, 0 \in S, \A n \in Nat : n \in S => n + 1 \in S
    PROVE  Nat \subseteq S
<1> DEFINE T == Nat \ S
<1> SUFFICES ASSUME T # {}
             PROVE  FALSE
  OBVIOUS
<1>1. PICK n \in T : \A m \in T : n <= m
  <2>1. T \subseteq Nat
    OBVIOUS
  <2> HIDE DEF T
  <2> QED
    BY <2>1, LeastNumber
<1>2. n # 0 /\ n - 1 \in Nat
  OBVIOUS
<1>3. n - 1 \in S
  BY <1>1, <1>2
<1>4. n - 1 + 1 \in S /\ n - 1 + 1 = n
  BY <1>2, <1>3
<1> QED
  BY <1>4

\* Functions that are defined along links: at the places Stop they have the
\* value base, elsewhere one that step makes of their value at the next place.
Follows(D, Stop, next, base, step, f) == \A q \in D :
    f[q] = IF q \in Stop THEN base[q] ELSE step[<<q, f[next[q]]>>]

\* Such a function exists.
Followed(D, V, Stop, next, base, step) ==
    \E f \in [D -> V] : Follows(D, Stop, next, base, step, f)

\* There is one if a bounded rank goes down along the links: the n-th attempt
\* at it is right wherever the rank is below n.
LEMMA Walk ==
    ASSUME NEW D, NEW V, NEW Stop, NEW next \in [D -> D], NEW base \in [D -> V],
           NEW step \in [D \X V -> V], NEW N \in Nat, NEW rank \in [D -> 0..N],
           \A q \in D \ Stop : rank[next[q]] < rank[q]
    PROVE  Followed(D, V, Stop, next, base, step)
<1> DEFINE Right(f, q) ==
               f[q] = IF q \in Stop THEN base[q] ELSE step[<<q, f[next[q]]>>]
           S == {n \in Nat : \E f \in [D -> V] :
                               \A q \in D : rank[q] < n => Right(f, q)}
<1>1. 0 \in S
  <2>1. \A q \in D : ~(rank[q] < 0)
    OBVIOUS
  <2> QED
    BY <2>1
<1>2. ASSUME NEW n \in S
      PROVE  n + 1 \in S
  <2>1. PICK f \in [D -> V] : \A q \in D : rank[q] < n => Right(f, q)
    BY <1>2
  <2> DEFINE g == [q \in D |-> IF q \in Stop THEN base[q]
                                ELSE step[<<q, f[next[q]]>>]]
  <2>2. g \in [D -> V]
    OBVIOUS
  <2>3. ASSUME NEW q \in D, rank[q] < n + 1
        PROVE  Right(g, q)
    <3>1. CASE q \in Stop
      BY <3>1
    <3>2. CASE q \notin Stop
      <4>1. rank[next[q]] < n
        BY <2>3, <3>2
      <4>2. f[next[q]] = g[next[q]]
        BY <2>1, <4>1
      <4> QED
        BY <3>2, <4>2
    <3> QED
      BY <3>1, <3>2
  <2> HIDE DEF g, Right
  <2> QED
    BY <2>2, <2>3
<1>3. N + 1 \in S
  <2> HIDE DEF S
  <2> QED
    BY <1>1, <1>2, FromZero
<1> QED
  <2>1. PICK f \in [D -> V] : \A q \in D : rank[q] < N + 1 => Right(f, q)
    BY <1>3
  <2> QED
    BY <2>1 DEF Followed, Follows

(***************************************************************************)
(* Tables: their type, and what the operations on them leave of it.        *)
(***************************************************************************)

\* Where a back pointer points to.
Address == {<<"next", r>> : r \in Rec} \cup
           {<<"first", v, b>> : v \in {0, 1}, b \in Nat}

\* The tables of n buckets.
Tables(n) == [buckets : {n}, version : {0, 1}, usage : Nat,
              first   : [0..(n - 1) -> Rec \cup {NULL}],
              count   : [0..(n - 1) -> Nat],
              next    : [Rec -> Rec \cup {NULL}],
              prev    : [Rec -> Address \cup {NULL}]]

\* The bucket of a record in a table of n buckets.
Slot(ids, n, r) == CRem(ids[r], n)

\* The remainder of an id is the index of a bucket.
LEMMA SlotInTable ==
    ASSUME NEW x \in Nat, NEW n \in Nat \ {0}
    PROVE  CRem(x, n) \in 0..(n - 1)
BY DEF CRem

\* A new table is empty and has another version; the records keep their links.
LEMMA NewTableFields ==
    ASSUME NEW k \in Nat, NEW m \in Tables(k), NEW n \in Nat \ {0}
    PROVE  LET t == NewTable(m, n)
           IN  /\ t \in Tables(n)
               /\ t.version = 1 - m.version
               /\ t.next = m.next /\ t.prev = m.prev
               /\ t.usage = 0
               /\ \A b \in 0..(n - 1) : t.first[b] = NULL /\ t.count[b] = 0
<1>1. m.version \in {0, 1}
  BY DEF Tables
<1>2. 1 - m.version \in {0, 1}
  BY <1>1
<1> QED
  BY <1>2 DEF Tables, NewTable

\* toBuckets puts a record at the head of the chain of its bucket.
LEMMA ToBucketsFields ==
    ASSUME NEW n \in Nat \ {0}, NEW m \in Tables(n), NEW r \in Rec,
           id[r] \in Nat
    PROVE  LET t == ToBuckets(m, r)
               b == Slot(id, n, r)
           IN  /\ t \in Tables(n)
               /\ t.version = m.version
               /\ t.first = [m.first EXCEPT ![b] = r]
               /\ t.count = [m.count EXCEPT ![b] = @ + 1]
               /\ t.usage = Larger(m.usage, m.count[b] + 1)
               /\ t.next  = [m.next EXCEPT ![r] = m.first[b]]
               /\ t.prev  = [q \in Rec |->
                                IF q = r THEN AddressOfFirst(m, b)
                                ELSE IF q = m.first[b] THEN AddressOfNext(r)
                                ELSE m.prev[q]]
<1> DEFINE t == ToBuckets(m, r)
           b == Slot(id, n, r)
           head == m.first[b]
           s == SetPrev(m, head, AddressOfNext(r))
<1>1. b \in 0..(n - 1)
  BY SlotInTable DEF Slot
<1>2. /\ m.buckets = n /\ m.version \in {0, 1} /\ m.usage \in Nat
      /\ m.first \in [0..(n - 1) -> Rec \cup {NULL}]
      /\ m.count \in [0..(n - 1) -> Nat]
      /\ m.next \in [Rec -> Rec \cup {NULL}]
      /\ m.prev \in [Rec -> Address \cup {NULL}]
  BY DEF Tables
<1>3. AddressOfFirst(m, b) \in Address /\ AddressOfNext(r) \in Address
  BY <1>1, <1>2 DEF AddressOfFirst, AddressOfNext, Address
<1>4. /\ s \in Tables(n)
      /\ s.version = m.version /\ s.first = m.first /\ s.count = m.count
      /\ s.usage = m.usage /\ s.next = m.next
      /\ s.prev = [q \in Rec |-> IF q # NULL /\ q = head THEN AddressOfNext(r)
                                  ELSE m.prev[q]]
  <2>1. CASE head = NULL
    BY <1>2, <2>1 DEF SetPrev
  <2>2. CASE head # NULL
    <3>1. s = [m EXCEPT !.prev = [m.prev EXCEPT ![head] = AddressOfNext(r)]]
      BY <2>2 DEF SetPrev
    <3>2. head \in Rec
      BY <1>1, <1>2, <2>2
    <3>3. [m.prev EXCEPT ![head] = AddressOfNext(r)]
             \in [Rec -> Address \cup {NULL}]
      BY <1>2, <1>3
    <3> HIDE DEF s, head
    <3>4. /\ s \in Tables(n)
          /\ s.version = m.version /\ s.first = m.first /\ s.count = m.count
          /\ s.usage = m.usage /\ s.next = m.next
          /\ s.prev = [m.prev EXCEPT ![head] = AddressOfNext(r)]
      BY <3>1, <3>3 DEF Tables
    <3> QED
      BY <1>2, <2>2, <3>2, <3>4
  <2> QED
    BY <2>1, <2>2
<1>5. t = [s EXCEPT !.next[r] = head, !.prev[r] = AddressOfFirst(m, b),
                    !.first[b] = r, !.count[b] = @ + 1,
                    !.usage = Larger(@, m.count[b] + 1)]
  BY <1>2 DEF ToBuckets, Slot
<1>6. head \in Rec \cup {NULL} /\ m.count[b] \in Nat
  BY <1>1, <1>2
<1>7. Larger(m.usage, m.count[b] + 1) \in Nat
  BY <1>2, <1>6 DEF Larger
<1>8. /\ t \in Tables(n)
      /\ t.version = s.version
      /\ t.first = [s.first EXCEPT ![b] = r]
      /\ t.count = [s.count EXCEPT ![b] = @ + 1]
      /\ t.usage = Larger(s.usage, m.count[b] + 1)
      /\ t.next  = [s.next EXCEPT ![r] = head]
      /\ t.prev  = [s.prev EXCEPT ![r] = AddressOfFirst(m, b)]
  <2> DEFINE first == [s.first EXCEPT ![b] = r]
             count == [s.count EXCEPT ![b] = @ + 1]
             next  == [s.next EXCEPT ![r] = head]
             prev  == [s.prev EXCEPT ![r] = AddressOfFirst(m, b)]
             usage == Larger(s.usage, m.count[b] + 1)
  <2> HIDE DEF t, b, s, head
  <2>1. /\ first \in [0..(n - 1) -> Rec \cup {NULL}]
        /\ next \in [Rec -> Rec \cup {NULL}]
        /\ prev \in [Rec -> Address \cup {NULL}]
        /\ usage \in Nat
    BY <1>2, <1>3, <1>4, <1>6, <1>7 DEF Tables
  <2>2. count \in [0..(n - 1) -> Nat]
    <3>1. s.count \in [0..(n - 1) -> Nat]
      BY <1>2, <1>4
    <3> DEFINE c == s.count[b] + 1
    <3>2. c \in Nat
      BY <1>1, <3>1
    <3>3. count = [s.count EXCEPT ![b] = c]
      OBVIOUS
    <3> HIDE DEF count, c
    <3> QED
      BY <3>1, <3>2, <3>3
  <2>3. t = [s EXCEPT !.next = next, !.prev = prev, !.first = first,
                      !.count = count, !.usage = usage]
    BY <1>4, <1>5 DEF Tables
  <2> HIDE DEF first, count, next, prev, usage
  <2>4. /\ t \in Tables(n)
        /\ t.version = s.version /\ t.first = first /\ t.count = count
        /\ t.usage = usage /\ t.next = next /\ t.prev = prev
    BY <1>4, <2>1, <2>2, <2>3 DEF Tables
  <2> QED
    BY <2>4 DEF first, count, next, prev, usage
<1>9. t.prev = [q \in Rec |-> IF q = r THEN AddressOfFirst(m, b)
                               ELSE IF q = head THEN AddressOfNext(r)
                               ELSE m.prev[q]]
  <2> HIDE DEF t, b, s, head
  <2> QED
    BY <1>2, <1>4, <1>8, BucketsAssumption
<1> QED
  BY <1>4, <1>8, <1>9

(***************************************************************************)
(* The shape of a table m of n buckets whose chains hold the records L.    *)
(***************************************************************************)

\* The head of a chain is in its bucket and points back to it.
Heads(ids, n, m, L) == \A b \in 0..(n - 1) : m.first[b] # NULL =>
    /\ m.first[b] \in L
    /\ Slot(ids, n, m.first[b]) = b
    /\ m.prev[m.first[b]] = AddressOfFirst(m, b)

\* The next record of a chain is in the same bucket and points back.
Links(ids, n, m, L) == \A q \in L : m.next[q] # NULL =>
    /\ m.next[q] \in L
    /\ Slot(ids, n, m.next[q]) = Slot(ids, n, q)
    /\ m.prev[m.next[q]] = AddressOfNext(q)

\* A record is the head of its bucket or the next one of another record.
Anchored(ids, n, m, L) == \A q \in L :
    \/ /\ m.prev[q] = AddressOfFirst(m, Slot(ids, n, q))
       /\ m.first[Slot(ids, n, q)] = q
    \/ \E p \in L : m.prev[q] = AddressOfNext(p) /\ m.next[p] = q

\* A rank goes down along a chain and is bounded by the bucket's count, which
\* is bounded by the table's usage: chains end.
Ranks(n, m, L, rank) ==
    /\ rank[NULL] = 0
    /\ \A q \in L : rank[m.next[q]] < rank[q] /\ rank[q] <= m.usage
    /\ \A b \in 0..(n - 1) : /\ rank[m.first[b]] <= m.count[b]
                             /\ m.count[b] <= m.usage

\* All of it, for records with ids.
Linked(ids, n, m, L) ==
    /\ m \in Tables(n) /\ L \subseteq Rec
    /\ \A q \in L : ids[q] \in Nat
    /\ Heads(ids, n, m, L) /\ Links(ids, n, m, L) /\ Anchored(ids, n, m, L)
    /\ \E rank \in [Rec \cup {NULL} -> Nat] : Ranks(n, m, L, rank)

\* Only the ids of the records in the table matter.
LEMMA LinkedSameIds ==
    ASSUME NEW n, NEW m, NEW L, NEW ids, NEW jds, Linked(ids, n, m, L),
           \A q \in L : jds[q] = ids[q]
    PROVE  Linked(jds, n, m, L)
<1>1. \A q \in L : Slot(jds, n, q) = Slot(ids, n, q)
  BY DEF Slot
<1>2. Heads(jds, n, m, L)
  BY <1>1 DEF Linked, Heads
<1>3. Links(jds, n, m, L)
  BY <1>1 DEF Linked, Links
<1>4. Anchored(jds, n, m, L)
  BY <1>1 DEF Linked, Anchored
<1> QED
  BY <1>2, <1>3, <1>4 DEF Linked

\* A new table has the shape of an empty one.
LEMMA NewTableLinked ==
    ASSUME NEW k \in Nat, NEW m \in Tables(k), NEW n \in Nat \ {0}, NEW ids
    PROVE  Linked(ids, n, NewTable(m, n), {})
<1> DEFINE t == NewTable(m, n)
           rank == [q \in Rec \cup {NULL} |-> 0]
<1>1. /\ t \in Tables(n) /\ t.usage = 0
      /\ \A b \in 0..(n - 1) : t.first[b] = NULL /\ t.count[b] = 0
  BY NewTableFields
<1>2. Ranks(n, t, {}, rank)
  <2> HIDE DEF t
  <2> QED
    BY <1>1 DEF Ranks
<1>3. rank \in [Rec \cup {NULL} -> Nat]
  OBVIOUS
<1> HIDE DEF t, rank
<1> QED
  BY <1>1, <1>2, <1>3 DEF Linked, Heads, Links, Anchored, t

\* toBuckets keeps the shape and adds its record; the others keep their links.
LEMMA ToBucketsLinked ==
    ASSUME NEW n \in Nat \ {0}, NEW m, NEW L, Linked(id, n, m, L),
           NEW r \in Rec \ L, id[r] \in Nat
    PROVE  /\ Linked(id, n, ToBuckets(m, r), L \cup {r})
           /\ \A q \in Rec \ (L \cup {r}) : ToBuckets(m, r).next[q] = m.next[q]
<1> DEFINE t == ToBuckets(m, r)
           b == Slot(id, n, r)
           head == m.first[b]
<1>1. b \in 0..(n - 1)
  BY SlotInTable DEF Slot
<1>2. /\ m \in Tables(n) /\ L \subseteq Rec /\ \A q \in L : id[q] \in Nat
      /\ m.first \in [0..(n - 1) -> Rec \cup {NULL}]
      /\ m.count \in [0..(n - 1) -> Nat] /\ m.usage \in Nat
      /\ m.next \in [Rec -> Rec \cup {NULL}]
  BY DEF Linked, Tables
<1>3. /\ t \in Tables(n)
      /\ t.version = m.version
      /\ t.first = [m.first EXCEPT ![b] = r]
      /\ t.count = [m.count EXCEPT ![b] = @ + 1]
      /\ t.usage = Larger(m.usage, m.count[b] + 1)
      /\ t.next  = [m.next EXCEPT ![r] = head]
      /\ t.prev  = [q \in Rec |-> IF q = r THEN AddressOfFirst(m, b)
                                  ELSE IF q = head THEN AddressOfNext(r)
                                  ELSE m.prev[q]]
  <2>1. m \in Tables(n) /\ r \in Rec
    BY <1>2
  <2> HIDE DEF t, b, head
  <2> QED
    BY <2>1, ToBucketsFields DEF t, b, head
<1>4. \A q \in L : Slot(id, n, q) \in 0..(n - 1)
  BY <1>2, SlotInTable DEF Slot
<1>5. \A c : AddressOfFirst(t, c) = AddressOfFirst(m, c)
  BY <1>3 DEF AddressOfFirst
<1>6. r # NULL
  BY BucketsAssumption
<1>7. head # NULL => head \in L /\ Slot(id, n, head) = b
  BY <1>1 DEF Linked, Heads
<1>8. \A c \in 0..(n - 1) : c # b /\ m.first[c] # NULL =>
            /\ m.first[c] \in L /\ m.first[c] # r /\ m.first[c] # head
            /\ Slot(id, n, m.first[c]) = c
            /\ m.prev[m.first[c]] = AddressOfFirst(m, c)
  BY <1>7 DEF Linked, Heads
<1>9. Heads(id, n, t, L \cup {r})
  <2> HIDE DEF t, head
  <2> SUFFICES ASSUME NEW c \in 0..(n - 1), t.first[c] # NULL
               PROVE  /\ t.first[c] \in L \cup {r}
                      /\ Slot(id, n, t.first[c]) = c
                      /\ t.prev[t.first[c]] = AddressOfFirst(t, c)
    BY DEF Heads
  <2>1. CASE c = b
    BY <1>1, <1>2, <1>3, <1>5, <2>1
  <2>2. CASE c # b
    BY <1>2, <1>3, <1>5, <1>8, <2>2
  <2> QED
    BY <2>1, <2>2
<1>10. Links(id, n, t, L \cup {r})
  <2> HIDE DEF t, head, b
  <2> SUFFICES ASSUME NEW q \in L \cup {r}, t.next[q] # NULL
               PROVE  /\ t.next[q] \in L \cup {r}
                      /\ Slot(id, n, t.next[q]) = Slot(id, n, q)
                      /\ t.prev[t.next[q]] = AddressOfNext(q)
    BY DEF Links
  <2>1. CASE q = r
    BY <1>2, <1>3, <1>7, <2>1 DEF b
  <2>2. CASE q # r
    <3>1. q \in L /\ t.next[q] = m.next[q]
      BY <1>2, <1>3, <2>2
    <3>2. /\ m.next[q] \in L /\ Slot(id, n, m.next[q]) = Slot(id, n, q)
          /\ m.prev[m.next[q]] = AddressOfNext(q)
      BY <3>1 DEF Linked, Links
    <3>3. m.next[q] # head
      <4> SUFFICES ASSUME m.next[q] = head
                   PROVE  FALSE
        OBVIOUS
      <4>1. m.prev[head] = AddressOfFirst(m, b)
        BY <1>1, <3>1 DEF Linked, Heads, head
      <4> QED
        BY <3>2, <4>1 DEF AddressOfNext, AddressOfFirst
    <3> QED
      BY <1>2, <1>3, <3>1, <3>2, <3>3
  <2> QED
    BY <2>1, <2>2
<1>11. Anchored(id, n, t, L \cup {r})
  <2> HIDE DEF t, head
  <2> SUFFICES ASSUME NEW q \in L \cup {r}
               PROVE  \/ /\ t.prev[q] = AddressOfFirst(t, Slot(id, n, q))
                         /\ t.first[Slot(id, n, q)] = q
                      \/ \E p \in L \cup {r} : /\ t.prev[q] = AddressOfNext(p)
                                               /\ t.next[p] = q
    BY DEF Anchored
  <2>1. CASE q = r
    BY <1>1, <1>2, <1>3, <1>5, <2>1
  <2>2. CASE q # r /\ q = head
    BY <1>2, <1>3, <2>2
  <2>3. CASE q # r /\ q # head
    <3>1. q \in L /\ t.prev[q] = m.prev[q]
      BY <1>2, <1>3, <2>3
    <3>2. CASE \E p \in L : m.prev[q] = AddressOfNext(p) /\ m.next[p] = q
      <4>1. PICK p \in L : m.prev[q] = AddressOfNext(p) /\ m.next[p] = q
        BY <3>2
      <4>2. t.next[p] = q
        BY <1>2, <1>3, <4>1
      <4> QED
        BY <3>1, <4>1, <4>2
    <3>3. CASE /\ m.prev[q] = AddressOfFirst(m, Slot(id, n, q))
               /\ m.first[Slot(id, n, q)] = q
      <4>1. Slot(id, n, q) # b
        BY <2>3, <3>3 DEF head
      <4>2. t.first[Slot(id, n, q)] = q
        BY <1>2, <1>3, <1>4, <3>1, <3>3, <4>1
      <4> QED
        BY <1>5, <3>1, <3>3, <4>2
    <3> QED
      BY <3>1, <3>2, <3>3 DEF Linked, Anchored
  <2> QED
    BY <2>1, <2>2, <2>3
<1>12. \E rank \in [Rec \cup {NULL} -> Nat] : Ranks(n, t, L \cup {r}, rank)
  <2>1. PICK rank \in [Rec \cup {NULL} -> Nat] : Ranks(n, m, L, rank)
    BY DEF Linked
  <2> DEFINE new == [rank EXCEPT ![r] = rank[head] + 1]
  <2>2. head \in Rec \cup {NULL} /\ rank[head] \in Nat /\ m.count[b] \in Nat
    BY <1>1, <1>2
  <2>3. rank[head] <= m.count[b]
    BY <1>1, <2>1 DEF Ranks
  <2> HIDE DEF t, head
  <2>4. new \in [Rec \cup {NULL} -> Nat] /\ new[NULL] = 0
    BY <1>6, <2>1, <2>2 DEF Ranks
  <2>5. t.usage \in Nat /\ m.usage <= t.usage /\ m.count[b] + 1 <= t.usage
    <3>1. t.usage = Larger(m.usage, m.count[b] + 1) /\ m.usage \in Nat
      BY <1>2, <1>3
    <3> QED
      BY <2>2, <3>1 DEF Larger
  <2>6. /\ new[r] = rank[head] + 1
        /\ \A q \in Rec \cup {NULL} : q # r => new[q] = rank[q]
    OBVIOUS
  <2>7. head # r
    BY <1>6, <1>7
  <2>8. ASSUME NEW q \in L \cup {r}
        PROVE  new[t.next[q]] < new[q] /\ new[q] <= t.usage
    <3> HIDE DEF new, b
    <3>1. CASE q = r
      <4>1. t.next[q] = head
        BY <1>2, <1>3, <3>1
      <4> QED
        BY <2>2, <2>3, <2>5, <2>6, <2>7, <3>1, <4>1
    <3>2. CASE q # r
      <4>1. q \in L /\ t.next[q] = m.next[q]
        BY <1>2, <1>3, <3>2
      <4>2. m.next[q] # r /\ m.next[q] \in Rec \cup {NULL}
        BY <1>2, <1>6, <4>1 DEF Linked, Links
      <4>3. rank[m.next[q]] < rank[q] /\ rank[q] <= m.usage
        BY <2>1, <4>1 DEF Ranks
      <4>4. new[t.next[q]] = rank[m.next[q]] /\ new[q] = rank[q]
        BY <1>2, <2>6, <3>2, <4>1, <4>2
      <4>5. rank[q] \in Nat
        BY <1>2, <4>1
      <4> QED
        BY <1>2, <2>5, <4>3, <4>4, <4>5
    <3> QED
      BY <3>1, <3>2
  <2>9. ASSUME NEW c \in 0..(n - 1)
        PROVE  new[t.first[c]] <= t.count[c] /\ t.count[c] <= t.usage
    <3> HIDE DEF new
    <3>1. CASE c = b
      <4>1. t.first[c] = r /\ t.count[c] = m.count[b] + 1
        BY <1>1, <1>2, <1>3, <3>1
      <4> QED
        BY <2>2, <2>3, <2>5, <2>6, <4>1
    <3>2. CASE c # b
      <4>1. t.first[c] = m.first[c] /\ t.count[c] = m.count[c]
        BY <1>2, <1>3, <3>2
      <4>2. m.first[c] # r /\ m.first[c] \in Rec \cup {NULL}
        BY <1>2, <1>6, <1>8, <3>2
      <4>3. rank[m.first[c]] <= m.count[c] /\ m.count[c] <= m.usage
        BY <2>1 DEF Ranks
      <4>4. new[t.first[c]] = rank[m.first[c]]
        BY <2>6, <4>1, <4>2
      <4>5. m.count[c] \in Nat
        BY <1>2
      <4> QED
        BY <1>2, <2>5, <4>1, <4>3, <4>4, <4>5
    <3> QED
      BY <3>1, <3>2
  <2> HIDE DEF new
  <2>10. Ranks(n, t, L \cup {r}, new)
    BY <2>4, <2>8, <2>9 DEF Ranks
  <2> QED
    BY <2>4, <2>10
<1>13. \A q \in L \cup {r} : id[q] \in Nat
  BY <1>2
<1>14. \A q \in Rec \ (L \cup {r}) : t.next[q] = m.next[q]
  <2> HIDE DEF t
  <2> QED
    BY <1>2, <1>3
<1> HIDE DEF t
<1> QED
  BY <1>2, <1>3, <1>9, <1>10, <1>11, <1>12, <1>13, <1>14 DEF Linked, t

\* What unlinking r leaves of a table: whatever led to r leads to the next
\* record, and the next record points back to where r did.
LEMMA UnlinkedFields ==
    ASSUME NEW n \in Nat \ {0}, NEW L, NEW ids, Linked(ids, n, map, L),
           \A q \in Rec \ L : map.next[q] = NULL,
           NEW r \in L
    PROVE  LET u == Unlinked(r)
           IN  /\ u \in Tables(n)
               /\ u.version = map.version /\ u.count = map.count
               /\ u.usage = map.usage
               /\ u.first = [c \in 0..(n - 1) |->
                                IF map.first[c] = r THEN map.next[r]
                                ELSE map.first[c]]
               /\ u.next  = [q \in Rec |->
                                IF q = r THEN NULL
                                ELSE IF map.next[q] = r THEN map.next[r]
                                ELSE map.next[q]]
               /\ u.prev  = [q \in Rec |->
                                IF q = r THEN NULL
                                ELSE IF q = map.next[r] THEN map.prev[r]
                                ELSE map.prev[q]]
<1> DEFINE nx  == map.next[r]
           ptr == map.prev[r]
           b   == Slot(ids, n, r)
           s   == Store(map, ptr, nx)
           v   == SetPrev(s, nx, ptr)
           u   == Unlinked(r)
<1>1. /\ map \in Tables(n) /\ r \in Rec /\ ids[r] \in Nat
      /\ map.first \in [0..(n - 1) -> Rec \cup {NULL}]
      /\ map.next \in [Rec -> Rec \cup {NULL}]
      /\ map.prev \in [Rec -> Address \cup {NULL}]
  BY DEF Linked, Tables
<1>2. nx \in Rec \cup {NULL} /\ ptr \in Address \cup {NULL} /\ NULL \notin Rec
  BY <1>1, BucketsAssumption
<1>3. b \in 0..(n - 1)
  BY <1>1, SlotInTable DEF Slot
<1>4. /\ s \in Tables(n)
      /\ s.version = map.version /\ s.count = map.count /\ s.usage = map.usage
      /\ s.prev = map.prev
      /\ s.first = [c \in 0..(n - 1) |-> IF map.first[c] = r THEN nx
                                          ELSE map.first[c]]
      /\ s.next = [q \in Rec |-> IF map.next[q] = r THEN nx ELSE map.next[q]]
  <2>1. CASE ptr = AddressOfFirst(map, b) /\ map.first[b] = r
    <3>1. s = [map EXCEPT !.first[b] = nx]
      BY <2>1 DEF Store, AddressOfFirst
    <3>2. \A c \in 0..(n - 1) : map.first[c] = r <=> c = b
      BY <1>2, <2>1 DEF Linked, Heads
    <3>3. \A q \in Rec : map.next[q] # r
      <4> SUFFICES ASSUME NEW q \in Rec, map.next[q] = r
                   PROVE  FALSE
        OBVIOUS
      <4>1. q \in L
        BY <1>1, <1>2
      <4>2. ptr = AddressOfNext(q)
        BY <1>1, <1>2, <4>1 DEF Linked, Links
      <4> QED
        BY <2>1, <4>2 DEF AddressOfFirst, AddressOfNext
    <3> HIDE DEF nx, ptr, b, s
    <3>4. [map.first EXCEPT ![b] = nx] \in [0..(n - 1) -> Rec \cup {NULL}]
      BY <1>1, <1>2
    <3>5. /\ s \in Tables(n)
          /\ s.version = map.version /\ s.count = map.count
          /\ s.usage = map.usage /\ s.prev = map.prev /\ s.next = map.next
          /\ s.first = [map.first EXCEPT ![b] = nx]
      BY <1>1, <3>1, <3>4 DEF Tables
    <3>6. s.first = [c \in 0..(n - 1) |-> IF map.first[c] = r THEN nx
                                           ELSE map.first[c]]
      BY <1>1, <1>3, <3>2, <3>5
    <3>7. s.next = [q \in Rec |-> IF map.next[q] = r THEN nx ELSE map.next[q]]
      BY <1>1, <3>3, <3>5
    <3> QED
      BY <3>5, <3>6, <3>7
  <2>2. CASE \E p \in L : ptr = AddressOfNext(p) /\ map.next[p] = r
    <3>0. PICK p \in L : ptr = AddressOfNext(p) /\ map.next[p] = r
      BY <2>2
    <3>1. s = [map EXCEPT !.next[p] = nx]
      BY <3>0 DEF Store, AddressOfNext
    <3>2. \A c \in 0..(n - 1) : map.first[c] # r
      <4> SUFFICES ASSUME NEW c \in 0..(n - 1), map.first[c] = r
                   PROVE  FALSE
        OBVIOUS
      <4>1. ptr = AddressOfFirst(map, c)
        BY <1>1, <1>2 DEF Linked, Heads
      <4> QED
        BY <3>0, <4>1 DEF AddressOfFirst, AddressOfNext
    <3>3. \A q \in Rec : map.next[q] = r <=> q = p
      <4> SUFFICES ASSUME NEW q \in Rec, map.next[q] = r
                   PROVE  q = p
        BY <3>0
      <4>1. q \in L
        BY <1>1, <1>2
      <4>2. ptr = AddressOfNext(q)
        BY <1>1, <1>2, <4>1 DEF Linked, Links
      <4> QED
        BY <3>0, <4>2 DEF AddressOfNext
    <3> HIDE DEF nx, ptr, b, s
    <3>4. p \in Rec /\ [map.next EXCEPT ![p] = nx] \in [Rec -> Rec \cup {NULL}]
      BY <1>1, <1>2 DEF Linked
    <3>5. /\ s \in Tables(n)
          /\ s.version = map.version /\ s.count = map.count
          /\ s.usage = map.usage /\ s.prev = map.prev /\ s.first = map.first
          /\ s.next = [map.next EXCEPT ![p] = nx]
      BY <1>1, <3>1, <3>4 DEF Tables
    <3>6. s.first = [c \in 0..(n - 1) |-> IF map.first[c] = r THEN nx
                                           ELSE map.first[c]]
      BY <1>1, <3>2, <3>5
    <3>7. s.next = [q \in Rec |-> IF map.next[q] = r THEN nx ELSE map.next[q]]
      BY <1>1, <3>3, <3>4, <3>5
    <3> QED
      BY <3>5, <3>6, <3>7
  <2> QED
    BY <2>1, <2>2 DEF Linked, Anchored
<1>5. /\ v \in Tables(n)
      /\ v.version = s.version /\ v.count = s.count /\ v.usage = s.usage
      /\ v.first = s.first /\ v.next = s.next
      /\ v.prev = [q \in Rec |-> IF q = nx THEN ptr ELSE map.prev[q]]
  <2>1. CASE nx = NULL
    <3> HIDE DEF nx, ptr, s
    <3> QED
      BY <1>1, <1>2, <1>4, <2>1 DEF SetPrev
  <2>2. CASE nx # NULL
    <3>1. v = [s EXCEPT !.prev = [s.prev EXCEPT ![nx] = ptr]]
      BY <2>2 DEF SetPrev
    <3> HIDE DEF nx, ptr, s, v
    <3>2. [s.prev EXCEPT ![nx] = ptr] \in [Rec -> Address \cup {NULL}]
      BY <1>1, <1>2, <1>4
    <3>3. /\ v \in Tables(n)
          /\ v.version = s.version /\ v.count = s.count /\ v.usage = s.usage
          /\ v.first = s.first /\ v.next = s.next
          /\ v.prev = [s.prev EXCEPT ![nx] = ptr]
      BY <1>4, <3>1, <3>2 DEF Tables
    <3> QED
      BY <1>1, <1>2, <1>4, <2>2, <3>3
  <2> QED
    BY <2>1, <2>2
<1>6. /\ u \in Tables(n)
      /\ u.version = v.version /\ u.count = v.count /\ u.usage = v.usage
      /\ u.first = v.first
      /\ u.next = [v.next EXCEPT ![r] = NULL]
      /\ u.prev = [v.prev EXCEPT ![r] = NULL]
  <2>1. u = [v EXCEPT !.next = [v.next EXCEPT ![r] = NULL],
                      !.prev = [v.prev EXCEPT ![r] = NULL]]
    BY DEF Unlinked, Freed
  <2> HIDE DEF nx, ptr, s, v, u
  <2>2. /\ [v.next EXCEPT ![r] = NULL] \in [Rec -> Rec \cup {NULL}]
        /\ [v.prev EXCEPT ![r] = NULL] \in [Rec -> Address \cup {NULL}]
    BY <1>1, <1>5 DEF Tables
  <2> QED
    BY <1>5, <2>1, <2>2 DEF Tables
<1> HIDE DEF u, v, s, nx, ptr
<1>7. u.next = [q \in Rec |-> IF q = r THEN NULL
                              ELSE IF map.next[q] = r THEN nx
                              ELSE map.next[q]]
  BY <1>1, <1>4, <1>5, <1>6
<1>8. u.prev = [q \in Rec |-> IF q = r THEN NULL
                              ELSE IF q = nx THEN ptr ELSE map.prev[q]]
  BY <1>1, <1>4, <1>5, <1>6
<1> QED
  BY <1>4, <1>5, <1>6, <1>7, <1>8 DEF u, nx, ptr

\* Unlinking a record keeps the shape of the table.
LEMMA UnlinkedLinked ==
    ASSUME NEW n \in Nat \ {0}, NEW L, NEW ids, Linked(ids, n, map, L),
           \A q \in Rec \ L : map.next[q] = NULL,
           NEW r \in L
    PROVE  /\ Linked(ids, n, Unlinked(r), L \ {r})
           /\ \A q \in Rec \ (L \ {r}) : Unlinked(r).next[q] = NULL
<1> DEFINE nx  == map.next[r]
           ptr == map.prev[r]
           u   == Unlinked(r)
<1>1. /\ map \in Tables(n) /\ r \in Rec /\ L \subseteq Rec
      /\ map.first \in [0..(n - 1) -> Rec \cup {NULL}]
      /\ map.count \in [0..(n - 1) -> Nat]
      /\ map.next \in [Rec -> Rec \cup {NULL}] /\ map.usage \in Nat
  BY DEF Linked, Tables
<1>2. /\ u \in Tables(n)
      /\ u.version = map.version /\ u.count = map.count /\ u.usage = map.usage
      /\ u.first = [c \in 0..(n - 1) |-> IF map.first[c] = r THEN nx
                                          ELSE map.first[c]]
      /\ u.next  = [q \in Rec |-> IF q = r THEN NULL
                                  ELSE IF map.next[q] = r THEN nx
                                  ELSE map.next[q]]
      /\ u.prev  = [q \in Rec |-> IF q = r THEN NULL
                                  ELSE IF q = nx THEN ptr ELSE map.prev[q]]
  BY UnlinkedFields
<1>3. r # NULL
  BY <1>1, BucketsAssumption
<1>4. PICK rank \in [Rec \cup {NULL} -> Nat] : Ranks(n, map, L, rank)
  BY DEF Linked
<1>5. rank[nx] < rank[r] /\ rank[nx] \in Nat /\ rank[r] \in Nat
  BY <1>1, <1>4 DEF Ranks
<1>6. nx # r
  BY <1>5
<1>7. nx # NULL => /\ nx \in L /\ Slot(ids, n, nx) = Slot(ids, n, r)
                   /\ map.prev[nx] = AddressOfNext(r)
  BY DEF Linked, Links
<1>8. \A c : AddressOfFirst(u, c) = AddressOfFirst(map, c)
  BY <1>2 DEF AddressOfFirst
<1>9. \A p, q, c : /\ AddressOfNext(p) # AddressOfFirst(map, c)
                   /\ AddressOfNext(p) = AddressOfNext(q) => p = q
  BY DEF AddressOfNext, AddressOfFirst
<1>10. Heads(ids, n, u, L \ {r})
  <2> HIDE DEF u, nx, ptr
  <2> SUFFICES ASSUME NEW c \in 0..(n - 1), u.first[c] # NULL
               PROVE  /\ u.first[c] \in L \ {r}
                      /\ Slot(ids, n, u.first[c]) = c
                      /\ u.prev[u.first[c]] = AddressOfFirst(u, c)
    BY DEF Heads
  <2>1. map.first[c] # NULL
    BY <1>2, <1>3
  <2>2. /\ map.first[c] \in L /\ Slot(ids, n, map.first[c]) = c
        /\ map.prev[map.first[c]] = AddressOfFirst(map, c)
    BY <2>1 DEF Linked, Heads
  <2>3. CASE map.first[c] = r
    <3>1. u.first[c] = nx
      BY <1>2, <2>3
    <3>2. nx \in L \ {r} /\ Slot(ids, n, nx) = c
      BY <1>6, <1>7, <2>2, <2>3, <3>1
    <3>3. u.prev[nx] = ptr
      BY <1>1, <1>2, <3>2
    <3> QED
      BY <1>8, <2>2, <2>3, <3>1, <3>2, <3>3 DEF ptr
  <2>4. CASE map.first[c] # r
    <3>1. u.first[c] = map.first[c]
      BY <1>2, <2>4
    <3>2. map.first[c] # nx
      BY <1>7, <1>9, <2>1, <2>2
    <3>3. u.prev[map.first[c]] = map.prev[map.first[c]]
      BY <1>1, <1>2, <2>2, <2>4, <3>2
    <3> QED
      BY <1>8, <2>2, <2>4, <3>1, <3>3
  <2> QED
    BY <2>3, <2>4
<1>11. Links(ids, n, u, L \ {r})
  <2> HIDE DEF u, nx, ptr
  <2> SUFFICES ASSUME NEW q \in L \ {r}, u.next[q] # NULL
               PROVE  /\ u.next[q] \in L \ {r}
                      /\ Slot(ids, n, u.next[q]) = Slot(ids, n, q)
                      /\ u.prev[u.next[q]] = AddressOfNext(q)
    BY DEF Links
  <2>1. map.next[q] # NULL
    BY <1>1, <1>2, <1>3
  <2>2. /\ map.next[q] \in L /\ Slot(ids, n, map.next[q]) = Slot(ids, n, q)
        /\ map.prev[map.next[q]] = AddressOfNext(q)
    BY <2>1 DEF Linked, Links
  <2>3. CASE map.next[q] = r
    <3>1. u.next[q] = nx
      BY <1>1, <1>2, <2>3
    <3>2. nx \in L \ {r} /\ Slot(ids, n, nx) = Slot(ids, n, q)
      BY <1>6, <1>7, <2>2, <2>3, <3>1
    <3>3. u.prev[nx] = ptr
      BY <1>1, <1>2, <3>2
    <3> QED
      BY <2>2, <2>3, <3>1, <3>2, <3>3 DEF ptr
  <2>4. CASE map.next[q] # r
    <3>1. u.next[q] = map.next[q]
      BY <1>1, <1>2, <2>4
    <3>2. map.next[q] # nx
      BY <1>7, <1>9, <2>1, <2>2
    <3>3. u.prev[map.next[q]] = map.prev[map.next[q]]
      BY <1>1, <1>2, <2>2, <2>4, <3>2
    <3> QED
      BY <2>2, <2>4, <3>1, <3>3
  <2> QED
    BY <2>3, <2>4
<1>12. Anchored(ids, n, u, L \ {r})
  <2> HIDE DEF u, nx, ptr
  <2> SUFFICES ASSUME NEW q \in L \ {r}
               PROVE  \/ /\ u.prev[q] = AddressOfFirst(u, Slot(ids, n, q))
                         /\ u.first[Slot(ids, n, q)] = q
                      \/ \E p \in L \ {r} : /\ u.prev[q] = AddressOfNext(p)
                                            /\ u.next[p] = q
    BY DEF Anchored
  <2>1. \A s \in L : Slot(ids, n, s) \in 0..(n - 1)
    BY SlotInTable DEF Linked, Slot
  <2>2. CASE q = nx
    <3>1. u.prev[q] = ptr /\ Slot(ids, n, q) = Slot(ids, n, r)
      BY <1>1, <1>2, <1>3, <1>7, <2>2, BucketsAssumption
    <3>2. CASE /\ ptr = AddressOfFirst(map, Slot(ids, n, r))
               /\ map.first[Slot(ids, n, r)] = r
      <4>1. u.first[Slot(ids, n, r)] = nx
        BY <1>2, <2>1, <3>2
      <4> QED
        BY <1>8, <2>2, <3>1, <3>2, <4>1
    <3>3. CASE \E p \in L : ptr = AddressOfNext(p) /\ map.next[p] = r
      <4>1. PICK p \in L : ptr = AddressOfNext(p) /\ map.next[p] = r
        BY <3>3
      <4>2. p # r
        BY <1>6, <4>1 DEF nx
      <4>3. u.next[p] = nx
        BY <1>1, <1>2, <4>1, <4>2
      <4> QED
        BY <2>2, <3>1, <4>1, <4>2, <4>3
    <3> QED
      BY <3>2, <3>3 DEF Linked, Anchored, ptr
  <2>3. CASE q # nx
    <3>1. u.prev[q] = map.prev[q]
      BY <1>1, <1>2, <2>3
    <3>2. CASE /\ map.prev[q] = AddressOfFirst(map, Slot(ids, n, q))
               /\ map.first[Slot(ids, n, q)] = q
      <4>1. u.first[Slot(ids, n, q)] = q
        BY <1>2, <2>1, <3>2
      <4> QED
        BY <1>8, <3>1, <3>2, <4>1
    <3>3. CASE \E p \in L : map.prev[q] = AddressOfNext(p) /\ map.next[p] = q
      <4>1. PICK p \in L : map.prev[q] = AddressOfNext(p) /\ map.next[p] = q
        BY <3>3
      <4>2. p # r
        BY <2>3, <4>1 DEF nx
      <4>3. u.next[p] = q
        BY <1>1, <1>2, <4>1, <4>2
      <4> QED
        BY <3>1, <4>1, <4>2, <4>3
    <3> QED
      BY <3>2, <3>3 DEF Linked, Anchored
  <2> QED
    BY <2>2, <2>3
<1>13. Ranks(n, u, L \ {r}, rank)
  <2> HIDE DEF u, nx, ptr
  <2>1. rank[NULL] = 0
    BY <1>4 DEF Ranks
  <2>2. ASSUME NEW q \in L \ {r}
        PROVE  rank[u.next[q]] < rank[q] /\ rank[q] <= u.usage
    <3>1. /\ rank[map.next[q]] < rank[q] /\ rank[q] <= map.usage
          /\ rank[q] \in Nat
      BY <1>1, <1>4 DEF Ranks
    <3>2. (u.next[q] = nx /\ map.next[q] = r) \/ u.next[q] = map.next[q]
      BY <1>1, <1>2
    <3> QED
      BY <1>2, <1>5, <3>1, <3>2
  <2>3. ASSUME NEW c \in 0..(n - 1)
        PROVE  rank[u.first[c]] <= u.count[c] /\ u.count[c] <= u.usage
    <3>1. /\ rank[map.first[c]] <= map.count[c] /\ map.count[c] <= map.usage
          /\ map.count[c] \in Nat
      BY <1>1, <1>4 DEF Ranks
    <3>2. (u.first[c] = nx /\ map.first[c] = r) \/ u.first[c] = map.first[c]
      BY <1>2
    <3> QED
      BY <1>2, <1>5, <3>1, <3>2
  <2> QED
    BY <2>1, <2>2, <2>3 DEF Ranks
<1>14. \A q \in Rec \ (L \ {r}) : u.next[q] = NULL
  <2> HIDE DEF u, nx, ptr
  <2> QED
    BY <1>2, <1>3
<1>15. \A q \in L : ids[q] \in Nat
  BY DEF Linked
<1> HIDE DEF u
<1> QED
  BY <1>1, <1>2, <1>4, <1>10, <1>11, <1>12, <1>13, <1>14, <1>15 DEF Linked, u

(***************************************************************************)
(* Chains: the links next, read as sequences of records.                   *)
(***************************************************************************)

\* No record occurs twice in a sequence.
Distinct(s) == \A i, j \in 1..Len(s) : s[i] = s[j] => i = j

\* The elements of a concatenation.
LEMMA Concatenation ==
    ASSUME NEW s \in Seq(Rec), NEW t \in Seq(Rec)
    PROVE  /\ s \o t \in Seq(Rec) /\ Len(s \o t) = Len(s) + Len(t)
           /\ ToSet(s \o t) = ToSet(s) \cup ToSet(t)
           /\ Distinct(s) /\ Distinct(t) /\ ToSet(s) \cap ToSet(t) = {}
                => Distinct(s \o t)
<1>1. s \o t \in Seq(Rec) /\ Len(s \o t) = Len(s) + Len(t)
  OBVIOUS
<1>2. \A i \in 1..Len(s) : (s \o t)[i] = s[i]
  OBVIOUS
<1>3. \A i \in 1..Len(t) : /\ i + Len(s) \in 1..Len(s \o t)
                           /\ (s \o t)[i + Len(s)] = t[i]
  OBVIOUS
<1>4. \A i \in 1..Len(s \o t) :
         \/ i \in 1..Len(s) /\ (s \o t)[i] = s[i]
         \/ i - Len(s) \in 1..Len(t) /\ (s \o t)[i] = t[i - Len(s)]
  OBVIOUS
<1>5. /\ ToSet(s) = {s[i] : i \in 1..Len(s)}
      /\ ToSet(t) = {t[i] : i \in 1..Len(t)}
      /\ ToSet(s \o t) = {(s \o t)[i] : i \in 1..Len(s \o t)}
  BY <1>1 DEF ToSet
<1>6. 1..Len(s) \subseteq 1..Len(s \o t)
  OBVIOUS
<1>7. ToSet(s \o t) = ToSet(s) \cup ToSet(t)
  <2> DEFINE u == s \o t
  <2> HIDE DEF u
  <2>1. \A i \in 1..Len(u) : u[i] \in ToSet(s) \cup ToSet(t)
    BY <1>4, <1>5 DEF u
  <2>2. \A i \in 1..Len(s) : s[i] \in ToSet(u)
    BY <1>2, <1>5, <1>6 DEF u
  <2>3. \A i \in 1..Len(t) : t[i] \in ToSet(u)
    BY <1>3, <1>5 DEF u
  <2> QED
    BY <1>5, <2>1, <2>2, <2>3 DEF u
<1>8. ASSUME Distinct(s), Distinct(t), ToSet(s) \cap ToSet(t) = {},
             NEW i \in 1..Len(s \o t), NEW j \in 1..Len(s \o t),
             (s \o t)[i] = (s \o t)[j]
      PROVE  i = j
  <2>1. CASE i \in 1..Len(s) /\ j \in 1..Len(s)
    BY <1>2, <1>8, <2>1 DEF Distinct
  <2>2. CASE i - Len(s) \in 1..Len(t) /\ j - Len(s) \in 1..Len(t)
    <3>1. (s \o t)[i] = t[i - Len(s)] /\ (s \o t)[j] = t[j - Len(s)]
      BY <2>2
    <3>2. i - Len(s) = j - Len(s)
      BY <1>8, <2>2, <3>1 DEF Distinct
    <3> QED
      BY <3>2
  <2>3. CASE i \in 1..Len(s) /\ j - Len(s) \in 1..Len(t)
    <3>1. (s \o t)[i] = s[i] /\ (s \o t)[j] = t[j - Len(s)]
      BY <2>3
    <3> QED
      BY <1>5, <1>8, <2>3, <3>1
  <2>4. CASE j \in 1..Len(s) /\ i - Len(s) \in 1..Len(t)
    <3>1. (s \o t)[j] = s[j] /\ (s \o t)[i] = t[i - Len(s)]
      BY <2>4
    <3> QED
      BY <1>5, <1>8, <2>4, <3>1
  <2> QED
    BY <1>4, <2>1, <2>2, <2>3, <2>4
<1>9. Distinct(s) /\ Distinct(t) /\ ToSet(s) \cap ToSet(t) = {}
         => Distinct(s \o t)
  BY <1>8 DEF Distinct
<1> QED
  BY <1>1, <1>7, <1>9

\* The sequences of no record and of one.
LEMMA ShortSequences ==
    /\ <<>> \in Seq(Rec) /\ Len(<<>>) = 0 /\ ToSet(<<>>) = {} /\ Distinct(<<>>)
    /\ \A q \in Rec : /\ <<q>> \in Seq(Rec) /\ Len(<<q>>) = 1
                      /\ ToSet(<<q>>) = {q} /\ Distinct(<<q>>)
<1>1. ToSet(<<>>) = {} /\ Distinct(<<>>)
  BY DEF ToSet, Distinct
<1>2. ASSUME NEW q \in Rec
      PROVE  ToSet(<<q>>) = {q} /\ Distinct(<<q>>)
  BY DEF ToSet, Distinct
<1> QED
  BY <1>1, <1>2

\* A table whose chains hold the records L, and no other record has a link.
Clean(ids, n, m, L) ==
    /\ Linked(ids, n, m, L)
    /\ \A q \in Rec \ L : m.next[q] = NULL

\* Along the links next a bounded height goes down, for all records.
LEMMA Heights ==
    ASSUME NEW n \in Nat, NEW m, NEW L, NEW ids, Clean(ids, n, m, L)
    PROVE  \E N \in Nat : \E height \in [Rec \cup {NULL} -> 0..N] :
              \A q \in Rec : /\ m.next[q] \in Rec \cup {NULL}
                             /\ height[m.next[q]] < height[q]
<1> DEFINE D == Rec \cup {NULL}
<1>1. PICK rank \in [Rec \cup {NULL} -> Nat] : Ranks(n, m, L, rank)
  BY DEF Clean, Linked
<1>2. /\ L \subseteq Rec /\ m.usage \in Nat /\ NULL \notin Rec
      /\ m.next \in [Rec -> Rec \cup {NULL}]
  BY BucketsAssumption DEF Clean, Linked, Tables
<1> DEFINE height == [q \in D |-> IF q \in L THEN rank[q]
                                   ELSE IF q = NULL THEN 0 ELSE 1]
<1>3. height \in [D -> 0..(m.usage + 1)]
  <2>1. \A q \in L : rank[q] <= m.usage /\ rank[q] \in Nat
    BY <1>1, <1>2 DEF Ranks
  <2> QED
    BY <1>2, <2>1
<1>4. \A q \in Rec : height[m.next[q]] < height[q]
  <2> SUFFICES ASSUME NEW q \in Rec
               PROVE  height[m.next[q]] < height[q]
    OBVIOUS
  <2>1. CASE q \in L /\ m.next[q] = NULL
    <3>1. rank[NULL] < rank[q] /\ rank[NULL] = 0
      BY <1>1, <2>1 DEF Ranks
    <3> QED
      BY <1>2, <2>1, <3>1
  <2>2. CASE q \in L /\ m.next[q] # NULL
    <3>1. m.next[q] \in L /\ rank[m.next[q]] < rank[q]
      BY <1>1, <2>2 DEF Ranks, Clean, Linked, Links
    <3> QED
      BY <1>2, <2>2, <3>1
  <2>3. CASE q \notin L
    <3>1. m.next[q] = NULL
      BY <2>3 DEF Clean
    <3> QED
      BY <1>2, <2>3, <3>1
  <2> QED
    BY <2>1, <2>2, <2>3
<1>5. m.usage + 1 \in Nat /\ \A q \in Rec : m.next[q] \in D
  BY <1>2
<1> HIDE DEF height
<1> QED
  BY <1>3, <1>4, <1>5

\* The equation by which Chain is defined has a solution.
LEMMA ChainSteps ==
    ASSUME NEW n \in Nat, NEW m, NEW L, NEW ids, Clean(ids, n, m, L)
    PROVE  /\ Chain(m, NULL) = <<>>
           /\ \A q \in Rec : Chain(m, q) = <<q>> \o Chain(m, m.next[q])
           /\ \A q \in Rec \cup {NULL} : Chain(m, q) \in Seq(Rec)
<1> DEFINE D == Rec \cup {NULL}
           Solves(f) == f = [q \in D |-> IF q = NULL THEN <<>>
                                          ELSE <<q>> \o f[m.next[q]]]
<1>0. PICK N \in Nat : \E height \in [D -> 0..N] :
         \A q \in Rec : m.next[q] \in D /\ height[m.next[q]] < height[q]
  BY Heights
<1>1. PICK height \in [D -> 0..N] :
         \A q \in Rec : m.next[q] \in D /\ height[m.next[q]] < height[q]
  BY <1>0
<1>2. NULL \notin Rec
  BY BucketsAssumption
<1> DEFINE next == [q \in D |-> IF q = NULL THEN NULL ELSE m.next[q]]
           base == [q \in D |-> <<>>]
           step == [p \in D \X Seq(Rec) |->
                      IF p[1] = NULL THEN <<>> ELSE <<p[1]>> \o p[2]]
<1>5. \E f \in [D -> Seq(Rec)] : Solves(f)
  <2>1. next \in [D -> D] /\ base \in [D -> Seq(Rec)]
    BY <1>1, ShortSequences
  <2>2. step \in [D \X Seq(Rec) -> Seq(Rec)]
    OBVIOUS
  <2>3. \A q \in D \ {NULL} : height[next[q]] < height[q]
    BY <1>1, <1>2
  <2>4. Followed(D, Seq(Rec), {NULL}, next, base, step)
    <3>1. height \in [D -> 0..N]
      BY <1>1
    <3> HIDE DEF D, next, base, step
    <3> QED
      BY <2>1, <2>2, <2>3, <3>1, Walk
  <2>5. PICK f \in [D -> Seq(Rec)] : Follows(D, {NULL}, next, base, step, f)
    BY <2>4 DEF Followed
  <2>6. \A q \in D : f[q] = IF q = NULL THEN <<>> ELSE <<q>> \o f[m.next[q]]
    <3> SUFFICES ASSUME NEW q \in D
                 PROVE  f[q] = IF q = NULL THEN <<>> ELSE <<q>> \o f[m.next[q]]
      OBVIOUS
    <3>1. CASE q = NULL
      BY <2>5, <3>1 DEF Follows
    <3>2. CASE q # NULL
      <4>1. next[q] = m.next[q] /\ m.next[q] \in D
        BY <1>1, <3>2
      <4>2. f[q] = step[<<q, f[m.next[q]]>>]
        BY <2>5, <3>2, <4>1 DEF Follows
      <4>3. <<q, f[m.next[q]]>> \in D \X Seq(Rec)
        BY <4>1
      <4> QED
        BY <3>2, <4>2, <4>3
    <3> QED
      BY <3>1, <3>2
  <2> QED
    BY <2>6
<1> DEFINE from == CHOOSE f : Solves(f)
<1>6. \A r : Chain(m, r) = from[r]
  BY DEF Chain
<1>7. Solves(from)
  <2> HIDE DEF Solves
  <2> QED
    BY <1>5
<1>8. /\ from[NULL] = <<>>
      /\ \A q \in Rec : from[q] = <<q>> \o from[m.next[q]]
  <2> HIDE DEF from
  <2> QED
    BY <1>1, <1>2, <1>7
<1>9. \A q \in D : from[q] \in Seq(Rec)
  <2> DEFINE S == {q \in D : from[q] \in Seq(Rec)}
  <2> SUFFICES D \subseteq S
    OBVIOUS
  <2>1. height \in [D -> Nat]
    BY <1>1
  <2>2. ASSUME NEW q \in D, \A p \in D : height[p] < height[q] => p \in S
        PROVE  q \in S
    <3> HIDE DEF from
    <3>1. CASE q = NULL
      BY <1>8, <3>1, ShortSequences
    <3>2. CASE q # NULL
      <4>1. m.next[q] \in D /\ height[m.next[q]] < height[q]
        BY <1>1, <3>2
      <4>2. from[m.next[q]] \in Seq(Rec)
        BY <2>2, <4>1
      <4>3. <<q>> \o from[m.next[q]] \in Seq(Rec)
        BY <3>2, <4>2
      <4> QED
        BY <1>8, <3>2, <4>3
    <3> QED
      BY <3>1, <3>2
  <2> HIDE DEF D, S
  <2> QED
    BY <2>1, <2>2, ByRank
<1> HIDE DEF from
<1> QED
  BY <1>6, <1>8, <1>9

\* What a chain from a record of the table on contains: that record, with each
\* record the next one, all of the same bucket, none twice, and no more of them
\* than the rank of the first.
ChainFits(ids, n, m, L, rank, q) ==
    /\ ToSet(Chain(m, q)) \subseteq L
    /\ \A p \in ToSet(Chain(m, q)) : /\ rank[p] <= rank[q]
                                     /\ Slot(ids, n, p) = Slot(ids, n, q)
                                     /\ m.next[p] # NULL =>
                                            m.next[p] \in ToSet(Chain(m, q))
    /\ q # NULL => q \in ToSet(Chain(m, q))
    /\ Distinct(Chain(m, q))
    /\ Len(Chain(m, q)) <= rank[q]

\* The induction goes along the chain, from its end.
LEMMA ChainContents ==
    ASSUME NEW n \in Nat, NEW m, NEW L, NEW ids, Clean(ids, n, m, L),
           NEW rank \in [Rec \cup {NULL} -> Nat], Ranks(n, m, L, rank)
    PROVE  \A q \in L \cup {NULL} : ChainFits(ids, n, m, L, rank, q)
<1> DEFINE D == L \cup {NULL}
           S == {q \in D : ChainFits(ids, n, m, L, rank, q)}
           height == [q \in D |-> rank[q]]
<1>1. L \subseteq Rec /\ NULL \notin Rec
  BY BucketsAssumption DEF Clean, Linked
<1>2. height \in [D -> Nat]
  BY <1>1
<1>3. ASSUME NEW q \in D, \A p \in D : height[p] < height[q] => p \in S
      PROVE  q \in S
  <2>1. CASE q = NULL
    <3>1. Chain(m, q) = <<>> /\ rank[q] = 0
      BY <2>1, ChainSteps DEF Ranks
    <3> QED
      BY <2>1, <3>1, ShortSequences DEF ChainFits
  <2>2. CASE q # NULL
    <3> DEFINE nx == m.next[q]
               rest == Chain(m, nx)
    <3>1. q \in L /\ q \in Rec /\ rank[nx] < rank[q]
      BY <1>1, <2>2 DEF Ranks
    <3>2. nx \in D /\ (nx # NULL => Slot(ids, n, nx) = Slot(ids, n, q))
      BY <3>1 DEF Clean, Linked, Links
    <3>3. ChainFits(ids, n, m, L, rank, nx)
      BY <1>3, <3>1, <3>2
    <3>4. Chain(m, q) = <<q>> \o rest /\ rest \in Seq(Rec)
      BY <1>1, <3>1, <3>2, ChainSteps
    <3>5. rank[nx] \in Nat /\ rank[q] \in Nat
      BY <1>1, <3>2
    <3>6. \A p \in ToSet(rest) :
             p \in L /\ rank[p] <= rank[nx] /\ rank[p] \in Nat
      BY <1>1, <3>3 DEF ChainFits
    <3>7. q \notin ToSet(rest)
      BY <3>1, <3>5, <3>6
    <3>8. /\ ToSet(Chain(m, q)) = {q} \cup ToSet(rest)
          /\ Len(Chain(m, q)) = 1 + Len(rest)
          /\ Distinct(Chain(m, q))
      <4> DEFINE one == <<q>>
      <4>1. /\ one \in Seq(Rec) /\ Len(one) = 1 /\ ToSet(one) = {q}
            /\ Distinct(one)
        BY <3>1, ShortSequences
      <4>2. Distinct(rest)
        BY <3>3 DEF ChainFits
      <4> HIDE DEF one, rest
      <4>3. one \o rest = Chain(m, q)
        BY <3>4 DEF one
      <4>4. /\ Len(one \o rest) = Len(one) + Len(rest)
            /\ ToSet(one \o rest) = ToSet(one) \cup ToSet(rest)
            /\ (/\ Distinct(one) /\ Distinct(rest)
                /\ ToSet(one) \cap ToSet(rest) = {}) => Distinct(one \o rest)
        BY <3>4, <4>1, Concatenation
      <4> QED
        BY <3>7, <4>1, <4>2, <4>3, <4>4
    <3>9. nx = NULL => rest = <<>>
      BY ChainSteps
    <3>10. ToSet(rest) # {} => nx # NULL
      BY <3>9, ShortSequences
    <3>11. ASSUME NEW p \in ToSet(Chain(m, q))
           PROVE  /\ p \in L /\ rank[p] <= rank[q]
                  /\ Slot(ids, n, p) = Slot(ids, n, q)
                  /\ m.next[p] # NULL => m.next[p] \in ToSet(Chain(m, q))
      <4>1. CASE p = q
        <5>1. nx # NULL => nx \in ToSet(rest)
          BY <3>3 DEF ChainFits
        <5> QED
          BY <3>1, <3>5, <3>8, <4>1, <5>1
      <4>2. CASE p # q
        <5>1. p \in ToSet(rest)
          BY <3>8, <3>11, <4>2
        <5>2. Slot(ids, n, p) = Slot(ids, n, q)
          BY <3>2, <3>3, <3>10, <5>1 DEF ChainFits
        <5>3. m.next[p] # NULL => m.next[p] \in ToSet(Chain(m, q))
          BY <3>3, <3>8, <5>1 DEF ChainFits
        <5>4. rank[p] <= rank[q]
          BY <3>1, <3>5, <3>6, <5>1
        <5> QED
          BY <3>6, <5>1, <5>2, <5>3, <5>4
      <4> QED
        BY <4>1, <4>2
    <3>12. Len(Chain(m, q)) <= rank[q]
      <4>1. Len(rest) <= rank[nx] /\ Len(rest) \in Nat
        BY <3>3, <3>4 DEF ChainFits
      <4> HIDE DEF rest, nx
      <4> QED
        BY <3>1, <3>5, <3>8, <4>1
    <3> QED
      BY <3>8, <3>11, <3>12 DEF ChainFits
  <2> QED
    BY <2>1, <2>2
<1>4. D \subseteq S
  <2> HIDE DEF D, S, height
  <2> QED
    BY <1>2, <1>3, ByRank
<1> QED
  BY <1>4

\* The chain of a bucket holds exactly its records, each once: every record is
\* reached from the head of its bucket, since back pointers lead to the head.
LEMMA ChainIsBucket ==
    ASSUME NEW n \in Nat \ {0}, NEW m, NEW L, NEW ids, Clean(ids, n, m, L),
           NEW b \in 0..(n - 1)
    PROVE  /\ Chain(m, m.first[b]) \in Seq(Rec)
           /\ ToSet(Chain(m, m.first[b])) = {q \in L : Slot(ids, n, q) = b}
           /\ Distinct(Chain(m, m.first[b]))
           /\ Len(Chain(m, m.first[b])) <= m.count[b]
<1> DEFINE head == m.first[b]
           D == {q \in L : Slot(ids, n, q) = b}
           S == ToSet(Chain(m, head))
<1>1. PICK rank \in [Rec \cup {NULL} -> Nat] : Ranks(n, m, L, rank)
  BY DEF Clean, Linked
<1>2. /\ L \subseteq Rec /\ m.usage \in Nat /\ NULL \notin Rec
      /\ m.first \in [0..(n - 1) -> Rec \cup {NULL}]
      /\ m.count \in [0..(n - 1) -> Nat]
  BY BucketsAssumption DEF Clean, Linked, Tables
<1>3. head \in L \cup {NULL} /\ (head # NULL => Slot(ids, n, head) = b)
  BY DEF Clean, Linked, Heads
<1>4. ChainFits(ids, n, m, L, rank, head)
  BY <1>1, <1>3, ChainContents
<1>5. Chain(m, head) \in Seq(Rec)
  BY <1>2, <1>3, ChainSteps
<1>6. S \subseteq D
  <2>1. head = NULL => S = {}
    BY ChainSteps, ShortSequences
  <2> HIDE DEF head
  <2> QED
    BY <1>3, <1>4, <2>1 DEF ChainFits
<1> DEFINE depth == [q \in D |-> m.usage - rank[q]]
<1>7. \A q \in D : rank[q] \in Nat /\ rank[q] <= m.usage
  BY <1>1, <1>2 DEF Ranks
<1>8. depth \in [D -> Nat]
  BY <1>2, <1>7
<1>9. ASSUME NEW q \in D, \A p \in D : depth[p] < depth[q] => p \in S
      PROVE  q \in S
  <2>1. CASE m.first[Slot(ids, n, q)] = q
    <3>1. q = head /\ head # NULL
      BY <1>2, <2>1
    <3> QED
      BY <1>4, <3>1 DEF ChainFits
  <2>2. CASE \E p \in L : m.prev[q] = AddressOfNext(p) /\ m.next[p] = q
    <3>1. PICK p \in L : m.next[p] = q
      BY <2>2
    <3>2. q # NULL
      BY <1>2
    <3>3. p \in D
      BY <3>1, <3>2 DEF Clean, Linked, Links
    <3>4. rank[q] < rank[p]
      BY <1>1, <3>1 DEF Ranks
    <3>5. depth[p] < depth[q]
      BY <1>2, <1>7, <3>3, <3>4
    <3>6. p \in S
      BY <1>9, <3>3, <3>5
    <3> QED
      BY <1>4, <3>1, <3>2, <3>6 DEF ChainFits
  <2> QED
    BY <2>1, <2>2 DEF Clean, Linked, Anchored
<1>10. D \subseteq S
  <2> HIDE DEF D, S, depth
  <2> QED
    BY <1>8, <1>9, ByRank
<1>11. Len(Chain(m, head)) <= m.count[b]
  <2>1. rank[head] <= m.count[b] /\ Len(Chain(m, head)) <= rank[head]
    BY <1>1, <1>4 DEF Ranks, ChainFits
  <2>2. Len(Chain(m, head)) \in Nat /\ rank[head] \in Nat /\ m.count[b] \in Nat
    BY <1>2, <1>3, <1>5
  <2> HIDE DEF head
  <2> QED
    BY <2>1, <2>2
<1>12. Distinct(Chain(m, head))
  BY <1>4 DEF ChainFits
<1>13. S = D
  BY <1>6, <1>10
<1> QED
  BY <1>5, <1>11, <1>12, <1>13

\* The records of all chains are those of the table, each once.
LEMMA RecordsContents ==
    ASSUME NEW n \in Nat, NEW m, NEW L, NEW ids, Clean(ids, n, m, L),
           n = 0 => L = {}
    PROVE  /\ Records(m) \in Seq(Rec)
           /\ ToSet(Records(m)) = L
           /\ Distinct(Records(m))
<1> DEFINE D == 0..n
           chain(b) == Chain(m, m.first[b])
           Solves(f) == f = [b \in 0..m.buckets |->
                               IF b = m.buckets THEN <<>>
                               ELSE Chain(m, m.first[b]) \o f[b + 1]]
           height == [b \in D |-> n - b]
           next == [b \in D |-> IF b = n THEN n ELSE b + 1]
           base == [b \in D |-> <<>>]
           step == [p \in D \X Seq(Rec) |->
                      IF p[1] = n THEN <<>> ELSE chain(p[1]) \o p[2]]
<1>1. m.buckets = n /\ L \subseteq Rec
  BY DEF Clean, Linked, Tables
<1>2. \A b \in 0..(n - 1) :
         /\ n \in Nat \ {0} /\ b + 1 \in D /\ b \in D /\ b # n
         /\ chain(b) \in Seq(Rec)
         /\ ToSet(chain(b)) = {q \in L : Slot(ids, n, q) = b}
         /\ Distinct(chain(b))
  <2> SUFFICES ASSUME NEW b \in 0..(n - 1)
               PROVE  /\ n \in Nat \ {0} /\ b + 1 \in D /\ b \in D /\ b # n
                      /\ chain(b) \in Seq(Rec)
                      /\ ToSet(chain(b)) = {q \in L : Slot(ids, n, q) = b}
                      /\ Distinct(chain(b))
    OBVIOUS
  <2>1. n \in Nat \ {0} /\ b + 1 \in D /\ b \in D /\ b # n
    OBVIOUS
  <2> QED
    BY <2>1, ChainIsBucket
<1>3. \A b \in D : b # n => b \in 0..(n - 1)
  OBVIOUS
<1>4. \A q \in L : Slot(ids, n, q) \in 0..(n - 1)
  <2> SUFFICES ASSUME NEW q \in L
               PROVE  Slot(ids, n, q) \in 0..(n - 1)
    OBVIOUS
  <2>1. n \in Nat \ {0} /\ ids[q] \in Nat
    BY DEF Clean, Linked
  <2> QED
    BY <2>1, SlotInTable DEF Slot
<1>5. \E f \in [D -> Seq(Rec)] : Solves(f)
  <2>1. height \in [D -> 0..n] /\ next \in [D -> D]
    OBVIOUS
  <2>2. base \in [D -> Seq(Rec)]
    BY ShortSequences
  <2>3. step \in [D \X Seq(Rec) -> Seq(Rec)]
    <3> SUFFICES ASSUME NEW b \in D, NEW s \in Seq(Rec)
                 PROVE  (IF b = n THEN <<>> ELSE chain(b) \o s) \in Seq(Rec)
      OBVIOUS
    <3>1. CASE b = n
      BY <3>1, ShortSequences
    <3>2. CASE b # n
      <4>1. chain(b) \in Seq(Rec)
        BY <1>2, <1>3, <3>2
      <4> HIDE DEF chain
      <4> QED
        BY <3>2, <4>1
    <3> QED
      BY <3>1, <3>2
  <2>4. \A b \in D \ {n} : height[next[b]] < height[b]
    OBVIOUS
  <2>5. Followed(D, Seq(Rec), {n}, next, base, step)
    <3> HIDE DEF D, next, base, step, height
    <3> QED
      BY <2>1, <2>2, <2>3, <2>4, Walk
  <2>6. PICK f \in [D -> Seq(Rec)] : Follows(D, {n}, next, base, step, f)
    BY <2>5 DEF Followed
  <2>7. ASSUME NEW b \in D
        PROVE  f[b] = IF b = n THEN <<>> ELSE chain(b) \o f[b + 1]
    <3>1. CASE b = n
      <4>1. f[b] = base[b]
        BY <2>6, <3>1 DEF Follows
      <4> QED
        BY <3>1, <4>1
    <3>2. CASE b # n
      <4>1. next[b] = b + 1 /\ b + 1 \in D
        BY <1>2, <1>3, <3>2
      <4>2. f[b] = step[<<b, f[b + 1]>>]
        BY <2>6, <3>2, <4>1 DEF Follows
      <4>3. <<b, f[b + 1]>> \in D \X Seq(Rec)
        BY <4>1
      <4> HIDE DEF D, chain
      <4> QED
        BY <3>2, <4>2, <4>3
    <3> QED
      BY <3>1, <3>2
  <2>8. f = [b \in D |-> IF b = n THEN <<>> ELSE chain(b) \o f[b + 1]]
    <3> HIDE DEF D, chain
    <3> QED
      BY <2>7
  <2>9. Solves(f)
    BY <1>1, <2>8
  <2> QED
    BY <2>9
<1> DEFINE from == CHOOSE f : Solves(f)
<1>6. Records(m) = from[0]
  BY DEF Records
<1>7. Solves(from)
  <2> HIDE DEF Solves
  <2> QED
    BY <1>5
<1>8. \A b \in D : from[b] = IF b = n THEN <<>> ELSE chain(b) \o from[b + 1]
  <2> HIDE DEF from
  <2> QED
    BY <1>1, <1>7
<1> DEFINE Rest(b) == {q \in L : Slot(ids, n, q) >= b}
           S == {b \in D : /\ from[b] \in Seq(Rec) /\ ToSet(from[b]) = Rest(b)
                           /\ Distinct(from[b])}
<1>9. ASSUME NEW b \in D, \A c \in D : height[c] < height[b] => c \in S
      PROVE  b \in S
  <2>1. CASE b = n
    <3>1. from[b] = <<>>
      BY <1>8, <2>1
    <3>2. Rest(b) = {}
      BY <1>4, <2>1
    <3> HIDE DEF from, Rest
    <3> QED
      BY <3>1, <3>2, ShortSequences
  <2>2. CASE b # n
    <3> DEFINE one == chain(b)
               rest == from[b + 1]
    <3>1. b \in 0..(n - 1) /\ b + 1 \in D /\ height[b + 1] < height[b]
      BY <2>2
    <3>2. /\ rest \in Seq(Rec) /\ ToSet(rest) = Rest(b + 1) /\ Distinct(rest)
      BY <1>9, <3>1
    <3>3. /\ one \in Seq(Rec) /\ ToSet(one) = {q \in L : Slot(ids, n, q) = b}
          /\ Distinct(one)
      BY <1>2, <3>1
    <3>4. from[b] = one \o rest
      <4> HIDE DEF from, chain
      <4> QED
        BY <1>8, <2>2
    <3>5. /\ ToSet(one) \cap ToSet(rest) = {}
          /\ ToSet(one) \cup ToSet(rest) = Rest(b)
      <4> HIDE DEF one, rest
      <4> QED
        BY <1>4, <3>2, <3>3
    <3>6. /\ one \o rest \in Seq(Rec) /\ ToSet(one \o rest) = Rest(b)
          /\ Distinct(one \o rest)
      <4> HIDE DEF one, rest, Rest
      <4> QED
        BY <3>2, <3>3, <3>5, Concatenation
    <3> HIDE DEF one, rest, Rest, from
    <3> QED
      BY <3>4, <3>6
  <2> QED
    BY <2>1, <2>2
<1>10. D \subseteq S
  <2>1. height \in [D -> Nat]
    OBVIOUS
  <2> HIDE DEF D, S, height
  <2> QED
    BY <1>9, <2>1, ByRank
<1>11. 0 \in D /\ Rest(0) = L
  BY <1>4
<1> HIDE DEF from, D, Rest
<1> QED
  BY <1>6, <1>10, <1>11

\* Records that are moved one after the other make up the new table; the
\* others keep their links.
LEMMA MovedLinked ==
    ASSUME NEW k \in Nat, NEW m \in Tables(k), NEW n \in Nat \ {0},
           NEW rs \in Seq(Rec), Distinct(rs), \A q \in ToSet(rs) : id[q] \in Nat
    PROVE  /\ Linked(id, n, Moved(m, n, rs), ToSet(rs))
           /\ \A q \in Rec \ ToSet(rs) : Moved(m, n, rs).next[q] = m.next[q]
<1> DEFINE D == 0..Len(rs)
           Solves(f) == f = [j \in D |-> IF j = 0 THEN NewTable(m, n)
                                          ELSE ToBuckets(f[j - 1], rs[j])]
           height == [j \in D |-> j]
           next == [j \in D |-> IF j = 0 THEN 0 ELSE j - 1]
           base == [j \in D |-> NewTable(m, n)]
           step == [p \in D \X Tables(n) |->
                      IF p[1] = 0 THEN p[2] ELSE ToBuckets(p[2], rs[p[1]])]
<1>1. /\ Len(rs) \in Nat
      /\ \A j \in D : j # 0 => /\ j \in 1..Len(rs) /\ j - 1 \in D
                               /\ rs[j] \in Rec /\ id[rs[j]] \in Nat
  BY DEF ToSet
<1>2. NewTable(m, n) \in Tables(n)
  BY NewTableFields
<1>3. \E f \in [D -> Tables(n)] : Solves(f)
  <2>1. height \in [D -> 0..Len(rs)] /\ next \in [D -> D]
    BY <1>1
  <2>2. base \in [D -> Tables(n)]
    BY <1>2
  <2>3. step \in [D \X Tables(n) -> Tables(n)]
    <3> SUFFICES ASSUME NEW j \in D, NEW t \in Tables(n)
                 PROVE  (IF j = 0 THEN t ELSE ToBuckets(t, rs[j])) \in Tables(n)
      OBVIOUS
    <3>1. CASE j # 0
      <4>1. rs[j] \in Rec /\ id[rs[j]] \in Nat
        BY <1>1, <3>1
      <4> QED
        BY <3>1, <4>1, ToBucketsFields
    <3> QED
      BY <3>1
  <2>4. \A j \in D \ {0} : height[next[j]] < height[j]
    BY <1>1
  <2>5. Followed(D, Tables(n), {0}, next, base, step)
    <3> DEFINE N == Len(rs)
    <3> HIDE DEF D, next, base, step, height, N
    <3>1. N \in Nat /\ height \in [D -> 0..N]
      BY <1>1, <2>1 DEF N
    <3> QED
      BY <2>1, <2>2, <2>3, <2>4, <3>1, Walk
  <2>6. PICK f \in [D -> Tables(n)] : Follows(D, {0}, next, base, step, f)
    BY <2>5 DEF Followed
  <2>7. ASSUME NEW j \in D
        PROVE  f[j] = IF j = 0 THEN NewTable(m, n)
                      ELSE ToBuckets(f[j - 1], rs[j])
    <3>1. CASE j = 0
      BY <2>6, <3>1 DEF Follows
    <3>2. CASE j # 0
      <4>1. next[j] = j - 1 /\ j - 1 \in D
        BY <1>1, <3>2
      <4>2. f[j] = step[<<j, f[j - 1]>>]
        BY <2>6, <3>2, <4>1 DEF Follows
      <4>3. <<j, f[j - 1]>> \in D \X Tables(n)
        BY <4>1
      <4> HIDE DEF D
      <4> QED
        BY <3>2, <4>2, <4>3
    <3> QED
      BY <3>1, <3>2
  <2>8. Solves(f)
    <3> HIDE DEF D
    <3> QED
      BY <2>7
  <2> QED
    BY <2>8
<1> DEFINE upTo == CHOOSE f : Solves(f)
<1>4. Moved(m, n, rs) = upTo[Len(rs)]
  BY DEF Moved
<1>5. Solves(upTo)
  <2> HIDE DEF Solves
  <2> QED
    BY <1>3
<1>6. /\ upTo[0] = NewTable(m, n)
      /\ \A j \in D : j # 0 => upTo[j] = ToBuckets(upTo[j - 1], rs[j])
  <2> HIDE DEF upTo
  <2> QED
    BY <1>1, <1>5
<1> DEFINE First(j) == {rs[i] : i \in 1..j}
           Good(j) == /\ Linked(id, n, upTo[j], First(j))
                      /\ \A q \in Rec \ First(j) : upTo[j].next[q] = m.next[q]
           S == {j \in Nat : j \in D => Good(j)}
<1>7. 0 \in S
  <2>1. First(0) = {}
    OBVIOUS
  <2>2. Linked(id, n, NewTable(m, n), {}) /\ NewTable(m, n).next = m.next
    BY NewTableLinked, NewTableFields
  <2> HIDE DEF upTo, First
  <2> QED
    BY <1>6, <2>1, <2>2
<1>8. ASSUME NEW j \in Nat, j \in S
      PROVE  j + 1 \in S
  <2> SUFFICES ASSUME j + 1 \in D
               PROVE  Good(j + 1)
    OBVIOUS
  <2>1. j \in D /\ j + 1 \in 1..Len(rs) /\ j + 1 # 0 /\ j + 1 - 1 = j
    BY <1>1
  <2>2. Good(j)
    BY <1>8, <2>1
  <2> DEFINE r == rs[j + 1]
  <2>3. upTo[j + 1] = ToBuckets(upTo[j], r)
    <3> HIDE DEF upTo
    <3> QED
      BY <1>6, <2>1
  <2>4. First(j + 1) = First(j) \cup {r}
    <3>1. 1..(j + 1) = 1..j \cup {j + 1}
      OBVIOUS
    <3> QED
      BY <3>1
  <2>5. r \in Rec \ First(j) /\ id[r] \in Nat
    <3>1. \A i \in 1..j : i \in 1..Len(rs) /\ i # j + 1
      BY <1>1, <2>1
    <3> QED
      BY <1>1, <2>1, <3>1 DEF Distinct
  <2> HIDE DEF upTo, First, r
  <2>6. /\ Linked(id, n, upTo[j + 1], First(j + 1))
        /\ \A q \in Rec \ First(j + 1) : upTo[j + 1].next[q] = upTo[j].next[q]
    BY <2>2, <2>3, <2>4, <2>5, ToBucketsLinked
  <2> QED
    BY <2>2, <2>4, <2>6
<1>9. Nat \subseteq S
  <2> HIDE DEF S
  <2> QED
    BY <1>7, <1>8, FromZero
<1>10. Good(Len(rs))
  <2>1. Len(rs) \in D
    BY <1>1
  <2>2. Len(rs) \in S
    <3> HIDE DEF S
    <3> QED
      BY <1>1, <1>9
  <2> HIDE DEF Good, D
  <2> QED
    BY <2>1, <2>2
<1>11. First(Len(rs)) = ToSet(rs)
  BY DEF ToSet
<1> HIDE DEF upTo, First
<1> QED
  BY <1>4, <1>10, <1>11

\* newBuckets moves a table into one of another size and loses no record.
LEMMA NewBucketsClean ==
    ASSUME NEW k \in Nat, NEW m, NEW L, Clean(id, k, m, L), k = 0 => L = {},
           NEW n \in Nat \ {0}
    PROVE  Clean(id, n, NewBuckets(m, n), L)
<1> DEFINE rs == Records(m)
<1>1. rs \in Seq(Rec) /\ ToSet(rs) = L /\ Distinct(rs)
  BY RecordsContents
<1>2. m \in Tables(k) /\ \A q \in L : id[q] \in Nat
  BY DEF Clean, Linked
<1> HIDE DEF rs
<1>3. /\ Linked(id, n, Moved(m, n, rs), L)
      /\ \A q \in Rec \ L : Moved(m, n, rs).next[q] = m.next[q]
  BY <1>1, <1>2, MovedLinked
<1>4. NewBuckets(m, n) = Moved(m, n, rs)
  BY DEF NewBuckets, rs
<1> QED
  BY <1>3, <1>4 DEF Clean

(***************************************************************************)
(* The inductive invariant.                                                *)
(***************************************************************************)

\* The records that are in the table.
InTable == {r \in Rec : status[r] = "listed"}

\* Records that exist have different ids, all of them given out.
IdsInv ==
    /\ nextId \in 0..Ids
    /\ id \in [Rec -> 1..nextId \cup {NULL}]
    /\ status \in [Rec -> {"none", "allocated", "listed", "orphan"}]
    /\ \A r \in Rec : status[r] = "none" <=> id[r] = NULL
    /\ \A r, q \in Rec : id[r] # NULL /\ id[r] = id[q] => r = q

\* The chains hold the records of the table, and the counter counts them.
TableInv ==
    /\ map.buckets \in Nat
    /\ map.buckets = 0 \/ map.buckets >= FirstBuckets
    /\ Clean(id, map.buckets, map, InTable)
    /\ counter = Cardinality(InTable)
    /\ map.buckets = 0 <=> counter = 0

\* The inductive invariant.
BucketsInv == IdsInv /\ TableInv

\* An id is never NULL.
LEMMA IdNotNull ==
    \A x \in 1..Ids : x # NULL /\ x \in Nat
BY BucketsAssumption, AtomicsAssumption DEF AtomicCounter

\* Records under different ids are no more than ids were given out.
LEMMA Counted ==
    ASSUME NEW k \in 0..Ids, NEW ids \in [Rec -> 1..k \cup {NULL}],
           \A r, q \in Rec : ids[r] # NULL /\ ids[r] = ids[q] => r = q,
           NEW T \in SUBSET Rec, \A r \in T : ids[r] # NULL
    PROVE  /\ IsFiniteSet(T) /\ Cardinality(T) \in Nat
           /\ Cardinality(T) <= MaxInt
<1> DEFINE f == [r \in T |-> ids[r]]
<1>1. k \in Nat /\ k <= MaxInt /\ MaxInt \in Nat
  BY BucketsAssumption, AtomicsAssumption
<1>2. f \in [T -> 1..k]
  OBVIOUS
<1>3. \A r, q \in T : f[r] = f[q] => r = q
  OBVIOUS
<1>4. f \in Injection(T, 1..k)
  <2> HIDE DEF f
  <2> QED
    BY <1>2, <1>3 DEF Injection, IsInjective
<1>5. IsFiniteSet(1..k) /\ Cardinality(1..k) = k
  BY <1>1, FS_Interval
<1>6. IsFiniteSet(T) /\ Cardinality(T) <= k
  <2> DEFINE U == 1..k
  <2> HIDE DEF f, U
  <2>1. f \in Injection(T, U) /\ IsFiniteSet(U) /\ Cardinality(U) = k
    BY <1>4, <1>5 DEF U
  <2> QED
    BY <2>1, FS_Injection
<1>7. Cardinality(T) \in Nat
  BY <1>6, FS_CardinalityType
<1> QED
  BY <1>1, <1>6, <1>7

\* The records of the table have ids; without buckets there is none.
LEMMA InTableFacts ==
    ASSUME BucketsInv
    PROVE  /\ InTable \subseteq Rec
           /\ \A r \in InTable :
                 id[r] \in 1..Ids /\ id[r] \in Nat /\ id[r] # NULL
           /\ IsFiniteSet(InTable) /\ counter \in Nat /\ counter <= MaxInt
           /\ map.buckets = 0 => InTable = {}
<1>1. InTable \subseteq Rec
  BY DEF InTable
<1>2. \A r \in InTable : id[r] \in 1..nextId /\ id[r] # NULL
  BY DEF BucketsInv, IdsInv, InTable
<1>3. nextId \in 0..Ids /\ Ids \in Nat
  BY BucketsAssumption, AtomicsAssumption DEF BucketsInv, IdsInv
<1>4. \A r \in InTable : id[r] \in 1..Ids /\ id[r] \in Nat /\ id[r] # NULL
  BY <1>2, <1>3
<1>5. /\ IsFiniteSet(InTable) /\ Cardinality(InTable) \in Nat
      /\ Cardinality(InTable) <= MaxInt
  <2> HIDE DEF InTable
  <2>1. /\ IsFiniteSet(InTable) /\ Cardinality(InTable) \in Nat
        /\ Cardinality(InTable) <= MaxInt
    BY <1>1, <1>2, Counted DEF BucketsInv, IdsInv
  <2> QED
    BY <2>1
<1>6. map.buckets = 0 => InTable = {}
  <2> HIDE DEF InTable
  <2> QED
    BY <1>5, FS_EmptySet DEF BucketsInv, TableInv
<1>7. counter = Cardinality(InTable)
  BY DEF BucketsInv, TableInv
<1> QED
  BY <1>1, <1>4, <1>5, <1>6, <1>7

----------------------------------------------------------------------------
(* What the operations do to a clean table.                                *)

\* A record that is new to the table joins it at the head of its chain.
LEMMA InsertedClean ==
    ASSUME NEW n \in Nat \ {0}, NEW m, NEW L, Clean(id, n, m, L),
           NEW r \in Rec \ L, id[r] \in Nat
    PROVE  Clean(id, n, ToBuckets(m, r), L \cup {r})
<1>1. Linked(id, n, m, L)
  BY DEF Clean
<1>2. /\ Linked(id, n, ToBuckets(m, r), L \cup {r})
      /\ \A q \in Rec \ (L \cup {r}) : ToBuckets(m, r).next[q] = m.next[q]
  BY <1>1, ToBucketsLinked
<1> QED
  BY <1>2 DEF Clean

\* A record that is unlinked leaves no link behind.
LEMMA UnlinkedClean ==
    ASSUME NEW n \in Nat \ {0}, NEW L, NEW ids, Clean(ids, n, map, L),
           NEW r \in L
    PROVE  Clean(ids, n, Unlinked(r), L \ {r})
<1>1. /\ Linked(ids, n, Unlinked(r), L \ {r})
      /\ \A q \in Rec \ (L \ {r}) : Unlinked(r).next[q] = NULL
  BY UnlinkedLinked DEF Clean
<1> QED
  BY <1>1 DEF Clean

\* The table goes with its last record.
LEMMA NoTableClean ==
    ASSUME NEW n \in Nat, NEW m, NEW ids, Clean(ids, n, m, {})
    PROVE  Clean(ids, 0, NoTable(m), {}) /\ NoTable(m).buckets = 0
<1> DEFINE t == NoTable(m)
           rank == [q \in Rec \cup {NULL} |-> 0]
<1>1. m \in Tables(n) /\ \A q \in Rec : m.next[q] = NULL
  BY DEF Clean, Linked
<1>2. 0..(0 - 1) = {}
  OBVIOUS
<1>3. <<>> \in [0..(0 - 1) -> Rec \cup {NULL}] /\ <<>> \in [0..(0 - 1) -> Nat]
  BY <1>2
<1>4. /\ t \in Tables(0) /\ t.next = m.next /\ t.usage = 0 /\ t.buckets = 0
  BY <1>1, <1>3 DEF Tables, NoTable
<1>5. Ranks(0, t, {}, rank)
  <2> HIDE DEF t
  <2> QED
    BY <1>2, <1>4 DEF Ranks
<1>6. rank \in [Rec \cup {NULL} -> Nat]
  OBVIOUS
<1> HIDE DEF t, rank
<1>7. Linked(ids, 0, t, {})
  BY <1>2, <1>4, <1>5, <1>6 DEF Linked, Heads, Links, Anchored
<1> QED
  BY <1>1, <1>4, <1>7 DEF Clean, t

\* Only the ids of the records in the table matter.
LEMMA CleanSameIds ==
    ASSUME NEW n, NEW m, NEW L, NEW ids, NEW jds, Clean(ids, n, m, L),
           \A q \in L : jds[q] = ids[q]
    PROVE  Clean(jds, n, m, L)
BY LinkedSameIds DEF Clean

----------------------------------------------------------------------------
(* The steps.                                                              *)

\* The ids of the records that exist stay distinct.
LEMMA IdsStep ==
    ASSUME IdsInv, [Next]_vars
    PROVE  IdsInv'
<1>1. Ids \in Nat /\ Ids <= MaxInt /\ MaxInt \in Nat
  BY BucketsAssumption, AtomicsAssumption
<1>2. nextId \in 0..Ids /\ \A x \in 1..Ids : x # NULL
  BY IdNotNull DEF IdsInv
<1>3. ASSUME NEW r \in Rec, Allocate(r)
      PROVE  IdsInv'
  <2>1. nextId' = nextId + 1 /\ nextId' \in 1..Ids
    BY <1>1, <1>2, <1>3 DEF Allocate, Incremented
  <2>2. id' = [id EXCEPT ![r] = nextId'] /\ id[r] = NULL /\ nextId' # NULL
    BY <1>2, <1>3, <2>1 DEF Allocate, IdsInv
  <2>3. id' \in [Rec -> 1..nextId' \cup {NULL}]
    BY <1>2, <2>1, <2>2 DEF IdsInv
  <2>4. \A q \in Rec : id[q] # nextId'
    BY <1>2, <2>1, <2>2 DEF IdsInv
  <2>5. \A p, q \in Rec : id'[p] # NULL /\ id'[p] = id'[q] => p = q
    BY <2>2, <2>4 DEF IdsInv
  <2>6. status' = [status EXCEPT ![r] = "allocated"]
    BY <1>3 DEF Allocate
  <2>7. \A q \in Rec : status'[q] = "none" <=> id'[q] = NULL
    BY <2>2, <2>6 DEF IdsInv
  <2>8. status' \in [Rec -> {"none", "allocated", "listed", "orphan"}]
    BY <2>6 DEF IdsInv
  <2> QED
    BY <2>1, <2>3, <2>5, <2>7, <2>8 DEF IdsInv
<1>4. ASSUME NEW r \in Rec, Insert(r) \/ InsertGrowing(r) \/ InsertFails(r)
      PROVE  IdsInv'
  <2>1. /\ status[r] = "allocated" /\ UNCHANGED <<id, nextId>>
        /\ \/ status' = [status EXCEPT ![r] = "listed"]
           \/ status' = [status EXCEPT ![r] = "orphan"]
    BY <1>4 DEF Insert, InsertGrowing, InsertFails
  <2>2. \A q \in Rec : status'[q] = "none" <=> status[q] = "none"
    BY <2>1 DEF IdsInv
  <2>3. status' \in [Rec -> {"none", "allocated", "listed", "orphan"}]
    BY <2>1 DEF IdsInv
  <2> QED
    BY <2>1, <2>2, <2>3 DEF IdsInv
<1>5. ASSUME NEW r \in Rec, FreeOrphan(r) \/ Free(r) \/ FreeShrinking(r)
      PROVE  IdsInv'
  <2>1. Forget(r)
    BY <1>5 DEF FreeOrphan, Free, FreeShrinking
  <2> QED
    BY <2>1 DEF Forget, IdsInv
<1>6. CASE UNCHANGED vars
  BY <1>6 DEF vars, IdsInv
<1> QED
  BY <1>3, <1>4, <1>5, <1>6 DEF Next

\* A record comes into the table.
LEMMA InsertStep ==
    ASSUME BucketsInv, IdsInv', NEW r \in Rec, Insert(r) \/ InsertGrowing(r)
    PROVE  TableInv' /\ InTable' = InTable \cup {r}
<1> DEFINE L == InTable
           n == map.buckets
<1>1. /\ L \subseteq Rec /\ IsFiniteSet(L)
      /\ counter \in Nat /\ counter <= MaxInt
      /\ n = 0 => L = {}
  BY InTableFacts
<1>2. /\ n \in Nat /\ (n = 0 \/ n >= FirstBuckets) /\ Clean(id, n, map, L)
      /\ counter = Cardinality(L)
  BY DEF BucketsInv, TableInv
<1>3. /\ status[r] = "allocated" /\ id' = id /\ counter' = Incremented(counter)
      /\ status' = [status EXCEPT ![r] = "listed"]
  BY DEF Insert, InsertGrowing
<1>4. r \notin L /\ InTable' = L \cup {r}
  BY <1>3 DEF InTable, BucketsInv, IdsInv
<1>5. id[r] \in Nat
  <2>1. nextId \in 0..Ids /\ Ids \in Nat /\ id[r] \in 1..nextId
    BY <1>3, BucketsAssumption, AtomicsAssumption DEF BucketsInv, IdsInv
  <2> QED
    BY <2>1
<1>6. \A q \in InTable' : id'[q] # NULL
  BY DEF IdsInv, InTable
<1> DEFINE M == InTable'
<1>7. M \in SUBSET Rec
  BY DEF InTable
<1> HIDE DEF L, n, M
<1>8. Cardinality(M) \in Nat /\ Cardinality(M) <= MaxInt
  <2>1. \A q \in M : id'[q] # NULL
    BY <1>6 DEF M
  <2> DEFINE k == nextId'
             ids == id'
  <2>2. /\ k \in 0..Ids /\ ids \in [Rec -> 1..k \cup {NULL}]
        /\ \A q, p \in Rec : ids[q] # NULL /\ ids[q] = ids[p] => q = p
    BY DEF IdsInv
  <2> HIDE DEF k, ids
  <2> QED
    BY <1>7, <2>1, <2>2, Counted DEF ids
<1>9. Cardinality(M) = counter + 1
  <2>1. M = L \cup {r}
    BY <1>4 DEF M
  <2> QED
    BY <1>1, <1>2, <1>4, <2>1, FS_AddElement
<1>10. counter' = counter + 1 /\ counter' = Cardinality(M) /\ counter' # 0
  BY <1>1, <1>3, <1>8, <1>9, AtomicsAssumption DEF Incremented
<1>11. \E k \in Nat \ {0} : /\ Clean(id, k, map', L \cup {r})
                            /\ k >= FirstBuckets /\ map'.buckets = k
  <2>1. CASE Insert(r)
    <3>1. map' = ToBuckets(map, r) /\ n \in Nat \ {0} /\ n >= FirstBuckets
      BY <1>2, <2>1 DEF Insert, n
    <3>2. Clean(id, n, map', L \cup {r})
      BY <1>2, <1>4, <1>5, <3>1, InsertedClean
    <3>3. map'.buckets = n
      BY <3>2 DEF Clean, Linked, Tables
    <3> QED
      BY <3>1, <3>2, <3>3
  <2>2. CASE InsertGrowing(r)
    <3> DEFINE k == IF n = 0 THEN FirstBuckets ELSE 2 * n
    <3>1. k \in Nat \ {0} /\ k >= FirstBuckets
      BY <1>2, BucketsAssumption
    <3>2. map' = ToBuckets(NewBuckets(map, k), r)
      BY <2>2 DEF InsertGrowing, n
    <3> HIDE DEF k
    <3>3. Clean(id, k, NewBuckets(map, k), L)
      BY <1>1, <1>2, <3>1, NewBucketsClean
    <3>4. Clean(id, k, map', L \cup {r})
      BY <1>4, <1>5, <3>1, <3>2, <3>3, InsertedClean
    <3>5. map'.buckets = k
      BY <3>4 DEF Clean, Linked, Tables
    <3> QED
      BY <3>1, <3>4, <3>5
  <2> QED
    BY <2>1, <2>2
<1> QED
  BY <1>3, <1>4, <1>10, <1>11 DEF TableInv, M, L

\* A record leaves the table.
LEMMA FreeStep ==
    ASSUME BucketsInv, NEW r \in Rec, Free(r) \/ FreeShrinking(r)
    PROVE  TableInv' /\ InTable' = InTable \ {r} /\ r \in InTable
<1> DEFINE L == InTable
           M == InTable \ {r}
           n == map.buckets
<1>1. /\ L \subseteq Rec /\ IsFiniteSet(L) /\ counter \in Nat
      /\ counter <= MaxInt /\ \A q \in L : id[q] # NULL
  BY InTableFacts
<1>2. /\ n \in Nat /\ (n = 0 \/ n >= FirstBuckets) /\ Clean(id, n, map, L)
      /\ counter = Cardinality(L) /\ (n = 0 <=> counter = 0)
  BY DEF BucketsInv, TableInv
<1>3. /\ status[r] = "listed" /\ id' = [id EXCEPT ![r] = NULL]
      /\ counter' = Decremented(counter)
      /\ status' = [status EXCEPT ![r] = "none"]
  BY DEF Free, FreeShrinking, Forget
<1>4. r \in L /\ InTable' = M
  BY <1>3 DEF InTable, BucketsInv, IdsInv
<1>5. \A q \in M : id'[q] = id[q]
  BY <1>1, <1>3 DEF BucketsInv, IdsInv
<1> HIDE DEF L, n
<1>6. /\ IsFiniteSet(M) /\ Cardinality(M) = counter - 1 /\ counter # 0
  <2>1. Cardinality(L \ {r}) = counter - 1 /\ IsFiniteSet(L \ {r})
    BY <1>1, <1>2, <1>4, FS_RemoveElement
  <2>2. counter # 0
    BY <1>1, <1>2, <1>4, FS_EmptySet
  <2> QED
    BY <2>1, <2>2 DEF L
<1>7. /\ counter' = counter - 1 /\ counter' = Cardinality(M)
      /\ counter' \in Nat
  BY <1>1, <1>3, <1>6, AtomicsAssumption DEF Decremented
<1>8. n \in Nat \ {0} /\ n >= FirstBuckets
  BY <1>2, <1>6
<1>9. Clean(id, n, Unlinked(r), M)
  <2>1. Clean(id, n, Unlinked(r), L \ {r})
    BY <1>2, <1>4, <1>8, UnlinkedClean
  <2> QED
    BY <2>1 DEF L
<1>10. counter' = 0 => M = {}
  <2> HIDE DEF M
  <2> QED
    BY <1>6, <1>7, FS_EmptySet
<1> HIDE DEF M
<1>11. \E k \in Nat : /\ Clean(id, k, map', M) /\ map'.buckets = k
                      /\ k = 0 \/ k >= FirstBuckets
                      /\ k = 0 <=> counter' = 0
  <2>1. CASE Free(r)
    <3>1. CASE counter' = 0
      <4>1. map' = NoTable(Unlinked(r)) /\ M = {}
        BY <1>10, <2>1, <3>1 DEF Free
      <4>2. Clean(id, 0, map', {}) /\ map'.buckets = 0
        BY <1>8, <1>9, <4>1, NoTableClean
      <4> QED
        BY <3>1, <4>1, <4>2
    <3>2. CASE counter' # 0
      <4>1. map' = Unlinked(r)
        BY <2>1, <3>2 DEF Free
      <4>2. map'.buckets = n
        BY <1>9, <4>1 DEF Clean, Linked, Tables
      <4> QED
        BY <1>8, <1>9, <3>2, <4>1, <4>2
    <3> QED
      BY <3>1, <3>2
  <2>2. CASE FreeShrinking(r)
    <3> DEFINE k == 2 * counter'
    <3>1. /\ counter > 1 /\ 2 * (counter - 1) > FirstBuckets
          /\ map' = NewBuckets(Unlinked(r), k)
      BY <2>2 DEF FreeShrinking
    <3>2. k \in Nat \ {0} /\ k >= FirstBuckets /\ counter' # 0
      BY <1>1, <1>7, <3>1, BucketsAssumption
    <3> HIDE DEF k
    <3>3. Clean(id, k, map', M)
      BY <1>8, <1>9, <3>1, <3>2, NewBucketsClean
    <3>4. map'.buckets = k
      BY <3>3 DEF Clean, Linked, Tables
    <3> QED
      BY <3>2, <3>3, <3>4
  <2> QED
    BY <2>1, <2>2
<1>12. PICK k \in Nat : /\ Clean(id, k, map', M) /\ map'.buckets = k
                        /\ k = 0 \/ k >= FirstBuckets
                        /\ k = 0 <=> counter' = 0
  BY <1>11
<1>13. Clean(id', k, map', M)
  <2> DEFINE ids == id
             jds == id'
  <2>1. Clean(ids, k, map', M) /\ \A q \in M : jds[q] = ids[q]
    BY <1>5, <1>12
  <2> HIDE DEF ids, jds
  <2>2. Clean(jds, k, map', M)
    BY <2>1, CleanSameIds
  <2> QED
    BY <2>2 DEF jds
<1>14. TableInv'
  BY <1>4, <1>7, <1>12, <1>13 DEF TableInv
<1> QED
  BY <1>4, <1>14 DEF L, M

\* The table stays as it is when a record is allocated, is left out of the
\* table, or is freed without having been in it.
LEMMA OutsideStep ==
    ASSUME BucketsInv, NEW r \in Rec,
           Allocate(r) \/ InsertFails(r) \/ FreeOrphan(r)
    PROVE  TableInv' /\ InTable' = InTable /\ \A q \in InTable : id'[q] = id[q]
<1>1. /\ UNCHANGED <<map, counter>> /\ status[r] # "listed"
      /\ \E s : s # "listed" /\ status' = [status EXCEPT ![r] = s]
      /\ id' = id \/ \E x : id' = [id EXCEPT ![r] = x]
  BY DEF Allocate, InsertFails, FreeOrphan, Forget
<1>2. InTable' = InTable
  BY <1>1 DEF InTable, BucketsInv, IdsInv
<1>3. \A q \in InTable : id'[q] = id[q]
  BY <1>1 DEF InTable, BucketsInv, IdsInv
<1>4. Clean(id', map.buckets, map, InTable)
  <2> DEFINE jds == id'
  <2>1. /\ Clean(id, map.buckets, map, InTable)
        /\ \A q \in InTable : jds[q] = id[q]
    BY <1>3 DEF BucketsInv, TableInv
  <2> HIDE DEF jds, InTable
  <2>2. Clean(jds, map.buckets, map, InTable)
    BY <2>1, CleanSameIds
  <2> QED
    BY <2>2 DEF jds
<1>5. TableInv'
  BY <1>1, <1>2, <1>4 DEF BucketsInv, TableInv
<1> QED
  BY <1>2, <1>3, <1>5

\* Every step keeps the invariant.
LEMMA BucketsStep ==
    ASSUME BucketsInv, [Next]_vars
    PROVE  BucketsInv'
<1>1. IdsInv'
  BY IdsStep DEF BucketsInv
<1>2. ASSUME NEW r \in Rec, Allocate(r) \/ InsertFails(r) \/ FreeOrphan(r)
      PROVE  TableInv'
  BY <1>2, OutsideStep
<1>3. ASSUME NEW r \in Rec, Insert(r) \/ InsertGrowing(r)
      PROVE  TableInv'
  BY <1>1, <1>3, InsertStep
<1>4. ASSUME NEW r \in Rec, Free(r) \/ FreeShrinking(r)
      PROVE  TableInv'
  BY <1>4, FreeStep
<1>5. TableInv'
  <2>1. CASE UNCHANGED vars
    <3>1. map' = map /\ id' = id /\ counter' = counter /\ InTable' = InTable
      BY <2>1 DEF vars, InTable
    <3> QED
      BY <3>1 DEF BucketsInv, TableInv
  <2>2. CASE Next
    BY <1>2, <1>3, <1>4, <2>2 DEF Next
  <2> QED
    BY <2>1, <2>2
<1> QED
  BY <1>1, <1>5 DEF BucketsInv

\* It holds at first, when there is no table.
LEMMA BucketsInit ==
    Init => BucketsInv
<1> SUFFICES ASSUME Init
             PROVE  BucketsInv
  OBVIOUS
<1> DEFINE rank == [q \in Rec \cup {NULL} |-> 0]
<1>1. InTable = {}
  BY DEF Init, InTable
<1>2. IdsInv
  BY BucketsAssumption, AtomicsAssumption DEF Init, IdsInv
<1>3. 0..(0 - 1) = {}
  OBVIOUS
<1>4. <<>> \in [0..(0 - 1) -> Rec \cup {NULL}] /\ <<>> \in [0..(0 - 1) -> Nat]
  BY <1>3
<1>5. map \in Tables(0) /\ map.buckets = 0 /\ \A q \in Rec : map.next[q] = NULL
  BY <1>4 DEF Init, Tables
<1>6. Ranks(0, map, {}, rank) /\ rank \in [Rec \cup {NULL} -> Nat]
  BY <1>3 DEF Ranks
<1> HIDE DEF rank
<1>7. Linked(id, 0, map, {})
  BY <1>3, <1>5, <1>6 DEF Linked, Heads, Links, Anchored
<1>8. Clean(id, 0, map, {})
  BY <1>5, <1>7 DEF Clean
<1>9. counter = 0 /\ Cardinality({}) = 0
  BY FS_EmptySet DEF Init
<1> QED
  BY <1>1, <1>2, <1>5, <1>8, <1>9 DEF BucketsInv, TableInv

\* The inductive invariant holds in every behaviour of the table.
LEMMA BucketsInvariant ==
    Spec => []BucketsInv
BY BucketsInit, BucketsStep, PTL DEF Spec

----------------------------------------------------------------------------
(* The properties of module Buckets.                                       *)

\* In every reachable state the variables have their types, and the arrays of
\* heads and of counts have the same bounds.
THEOREM TypeCorrect == Spec => []TypeOK
<1>1. BucketsInv => TypeOK
  <2> SUFFICES ASSUME BucketsInv
               PROVE  TypeOK
    OBVIOUS
  <2>1. counter \in Nat
    BY InTableFacts
  <2>2. nextId \in 0..Ids /\ id \in [Rec -> 1..Ids \cup {NULL}]
    BY BucketsAssumption, AtomicsAssumption DEF BucketsInv, IdsInv
  <2>3. map \in Tables(map.buckets)
    BY DEF BucketsInv, TableInv, Clean, Linked
  <2> DEFINE n == map.buckets
  <2>4. /\ n \in Nat /\ map.version \in {0, 1} /\ map.usage \in Nat
        /\ map.next \in [Rec -> Rec \cup {NULL}]
        /\ map.first \in [0..(n - 1) -> Rec \cup {NULL}]
        /\ map.count \in [0..(n - 1) -> Nat]
    <3> HIDE DEF n
    <3>1. n \in Nat
      BY DEF BucketsInv, TableInv, n
    <3> QED
      BY <2>3, <3>1 DEF Tables, n
  <2> QED
    BY <2>1, <2>2, <2>4 DEF TypeOK, BucketsInv, IdsInv
<1> QED
  BY <1>1, BucketsInvariant, PTL

\* The counter of the records is right in every reachable state, it never
\* wraps, and there are buckets exactly as long as a record is in the table.
THEOREM Population == Spec => []CounterIsPopulation
<1>1. BucketsInv => CounterIsPopulation
  BY DEF BucketsInv, TableInv, InTable, CounterIsPopulation
<1> QED
  BY <1>1, BucketsInvariant, PTL

\* The records that the chains lead to are those that were inserted.
LEMMA ListedIsInTable ==
    BucketsInv => Listed = InTable
<1> SUFFICES ASSUME BucketsInv
             PROVE  Listed = InTable
  OBVIOUS
<1>1. /\ map.buckets \in Nat /\ Clean(id, map.buckets, map, InTable)
      /\ map.buckets = 0 => InTable = {}
  BY InTableFacts DEF BucketsInv, TableInv
<1> HIDE DEF InTable
<1>2. ToSet(Records(map)) = InTable
  BY <1>1, RecordsContents
<1> QED
  BY <1>2 DEF Listed

\* Every back pointer points to what leads to its record, in the current table:
\* unlinking a record writes into no table that was freed.
THEOREM BackwardLinks == Spec => []BackPointers
<1>1. BucketsInv => BackPointers
  <2> SUFFICES ASSUME BucketsInv
               PROVE  BackPointers
    OBVIOUS
  <2> DEFINE n == map.buckets
  <2>1. /\ Linked(id, n, map, InTable) /\ Listed = InTable
    BY ListedIsInTable DEF BucketsInv, TableInv, Clean
  <2>2. DOMAIN map.first = 0..(n - 1)
    BY <2>1 DEF Linked, Tables
  <2> HIDE DEF n
  <2>3. \A b \in DOMAIN map.first : map.first[b] # NULL =>
            map.prev[map.first[b]] = AddressOfFirst(map, b)
    BY <2>1, <2>2 DEF Linked, Heads
  <2>4. \A r \in Listed : map.next[r] # NULL =>
            map.prev[map.next[r]] = AddressOfNext(r)
    BY <2>1 DEF Linked, Links
  <2> QED
    BY <2>3, <2>4 DEF BackPointers
<1> QED
  BY <1>1, BucketsInvariant, PTL

\* No chain is longer than its bucket's count, nor a count larger than the
\* table's usage, by which the table decides to grow.
THEOREM UsageIsBound == Spec => []UsageBoundsChains
<1>1. BucketsInv => UsageBoundsChains
  <2> SUFFICES ASSUME BucketsInv, NEW b \in DOMAIN map.first
               PROVE  /\ Len(Chain(map, map.first[b])) <= map.count[b]
                      /\ map.count[b] <= map.usage
    BY DEF UsageBoundsChains
  <2> DEFINE n == map.buckets
  <2>1. n \in Nat /\ Clean(id, n, map, InTable)
    BY DEF BucketsInv, TableInv
  <2> HIDE DEF n, InTable
  <2>2. b \in 0..(n - 1)
    BY <2>1 DEF Clean, Linked, Tables
  <2>3. n \in Nat \ {0}
    BY <2>1, <2>2
  <2>4. Len(Chain(map, map.first[b])) <= map.count[b]
    BY <2>1, <2>2, <2>3, ChainIsBucket
  <2>5. map.count[b] <= map.usage
    BY <2>1, <2>2 DEF Clean, Linked, Ranks
  <2> QED
    BY <2>4, <2>5
<1> QED
  BY <1>1, BucketsInvariant, PTL

\* A search of a chain ends at its first record with the id, if there is one.
LEMMA Search ==
    ASSUME NEW n \in Nat, NEW L, NEW x, Clean(id, n, map, L),
           map.buckets # 0
    PROVE  LET from == map.first[CRem(x, map.buckets)]
           IN  from \in Rec \cup {NULL} =>
                  \/ /\ Find(x) = NULL
                     /\ \A p \in ToSet(Chain(map, from)) : id[p] # x
                  \/ Find(x) \in ToSet(Chain(map, from)) /\ id[Find(x)] = x
<1> DEFINE D == Rec \cup {NULL}
           Stop == {q \in D : q = NULL \/ id[q] = x}
           Solves(f) == f = [q \in D |-> IF q = NULL THEN NULL
                                          ELSE IF id[q] = x THEN q
                                          ELSE f[map.next[q]]]
<1>0. PICK N \in Nat : \E height \in [D -> 0..N] :
         \A q \in Rec : map.next[q] \in D /\ height[map.next[q]] < height[q]
  BY Heights
<1>1. PICK height \in [D -> 0..N] :
         \A q \in Rec : map.next[q] \in D /\ height[map.next[q]] < height[q]
  BY <1>0
<1>2. NULL \notin Rec
  BY BucketsAssumption
<1> DEFINE next == [q \in D |-> IF q = NULL THEN NULL ELSE map.next[q]]
           base == [q \in D |-> q]
           step == [p \in D \X D |-> p[2]]
<1>3. \E f : Solves(f)
  <2>1. next \in [D -> D] /\ base \in [D -> D] /\ step \in [D \X D -> D]
    BY <1>1
  <2>2. \A q \in D \ Stop : height[next[q]] < height[q]
    BY <1>1, <1>2
  <2>3. Followed(D, D, Stop, next, base, step)
    <3>1. height \in [D -> 0..N]
      BY <1>1
    <3> HIDE DEF D, next, base, step, Stop
    <3> QED
      BY <2>1, <2>2, <3>1, Walk
  <2>4. PICK f \in [D -> D] : Follows(D, Stop, next, base, step, f)
    BY <2>3 DEF Followed
  <2>5. ASSUME NEW q \in D
        PROVE  f[q] = IF q = NULL THEN NULL ELSE IF id[q] = x THEN q
                      ELSE f[map.next[q]]
    <3>1. CASE q \in Stop
      <4>1. f[q] = q
        BY <2>4, <3>1 DEF Follows
      <4> QED
        BY <3>1, <4>1
    <3>2. CASE q \notin Stop
      <4>1. next[q] = map.next[q] /\ map.next[q] \in D
        BY <1>1, <3>2
      <4>2. f[q] = step[<<q, f[map.next[q]]>>]
        BY <2>4, <3>2, <4>1 DEF Follows
      <4>3. step[<<q, f[map.next[q]]>>] = f[map.next[q]]
        BY <4>1
      <4> QED
        BY <3>2, <4>2, <4>3
    <3> QED
      BY <3>1, <3>2
  <2> QED
    BY <2>5
<1> DEFINE found == CHOOSE f : Solves(f)
           first == map.first[CRem(x, map.buckets)]
<1>4. Find(x) = found[first]
  BY DEF Find
<1>5. Solves(found)
  <2> HIDE DEF Solves
  <2> QED
    BY <1>3
<1>6. /\ found[NULL] = NULL
      /\ \A q \in Rec : found[q] = IF id[q] = x THEN q ELSE found[map.next[q]]
  <2> HIDE DEF found
  <2> QED
    BY <1>2, <1>5
<1> DEFINE Good(q) ==
               \/ /\ found[q] = NULL
                  /\ \A p \in ToSet(Chain(map, q)) : id[p] # x
               \/ found[q] \in ToSet(Chain(map, q)) /\ id[found[q]] = x
           S == {q \in D : Good(q)}
<1>7. ASSUME NEW q \in D, \A p \in D : height[p] < height[q] => p \in S
      PROVE  q \in S
  <2> HIDE DEF found
  <2>1. CASE q = NULL
    <3>1. ToSet(Chain(map, NULL)) = {}
      BY ChainSteps, ShortSequences
    <3> QED
      BY <1>6, <2>1, <3>1
  <2>2. CASE q # NULL
    <3> DEFINE nx == map.next[q]
    <3>1. q \in Rec /\ nx \in D /\ height[nx] < height[q]
      BY <1>1, <2>2
    <3>2. Good(nx)
      BY <1>7, <3>1
    <3>3. ToSet(Chain(map, q)) = {q} \cup ToSet(Chain(map, nx))
      <4> DEFINE one == <<q>>
                 rest == Chain(map, nx)
      <4>1. one \in Seq(Rec) /\ ToSet(one) = {q} /\ rest \in Seq(Rec)
        BY <3>1, ChainSteps, ShortSequences
      <4>2. Chain(map, q) = one \o rest
        BY <3>1, ChainSteps
      <4> HIDE DEF one, rest
      <4>3. ToSet(one \o rest) = ToSet(one) \cup ToSet(rest)
        BY <4>1, Concatenation
      <4> QED
        BY <4>1, <4>2, <4>3 DEF rest
    <3>4. found[q] = IF id[q] = x THEN q ELSE found[nx]
      BY <1>6, <3>1
    <3> HIDE DEF nx
    <3>5. Good(q)
      BY <3>2, <3>3, <3>4
    <3> QED
      BY <3>5
  <2> QED
    BY <2>1, <2>2
<1>8. D \subseteq S
  <2>1. height \in [D -> Nat]
    BY <1>1
  <2> HIDE DEF D, S
  <2> QED
    BY <1>7, <2>1, ByRank
<1>9. first \in D => Good(first)
  <2> HIDE DEF found, first
  <2> QED
    BY <1>8
<1> HIDE DEF found
<1> QED
  BY <1>4, <1>9

\* A lookup finds exactly the record that was inserted under the id and not yet
\* freed, however the table was resized in between.
THEOREM LookupsExact == Spec => []FindIsExact
<1>1. BucketsInv => FindIsExact
  <2> SUFFICES ASSUME BucketsInv
               PROVE  FindIsExact
    OBVIOUS
  <2> DEFINE n == map.buckets
             L == InTable
  <2>1. /\ n \in Nat /\ Clean(id, n, map, L) /\ L \subseteq Rec
        /\ \A r \in L : id[r] \in 1..Ids /\ id[r] # NULL
        /\ n = 0 => L = {}
    BY InTableFacts DEF BucketsInv, TableInv
  <2>2. /\ \A r \in Rec : r \in L <=> status[r] = "listed"
        /\ \A r, q \in Rec : id[r] # NULL /\ id[r] = id[q] => r = q
    BY DEF InTable, BucketsInv, IdsInv
  <2>3. NULL \notin Rec
    BY BucketsAssumption
  <2>4. ASSUME NEW x \in 1..Ids
        PROVE  \/ Find(x) = NULL /\ \A p \in L : id[p] # x
               \/ Find(x) \in L /\ id[Find(x)] = x
    <3>1. CASE n = 0
      BY <2>1, <3>1 DEF Find
    <3>2. CASE n # 0
      <4> DEFINE b == CRem(x, n)
      <4>1. n \in Nat \ {0} /\ x \in Nat
        BY <2>1, <3>2, IdNotNull
      <4>2. b \in 0..(n - 1)
        BY <4>1, SlotInTable
      <4>3. ToSet(Chain(map, map.first[b])) = {q \in L : Slot(id, n, q) = b}
        <5> HIDE DEF b, n, L
        <5> QED
          BY <2>1, <4>1, <4>2, ChainIsBucket
      <4>4. map.first[b] \in Rec \cup {NULL}
        <5> HIDE DEF b, n, L
        <5> QED
          BY <2>1, <4>2 DEF Clean, Linked, Tables
      <4>5. \A p \in L : id[p] = x => p \in ToSet(Chain(map, map.first[b]))
        BY <4>3 DEF Slot
      <4>6. \/ /\ Find(x) = NULL
               /\ \A p \in ToSet(Chain(map, map.first[b])) : id[p] # x
            \/ /\ Find(x) \in ToSet(Chain(map, map.first[b]))
               /\ id[Find(x)] = x
        <5> HIDE DEF L
        <5> QED
          BY <2>1, <3>2, <4>4, Search
      <4> QED
        BY <4>3, <4>5, <4>6
    <3> QED
      BY <3>1, <3>2
  <2> HIDE DEF L, n
  <2>5. ASSUME NEW r \in Rec, status[r] = "listed"
        PROVE  Find(id[r]) = r
    <3>1. r \in L /\ id[r] \in 1..Ids /\ id[r] # NULL
      BY <2>1, <2>2, <2>5
    <3>2. Find(id[r]) \in L /\ id[Find(id[r])] = id[r]
      BY <2>4, <3>1
    <3> QED
      BY <2>1, <2>2, <3>1, <3>2
  <2>6. ASSUME NEW x \in 1..Ids, Find(x) # NULL
        PROVE  status[Find(x)] = "listed" /\ id[Find(x)] = x
    <3>1. Find(x) \in L /\ id[Find(x)] = x
      BY <2>4, <2>6
    <3> QED
      BY <2>1, <2>2, <3>1
  <2> QED
    BY <2>5, <2>6 DEF FindIsExact
<1> QED
  BY <1>1, BucketsInvariant, PTL

(***************************************************************************)
(* The table implements the registry.                                      *)
(***************************************************************************)

\* The ids as the registry sees them.
Registered == [r \in Rec |-> IF r \in Listed THEN id[r] ELSE NULL]

\* These are the records of the table.
LEMMA RegisteredInTable ==
    BucketsInv => Registered = [r \in Rec |-> IF r \in InTable THEN id[r]
                                              ELSE NULL]
BY ListedIsInTable DEF Registered

\* A step of the table registers a record under its id, which is new, removes
\* one, or is invisible.
LEMMA RegistryStep ==
    ASSUME BucketsInv, BucketsInv', [Next]_vars
    PROVE  [R!Next]_Registered
<1> DEFINE was == [r \in Rec |-> IF r \in InTable THEN id[r] ELSE NULL]
           is  == [r \in Rec |-> IF r \in InTable' THEN id'[r] ELSE NULL]
<1>1. Registered = was /\ Registered' = is
  <2>1. Registered = was
    BY RegisteredInTable
  <2>2. (BucketsInv => Listed = InTable)'
    BY ListedIsInTable, PTL
  <2> QED
    BY <2>1, <2>2 DEF Registered
<1>2. /\ InTable \subseteq Rec /\ \A q \in InTable : id[q] # NULL
      /\ \A r, q \in Rec : id[r] # NULL /\ id[r] = id[q] => r = q
      /\ id \in [Rec -> 1..nextId \cup {NULL}]
  BY InTableFacts DEF BucketsInv, IdsInv
<1> SUFFICES \/ is = was
             \/ \E r \in Rec : R!Remove(r) \/ \E x \in 1..Ids : R!Register(r, x)
  BY <1>1 DEF R!Next, Registered
<1>3. ASSUME NEW r \in Rec, Allocate(r) \/ InsertFails(r) \/ FreeOrphan(r)
      PROVE  is = was
  BY <1>3, OutsideStep
<1>4. ASSUME NEW r \in Rec, Insert(r) \/ InsertGrowing(r)
      PROVE  \E x \in 1..Ids : R!Register(r, x)
  <2>1. InTable' = InTable \cup {r} /\ id' = id /\ status[r] = "allocated"
    BY <1>4, InsertStep DEF BucketsInv, Insert, InsertGrowing
  <2>2. r \notin InTable
    BY <2>1 DEF InTable
  <2>3. id[r] \in 1..Ids /\ id[r] # NULL
    BY <2>1, BucketsAssumption, AtomicsAssumption DEF BucketsInv, IdsInv
  <2> HIDE DEF InTable
  <2>4. was[r] = NULL /\ \A q \in Rec : was[q] # id[r]
    BY <1>2, <2>2, <2>3
  <2>5. is = [was EXCEPT ![r] = id[r]]
    BY <2>1, <2>2
  <2> HIDE DEF is, was
  <2> QED
    BY <1>1, <2>3, <2>4, <2>5 DEF R!Register, Registered
<1>5. ASSUME NEW r \in Rec, Free(r) \/ FreeShrinking(r)
      PROVE  R!Remove(r)
  <2>1. /\ InTable' = InTable \ {r} /\ r \in InTable
        /\ id' = [id EXCEPT ![r] = NULL]
    BY <1>5, FreeStep DEF Free, FreeShrinking, Forget
  <2> HIDE DEF InTable
  <2>2. was[r] # NULL
    BY <1>2, <2>1
  <2>3. is = [was EXCEPT ![r] = NULL]
    BY <1>2, <2>1
  <2> HIDE DEF is, was
  <2> QED
    BY <1>1, <2>2, <2>3 DEF R!Remove, Registered
<1>6. UNCHANGED vars => is = was
  BY DEF vars, InTable
<1> HIDE DEF is, was
<1> QED
  BY <1>3, <1>4, <1>5, <1>6 DEF Next

\* Whatever the table does with its buckets and chains, what it shows is a
\* registry: records come and go one at a time, each under an id of its own.
THEOREM TableIsRegistry == Spec => ImplementsRegistry
<1>1. Init => R!Init
  <2> SUFFICES ASSUME Init
               PROVE  R!Init
    OBVIOUS
  <2>1. Registered = [r \in Rec |-> IF r \in InTable THEN id[r] ELSE NULL]
    BY BucketsInit, RegisteredInTable
  <2>2. Registered = [r \in Rec |-> NULL]
    BY <2>1 DEF Init, InTable
  <2> QED
    BY <2>2 DEF R!Init, Registered
<1>2. BucketsInv /\ BucketsInv' /\ [Next]_vars => [R!Next]_Registered
  BY RegistryStep
<1> QED
  BY <1>1, <1>2, BucketsInvariant, PTL
     DEF Spec, ImplementsRegistry, R!Spec, Registered

=============================================================================

------------------------------- MODULE Buckets -------------------------------
(***************************************************************************)
(* The hash table of ids (src/interruptible.c): buckets with chains of     *)
(* records, linked backwards by pointers to the pointer that leads to a    *)
(* record, which is a bucket's first or another record's next.  Every      *)
(* access is made under mtint_global_lock, so an operation is one step.    *)
(***************************************************************************)
EXTENDS Integers, Sequences, FiniteSets, Atomics, SequencesExt

CONSTANTS
    Rec,            \* addresses of MtInterruptible records
    FirstBuckets,   \* size of the first table (64 in the code)
    PerBucket,      \* grow above so many records per bucket (4)
    UsageLimit,     \* grow above so high a bucket_usage (30)
    ShrinkFactor,   \* shrink when this many records per bucket ... (10)
    Ids,            \* bounds the ids that are given out in a behaviour
    NULL

ASSUME BucketsAssumption ==
    /\ FirstBuckets \in Nat \ {0} /\ PerBucket \in Nat \ {0}
    /\ UsageLimit \in Nat /\ ShrinkFactor \in Nat
    /\ Ids \in 1..MaxInt
    /\ NULL \notin Rec \cup AtomicCounter

VARIABLES
    map,            \* the buckets, the links of the records and bucket_usage
    counter,        \* interruptible_counter
    id,             \* the id of an allocated record
    status,         \* of a record: none, allocated, listed, orphan
    nextId          \* mtint_id_counter

vars == <<map, counter, id, status, nextId>>

\* calloc: a table of n empty buckets; version tells a new one from the old.
NewTable(m, n) ==
    [m EXCEPT !.buckets = n, !.version = 1 - @, !.usage = 0,
              !.first = [b \in 0..(n - 1) |-> NULL],
              !.count = [b \in 0..(n - 1) |-> 0]]

\* The operator % of C, which truncates towards zero.
CRem(a, n) == IF a >= 0 THEN a % n ELSE -((-a) % n)

AddressOfFirst(m, b) == <<"first", m.version, b>>
AddressOfNext(r)     == <<"next", r>>

\* *ptr = r, for a pointer into the current table or into a record.
Store(m, ptr, r) ==
    IF ptr[1] = "next" THEN [m EXCEPT !.next[ptr[2]] = r]
    ELSE IF ptr[2] = m.version THEN [m EXCEPT !.first[ptr[3]] = r]
    ELSE m

\* if (r) r->prevInterruptiblePtr = ptr
SetPrev(m, r, ptr) == IF r = NULL THEN m ELSE [m EXCEPT !.prev[r] = ptr]

----------------------------------------------------------------------------
(* Chains.                                                                 *)

Larger(a, b) == IF a > b THEN a ELSE b

\* A mutant: bucket_usage is not kept up to date.
ToBucketsNoUsage(m, r) ==
    LET b    == CRem(id[r], m.buckets)
        head == m.first[b]
    IN  [SetPrev(m, head, AddressOfNext(r)) EXCEPT
            !.next[r] = head, !.prev[r] = AddressOfFirst(m, b),
            !.first[b] = r, !.count[b] = @ + 1]

\* toBuckets: r becomes the head of the chain of its bucket.
ToBuckets(m, r) ==
    LET b    == CRem(id[r], m.buckets)
        head == m.first[b]
    IN  [SetPrev(m, head, AddressOfNext(r)) EXCEPT
            !.next[r] = head, !.prev[r] = AddressOfFirst(m, b),
            !.first[b] = r, !.count[b] = @ + 1,
            !.usage = Larger(@, m.count[b] + 1)]

\* The records from r on, along the links next.
Chain(m, r) ==
    LET from[q \in Rec \cup {NULL}] ==
            IF q = NULL THEN <<>> ELSE <<q>> \o from[m.next[q]]
    IN  from[r]

\* The records of the chains from bucket b on.
Records(m) ==
    LET from[b \in 0..m.buckets] ==
            IF b = m.buckets THEN <<>> ELSE Chain(m, m.first[b]) \o from[b + 1]
    IN  from[0]

\* The records of rs, one after the other, move into a new table of n buckets.
Moved(m, n, rs) ==
    LET upTo[k \in 0..Len(rs)] ==
            IF k = 0 THEN NewTable(m, n) ELSE ToBuckets(upTo[k - 1], rs[k])
    IN  upTo[Len(rs)]

\* A mutant: only the first record of each chain moves into the new table.
NewBucketsHeads(m, n) ==
    Moved(m, n, SelectSeq(Records(m), LAMBDA r : m.prev[r][1] = "first"))

\* newBuckets
NewBuckets(m, n) == Moved(m, n, Records(m))

\* findInterruptibleWithId: the first record of the chain with this id.
Find(x) ==
    LET from[q \in Rec \cup {NULL}] ==
            IF q = NULL THEN NULL
            ELSE IF id[q] = x THEN q
            ELSE from[map.next[q]]
    IN  IF map.buckets = 0 THEN NULL
        ELSE from[map.first[CRem(x, map.buckets)]]

----------------------------------------------------------------------------
(* assureCreatedMtInterruptible                                            *)

\* calloc of the record and its id, before the global lock is taken.
Allocate(r) ==
    /\ status[r] = "none" /\ nextId < Ids
    /\ nextId' = Incremented(nextId)
    /\ id'     = [id EXCEPT ![r] = nextId']
    /\ status' = [status EXCEPT ![r] = "allocated"]
    /\ UNCHANGED <<map, counter>>

IsFull == counter + 1 > map.buckets * PerBucket \/ map.usage > UsageLimit

\* The table keeps its size: it is not full, or calloc has failed.
Insert(r) ==
    /\ status[r] = "allocated"
    /\ map.buckets # 0
    /\ map'     = ToBuckets(map, r)
    /\ counter' = Incremented(counter)
    /\ status'  = [status EXCEPT ![r] = "listed"]
    /\ UNCHANGED <<id, nextId>>

\* The table grows first.
InsertGrowing(r) ==
    /\ status[r] = "allocated"
    /\ IsFull
    /\ map'     = ToBuckets(NewBuckets(map, IF map.buckets = 0 THEN FirstBuckets
                                            ELSE 2 * map.buckets), r)
    /\ counter' = Incremented(counter)
    /\ status'  = [status EXCEPT ![r] = "listed"]
    /\ UNCHANGED <<id, nextId>>

\* There is no table and calloc has failed: mtint_ERROR_OUT_OF_MEMORY.
InsertFails(r) ==
    /\ status[r] = "allocated"
    /\ map.buckets = 0
    /\ status'  = [status EXCEPT ![r] = "orphan"]
    /\ UNCHANGED <<map, counter, id, nextId>>

----------------------------------------------------------------------------
(* MtInterruptible_free                                                    *)

\* free(intrp): what a freed record still contains does not matter.
Freed(m, r) == [m EXCEPT !.next[r] = NULL, !.prev[r] = NULL]

\* A mutant: the record behind r keeps its pointer to r.
UnlinkedForward(r) == Freed(Store(map, map.prev[r], map.next[r]), r)

\* r is taken out of its chain.
Unlinked(r) ==
    Freed(SetPrev(Store(map, map.prev[r], map.next[r]), map.next[r], map.prev[r]), r)

NoTable(m) == [m EXCEPT !.buckets = 0, !.first = <<>>, !.count = <<>>, !.usage = 0]

\* What every path does: the record is gone.
Forget(r) ==
    /\ status' = [status EXCEPT ![r] = "none"]
    /\ id'     = [id EXCEPT ![r] = NULL]
    /\ UNCHANGED nextId

\* A mutant: a record that never was in the table is counted out of it.
FreeOrphanCounted(r) ==
    /\ status[r] = "orphan"
    /\ Forget(r)
    /\ counter' = Decremented(counter)
    /\ UNCHANGED map

\* A record that never was in the table.
FreeOrphan(r) ==
    /\ status[r] = "orphan"
    /\ Forget(r)
    /\ UNCHANGED <<map, counter>>

\* The table keeps its size (there is enough in it, it is small, or calloc
\* has failed), or goes with its last record.
Free(r) ==
    /\ status[r] = "listed"
    /\ Forget(r)
    /\ counter' = Decremented(counter)
    /\ map'     = IF counter' = 0 THEN NoTable(Unlinked(r)) ELSE Unlinked(r)

\* The table shrinks; the records that are left move into the smaller one.
FreeShrinking(r) ==
    /\ status[r] = "listed"
    /\ counter > 1
    /\ (counter - 1) * ShrinkFactor < map.buckets
    /\ 2 * (counter - 1) > FirstBuckets
    /\ Forget(r)
    /\ counter' = Decremented(counter)
    /\ map'     = NewBuckets(Unlinked(r), 2 * counter')

----------------------------------------------------------------------------
Init ==
    /\ map = [buckets |-> 0, version |-> 0, first |-> <<>>, count |-> <<>>,
              usage |-> 0, next |-> [r \in Rec |-> NULL],
              prev |-> [r \in Rec |-> NULL]]
    /\ counter = 0
    /\ id = [r \in Rec |-> NULL]
    /\ status = [r \in Rec |-> "none"]
    /\ nextId = 0

Next == \E r \in Rec :
    \/ Allocate(r)
    \/ Insert(r) \/ InsertGrowing(r) \/ InsertFails(r)
    \/ FreeOrphan(r) \/ Free(r) \/ FreeShrinking(r)

Spec == Init /\ [][Next]_vars

----------------------------------------------------------------------------
(* The table implements the registry.                                      *)

Listed == ToSet(Records(map))

R == INSTANCE Registry WITH
        Id   <- 1..Ids,
        idOf <- [r \in Rec |-> IF r \in Listed THEN id[r] ELSE NULL]

\* Growing, shrinking, failed allocations and the order of insertions are
\* invisible: records come and go one at a time, under distinct ids.
ImplementsRegistry == R!Spec

----------------------------------------------------------------------------
(* Invariants.                                                             *)

\* The type invariant of this module.
TypeOK ==
    /\ counter \in Nat /\ nextId \in 0..Ids
    /\ id \in [Rec -> 1..Ids \cup {NULL}]
    /\ status \in [Rec -> {"none", "allocated", "listed", "orphan"}]
    /\ map.buckets \in Nat /\ map.version \in {0, 1} /\ map.usage \in Nat
    /\ map.next \in [Rec -> Rec \cup {NULL}]
    /\ DOMAIN map.first = DOMAIN map.count
    /\ \A b \in DOMAIN map.first : map.first[b] \in Rec \cup {NULL}

\* A lookup finds the record that was inserted under an id and not yet freed,
\* whatever resizing went on in between, and never another one.
FindIsExact ==
    /\ \A r \in Rec : status[r] = "listed" => Find(id[r]) = r
    /\ \A x \in 1..Ids : Find(x) # NULL =>
            status[Find(x)] = "listed" /\ id[Find(x)] = x

\* Every back pointer points to the pointer that leads to its record, in the
\* table as it is now: a rehash re-points all of them before the old table is
\* freed, so that unlinking a record writes into no freed memory.
BackPointers ==
    /\ \A b \in DOMAIN map.first : map.first[b] # NULL =>
            map.prev[map.first[b]] = AddressOfFirst(map, b)
    /\ \A r \in Listed : map.next[r] # NULL =>
            map.prev[map.next[r]] = AddressOfNext(r)

\* The counter is the number of records in the table, and there is a table
\* exactly as long as there is a record in it: none is leaked when the last
\* record goes, and an insertion never meets a table of zero buckets.
CounterIsPopulation ==
    /\ counter = Cardinality({r \in Rec : status[r] = "listed"})
    /\ map.buckets = 0 <=> counter = 0
    /\ map.buckets = 0 \/ map.buckets >= FirstBuckets

\* bucket_usage is no less than the longest chain: it grows stale by removals
\* only in the direction that makes the table grow early.
UsageBoundsChains ==
    \A b \in DOMAIN map.first :
        Len(Chain(map, map.first[b])) <= map.count[b] /\ map.count[b] <= map.usage

----------------------------------------------------------------------------
(* What README.md promises and the code does not keep.                     *)

\* README.md: a call of mtint.interrupt with an id under which nothing is found
\* raises mtint.error.unknown_object.  For that the search must stay inside
\* the table, whatever integer the caller passes.
LookupInTable ==
    map.buckets # 0 =>
        \A x \in AtomicCounter : CRem(x, map.buckets) \in DOMAIN map.first
=============================================================================

------------------------------ MODULE HashMap ------------------------------
(***************************************************************************)
(* The Robin Hood hash map of src/hashmap.c.  One turn of a loop of the    *)
(* code is one step, so the table is also seen in the middle of a call.    *)
(*                                                                         *)
(* A key stands for its bytes and its size, which is not zero; its 32-bit  *)
(* hash is a number chosen once, since the hash function and the hash key  *)
(* stay the same while the map holds keys (no call of the library asks for *)
(* a rehash).  Allocations succeed.                                        *)
(***************************************************************************)
EXTENDS Integers, FiniteSets

CONSTANTS
    Keys, NoKey,    \* NoKey: the key_size of zero that marks an empty bucket
    Pointers, Words, Blocks,
                    \* values with a value_size of 0, of 1 to 8 and of more
                    \* bytes; the sizes of different Blocks are different
    Null,           \* the zeroed value field, the NULL of hashmap_get
    HashValues,     \* the hashes a key may have
    Requests,       \* the arguments of hashmap_new
    UpdateAbsent    \* may a caller use hashmap_update on an absent key?

Values == Pointers \union Words \union Blocks

ASSUME HashMapAssumption ==
    /\ NoKey \notin Keys
    /\ Null \notin Values
    /\ Pointers \intersect Words = {}
    /\ Blocks \intersect (Pointers \union Words) = {}
    /\ HashValues \subseteq Nat
    /\ Requests \subseteq Nat
    /\ UpdateAbsent \in BOOLEAN

VARIABLES
    capacity, size, table,  \* fields of HashMap; table is `buckets`
    hash,                   \* hashmap_hash of each key
    pc,                     \* the loop the current call is in
    key, value,             \* arguments of the call
    index, probe,           \* its index and probe_length
    entry, again,           \* hashmap_insert: the bucket in hand; whether it
                            \* is hashmap_insert_bucket that runs
    old, moved,             \* hashmap_grow: the buckets in use of the old table
                            \* that are still to move, by slot, and the one
                            \* hashmap_move_entry holds
    out,                    \* the answer of the last hashmap_get
    seen                    \* the keys this iteration has returned

mapVars  == <<capacity, size, table, hash>>
callVars == <<key, value, index, probe>>
growVars == <<old, moved>>
vars == <<mapVars, pc, callVars, entry, again, growVars, out, seen>>

PCs == {"none", "idle", "insert", "grow", "update", "get", "remove", "shift",
        "iterate", "fault"}

\* A bucket; the zeroed one is empty.
Empty == [key |-> NoKey, value |-> Null, probe_length |-> 0]
Bucket(k, v, n) == [key |-> k, value |-> v, probe_length |-> n]
Buckets == [key : Keys \union {NoKey}, value : Values \union {Null},
            probe_length : Nat]
IsEmpty(b) == b.key = NoKey

Slots == 0 .. (capacity - 1)

\* A power of two: every divisor but 1 is even.
IsPow2(p) == \A d \in 2 .. p : p % d = 0 => d % 2 = 0

\* Mutant: round_u64_to_next_pow2(x) + 1.
NewCapacitySame(x) == CHOOSE p \in x .. (2 * x) : IsPow2(p)

\* round_u64_to_next_pow2(x + 1) + 1: the helper forgets its last increment,
\* the caller makes up for it, and the next greater power of two results.
NewCapacity(x) == CHOOSE p \in (x + 1) .. (2 * x) : IsPow2(p)

\* (uint32_t)log2(capacity): as many powers of two as there are from 2 to c.
MaxProbes(c) == Cardinality({p \in 2 .. c : IsPow2(p)})

\* hash & (capacity - 1), capacity being a power of two
Home(k) == hash[k] % capacity
NextSlot(i) == (i + 1) % capacity

\* (size + 1) > capacity * 0.9
Loaded == 10 * (size + 1) > 9 * capacity

EmptyTable(c) == [i \in 0 .. (c - 1) |-> Empty]

TypeOK ==
    /\ capacity \in Nat /\ size \in Nat
    /\ DOMAIN table = Slots
    /\ \A i \in Slots : table[i] \in Buckets
    /\ hash \in [Keys -> HashValues]
    /\ pc \in PCs
    /\ key \in Keys \union {NoKey} /\ value \in Values \union {Null}
    /\ index \in 0 .. capacity /\ probe \in Nat
    /\ entry \in Buckets /\ again \in BOOLEAN
    /\ \A i \in DOMAIN old : old[i] \in Buckets
    /\ moved \in Buckets
    /\ out \in Values \union {Null}
    /\ seen \in SUBSET Keys

Init ==
    /\ capacity = 0 /\ size = 0 /\ table = EmptyTable(0)
    /\ hash \in [Keys -> HashValues]
    /\ pc = "none"
    /\ key = NoKey /\ value = Null /\ index = 0 /\ probe = 0
    /\ entry = Empty /\ again = FALSE
    /\ old = EmptyTable(0) /\ moved = Empty
    /\ out = Null /\ seen = {}

\* The call returns; what was local to it is gone.
Return ==
    /\ pc' = "idle"
    /\ key' = NoKey /\ value' = Null /\ index' = 0 /\ probe' = 0
    /\ entry' = Empty /\ again' = FALSE

\* A call that begins to probe at the home of k.
Begin(loop, k, v) ==
    /\ pc = "idle"
    /\ pc' = loop
    /\ key' = k /\ value' = v /\ index' = Home(k) /\ probe' = 0

-----------------------------------------------------------------------------
(* hashmap_new and hashmap_free *)

HashMapNew(n) ==
    /\ pc = "none"
    /\ pc' = "idle"
    /\ capacity' = IF n = 0 THEN 1024 ELSE NewCapacity(n)
    /\ table' = EmptyTable(capacity')
    /\ UNCHANGED <<size, hash, callVars, entry, again, growVars, out, seen>>

HashMapFree ==
    /\ pc = "idle"
    /\ pc' = "none"
    /\ capacity' = 0 /\ size' = 0 /\ table' = EmptyTable(0)
    /\ UNCHANGED <<hash, callVars, entry, again, growVars, out, seen>>

-----------------------------------------------------------------------------
(* hashmap_grow *)

\* Mutant: the loop over the old table leaves out its last slot.
InUseShort(t) == [i \in {j \in Slots : ~IsEmpty(t[j]) /\ j < capacity - 1} |-> t[i]]

\* The buckets of table t that are in use.
InUse(t) == [i \in {j \in Slots : ~IsEmpty(t[j])} |-> t[i]]

\* A new table is allocated; what is in the old one, t, remains to be moved.
HashMapGrow(t) ==
    /\ pc' = "grow"
    /\ capacity' = NewCapacity(capacity)
    /\ table' = EmptyTable(capacity')
    /\ size' = 0
    /\ old' = InUse(t)
    /\ UNCHANGED moved

\* The loop takes the next bucket, with probe_length 0.
GrowNext ==
    /\ pc = "grow" /\ IsEmpty(moved)
    /\ \E i \in DOMAIN old :
          /\ \A j \in DOMAIN old : i <= j
          /\ moved' = [old[i] EXCEPT !.probe_length = 0]
          /\ old' = [j \in DOMAIN old \ {i} |-> old[j]]
    /\ index' = Home(moved'.key)
    /\ UNCHANGED <<mapVars, pc, key, value, probe, entry, again, out, seen>>

\* One turn of hashmap_move_entry: the bucket in hand takes the place of one
\* that is nearer to its home, or goes on, or has found an empty bucket.
MoveEntry ==
    /\ pc = "grow" /\ ~IsEmpty(moved)
    /\ LET b    == table[index]
           swap == moved.probe_length > b.probe_length
       IN  IF IsEmpty(b)
           THEN /\ table' = [table EXCEPT ![index] = moved]
                /\ moved' = Empty
                /\ size' = size + 1
                /\ UNCHANGED index
           ELSE /\ table' = IF swap THEN [table EXCEPT ![index] = moved] ELSE table
                /\ moved' = [(IF swap THEN b ELSE moved) EXCEPT !.probe_length = @ + 1]
                /\ index' = NextSlot(index)
                /\ UNCHANGED size
    /\ UNCHANGED <<capacity, hash, pc, key, value, probe, entry, again, old, out, seen>>

-----------------------------------------------------------------------------
(* hashmap_insert and hashmap_insert_bucket *)

\* Both grow a loaded map first.
HashMapInsert(k, v) ==
    /\ pc = "idle"
    /\ key' = k
    /\ entry' = Bucket(k, v, 0)
    /\ IF Loaded
       THEN HashMapGrow(table) /\ UNCHANGED index
       ELSE /\ pc' = "insert" /\ index' = Home(k)
            /\ UNCHANGED <<capacity, table, size, growVars>>
    /\ UNCHANGED <<hash, value, probe, again, out, seen>>

\* The end of hashmap_grow.  Behind the probe limit hashmap_insert_bucket is
\* called with the bucket in hand, and begins with the load test.
GrowReturn ==
    /\ pc = "grow" /\ IsEmpty(moved) /\ DOMAIN old = {}
    /\ key' = entry.key
    /\ entry' = [entry EXCEPT !.probe_length = 0]
    /\ IF again /\ Loaded
       THEN HashMapGrow(table) /\ UNCHANGED index
       ELSE /\ pc' = "insert" /\ index' = Home(entry.key)
            /\ UNCHANGED <<capacity, table, size, growVars>>
    /\ UNCHANGED <<hash, value, probe, again, out, seen>>

\* hashmap_insert looks for the key of its argument, hashmap_insert_bucket
\* for that of the bucket in hand, with the hash of the first one.
Matches(b) ==
    IF again THEN b.key = entry.key /\ hash[b.key] = hash[key]
             ELSE b.key = key

\* Mutant: plain linear probing.
InsertStepNoSwap ==
    /\ pc = "insert"
    /\ LET next == [entry EXCEPT !.probe_length = @ + 1]
       IN  /\ ~IsEmpty(table[index]) /\ ~Matches(table[index])
           /\ entry' = next
           /\ index' = NextSlot(index)
           /\ IF next.probe_length < MaxProbes(capacity)
              THEN UNCHANGED <<table, capacity, size, pc, growVars, again>>
              ELSE HashMapGrow(table) /\ again' = TRUE
    /\ UNCHANGED <<hash, key, value, probe, out, seen>>

\* A bucket in use that holds another key: the bucket in hand takes its place
\* if it is farther from its home, and the loop goes on up to max_probes.
InsertStep ==
    /\ pc = "insert"
    /\ LET b    == table[index]
           swap == entry.probe_length > b.probe_length
           t    == IF swap THEN [table EXCEPT ![index] = entry] ELSE table
           next == [(IF swap THEN b ELSE entry) EXCEPT !.probe_length = @ + 1]
       IN  /\ ~IsEmpty(b) /\ ~Matches(b)
           /\ entry' = next
           /\ index' = NextSlot(index)
           /\ IF next.probe_length < MaxProbes(capacity)
              THEN table' = t /\ UNCHANGED <<capacity, size, pc, growVars, again>>
              ELSE HashMapGrow(t) /\ again' = TRUE
    /\ UNCHANGED <<hash, key, value, probe, out, seen>>

\* An empty bucket, or the key is already there and the map keeps its value.
InsertEnd ==
    /\ pc = "insert"
    /\ \/ /\ IsEmpty(table[index])
          /\ table' = [table EXCEPT ![index] = entry]
          /\ size' = size + 1
       \/ /\ ~IsEmpty(table[index]) /\ Matches(table[index])
          /\ UNCHANGED <<table, size>>
    /\ Return
    /\ UNCHANGED <<capacity, hash, growVars, out, seen>>

-----------------------------------------------------------------------------
(* hashmap_update *)

Present(k) == \E i \in Slots : table[i].key = k

HashMapUpdate(k, v) ==
    /\ Begin("update", k, v)
    /\ UpdateAbsent \/ Present(k)
    /\ UNCHANGED <<mapVars, entry, again, growVars, out, seen>>

\* bucket_update_value clears the value field before it looks at it, so that
\* it copies a block of the same size to NULL, and stores no pointer over a
\* value that had a size.
HasSize(v) == v \in Words \union Blocks
UpdateFaults(b, v) == v \in Blocks /\ b.value = v
UpdateValue(b, v) ==
    [b EXCEPT !.value = IF HasSize(b.value) /\ v \in Pointers THEN Null ELSE v]

\* The first empty bucket takes an absent key, at any distance: this loop
\* neither swaps nor grows.  In a full table it does not end; probe stops at
\* the capacity, since the loop then repeats itself.
UpdateStep ==
    /\ pc = "update"
    /\ LET b == table[index]
       IN  \/ /\ ~IsEmpty(b) /\ b.key # key
              /\ index' = NextSlot(index)
              /\ probe' = IF probe < capacity THEN probe + 1 ELSE probe
              /\ UNCHANGED <<size, table, pc, key, value, entry, again>>
           \/ /\ b.key = key /\ UpdateFaults(b, value)
              /\ pc' = "fault"
              /\ UNCHANGED <<size, table, callVars, entry, again>>
           \/ /\ b.key = key /\ ~UpdateFaults(b, value)
              /\ table' = [table EXCEPT ![index] = UpdateValue(b, value)]
              /\ Return
              /\ UNCHANGED size
           \/ /\ IsEmpty(b)
              /\ table' = [table EXCEPT ![index] = Bucket(key, value, probe)]
              /\ size' = size + 1
              /\ Return
    /\ UNCHANGED <<capacity, hash, growVars, out, seen>>

-----------------------------------------------------------------------------
(* hashmap_get, hashmap_remove and hashmap_iterate *)

\* Mutant: >= instead of >.
GivesUpEarly(b) == IsEmpty(b) \/ probe >= b.probe_length

\* A lookup gives up where the key would have been put in.
GivesUp(b) == IsEmpty(b) \/ probe > b.probe_length

HashMapGet(k) ==
    /\ Begin("get", k, Null)
    /\ UNCHANGED <<mapVars, entry, again, growVars, out, seen>>

GetStep ==
    /\ pc = "get"
    /\ LET b == table[index]
       IN  \/ /\ b.key = key
              /\ out' = b.value
              /\ Return
           \/ /\ b.key # key /\ GivesUp(b)
              /\ out' = Null
              /\ Return
           \/ /\ b.key # key /\ ~GivesUp(b)
              /\ index' = NextSlot(index) /\ probe' = probe + 1
              /\ UNCHANGED <<pc, key, value, entry, again, out>>
    /\ UNCHANGED <<mapVars, growVars, seen>>

HashMapRemove(k) ==
    /\ Begin("remove", k, Null)
    /\ UNCHANGED <<mapVars, entry, again, growVars, out, seen>>

RemoveStep ==
    /\ pc = "remove"
    /\ LET b == table[index]
       IN  \/ /\ GivesUp(b)
              /\ Return
              /\ UNCHANGED <<table, size>>
           \/ /\ ~GivesUp(b) /\ b.key = key
              /\ table' = [table EXCEPT ![index] = Empty]
              /\ size' = size - 1
              /\ pc' = "shift"
              /\ UNCHANGED <<callVars, entry, again>>
           \/ /\ ~GivesUp(b) /\ b.key # key
              /\ index' = NextSlot(index) /\ probe' = probe + 1
              /\ UNCHANGED <<table, size, pc, key, value, entry, again>>
    /\ UNCHANGED <<capacity, hash, growVars, out, seen>>

\* Mutant: a bucket that moves back keeps its probe_length.
ShiftStepKeepsProbe ==
    /\ pc = "shift"
    /\ LET n == NextSlot(index)
       IN  IF IsEmpty(table[n]) \/ table[n].probe_length = 0
           THEN /\ table' = [table EXCEPT ![index] = Empty]
                /\ Return
           ELSE /\ table' = [table EXCEPT ![index] = table[n]]
                /\ index' = n
                /\ UNCHANGED <<pc, key, value, probe, entry, again>>
    /\ UNCHANGED <<capacity, size, hash, growVars, out, seen>>

\* The buckets behind the removed one move back, as far as that brings them
\* nearer to their homes.
ShiftStep ==
    /\ pc = "shift"
    /\ LET n == NextSlot(index)
           b == [table[n] EXCEPT !.probe_length = @ - 1]
       IN  IF IsEmpty(table[n]) \/ table[n].probe_length = 0
           THEN /\ table' = [table EXCEPT ![index] = Empty]
                /\ Return
           ELSE /\ table' = [table EXCEPT ![index] = b, ![n] = b]
                /\ index' = n
                /\ UNCHANGED <<pc, key, value, probe, entry, again>>
    /\ UNCHANGED <<capacity, size, hash, growVars, out, seen>>

\* A loop of calls of hashmap_iterate, from the iterator 0.
HashMapIterate ==
    /\ pc = "idle"
    /\ pc' = "iterate"
    /\ UNCHANGED <<mapVars, callVars, entry, again, growVars, out, seen>>

\* Mutant: the iterator moves one bucket too far.
IterateStepSkips ==
    /\ pc = "iterate"
    /\ LET rest == {i \in index .. (capacity - 1) : ~IsEmpty(table[i])}
       IN  \/ \E i \in rest :
                /\ \A j \in rest : i <= j
                /\ seen' = seen \union {table[i].key}
                /\ index' = i + 2
                /\ UNCHANGED <<pc, key, value, probe, entry, again>>
           \/ rest = {} /\ seen' = {} /\ Return
    /\ UNCHANGED <<mapVars, growVars, out>>

\* One call: the next bucket in use, or the end.
IterateStep ==
    /\ pc = "iterate"
    /\ LET rest == {i \in index .. (capacity - 1) : ~IsEmpty(table[i])}
       IN  \/ \E i \in rest :
                /\ \A j \in rest : i <= j
                /\ seen' = seen \union {table[i].key}
                /\ index' = i + 1
                /\ UNCHANGED <<pc, key, value, probe, entry, again>>
           \/ /\ rest = {}
              /\ seen' = {}
              /\ Return
    /\ UNCHANGED <<mapVars, growVars, out>>

-----------------------------------------------------------------------------
Call ==
    \/ \E n \in Requests : HashMapNew(n)
    \/ \E k \in Keys, v \in Values : HashMapInsert(k, v) \/ HashMapUpdate(k, v)
    \/ \E k \in Keys : HashMapGet(k) \/ HashMapRemove(k)
    \/ HashMapIterate
    \/ HashMapFree

Step ==
    \/ GrowNext \/ MoveEntry \/ GrowReturn \/ InsertStep \/ InsertEnd
    \/ UpdateStep \/ GetStep \/ RemoveStep \/ ShiftStep \/ IterateStep

Next == Call \/ Step

Spec == Init /\ [][Next]_vars

\* A call that has begun goes on.
FairSpec == Spec /\ WF_vars(Step)

(***************************************************************************)
(* Properties                                                              *)
(***************************************************************************)

Used == {i \in Slots : ~IsEmpty(table[i])}

\* While a removal shifts buckets, the one it will empty next is a copy of
\* the one before it.
Hole == IF pc = "shift" THEN {index} ELSE {}

\* The distance of slot i from the home of the key it holds.
Distance(i) == (i - Home(table[i].key)) % capacity

\* Whatever the callers do, also when hashmap_update puts in absent keys:
\* probe_length, which every loop trusts, is the distance of a bucket from
\* its home, through swaps, growth and backward shifts, and hashmap_size is
\* the number of buckets in use, also in the middle of a growth.
TableExact ==
    /\ TypeOK
    /\ \A i \in Used \ Hole : table[i].probe_length = Distance(i)
    /\ size = Cardinality(Used \ Hole)

\* Robin Hood order, between two calls: a bucket that is not at its home has
\* a bucket before it, which is at most one step nearer to its own home.
\* This is what allows hashmap_get to give up early.  No bucket is farther
\* than max_probes from its home, and the table has room: each loop ends.
RobinHood ==
    pc = "idle" =>
        /\ \A i \in Used :
              /\ table[i].probe_length < MaxProbes(capacity)
              /\ table[i].probe_length > 0 =>
                    LET p == (i - 1) % capacity
                    IN  p \in Used /\ table[i].probe_length <= table[p].probe_length + 1
        /\ Used # Slots

\* A lookup or a removal that gives up has not missed its key, although it
\* stops long before it has seen every bucket.
NoKeyMissed ==
    pc \in {"get", "remove"} /\ GivesUp(table[index]) => ~Present(key)

\* An iteration that has reached its end has returned every key, once.
IterationComplete ==
    pc = "iterate" /\ {i \in Used : i >= index} = {} =>
        /\ seen = {table[i].key : i \in Used}
        /\ Cardinality(seen) = size

\* Every call returns, although an insertion can grow the map several times.
CallsReturn == pc \notin {"none", "idle"} ~> pc = "idle"

\* What the tests of the map say of every key they put in: hashmap_get finds
\* it.  Reachable repeats the loop of hashmap_get for a table at rest.
Reachable(i) ==
    LET h == Home(table[i].key)
        d == Distance(i)
    IN  \A n \in 0 .. (d - 1) :
            LET b == table[(h + n) % capacity]
            IN  ~IsEmpty(b) /\ n <= b.probe_length

KeysAreFound == pc = "idle" => \A i \in Used : Reachable(i)

-----------------------------------------------------------------------------
(* Refinement *)

\* The value of a key, wherever its bucket is: in the table, waiting to be
\* moved to a new one, or in the hands of hashmap_move_entry or of an
\* insertion.  A key that is in the map hides the bucket in hand.
Everywhere ==
    {table[i] : i \in Used} \union {old[i] : i \in DOMAIN old} \union {moved}

ValueOf(k) ==
    IF \E b \in Everywhere : b.key = k
    THEN (CHOOSE b \in Everywhere : b.key = k).value
    ELSE IF entry.key = k THEN entry.value ELSE Null

\* The call in progress, and its arguments as long as the dictionary waits for
\* its effect: an insertion has had its own when it began.
CallOp    == CASE pc = "grow" -> "insert" [] pc = "shift" -> "removed" [] OTHER -> pc
CallKey   == IF pc \in {"update", "get", "remove", "shift"} THEN key ELSE NoKey
CallValue == IF pc = "update" THEN value ELSE Null

Dict == INSTANCE Dictionary
            WITH map <- [k \in Keys |-> ValueOf(k)],
                 op <- CallOp, arg <- CallKey, new <- CallValue

\* With hashmap_update used on the keys of the map only, and values of 1 to 8
\* bytes, the map is a dictionary: each call takes effect once, on its own key
\* and with its own value, although an insertion that reaches max_probes goes on
\* with another bucket in a new table; and no other key is lost, doubled or
\* changed on the way.
ImplementsDictionary == Dict!DictionarySpec

=============================================================================

--------------------------- MODULE HashMapProofs ---------------------------
(***************************************************************************)
(* Proofs about HashMap, for any keys, values, hashes and capacities.      *)
(***************************************************************************)
EXTENDS HashMap, FiniteSetTheorems, WellFoundedInduction, TLAPS

-----------------------------------------------------------------------------
(* Numbers *)

\* A set of numbers that is not empty has a least one.
LEMMA NatMin ==
    ASSUME NEW S \in SUBSET Nat, S # {}
    PROVE  \E m \in S : \A n \in S : m <= n
  <1>1. PICK R : R = {p \in Nat \X Nat : p[1] < p[2]}
    OBVIOUS
  <1>2. IsWellFoundedOn(R, Nat) BY <1>1, NatLessThanWellFounded DEF OpToRel
  <1>3. PICK x \in S : \A y \in S : ~(<<y, x>> \in R) BY <1>2, WFMin
  <1>4. \A y \in S : y < x => <<y, x>> \in R BY <1>1
  <1>5. \A y \in S : ~(y < x) BY <1>3, <1>4, Zenon
  <1>6. \A y \in S : x <= y BY <1>5
  <1>7. QED BY <1>6

\* Divisibility as a product.
LEMMA Divides ==
    ASSUME NEW a \in Nat, NEW d \in Nat \ {0}
    PROVE  a % d = 0 <=> \E q \in Nat : a = d * q
  <1>1. ASSUME a % d = 0 PROVE \E q \in Nat : a = d * q
    <2>1. a = d * (a \div d) + (a % d) /\ a \div d \in Int BY SMT
    <2>2. PICK q \in Int : a = d * q BY <1>1, <2>1
    <2>3. q >= 0 BY <2>2, SMT
    <2>4. QED BY <2>2, <2>3
  <1>2. ASSUME NEW q \in Nat, a = d * q PROVE a % d = 0
    BY <1>2, SMT
  <1>3. QED BY <1>1, <1>2

\* The double of a power of two is one ...
LEMMA Pow2Double ==
    ASSUME NEW p \in Nat \ {0}, IsPow2(p)
    PROVE  IsPow2(2 * p)
  <1>1. SUFFICES ASSUME NEW d \in 2 .. (2 * p), (2 * p) % d = 0, d % 2 # 0 PROVE FALSE
    BY DEF IsPow2
  <1>2. PICK q \in Nat : 2 * p = d * q BY <1>1, Divides
  <1>3. PICK e \in Nat : d = 2 * e + 1
    <2>1. d = 2 * (d \div 2) + 1 /\ d \div 2 \in Nat BY <1>1
    <2>2. QED BY <2>1
  <1>4. PICK m \in Nat : m = e * q BY SMT
  <1>5. 2 * p = 2 * m + q BY <1>2, <1>3, <1>4, SMT
  <1>6. PICK f \in Nat : q = 2 * f
    <2>1. q = 2 * (p - m) /\ p - m \in Int BY <1>5
    <2>2. QED BY <2>1
  <1>7. p = d * f /\ f > 0
    <2>1. 2 * p = 2 * (d * f) /\ d * f \in Nat BY <1>2, <1>6, SMT
    <2>2. p = d * f BY <2>1, SMT
    <2>3. QED BY <2>2, SMT
  <1>8. d <= p BY <1>7, SMT
  <1>9. p % d = 0 BY <1>7, Divides
  <1>10. QED BY <1>1, <1>8, <1>9 DEF IsPow2

\* ... and so is the half.
LEMMA Pow2Half ==
    ASSUME NEW p \in Nat, p > 1, IsPow2(p)
    PROVE  \E r \in Nat \ {0} : p = 2 * r /\ IsPow2(r)
  <1>1. p % p = 0 BY SMT
  <1>2. p % 2 = 0 BY <1>1 DEF IsPow2
  <1>3. PICK r \in Nat : p = 2 * r BY <1>2, Divides
  <1>4. ASSUME NEW d \in 2 .. r, r % d = 0 PROVE d % 2 = 0
    <2>1. PICK q \in Nat : r = d * q BY <1>4, Divides
    <2>2. p = d * (2 * q) BY <1>3, <2>1, SMT
    <2>3. p % d = 0 BY <2>2, Divides
    <2>4. QED BY <1>3, <2>3 DEF IsPow2
  <1>5. r # 0 BY <1>3
  <1>6. IsPow2(r) BY <1>4 DEF IsPow2
  <1>7. QED BY <1>3, <1>5, <1>6

\* There is no power of two between one and its double.
LEMMA Pow2Gap ==
    ASSUME NEW c \in Nat \ {0}, NEW p \in Nat, IsPow2(c), IsPow2(p), c < p
    PROVE  2 * c <= p
  <1> DEFINE Bad == {n \in Nat \ {0} : IsPow2(n) /\ \E m \in Nat : n < m /\ m < 2 * n /\ IsPow2(m)}
  <1>1. SUFFICES Bad = {} BY <1>1
  <1>2. SUFFICES ASSUME Bad # {} PROVE FALSE OBVIOUS
  <1>3. PICK n \in Bad : \A i \in Bad : n <= i
    <2>1. Bad \in SUBSET Nat OBVIOUS
    <2>2. QED BY <1>2, <2>1, NatMin
  <1>4. PICK m \in Nat : n < m /\ m < 2 * n /\ IsPow2(m) BY <1>3
  <1>5. n > 1 /\ m > 1 BY <1>3, <1>4
  <1>6. PICK r \in Nat \ {0} : n = 2 * r /\ IsPow2(r) BY <1>3, <1>5, Pow2Half
  <1>7. PICK s \in Nat \ {0} : m = 2 * s /\ IsPow2(s) BY <1>4, <1>5, Pow2Half
  <1>8. r < s /\ s < 2 * r BY <1>4, <1>6, <1>7
  <1>9. r \in Bad BY <1>6, <1>7, <1>8
  <1>10. QED BY <1>3, <1>6, <1>9

\* There is one above x, and not above its double.
LEMMA Pow2Next ==
    ASSUME NEW x \in Nat \ {0}
    PROVE  \E p \in (x + 1) .. (2 * x) : IsPow2(p)
  <1> DEFINE Less == {n \in 0 .. x : n < x /\ IsPow2(x - n)}
  <1>1. IsPow2(1) BY DEF IsPow2
  <1>2. x - 1 \in Less BY <1>1
  <1>3. PICK n \in Less : \A i \in Less : n <= i
    <2>1. Less \in SUBSET Nat OBVIOUS
    <2>2. QED BY <1>2, <2>1, NatMin
  <1>4. PICK p \in Nat \ {0} : p = x - n /\ IsPow2(p) BY <1>3
  <1>5. IsPow2(2 * p) BY <1>4, Pow2Double
  <1>6. 2 * p > x
    <2>1. SUFFICES ASSUME 2 * p <= x PROVE FALSE BY <1>4
    <2>2. x - (x - 2 * p) = 2 * p /\ x - 2 * p \in 0 .. x /\ x - 2 * p < x BY <1>4, <2>1
    <2>3. x - 2 * p \in Less BY <1>5, <2>2
    <2>4. QED BY <1>3, <1>4, <2>3
  <1>7. 2 * p \in (x + 1) .. (2 * x) BY <1>4, <1>6, <1>3
  <1>8. QED BY <1>5, <1>7

\* The capacity doubles when the map grows, or is the next power of two.
LEMMA NewCapacityFacts ==
    ASSUME NEW x \in Nat \ {0}
    PROVE  /\ NewCapacity(x) \in (x + 1) .. (2 * x) /\ IsPow2(NewCapacity(x))
           /\ IsPow2(x) => NewCapacity(x) = 2 * x
  <1>1. NewCapacity(x) \in (x + 1) .. (2 * x) /\ IsPow2(NewCapacity(x))
    BY Pow2Next DEF NewCapacity
  <1>2. QED BY <1>1, Pow2Gap

\* max_probes is smaller than the capacity, and grows with it.
LEMMA MaxProbesFacts ==
    ASSUME NEW c \in Nat, c > 1
    PROVE  /\ MaxProbes(c) \in 1 .. (c - 1)
           /\ \A b \in 2 .. c : MaxProbes(b) <= MaxProbes(c)
  <1> DEFINE P(n) == {p \in 2 .. n : IsPow2(p)}
  <1>1. IsFiniteSet(2 .. c) /\ Cardinality(2 .. c) = c - 1 BY FS_Interval
  <1>2. P(c) \in SUBSET (2 .. c) OBVIOUS
  <1>3. IsFiniteSet(P(c)) /\ Cardinality(P(c)) <= c - 1 /\ Cardinality(P(c)) \in Nat
    BY <1>1, <1>2, FS_Subset, FS_CardinalityType
  <1>4. 2 \in P(c)
    BY DEF IsPow2
  <1>5. Cardinality(P(c)) # 0 BY <1>3, <1>4, FS_EmptySet
  <1>6. ASSUME NEW b \in 2 .. c PROVE Cardinality(P(b)) <= Cardinality(P(c))
    <2>1. P(b) \in SUBSET P(c) OBVIOUS
    <2>2. QED BY <1>3, <2>1, FS_Subset
  <1>7. QED BY <1>3, <1>5, <1>6 DEF MaxProbes

-----------------------------------------------------------------------------
(* The circle of slots *)

\* How far slot i is behind slot h in a table of c slots, and the slot behind i.
Far(c, i, h) == IF i >= h THEN i - h ELSE i - h + c
Up(c, i) == IF i = c - 1 THEN 0 ELSE i + 1

HomeIn(c, k) == hash[k] % c
UsedIn(t, c) == {i \in 0 .. (c - 1) : ~IsEmpty(t[i])}

\* What % computes for slots.
LEMMA Circle ==
    ASSUME NEW c \in Nat \ {0}
    PROVE  /\ \A a \in Int : a % c \in 0 .. (c - 1)
           /\ \A i, h \in 0 .. (c - 1) : (i - h) % c = Far(c, i, h)
           /\ \A i \in 0 .. (c - 1) : (i + 1) % c = Up(c, i)
  <1>1. \A a \in Int : a % c \in 0 .. (c - 1) BY SMT
  <1>2. \A i, h \in 0 .. (c - 1) : (i - h) % c = Far(c, i, h) BY SMT DEF Far
  <1>3. \A i \in 0 .. (c - 1) : (i + 1) % c = Up(c, i) BY SMT DEF Up
  <1>4. QED BY <1>1, <1>2, <1>3

\* The home of a key is a slot.
LEMMA HomeSlot ==
    ASSUME NEW c \in Nat \ {0}, hash \in [Keys -> HashValues], NEW k \in Keys
    PROVE  HomeIn(c, k) \in 0 .. (c - 1)
  <1>1. hash[k] \in HashValues OBVIOUS
  <1>2. HashValues \subseteq Nat BY HashMapAssumption DEF HashMapAssumption
  <1>3. hash[k] \in Nat BY <1>1, <1>2, Zenon
  <1>4. PICK a \in Nat : a = hash[k] BY <1>3, Zenon
  <1>5. a % c \in 0 .. (c - 1) BY Circle
  <1>6. QED BY <1>4, <1>5 DEF HomeIn

\* The fields of a bucket.
LEMMA BucketFacts ==
    ASSUME NEW b \in Buckets
    PROVE  /\ b.key \in Keys \cup {NoKey} /\ b.value \in Values \cup {Null}
           /\ b.probe_length \in Nat
           /\ ~IsEmpty(b) <=> b.key \in Keys
           /\ \A n \in Nat :
                /\ [b EXCEPT !.probe_length = n] \in Buckets
                /\ [b EXCEPT !.probe_length = n].key = b.key
                /\ [b EXCEPT !.probe_length = n].value = b.value
                /\ [b EXCEPT !.probe_length = n].probe_length = n
  BY HashMapAssumption DEF Buckets, IsEmpty, HashMapAssumption

\* The fields of a new bucket.
LEMMA NewBucketFacts ==
    /\ Empty \in Buckets /\ IsEmpty(Empty) /\ Empty.probe_length = 0
    /\ \A k \in Keys, v \in Values, n \in Nat :
          /\ Bucket(k, v, n) \in Buckets /\ Bucket(k, v, n).key = k
          /\ Bucket(k, v, n).value = v /\ Bucket(k, v, n).probe_length = n
  BY DEF Buckets, Empty, Bucket, IsEmpty

\* The buckets in use of a table can be counted.
LEMMA UsedCount ==
    ASSUME NEW c \in Nat, NEW t
    PROVE  /\ IsFiniteSet(UsedIn(t, c)) /\ Cardinality(UsedIn(t, c)) \in Nat
           /\ Cardinality(UsedIn(t, c)) <= c
           /\ Cardinality(UsedIn(t, c)) = c => UsedIn(t, c) = 0 .. (c - 1)
  <1>1. IsFiniteSet(0 .. (c - 1)) /\ Cardinality(0 .. (c - 1)) = c BY FS_Interval
  <1>2. UsedIn(t, c) \in SUBSET (0 .. (c - 1)) BY DEF UsedIn
  <1>3. QED BY <1>1, <1>2, FS_Subset, FS_CardinalityType

\* Writing a bucket into a slot.
LEMMA PutFacts ==
    ASSUME NEW c \in Nat, NEW t \in [0 .. (c - 1) -> Buckets], NEW i \in 0 .. (c - 1),
           NEW b \in Buckets
    PROVE  /\ [t EXCEPT ![i] = b] \in [0 .. (c - 1) -> Buckets] /\ [t EXCEPT ![i] = b][i] = b
           /\ \A j \in 0 .. (c - 1) : j # i => [t EXCEPT ![i] = b][j] = t[j]
           /\ UsedIn([t EXCEPT ![i] = b], c) = IF IsEmpty(b) THEN UsedIn(t, c) \ {i} ELSE UsedIn(t, c) \cup {i}
  BY DEF UsedIn

\* A new table has no bucket in use.
LEMMA EmptyTableFacts ==
    ASSUME NEW c \in Nat
    PROVE  /\ EmptyTable(c) \in [0 .. (c - 1) -> Buckets] /\ UsedIn(EmptyTable(c), c) = {}
           /\ DOMAIN EmptyTable(0) = {} /\ EmptyTable(0) \in [{} -> Buckets]
  <1>1. EmptyTable(c) \in [0 .. (c - 1) -> Buckets] /\ UsedIn(EmptyTable(c), c) = {}
    BY NewBucketFacts DEF EmptyTable, UsedIn
  <1>2. 0 .. (0 - 1) = {} OBVIOUS
  <1>3. DOMAIN EmptyTable(0) = {} /\ EmptyTable(0) \in [{} -> Buckets] BY <1>2 DEF EmptyTable
  <1>4. QED BY <1>1, <1>3

-----------------------------------------------------------------------------
(* The inductive invariant of the table, for any callers *)

Types ==
    /\ capacity \in Nat /\ size \in Nat /\ table \in [Slots -> Buckets]
    /\ hash \in [Keys -> HashValues] /\ pc \in PCs
    /\ key \in Keys \cup {NoKey} /\ value \in Values \cup {Null}
    /\ index \in 0 .. capacity /\ probe \in Nat
    /\ entry \in Buckets /\ again \in BOOLEAN
    /\ old \in [DOMAIN old -> Buckets] /\ IsFiniteSet(DOMAIN old)
    /\ moved \in Buckets /\ out \in Values \cup {Null} /\ seen \in SUBSET Keys

\* Where the loops are, and what is in their hands.
Phases ==
    /\ pc = "none" <=> capacity = 0
    /\ pc # "none" => capacity > 1
    /\ pc \in {"none", "idle"} => index = 0
    /\ pc \in {"insert", "update", "get", "remove", "shift"} => index \in Slots /\ key \in Keys
    /\ pc = "update" => value \in Values
    /\ pc = "grow" /\ ~IsEmpty(moved) => index \in Slots
    /\ pc \in {"insert", "grow"} => key \in Keys /\ entry.key \in Keys
    /\ pc # "grow" => IsEmpty(moved) /\ DOMAIN old = {}
    /\ \A i \in DOMAIN old : old[i].key \in Keys

Filled == UsedIn(table, capacity) \ Hole

Exact ==
    /\ \A i \in Filled :
          table[i].probe_length = Far(capacity, i, HomeIn(capacity, table[i].key))
    /\ size = Cardinality(Filled)

\* Bucket b is in hand at slot `index`, as far from its home as it says.
AtIndex(b) == b.probe_length = Far(capacity, index, HomeIn(capacity, b.key))

\* The n slots from the home of k on are in use.
Passed(k, n) ==
    \A j \in Slots : Far(capacity, j, HomeIn(capacity, k)) < n => ~IsEmpty(table[j])

\* What the loops rely on: probe_length does not reach the capacity, because an
\* insertion stops at max_probes, the new table has more room than the old
\* one had buckets, and an update stops at the first empty bucket.
Loops ==
    /\ pc = "insert" => AtIndex(entry) /\ entry.probe_length < MaxProbes(capacity)
    /\ pc = "grow" /\ ~IsEmpty(moved) => AtIndex(moved) /\ Passed(moved.key, moved.probe_length)
    /\ pc = "grow" =>
          size + Cardinality(DOMAIN old) + (IF IsEmpty(moved) THEN 0 ELSE 1) < capacity
    /\ pc = "update" =>
          /\ probe <= capacity /\ Passed(key, probe)
          /\ probe < capacity => probe = Far(capacity, index, HomeIn(capacity, key))

MapInv == Types /\ Phases /\ Exact /\ Loops

\* The facts about a state that the steps below share.
LEMMA StateFacts ==
    ASSUME MapInv, capacity > 1
    PROVE  /\ capacity \in Nat \ {0} /\ Slots = 0 .. (capacity - 1)
           /\ \A k \in Keys : HomeIn(capacity, k) \in Slots /\ Home(k) = HomeIn(capacity, k)
           /\ \A i \in Slots : NextSlot(i) = Up(capacity, i) /\ NextSlot(i) \in Slots
           /\ \A i, h \in Slots : Far(capacity, i, h) \in 0 .. (capacity - 1)
           /\ \A i \in Slots : table[i] \in Buckets
           /\ MaxProbes(capacity) \in 1 .. (capacity - 1)
  <1>1. capacity \in Nat \ {0} /\ Slots = 0 .. (capacity - 1) BY DEF MapInv, Types, Slots
  <1>2. \A k \in Keys : HomeIn(capacity, k) \in Slots /\ Home(k) = HomeIn(capacity, k)
    BY <1>1, HomeSlot DEF MapInv, Types, Home, HomeIn
  <1>3. \A i \in Slots : NextSlot(i) = Up(capacity, i) BY <1>1, Circle DEF NextSlot
  <1>4. \A i \in Slots : Up(capacity, i) \in Slots BY <1>1 DEF Up
  <1>5. \A i, h \in Slots : Far(capacity, i, h) \in 0 .. (capacity - 1) BY <1>1 DEF Far
  <1>6. \A i \in Slots : table[i] \in Buckets BY DEF MapInv, Types
  <1>7. MaxProbes(capacity) \in 1 .. (capacity - 1) BY <1>1, MaxProbesFacts
  <1>8. QED BY <1>1, <1>2, <1>3, <1>4, <1>5, <1>6, <1>7

\* The invariant holds before hashmap_new.
LEMMA InvInit == Init => MapInv
  <1> SUFFICES ASSUME Init PROVE MapInv
    OBVIOUS
  <1>1. /\ EmptyTable(0) \in [0 .. (0 - 1) -> Buckets] /\ UsedIn(EmptyTable(0), 0) = {}
        /\ DOMAIN EmptyTable(0) = {} /\ EmptyTable(0) \in [{} -> Buckets]
    BY EmptyTableFacts
  <1>2. Types
    <2>1. table \in [Slots -> Buckets] BY <1>1 DEF Init, Slots
    <2>2. old \in [DOMAIN old -> Buckets] /\ IsFiniteSet(DOMAIN old)
      BY <1>1, FS_EmptySet DEF Init
    <2>3. Empty \in Buckets BY NewBucketFacts
    <2>4. capacity \in Nat /\ size \in Nat /\ index \in 0 .. capacity /\ probe \in Nat BY DEF Init
    <2>5. pc \in PCs /\ again \in BOOLEAN BY DEF Init, PCs
    <2>6. QED BY <2>1, <2>2, <2>3, <2>4, <2>5, Zenon DEF Init, Types
  <1>3. Phases BY <1>1, NewBucketFacts DEF Init, Phases
  <1>4. Filled = {} BY <1>1 DEF Init, Filled
  <1>5. Exact BY <1>4, FS_EmptySet DEF Exact, Init
  <1>6. Loops BY DEF Init, Loops
  <1>7. QED BY <1>2, <1>3, <1>5, <1>6 DEF MapInv

\* A step that leaves the map alone and is not a turn of a loop that writes.
LEMMA InvQuiet ==
    ASSUME MapInv, UNCHANGED mapVars, Types', Phases', pc # "shift",
           pc' \in {"idle", "get", "remove", "iterate", "fault"}
    PROVE  MapInv'
  <1>1. UNCHANGED <<table, capacity, size, hash>> BY DEF mapVars
  <1>2. Filled' = Filled BY <1>1 DEF Filled, Hole, UsedIn, IsEmpty
  <1>3. Exact' BY <1>1, <1>2 DEF MapInv, Exact, Far, HomeIn
  <1>4. Loops' BY DEF Loops
  <1>5. QED BY <1>3, <1>4 DEF MapInv

\* hashmap_new.
LEMMA InvNew == ASSUME MapInv, NEW n \in Requests, HashMapNew(n) PROVE MapInv'
  <1>1. capacity' \in Nat /\ capacity' > 1
    <2>1. n \in Nat BY HashMapAssumption DEF HashMapAssumption
    <2>2. CASE n = 0 BY <2>2 DEF HashMapNew
    <2>3. CASE n # 0
      <3>1. NewCapacity(n) \in (n + 1) .. (2 * n) BY <2>1, <2>3, NewCapacityFacts
      <3>2. QED BY <2>1, <2>3, <3>1 DEF HashMapNew
    <2>4. QED BY <2>2, <2>3
  <1>2. table' = EmptyTable(capacity') BY DEF HashMapNew
  <1>3. table' \in [0 .. (capacity' - 1) -> Buckets] /\ UsedIn(table', capacity') = {}
    BY <1>1, <1>2, EmptyTableFacts
  <1>4. capacity = 0 /\ pc = "none" /\ pc' = "idle" BY DEF HashMapNew, MapInv, Phases
  <1>5. Types' BY <1>1, <1>3, <1>4 DEF HashMapNew, callVars, growVars, MapInv, Types, Slots, PCs
  <1>6. Phases' BY <1>1, <1>4 DEF HashMapNew, callVars, growVars, MapInv, Phases, IsEmpty
  <1>7. Filled = {} BY <1>4 DEF Filled, UsedIn, MapInv, Types
  <1>8. size = 0 BY <1>7, FS_EmptySet DEF MapInv, Exact
  <1>9. Filled' = {} BY <1>3 DEF Filled
  <1>10. Exact' BY <1>8, <1>9, FS_EmptySet DEF Exact, HashMapNew
  <1>11. Loops' BY <1>4 DEF Loops
  <1>12. QED BY <1>5, <1>6, <1>10, <1>11 DEF MapInv

\* hashmap_free.
LEMMA InvFree == MapInv /\ HashMapFree => MapInv'
  <1> SUFFICES ASSUME MapInv, HashMapFree PROVE MapInv'
    OBVIOUS
  <1>1. /\ EmptyTable(0) \in [0 .. (0 - 1) -> Buckets] /\ UsedIn(EmptyTable(0), 0) = {}
    BY EmptyTableFacts
  <1>2. pc = "idle" /\ pc' = "none" /\ capacity' = 0 /\ size' = 0 /\ table' = EmptyTable(0)
    BY DEF HashMapFree
  <1>3. index' = 0 BY DEF HashMapFree, callVars, MapInv, Phases
  <1>4. Types' BY <1>1, <1>2, <1>3 DEF HashMapFree, callVars, growVars, MapInv, Types, Slots, PCs
  <1>5. Phases' BY <1>2 DEF HashMapFree, callVars, growVars, MapInv, Phases, IsEmpty
  <1>6. Filled' = {} BY <1>1, <1>2 DEF Filled
  <1>7. Exact' BY <1>2, <1>6, FS_EmptySet DEF Exact
  <1>8. Loops' BY <1>2 DEF Loops
  <1>9. QED BY <1>4, <1>5, <1>7, <1>8 DEF MapInv

\* hashmap_get, hashmap_remove and hashmap_update begin at the home of the key.
LEMMA InvBegin ==
    ASSUME MapInv, NEW k \in Keys, NEW v,
           HashMapGet(k) \/ HashMapRemove(k) \/ (v \in Values /\ HashMapUpdate(k, v))
    PROVE  MapInv'
  <1>1. PICK loop \in {"get", "remove", "update"}, w \in Values \cup {Null} :
            Begin(loop, k, w) /\ UNCHANGED <<mapVars, entry, again, growVars, out, seen>>
            /\ (loop = "update" => w \in Values)
    BY DEF HashMapGet, HashMapRemove, HashMapUpdate
  <1>2. pc = "idle" /\ capacity > 1 BY <1>1 DEF Begin, MapInv, Phases
  <1>3. Home(k) = HomeIn(capacity, k) /\ Home(k) \in Slots BY <1>2, StateFacts
  <1>4. Types'
    <2>1. index' \in 0 .. capacity' /\ pc' \in PCs /\ probe' \in Nat
      BY <1>1, <1>3 DEF Begin, mapVars, Slots, PCs, MapInv, Types
    <2>2. QED BY <1>1, <2>1 DEF Begin, mapVars, growVars, MapInv, Types, Slots
  <1>5. Phases'
    BY <1>1, <1>2, <1>3 DEF Begin, mapVars, growVars, MapInv, Phases, Slots, IsEmpty
  <1>6. CASE loop # "update"
    <2>1. pc' \in {"get", "remove"} /\ UNCHANGED mapVars BY <1>1, <1>6 DEF Begin
    <2>2. QED BY <1>2, <1>4, <1>5, <2>1, InvQuiet
  <1>7. CASE loop = "update"
    <2>1. UNCHANGED <<table, capacity, size, hash>> /\ pc' = "update" BY <1>1, <1>7 DEF mapVars, Begin
    <2>2. Filled' = Filled BY <1>2, <2>1 DEF Filled, Hole, UsedIn, IsEmpty
    <2>3. Exact' BY <2>1, <2>2 DEF MapInv, Exact, Far, HomeIn
    <2>4. PICK h : h = HomeIn(capacity, k) OBVIOUS
    <2>5. h \in Slots /\ HomeIn(capacity, k)' = h /\ Slots' = Slots
      BY <1>3, <2>1, <2>4 DEF HomeIn, Slots
    <2>6. /\ key' = k /\ probe' = 0 /\ index' = h /\ capacity' = capacity /\ capacity \in Nat
          /\ h \in Nat /\ \A j \in Slots : Far(capacity, j, h) \in Nat
      BY <1>1, <1>2, <1>3, <2>1, <2>4, <2>5, StateFacts DEF Begin, Slots
    <2>7. Loops'
      <3>1. Far(capacity, index, h)' = 0 BY <2>6 DEF Far
      <3>2. HomeIn(capacity, key)' = h BY <2>5, <2>6 DEF HomeIn
      <3>3. \A j \in Slots' : ~(Far(capacity, j, HomeIn(capacity, key))' < probe')
        <4>1. ASSUME NEW j \in Slots PROVE ~(Far(capacity, j, h) < 0) BY <2>6
        <4>2. ASSUME NEW j \in Slots PROVE Far(capacity, j, HomeIn(capacity, key))' = Far(capacity, j, h)
          BY <2>6, <3>2 DEF Far
        <4>3. QED BY <2>5, <2>6, <4>1, <4>2
      <3>4. Passed(key, probe)' BY <3>3 DEF Passed
      <3>5. QED BY <2>1, <2>6, <3>1, <3>2, <3>4 DEF Loops
    <2>8. QED BY <1>4, <1>5, <2>3, <2>7 DEF MapInv
  <1>8. QED BY <1>6, <1>7

\* A loop of calls of hashmap_iterate begins.
LEMMA InvIterateBegin == MapInv /\ HashMapIterate => MapInv'
  <1> SUFFICES ASSUME MapInv, HashMapIterate PROVE MapInv'
    OBVIOUS
  <1> USE DEF HashMapIterate, mapVars, callVars, growVars
  <1>1. Types' BY DEF MapInv, Types, Slots, PCs
  <1>2. Phases' BY DEF MapInv, Phases, Slots, IsEmpty
  <1>3. QED BY <1>1, <1>2, InvQuiet

\* hashmap_grow begins with an empty table, which is larger than the old one.
LEMMA GrowBegins ==
    ASSUME MapInv, capacity > 1, NEW t \in [Slots -> Buckets], HashMapGrow(t), IsEmpty(moved),
           UNCHANGED <<hash, probe, out, seen>>, key' \in Keys, value' \in Values \cup {Null},
           index' \in 0 .. capacity, entry' \in Buckets, entry'.key \in Keys, again' \in BOOLEAN
    PROVE  MapInv'
  <1>1. capacity \in Nat \ {0} BY DEF MapInv, Types
  <1>2. capacity' \in (capacity + 1) .. (2 * capacity) BY <1>1, NewCapacityFacts DEF HashMapGrow
  <1>3. table' \in [Slots' -> Buckets] /\ UsedIn(table', capacity') = {}
    <2>1. capacity' \in Nat BY <1>1, <1>2
    <2>2. table' = EmptyTable(capacity') BY DEF HashMapGrow
    <2>3. QED BY <2>1, <2>2, EmptyTableFacts DEF Slots
  <1>4. DOMAIN old' = UsedIn(t, capacity) /\ \A i \in DOMAIN old' : old'[i] = t[i] /\ i \in Slots
    BY DEF HashMapGrow, InUse, UsedIn, Slots
  <1>5. /\ IsFiniteSet(DOMAIN old') /\ Cardinality(DOMAIN old') \in Nat
        /\ Cardinality(DOMAIN old') <= capacity
    BY <1>1, <1>4, UsedCount
  <1>6. old' \in [DOMAIN old' -> Buckets]
    <2>1. old' = [i \in DOMAIN old' |-> old'[i]] BY DEF HashMapGrow, InUse
    <2>2. QED BY <1>4, <2>1
  <1>7. \A i \in DOMAIN old' : old'[i].key \in Keys
    BY <1>4, BucketFacts DEF UsedIn, Slots
  <1>8. pc' = "grow" /\ size' = 0 /\ moved' = moved BY DEF HashMapGrow
  <1>9. Types'
    <2>1. pc' \in PCs /\ capacity' \in Nat /\ size' \in Nat /\ index' \in 0 .. capacity'
      BY <1>1, <1>2, <1>8 DEF PCs
    <2>2. QED BY <1>3, <1>5, <1>6, <1>8, <2>1, Zenon DEF MapInv, Types
  <1>10. Phases' BY <1>1, <1>2, <1>7, <1>8 DEF Phases, IsEmpty
  <1>11. Filled' = {} BY <1>3 DEF Filled
  <1>12. Exact' BY <1>8, <1>11, FS_EmptySet DEF Exact
  <1>13. Loops' BY <1>1, <1>2, <1>5, <1>8 DEF Loops, IsEmpty
  <1>14. QED BY <1>9, <1>10, <1>12, <1>13 DEF MapInv

\* An insertion begins at the home of its key.
LEMMA InsertBegins ==
    ASSUME MapInv, capacity > 1, pc # "shift", IsEmpty(moved), DOMAIN old = {},
           pc' = "insert", UNCHANGED <<capacity, table, size, growVars>>,
           UNCHANGED <<hash, value, probe, again, out, seen>>, key' \in Keys,
           entry' \in Buckets, entry'.key \in Keys, entry'.probe_length = 0,
           index' = Home(entry'.key)
    PROVE  MapInv'
  <1>1. index' = HomeIn(capacity, entry'.key) /\ index' \in Slots BY StateFacts
  <1>2. Types'
    <2>1. index' \in 0 .. capacity' /\ pc' \in PCs BY <1>1 DEF Slots, PCs, MapInv, Types
    <2>2. QED BY <2>1 DEF growVars, MapInv, Types, Slots
  <1>3. Phases' BY <1>1 DEF growVars, MapInv, Phases, Slots, IsEmpty
  <1>4. Filled' = Filled BY DEF Filled, Hole, UsedIn, IsEmpty
  <1>5. Exact' BY <1>4 DEF MapInv, Exact, Far, HomeIn
  <1>6. MaxProbes(capacity)' = MaxProbes(capacity) /\ MaxProbes(capacity) \in 1 .. (capacity - 1)
    BY StateFacts
  <1>7. HomeIn(capacity, entry.key)' = HomeIn(capacity, entry'.key) /\ index' \in Nat
    BY <1>1 DEF HomeIn, Slots, MapInv, Types
  <1>8. Loops' BY <1>1, <1>6, <1>7 DEF Loops, AtIndex, Far, MapInv, Types
  <1>9. QED BY <1>2, <1>3, <1>5, <1>8 DEF MapInv

\* hashmap_insert begins, or grows the map first.
LEMMA InvInsert ==
    ASSUME MapInv, NEW k \in Keys, NEW v \in Values, HashMapInsert(k, v)
    PROVE  MapInv'
  <1>1. /\ pc = "idle" /\ capacity > 1 /\ IsEmpty(moved) /\ DOMAIN old = {} /\ key' = k
        /\ entry' = Bucket(k, v, 0) /\ UNCHANGED <<hash, value, probe, again, out, seen>>
    BY DEF HashMapInsert, MapInv, Phases
  <1>2. entry' \in Buckets /\ entry'.key = k /\ entry'.probe_length = 0 BY <1>1, NewBucketFacts
  <1>3. /\ table \in [Slots -> Buckets] /\ value \in Values \cup {Null} /\ again \in BOOLEAN
        /\ index \in 0 .. capacity
    BY DEF MapInv, Types
  <1>4. CASE Loaded
    <2>1. HashMapGrow(table) /\ index' = index BY <1>4 DEF HashMapInsert
    <2>2. QED BY <1>1, <1>2, <1>3, <2>1, GrowBegins
  <1>5. CASE ~Loaded
    <2>1. pc' = "insert" /\ index' = Home(k) /\ UNCHANGED <<capacity, table, size, growVars>>
      BY <1>5 DEF HashMapInsert
    <2>2. QED BY <1>1, <1>2, <2>1, InsertBegins
  <1>6. QED BY <1>4, <1>5

\* hashmap_grow returns to the insertion.
LEMMA InvGrowReturn == MapInv /\ GrowReturn => MapInv'
  <1> SUFFICES ASSUME MapInv, GrowReturn PROVE MapInv'
    OBVIOUS
  <1>1. /\ pc = "grow" /\ capacity > 1 /\ IsEmpty(moved) /\ DOMAIN old = {} /\ key' = entry.key
        /\ entry' = [entry EXCEPT !.probe_length = 0]
        /\ UNCHANGED <<hash, value, probe, again, out, seen>> /\ entry.key \in Keys
    BY DEF GrowReturn, MapInv, Phases
  <1>2. entry' \in Buckets /\ entry'.key = entry.key /\ entry'.probe_length = 0
    BY <1>1, BucketFacts DEF MapInv, Types
  <1>3. /\ table \in [Slots -> Buckets] /\ value \in Values \cup {Null} /\ again \in BOOLEAN
        /\ index \in 0 .. capacity
    BY DEF MapInv, Types
  <1>4. CASE again /\ Loaded
    <2>1. HashMapGrow(table) /\ index' = index BY <1>4 DEF GrowReturn
    <2>2. QED BY <1>1, <1>2, <1>3, <2>1, GrowBegins
  <1>5. CASE ~(again /\ Loaded)
    <2>1. /\ pc' = "insert" /\ index' = Home(entry.key)
          /\ UNCHANGED <<capacity, table, size, growVars>>
      BY <1>5 DEF GrowReturn
    <2>2. QED BY <1>1, <1>2, <2>1, InsertBegins
  <1>6. QED BY <1>4, <1>5

\* A step that changes neither the capacity nor the hashes.
LEMMA SameCircle ==
    ASSUME UNCHANGED <<capacity, hash>>
    PROVE  /\ Slots' = Slots /\ MaxProbes(capacity)' = MaxProbes(capacity)
           /\ \A k : HomeIn(capacity, k)' = HomeIn(capacity, k)
           /\ \A i, h : Far(capacity, i, h)' = Far(capacity, i, h)
  BY DEF Slots, HomeIn, Far

\* Distances on the circle.
LEMMA SlotFacts ==
    ASSUME MapInv, capacity > 1
    PROVE  /\ \A i \in Slots : Up(capacity, i) \in Slots /\ Far(capacity, i, i) = 0
           /\ \A i, h \in Slots :
                /\ Far(capacity, i, h) \in 0 .. (capacity - 1)
                /\ Far(capacity, i, h) < capacity - 1 =>
                      Far(capacity, Up(capacity, i), h) = Far(capacity, i, h) + 1
           /\ \A i, j, h \in Slots : Far(capacity, i, h) = Far(capacity, j, h) => i = j
           /\ \A i, j, g, h \in Slots :
                Far(capacity, j, g) <= Far(capacity, i, g) /\ Far(capacity, i, g) <= Far(capacity, i, h)
                    => Far(capacity, j, h) <= Far(capacity, i, h)
  <1>1. capacity \in Nat \ {0} /\ Slots = 0 .. (capacity - 1) BY StateFacts
  <1>2. QED BY <1>1, SMT DEF Far, Up

\* If all slots from the home of k to the one before it are in use, and that
\* one too, the table is full.
LEMMA FullCircle ==
    ASSUME MapInv, capacity > 1, pc # "shift", NEW k \in Keys, NEW i \in Slots,
           Far(capacity, i, HomeIn(capacity, k)) = capacity - 1,
           Passed(k, capacity - 1), ~IsEmpty(table[i])
    PROVE  size = capacity
  <1>1. capacity \in Nat \ {0} /\ Slots = 0 .. (capacity - 1) /\ HomeIn(capacity, k) \in Slots
    BY StateFacts
  <1>2. ASSUME NEW j \in Slots PROVE ~IsEmpty(table[j])
    <2>1. CASE j = i BY <2>1
    <2>2. CASE j # i
      <3>1. PICK h \in Slots : h = HomeIn(capacity, k) BY <1>1
      <3>2. Far(capacity, j, h) \in 0 .. (capacity - 1) /\ Far(capacity, j, h) # Far(capacity, i, h)
        BY <2>2, SlotFacts
      <3>3. Far(capacity, j, HomeIn(capacity, k)) < capacity - 1
        BY <1>1, <3>1, <3>2
      <3>4. QED BY <3>3 DEF Passed
    <2>3. QED BY <2>1, <2>2
  <1>3. Filled = 0 .. (capacity - 1) BY <1>1, <1>2 DEF Filled, Hole, UsedIn
  <1>4. QED BY <1>1, <1>3, FS_Interval DEF MapInv, Exact

\* A bucket that was in hand at slot i is put into it.
LEMMA ExactPut ==
    ASSUME MapInv, capacity > 1, pc # "shift", pc' # "shift", NEW i \in Slots,
           UNCHANGED <<capacity, hash>>, NEW b \in Buckets, b.key \in Keys,
           b.probe_length = Far(capacity, i, HomeIn(capacity, b.key)),
           table' = [table EXCEPT ![i] = b],
           size' = IF IsEmpty(table[i]) THEN size + 1 ELSE size
    PROVE  /\ Exact' /\ table' \in [Slots' -> Buckets] /\ size' \in Nat
           /\ table'[i] = b /\ \A j \in Slots : j # i => table'[j] = table[j]
  <1>1. capacity \in Nat /\ Slots = 0 .. (capacity - 1) /\ Slots' = Slots
    BY StateFacts, SameCircle
  <1>2. ~IsEmpty(b) BY BucketFacts
  <1>3. table \in [Slots -> Buckets] /\ size \in Nat BY DEF MapInv, Types
  <1>4. /\ table' \in [Slots -> Buckets] /\ table'[i] = b
        /\ \A j \in Slots : j # i => table'[j] = table[j]
        /\ UsedIn(table', capacity) = UsedIn(table, capacity) \cup {i}
    <2>1. table \in [0 .. (capacity - 1) -> Buckets] /\ i \in 0 .. (capacity - 1) BY <1>1, <1>3
    <2>2. /\ table' \in [0 .. (capacity - 1) -> Buckets] /\ table'[i] = b
          /\ \A j \in 0 .. (capacity - 1) : j # i => table'[j] = table[j]
          /\ UsedIn(table', capacity) =
                IF IsEmpty(b) THEN UsedIn(table, capacity) \ {i} ELSE UsedIn(table, capacity) \cup {i}
      BY <1>1, <2>1, PutFacts
    <2>3. QED BY <1>1, <1>2, <2>2, Zenon
  <1>5. Filled = UsedIn(table, capacity) BY DEF Filled, Hole
  <1>6. Filled' = Filled \cup {i}
    <2>1. Filled' = UsedIn(table', capacity') BY DEF Filled, Hole
    <2>2. QED BY <1>4, <1>5, <2>1
  <1>7. i \in Filled <=> ~IsEmpty(table[i]) BY <1>1, <1>5 DEF UsedIn
  <1>8. IsFiniteSet(Filled) /\ Cardinality(Filled) \in Nat BY <1>1, <1>5, UsedCount
  <1>9. Cardinality(Filled') = IF i \in Filled THEN Cardinality(Filled) ELSE Cardinality(Filled) + 1
    BY <1>6, <1>8, FS_AddElement
  <1>10. size' = Cardinality(Filled') BY <1>7, <1>9 DEF MapInv, Exact
  <1>11. ASSUME NEW j \in Filled'
         PROVE  table'[j].probe_length = Far(capacity, j, HomeIn(capacity, table'[j].key))
    <2>1. CASE j = i BY <1>4, <2>1
    <2>2. CASE j # i
      <3>1. j \in Filled /\ j \in Slots BY <1>1, <1>5, <1>6, <2>2 DEF UsedIn
      <3>2. QED BY <1>4, <2>2, <3>1 DEF MapInv, Exact
    <2>3. QED BY <2>1, <2>2
  <1>12. \A j \in Filled' :
            table'[j].probe_length = Far(capacity', j, HomeIn(capacity, table[j].key)')
    <2>1. \A k : HomeIn(capacity, k)' = HomeIn(capacity, k) BY SameCircle
    <2>2. \A j : HomeIn(capacity, table[j].key)' = HomeIn(capacity, table'[j].key)
      BY DEF HomeIn
    <2>3. QED BY <1>11, <2>2
  <1>13. Exact' BY <1>10, <1>12 DEF Exact, Far
  <1>14. QED BY <1>1, <1>3, <1>4, <1>13

\* The loop of hashmap_grow takes the next bucket.
LEMMA InvGrowNext == MapInv /\ GrowNext => MapInv'
  <1> SUFFICES ASSUME MapInv, GrowNext PROVE MapInv'
    OBVIOUS
  <1>1. /\ pc = "grow" /\ pc' = "grow" /\ IsEmpty(moved) /\ capacity > 1
        /\ UNCHANGED <<mapVars, key, value, probe, entry, again, out, seen>>
        /\ UNCHANGED <<capacity, size, table, hash>>
    BY DEF GrowNext, mapVars, MapInv, Phases
  <1>2. PICK i \in DOMAIN old : /\ moved' = [old[i] EXCEPT !.probe_length = 0]
                                /\ old' = [j \in DOMAIN old \ {i} |-> old[j]]
    BY DEF GrowNext
  <1>3. /\ old \in [DOMAIN old -> Buckets] /\ IsFiniteSet(DOMAIN old) /\ old[i].key \in Keys
        /\ old[i] \in Buckets
    BY DEF MapInv, Types, Phases
  <1>4. moved' \in Buckets /\ moved'.key \in Keys /\ moved'.probe_length = 0 /\ ~IsEmpty(moved')
    <2>1. moved' \in Buckets /\ moved'.key = old[i].key /\ moved'.probe_length = 0
      BY <1>2, <1>3, BucketFacts
    <2>2. QED BY <1>3, <2>1, BucketFacts
  <1>5. /\ old' \in [DOMAIN old' -> Buckets] /\ DOMAIN old' = DOMAIN old \ {i}
        /\ IsFiniteSet(DOMAIN old') /\ Cardinality(DOMAIN old') = Cardinality(DOMAIN old) - 1
        /\ \A j \in DOMAIN old' : old'[j] = old[j]
    BY <1>2, <1>3, FS_RemoveElement
  <1>6. index' = HomeIn(capacity, moved'.key) /\ index' \in Slots
    BY <1>1, <1>4, StateFacts DEF GrowNext
  <1>7. Types'
    <2>1. index' \in 0 .. capacity' BY <1>1, <1>6 DEF Slots, MapInv, Types
    <2>2. Slots' = Slots BY <1>1 DEF Slots
    <2>3. QED BY <1>1, <1>4, <1>5, <2>1, <2>2, Zenon DEF MapInv, Types
  <1>8. Phases' BY <1>1, <1>4, <1>5, <1>6 DEF MapInv, Phases, Slots, IsEmpty
  <1>9. Exact'
    <2>1. Filled' = Filled BY <1>1 DEF Filled, Hole, UsedIn, IsEmpty
    <2>2. QED BY <1>1, <2>1 DEF MapInv, Exact, Far, HomeIn
  <1>10. Loops'
    <2>1. PICK h \in Slots : h = HomeIn(capacity, moved'.key) BY <1>6
    <2>2. HomeIn(capacity, moved.key)' = h /\ Slots' = Slots /\ index' = h
      BY <1>1, <1>6, <2>1 DEF HomeIn, Slots
    <2>3. /\ capacity' = capacity /\ \A j \in Slots : Far(capacity, j, h) \in 0 .. (capacity - 1)
          /\ Far(capacity, h, h) = 0
      BY <1>1, StateFacts, SlotFacts
    <2>4. AtIndex(moved)' BY <1>4, <2>2, <2>3 DEF AtIndex, Far
    <2>5. \A j \in Slots : ~(Far(capacity, j, h) < 0) BY <2>3
    <2>6. Passed(moved.key, moved.probe_length)' BY <1>4, <2>2, <2>3, <2>5 DEF Passed, Far
    <2>7. size + Cardinality(DOMAIN old) < capacity /\ Cardinality(DOMAIN old) \in Nat
      <3>1. size + Cardinality(DOMAIN old) + 0 < capacity BY <1>1 DEF MapInv, Loops
      <3>2. Cardinality(DOMAIN old) \in Nat BY <1>3, FS_CardinalityType
      <3>3. QED BY <3>1, <3>2 DEF MapInv, Types
    <2>8. size' + Cardinality(DOMAIN old') + 1 < capacity'
      BY <1>1, <1>5, <2>7 DEF MapInv, Types
    <2>9. QED BY <1>1, <1>4, <2>4, <2>6, <2>8 DEF Loops
  <1>11. QED BY <1>7, <1>8, <1>9, <1>10 DEF MapInv

\* The path from the home of the bucket in hand is in use, and the path from
\* the home of a bucket that gives way to it is a part of that path.
LEMMA PassedOn ==
    ASSUME MapInv, capacity > 1, NEW m \in Keys, NEW n \in Nat, index \in Slots,
           n = Far(capacity, index, HomeIn(capacity, m)), Passed(m, n),
           ~IsEmpty(table[index]), NEW k \in Keys, NEW d \in Nat,
           d = Far(capacity, index, HomeIn(capacity, k)), d <= n
    PROVE  Passed(k, d + 1)
  <1>1. PICK g \in Slots, h \in Slots : g = HomeIn(capacity, k) /\ h = HomeIn(capacity, m)
    BY StateFacts
  <1>2. ASSUME NEW j \in Slots, Far(capacity, j, g) < d + 1
        PROVE  ~IsEmpty(table[j])
    <2>1. /\ Far(capacity, j, g) \in Nat /\ Far(capacity, j, h) \in Nat
          /\ Far(capacity, index, g) = d /\ Far(capacity, index, h) = n
      BY <1>1, SlotFacts
    <2>2. Far(capacity, j, h) <= n
      BY <1>2, <2>1, SlotFacts
    <2>3. CASE Far(capacity, j, h) = n
      <3>1. j = index BY <2>1, <2>3, SlotFacts
      <3>2. QED BY <3>1
    <2>4. CASE Far(capacity, j, h) < n BY <1>1, <2>4 DEF Passed
    <2>5. QED BY <2>1, <2>2, <2>3, <2>4
  <1>3. QED BY <1>1, <1>2 DEF Passed

\* One turn of hashmap_move_entry.
LEMMA InvMoveEntry == MapInv /\ MoveEntry => MapInv'
  <1> SUFFICES ASSUME MapInv, MoveEntry PROVE MapInv'
    OBVIOUS
  <1>1. /\ pc = "grow" /\ pc' = "grow" /\ ~IsEmpty(moved) /\ capacity > 1 /\ index \in Slots
        /\ UNCHANGED <<capacity, hash, pc, key, value, probe, entry, again, old, out, seen>>
    BY DEF MoveEntry, MapInv, Phases
  <1>2. PICK b : b = table[index] OBVIOUS
  <1>3. b \in Buckets /\ moved \in Buckets /\ moved.key \in Keys
    BY <1>1, <1>2, BucketFacts DEF MapInv, Types
  <1>4. PICK n \in Nat : n = moved.probe_length /\ n = Far(capacity, index, HomeIn(capacity, moved.key))
    BY <1>1, <1>3, BucketFacts DEF MapInv, Loops, AtIndex
  <1>5. /\ size \in Nat /\ capacity \in Nat /\ Cardinality(DOMAIN old) \in Nat
        /\ size + Cardinality(DOMAIN old) + 1 < capacity /\ Passed(moved.key, n)
    BY <1>1, <1>4, FS_CardinalityType DEF MapInv, Types, Loops
  <1>6. Slots' = Slots /\ \A i : NextSlot(i)' = NextSlot(i) BY <1>1 DEF Slots, NextSlot
  <1>7. CASE IsEmpty(b)
    <2>1. /\ table' = [table EXCEPT ![index] = moved] /\ moved' = Empty /\ size' = size + 1
          /\ index' = index
      BY <1>2, <1>7 DEF MoveEntry
    <2>2. Exact' /\ table' \in [Slots' -> Buckets] /\ size' \in Nat
      BY <1>1, <1>2, <1>3, <1>4, <1>7, <2>1, ExactPut
    <2>3. moved' \in Buckets /\ IsEmpty(moved') BY <2>1, NewBucketFacts
    <2>4. Types'
      <3>1. index' \in 0 .. capacity' BY <1>1, <2>1 DEF MapInv, Types
      <3>2. QED BY <1>1, <2>2, <2>3, <3>1, Zenon DEF MapInv, Types
    <2>5. Phases' BY <1>1, <2>3 DEF MapInv, Phases, Slots, IsEmpty
    <2>6. Loops' BY <1>1, <1>5, <2>1, <2>3 DEF Loops
    <2>7. QED BY <2>2, <2>4, <2>5, <2>6 DEF MapInv
  <1>8. CASE ~IsEmpty(b)
    <2>1. b.key \in Keys /\ b.probe_length \in Nat BY <1>3, <1>8, BucketFacts
    <2>2. b.probe_length = Far(capacity, index, HomeIn(capacity, b.key))
      <3>1. index \in Filled BY <1>1, <1>2, <1>8 DEF Filled, Hole, UsedIn, Slots
      <3>2. QED BY <1>2, <3>1 DEF MapInv, Exact
    <2>3. n < capacity - 1
      <3>1. n \in 0 .. (capacity - 1) BY <1>1, <1>3, <1>4, StateFacts
      <3>2. SUFFICES ASSUME n = capacity - 1 PROVE FALSE BY <1>5, <3>1
      <3>3. size = capacity BY <1>1, <1>2, <1>3, <1>4, <1>5, <1>8, <3>2, FullCircle
      <3>4. QED BY <1>5, <3>3
    <2>4. PICK w \in {b, moved}, p \in {b, moved} :
             /\ moved' = [w EXCEPT !.probe_length = @ + 1]
             /\ w.probe_length <= n
             /\ table' = [table EXCEPT ![index] = p]
      <3>1. CASE n > b.probe_length
        <4>1. /\ table' = [table EXCEPT ![index] = moved]
              /\ moved' = [b EXCEPT !.probe_length = @ + 1]
          BY <1>2, <1>4, <1>8, <3>1 DEF MoveEntry
        <4>2. b.probe_length <= n BY <1>4, <2>1, <3>1
        <4>3. QED BY <4>1, <4>2
      <3>2. CASE ~(n > b.probe_length)
        <4>1. table' = table /\ moved' = [moved EXCEPT !.probe_length = @ + 1]
          BY <1>2, <1>4, <1>8, <3>2 DEF MoveEntry
        <4>2. table = [table EXCEPT ![index] = b] BY <1>1, <1>2 DEF MapInv, Types
        <4>3. table' = [table EXCEPT ![index] = b] BY <4>1, <4>2
        <4>4. moved.probe_length <= n BY <1>4
        <4>5. QED BY <4>1, <4>3, <4>4
      <3>3. QED BY <3>1, <3>2
    <2>5. /\ size' = size /\ index' = Up(capacity, index) /\ index' \in Slots
      BY <1>1, <1>2, <1>8, StateFacts DEF MoveEntry
    <2>6. /\ p \in Buckets /\ p.key \in Keys
          /\ p.probe_length = Far(capacity, index, HomeIn(capacity, p.key))
      BY <1>3, <1>4, <2>1, <2>2
    <2>7. /\ Exact' /\ table' \in [Slots' -> Buckets] /\ table'[index] = p
          /\ \A j \in Slots : j # index => table'[j] = table[j]
      BY <1>1, <1>2, <1>8, <2>4, <2>5, <2>6, ExactPut
    <2>8. /\ w \in Buckets /\ w.key \in Keys /\ w.probe_length \in Nat
          /\ w.probe_length = Far(capacity, index, HomeIn(capacity, w.key))
      BY <1>3, <1>4, <2>1, <2>2
    <2>9. /\ moved' \in Buckets /\ moved'.key = w.key /\ moved'.probe_length = w.probe_length + 1
          /\ ~IsEmpty(moved')
      <3>1. PICK d \in Nat : d = w.probe_length + 1 BY <2>8
      <3>2. moved' = [w EXCEPT !.probe_length = d] BY <2>4, <3>1
      <3>3. moved' \in Buckets /\ moved'.key = w.key /\ moved'.probe_length = d
        BY <2>8, <3>2, BucketFacts
      <3>4. QED BY <2>8, <3>1, <3>3, BucketFacts
    <2>10. Types'
      <3>1. index' \in 0 .. capacity' BY <1>1, <1>5, <2>5 DEF Slots
      <3>2. QED BY <1>1, <2>5, <2>7, <2>9, <3>1, Zenon DEF MapInv, Types
    <2>11. Phases' BY <1>1, <1>6, <2>5, <2>9 DEF MapInv, Phases
    <2>12. Loops'
      <3>1. Passed(w.key, w.probe_length + 1)
        BY <1>1, <1>2, <1>3, <1>4, <1>5, <1>8, <2>4, <2>8, PassedOn
      <3>2. \A j \in Slots : ~IsEmpty(table[j]) => ~IsEmpty(table'[j])
        BY <2>6, <2>7, BucketFacts
      <3>3. \A k : HomeIn(capacity, k)' = HomeIn(capacity, k) BY <1>1, SameCircle
      <3>4. HomeIn(capacity, moved.key)' = HomeIn(capacity, w.key) BY <2>9, <1>1 DEF HomeIn
      <3>5. Passed(moved.key, moved.probe_length)'
        BY <1>1, <1>6, <2>9, <3>1, <3>2, <3>4 DEF Passed, Far
      <3>6. PICK h \in Slots : h = HomeIn(capacity, w.key) BY <1>1, <2>8, StateFacts
      <3>7. Far(capacity, index', h) = w.probe_length + 1
        BY <1>1, <1>5, <2>3, <2>4, <2>5, <2>8, <3>6, SlotFacts
      <3>8. AtIndex(moved)' BY <1>1, <2>9, <3>4, <3>6, <3>7 DEF AtIndex, Far
      <3>9. QED BY <1>1, <1>5, <2>5, <2>9, <3>5, <3>8 DEF Loops
    <2>13. QED BY <2>7, <2>10, <2>11, <2>12 DEF MapInv
  <1>9. QED BY <1>7, <1>8

\* One turn of the loop of an insertion, which may lead to hashmap_grow.
LEMMA InvInsertStep == MapInv /\ InsertStep => MapInv'
  <1> SUFFICES ASSUME MapInv, InsertStep PROVE MapInv'
    OBVIOUS
  <1>1. /\ pc = "insert" /\ capacity > 1 /\ index \in Slots /\ key \in Keys /\ IsEmpty(moved)
        /\ DOMAIN old = {} /\ UNCHANGED <<hash, key, value, probe, out, seen>>
    BY DEF InsertStep, MapInv, Phases
  <1>2. PICK b : b = table[index] OBVIOUS
  <1>3. b \in Buckets /\ entry \in Buckets /\ entry.key \in Keys /\ ~IsEmpty(b) /\ b.key \in Keys
    BY <1>1, <1>2, BucketFacts DEF MapInv, Types, Phases, InsertStep
  <1>4. /\ b.probe_length \in Nat /\ entry.probe_length \in Nat
        /\ b.probe_length = Far(capacity, index, HomeIn(capacity, b.key))
        /\ entry.probe_length = Far(capacity, index, HomeIn(capacity, entry.key))
    <2>1. index \in Filled BY <1>1, <1>2, <1>3 DEF Filled, Hole, UsedIn, Slots
    <2>2. QED BY <1>1, <1>2, <1>3, <2>1, BucketFacts DEF MapInv, Exact, Loops, AtIndex
  <1>5. PICK w, p, t :
           /\ w \in {b, entry} /\ p \in {b, entry}
           /\ t = [table EXCEPT ![index] = p]
           /\ entry' = [w EXCEPT !.probe_length = @ + 1]
           /\ IF entry'.probe_length < MaxProbes(capacity)
              THEN table' = t /\ UNCHANGED <<capacity, size, pc, growVars, again>>
              ELSE HashMapGrow(t) /\ again' = TRUE
    <2>1. CASE entry.probe_length > b.probe_length
      <3>1. /\ entry' = [b EXCEPT !.probe_length = @ + 1]
            /\ IF entry'.probe_length < MaxProbes(capacity)
               THEN /\ table' = [table EXCEPT ![index] = entry]
                    /\ UNCHANGED <<capacity, size, pc, growVars, again>>
               ELSE HashMapGrow([table EXCEPT ![index] = entry]) /\ again' = TRUE
        BY <1>2, <2>1 DEF InsertStep
      <3>2. QED BY <3>1
    <2>2. CASE ~(entry.probe_length > b.probe_length)
      <3>1. table = [table EXCEPT ![index] = b] BY <1>1, <1>2 DEF MapInv, Types
      <3>2. /\ entry' = [entry EXCEPT !.probe_length = @ + 1]
            /\ IF entry'.probe_length < MaxProbes(capacity)
               THEN table' = table /\ UNCHANGED <<capacity, size, pc, growVars, again>>
               ELSE HashMapGrow(table) /\ again' = TRUE
        BY <1>2, <2>2 DEF InsertStep
      <3>3. QED BY <3>1, <3>2
    <2>3. QED BY <2>1, <2>2
  <1>6. index' = Up(capacity, index) /\ index' \in Slots BY <1>1, StateFacts DEF InsertStep
  <1>7. /\ w \in Buckets /\ w.key \in Keys /\ w.probe_length \in Nat
        /\ w.probe_length = Far(capacity, index, HomeIn(capacity, w.key))
        /\ p \in Buckets /\ p.key \in Keys
        /\ p.probe_length = Far(capacity, index, HomeIn(capacity, p.key))
    BY <1>3, <1>4, <1>5
  <1>8. entry' \in Buckets /\ entry'.key = w.key /\ entry'.probe_length = w.probe_length + 1
    <2>1. PICK d \in Nat : d = w.probe_length + 1 BY <1>7
    <2>2. entry' = [w EXCEPT !.probe_length = d] BY <1>5, <2>1
    <2>3. QED BY <1>7, <2>1, <2>2, BucketFacts
  <1>9. t \in [Slots -> Buckets] BY <1>5, <1>7 DEF MapInv, Types
  <1>10. CASE entry'.probe_length < MaxProbes(capacity)
    <2>1. table' = t /\ UNCHANGED <<capacity, size, pc, growVars, again>> BY <1>5, <1>10
    <2>2. Exact' /\ table' \in [Slots' -> Buckets]
      BY <1>1, <1>2, <1>3, <1>5, <1>7, <2>1, ExactPut
    <2>3. Slots' = Slots BY <2>1 DEF Slots
    <2>4. capacity \in Nat /\ Slots = 0 .. (capacity - 1) /\ MaxProbes(capacity) \in 1 .. (capacity - 1)
      BY <1>1, StateFacts
    <2>5. Types'
      <3>1. index' \in 0 .. capacity' BY <1>6, <2>1, <2>4
      <3>2. QED BY <1>1, <1>8, <2>1, <2>2, <3>1, Zenon DEF MapInv, Types, growVars
    <2>6. Phases' BY <1>1, <1>6, <1>7, <1>8, <2>1, <2>3 DEF MapInv, Phases, growVars, IsEmpty
    <2>7. Loops'
      <3>1. PICK h \in Slots : h = HomeIn(capacity, w.key) BY <1>1, <1>7, StateFacts
      <3>2. w.probe_length < capacity - 1 BY <1>7, <1>8, <1>10, <2>4
      <3>3. Far(capacity, index', h) = entry'.probe_length
        BY <1>1, <1>6, <1>7, <1>8, <2>4, <3>1, <3>2, SlotFacts
      <3>4. HomeIn(capacity, entry.key)' = h BY <1>1, <1>8, <2>1, <3>1 DEF HomeIn
      <3>5. MaxProbes(capacity)' = MaxProbes(capacity) BY <2>1
      <3>6. AtIndex(entry)' BY <2>1, <3>3, <3>4 DEF AtIndex, Far
      <3>7. QED BY <1>1, <1>10, <2>1, <3>5, <3>6 DEF Loops
    <2>8. QED BY <2>2, <2>5, <2>6, <2>7 DEF MapInv
  <1>11. CASE ~(entry'.probe_length < MaxProbes(capacity))
    <2>1. HashMapGrow(t) /\ again' = TRUE BY <1>5, <1>11
    <2>2. index' \in 0 .. capacity /\ value \in Values \cup {Null}
      BY <1>1, <1>6, StateFacts DEF MapInv, Types
    <2>3. QED BY <1>1, <1>7, <1>8, <1>9, <2>1, <2>2, GrowBegins
  <1>12. QED BY <1>10, <1>11

\* What a returning call leaves in its variables.
LEMMA ReturnTypes ==
    ASSUME Types, Return, UNCHANGED capacity
    PROVE  /\ index' \in 0 .. capacity' /\ pc' \in PCs /\ probe' \in Nat /\ again' \in BOOLEAN
           /\ key' \in Keys \cup {NoKey} /\ value' \in Values \cup {Null} /\ entry' \in Buckets
  <1>1. index' \in 0 .. capacity' /\ probe' \in Nat BY DEF Return, Types
  <1>2. pc' \in PCs /\ again' \in BOOLEAN BY DEF Return, PCs
  <1>3. key' \in Keys \cup {NoKey} /\ value' \in Values \cup {Null} BY DEF Return
  <1>4. entry' \in Buckets BY NewBucketFacts DEF Return
  <1>5. QED BY <1>1, <1>2, <1>3, <1>4

\* A call that writes bucket b into slot i, and returns.
LEMMA InvWrite ==
    ASSUME MapInv, capacity > 1, pc \in {"insert", "update"}, Return, UNCHANGED <<capacity, hash>>,
           UNCHANGED <<growVars, out, seen>>, NEW b \in Buckets, b.key \in Keys,
           index \in Slots, b.probe_length = Far(capacity, index, HomeIn(capacity, b.key)),
           table' = [table EXCEPT ![index] = b],
           size' = IF IsEmpty(table[index]) THEN size + 1 ELSE size
    PROVE  MapInv'
  <1>1. pc' = "idle" BY DEF Return
  <1>2. Exact' /\ table' \in [Slots' -> Buckets] /\ size' \in Nat BY <1>1, ExactPut
  <1>3. Types'
    <2>1. /\ index' \in 0 .. capacity' /\ pc' \in PCs /\ probe' \in Nat /\ again' \in BOOLEAN
          /\ key' \in Keys \cup {NoKey} /\ value' \in Values \cup {Null} /\ entry' \in Buckets
      BY ReturnTypes DEF MapInv
    <2>2. QED BY <1>2, <2>1, Zenon DEF MapInv, Types, growVars
  <1>4. Phases' BY <1>1 DEF Return, MapInv, Phases, growVars, IsEmpty
  <1>5. Loops' BY <1>1 DEF Loops
  <1>6. QED BY <1>2, <1>3, <1>4, <1>5 DEF MapInv

\* A call that has changed nothing returns.
LEMMA InvReturn ==
    ASSUME MapInv, pc \notin {"none", "shift", "grow"}, Return, UNCHANGED <<mapVars, growVars>>,
           out' \in Values \cup {Null}, seen' \in SUBSET Keys
    PROVE  MapInv'
  <1>1. Types'
    <2>1. /\ index' \in 0 .. capacity' /\ pc' \in PCs /\ probe' \in Nat /\ again' \in BOOLEAN
          /\ key' \in Keys \cup {NoKey} /\ value' \in Values \cup {Null} /\ entry' \in Buckets
      BY ReturnTypes DEF MapInv, mapVars
    <2>2. QED BY <2>1 DEF MapInv, Types, growVars, mapVars, Slots
  <1>2. Phases' BY DEF Return, MapInv, Phases, growVars, mapVars, IsEmpty
  <1>3. pc' = "idle" BY DEF Return
  <1>4. QED BY <1>1, <1>2, <1>3, InvQuiet

\* An insertion ends.
LEMMA InvInsertEnd == MapInv /\ InsertEnd => MapInv'
  <1> SUFFICES ASSUME MapInv, InsertEnd PROVE MapInv'
    OBVIOUS
  <1>1. /\ pc = "insert" /\ capacity > 1 /\ index \in Slots /\ Return /\ entry.key \in Keys
        /\ UNCHANGED <<capacity, hash, growVars, out, seen>> /\ entry \in Buckets /\ AtIndex(entry)
    BY DEF InsertEnd, MapInv, Phases, Types, Loops
  <1>2. CASE IsEmpty(table[index])
    <2>1. table' = [table EXCEPT ![index] = entry] /\ size' = size + 1 BY <1>2 DEF InsertEnd
    <2>2. QED BY <1>1, <1>2, <2>1, InvWrite DEF AtIndex
  <1>3. CASE ~IsEmpty(table[index])
    <2>1. UNCHANGED <<mapVars, growVars>> BY <1>1, <1>3 DEF InsertEnd, mapVars
    <2>2. out' \in Values \cup {Null} /\ seen' \in SUBSET Keys BY <1>1 DEF MapInv, Types
    <2>3. QED BY <1>1, <2>1, <2>2, InvReturn
  <1>4. QED BY <1>2, <1>3

\* One turn of the loop of hashmap_update.
LEMMA InvUpdateStep == MapInv /\ UpdateStep => MapInv'
  <1> SUFFICES ASSUME MapInv, UpdateStep PROVE MapInv'
    OBVIOUS
  <1>1. /\ pc = "update" /\ capacity > 1 /\ index \in Slots /\ key \in Keys /\ value \in Values
        /\ UNCHANGED <<capacity, hash, growVars, out, seen>> /\ probe <= capacity
        /\ Passed(key, probe) /\ probe \in Nat
        /\ (probe < capacity => probe = Far(capacity, index, HomeIn(capacity, key)))
    BY DEF UpdateStep, MapInv, Phases, Loops, Types
  <1>2. PICK b : b = table[index] OBVIOUS
  <1>3. PICK h \in Slots : h = HomeIn(capacity, key) BY <1>1, StateFacts
  <1>4. b \in Buckets /\ capacity \in Nat /\ Slots = 0 .. (capacity - 1)
        /\ \A j \in Slots : Far(capacity, j, h) \in 0 .. (capacity - 1)
    BY <1>1, <1>2, StateFacts
  <1>5. b.key \in Keys => b.probe_length = Far(capacity, index, HomeIn(capacity, b.key))
    <2>1. ASSUME b.key \in Keys PROVE index \in Filled
      BY <1>1, <1>2, <1>4, <2>1, BucketFacts DEF Filled, Hole, UsedIn
    <2>2. QED BY <1>2, <2>1 DEF MapInv, Exact
  <1>6. ASSUME ~IsEmpty(b), index' = NextSlot(index),
               probe' = IF probe < capacity THEN probe + 1 ELSE probe,
               UNCHANGED <<size, table, pc, key, value, entry, again>>
        PROVE  MapInv'
    <2>1. index' = Up(capacity, index) /\ index' \in Slots BY <1>1, <1>6, StateFacts
    <2>2. Slots' = Slots BY <1>1 DEF Slots
    <2>3. Types'
      <3>1. index' \in 0 .. capacity' /\ probe' \in Nat BY <1>1, <1>4, <1>6, <2>1
      <3>2. QED BY <1>1, <1>6, <2>2, <3>1, Zenon DEF MapInv, Types, growVars
    <2>4. Phases' BY <1>1, <1>6, <2>1, <2>2 DEF MapInv, Phases, growVars, IsEmpty
    <2>5. Filled' = Filled BY <1>1, <1>6 DEF Filled, Hole, UsedIn, IsEmpty
    <2>6. Exact' BY <1>1, <1>6, <2>5 DEF MapInv, Exact, Far, HomeIn
    <2>7. HomeIn(capacity, key)' = h BY <1>1, <1>3, <1>6 DEF HomeIn
    <2>8. Passed(key, probe')
      <3>1. CASE probe < capacity
        <4>1. Passed(key, probe + 1) BY <1>1, <1>2, <1>6, <3>1, PassedOn
        <4>2. QED BY <1>6, <3>1, <4>1
      <3>2. CASE ~(probe < capacity) BY <1>1, <1>6, <3>2
      <3>3. QED BY <3>1, <3>2
    <2>9. Passed(key, probe)' BY <1>1, <1>3, <1>6, <2>2, <2>7, <2>8 DEF Passed, Far
    <2>10. probe' < capacity => probe' = Far(capacity, index', h)
      <3>1. ASSUME probe' < capacity PROVE Far(capacity, index', h) = Far(capacity, index, h) + 1
        <4>1. probe < capacity - 1 BY <1>1, <1>4, <1>6, <3>1
        <4>2. Far(capacity, index, h) < capacity - 1 BY <1>1, <1>3, <1>4, <4>1
        <4>3. QED BY <1>1, <2>1, <4>2, SlotFacts
      <3>2. QED BY <1>1, <1>3, <1>4, <1>6, <3>1
    <2>11. Loops'
      <3>1. probe' <= capacity' BY <1>1, <1>4, <1>6
      <3>2. probe' < capacity' => probe' = Far(capacity, index, HomeIn(capacity, key))'
        BY <1>1, <2>7, <2>10 DEF Far
      <3>3. QED BY <1>1, <1>6, <2>9, <3>1, <3>2 DEF Loops
    <2>12. QED BY <2>3, <2>4, <2>6, <2>11 DEF MapInv
  <1>7. ASSUME pc' = "fault", UNCHANGED <<size, table, callVars, entry, again>> PROVE MapInv'
    <2>1. UNCHANGED mapVars BY <1>1, <1>7 DEF mapVars
    <2>2. Types'
      <3>1. pc' \in PCs /\ Slots' = Slots /\ index' \in 0 .. capacity'
        BY <1>1, <1>7 DEF PCs, Slots, callVars, MapInv, Types
      <3>2. QED BY <1>1, <1>7, <3>1, Zenon DEF MapInv, Types, callVars, growVars
    <2>3. Phases' BY <1>1, <1>7 DEF MapInv, Phases, growVars, IsEmpty
    <2>4. QED BY <1>1, <1>7, <2>1, <2>2, <2>3, InvQuiet
  <1>8. ASSUME b.key = key, table' = [table EXCEPT ![index] = UpdateValue(b, value)], Return,
               UNCHANGED size
        PROVE  MapInv'
    <2>1. PICK c : c = UpdateValue(b, value) OBVIOUS
    <2>2. c \in Buckets /\ c.key = key /\ c.probe_length = b.probe_length
      BY <1>1, <1>4, <1>8, <2>1 DEF UpdateValue, Buckets
    <2>3. ~IsEmpty(table[index]) BY <1>1, <1>2, <1>4, <1>8, BucketFacts
    <2>4. QED BY <1>1, <1>5, <1>8, <2>1, <2>2, <2>3, InvWrite
  <1>9. ASSUME IsEmpty(b), table' = [table EXCEPT ![index] = Bucket(key, value, probe)],
               size' = size + 1, Return
        PROVE  MapInv'
    <2>1. probe < capacity
      <3>1. SUFFICES ASSUME probe = capacity PROVE FALSE BY <1>1, <1>4
      <3>2. ~IsEmpty(table[index]) BY <1>1, <1>3, <1>4, <3>1 DEF Passed
      <3>3. QED BY <1>2, <1>9, <3>2
    <2>2. PICK c : c = Bucket(key, value, probe) OBVIOUS
    <2>3. c \in Buckets /\ c.key = key /\ c.probe_length = probe BY <1>1, <2>2, NewBucketFacts
    <2>4. QED BY <1>1, <1>2, <1>9, <2>1, <2>2, <2>3, InvWrite
  <1>10. \/ /\ ~IsEmpty(b) /\ index' = NextSlot(index)
            /\ probe' = IF probe < capacity THEN probe + 1 ELSE probe
            /\ UNCHANGED <<size, table, pc, key, value, entry, again>>
         \/ pc' = "fault" /\ UNCHANGED <<size, table, callVars, entry, again>>
         \/ /\ b.key = key /\ table' = [table EXCEPT ![index] = UpdateValue(b, value)] /\ Return
            /\ UNCHANGED size
         \/ /\ IsEmpty(b) /\ table' = [table EXCEPT ![index] = Bucket(key, value, probe)]
            /\ size' = size + 1 /\ Return
    BY <1>2 DEF UpdateStep
  <1>11. QED BY <1>6, <1>7, <1>8, <1>9, <1>10

\* A loop that only reads goes on to the next slot.
LEMMA InvReadOn ==
    ASSUME MapInv, capacity > 1, pc \in {"get", "remove", "iterate"},
           UNCHANGED <<mapVars, pc, key, value, entry, again, growVars, out>>, index' \in 0 .. capacity,
           pc # "iterate" => index' \in Slots, probe' \in Nat, seen' \in SUBSET Keys
    PROVE  MapInv'
  <1>1. UNCHANGED <<capacity, size, table, hash, old, moved>> BY DEF mapVars, growVars
  <1>2. Slots' = Slots BY <1>1 DEF Slots
  <1>3. Types' BY <1>1, <1>2, Zenon DEF MapInv, Types
  <1>4. Phases' BY <1>1, <1>2 DEF MapInv, Phases, IsEmpty
  <1>5. QED BY <1>3, <1>4, InvQuiet

\* One turn of the loop of hashmap_get.
LEMMA InvGetStep == MapInv /\ GetStep => MapInv'
  <1> SUFFICES ASSUME MapInv, GetStep PROVE MapInv'
    OBVIOUS
  <1>1. /\ pc = "get" /\ capacity > 1 /\ index \in Slots /\ key \in Keys /\ probe \in Nat
        /\ UNCHANGED <<mapVars, growVars, seen>> /\ seen' \in SUBSET Keys /\ Null \in Values \cup {Null}
    BY DEF GetStep, MapInv, Phases, Types
  <1>2. table[index].value \in Values \cup {Null} BY <1>1, StateFacts, BucketFacts
  <1>3. CASE Return
    <2>1. out' \in Values \cup {Null}
      <3>1. out' = table[index].value \/ out' = Null BY <1>1, <1>3 DEF GetStep, Return
      <3>2. QED BY <1>2, <3>1
    <2>2. QED BY <1>1, <1>3, <2>1, InvReturn
  <1>4. CASE ~Return
    <2>1. /\ index' = NextSlot(index) /\ probe' = probe + 1
          /\ UNCHANGED <<pc, key, value, entry, again, out>>
      BY <1>4 DEF GetStep
    <2>2. index' \in Slots /\ index' \in 0 .. capacity /\ probe' \in Nat BY <1>1, <2>1, StateFacts
    <2>3. QED BY <1>1, <2>1, <2>2, InvReadOn
  <1>5. QED BY <1>3, <1>4

\* One call of hashmap_iterate.
LEMMA InvIterateStep == MapInv /\ IterateStep => MapInv'
  <1> SUFFICES ASSUME MapInv, IterateStep PROVE MapInv'
    OBVIOUS
  <1>1. /\ pc = "iterate" /\ capacity > 1 /\ UNCHANGED <<mapVars, growVars, out>>
        /\ out \in Values \cup {Null} /\ seen \in SUBSET Keys /\ probe \in Nat
        /\ index \in 0 .. capacity
    BY DEF IterateStep, MapInv, Phases, Types
  <1>2. CASE seen' = {} /\ Return BY <1>1, <1>2, InvReturn
  <1>3. CASE ~(seen' = {} /\ Return)
    <2>1. PICK i \in index .. (capacity - 1) :
             /\ ~IsEmpty(table[i]) /\ seen' = seen \union {table[i].key} /\ index' = i + 1
             /\ UNCHANGED <<pc, key, value, probe, entry, again>>
      BY <1>3 DEF IterateStep
    <2>2. i \in Slots /\ index' \in 0 .. capacity BY <1>1, <2>1, StateFacts
    <2>3. table[i].key \in Keys BY <1>1, <2>1, <2>2, StateFacts, BucketFacts
    <2>4. QED BY <1>1, <2>1, <2>2, <2>3, InvReadOn
  <1>4. QED BY <1>2, <1>3

\* One turn of the loop of hashmap_remove; the removed bucket is the hole.
LEMMA InvRemoveStep == MapInv /\ RemoveStep => MapInv'
  <1> SUFFICES ASSUME MapInv, RemoveStep PROVE MapInv'
    OBVIOUS
  <1>1. /\ pc = "remove" /\ capacity > 1 /\ index \in Slots /\ key \in Keys /\ probe \in Nat
        /\ UNCHANGED <<capacity, hash, growVars, out, seen>>
        /\ out \in Values \cup {Null} /\ seen \in SUBSET Keys
    BY DEF RemoveStep, MapInv, Phases, Types
  <1>2. PICK b : b = table[index] OBVIOUS
  <1>3. CASE Return /\ UNCHANGED <<table, size>>
    <2>1. UNCHANGED mapVars BY <1>1, <1>3 DEF mapVars
    <2>2. QED BY <1>1, <1>3, <2>1, InvReturn
  <1>4. CASE /\ index' = NextSlot(index) /\ probe' = probe + 1
             /\ UNCHANGED <<table, size, pc, key, value, entry, again>>
    <2>1. index' \in Slots /\ index' \in 0 .. capacity /\ probe' \in Nat BY <1>1, <1>4, StateFacts
    <2>2. UNCHANGED mapVars BY <1>1, <1>4 DEF mapVars
    <2>3. QED BY <1>1, <1>4, <2>1, <2>2, InvReadOn
  <1>5. CASE /\ ~GivesUp(b) /\ table' = [table EXCEPT ![index] = Empty] /\ size' = size - 1
             /\ pc' = "shift" /\ UNCHANGED <<callVars, entry, again>>
    <2>1. capacity \in Nat /\ Slots = 0 .. (capacity - 1) /\ Slots' = Slots
      BY <1>1, StateFacts DEF Slots
    <2>2. /\ table' \in [Slots -> Buckets]
          /\ \A j \in Slots : j # index => table'[j] = table[j]
          /\ UsedIn(table', capacity) = UsedIn(table, capacity) \ {index}
      <3>1. table \in [0 .. (capacity - 1) -> Buckets] BY <2>1 DEF MapInv, Types
      <3>2. /\ table' \in [0 .. (capacity - 1) -> Buckets]
            /\ \A j \in 0 .. (capacity - 1) : j # index => table'[j] = table[j]
            /\ UsedIn(table', capacity) =
                  IF IsEmpty(Empty) THEN UsedIn(table, capacity) \ {index} ELSE UsedIn(table, capacity) \cup {index}
        <4>1. Empty \in Buckets /\ index \in 0 .. (capacity - 1) BY <1>1, <2>1, NewBucketFacts
        <4>2. QED BY <1>5, <2>1, <3>1, <4>1, PutFacts
      <3>3. IsEmpty(Empty) BY NewBucketFacts
      <3>4. QED BY <2>1, <3>2, <3>3, Zenon
    <2>3. Filled = UsedIn(table, capacity) BY <1>1 DEF Filled, Hole
    <2>4. Filled' = Filled \ {index} BY <1>1, <1>5, <2>2, <2>3 DEF Filled, Hole, callVars
    <2>5. index \in Filled BY <1>1, <1>2, <1>5, <2>1, <2>3 DEF UsedIn, GivesUp
    <2>6. /\ IsFiniteSet(Filled) /\ Cardinality(Filled) \in Nat
          /\ Cardinality(Filled') = Cardinality(Filled) - 1 /\ Cardinality(Filled') \in Nat
      <3>1. IsFiniteSet(Filled) /\ Cardinality(Filled) \in Nat BY <2>1, <2>3, UsedCount
      <3>2. Cardinality(Filled') = Cardinality(Filled) - 1 BY <2>4, <2>5, <3>1, FS_RemoveElement
      <3>3. IsFiniteSet(Filled') BY <2>4, <3>1, FS_RemoveElement
      <3>4. QED BY <3>1, <3>2, <3>3, FS_CardinalityType
    <2>7. Types'
      <3>1. size' \in Nat /\ pc' \in PCs /\ index' \in 0 .. capacity'
        BY <1>1, <1>5, <2>6 DEF MapInv, Exact, PCs, Types, callVars
      <3>2. QED BY <1>1, <1>5, <2>1, <2>2, <3>1, Zenon DEF MapInv, Types, callVars, growVars
    <2>8. Phases' BY <1>1, <1>5, <2>1 DEF MapInv, Phases, callVars, growVars, IsEmpty
    <2>9. Exact'
      <3>1. \A i \in Filled' : i \in Filled /\ i \in Slots /\ table'[i] = table[i]
        BY <2>1, <2>2, <2>3, <2>4 DEF UsedIn
      <3>2. QED BY <1>1, <1>5, <2>6, <3>1 DEF MapInv, Exact, Far, HomeIn
    <2>10. Loops' BY <1>5 DEF Loops
    <2>11. QED BY <2>7, <2>8, <2>9, <2>10 DEF MapInv
  <1>6. QED BY <1>2, <1>3, <1>4, <1>5 DEF RemoveStep

\* One turn of the backward shift: the hole closes, or moves one slot on.
LEMMA InvShiftStep == MapInv /\ ShiftStep => MapInv'
  <1> SUFFICES ASSUME MapInv, ShiftStep PROVE MapInv'
    OBVIOUS
  <1>1. /\ pc = "shift" /\ capacity > 1 /\ index \in Slots /\ key \in Keys
        /\ UNCHANGED <<capacity, size, hash, growVars, out, seen>> /\ size \in Nat
    BY DEF ShiftStep, MapInv, Phases, Types
  <1>2. capacity \in Nat /\ Slots = 0 .. (capacity - 1) /\ Slots' = Slots
    BY <1>1, StateFacts DEF Slots
  <1>3. PICK n \in Slots : n = NextSlot(index) /\ n = Up(capacity, index) /\ n # index
    <2>1. NextSlot(index) \in Slots /\ NextSlot(index) = Up(capacity, index) BY <1>1, StateFacts
    <2>2. Up(capacity, index) # index BY <1>1, <1>2 DEF Up
    <2>3. QED BY <2>1, <2>2
  <1>4. table \in [0 .. (capacity - 1) -> Buckets] BY <1>2 DEF MapInv, Types
  <1>5. Filled = UsedIn(table, capacity) \ {index} BY <1>1 DEF Filled, Hole
  <1>6. IsFiniteSet(Filled) /\ size = Cardinality(Filled)
    BY <1>2, <1>5, UsedCount, FS_Subset DEF MapInv, Exact
  <1>7. CASE IsEmpty(table[n]) \/ table[n].probe_length = 0
    <2>1. table' = [table EXCEPT ![index] = Empty] /\ Return BY <1>3, <1>7 DEF ShiftStep
    <2>2. /\ table' \in [Slots -> Buckets]
          /\ \A j \in Slots : j # index => table'[j] = table[j]
          /\ UsedIn(table', capacity) = UsedIn(table, capacity) \ {index}
      <3>1. Empty \in Buckets /\ index \in 0 .. (capacity - 1) BY <1>1, <1>2, NewBucketFacts
      <3>2. /\ table' \in [0 .. (capacity - 1) -> Buckets]
            /\ \A j \in 0 .. (capacity - 1) : j # index => table'[j] = table[j]
            /\ UsedIn(table', capacity) =
                  IF IsEmpty(Empty) THEN UsedIn(table, capacity) \ {index} ELSE UsedIn(table, capacity) \cup {index}
        BY <1>2, <1>4, <2>1, <3>1, PutFacts
      <3>3. IsEmpty(Empty) BY NewBucketFacts
      <3>4. QED BY <1>2, <3>2, <3>3, Zenon
    <2>3. pc' = "idle" BY <2>1 DEF Return
    <2>4. Filled' = Filled BY <1>1, <1>5, <2>2, <2>3 DEF Filled, Hole
    <2>5. Exact'
      <3>1. \A i \in Filled : i \in Slots /\ table'[i] = table[i] BY <1>2, <1>5, <2>2 DEF UsedIn
      <3>2. QED BY <1>1, <2>4, <3>1 DEF MapInv, Exact, Far, HomeIn
    <2>6. Types'
      <3>1. /\ index' \in 0 .. capacity' /\ pc' \in PCs /\ probe' \in Nat /\ again' \in BOOLEAN
            /\ key' \in Keys \cup {NoKey} /\ value' \in Values \cup {Null} /\ entry' \in Buckets
        BY <1>1, <2>1, ReturnTypes DEF MapInv
      <3>2. QED BY <1>1, <1>2, <2>2, <3>1, Zenon DEF MapInv, Types, growVars
    <2>7. Phases' BY <1>1, <2>1 DEF Return, MapInv, Phases, growVars, IsEmpty
    <2>8. Loops' BY <2>3 DEF Loops
    <2>9. QED BY <2>5, <2>6, <2>7, <2>8 DEF MapInv
  <1>8. CASE ~IsEmpty(table[n]) /\ table[n].probe_length # 0
    <2>1. PICK q \in Buckets : q = table[n] BY <1>2, <1>4
    <2>2. q.key \in Keys /\ q.probe_length \in Nat \ {0} BY <1>8, <2>1, BucketFacts
    <2>3. PICK d \in Nat : d = q.probe_length - 1 BY <2>2
    <2>4. PICK b \in Buckets : /\ b = [q EXCEPT !.probe_length = d] /\ b.key = q.key
                               /\ b.probe_length = d /\ ~IsEmpty(b)
      BY <2>2, BucketFacts
    <2>5. /\ table' = [table EXCEPT ![index] = b, ![n] = b] /\ index' = n
          /\ UNCHANGED <<pc, key, value, probe, entry, again>>
      BY <1>3, <1>8, <2>1, <2>3, <2>4 DEF ShiftStep
    <2>6. /\ table' \in [Slots -> Buckets] /\ table'[index] = b /\ table'[n] = b
          /\ \A j \in Slots \ {index, n} : table'[j] = table[j]
      BY <1>1, <1>2, <1>3, <1>4, <2>4, <2>5
    <2>7. n \in Filled BY <1>2, <1>3, <1>5, <1>8 DEF UsedIn
    <2>8. index \notin Filled BY <1>5
    <2>9. Filled' = (Filled \ {n}) \cup {index}
      <3>1. Filled' = UsedIn(table', capacity) \ {n} BY <1>1, <2>5 DEF Filled, Hole
      <3>2. ASSUME NEW i \in Slots PROVE i \in Filled' <=> i \in (Filled \ {n}) \cup {index}
        BY <1>1, <1>2, <1>3, <1>5, <2>4, <2>6, <3>1 DEF UsedIn
      <3>3. Filled' \subseteq Slots /\ (Filled \ {n}) \cup {index} \subseteq Slots
        BY <1>1, <1>2, <1>5, <3>1 DEF UsedIn
      <3>4. QED BY <3>2, <3>3
    <2>10. size' = Cardinality(Filled')
      <3>1. /\ IsFiniteSet(Filled \ {n}) /\ Cardinality(Filled \ {n}) = size - 1
            /\ index \notin Filled \ {n}
        BY <1>6, <2>7, <2>8, FS_RemoveElement
      <3>2. Cardinality((Filled \ {n}) \cup {index}) = size - 1 + 1 BY <3>1, FS_AddElement
      <3>3. QED BY <1>1, <2>9, <3>2
    <2>11. PICK h \in Slots : h = HomeIn(capacity, q.key) BY <1>1, <2>2, StateFacts
    <2>12. q.probe_length = Far(capacity, n, h) BY <2>1, <2>7, <2>11 DEF MapInv, Exact
    <2>13. d = Far(capacity, index, h)
      <3>1. /\ Far(capacity, index, h) \in 0 .. (capacity - 1)
            /\ Far(capacity, index, h) < capacity - 1 => Far(capacity, n, h) = Far(capacity, index, h) + 1
        BY <1>1, <1>3, <2>11, SlotFacts
      <3>2. Far(capacity, index, h) = capacity - 1 => Far(capacity, n, h) = 0
        BY <1>1, <1>2, <1>3, <2>11 DEF Far, Up
      <3>3. QED BY <1>2, <2>2, <2>3, <2>12, <3>1, <3>2
    <2>14. Exact'
      <3>1. ASSUME NEW i \in Filled'
            PROVE  table'[i].probe_length = Far(capacity, i, HomeIn(capacity, table'[i].key))
        <4>1. CASE i = index BY <2>4, <2>6, <2>11, <2>13, <4>1
        <4>2. CASE i # index
          <5>1. i \in Filled /\ i \in Slots \ {index, n} BY <1>2, <1>5, <2>9, <4>2 DEF UsedIn
          <5>2. QED BY <2>6, <5>1 DEF MapInv, Exact
        <4>3. QED BY <4>1, <4>2
      <3>2. ASSUME NEW i \in Filled'
            PROVE  Far(capacity, i, HomeIn(capacity, table'[i].key))
                    = Far(capacity', i, HomeIn(capacity, table[i].key)')
        BY <1>1 DEF Far, HomeIn
      <3>3. QED BY <2>10, <3>1, <3>2 DEF Exact
    <2>15. Types'
      <3>1. index' \in 0 .. capacity' BY <1>1, <1>2, <2>5
      <3>2. QED BY <1>1, <1>2, <2>5, <2>6, <3>1, Zenon DEF MapInv, Types, growVars
    <2>16. Phases' BY <1>1, <1>2, <2>5 DEF MapInv, Phases, growVars, IsEmpty
    <2>17. Loops' BY <1>1, <2>5 DEF Loops
    <2>18. QED BY <2>14, <2>15, <2>16, <2>17 DEF MapInv
  <1>9. QED BY <1>7, <1>8

\* Every step keeps the invariant.
LEMMA InvNext == MapInv /\ [Next]_vars => MapInv'
  <1> SUFFICES ASSUME MapInv, [Next]_vars PROVE MapInv'
    OBVIOUS
  <1>1. CASE UNCHANGED vars
    <2>1. UNCHANGED <<capacity, size, table, hash, pc, key, value, index, probe, entry, again, old,
                     moved, out, seen>>
      BY <1>1 DEF vars, mapVars, callVars, growVars
    <2>2. Types' BY <2>1 DEF MapInv, Types, Slots
    <2>3. Phases' BY <2>1 DEF MapInv, Phases, Slots, IsEmpty
    <2>4. Filled' = Filled BY <2>1 DEF Filled, Hole, UsedIn, IsEmpty
    <2>5. Exact' BY <2>1, <2>4 DEF MapInv, Exact, Far, HomeIn
    <2>6. Slots' = Slots /\ MaxProbes(capacity)' = MaxProbes(capacity)
          /\ IsEmpty(moved)' = IsEmpty(moved) /\ Passed(moved.key, moved.probe_length)' = Passed(moved.key, moved.probe_length)
          /\ Passed(key, probe)' = Passed(key, probe)
      BY <2>1 DEF Slots, IsEmpty, Passed, Far, HomeIn
    <2>7. AtIndex(entry)' = AtIndex(entry) /\ AtIndex(moved)' = AtIndex(moved)
          /\ Far(capacity, index, HomeIn(capacity, key))' = Far(capacity, index, HomeIn(capacity, key))
      BY <2>1 DEF AtIndex, Far, HomeIn
    <2>8. Loops' BY <2>1, <2>6, <2>7 DEF MapInv, Loops
    <2>9. QED BY <2>2, <2>3, <2>5, <2>8 DEF MapInv
  <1>2. CASE Call
    <2>1. ASSUME NEW n \in Requests, HashMapNew(n) PROVE MapInv' BY <2>1, InvNew
    <2>2. ASSUME NEW k \in Keys, NEW v \in Values, HashMapInsert(k, v) \/ HashMapUpdate(k, v) PROVE MapInv'
      BY <2>2, InvInsert, InvBegin
    <2>3. ASSUME NEW k \in Keys, HashMapGet(k) \/ HashMapRemove(k) PROVE MapInv'
      BY <2>3, InvBegin
    <2>4. QED BY <1>2, <2>1, <2>2, <2>3, InvIterateBegin, InvFree DEF Call
  <1>3. CASE Step
    BY <1>3, InvGrowNext, InvMoveEntry, InvGrowReturn, InvInsertStep, InvInsertEnd, InvUpdateStep,
       InvGetStep, InvRemoveStep, InvShiftStep, InvIterateStep DEF Step
  <1>4. QED BY <1>1, <1>2, <1>3 DEF Next

\* The invariant holds in every state.
LEMMA InvAlways == Spec => []MapInv
  <1>1. QED BY InvInit, InvNext, PTL DEF Spec

\* The invariant implies TableExact.
LEMMA MapInvExact == MapInv => TableExact
  <1> SUFFICES ASSUME MapInv PROVE TableExact
    OBVIOUS
  <1>1. TypeOK BY DEF MapInv, Types, TypeOK
  <1>2. Filled = Used \ Hole BY DEF Filled, Used, UsedIn, Slots
  <1>3. ASSUME NEW i \in Filled PROVE table[i].probe_length = Distance(i)
    <2>1. i \in Slots /\ capacity \in Nat /\ capacity > 0 /\ ~IsEmpty(table[i])
      BY DEF Filled, UsedIn, Slots, MapInv, Types
    <2>2. capacity > 1 BY <2>1 DEF MapInv, Phases
    <2>3. table[i].key \in Keys BY <2>1, <2>2, StateFacts, BucketFacts
    <2>4. PICK h \in Slots : h = HomeIn(capacity, table[i].key) /\ h = Home(table[i].key)
      BY <2>2, <2>3, StateFacts
    <2>5. (i - h) % capacity = Far(capacity, i, h) BY <2>1, <2>4, Circle DEF Slots
    <2>6. QED BY <2>4, <2>5 DEF Distance, MapInv, Exact
  <1>4. QED BY <1>1, <1>2, <1>3 DEF TableExact, MapInv, Exact

\* TableExact holds in every state of the map, whatever its callers do.
THEOREM TableExactTheorem == Spec => []TableExact
  <1>1. QED BY InvAlways, MapInvExact, PTL

=============================================================================

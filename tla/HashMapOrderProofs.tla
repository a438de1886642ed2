------------------------- MODULE HashMapOrderProofs -------------------------
(***************************************************************************)
(* The Robin Hood order of HashMap, the uniqueness of its keys, the probe  *)
(* limit and the refinement of Dictionary, for any keys, values, hashes    *)
(* and capacities, with hashmap_update used on the keys of the map only.   *)
(***************************************************************************)
EXTENDS HashMapProofs

-----------------------------------------------------------------------------
(* Tables, but for the slots of H *)

\* A bucket with this probe_length at slot x has before it, down to its home,
\* buckets in use that are no more than the distance nearer to their homes.
FitsIn(t, c, H, x, n) ==
    \A j \in (0 .. (c - 1)) \ H :
        j # x /\ Far(c, x, j) <= n => ~IsEmpty(t[j]) /\ n <= t[j].probe_length + Far(c, x, j)

OrderIn(t, c, H) == \A i \in UsedIn(t, c) \ H : FitsIn(t, c, H, i, t[i].probe_length)

UniqueIn(t, c, H) == \A i, j \in UsedIn(t, c) \ H : t[i].key = t[j].key => i = j

ShortIn(t, c, H) == \A i \in UsedIn(t, c) \ H : t[i].probe_length < MaxProbes(c)

GoodIn(t, c, H) == OrderIn(t, c, H) /\ UniqueIn(t, c, H) /\ ShortIn(t, c, H)

KeysIn(t, c, H) == {t[i].key : i \in UsedIn(t, c) \ H}

KeysWithin(t, c, S) == \A i \in UsedIn(t, c) : t[i].key \in S

ExactIn(t, c) == \A i \in UsedIn(t, c) : t[i].probe_length = Far(c, i, HomeIn(c, t[i].key))

\* The keys of S have places in a table of c slots, within the probe limit.
PlacesIn(S, pos, c) ==
    /\ \A k \in S : pos[k] \in 0 .. (c - 1) /\ Far(c, pos[k], HomeIn(c, k)) < MaxProbes(c)
    /\ \A k, l \in S : pos[k] = pos[l] => k = l

\* Distances on the circle.
LEMMA FarFacts ==
    ASSUME NEW c \in Nat, c > 1
    PROVE  /\ \A i \in 0 .. (c - 1) : Up(c, i) \in 0 .. (c - 1) /\ Up(c, i) # i /\ Far(c, i, i) = 0
           /\ \A i, j \in 0 .. (c - 1) :
                /\ Far(c, i, j) \in 0 .. (c - 1)
                /\ Far(c, i, j) = 0 => i = j
                /\ j # Up(c, i) => Far(c, Up(c, i), j) = Far(c, i, j) + 1
                /\ j = Up(c, i) => Far(c, i, j) = c - 1
                /\ i # j => Far(c, i, Up(c, j)) = Far(c, i, j) - 1
           /\ \A i, j, h \in 0 .. (c - 1) :
                /\ Far(c, j, h) <= Far(c, i, h) => Far(c, i, j) = Far(c, i, h) - Far(c, j, h)
                /\ Far(c, i, j) <= Far(c, i, h) => Far(c, j, h) = Far(c, i, h) - Far(c, i, j)
                /\ Far(c, i, h) = Far(c, j, h) => i = j
  <1>1. \A i \in 0 .. (c - 1) : Up(c, i) \in 0 .. (c - 1) /\ Up(c, i) # i /\ Far(c, i, i) = 0
    BY DEF Far, Up
  <1>2. ASSUME NEW i \in 0 .. (c - 1), NEW j \in 0 .. (c - 1)
        PROVE  /\ Far(c, i, j) \in 0 .. (c - 1)
               /\ Far(c, i, j) = 0 => i = j
               /\ j # Up(c, i) => Far(c, Up(c, i), j) = Far(c, i, j) + 1
               /\ j = Up(c, i) => Far(c, i, j) = c - 1
               /\ i # j => Far(c, i, Up(c, j)) = Far(c, i, j) - 1
    BY DEF Far, Up
  <1>3. ASSUME NEW i \in 0 .. (c - 1), NEW j \in 0 .. (c - 1), NEW h \in 0 .. (c - 1)
        PROVE  /\ Far(c, j, h) <= Far(c, i, h) => Far(c, i, j) = Far(c, i, h) - Far(c, j, h)
               /\ Far(c, i, j) <= Far(c, i, h) => Far(c, j, h) = Far(c, i, h) - Far(c, i, j)
               /\ Far(c, i, h) = Far(c, j, h) => i = j
    BY DEF Far
  <1>4. QED BY <1>1, <1>2, <1>3

\* Writing a bucket that is in use.
LEMMA PutUsed ==
    ASSUME NEW c \in Nat, NEW t \in [0 .. (c - 1) -> Buckets], NEW x \in 0 .. (c - 1),
           NEW m \in Buckets, ~IsEmpty(m), NEW u, u = [t EXCEPT ![x] = m]
    PROVE  /\ u \in [0 .. (c - 1) -> Buckets] /\ u[x] = m
           /\ \A j \in 0 .. (c - 1) : j # x => u[j] = t[j]
  OBVIOUS

\* A part of a way.
LEMMA FarSub ==
    ASSUME NEW c \in Nat, NEW i \in 0 .. (c - 1), NEW j \in 0 .. (c - 1), NEW h \in 0 .. (c - 1),
           Far(c, i, j) <= Far(c, i, h)
    PROVE  Far(c, j, h) = Far(c, i, h) - Far(c, i, j)
  BY DEF Far

\* What is in the table is put there again, or is replaced by a bucket that
\* fits and is not nearer to its home.
LEMMA PutOrder ==
    ASSUME NEW c \in Nat, c > 1, NEW t \in [0 .. (c - 1) -> Buckets], NEW x \in 0 .. (c - 1),
           NEW m \in Buckets, ~IsEmpty(m), OrderIn(t, c, {}), FitsIn(t, c, {}, x, m.probe_length),
           IsEmpty(t[x]) \/ m.probe_length >= t[x].probe_length, NEW u, u = [t EXCEPT ![x] = m]
    PROVE  OrderIn(u, c, {})
  <1>1. /\ u \in [0 .. (c - 1) -> Buckets] /\ u[x] = m
        /\ \A j \in 0 .. (c - 1) : j # x => u[j] = t[j]
    BY PutFacts
  <1>2. SUFFICES ASSUME NEW i \in UsedIn(u, c), NEW j \in 0 .. (c - 1), j # i,
                        Far(c, i, j) <= u[i].probe_length
                 PROVE  ~IsEmpty(u[j]) /\ u[i].probe_length <= u[j].probe_length + Far(c, i, j)
    BY DEF OrderIn, FitsIn
  <1>3. i \in 0 .. (c - 1) /\ ~IsEmpty(u[i]) BY DEF UsedIn
  <1>4. CASE i = x BY <1>1, <1>2, <1>4 DEF FitsIn
  <1>5. CASE i # x
    <2>1. i \in UsedIn(t, c) /\ u[i] = t[i] BY <1>1, <1>3, <1>5 DEF UsedIn
    <2>2. ~IsEmpty(t[j]) /\ t[i].probe_length <= t[j].probe_length + Far(c, i, j)
      BY <1>2, <2>1 DEF OrderIn, FitsIn
    <2>3. CASE j # x BY <1>1, <2>1, <2>2, <2>3
    <2>4. CASE j = x
      <3>1. m.probe_length >= t[j].probe_length BY <2>2, <2>4
      <3>2. m.probe_length \in Nat /\ t[j].probe_length \in Nat /\ t[i].probe_length \in Nat
            /\ Far(c, i, j) \in 0 .. (c - 1)
        BY <1>3, BucketFacts, FarFacts
      <3>3. QED BY <1>1, <2>1, <2>2, <2>4, <3>1, <3>2
    <2>5. QED BY <2>3, <2>4
  <1>6. QED BY <1>4, <1>5

\* A bucket fits into the next slot too, if the one it passes is not nearer
\* to its home.
LEMMA FitsOn ==
    ASSUME NEW c \in Nat, c > 1, NEW t \in [0 .. (c - 1) -> Buckets], NEW x \in 0 .. (c - 1),
           NEW p \in Buckets, ~IsEmpty(p), NEW n \in Nat, FitsIn(t, c, {}, x, n),
           n <= p.probe_length, NEW u, u = [t EXCEPT ![x] = p]
    PROVE  FitsIn(u, c, {}, Up(c, x), n + 1)
  <1>1. /\ u \in [0 .. (c - 1) -> Buckets] /\ u[x] = p
        /\ \A j \in 0 .. (c - 1) : j # x => u[j] = t[j]
    BY PutFacts
  <1>2. SUFFICES ASSUME NEW j \in 0 .. (c - 1), j # Up(c, x), Far(c, Up(c, x), j) <= n + 1
                 PROVE  ~IsEmpty(u[j]) /\ n + 1 <= u[j].probe_length + Far(c, Up(c, x), j)
    BY DEF FitsIn
  <1>3. Far(c, Up(c, x), j) = Far(c, x, j) + 1 /\ Far(c, x, j) \in 0 .. (c - 1) BY <1>2, FarFacts
  <1>4. Far(c, x, j) <= n BY <1>2, <1>3
  <1>5. p.probe_length \in Nat /\ u[j].probe_length \in Nat BY <1>1, BucketFacts
  <1>6. CASE j = x
    <2>1. Far(c, x, j) = 0 BY <1>6, FarFacts
    <2>2. QED BY <1>1, <1>3, <1>5, <1>6, <2>1
  <1>7. CASE j # x
    <2>1. ~IsEmpty(t[j]) /\ n <= t[j].probe_length + Far(c, x, j) BY <1>4, <1>7 DEF FitsIn
    <2>2. QED BY <1>1, <1>3, <1>5, <1>7, <2>1
  <1>8. QED BY <1>6, <1>7

\* On the way from its home to its bucket a key meets no bucket it would have
\* displaced.
LEMMA KeyMet ==
    ASSUME NEW c \in Nat, c > 1, NEW t \in [0 .. (c - 1) -> Buckets], OrderIn(t, c, {}),
           NEW q \in UsedIn(t, c), NEW h \in 0 .. (c - 1), t[q].probe_length = Far(c, q, h),
           NEW x \in 0 .. (c - 1), Far(c, x, h) <= Far(c, q, h)
    PROVE  ~IsEmpty(t[x]) /\ Far(c, x, h) <= t[x].probe_length
  <1>1. q \in 0 .. (c - 1) /\ ~IsEmpty(t[q]) BY DEF UsedIn
  <1>2. /\ Far(c, q, x) = Far(c, q, h) - Far(c, x, h)
        /\ Far(c, q, h) \in 0 .. (c - 1) /\ Far(c, x, h) \in 0 .. (c - 1)
    BY <1>1, FarFacts
  <1>3. CASE x = q BY <1>1, <1>3
  <1>4. CASE x # q
    <2>1. ~IsEmpty(t[x]) /\ t[q].probe_length <= t[x].probe_length + Far(c, q, x)
      BY <1>2, <1>4 DEF OrderIn, FitsIn
    <2>2. t[x].probe_length \in Nat BY BucketFacts
    <2>3. QED BY <1>2, <2>1, <2>2
  <1>5. QED BY <1>3, <1>4

\* Writing a bucket whose key is in no other slot.
LEMMA PutUnique ==
    ASSUME NEW c \in Nat, NEW t \in [0 .. (c - 1) -> Buckets], NEW x \in 0 .. (c - 1),
           NEW m \in Buckets, ~IsEmpty(m), UniqueIn(t, c, {}),
           \A j \in UsedIn(t, c) : t[j].key = m.key => j = x, NEW u, u = [t EXCEPT ![x] = m]
    PROVE  UniqueIn(u, c, {})
  <1>1. /\ u[x] = m /\ \A j \in 0 .. (c - 1) : j # x => u[j] = t[j]
        /\ UsedIn(u, c) = UsedIn(t, c) \cup {x}
    <2>1. u \in [0 .. (c - 1) -> Buckets] /\ u[x] = m BY PutUsed
    <2>2. \A j \in 0 .. (c - 1) : j # x => u[j] = t[j] BY PutUsed
    <2>3. UsedIn(u, c) = UsedIn(t, c) \cup {x} BY <2>1, <2>2 DEF UsedIn
    <2>4. QED BY <2>1, <2>2, <2>3
  <1>2. UsedIn(t, c) \subseteq 0 .. (c - 1) BY DEF UsedIn
  <1>3. QED BY <1>1, <1>2 DEF UniqueIn

\* A bucket with a new key in hand and the one at slot x change places, or do
\* not; the one in hand is new then, and no key is lost.
LEMMA SwapKeys ==
    ASSUME NEW c \in Nat, NEW t \in [0 .. (c - 1) -> Buckets], NEW x \in UsedIn(t, c),
           NEW m \in Buckets, ~IsEmpty(m), UniqueIn(t, c, {}), m.key \notin KeysIn(t, c, {}),
           NEW w, NEW p, (w = m /\ p = t[x]) \/ (w = t[x] /\ p = m), NEW u, u = [t EXCEPT ![x] = p]
    PROVE  UniqueIn(u, c, {}) /\ w.key \notin KeysIn(u, c, {})
  <1>1. x \in 0 .. (c - 1) /\ ~IsEmpty(t[x]) BY DEF UsedIn
  <1>2. p \in Buckets /\ ~IsEmpty(p) BY <1>1
  <1>3. /\ u[x] = p /\ \A j \in 0 .. (c - 1) : j # x => u[j] = t[j]
        /\ UsedIn(u, c) = UsedIn(t, c)
    <2>1. u[x] = p /\ \A j \in 0 .. (c - 1) : j # x => u[j] = t[j] BY <1>1, <1>2, PutUsed
    <2>2. UsedIn(u, c) = UsedIn(t, c) \cup {x} BY <1>1, <1>2, <2>1 DEF UsedIn
    <2>3. QED BY <2>1, <2>2
  <1>4. UsedIn(t, c) \subseteq 0 .. (c - 1) BY DEF UsedIn
  <1>5. \A j \in UsedIn(t, c) : t[j].key # m.key BY DEF KeysIn
  <1>6. UniqueIn(u, c, {}) BY <1>3, <1>4, <1>5 DEF UniqueIn
  <1>7. \A j \in UsedIn(u, c) : u[j].key # w.key BY <1>3, <1>4, <1>5 DEF UniqueIn
  <1>8. w.key \notin KeysIn(u, c, {}) BY <1>7 DEF KeysIn
  <1>9. QED BY <1>6, <1>8

-----------------------------------------------------------------------------
(* The probe limit in a table that has just been doubled *)

\* The home in a half of the table.
LEMMA HalfHome ==
    ASSUME NEW c \in Nat \ {0}, NEW a \in Nat
    PROVE  (a % (2 * c)) % c = a % c
  <1>1. PICK q \in Nat, r \in 0 .. (2 * c - 1) : a = (2 * c) * q + r /\ a % (2 * c) = r
    <2>1. 2 * c \in Nat \ {0} BY SMT
    <2>2. PICK e \in Nat \ {0} : e = 2 * c BY <2>1
    <2>3. a = e * (a \div e) + (a % e) /\ a \div e \in Nat /\ a % e \in 0 .. (e - 1) BY SMT
    <2>4. QED BY <2>2, <2>3
  <1>2. PICK b \in {0, 1}, s \in 0 .. (c - 1) : r = c * b + s /\ r % c = s
    <2>1. CASE r < c
      <3>1. r % c = r /\ r = c * 0 + r BY <2>1, SMT
      <3>2. QED BY <2>1, <3>1
    <2>2. CASE r >= c
      <3>1. r % c = r - c /\ r = c * 1 + (r - c) /\ r - c \in 0 .. (c - 1) BY <2>2, SMT
      <3>2. QED BY <3>1
    <2>3. QED BY <2>1, <2>2
  <1>3. PICK n \in Nat : n = 2 * q + b BY <1>2
  <1>4. a = c * n + s BY <1>1, <1>2, <1>3, SMT
  <1>5. a % c = s BY <1>4, SMT
  <1>6. QED BY <1>1, <1>2, <1>5

\* A place in the old table is known from how far the new home is behind slot s,
\* and how far the place is behind the old home.
LEMMA OldPlace ==
    ASSUME NEW c \in Nat \ {0}, NEW g \in 0 .. (2 * c - 1), NEW s \in 0 .. (2 * c - 1),
           NEW p \in 0 .. (c - 1)
    PROVE  (s + Far(2 * c, g, s) + Far(c, p, g % c)) % c = p
  <1>1. PICK h \in 0 .. (c - 1) : h = g % c /\ (g = h \/ g = h + c)
    <2>1. g % c = IF g < c THEN g ELSE g - c BY SMT
    <2>2. CASE g < c BY <2>1, <2>2
    <2>3. CASE g >= c
      <3>1. g % c = g - c /\ g - c \in 0 .. (c - 1) BY <2>1, <2>3
      <3>2. QED BY <3>1
    <2>4. QED BY <2>2, <2>3
  <1>2. PICK a \in Nat : a = Far(2 * c, g, s) /\ (s + a = g \/ s + a = g + 2 * c)
    <2>1. Far(2 * c, g, s) \in Nat /\ (s + Far(2 * c, g, s) = g \/ s + Far(2 * c, g, s) = g + 2 * c)
      BY DEF Far
    <2>2. QED BY <2>1
  <1>3. PICK b \in Nat : b = Far(c, p, h) /\ (h + b = p \/ h + b = p + c)
    <2>1. Far(c, p, h) \in Nat /\ (h + Far(c, p, h) = p \/ h + Far(c, p, h) = p + c) BY DEF Far
    <2>2. QED BY <2>1
  <1>4. \/ s + a + b = p \/ s + a + b = p + c \/ s + a + b = p + 2 * c
        \/ s + a + b = p + 3 * c \/ s + a + b = p + 4 * c
    <2>1. CASE s + a = g BY <1>1, <1>3, <2>1
    <2>2. CASE s + a = g + 2 * c BY <1>1, <1>3, <2>2
    <2>3. QED BY <1>2, <2>1, <2>2
  <1>5. p % c = p /\ (p + c) % c = p /\ (p + 2 * c) % c = p /\ (p + 3 * c) % c = p
        /\ (p + 4 * c) % c = p
    BY SMT
  <1>6. (s + a + b) % c = p BY <1>4, <1>5
  <1>7. QED BY <1>1, <1>2, <1>3, <1>6

\* Going back from slot x there is a last slot behind an empty one.
LEMMA LastEmpty ==
    ASSUME NEW c \in Nat, c > 1, NEW t, NEW x \in 0 .. (c - 1), NEW e \in 0 .. (c - 1), IsEmpty(t[e])
    PROVE  \E z \in 0 .. (c - 1) :
              /\ IsEmpty(t[z])
              /\ \A j \in 0 .. (c - 1) : Far(c, j, Up(c, z)) < Far(c, x, Up(c, z)) => ~IsEmpty(t[j])
  <1> DEFINE D == 0 .. (c - 1)
             Ends == {Far(c, x, Up(c, y)) : y \in {j \in D : IsEmpty(t[j])}}
  <1>1. Ends \in SUBSET Nat /\ Ends # {}
    <2>1. \A y \in D : Up(c, y) \in D BY FarFacts
    <2>2. \A y \in D : Far(c, x, Up(c, y)) \in 0 .. (c - 1) BY <2>1, FarFacts
    <2>3. QED BY <2>2
  <1>2. PICK a \in Ends : \A b \in Ends : a <= b BY <1>1, NatMin
  <1>3. PICK z \in D : IsEmpty(t[z]) /\ a = Far(c, x, Up(c, z)) OBVIOUS
  <1>4. PICK s \in D : s = Up(c, z) BY FarFacts
  <1>5. a \in 0 .. (c - 1) BY <1>3, <1>4, FarFacts
  <1>6. ASSUME NEW j \in D, Far(c, j, s) < Far(c, x, s), IsEmpty(t[j]) PROVE FALSE
    <2>1. a <= Far(c, x, Up(c, j)) BY <1>2, <1>6
    <2>2. Far(c, j, s) \in 0 .. (c - 1) BY FarFacts
    <2>3. Far(c, x, j) = a - Far(c, j, s) BY <1>3, <1>4, <1>5, <1>6, <2>2, FarFacts
    <2>4. x # j BY <1>6, <2>2
    <2>5. Far(c, x, Up(c, j)) = Far(c, x, j) - 1 BY <2>4, FarFacts
    <2>6. QED BY <1>5, <2>1, <2>2, <2>3, <2>5
  <1>7. QED BY <1>3, <1>4, <1>6

\* The way of a bucket to its home does not cross an empty slot.
LEMMA HomeBehindEmpty ==
    ASSUME NEW c \in Nat, c > 1, NEW t, NEW z \in 0 .. (c - 1), IsEmpty(t[z]), NEW j \in 0 .. (c - 1),
           NEW r \in 0 .. (c - 1), FitsIn(t, c, {}, j, r)
    PROVE  r <= Far(c, j, Up(c, z))
  <1>1. PICK s \in 0 .. (c - 1), a \in 0 .. (c - 1) : s = Up(c, z) /\ a = Far(c, j, s)
    <2>1. PICK s \in 0 .. (c - 1) : s = Up(c, z) BY FarFacts
    <2>2. Far(c, j, s) \in 0 .. (c - 1) BY FarFacts
    <2>3. QED BY <2>1, <2>2
  <1>2. SUFFICES ASSUME r > a PROVE FALSE BY <1>1
  <1>3. j # z
    <2>1. Far(c, z, s) = c - 1 BY <1>1, FarFacts
    <2>2. QED BY <1>1, <1>2, <2>1
  <1>4. a = Far(c, j, z) - 1 /\ Far(c, j, z) \in 0 .. (c - 1) BY <1>1, <1>3, FarFacts
  <1>5. ~IsEmpty(t[z]) BY <1>2, <1>3, <1>4 DEF FitsIn
  <1>6. QED BY <1>5

\* The homes of the buckets before slot x are not behind the home of one that
\* fits into it, as seen from a slot s they are all behind.
LEMMA HomesSorted ==
    ASSUME NEW c \in Nat, c > 1, NEW t, NEW x \in 0 .. (c - 1), NEW j \in 0 .. (c - 1), NEW s \in 0 .. (c - 1),
           NEW n \in Nat, FitsIn(t, c, {}, x, n), n <= Far(c, x, s), Far(c, j, s) < Far(c, x, s),
           NEW g \in 0 .. (c - 1), t[j].probe_length = Far(c, j, g), Far(c, j, g) <= Far(c, j, s)
    PROVE  Far(c, g, s) <= Far(c, x, s) - n
  <1>1. PICK a \in Nat, r \in Nat, l \in Nat : a = Far(c, j, s) /\ r = Far(c, j, g) /\ l = Far(c, x, s)
    <2>1. Far(c, j, s) \in Nat /\ Far(c, j, g) \in Nat /\ Far(c, x, s) \in Nat BY FarFacts
    <2>2. QED BY <2>1
  <1>2. Far(c, g, s) = a - r BY <1>1, FarFacts
  <1>3. Far(c, x, j) = l - a BY <1>1, FarFacts
  <1>4. j # x BY <1>1
  <1>5. l - a <= n => n <= r + (l - a) BY <1>1, <1>3, <1>4 DEF FitsIn
  <1>6. a - r <= l - n BY <1>1, <1>5
  <1>7. QED BY <1>1, <1>2, <1>6

\* The slot n behind slot s.
LEMMA SlotBehind ==
    ASSUME NEW c \in Nat, NEW s \in 0 .. (c - 1), NEW n \in 0 .. (c - 1)
    PROVE  \E i \in 0 .. (c - 1) : Far(c, i, s) = n
  <1>1. CASE s + n < c
    <2>1. s + n \in 0 .. (c - 1) /\ Far(c, s + n, s) = n BY <1>1 DEF Far
    <2>2. QED BY <2>1
  <1>2. CASE s + n >= c
    <2>1. s + n - c \in 0 .. (c - 1) /\ Far(c, s + n - c, s) = n BY <1>2 DEF Far
    <2>2. QED BY <2>1
  <1>3. QED BY <1>1, <1>2

\* More pigeons than holes.
LEMMA Pigeons ==
    ASSUME NEW a \in Nat, NEW b \in Int, b < a, b >= -1, NEW f \in [0 .. a -> 0 .. b]
    PROVE  \E i, j \in 0 .. a : i # j /\ f[i] = f[j]
  <1>1. IsFiniteSet(0 .. a) /\ Cardinality(0 .. a) = a + 1
    <2>1. 0 \in Int /\ a \in Int /\ ~(0 > a) OBVIOUS
    <2>2. IsFiniteSet(0 .. a) /\ Cardinality(0 .. a) = IF 0 > a THEN 0 ELSE a - 0 + 1 BY <2>1, FS_Interval
    <2>3. QED BY <2>1, <2>2
  <1>2. IsFiniteSet(0 .. b) /\ Cardinality(0 .. b) = b + 1
    <2>1. 0 \in Int OBVIOUS
    <2>2. IsFiniteSet(0 .. b) /\ Cardinality(0 .. b) = IF 0 > b THEN 0 ELSE b - 0 + 1 BY <2>1, FS_Interval
    <2>3. QED BY <2>2
  <1>3. Cardinality(0 .. b) < Cardinality(0 .. a) BY <1>1, <1>2
  <1>4. QED BY <1>1, <1>2, <1>3, FS_PigeonHole

\* The limit of the old table holds in the new one.  Let s be the slot behind
\* the last empty one before x.  The buckets from s to x have their homes no
\* farther behind s than the home of the one at x, and their places in the old
\* table were near these homes: there are not enough such places, unless the
\* one at x is near its home too.
LEMMA DoubledShort ==
    ASSUME NEW c \in Nat, c > 1, NEW d \in Nat, d > 1, d = 2 * c, NEW t \in [0 .. (d - 1) -> Buckets],
           OrderIn(t, d, {}), UniqueIn(t, d, {}), hash \in [Keys -> HashValues],
           ExactIn(t, d), NEW x \in 0 .. (d - 1), NEW m \in Buckets, m.key \in Keys, m.key \notin KeysIn(t, d, {}),
           NEW n \in Nat, n = m.probe_length, n = Far(d, x, HomeIn(d, m.key)), FitsIn(t, d, {}, x, n),
           NEW e \in 0 .. (d - 1), IsEmpty(t[e]), NEW S, m.key \in S, KeysWithin(t, d, S), NEW pos, PlacesIn(S, pos, c)
    PROVE  n < MaxProbes(c)
  <1> DEFINE D == 0 .. (d - 1)
  <1>0. c \in Nat \ {0} /\ d \in Nat \ {0} OBVIOUS
  <1>1. PICK z \in D : IsEmpty(t[z]) /\ \A j \in D : Far(d, j, Up(d, z)) < Far(d, x, Up(d, z)) => ~IsEmpty(t[j])
    BY LastEmpty
  <1>2. PICK s \in D : s = Up(d, z) BY FarFacts
  <1>3. PICK last \in 0 .. (d - 1) : last = Far(d, x, s)
    <2>1. Far(d, x, s) \in 0 .. (d - 1) BY FarFacts
    <2>2. QED BY <2>1
  <1>4. PICK h \in D : h = HomeIn(d, m.key) BY <1>0, HomeSlot
  <1>5. n \in 0 .. (d - 1) /\ n <= last /\ Far(d, h, s) = last - n
    <2>1. Far(d, x, h) \in 0 .. (d - 1) BY FarFacts
    <2>2. n \in 0 .. (d - 1) BY <1>4, <2>1
    <2>3. n <= last BY <1>1, <1>2, <1>3, <2>2, HomeBehindEmpty
    <2>4. n = Far(d, x, h) BY <1>4
    <2>5. Far(d, h, s) = Far(d, x, s) - Far(d, x, h)
      <3>1. Far(d, x, h) <= Far(d, x, s) BY <1>3, <2>3, <2>4
      <3>2. QED BY <1>0, <3>1, FarSub
    <2>6. QED BY <1>3, <2>2, <2>3, <2>4, <2>5
  <1> DEFINE At(i) == CHOOSE j \in D : Far(d, j, s) = i
             K == [i \in 0 .. last |-> IF i = last THEN m.key ELSE t[At(i)].key]
  <1>7. ASSUME NEW i \in 0 .. last PROVE At(i) \in D /\ Far(d, At(i), s) = i
    <2>1. i \in 0 .. (d - 1) BY <1>3
    <2>2. \E j \in D : Far(d, j, s) = i BY <1>2, <2>1, SlotBehind
    <2>3. QED BY <2>2
  <1> HIDE DEF At
  <1>8. ASSUME NEW i \in 0 .. last, i # last
        PROVE  /\ At(i) \in UsedIn(t, d) /\ K[i] = t[At(i)].key /\ K[i] \in Keys /\ K[i] \in S
               /\ Far(d, HomeIn(d, K[i]), s) <= last - n
    <2>1. PICK j \in D : j = At(i) /\ Far(d, j, s) = i BY <1>7
    <2>2. ~IsEmpty(t[j]) BY <1>1, <1>2, <1>3, <1>8, <2>1
    <2>3. j \in UsedIn(t, d) BY <2>2 DEF UsedIn
    <2>4. t[j].key \in Keys BY <2>2, BucketFacts
    <2>5. K[i] = t[j].key BY <1>8, <2>1
    <2>6. t[j].key \in S BY <2>3 DEF KeysWithin
    <2>7. PICK g \in D : g = HomeIn(d, t[j].key) BY <1>0, <2>4, HomeSlot
    <2>8. t[j].probe_length = Far(d, j, g) BY <2>3, <2>7 DEF ExactIn
    <2>9. PICK r \in 0 .. (d - 1) : r = Far(d, j, g)
      <3>1. Far(d, j, g) \in 0 .. (d - 1) BY FarFacts
      <3>2. QED BY <3>1
    <2>10. FitsIn(t, d, {}, j, r) BY <2>3, <2>8, <2>9 DEF OrderIn
    <2>11. r <= Far(d, j, s) BY <1>1, <1>2, <2>10, HomeBehindEmpty
    <2>12. Far(d, g, s) <= Far(d, x, s) - n
      <3>1. n <= Far(d, x, s) /\ Far(d, j, s) < Far(d, x, s) /\ Far(d, j, g) <= Far(d, j, s)
        BY <1>3, <1>5, <1>8, <2>1, <2>9, <2>11
      <3>2. QED BY <2>8, <3>1, HomesSorted
    <2>13. QED BY <1>3, <2>1, <2>3, <2>4, <2>5, <2>6, <2>7, <2>12
  <1>9. ASSUME NEW i \in 0 .. last
        PROVE K[i] \in Keys /\ K[i] \in S /\ Far(d, HomeIn(d, K[i]), s) <= last - n
    BY <1>4, <1>5, <1>8
  <1>10. ASSUME NEW i \in 0 .. last, NEW j \in 0 .. last, K[i] = K[j] PROVE i = j
    <2>0. \A l \in UsedIn(t, d) : t[l].key # m.key BY DEF KeysIn
    <2>1. CASE i # last /\ j # last
      <3>1. At(i) = At(j) BY <1>8, <1>10, <2>1 DEF UniqueIn
      <3>2. QED BY <1>7, <3>1
    <2>2. CASE i = last /\ j # last BY <1>8, <1>10, <2>0, <2>2
    <2>3. CASE i # last /\ j = last BY <1>8, <1>10, <2>0, <2>3
    <2>4. QED BY <2>1, <2>2, <2>3
  <1> DEFINE f == [i \in 0 .. last |-> Far(d, HomeIn(d, K[i]), s) + Far(c, pos[K[i]], HomeIn(c, K[i]))]
  <1> HIDE DEF K
  <1>11. PICK lim \in Nat : lim = MaxProbes(c) BY MaxProbesFacts
  <1>12. ASSUME NEW i \in 0 .. last
         PROVE  f[i] \in 0 .. (last - n + lim - 1) /\ (s + f[i]) % c = pos[K[i]]
    <2>1. PICK k \in Keys : k = K[i] BY <1>9
    <2>2. PICK g \in D, q \in 0 .. (c - 1), p \in 0 .. (c - 1) :
             g = HomeIn(d, k) /\ q = HomeIn(c, k) /\ p = pos[k]
      BY <1>0, <1>9, <2>1, HomeSlot DEF PlacesIn
    <2>3. g % c = q
      <3>1. hash[k] \in Nat
        <4>1. HashValues \subseteq Nat BY HashMapAssumption DEF HashMapAssumption
        <4>2. QED BY <4>1
      <3>2. (hash[k] % (2 * c)) % c = hash[k] % c BY <3>1, HalfHome
      <3>3. QED BY <2>2, <3>2 DEF HomeIn
    <2>4. f[i] = Far(d, g, s) + Far(c, p, q) BY <2>1, <2>2
    <2>5. Far(d, g, s) \in 0 .. (last - n) BY <1>9, <2>1, <2>2, FarFacts
    <2>6. Far(c, p, q) \in 0 .. (lim - 1)
      <3>1. Far(c, p, q) \in 0 .. (c - 1) BY FarFacts
      <3>2. Far(c, p, q) < lim BY <1>9, <1>11, <2>1, <2>2 DEF PlacesIn
      <3>3. QED BY <3>1, <3>2
    <2>7. (s + Far(2 * c, g, s) + Far(c, p, g % c)) % c = p BY OldPlace
    <2>8. PICK a \in 0 .. (last - n), b \in 0 .. (lim - 1) : a = Far(d, g, s) /\ b = Far(c, p, q)
      BY <2>5, <2>6
    <2>9. f[i] = a + b BY <2>4, <2>8
    <2>10. (s + a + b) % c = p
      <3>1. Far(2 * c, g, s) = a /\ Far(c, p, g % c) = b BY <2>3, <2>8
      <3>2. QED BY <2>7, <3>1
    <2>11. s + a + b = s + (a + b) /\ a + b \in 0 .. (last - n + lim - 1)
      <3>1. s \in Int /\ a \in Int /\ b \in Int /\ lim \in Int /\ last - n \in Int BY <1>5, <1>11
      <3>2. s + a + b = s + (a + b) BY <3>1
      <3>3. a + b >= 0 /\ a + b <= last - n + lim - 1 BY <3>1
      <3>4. QED BY <3>1, <3>2, <3>3
    <2>12. (s + f[i]) % c = p BY <2>9, <2>10, <2>11
    <2>13. f[i] \in 0 .. (last - n + lim - 1) BY <2>9, <2>11
    <2>14. QED BY <2>1, <2>2, <2>12, <2>13
  <1>13. ASSUME NEW i \in 0 .. last, NEW j \in 0 .. last, f[i] = f[j] PROVE i = j
    <2>1. pos[K[i]] = pos[K[j]] BY <1>12, <1>13
    <2>2. K[i] = K[j] BY <1>9, <2>1 DEF PlacesIn
    <2>3. QED BY <1>10, <2>2
  <1>14. SUFFICES ASSUME n >= lim PROVE FALSE BY <1>11
  <1>15. f \in [0 .. last -> 0 .. (last - n + lim - 1)] BY <1>12
  <1> HIDE DEF f
  <1>16. PICK top \in Int : top = last - n + lim - 1 /\ top >= -1 /\ top < last BY <1>5, <1>14
  <1>17. \E i, j \in 0 .. last : i # j /\ f[i] = f[j]
    <2>1. last \in Nat BY <1>3
    <2>2. f \in [0 .. last -> 0 .. top] BY <1>15, <1>16
    <2>3. top \in Int /\ top < last /\ top >= -1 BY <1>16
    <2>4. PICK q \in [0 .. last -> 0 .. top] : q = f BY <2>2
    <2>5. \E i, j \in 0 .. last : i # j /\ q[i] = q[j] BY <2>1, <2>3, Pigeons
    <2>6. QED BY <2>4, <2>5, Zenon
  <1>18. QED BY <1>13, <1>17

-----------------------------------------------------------------------------
(* The inductive invariant *)

TableKeys == KeysIn(table, capacity, Hole)
OldKeys   == {old[i].key : i \in DOMAIN old}
MovedKeys == IF IsEmpty(moved) THEN {} ELSE {moved.key}
MapKeys   == TableKeys \cup OldKeys \cup MovedKeys

HomeFar(i, k) == Far(capacity, i, HomeIn(capacity, k))

Good == GoodIn(table, capacity, Hole) /\ (capacity # 0 => IsPow2(capacity))

\* The load the code allows, and the bucket an insertion will need.
Room ==
    /\ pc \notin {"insert", "grow"} => 10 * size <= 9 * capacity
    /\ pc = "insert" => 10 * (size + 1) <= 9 * capacity
    /\ pc = "grow" =>
          10 * (size + Cardinality(DOMAIN old) + (IF IsEmpty(moved) THEN 0 ELSE 1) + 1) <= 9 * capacity

\* The keys of the map had their places within the limit in a table of half
\* the size.
Doubled ==
    \E c \in Nat : c > 1 /\ capacity = 2 * c /\ \E pos : PlacesIn(MapKeys, pos, c)

Growing ==
    pc = "grow" =>
        /\ \A i, j \in DOMAIN old : old[i].key = old[j].key => i = j
        /\ TableKeys \cap OldKeys = {} /\ MovedKeys \cap (TableKeys \cup OldKeys) = {}
        /\ ~IsEmpty(moved) => FitsIn(table, capacity, {}, index, moved.probe_length)
        /\ again => entry.key \notin MapKeys
        /\ ~again => entry.key = key
        /\ Doubled

\* The bucket in hand is new to the table once hashmap_insert_bucket runs, or
\* once the argument of hashmap_insert has got its place; until then that
\* argument may be in the table, but not before `index`.
Inserting ==
    pc = "insert" =>
        /\ FitsIn(table, capacity, {}, index, entry.probe_length)
        /\ again \/ entry.key # key => entry.key \notin TableKeys
        /\ ~again /\ entry.key # key =>
              /\ Passed(key, HomeFar(index, key))
              /\ \E p \in UsedIn(table, capacity) :
                    table[p].key = key /\ HomeFar(p, key) < HomeFar(index, key)
        /\ ~again /\ entry.key = key =>
              \A p \in UsedIn(table, capacity) :
                  table[p].key = key => entry.probe_length <= HomeFar(p, key)

\* A search has not passed its key.
Searching ==
    pc \in {"get", "remove", "update"} =>
        /\ \A p \in UsedIn(table, capacity) :
              table[p].key = key =>
                  /\ HomeFar(index, key) <= HomeFar(p, key)
                  /\ pc # "update" => probe = HomeFar(index, key)
        /\ pc = "update" => key \in TableKeys

Iterated ==
    seen = IF pc = "iterate" THEN {table[i].key : i \in {j \in UsedIn(table, capacity) : j < index}}
           ELSE {}

\* Nothing is in hand but in an insertion.
Fresh == pc \notin {"insert", "grow"} => again = FALSE /\ entry = Empty

OrderInv == MapInv /\ Fresh /\ Good /\ Room /\ Growing /\ Inserting /\ Searching /\ Iterated

\* Distances from the home of a key.
LEMMA HomeFacts ==
    ASSUME MapInv, capacity > 1
    PROVE  /\ capacity \in Nat /\ capacity \in Nat \ {0} /\ Slots = 0 .. (capacity - 1)
           /\ table \in [0 .. (capacity - 1) -> Buckets] /\ hash \in [Keys -> HashValues]
           /\ \A k \in Keys : HomeIn(capacity, k) \in 0 .. (capacity - 1)
           /\ \A i \in 0 .. (capacity - 1), k \in Keys : HomeFar(i, k) \in 0 .. (capacity - 1)
           /\ UsedIn(table, capacity) \subseteq 0 .. (capacity - 1)
           /\ \A i \in UsedIn(table, capacity) :
                 table[i].key \in Keys /\ table[i] \in Buckets /\ ~IsEmpty(table[i])
           /\ pc # "shift" => /\ Filled = UsedIn(table, capacity) /\ Hole = {}
                              /\ \A i \in UsedIn(table, capacity) :
                                    table[i].probe_length = HomeFar(i, table[i].key)
  <1>1. /\ capacity \in Nat /\ capacity \in Nat \ {0} /\ Slots = 0 .. (capacity - 1)
        /\ table \in [0 .. (capacity - 1) -> Buckets] /\ hash \in [Keys -> HashValues]
    BY DEF MapInv, Types, Slots
  <1>2. \A k \in Keys : HomeIn(capacity, k) \in 0 .. (capacity - 1) BY <1>1, HomeSlot
  <1>3. \A i \in 0 .. (capacity - 1), k \in Keys : HomeFar(i, k) \in 0 .. (capacity - 1)
    BY <1>1, <1>2, FarFacts DEF HomeFar
  <1>4. UsedIn(table, capacity) \subseteq 0 .. (capacity - 1) BY DEF UsedIn
  <1>5. \A i \in UsedIn(table, capacity) :
           table[i].key \in Keys /\ table[i] \in Buckets /\ ~IsEmpty(table[i])
    BY <1>1, BucketFacts DEF UsedIn
  <1>6. ASSUME pc # "shift"
        PROVE /\ Filled = UsedIn(table, capacity) /\ Hole = {}
              /\ \A i \in UsedIn(table, capacity) :
                    table[i].probe_length = HomeFar(i, table[i].key)
    BY <1>6 DEF Filled, Hole, MapInv, Exact, HomeFar
  <1>7. QED BY <1>1, <1>2, <1>3, <1>4, <1>5, <1>6

\* There is an empty slot.
LEMMA EmptySlot ==
    ASSUME MapInv, capacity > 1, pc # "shift", size < capacity
    PROVE  \E e \in 0 .. (capacity - 1) : IsEmpty(table[e])
  <1>1. Filled = UsedIn(table, capacity) /\ capacity \in Nat BY HomeFacts
  <1>2. SUFFICES ASSUME \A e \in 0 .. (capacity - 1) : ~IsEmpty(table[e]) PROVE FALSE
    OBVIOUS
  <1>3. UsedIn(table, capacity) = 0 .. (capacity - 1) BY <1>2 DEF UsedIn
  <1>4. Cardinality(0 .. (capacity - 1)) = capacity BY <1>1, FS_Interval
  <1>5. size = capacity BY <1>1, <1>3, <1>4 DEF MapInv, Exact
  <1>6. QED BY <1>1, <1>5

\* The invariant holds before hashmap_new.
LEMMA OrderInit == Init => OrderInv
  <1> SUFFICES ASSUME Init PROVE OrderInv
    OBVIOUS
  <1>1. MapInv BY InvInit
  <1>2. capacity = 0 /\ size = 0 /\ pc = "none" /\ seen = {} BY DEF Init
  <1>3. UsedIn(table, capacity) = {} BY <1>2 DEF UsedIn
  <1>4. Good BY <1>2, <1>3 DEF Good, GoodIn, OrderIn, UniqueIn, ShortIn
  <1>5. QED BY <1>1, <1>2, <1>4 DEF Init, OrderInv, Fresh, Room, Growing, Inserting, Searching, Iterated

\* A step that leaves the table alone, but not a grown one.
LEMMA SameTable ==
    ASSUME UNCHANGED <<capacity, table, size, hash>>, pc # "shift", pc' # "shift"
    PROVE  /\ Good => Good'
           /\ TableKeys' = TableKeys /\ TableKeys = KeysIn(table, capacity, {})
           /\ UsedIn(table, capacity)' = UsedIn(table, capacity)
           /\ \A i, k : HomeFar(i, k)' = HomeFar(i, k)
  <1>1. Hole' = Hole /\ Hole = {} BY DEF Hole
  <1>2. \A i, k : HomeFar(i, k)' = HomeFar(i, k) BY DEF HomeFar, Far, HomeIn
  <1>3. UsedIn(table, capacity)' = UsedIn(table, capacity) BY DEF UsedIn, IsEmpty
  <1>4. TableKeys' = TableKeys /\ TableKeys = KeysIn(table, capacity, {})
    BY <1>1, <1>3 DEF TableKeys, KeysIn
  <1>5. GoodIn(table, capacity, {})' = GoodIn(table, capacity, {})
    BY <1>3 DEF GoodIn, OrderIn, UniqueIn, ShortIn, FitsIn, Far, IsEmpty
  <1>6. Good => Good'
    <2>1. Good = (GoodIn(table, capacity, {}) /\ (capacity # 0 => IsPow2(capacity))) BY <1>1 DEF Good
    <2>2. Good' = (GoodIn(table, capacity, {})' /\ (capacity' # 0 => IsPow2(capacity'))) BY <1>1 DEF Good
    <2>3. QED BY <1>5, <2>1, <2>2
  <1>7. QED BY <1>2, <1>3, <1>4, <1>6

\* Such a step to a state where nothing is inserted or searched for.
LEMMA OrderQuiet ==
    ASSUME OrderInv, MapInv', Fresh', UNCHANGED mapVars, pc \notin {"shift", "grow"},
           pc' \in {"idle", "fault"}, seen' = {}
    PROVE  OrderInv'
  <1>1. Good' BY SameTable DEF OrderInv, mapVars
  <1>2. Room' BY DEF OrderInv, Room, mapVars, MapInv, Types
  <1>3. QED BY <1>1, <1>2 DEF OrderInv, Growing, Inserting, Searching, Iterated

\* hashmap_new makes an empty table.
LEMMA OrderNew ==
    ASSUME OrderInv, MapInv', NEW n \in Requests, HashMapNew(n)
    PROVE  OrderInv'
  <1>0. Fresh' BY DEF HashMapNew, OrderInv, Fresh
  <1>1. pc = "none" /\ capacity = 0 /\ pc' = "idle" /\ size' = size /\ seen' = seen
        /\ table' = EmptyTable(capacity')
    BY DEF HashMapNew, OrderInv, MapInv, Phases
  <1>2. IsPow2(capacity')
    <2>1. CASE n = 0
      <3>1. capacity' = 1024 BY <2>1 DEF HashMapNew
      <3>2. IsPow2(1) BY DEF IsPow2
      <3>3. IsPow2(2) /\ IsPow2(4) /\ IsPow2(8) BY <3>2, Pow2Double
      <3>4. IsPow2(16) /\ IsPow2(32) /\ IsPow2(64) BY <3>3, Pow2Double
      <3>5. IsPow2(128) /\ IsPow2(256) /\ IsPow2(512) BY <3>4, Pow2Double
      <3>6. IsPow2(2 * 512) BY <3>5, Pow2Double
      <3>7. 2 * 512 = 1024 OBVIOUS
      <3>8. QED BY <3>1, <3>6, <3>7
    <2>2. CASE n # 0
      <3>1. n \in Nat \ {0} BY <2>2, HashMapAssumption DEF HashMapAssumption
      <3>2. QED BY <2>2, <3>1, NewCapacityFacts DEF HashMapNew
    <2>3. QED BY <2>1, <2>2
  <1>3. capacity' \in Nat BY DEF MapInv, Types
  <1>4. UsedIn(table, capacity)' = {}
    <2>1. UsedIn(table', capacity') = {} BY <1>1, <1>3, EmptyTableFacts
    <2>2. QED BY <2>1
  <1>5. Good' BY <1>2, <1>4 DEF Good, GoodIn, OrderIn, UniqueIn, ShortIn
  <1>6. Room'
    <2>1. 10 * size <= 9 * 0 /\ size \in Nat BY <1>1 DEF OrderInv, Room, MapInv, Types
    <2>2. size' = 0 /\ pc' = "idle" BY <1>1, <2>1
    <2>3. PICK c \in Nat : c = capacity' BY <1>3
    <2>4. 10 * size' <= 9 * c BY <2>2
    <2>5. QED BY <2>2, <2>3, <2>4 DEF Room
  <1>7. QED BY <1>0, <1>1, <1>5, <1>6 DEF OrderInv, Growing, Inserting, Searching, Iterated

\* hashmap_free.
LEMMA OrderFree == ASSUME OrderInv, MapInv', HashMapFree PROVE OrderInv'
  <1>0. Fresh' BY DEF HashMapFree, OrderInv, Fresh
  <1>1. pc = "idle" /\ pc' = "none" /\ capacity' = 0 /\ size' = 0 /\ seen' = seen
    BY DEF HashMapFree
  <1>2. UsedIn(table, capacity)' = {} BY <1>1 DEF UsedIn
  <1>3. Good' BY <1>1, <1>2 DEF Good, GoodIn, OrderIn, UniqueIn, ShortIn
  <1>4. Room' BY <1>1 DEF Room
  <1>5. QED BY <1>0, <1>1, <1>3, <1>4 DEF OrderInv, Growing, Inserting, Searching, Iterated

\* A loop of calls of hashmap_iterate begins with nothing seen.
LEMMA OrderIterateBegin == ASSUME OrderInv, MapInv', HashMapIterate PROVE OrderInv'
  <1>0. Fresh' BY DEF HashMapIterate, OrderInv, Fresh
  <1>1. /\ pc = "idle" /\ pc' = "iterate" /\ UNCHANGED <<capacity, table, size, hash>> /\ seen' = seen
        /\ index' = index /\ index = 0
    BY DEF HashMapIterate, mapVars, callVars, OrderInv, MapInv, Phases
  <1>2. Good' BY <1>1, SameTable DEF OrderInv
  <1>3. Room' BY <1>1 DEF OrderInv, Room
  <1>4. Iterated'
    <2>1. \A j \in UsedIn(table, capacity)' : ~(j < index') BY <1>1 DEF UsedIn
    <2>2. seen' = {} BY <1>1 DEF OrderInv, Iterated
    <2>3. QED BY <2>1, <2>2 DEF Iterated
  <1>5. QED BY <1>0, <1>1, <1>2, <1>3, <1>4 DEF OrderInv, Growing, Inserting, Searching

\* A search begins at the home of its key.
LEMMA OrderBegin ==
    ASSUME OrderInv, MapInv', ~UpdateAbsent, NEW k \in Keys, NEW v,
           HashMapGet(k) \/ HashMapRemove(k) \/ HashMapUpdate(k, v)
    PROVE  OrderInv'
  <1>0. Fresh' BY DEF HashMapGet, HashMapRemove, HashMapUpdate, Begin, OrderInv, Fresh
  <1>1. /\ pc = "idle" /\ pc' \in {"get", "remove", "update"} /\ key' = k /\ index' = Home(k)
        /\ probe' = 0 /\ UNCHANGED <<capacity, table, size, hash>> /\ seen' = seen
        /\ (pc' = "update" => Present(k)) /\ capacity > 1
    BY DEF HashMapGet, HashMapRemove, HashMapUpdate, Begin, mapVars, OrderInv, MapInv, Phases
  <1>2. MapInv BY DEF OrderInv
  <1>3. /\ Good' /\ TableKeys' = TableKeys /\ TableKeys = KeysIn(table, capacity, {})
        /\ UsedIn(table, capacity)' = UsedIn(table, capacity)
        /\ \A i, l : HomeFar(i, l)' = HomeFar(i, l)
    BY <1>1, SameTable DEF OrderInv
  <1>4. Room' BY <1>1 DEF OrderInv, Room
  <1>5. Searching'
    <2>1. HomeIn(capacity, k) \in 0 .. (capacity - 1) /\ index' = HomeIn(capacity, k)
      BY <1>1, <1>2, HomeFacts, StateFacts
    <2>2. HomeFar(index', k) = 0 BY <1>1, <1>2, <2>1, HomeFacts, FarFacts DEF HomeFar
    <2>3. \A p \in UsedIn(table, capacity) : HomeFar(p, k) >= 0 BY <1>1, <1>2, HomeFacts
    <2>4. pc' = "update" => k \in TableKeys
      <3>1. SUFFICES ASSUME Present(k) PROVE k \in KeysIn(table, capacity, {}) BY <1>1, <1>3
      <3>2. PICK i \in Slots : table[i].key = k BY <3>1 DEF Present
      <3>3. k # NoKey BY HashMapAssumption DEF HashMapAssumption
      <3>4. i \in UsedIn(table, capacity) BY <3>2, <3>3 DEF UsedIn, IsEmpty, Slots
      <3>5. QED BY <3>2, <3>4 DEF KeysIn
    <2>5. \A p : HomeFar(p, key)' = HomeFar(p, k) BY <1>1 DEF HomeFar, Far, HomeIn
    <2>6. HomeFar(index, key)' = 0 BY <1>1, <2>2 DEF HomeFar, Far, HomeIn
    <2>7. QED BY <1>1, <1>3, <2>3, <2>4, <2>5, <2>6 DEF Searching
  <1>6. QED BY <1>0, <1>1, <1>3, <1>4, <1>5 DEF OrderInv, Growing, Inserting, Iterated

\* hashmap_grow begins: the keys of t have their places within the limit in t.
LEMMA OrderGrow ==
    ASSUME OrderInv, MapInv', capacity > 1, pc # "shift", NEW t, t \in [0 .. (capacity - 1) -> Buckets],
           UsedIn(t, capacity) = UsedIn(table, capacity), UniqueIn(t, capacity, {}),
           ShortIn(t, capacity, {}),
           \A i \in UsedIn(t, capacity) :
              t[i].probe_length = Far(capacity, i, HomeIn(capacity, t[i].key)),
           HashMapGrow(t), IsEmpty(moved), UNCHANGED <<hash, seen>>, 10 * size <= 9 * capacity,
           pc # "iterate", again' => entry'.key \notin KeysIn(t, capacity, {}),
           ~again' => entry'.key = key'
    PROVE  OrderInv'
  <1>1. MapInv /\ capacity \in Nat \ {0} /\ IsPow2(capacity) BY DEF OrderInv, Good, MapInv, Types
  <1>2. /\ capacity' = 2 * capacity /\ IsPow2(capacity') /\ pc' = "grow" /\ size' = 0
        /\ table' = EmptyTable(capacity') /\ moved' = moved /\ old' = InUse(t)
    BY <1>1, NewCapacityFacts DEF HashMapGrow
  <1>3. UsedIn(table, capacity)' = {} /\ IsEmpty(moved)'
    <2>1. capacity' \in Nat BY <1>1, <1>2
    <2>2. UsedIn(table', capacity') = {} BY <1>2, <2>1, EmptyTableFacts
    <2>3. QED BY <1>2, <2>2 DEF IsEmpty
  <1>4. Good' BY <1>2, <1>3 DEF Good, GoodIn, OrderIn, UniqueIn, ShortIn
  <1>5. DOMAIN old' = UsedIn(t, capacity) /\ \A i \in DOMAIN old' : old'[i] = t[i]
    BY <1>2 DEF InUse, UsedIn, Slots
  <1>6. Room'
    <2>1. size = Cardinality(DOMAIN old')
      <3>1. Filled = UsedIn(table, capacity) BY <1>1, HomeFacts
      <3>2. QED BY <1>1, <1>5, <3>1 DEF MapInv, Exact
    <2>2. size \in Nat BY <1>1 DEF MapInv, Types
    <2>3. 10 * (0 + size + 0 + 1) <= 9 * (2 * capacity) BY <1>1, <2>2
    <2>4. QED BY <1>2, <1>3, <2>1, <2>2, <2>3 DEF Room
  <1>7. MapKeys' = KeysIn(t, capacity, {}) /\ TableKeys' = {} /\ MovedKeys' = {}
    <2>1. TableKeys' = {} BY <1>3 DEF TableKeys, KeysIn
    <2>2. MovedKeys' = {} BY <1>3 DEF MovedKeys
    <2>3. OldKeys' = KeysIn(t, capacity, {}) BY <1>5 DEF OldKeys, KeysIn
    <2>4. QED BY <2>1, <2>2, <2>3 DEF MapKeys
  <1>8. Doubled'
    <2> DEFINE pos == [k \in Keys |-> CHOOSE i \in UsedIn(t, capacity) : t[i].key = k]
    <2>1. ASSUME NEW k \in KeysIn(t, capacity, {})
          PROVE k \in Keys /\ pos[k] \in UsedIn(t, capacity) /\ t[pos[k]].key = k
      <3>1. PICK i \in UsedIn(t, capacity) : k = t[i].key BY DEF KeysIn
      <3>2. k \in Keys BY <3>1, BucketFacts DEF UsedIn
      <3>3. QED BY <3>1, <3>2
    <2> HIDE DEF pos
    <2>2. ASSUME NEW k \in KeysIn(t, capacity, {})
          PROVE /\ pos[k] \in 0 .. (capacity - 1)
                /\ Far(capacity, pos[k], HomeIn(capacity, k)) < MaxProbes(capacity)
      BY <2>1 DEF UsedIn, ShortIn
    <2>3. \A k, l \in KeysIn(t, capacity, {}) : pos[k] = pos[l] => k = l BY <2>1
    <2>4. PICK c \in Nat : c = capacity BY <1>1
    <2>5. PICK places : places = pos OBVIOUS
    <2>6. PlacesIn(MapKeys', places, c) BY <1>7, <2>2, <2>3, <2>4, <2>5 DEF PlacesIn
    <2>7. PlacesIn(MapKeys, places, c)'
      <3>1. \A e, k : HomeIn(e, k)' = HomeIn(e, k) BY DEF HomeIn
      <3>2. QED BY <2>6, <3>1 DEF PlacesIn
    <2>8. QED BY <1>2, <2>4, <2>7 DEF Doubled
  <1>9. Growing'
    <2>1. \A i, j \in DOMAIN old' : old'[i].key = old'[j].key => i = j BY <1>5 DEF UniqueIn
    <2>2. QED BY <1>3, <1>7, <1>8, <2>1 DEF Growing
  <1>10. Iterated' BY <1>2 DEF OrderInv, Iterated
  <1>11. QED BY <1>2, <1>4, <1>6, <1>9, <1>10 DEF OrderInv, Fresh, Inserting, Searching

\* An insertion begins at the home of its key.
LEMMA OrderInsertBegins ==
    ASSUME OrderInv, MapInv', capacity > 1, pc \in {"idle", "grow"}, pc' = "insert",
           UNCHANGED <<capacity, table, size, hash, seen>>, 10 * (size + 1) <= 9 * capacity,
           entry'.probe_length = 0, entry'.key \in Keys, again' => entry'.key \notin TableKeys,
           ~again' => entry'.key = key', index' = HomeIn(capacity, entry'.key)
    PROVE  OrderInv'
  <1>1. MapInv BY DEF OrderInv
  <1>2. /\ Good' /\ TableKeys' = TableKeys
        /\ UsedIn(table, capacity)' = UsedIn(table, capacity)
        /\ \A i, l : HomeFar(i, l)' = HomeFar(i, l)
    BY SameTable DEF OrderInv
  <1>3. Room' BY DEF Room
  <1>4. capacity \in Nat /\ index' \in 0 .. (capacity - 1) BY <1>1, HomeFacts
  <1>5. FitsIn(table, capacity, {}, index, entry.probe_length)'
    <2>1. \A j \in 0 .. (capacity - 1) : j # index' => ~(Far(capacity, index', j) <= 0)
      <3>1. PICK x \in 0 .. (capacity - 1) : x = index' BY <1>4
      <3>2. ASSUME NEW j \in 0 .. (capacity - 1), j # x PROVE ~(Far(capacity, x, j) <= 0)
        <4>1. Far(capacity, x, j) > 0 BY <1>4, <3>2 DEF Far
        <4>2. QED BY <1>4, <4>1 DEF Far
      <3>3. QED BY <3>1, <3>2
    <2>2. FitsIn(table', capacity', {}, index', entry'.probe_length) BY <2>1 DEF FitsIn
    <2>3. QED BY <2>2
  <1>6. \A p \in UsedIn(table, capacity)' : 0 <= HomeFar(p, entry'.key)
    BY <1>1, <1>2, HomeFacts
  <1>7. ~again' => \A p \in UsedIn(table, capacity)' : entry'.probe_length <= HomeFar(p, key)'
    BY <1>6 DEF HomeFar, Far, HomeIn
  <1>8. Inserting' BY <1>2, <1>5, <1>7 DEF Inserting
  <1>9. Iterated' BY DEF OrderInv, Iterated
  <1>10. QED BY <1>2, <1>3, <1>8, <1>9 DEF OrderInv, Fresh, Growing, Searching

\* hashmap_insert begins, or grows the map first.
LEMMA OrderInsert ==
    ASSUME OrderInv, MapInv', NEW k \in Keys, NEW v \in Values, HashMapInsert(k, v)
    PROVE  OrderInv'
  <1>1. /\ pc = "idle" /\ key' = k /\ entry' = Bucket(k, v, 0) /\ capacity > 1 /\ IsEmpty(moved)
        /\ UNCHANGED <<hash, seen>> /\ again' = FALSE
    BY DEF HashMapInsert, OrderInv, MapInv, Phases, Fresh
  <1>2. MapInv /\ entry'.key = k /\ entry'.probe_length = 0 BY <1>1, NewBucketFacts DEF OrderInv
  <1>3. CASE Loaded
    <2>1. HashMapGrow(table) BY <1>3 DEF HashMapInsert
    <2>2. /\ Hole = {} /\ table \in [0 .. (capacity - 1) -> Buckets]
          /\ \A i \in UsedIn(table, capacity) :
                table[i].probe_length = Far(capacity, i, HomeIn(capacity, table[i].key))
      BY <1>1, <1>2, HomeFacts DEF HomeFar
    <2>3. UniqueIn(table, capacity, {}) /\ ShortIn(table, capacity, {})
      BY <2>2 DEF OrderInv, Good, GoodIn
    <2>4. 10 * size <= 9 * capacity BY <1>1 DEF OrderInv, Room
    <2>5. QED BY <1>1, <1>2, <2>1, <2>2, <2>3, <2>4, OrderGrow
  <1>4. CASE ~Loaded
    <2>1. pc' = "insert" /\ index' = Home(k) /\ UNCHANGED <<capacity, table, size>>
      BY <1>4 DEF HashMapInsert
    <2>2. index' = HomeIn(capacity, k) BY <1>1, <1>2, <2>1, StateFacts
    <2>3. 10 * (size + 1) <= 9 * capacity BY <1>2, <1>4 DEF Loaded, MapInv, Types
    <2>4. QED BY <1>1, <1>2, <2>1, <2>2, <2>3, OrderInsertBegins
  <1>5. QED BY <1>3, <1>4

\* The end of hashmap_grow, with a table that is not loaded.
LEMMA OrderGrowReturn == ASSUME OrderInv, MapInv', GrowReturn PROVE OrderInv'
  <1>1. /\ pc = "grow" /\ capacity > 1 /\ IsEmpty(moved) /\ DOMAIN old = {} /\ key' = entry.key
        /\ entry' = [entry EXCEPT !.probe_length = 0] /\ entry.key \in Keys
        /\ UNCHANGED <<hash, again, seen>>
    BY DEF GrowReturn, OrderInv, MapInv, Phases
  <1>2. MapInv /\ capacity \in Nat /\ size \in Nat /\ entry \in Buckets BY DEF OrderInv, MapInv, Types
  <1>3. entry'.key = entry.key /\ entry'.probe_length = 0 BY <1>1, <1>2, BucketFacts
  <1>4. 10 * (size + 1) <= 9 * capacity
    <2>1. Cardinality(DOMAIN old) = 0 BY <1>1, FS_EmptySet
    <2>2. 10 * (size + 0 + 0 + 1) <= 9 * capacity BY <1>1, <2>1 DEF OrderInv, Room
    <2>3. QED BY <1>2, <2>2
  <1>5. ~Loaded BY <1>2, <1>4 DEF Loaded
  <1>6. pc' = "insert" /\ index' = Home(entry.key) /\ UNCHANGED <<capacity, table, size>>
    BY <1>5 DEF GrowReturn
  <1>7. index' = HomeIn(capacity, entry.key) BY <1>1, <1>2, <1>6, StateFacts
  <1>8. again => entry.key \notin TableKeys BY <1>1 DEF OrderInv, Growing, MapKeys
  <1>9. again' => entry'.key \notin TableKeys BY <1>1, <1>3, <1>8
  <1>10. QED BY <1>1, <1>3, <1>4, <1>6, <1>7, <1>9, OrderInsertBegins

\* hashmap_grow takes the next bucket, which fits into its home.
LEMMA OrderGrowNext == ASSUME OrderInv, MapInv', GrowNext PROVE OrderInv'
  <1>1. /\ pc = "grow" /\ pc' = "grow" /\ IsEmpty(moved) /\ capacity > 1
        /\ UNCHANGED <<capacity, size, table, hash, key, entry, again, seen>>
    BY DEF GrowNext, mapVars, OrderInv, MapInv, Phases
  <1>2. PICK i \in DOMAIN old : /\ moved' = [old[i] EXCEPT !.probe_length = 0]
                                /\ old' = [j \in DOMAIN old \ {i} |-> old[j]]
    BY DEF GrowNext
  <1>3. MapInv /\ old[i] \in Buckets /\ old[i].key \in Keys /\ IsFiniteSet(DOMAIN old)
    BY DEF OrderInv, MapInv, Types, Phases
  <1>4. moved'.key = old[i].key /\ moved'.probe_length = 0 /\ ~IsEmpty(moved')
    <2>1. moved'.key = old[i].key /\ moved'.probe_length = 0 BY <1>2, <1>3, BucketFacts
    <2>2. moved'.key # NoKey BY <1>3, <2>1, HashMapAssumption DEF HashMapAssumption
    <2>3. QED BY <2>1, <2>2 DEF IsEmpty
  <1>5. DOMAIN old' = DOMAIN old \ {i} /\ \A j \in DOMAIN old' : old'[j] = old[j] BY <1>2
  <1>6. /\ Good' /\ TableKeys' = TableKeys /\ UsedIn(table, capacity)' = UsedIn(table, capacity)
    BY <1>1, SameTable DEF OrderInv
  <1>7. Room'
    <2>1. /\ Cardinality(DOMAIN old') = Cardinality(DOMAIN old) - 1
          /\ Cardinality(DOMAIN old) \in Nat /\ size \in Nat /\ capacity \in Nat
      BY <1>3, <1>5, FS_RemoveElement, FS_CardinalityType DEF MapInv, Types
    <2>2. 10 * (size + Cardinality(DOMAIN old) + 0 + 1) <= 9 * capacity
      BY <1>1 DEF OrderInv, Room
    <2>3. 10 * (size' + Cardinality(DOMAIN old') + 1 + 1) <= 9 * capacity' BY <1>1, <2>1, <2>2
    <2>4. QED BY <1>1, <1>4, <2>3 DEF Room, IsEmpty
  <1>8. MovedKeys' = {old[i].key} /\ MovedKeys = {}
    <2>1. MovedKeys' = {moved'.key} BY <1>4 DEF MovedKeys, IsEmpty
    <2>2. MovedKeys = {} BY <1>1 DEF MovedKeys
    <2>3. QED BY <1>4, <2>1, <2>2
  <1>9. \A j, l \in DOMAIN old : old[j].key = old[l].key => j = l BY <1>1 DEF OrderInv, Growing
  <1>10. OldKeys' = OldKeys \ {old[i].key} /\ old[i].key \in OldKeys
    BY <1>5, <1>9 DEF OldKeys
  <1>11. MapKeys' = MapKeys BY <1>6, <1>8, <1>10 DEF MapKeys
  <1>12. FitsIn(table, capacity, {}, index, moved.probe_length)'
    <2>1. capacity \in Nat /\ index' \in 0 .. (capacity - 1)
      <3>1. index' = Home(old[i].key) BY <1>4 DEF GrowNext
      <3>2. QED BY <1>1, <1>3, <3>1, StateFacts
    <2>2. PICK x \in 0 .. (capacity - 1) : x = index' BY <2>1
    <2>3. ASSUME NEW j \in 0 .. (capacity - 1), j # x PROVE ~(Far(capacity, x, j) <= 0)
      <3>1. Far(capacity, x, j) > 0 BY <2>1, <2>3 DEF Far
      <3>2. QED BY <2>1, <3>1 DEF Far
    <2>4. FitsIn(table', capacity', {}, index', moved'.probe_length) BY <1>1, <1>4, <2>2, <2>3 DEF FitsIn
    <2>5. QED BY <2>4
  <1>13. Doubled'
    <2>1. Doubled BY <1>1 DEF OrderInv, Growing
    <2>2. \A c, k : HomeIn(c, k)' = HomeIn(c, k) BY <1>1 DEF HomeIn
    <2>3. QED BY <1>1, <1>11, <2>1, <2>2 DEF Doubled, PlacesIn
  <1>14. Growing'
    <2>1. \A j, l \in DOMAIN old' : old'[j].key = old'[l].key => j = l BY <1>5, <1>9
    <2>2. TableKeys' \cap OldKeys' = {} /\ MovedKeys' \cap (TableKeys' \cup OldKeys') = {}
      BY <1>1, <1>6, <1>8, <1>10 DEF OrderInv, Growing
    <2>3. (again => entry.key \notin MapKeys) /\ (~again => entry.key = key)
      BY <1>1 DEF OrderInv, Growing
    <2>4. QED BY <1>1, <1>11, <1>12, <1>13, <2>1, <2>2, <2>3 DEF Growing
  <1>15. Iterated' BY <1>1 DEF OrderInv, Iterated
  <1>16. QED BY <1>1, <1>6, <1>7, <1>14, <1>15 DEF OrderInv, Fresh, Inserting, Searching

\* The bucket m in hand at slot x meets one in use: p stays there, and w goes on.
Swap(t, x, m, w, p) ==
    \/ w = m /\ p = t[x] /\ m.probe_length <= t[x].probe_length
    \/ w = t[x] /\ p = m /\ m.probe_length > t[x].probe_length

\* The bucket in hand and the one at `index` change places, or do not.
LEMMA SwapGood ==
    ASSUME MapInv, capacity > 1, Hole = {}, Good, NEW x \in UsedIn(table, capacity),
           NEW m \in Buckets, ~IsEmpty(m), m.key \notin KeysIn(table, capacity, {}),
           m.probe_length < MaxProbes(capacity), FitsIn(table, capacity, {}, x, m.probe_length),
           NEW S, KeysWithin(table, capacity, S), m.key \in S,
           NEW w, NEW p, NEW u, u = [table EXCEPT ![x] = p], Swap(table, x, m, w, p)
    PROVE  /\ GoodIn(u, capacity, {}) /\ w.key \notin KeysIn(u, capacity, {})
           /\ KeysWithin(u, capacity, S) /\ w.key \in S
           /\ w \in Buckets /\ ~IsEmpty(w)
           /\ FitsIn(u, capacity, {}, Up(capacity, x), w.probe_length + 1)
           /\ u[x] = p /\ \A j \in 0 .. (capacity - 1) : j # x => u[j] = table[j]
           /\ UsedIn(u, capacity) = UsedIn(table, capacity)
  <1>1. /\ capacity \in Nat /\ table \in [0 .. (capacity - 1) -> Buckets]
        /\ x \in 0 .. (capacity - 1) /\ table[x] \in Buckets /\ ~IsEmpty(table[x])
    BY HomeFacts
  <1>2. OrderIn(table, capacity, {}) /\ UniqueIn(table, capacity, {}) /\ ShortIn(table, capacity, {})
    BY DEF Good, GoodIn
  <1>3. /\ w \in Buckets /\ ~IsEmpty(w) /\ p \in Buckets /\ ~IsEmpty(p)
        /\ w.probe_length <= p.probe_length /\ w.probe_length \in Nat
        /\ p.probe_length >= table[x].probe_length /\ p.probe_length < MaxProbes(capacity)
    <2>1. m.probe_length \in Nat /\ table[x].probe_length \in Nat BY <1>1, BucketFacts
    <2>2. table[x].probe_length < MaxProbes(capacity) BY <1>2 DEF ShortIn
    <2>3. CASE w = m /\ p = table[x] /\ m.probe_length <= table[x].probe_length
      BY <1>1, <2>1, <2>2, <2>3
    <2>4. CASE w = table[x] /\ p = m /\ m.probe_length > table[x].probe_length
      BY <1>1, <2>1, <2>2, <2>4
    <2>5. QED BY <2>3, <2>4 DEF Swap
  <1>4. FitsIn(table, capacity, {}, x, table[x].probe_length) BY <1>2 DEF OrderIn
  <1>5. /\ FitsIn(table, capacity, {}, x, w.probe_length)
        /\ FitsIn(table, capacity, {}, x, p.probe_length)
    BY <1>4 DEF Swap
  <1>6. OrderIn(u, capacity, {}) BY <1>1, <1>2, <1>3, <1>5, PutOrder
  <1>7. FitsIn(u, capacity, {}, Up(capacity, x), w.probe_length + 1) BY <1>1, <1>3, <1>5, FitsOn
  <1>8. UniqueIn(u, capacity, {}) /\ w.key \notin KeysIn(u, capacity, {})
    <2>1. (w = m /\ p = table[x]) \/ (w = table[x] /\ p = m) BY DEF Swap
    <2>2. /\ capacity \in Nat /\ table \in [0 .. (capacity - 1) -> Buckets]
          /\ UniqueIn(table, capacity, {})
      BY <1>1, <1>2
    <2>3. QED BY <2>1, <2>2, SwapKeys
  <1>9. /\ u[x] = p /\ \A j \in 0 .. (capacity - 1) : j # x => u[j] = table[j]
    BY <1>1, <1>3, PutUsed
  <1>10. UsedIn(u, capacity) = UsedIn(table, capacity) BY <1>1, <1>3, <1>9 DEF UsedIn
  <1>11. ShortIn(u, capacity, {})
    <2>1. ASSUME NEW i \in UsedIn(u, capacity) PROVE u[i].probe_length < MaxProbes(capacity)
      <3>1. i \in 0 .. (capacity - 1) BY DEF UsedIn
      <3>2. CASE i = x BY <1>3, <1>9, <3>2
      <3>3. CASE i # x
        <4>1. u[i] = table[i] /\ i \in UsedIn(table, capacity) BY <1>9, <1>10, <3>1, <3>3
        <4>2. QED BY <1>2, <4>1 DEF ShortIn
      <3>4. QED BY <3>2, <3>3
    <2>2. QED BY <2>1 DEF ShortIn
  <1>12. w.key \in S /\ p.key \in S BY DEF KeysWithin, Swap
  <1>13. KeysWithin(u, capacity, S)
    <2>1. ASSUME NEW i \in UsedIn(u, capacity) PROVE u[i].key \in S
      <3>1. i \in 0 .. (capacity - 1) BY DEF UsedIn
      <3>2. i # x => u[i] = table[i] /\ i \in UsedIn(table, capacity) BY <1>9, <1>10, <3>1
      <3>3. QED BY <1>9, <1>12, <3>2 DEF KeysWithin
    <2>2. QED BY <2>1 DEF KeysWithin
  <1>14. GoodIn(u, capacity, {}) BY <1>6, <1>8, <1>11 DEF GoodIn
  <1>15. QED BY <1>3, <1>7, <1>8, <1>9, <1>10, <1>12, <1>13, <1>14

\* A new bucket is put into an empty slot.
LEMMA PutGood ==
    ASSUME MapInv, capacity > 1, Hole = {}, Good, NEW x \in 0 .. (capacity - 1), IsEmpty(table[x]),
           NEW m \in Buckets, ~IsEmpty(m), m.key \notin KeysIn(table, capacity, {}),
           m.probe_length < MaxProbes(capacity), FitsIn(table, capacity, {}, x, m.probe_length),
           NEW S, KeysWithin(table, capacity, S), m.key \in S, NEW u, u = [table EXCEPT ![x] = m]
    PROVE  /\ GoodIn(u, capacity, {})
           /\ KeysWithin(u, capacity, S)
  <1>1. capacity \in Nat /\ table \in [0 .. (capacity - 1) -> Buckets] BY HomeFacts
  <1>2. OrderIn(table, capacity, {}) /\ UniqueIn(table, capacity, {}) /\ ShortIn(table, capacity, {})
    BY DEF Good, GoodIn
  <1>3. OrderIn(u, capacity, {}) BY <1>1, <1>2, PutOrder
  <1>4. \A j \in UsedIn(table, capacity) : table[j].key # m.key BY DEF KeysIn
  <1>5. UniqueIn(u, capacity, {}) BY <1>1, <1>2, <1>4, PutUnique
  <1>6. u[x] = m /\ \A j \in 0 .. (capacity - 1) : j # x => u[j] = table[j] BY <1>1, PutUsed
  <1>7. UsedIn(u, capacity) = UsedIn(table, capacity) \cup {x} /\ x \notin UsedIn(table, capacity)
        /\ UsedIn(table, capacity) \subseteq 0 .. (capacity - 1)
    BY <1>6 DEF UsedIn
  <1>8. ShortIn(u, capacity, {})
    <2>1. ASSUME NEW i \in UsedIn(u, capacity) PROVE u[i].probe_length < MaxProbes(capacity)
      <3>1. CASE i = x BY <1>6, <3>1
      <3>2. CASE i # x
        <4>1. u[i] = table[i] /\ i \in UsedIn(table, capacity) BY <1>6, <1>7, <3>2
        <4>2. QED BY <1>2, <4>1 DEF ShortIn
      <3>3. QED BY <3>1, <3>2
    <2>2. QED BY <2>1 DEF ShortIn
  <1>9. KeysWithin(u, capacity, S) BY <1>6, <1>7 DEF KeysWithin
  <1>10. QED BY <1>3, <1>5, <1>8, <1>9 DEF GoodIn

\* The bucket that hashmap_grow moves is within the limit.
LEMMA MovedShort ==
    ASSUME OrderInv, pc = "grow", ~IsEmpty(moved)
    PROVE  moved.probe_length < MaxProbes(capacity)
  <1>1. /\ MapInv /\ capacity > 1 /\ capacity \in Nat /\ moved \in Buckets /\ moved.key \in Keys
        /\ hash \in [Keys -> HashValues]
    BY BucketFacts DEF OrderInv, MapInv, Phases, Types
  <1>2. /\ table \in [0 .. (capacity - 1) -> Buckets] /\ Hole = {} /\ index \in 0 .. (capacity - 1)
        /\ ExactIn(table, capacity)
    BY <1>1, HomeFacts DEF HomeFar, ExactIn, MapInv, Phases
  <1>3. OrderIn(table, capacity, {}) /\ UniqueIn(table, capacity, {}) BY <1>2 DEF OrderInv, Good, GoodIn
  <1>4. PICK n \in Nat : n = moved.probe_length /\ n = Far(capacity, index, HomeIn(capacity, moved.key))
    <2>1. moved.probe_length \in Nat BY <1>1, BucketFacts
    <2>2. AtIndex(moved) BY <1>1 DEF MapInv, Loops
    <2>3. QED BY <2>1, <2>2 DEF AtIndex
  <1>5. TableKeys = KeysIn(table, capacity, {}) /\ MovedKeys = {moved.key}
    BY <1>2 DEF TableKeys, MovedKeys
  <1>6. moved.key \notin KeysIn(table, capacity, {}) /\ FitsIn(table, capacity, {}, index, n)
    BY <1>4, <1>5 DEF OrderInv, Growing
  <1>7. PICK c, pos : c \in Nat /\ c > 1 /\ capacity = 2 * c /\ PlacesIn(MapKeys, pos, c)
    BY DEF OrderInv, Growing, Doubled
  <1>8. moved.key \in MapKeys /\ KeysWithin(table, capacity, MapKeys)
    BY <1>5 DEF MapKeys, KeysIn, KeysWithin
  <1>9. PICK e \in 0 .. (capacity - 1) : IsEmpty(table[e])
    <2>1. size < capacity
      <3>1. /\ Cardinality(DOMAIN old) \in Nat /\ size \in Nat
            /\ 10 * (size + Cardinality(DOMAIN old) + 1 + 1) <= 9 * capacity
        BY <1>1, FS_CardinalityType DEF MapInv, Types, OrderInv, Room
      <3>2. QED BY <1>1, <3>1
    <2>2. QED BY <1>1, <2>1, EmptySlot
  <1>11. n < MaxProbes(c)
    BY <1>1, <1>2, <1>3, <1>4, <1>6, <1>7, <1>8, <1>9, DoubledShort
  <1>12. MaxProbes(c) \in Nat /\ MaxProbes(capacity) \in Nat /\ MaxProbes(c) <= MaxProbes(capacity)
    <2>1. c \in 2 .. capacity BY <1>7
    <2>2. MaxProbes(c) \in 1 .. (c - 1) /\ MaxProbes(capacity) \in 1 .. (capacity - 1)
          /\ MaxProbes(c) <= MaxProbes(capacity)
      BY <1>1, <1>7, <2>1, MaxProbesFacts
    <2>3. QED BY <2>2
  <1>13. QED BY <1>4, <1>11, <1>12

\* The table is written with a good one.
LEMMA NextTable ==
    ASSUME Good, UNCHANGED <<capacity, hash>>, pc' # "shift", NEW u, table' = u, GoodIn(u, capacity, {})
    PROVE  /\ Good'
           /\ TableKeys' = KeysIn(u, capacity, {})
           /\ UsedIn(table, capacity)' = UsedIn(u, capacity)
           /\ \A i, k : HomeFar(i, k)' = HomeFar(i, k)
  <1>1. Hole' = {} BY DEF Hole
  <1>2. \A i, k : HomeFar(i, k)' = HomeFar(i, k) BY DEF HomeFar, Far, HomeIn
  <1>3. UsedIn(table, capacity)' = UsedIn(u, capacity)
    <2>1. UsedIn(table', capacity') = UsedIn(u, capacity) OBVIOUS
    <2>2. QED BY <2>1
  <1>4. TableKeys' = KeysIn(u, capacity, {})
    <2>1. TableKeys' = KeysIn(table', capacity', Hole') BY DEF TableKeys
    <2>2. QED BY <1>1, <2>1
  <1>5. Good'
    <2>1. Good' = (GoodIn(table', capacity', Hole') /\ (capacity' # 0 => IsPow2(capacity'))) BY DEF Good
    <2>2. capacity # 0 => IsPow2(capacity) BY DEF Good
    <2>3. GoodIn(table', capacity', Hole') BY <1>1
    <2>4. QED BY <2>1, <2>2, <2>3
  <1>6. QED BY <1>2, <1>3, <1>4, <1>5

\* hashmap_move_entry goes on with, or has put down, the bucket in hand.
LEMMA GrowGoesOn ==
    ASSUME OrderInv, MapInv', pc = "grow", pc' = "grow", capacity > 1,
           UNCHANGED <<capacity, hash, key, entry, again, old, seen>>,
           ~IsEmpty(moved), NEW u, table' = u, GoodIn(u, capacity, {}),
           NEW S, S = TableKeys \cup MovedKeys, KeysWithin(u, capacity, S),
           \/ IsEmpty(moved') /\ size' = size + 1
           \/ /\ ~IsEmpty(moved') /\ size' = size /\ moved'.key \in S
              /\ moved'.key \notin KeysIn(u, capacity, {})
              /\ FitsIn(u, capacity, {}, index', moved'.probe_length)
    PROVE  OrderInv'
  <1>1. /\ Good' /\ TableKeys' = KeysIn(u, capacity, {}) /\ UsedIn(table, capacity)' = UsedIn(u, capacity)
    BY NextTable DEF OrderInv
  <1>2. Room'
    <2>1. /\ Cardinality(DOMAIN old) \in Nat /\ size \in Nat /\ capacity \in Nat
      BY FS_CardinalityType DEF OrderInv, MapInv, Types
    <2>2. 10 * (size + Cardinality(DOMAIN old) + 1 + 1) <= 9 * capacity
      BY DEF OrderInv, Room
    <2>3. 10 * (size' + Cardinality(DOMAIN old) + (IF IsEmpty(moved') THEN 0 ELSE 1) + 1) <= 9 * capacity
      BY <2>1, <2>2
    <2>4. QED BY <2>3 DEF Room, IsEmpty
  <1>3. TableKeys' \subseteq S BY <1>1 DEF KeysWithin, KeysIn
  <1>4. /\ OldKeys' = OldKeys /\ MovedKeys' \subseteq S /\ MovedKeys' \cap TableKeys' = {}
    BY <1>1 DEF OldKeys, MovedKeys, IsEmpty
  <1>5. S \cap OldKeys = {} BY DEF OrderInv, Growing
  <1>6. MapKeys' \subseteq MapKeys BY <1>3, <1>4 DEF MapKeys
  <1>7. Doubled'
    <2>1. PICK c, pos : c \in Nat /\ c > 1 /\ capacity = 2 * c /\ PlacesIn(MapKeys, pos, c)
      BY DEF OrderInv, Growing, Doubled
    <2>2. PlacesIn(MapKeys', pos, c) BY <1>6, <2>1 DEF PlacesIn
    <2>3. PlacesIn(MapKeys, pos, c)'
      <3>1. \A e, k : HomeIn(e, k)' = HomeIn(e, k) BY DEF HomeIn
      <3>2. QED BY <2>2, <3>1 DEF PlacesIn
    <2>4. QED BY <2>1, <2>3 DEF Doubled
  <1>8. ~IsEmpty(moved') => FitsIn(table', capacity', {}, index', moved'.probe_length)
    OBVIOUS
  <1>9. Growing'
    <2>1. \A i, j \in DOMAIN old' : old'[i].key = old'[j].key => i = j BY DEF OrderInv, Growing
    <2>2. TableKeys' \cap OldKeys' = {} /\ MovedKeys' \cap (TableKeys' \cup OldKeys') = {}
      BY <1>3, <1>4, <1>5
    <2>3. (again' => entry'.key \notin MapKeys') /\ (~again' => entry'.key = key')
      BY <1>6 DEF OrderInv, Growing
    <2>4. ~IsEmpty(moved)' => FitsIn(table, capacity, {}, index, moved.probe_length)'
      BY <1>8 DEF IsEmpty
    <2>5. QED BY <1>7, <2>1, <2>2, <2>3, <2>4 DEF Growing
  <1>10. Iterated' BY DEF OrderInv, Iterated
  <1>11. QED BY <1>1, <1>2, <1>9, <1>10 DEF OrderInv, Fresh, Inserting, Searching

\* One turn of hashmap_move_entry.
LEMMA OrderMoveEntry == ASSUME OrderInv, MapInv', MoveEntry PROVE OrderInv'
  <1>1. /\ pc = "grow" /\ pc' = "grow" /\ ~IsEmpty(moved) /\ capacity > 1 /\ index \in Slots
        /\ UNCHANGED <<capacity, hash, key, entry, again, old, seen>>
    BY DEF MoveEntry, OrderInv, MapInv, Phases
  <1>2. MapInv /\ Good BY DEF OrderInv
  <1>3. /\ capacity \in Nat /\ Slots = 0 .. (capacity - 1) /\ Hole = {}
        /\ table \in [0 .. (capacity - 1) -> Buckets]
    BY <1>1, <1>2, HomeFacts
  <1>4. moved \in Buckets /\ moved.probe_length < MaxProbes(capacity)
        /\ FitsIn(table, capacity, {}, index, moved.probe_length)
    BY <1>1, MovedShort DEF OrderInv, Growing, MapInv, Types
  <1>5. PICK S : S = TableKeys \cup MovedKeys OBVIOUS
  <1>6. TableKeys = KeysIn(table, capacity, {}) /\ MovedKeys = {moved.key}
    BY <1>1, <1>3 DEF TableKeys, MovedKeys
  <1>7. KeysWithin(table, capacity, S) /\ moved.key \in S BY <1>5, <1>6 DEF KeysWithin, KeysIn
  <1>8. moved.key \notin KeysIn(table, capacity, {}) BY <1>1, <1>6 DEF OrderInv, Growing
  <1>9. PICK x \in 0 .. (capacity - 1), m \in Buckets : x = index /\ m = moved BY <1>1, <1>3, <1>4
  <1>10. /\ ~IsEmpty(m) /\ m.key \notin KeysIn(table, capacity, {}) /\ m.probe_length < MaxProbes(capacity)
         /\ FitsIn(table, capacity, {}, x, m.probe_length) /\ m.key \in S
    BY <1>1, <1>4, <1>7, <1>8, <1>9
  <1>11. CASE IsEmpty(table[index])
    <2>1. PICK u : u = [table EXCEPT ![x] = m] OBVIOUS
    <2>2. table' = u /\ moved' = Empty /\ size' = size + 1 BY <1>9, <1>11, <2>1 DEF MoveEntry
    <2>3. GoodIn(u, capacity, {}) /\ KeysWithin(u, capacity, S)
      BY <1>1, <1>2, <1>3, <1>7, <1>9, <1>10, <1>11, <2>1, PutGood
    <2>4. IsEmpty(moved') BY <2>2, NewBucketFacts
    <2>5. QED BY <1>1, <1>5, <2>2, <2>3, <2>4, GrowGoesOn
  <1>12. CASE ~IsEmpty(table[index])
    <2>1. x \in UsedIn(table, capacity) BY <1>9, <1>12 DEF UsedIn
    <2>2. PICK w, p, u : /\ u = [table EXCEPT ![x] = p] /\ table' = u
                         /\ moved' = [w EXCEPT !.probe_length = @ + 1]
                         /\ Swap(table, x, m, w, p)
      <3>0. m.probe_length \in Nat /\ table[x].probe_length \in Nat BY <1>3, BucketFacts
      <3>1. CASE m.probe_length > table[x].probe_length
        <4>1. table' = [table EXCEPT ![x] = m] /\ moved' = [table[x] EXCEPT !.probe_length = @ + 1]
          BY <1>9, <1>12, <3>1 DEF MoveEntry
        <4>2. QED BY <3>1, <4>1 DEF Swap
      <3>2. CASE ~(m.probe_length > table[x].probe_length)
        <4>1. table' = table /\ moved' = [m EXCEPT !.probe_length = @ + 1]
          BY <1>9, <1>12, <3>2 DEF MoveEntry
        <4>2. table = [table EXCEPT ![x] = table[x]] BY <1>3
        <4>3. m.probe_length <= table[x].probe_length BY <3>0, <3>2
        <4>4. QED BY <4>1, <4>2, <4>3 DEF Swap
      <3>3. QED BY <3>1, <3>2
    <2>3. size' = size /\ index' = Up(capacity, x)
      BY <1>1, <1>2, <1>9, <1>12, StateFacts DEF MoveEntry
    <2>4. /\ GoodIn(u, capacity, {}) /\ w.key \notin KeysIn(u, capacity, {})
          /\ KeysWithin(u, capacity, S) /\ w.key \in S
          /\ w \in Buckets /\ ~IsEmpty(w)
          /\ FitsIn(u, capacity, {}, Up(capacity, x), w.probe_length + 1)
      <3>1. u = [table EXCEPT ![x] = p] /\ Swap(table, x, m, w, p) BY <2>2
      <3>2. KeysWithin(table, capacity, S) /\ capacity > 1 BY <1>1, <1>7
      <3>3. QED BY <1>2, <1>3, <1>10, <2>1, <3>1, <3>2, SwapGood, Zenon
    <2>5. moved'.key = w.key /\ moved'.probe_length = w.probe_length + 1 /\ ~IsEmpty(moved')
      <3>1. PICK d \in Nat : d = w.probe_length + 1 BY <2>4, BucketFacts
      <3>2. moved' = [w EXCEPT !.probe_length = d] BY <2>2, <3>1
      <3>3. moved'.key = w.key /\ moved'.probe_length = d BY <2>4, <3>2, BucketFacts
      <3>4. QED BY <2>4, <3>1, <3>3 DEF IsEmpty
    <2>6. /\ ~IsEmpty(moved') /\ size' = size /\ moved'.key \in S
          /\ moved'.key \notin KeysIn(u, capacity, {})
          /\ FitsIn(u, capacity, {}, index', moved'.probe_length)
      BY <2>3, <2>4, <2>5
    <2>7. QED BY <1>1, <1>5, <2>2, <2>4, <2>6, GrowGoesOn
  <1>13. QED BY <1>11, <1>12

\* One step on the way, and two slots.
LEMMA FarStep ==
    ASSUME NEW c \in Nat, c > 1, NEW x \in 0 .. (c - 1), NEW h \in 0 .. (c - 1)
    PROVE  /\ Far(c, x, h) \in 0 .. (c - 1) /\ Up(c, x) \in 0 .. (c - 1)
           /\ Far(c, x, h) < c - 1 => Far(c, Up(c, x), h) = Far(c, x, h) + 1
  BY DEF Far, Up

\* Different slots have different distances.
LEMMA FarApart ==
    ASSUME NEW c \in Nat, NEW x \in 0 .. (c - 1), NEW j \in 0 .. (c - 1), NEW h \in 0 .. (c - 1),
           Far(c, j, h) = Far(c, x, h)
    PROVE  j = x
  BY DEF Far

\* What the loop of an insertion finds.
LEMMA InsertFacts ==
    ASSUME OrderInv, InsertStep
    PROVE  /\ pc = "insert" /\ MapInv /\ Good /\ capacity > 1 /\ capacity \in Nat /\ Hole = {}
           /\ IsEmpty(moved) /\ index \in 0 .. (capacity - 1) /\ key \in Keys
           /\ table \in [0 .. (capacity - 1) -> Buckets] /\ index \in UsedIn(table, capacity)
           /\ entry \in Buckets /\ entry.key \in Keys /\ ~IsEmpty(entry) /\ entry.probe_length \in Nat
           /\ entry.probe_length = HomeFar(index, entry.key)
           /\ entry.probe_length < MaxProbes(capacity) /\ MaxProbes(capacity) \in 1 .. (capacity - 1)
           /\ FitsIn(table, capacity, {}, index, entry.probe_length)
           /\ UNCHANGED <<hash, key, seen>> /\ index' = Up(capacity, index)
           /\ ~again => table[index].key # key
           /\ TableKeys = KeysIn(table, capacity, {})
  <1>1. pc = "insert" /\ MapInv /\ Good BY DEF InsertStep, OrderInv
  <1>2. /\ capacity > 1 /\ IsEmpty(moved) /\ index \in Slots /\ key \in Keys /\ entry.key \in Keys
        /\ entry \in Buckets
    BY <1>1 DEF MapInv, Phases, Types
  <1>3. /\ capacity \in Nat /\ Slots = 0 .. (capacity - 1) /\ Hole = {}
        /\ table \in [0 .. (capacity - 1) -> Buckets]
    BY <1>1, <1>2, HomeFacts
  <1>4. ~IsEmpty(table[index]) /\ ~Matches(table[index]) /\ UNCHANGED <<hash, key, seen>>
    BY DEF InsertStep
  <1>5. index \in UsedIn(table, capacity) BY <1>2, <1>3, <1>4 DEF UsedIn
  <1>6. entry.probe_length = HomeFar(index, entry.key) /\ entry.probe_length < MaxProbes(capacity)
    BY <1>1 DEF MapInv, Loops, AtIndex, HomeFar
  <1>7. ~IsEmpty(entry) /\ entry.probe_length \in Nat BY <1>2, BucketFacts
  <1>8. MaxProbes(capacity) \in 1 .. (capacity - 1) BY <1>1, <1>2, StateFacts
  <1>9. index' = Up(capacity, index) BY <1>1, <1>2, StateFacts DEF InsertStep
  <1>10. ~again => table[index].key # key BY <1>4 DEF Matches
  <1>11. FitsIn(table, capacity, {}, index, entry.probe_length) BY <1>1 DEF OrderInv, Inserting
  <1>12. TableKeys = KeysIn(table, capacity, {}) BY <1>3 DEF TableKeys
  <1>13. QED
    BY <1>1, <1>2, <1>3, <1>4, <1>5, <1>6, <1>7, <1>8, <1>9, <1>10, <1>11, <1>12

\* The key of the bucket in hand is not in the table when buckets change
\* places, nor when the probe limit is reached.
LEMMA EntryNew ==
    ASSUME OrderInv, InsertStep,
           \/ again \/ entry.key # key
           \/ entry.probe_length > table[index].probe_length
           \/ entry.probe_length + 1 >= MaxProbes(capacity)
    PROVE  entry.key \notin KeysIn(table, capacity, {})
  <1>1. CASE again \/ entry.key # key
    BY <1>1, InsertFacts DEF OrderInv, Inserting
  <1>2. CASE ~again /\ entry.key = key
    <2>1. SUFFICES ASSUME NEW p \in UsedIn(table, capacity), table[p].key = key PROVE FALSE
      BY <1>2 DEF KeysIn
    <2>2. entry.probe_length <= HomeFar(p, key) BY <1>2, <2>1, InsertFacts DEF OrderInv, Inserting
    <2>3. PICK h \in 0 .. (capacity - 1), x \in 0 .. (capacity - 1), c \in Nat :
             h = HomeIn(capacity, key) /\ x = index /\ c = capacity
      BY InsertFacts, HomeFacts
    <2>4. /\ table[p].probe_length = Far(c, p, h) /\ p \in 0 .. (c - 1) /\ table[p].probe_length \in Nat
      BY <2>1, <2>3, InsertFacts, HomeFacts, BucketFacts DEF HomeFar
    <2>5. entry.probe_length = Far(c, x, h) /\ Far(c, x, h) <= Far(c, p, h)
      BY <1>2, <2>2, <2>3, InsertFacts DEF HomeFar
    <2>6. c > 1 /\ table \in [0 .. (c - 1) -> Buckets] /\ OrderIn(table, c, {}) /\ ShortIn(table, c, {})
      BY <2>3, InsertFacts DEF Good, GoodIn
    <2>7. Far(c, x, h) <= table[x].probe_length BY <2>1, <2>3, <2>4, <2>5, <2>6, KeyMet
    <2>8. ~(entry.probe_length > table[index].probe_length)
      <3>1. table[x].probe_length \in Nat /\ entry.probe_length \in Nat BY <2>3, <2>6, InsertFacts, BucketFacts
      <3>2. QED BY <2>3, <2>5, <2>7, <3>1
    <2>9. p # x BY <1>2, <2>1, <2>3, InsertFacts
    <2>10. Far(c, x, h) # Far(c, p, h) BY <2>3, <2>4, <2>6, <2>9, FarFacts
    <2>11. table[p].probe_length < MaxProbes(c) BY <2>1, <2>3, <2>6 DEF ShortIn
    <2>12. MaxProbes(c) \in Nat /\ Far(c, x, h) \in Nat /\ Far(c, p, h) \in Nat
           /\ entry.probe_length + 1 >= MaxProbes(c)
      <3>1. entry.probe_length + 1 >= MaxProbes(capacity) BY <1>2, <2>8
      <3>2. MaxProbes(capacity) \in 1 .. (capacity - 1) BY InsertFacts
      <3>3. Far(c, x, h) \in Nat /\ Far(c, p, h) \in Nat
        <4>1. c > 1 /\ x \in 0 .. (c - 1) /\ h \in 0 .. (c - 1) /\ p \in 0 .. (c - 1) BY <2>3, <2>4, <2>6
        <4>2. Far(c, x, h) \in 0 .. (c - 1) /\ Far(c, p, h) \in 0 .. (c - 1) BY <4>1, FarStep, Zenon
        <4>3. QED BY <4>2
      <3>4. QED BY <2>3, <3>1, <3>2, <3>3
    <2>13. QED BY <2>4, <2>5, <2>10, <2>11, <2>12
  <1>3. QED BY <1>1, <1>2

\* Once the bucket in hand has been put down at slot x, all slots from its
\* home up to x are in use.
LEMMA PutPassed ==
    ASSUME NEW c \in Nat, c > 1, NEW t \in [0 .. (c - 1) -> Buckets], NEW x \in 0 .. (c - 1),
           NEW h \in 0 .. (c - 1), NEW n \in Nat, n = Far(c, x, h), FitsIn(t, c, {}, x, n), ~IsEmpty(t[x]),
           NEW j \in 0 .. (c - 1), Far(c, j, h) < n + 1
    PROVE  ~IsEmpty(t[j])
  <1>1. Far(c, j, h) \in Nat /\ Far(c, j, h) <= Far(c, x, h)
    <2>1. Far(c, j, h) \in Nat BY FarStep
    <2>2. QED BY <2>1
  <1>2. Far(c, x, j) = Far(c, x, h) - Far(c, j, h) BY <1>1, FarFacts
  <1>3. j # x => ~IsEmpty(t[j]) BY <1>1, <1>2 DEF FitsIn
  <1>4. QED BY <1>3

\* The key of the argument has been put down, and `index` moves away from it.
LEMMA KeyBehind ==
    ASSUME OrderInv, InsertStep, ~again, NEW u \in [0 .. (capacity - 1) -> Buckets],
           UsedIn(u, capacity) = UsedIn(table, capacity),
           \A j \in 0 .. (capacity - 1) : j # index => u[j] = table[j],
           entry.key = key => u[index].key = key
    PROVE  /\ HomeFar(Up(capacity, index), key) = HomeFar(index, key) + 1
           /\ \A j \in 0 .. (capacity - 1) : HomeFar(j, key) < HomeFar(index, key) + 1 => ~IsEmpty(u[j])
           /\ \E p \in UsedIn(u, capacity) : u[p].key = key /\ HomeFar(p, key) < HomeFar(index, key) + 1
  <1>0. PICK c \in Nat : c = capacity /\ c > 1 BY InsertFacts
  <1>1. PICK h \in 0 .. (c - 1), x \in 0 .. (c - 1) : h = HomeIn(c, key) /\ x = index
    BY <1>0, InsertFacts, HomeFacts
  <1>2. PICK d \in 0 .. (c - 1) : d = HomeFar(index, key) /\ d = Far(c, x, h)
    BY <1>0, <1>1, FarStep DEF HomeFar
  <1>3. \A j \in 0 .. (c - 1) : ~IsEmpty(u[j]) <=> ~IsEmpty(table[j])
    BY <1>0, <1>1 DEF UsedIn
  <1>4. ~IsEmpty(table[x]) BY <1>0, <1>1, InsertFacts DEF UsedIn
  <1>5. CASE entry.key = key
    <2>1. d = entry.probe_length /\ d < c - 1 /\ FitsIn(table, c, {}, x, d)
      <3>1. entry.probe_length < MaxProbes(capacity) /\ MaxProbes(capacity) \in 1 .. (capacity - 1)
            /\ entry.probe_length = HomeFar(index, key) /\ entry.probe_length \in Nat
            /\ FitsIn(table, capacity, {}, index, entry.probe_length)
        BY <1>5, InsertFacts
      <3>2. d = entry.probe_length BY <1>2, <3>1
      <3>3. d < c - 1
        <4>1. PICK m \in 1 .. (c - 1) : m = MaxProbes(capacity) BY <1>0, <1>1, <3>1
        <4>2. QED BY <3>1, <3>2, <4>1
      <3>4. FitsIn(table, c, {}, x, d) BY <1>0, <1>1, <3>1, <3>2
      <3>5. QED BY <3>2, <3>3, <3>4
    <2>2. Far(c, Up(c, x), h) = d + 1
      <3>1. Far(c, x, h) < c - 1 => Far(c, Up(c, x), h) = Far(c, x, h) + 1 BY <1>0, FarStep, Zenon
      <3>2. QED BY <1>2, <2>1, <3>1
    <2>3. table \in [0 .. (c - 1) -> Buckets] BY <1>0, <1>1, InsertFacts
    <2>4. \A j \in 0 .. (c - 1) : Far(c, j, h) < d + 1 => ~IsEmpty(table[j])
      <3>1. ASSUME NEW j \in 0 .. (c - 1), Far(c, j, h) < d + 1 PROVE ~IsEmpty(table[j])
        <4>1. d \in Nat /\ d = Far(c, x, h) /\ c > 1 BY <1>0, <1>1, <1>2
        <4>2. QED BY <1>4, <2>1, <2>3, <3>1, <4>1, PutPassed
      <3>2. QED BY <3>1
    <2>5. x \in UsedIn(u, c) /\ u[x].key = key /\ d < d + 1 BY <1>0, <1>1, <1>3, <1>4, <1>5 DEF UsedIn
    <2>6. QED BY <1>0, <1>1, <1>2, <1>3, <2>2, <2>4, <2>5 DEF HomeFar
  <1>6. CASE entry.key # key
    <2>1. PICK q \in UsedIn(table, capacity) : table[q].key = key /\ HomeFar(q, key) < HomeFar(index, key)
      BY <1>6, InsertFacts DEF OrderInv, Inserting
    <2>2. Passed(key, d) BY <1>2, <1>6, InsertFacts DEF OrderInv, Inserting
    <2>3. d # c - 1
      <3>1. SUFFICES ASSUME d = c - 1 PROVE FALSE OBVIOUS
      <3>2. /\ index \in Slots /\ Far(capacity, index, HomeIn(capacity, key)) = capacity - 1
            /\ Passed(key, capacity - 1) /\ ~IsEmpty(table[index]) /\ pc # "shift"
        BY <1>0, <1>1, <1>2, <1>4, <2>2, <3>1, InsertFacts DEF Slots
      <3>3. size = capacity BY <3>2, InsertFacts, FullCircle
      <3>4. 10 * (size + 1) <= 9 * capacity BY InsertFacts DEF OrderInv, Room
      <3>5. QED BY <1>0, <1>1, <3>3, <3>4
    <2>4. Far(c, Up(c, x), h) = d + 1
      <3>1. Far(c, x, h) < c - 1 => Far(c, Up(c, x), h) = Far(c, x, h) + 1 BY <1>0, FarStep, Zenon
      <3>2. QED BY <1>2, <2>3, <3>1
    <2>5. ASSUME NEW j \in 0 .. (c - 1), Far(c, j, h) < d + 1 PROVE ~IsEmpty(table[j])
      <3>1. CASE j = x BY <1>4, <3>1
      <3>2. CASE j # x
        <4>0. Far(c, j, h) \in 0 .. (c - 1) /\ (Far(c, j, h) = Far(c, x, h) => j = x)
          <5>1. Far(c, j, h) \in 0 .. (c - 1) BY <1>0, FarStep, Zenon
          <5>2. QED BY <5>1, FarApart
        <4>1. Far(c, j, h) # d /\ Far(c, j, h) \in Nat BY <1>2, <3>2, <4>0
        <4>2. Far(c, j, h) < d BY <2>5, <4>1
        <4>3. QED BY <1>0, <1>1, <2>2, <4>2 DEF Passed, Slots
      <3>3. QED BY <3>1, <3>2
    <2>6. q \in UsedIn(u, c) /\ u[q].key = key /\ HomeFar(q, key) < d + 1
      <3>1. q \in 0 .. (c - 1) BY <1>0, <1>1 DEF UsedIn
      <3>2. HomeFar(q, key) \in Nat BY <1>0, <1>1, <3>1, FarStep DEF HomeFar
      <3>0. HomeFar(q, key) < d /\ q # index
        <4>1. HomeFar(q, key) < HomeFar(index, key) BY <2>1
        <4>2. HomeFar(q, key) < d BY <1>2, <4>1
        <4>3. HomeFar(q, key) # d BY <3>2, <4>2
        <4>5. q # index BY <1>2, <4>3, Zenon
        <4>4. QED BY <4>2, <4>5
      <3>3. QED BY <1>0, <1>1, <2>1, <3>0, <3>1, <3>2
    <2>7. QED BY <1>0, <1>1, <1>2, <1>3, <2>4, <2>5, <2>6 DEF HomeFar
  <1>7. QED BY <1>5, <1>6

\* The insertion goes on with a bucket that is new to the table.
LEMMA InsertGoesOn ==
    ASSUME OrderInv, MapInv', InsertStep, pc' = "insert", UNCHANGED <<capacity, size, again>>,
           NEW u \in [0 .. (capacity - 1) -> Buckets], table' = u, GoodIn(u, capacity, {}),
           UsedIn(u, capacity) = UsedIn(table, capacity),
           \A j \in 0 .. (capacity - 1) : j # index => u[j] = table[j],
           FitsIn(u, capacity, {}, Up(capacity, index), entry'.probe_length),
           entry'.key \notin KeysIn(u, capacity, {}),
           ~again /\ entry.key = key /\ entry'.key # key => u[index].key = key
    PROVE  OrderInv'
  <1>1. /\ pc = "insert" /\ UNCHANGED <<hash, key, seen>> /\ index' = Up(capacity, index) BY InsertFacts
  <1>2. /\ Good' /\ TableKeys' = KeysIn(u, capacity, {}) /\ UsedIn(table, capacity)' = UsedIn(u, capacity)
        /\ \A i, k : HomeFar(i, k)' = HomeFar(i, k)
    BY <1>1, NextTable DEF OrderInv
  <1>3. Room' BY <1>1 DEF OrderInv, Room
  <1>4. FitsIn(table, capacity, {}, index, entry.probe_length)'
    <2>1. FitsIn(table', capacity', {}, index', entry'.probe_length) BY <1>1
    <2>2. QED BY <2>1
  <1>5. entry'.key \notin TableKeys' BY <1>2
  <1>6. ~again' /\ entry'.key # key' =>
           /\ Passed(key, HomeFar(index, key))'
           /\ \E p \in UsedIn(table, capacity)' :
                 table'[p].key = key' /\ HomeFar(p, key)' < HomeFar(index, key)'
    <2>1. SUFFICES ASSUME ~again, entry'.key # key
                   PROVE  /\ Passed(key, HomeFar(index, key))'
                          /\ \E p \in UsedIn(table, capacity)' :
                                table'[p].key = key' /\ HomeFar(p, key)' < HomeFar(index, key)'
      BY <1>1
    <2>2. entry.key = key => u[index].key = key BY <2>1
    <2>3. /\ HomeFar(Up(capacity, index), key) = HomeFar(index, key) + 1
          /\ \A j \in 0 .. (capacity - 1) : HomeFar(j, key) < HomeFar(index, key) + 1 => ~IsEmpty(u[j])
          /\ \E p \in UsedIn(u, capacity) : u[p].key = key /\ HomeFar(p, key) < HomeFar(index, key) + 1
      BY <2>1, <2>2, KeyBehind, Zenon
    <2>4. \A i : HomeFar(i, key)' = HomeFar(i, key) BY <1>1 DEF HomeFar, Far, HomeIn
    <2>5. HomeFar(index, key)' = HomeFar(index, key) + 1
      <3>1. HomeFar(index, key)' = HomeFar(Up(capacity, index), key) BY <1>1 DEF HomeFar, Far, HomeIn
      <3>2. QED BY <2>3, <3>1
    <2>6. Passed(key, HomeFar(index, key))'
      <3>1. PICK n : n = HomeFar(index, key) + 1 OBVIOUS
      <3>2. \A j \in 0 .. (capacity - 1) : HomeFar(j, key)' < n => ~IsEmpty(table'[j])
        BY <2>3, <2>4, <3>1, Zenon
      <3>3. \A j \in Slots' : Far(capacity, j, HomeIn(capacity, key))' < n => ~IsEmpty(table[j])'
        BY <3>2 DEF Slots, HomeFar, IsEmpty
      <3>4. Passed(key, n)' BY <3>3 DEF Passed
      <3>5. QED BY <2>5, <3>1, <3>4
    <2>7. \E p \in UsedIn(table, capacity)' :
             table'[p].key = key' /\ HomeFar(p, key)' < HomeFar(index, key)'
      BY <1>1, <1>2, <2>3, <2>4, <2>5, Zenon
    <2>8. QED BY <2>6, <2>7
  <1>7. \A p \in UsedIn(table, capacity)' : table'[p].key # entry'.key
    BY <1>2 DEF KeysIn
  <1>8. Inserting' BY <1>4, <1>5, <1>6, <1>7 DEF Inserting
  <1>9. Iterated' BY <1>1 DEF OrderInv, Iterated
  <1>10. QED BY <1>1, <1>2, <1>3, <1>8, <1>9 DEF OrderInv, Fresh, Growing, Searching

\* The argument of hashmap_insert, which may be in the table farther on, goes
\* on past a bucket.
LEMMA InsertPasses ==
    ASSUME OrderInv, MapInv', InsertStep, pc' = "insert", UNCHANGED <<capacity, size, again, table>>,
           ~again, entry.key = key, entry'.key = key, entry'.probe_length = entry.probe_length + 1,
           entry.probe_length <= table[index].probe_length
    PROVE  OrderInv'
  <1>1. /\ pc = "insert" /\ UNCHANGED <<hash, key, seen>> /\ index' = Up(capacity, index) BY InsertFacts
  <1>2. /\ Good' /\ TableKeys' = TableKeys /\ UsedIn(table, capacity)' = UsedIn(table, capacity)
        /\ \A i, k : HomeFar(i, k)' = HomeFar(i, k)
    BY <1>1, SameTable DEF OrderInv
  <1>3. Room' BY <1>1 DEF OrderInv, Room
  <1>4. PICK c \in Nat, n \in Nat : c = capacity /\ c > 1 /\ n = entry.probe_length BY InsertFacts
  <1>5. PICK x \in 0 .. (c - 1), h \in 0 .. (c - 1) : x = index /\ h = HomeIn(c, key) /\ n = Far(c, x, h)
    BY <1>4, InsertFacts, HomeFacts DEF HomeFar
  <1>6. table \in [0 .. (c - 1) -> Buckets] /\ ~IsEmpty(table[x]) BY <1>4, <1>5, InsertFacts DEF UsedIn
  <1>7. FitsIn(table, capacity, {}, index, entry.probe_length)'
    <2>1. PICK p \in Buckets : p = table[x] /\ table = [table EXCEPT ![x] = p] BY <1>6
    <2>2. FitsIn(table, c, {}, x, n) BY <1>4, <1>5, InsertFacts
    <2>3. PICK u : u = table OBVIOUS
    <2>4. ~IsEmpty(p) /\ n <= p.probe_length /\ u = [table EXCEPT ![x] = p]
      BY <1>4, <1>5, <1>6, <2>1, <2>3
    <2>5. FitsIn(u, c, {}, Up(c, x), n + 1) BY <1>4, <1>6, <2>2, <2>4, FitsOn
    <2>6. FitsIn(table', capacity', {}, index', entry'.probe_length) BY <1>1, <1>4, <1>5, <2>3, <2>5
    <2>7. QED BY <2>6
  <1>8. ASSUME NEW p \in UsedIn(table, capacity), table[p].key = key
        PROVE  n + 1 <= HomeFar(p, key)
    <2>1. n <= HomeFar(p, key) BY <1>1, <1>4, <1>8 DEF OrderInv, Inserting
    <2>2. p # x /\ p \in 0 .. (c - 1) BY <1>4, <1>5, <1>8, InsertFacts DEF UsedIn
    <2>3. HomeFar(p, key) = Far(c, p, h) BY <1>4, <1>5 DEF HomeFar
    <2>4. Far(c, p, h) \in 0 .. (c - 1) /\ Far(c, p, h) # n BY <1>4, <1>5, <2>2, FarStep, FarApart
    <2>5. QED BY <2>1, <2>3, <2>4
  <1>9. \A p \in UsedIn(table, capacity)' :
           table'[p].key = key' => entry'.probe_length <= HomeFar(p, key)'
    <2>1. \A i : HomeFar(i, key)' = HomeFar(i, key) BY <1>1 DEF HomeFar, Far, HomeIn
    <2>2. QED BY <1>1, <1>2, <1>4, <1>8, <2>1
  <1>10. Inserting' BY <1>1, <1>7, <1>9 DEF Inserting
  <1>11. Iterated' BY <1>1 DEF OrderInv, Iterated
  <1>12. QED BY <1>1, <1>2, <1>3, <1>10, <1>11 DEF OrderInv, Fresh, Growing, Searching

\* One turn of the loop of an insertion.
LEMMA OrderInsertStep == ASSUME OrderInv, MapInv', InsertStep PROVE OrderInv'
  <1>1. PICK x \in UsedIn(table, capacity), m \in Buckets : x = index /\ m = entry BY InsertFacts
  <1>2. /\ MapInv /\ Good /\ capacity > 1 /\ Hole = {} /\ ~IsEmpty(m) /\ m.probe_length < MaxProbes(capacity)
        /\ FitsIn(table, capacity, {}, x, m.probe_length)
        /\ table \in [0 .. (capacity - 1) -> Buckets] /\ x \in 0 .. (capacity - 1)
        /\ table[x] \in Buckets /\ ~IsEmpty(table[x])
    BY <1>1, InsertFacts DEF UsedIn
  <1>3. m.probe_length \in Nat /\ table[x].probe_length \in Nat BY <1>2, BucketFacts
  <1>4. PICK w, p, u : /\ u = [table EXCEPT ![x] = p]
                       /\ entry' = [w EXCEPT !.probe_length = @ + 1]
                       /\ Swap(table, x, m, w, p)
                       /\ IF entry'.probe_length < MaxProbes(capacity)
                          THEN table' = u /\ UNCHANGED <<capacity, size, pc, growVars, again>>
                          ELSE HashMapGrow(u) /\ again' = TRUE
    <2>1. CASE m.probe_length > table[x].probe_length
      <3>1. /\ entry' = [table[x] EXCEPT !.probe_length = @ + 1]
            /\ IF entry'.probe_length < MaxProbes(capacity)
               THEN /\ table' = [table EXCEPT ![x] = m]
                    /\ UNCHANGED <<capacity, size, pc, growVars, again>>
               ELSE HashMapGrow([table EXCEPT ![x] = m]) /\ again' = TRUE
        BY <1>1, <2>1 DEF InsertStep
      <3>2. QED BY <2>1, <3>1 DEF Swap
    <2>2. CASE ~(m.probe_length > table[x].probe_length)
      <3>1. table = [table EXCEPT ![x] = table[x]] BY <1>2
      <3>2. /\ entry' = [m EXCEPT !.probe_length = @ + 1]
            /\ IF entry'.probe_length < MaxProbes(capacity)
               THEN table' = table /\ UNCHANGED <<capacity, size, pc, growVars, again>>
               ELSE HashMapGrow(table) /\ again' = TRUE
        BY <1>1, <2>2 DEF InsertStep
      <3>3. m.probe_length <= table[x].probe_length BY <1>3, <2>2
      <3>4. QED BY <3>1, <3>2, <3>3 DEF Swap
    <2>3. QED BY <2>1, <2>2
  <1>5. w \in Buckets /\ ~IsEmpty(w) /\ p \in Buckets /\ ~IsEmpty(p) BY <1>2, <1>4 DEF Swap
  <1>6. entry'.key = w.key /\ entry'.probe_length = w.probe_length + 1
    <2>1. PICK d \in Nat : d = w.probe_length + 1 BY <1>5, BucketFacts
    <2>2. entry' = [w EXCEPT !.probe_length = d] BY <1>4, <2>1
    <2>3. QED BY <1>5, <2>1, <2>2, BucketFacts
  <1>7. CASE /\ ~again /\ entry.key = key /\ m.probe_length <= table[x].probe_length
             /\ m.probe_length + 1 < MaxProbes(capacity)
    <2>1. w = m /\ u = table BY <1>2, <1>3, <1>4, <1>7 DEF Swap
    <2>2. entry'.probe_length < MaxProbes(capacity) BY <1>6, <1>7, <2>1
    <2>3. table' = table /\ UNCHANGED <<capacity, size, pc, again>> BY <1>4, <2>1, <2>2
    <2>4. QED BY <1>1, <1>6, <1>7, <2>1, <2>3, InsertFacts, InsertPasses
  <1>8. CASE ~(/\ ~again /\ entry.key = key /\ m.probe_length <= table[x].probe_length
               /\ m.probe_length + 1 < MaxProbes(capacity))
    <2>1. m.key \notin KeysIn(table, capacity, {})
      <3>1. MaxProbes(capacity) \in Nat BY InsertFacts
      <3>2. \/ again \/ entry.key # key \/ entry.probe_length > table[index].probe_length
            \/ entry.probe_length + 1 >= MaxProbes(capacity)
        BY <1>1, <1>3, <1>8, <3>1
      <3>3. QED BY <1>1, <3>2, EntryNew
    <2>2. PICK S : S = KeysIn(table, capacity, {}) \cup {m.key} OBVIOUS
    <2>3. KeysWithin(table, capacity, S) /\ m.key \in S BY <2>2 DEF KeysWithin, KeysIn
    <2>4. /\ GoodIn(u, capacity, {}) /\ w.key \notin KeysIn(u, capacity, {})
          /\ FitsIn(u, capacity, {}, Up(capacity, x), w.probe_length + 1)
      <3>1. u = [table EXCEPT ![x] = p] BY <1>4
      <3>2. /\ MapInv /\ Good /\ capacity > 1 /\ Hole = {} /\ ~IsEmpty(m)
            /\ m.probe_length < MaxProbes(capacity) /\ FitsIn(table, capacity, {}, x, m.probe_length)
        BY <1>2
      <3>3. Swap(table, x, m, w, p) BY <1>4
      <3>4. QED BY <2>1, <2>3, <3>1, <3>2, <3>3, SwapGood, Zenon
    <2>10. /\ u[x] = p /\ \A j \in 0 .. (capacity - 1) : j # x => u[j] = table[j]
           /\ UsedIn(u, capacity) = UsedIn(table, capacity)
      <3>1. capacity \in Nat /\ ~IsEmpty(p) BY <1>5, InsertFacts
      <3>2. u[x] = p /\ \A j \in 0 .. (capacity - 1) : j # x => u[j] = table[j]
        BY <1>2, <1>4, <1>5, <3>1, PutUsed
      <3>3. QED BY <1>2, <3>1, <3>2 DEF UsedIn
    <2>5. u \in [0 .. (capacity - 1) -> Buckets] BY <1>2, <1>4, <1>5
    <2>6. entry'.key \notin KeysIn(u, capacity, {})
          /\ FitsIn(u, capacity, {}, Up(capacity, index), entry'.probe_length)
      BY <1>1, <1>6, <2>4
    <2>7. CASE entry'.probe_length < MaxProbes(capacity)
      <3>1. table' = u /\ UNCHANGED <<capacity, size, pc, again>> /\ pc' = "insert"
        BY <1>4, <2>7, InsertFacts
      <3>2. ~again /\ entry.key = key /\ entry'.key # key => u[index].key = key
        <4>1. SUFFICES ASSUME entry.key = key, entry'.key # key PROVE u[index].key = key OBVIOUS
        <4>2. w # m BY <1>1, <1>6, <4>1
        <4>3. p = m BY <1>4, <4>2 DEF Swap
        <4>4. QED BY <1>1, <2>10, <4>1, <4>3
      <3>3. \A j \in 0 .. (capacity - 1) : j # index => u[j] = table[j] BY <1>1, <2>10
      <3>4. UsedIn(u, capacity) = UsedIn(table, capacity) /\ GoodIn(u, capacity, {}) BY <2>4, <2>10
      <3>5. QED BY <2>5, <2>6, <3>1, <3>2, <3>3, <3>4, InsertGoesOn, Zenon
    <2>8. CASE ~(entry'.probe_length < MaxProbes(capacity))
      <3>1. HashMapGrow(u) /\ again' = TRUE BY <1>4, <2>8
      <3>2. UniqueIn(u, capacity, {}) /\ ShortIn(u, capacity, {})
            /\ UsedIn(u, capacity) = UsedIn(table, capacity)
        BY <2>4, <2>10 DEF GoodIn
      <3>3. ASSUME NEW i \in UsedIn(u, capacity)
            PROVE  u[i].probe_length = Far(capacity, i, HomeIn(capacity, u[i].key))
        <4>1. i \in 0 .. (capacity - 1) /\ i \in UsedIn(table, capacity) BY <3>2 DEF UsedIn
        <4>2. table[i].probe_length = HomeFar(i, table[i].key) BY <4>1, InsertFacts, HomeFacts
        <4>3. CASE i # x BY <2>10, <4>1, <4>2, <4>3 DEF HomeFar
        <4>4. CASE i = x
          <5>1. m.probe_length = HomeFar(x, m.key) BY <1>1, InsertFacts
          <5>2. p = m \/ p = table[x] BY <1>4 DEF Swap
          <5>3. QED BY <2>10, <4>2, <4>4, <5>1, <5>2 DEF HomeFar
        <4>5. QED BY <4>3, <4>4
      <3>4. 10 * size <= 9 * capacity
        <4>1. 10 * (size + 1) <= 9 * capacity /\ size \in Nat /\ capacity \in Nat
          BY InsertFacts DEF OrderInv, Room, MapInv, Types
        <4>2. QED BY <4>1
      <3>5. pc # "shift" /\ pc # "iterate" /\ IsEmpty(moved) /\ UNCHANGED <<hash, seen>> /\ capacity > 1
        BY InsertFacts
      <3>6. QED BY <2>5, <2>6, <3>1, <3>2, <3>3, <3>4, <3>5, OrderGrow, Zenon
    <2>9. QED BY <2>7, <2>8
  <1>9. QED BY <1>7, <1>8

\* A call returns and leaves a good table.
LEMMA OrderReturn ==
    ASSUME OrderInv, MapInv', Return, Good', pc # "iterate", seen' = seen, 10 * size' <= 9 * capacity'
    PROVE  OrderInv'
  <1>1. pc' = "idle" /\ entry' = Empty /\ again' = FALSE BY DEF Return
  <1>2. seen' = {} BY DEF OrderInv, Iterated
  <1>3. Room' BY <1>1 DEF Room
  <1>4. QED BY <1>1, <1>2, <1>3 DEF OrderInv, Fresh, Growing, Inserting, Searching, Iterated

\* Nor is it when the loop finds an empty bucket.
LEMMA EntryNewAtEnd ==
    ASSUME OrderInv, pc = "insert", IsEmpty(table[index])
    PROVE  entry.key \notin KeysIn(table, capacity, {})
  <1>1. /\ MapInv /\ Good /\ capacity > 1 /\ index \in Slots /\ key \in Keys
    BY DEF OrderInv, MapInv, Phases
  <1>2. /\ capacity \in Nat /\ Slots = 0 .. (capacity - 1) /\ Hole = {}
        /\ table \in [0 .. (capacity - 1) -> Buckets]
    BY <1>1, HomeFacts
  <1>3. CASE again \/ entry.key # key BY <1>2, <1>3 DEF OrderInv, Inserting, TableKeys
  <1>4. CASE ~again /\ entry.key = key
    <2>1. SUFFICES ASSUME NEW p \in UsedIn(table, capacity), table[p].key = key PROVE FALSE
      BY <1>4 DEF KeysIn
    <2>2. entry.probe_length <= HomeFar(p, key) /\ entry.probe_length = HomeFar(index, key)
      BY <1>4, <2>1 DEF OrderInv, Inserting, MapInv, Loops, AtIndex, HomeFar
    <2>3. PICK x \in 0 .. (capacity - 1), h \in 0 .. (capacity - 1) : x = index /\ h = HomeIn(capacity, key)
      BY <1>1, <1>2, HomeFacts
    <2>4. table[p].probe_length = Far(capacity, p, h) BY <1>1, <2>1, <2>3, HomeFacts DEF HomeFar
    <2>5. Far(capacity, x, h) <= Far(capacity, p, h) BY <2>2, <2>3 DEF HomeFar
    <2>6. OrderIn(table, capacity, {}) BY <1>1, <1>2 DEF Good, GoodIn
    <2>7. ~IsEmpty(table[x]) BY <1>1, <1>2, <2>4, <2>5, <2>6, KeyMet
    <2>8. QED BY <2>3, <2>7
  <1>5. QED BY <1>3, <1>4

\* The insertion finds an empty bucket, or its key.
LEMMA OrderInsertEnd == ASSUME OrderInv, MapInv', InsertEnd PROVE OrderInv'
  <1>1. /\ pc = "insert" /\ MapInv /\ Good /\ capacity > 1 /\ index \in Slots /\ key \in Keys
        /\ entry.key \in Keys /\ entry \in Buckets /\ size \in Nat /\ Return
        /\ UNCHANGED <<capacity, hash, seen>>
    BY DEF InsertEnd, OrderInv, MapInv, Phases, Types
  <1>2. /\ capacity \in Nat /\ Slots = 0 .. (capacity - 1) /\ Hole = {}
        /\ table \in [0 .. (capacity - 1) -> Buckets]
    BY <1>1, HomeFacts
  <1>3. 10 * (size + 1) <= 9 * capacity BY <1>1 DEF OrderInv, Room
  <1>4. CASE IsEmpty(table[index]) /\ table' = [table EXCEPT ![index] = entry] /\ size' = size + 1
    <2>1. PICK x \in 0 .. (capacity - 1), m \in Buckets : x = index /\ m = entry BY <1>1, <1>2
    <2>2. /\ m.probe_length < MaxProbes(capacity) /\ m.probe_length = HomeFar(x, m.key)
          /\ FitsIn(table, capacity, {}, x, m.probe_length) /\ ~IsEmpty(m) /\ m.key \in Keys
      BY <1>1, <2>1, BucketFacts DEF OrderInv, Inserting, MapInv, Loops, AtIndex, HomeFar
    <2>3. m.key \notin KeysIn(table, capacity, {}) BY <1>1, <1>4, <2>1, EntryNewAtEnd
    <2>4. PICK S : S = KeysIn(table, capacity, {}) \cup {m.key} OBVIOUS
    <2>5. KeysWithin(table, capacity, S) /\ m.key \in S BY <2>4 DEF KeysWithin, KeysIn
    <2>6. PICK u : u = [table EXCEPT ![x] = m] OBVIOUS
    <2>7. IsEmpty(table[x]) /\ table' = u BY <1>4, <2>1, <2>6
    <2>8. GoodIn(u, capacity, {}) BY <1>1, <1>2, <2>2, <2>3, <2>5, <2>6, <2>7, PutGood, Zenon
    <2>9. pc' # "shift" BY <1>1 DEF Return
    <2>10. Good' BY <1>1, <2>7, <2>8, <2>9, NextTable
    <2>11. QED BY <1>1, <1>3, <1>4, <2>10, OrderReturn
  <1>5. CASE UNCHANGED <<table, size>>
    <2>1. pc' = "idle" /\ Fresh' BY <1>1 DEF Return, Fresh
    <2>2. UNCHANGED mapVars BY <1>1, <1>5 DEF mapVars
    <2>3. seen' = {} BY <1>1 DEF OrderInv, Iterated
    <2>4. QED BY <1>1, <2>1, <2>2, <2>3, OrderQuiet
  <1>6. QED BY <1>4, <1>5 DEF InsertEnd

\* A search passes a bucket that holds another key.
LEMMA SearchOn ==
    ASSUME OrderInv, MapInv', pc \in {"get", "remove", "update"},
           UNCHANGED <<capacity, size, table, hash, pc, key, entry, again, seen>>,
           index' = NextSlot(index), table[index].key # key, pc # "update" => probe' = probe + 1
    PROVE  OrderInv'
  <1>1. MapInv /\ capacity > 1 /\ index \in Slots /\ key \in Keys BY DEF OrderInv, MapInv, Phases
  <1>2. PICK c \in Nat : c = capacity /\ c > 1 BY <1>1, HomeFacts
  <1>3. PICK x \in 0 .. (c - 1), h \in 0 .. (c - 1) : x = index /\ h = HomeIn(c, key)
    BY <1>1, <1>2, HomeFacts
  <1>4. index' = Up(c, x) BY <1>1, <1>2, <1>3, StateFacts
  <1>5. /\ Good' /\ TableKeys' = TableKeys /\ UsedIn(table, capacity)' = UsedIn(table, capacity)
        /\ \A i, k : HomeFar(i, k)' = HomeFar(i, k)
    BY SameTable DEF OrderInv
  <1>6. Room' BY DEF OrderInv, Room
  <1>7. \A i : HomeFar(i, key)' = Far(c, i, h) /\ HomeFar(i, key) = Far(c, i, h)
    BY <1>2, <1>3 DEF HomeFar, Far, HomeIn
  <1>8. HomeFar(index, key)' = Far(c, Up(c, x), h)
    BY <1>2, <1>3, <1>4 DEF HomeFar, Far, HomeIn
  <1>9. ASSUME NEW p \in UsedIn(table, capacity), table[p].key = key
        PROVE  /\ Far(c, Up(c, x), h) <= Far(c, p, h)
               /\ pc # "update" => probe' = Far(c, Up(c, x), h)
    <2>1. Far(c, x, h) <= Far(c, p, h) /\ (pc # "update" => probe = Far(c, x, h))
      BY <1>3, <1>7, <1>9 DEF OrderInv, Searching
    <2>2. p \in 0 .. (c - 1) /\ p # x BY <1>2, <1>3, <1>9 DEF UsedIn
    <2>3. Far(c, p, h) \in 0 .. (c - 1) /\ Far(c, x, h) \in 0 .. (c - 1) /\ Far(c, p, h) # Far(c, x, h)
      BY <1>2, <2>2, FarStep, FarApart
    <2>4. Far(c, Up(c, x), h) = Far(c, x, h) + 1
      <3>1. Far(c, x, h) < c - 1 BY <2>1, <2>3
      <3>2. QED BY <1>2, <3>1, FarStep
    <2>5. QED BY <2>1, <2>3, <2>4
  <1>10. Searching'
    <2>1. \A p \in UsedIn(table, capacity)' :
             table'[p].key = key' =>
                /\ HomeFar(index, key)' <= HomeFar(p, key)'
                /\ pc' # "update" => probe' = HomeFar(index, key)'
      BY <1>5, <1>7, <1>8, <1>9
    <2>2. pc' = "update" => key' \in TableKeys' BY <1>5 DEF OrderInv, Searching
    <2>3. QED BY <2>1, <2>2 DEF Searching
  <1>11. QED BY <1>5, <1>6, <1>10 DEF OrderInv, Fresh, Growing, Inserting, Iterated

\* One turn of the loop of hashmap_get.
LEMMA OrderGetStep == ASSUME OrderInv, MapInv', GetStep PROVE OrderInv'
  <1>1. pc = "get" /\ UNCHANGED <<capacity, size, table, hash, seen>> /\ UNCHANGED mapVars
    BY DEF GetStep, mapVars
  <1>2. seen' = {} BY <1>1 DEF OrderInv, Iterated
  <1>3. CASE Return
    <2>1. pc' = "idle" /\ Fresh' BY <1>3 DEF Return, Fresh
    <2>2. QED BY <1>1, <1>2, <2>1, OrderQuiet
  <1>4. CASE ~Return
    <2>1. /\ table[index].key # key /\ index' = NextSlot(index) /\ probe' = probe + 1
          /\ UNCHANGED <<pc, key, entry, again>>
      BY <1>4 DEF GetStep
    <2>2. QED BY <1>1, <2>1, SearchOn
  <1>5. QED BY <1>3, <1>4

\* One turn of the loop of hashmap_update, which finds its key.
LEMMA OrderUpdateStep == ASSUME OrderInv, MapInv', UpdateStep PROVE OrderInv'
  <1>1. /\ pc = "update" /\ MapInv /\ Good /\ capacity > 1 /\ index \in Slots /\ key \in Keys
        /\ value \in Values /\ size \in Nat /\ UNCHANGED <<capacity, hash, seen>>
    BY DEF UpdateStep, OrderInv, MapInv, Phases, Types
  <1>2. /\ capacity \in Nat /\ Slots = 0 .. (capacity - 1) /\ Hole = {}
        /\ table \in [0 .. (capacity - 1) -> Buckets]
    BY <1>1, HomeFacts
  <1>3. PICK x \in 0 .. (capacity - 1), b \in Buckets : x = index /\ b = table[x] BY <1>1, <1>2
  <1>4. OrderIn(table, capacity, {}) /\ UniqueIn(table, capacity, {}) /\ ShortIn(table, capacity, {})
    BY <1>1, <1>2 DEF Good, GoodIn
  <1>5. ~IsEmpty(b)
    <2>1. key \in KeysIn(table, capacity, {}) BY <1>1, <1>2 DEF OrderInv, Searching, TableKeys
    <2>2. PICK p \in UsedIn(table, capacity) : table[p].key = key BY <2>1 DEF KeysIn
    <2>3. PICK h \in 0 .. (capacity - 1) : h = HomeIn(capacity, key) BY <1>1, HomeFacts
    <2>4. table[p].probe_length = Far(capacity, p, h) BY <1>1, <2>2, <2>3, HomeFacts DEF HomeFar
    <2>5. HomeFar(index, key) <= HomeFar(p, key) BY <1>1, <2>2 DEF OrderInv, Searching
    <2>6. Far(capacity, x, h) <= Far(capacity, p, h) BY <1>3, <2>3, <2>5 DEF HomeFar
    <2>7. ~IsEmpty(table[x]) BY <1>1, <1>2, <1>4, <2>4, <2>6, KeyMet
    <2>8. QED BY <1>3, <2>7
  <1>6. 10 * size <= 9 * capacity BY <1>1 DEF OrderInv, Room
  <1>7. CASE /\ b.key # key /\ index' = NextSlot(index)
             /\ UNCHANGED <<size, table, pc, key, value, entry, again>>
    BY <1>1, <1>3, <1>7, SearchOn
  <1>8. CASE pc' = "fault" /\ UNCHANGED <<size, table, callVars, entry, again>>
    <2>1. Fresh' BY <1>1, <1>8 DEF OrderInv, Fresh
    <2>2. UNCHANGED mapVars BY <1>1, <1>8 DEF mapVars
    <2>3. seen' = {} BY <1>1 DEF OrderInv, Iterated
    <2>4. QED BY <1>1, <1>8, <2>1, <2>2, <2>3, OrderQuiet
  <1>9. CASE table' = [table EXCEPT ![index] = UpdateValue(b, value)] /\ Return /\ UNCHANGED size
    <2>1. PICK v \in Values \cup {Null} : UpdateValue(b, value) = [b EXCEPT !.value = v]
      BY <1>1 DEF UpdateValue
    <2>2. PICK m \in Buckets : m = UpdateValue(b, value) /\ m.key = b.key /\ m.probe_length = b.probe_length
      BY <2>1 DEF Buckets
    <2>3. PICK u : u = [table EXCEPT ![x] = m] OBVIOUS
    <2>4. table' = u BY <1>3, <1>9, <2>2, <2>3
    <2>5. ~IsEmpty(m) BY <1>5, <2>2 DEF IsEmpty
    <2>6. x \in UsedIn(table, capacity) BY <1>3, <1>5 DEF UsedIn
    <2>7. FitsIn(table, capacity, {}, x, m.probe_length) BY <1>3, <1>4, <2>2, <2>6 DEF OrderIn
    <2>8. m.probe_length >= table[x].probe_length BY <1>3, <2>2, BucketFacts
    <2>9. OrderIn(u, capacity, {}) BY <1>1, <1>2, <1>4, <2>3, <2>5, <2>7, <2>8, PutOrder
    <2>10. \A j \in UsedIn(table, capacity) : table[j].key = m.key => j = x
      BY <1>3, <1>4, <2>2, <2>6 DEF UniqueIn
    <2>11. UniqueIn(u, capacity, {}) BY <1>2, <1>4, <2>3, <2>5, <2>10, PutUnique
    <2>12. u[x] = m /\ \A j \in 0 .. (capacity - 1) : j # x => u[j] = table[j]
      BY <1>2, <2>3, <2>5, PutUsed
    <2>13. ShortIn(u, capacity, {})
      <3>1. ASSUME NEW i \in UsedIn(u, capacity) PROVE u[i].probe_length < MaxProbes(capacity)
        <4>1. i \in 0 .. (capacity - 1) /\ ~IsEmpty(u[i]) BY DEF UsedIn
        <4>2. u[i].probe_length = table[i].probe_length /\ i \in UsedIn(table, capacity)
          BY <1>3, <2>2, <2>6, <2>12, <4>1 DEF UsedIn
        <4>3. QED BY <1>4, <4>2 DEF ShortIn
      <3>2. QED BY <3>1 DEF ShortIn
    <2>14. GoodIn(u, capacity, {}) /\ pc' # "shift" BY <1>9, <2>9, <2>11, <2>13 DEF GoodIn, Return
    <2>15. Good' BY <1>1, <2>4, <2>14, NextTable
    <2>16. QED BY <1>1, <1>6, <1>9, <2>15, OrderReturn
  <1>10. QED BY <1>3, <1>5, <1>7, <1>8, <1>9 DEF UpdateStep

\* A bucket is emptied, and its slot is the hole.
LEMMA HoleGood ==
    ASSUME NEW c \in Nat, NEW t \in [0 .. (c - 1) -> Buckets], NEW x \in 0 .. (c - 1),
           GoodIn(t, c, {}), NEW u, u = [t EXCEPT ![x] = Empty]
    PROVE  GoodIn(u, c, {x})
  <1>1. \A j \in 0 .. (c - 1) : j # x => u[j] = t[j] OBVIOUS
  <1>2. \A i \in UsedIn(u, c) \ {x} : i \in 0 .. (c - 1) /\ u[i] = t[i] /\ i \in UsedIn(t, c)
    BY <1>1 DEF UsedIn
  <1>3. OrderIn(u, c, {x})
    <2>1. ASSUME NEW i \in UsedIn(u, c) \ {x} PROVE FitsIn(u, c, {x}, i, u[i].probe_length)
      <3>1. FitsIn(t, c, {}, i, t[i].probe_length) /\ u[i] = t[i] BY <1>2 DEF GoodIn, OrderIn
      <3>2. QED BY <1>1, <3>1 DEF FitsIn
    <2>2. QED BY <2>1 DEF OrderIn
  <1>4. UniqueIn(u, c, {x}) BY <1>2 DEF GoodIn, UniqueIn
  <1>5. ShortIn(u, c, {x}) BY <1>2 DEF GoodIn, ShortIn
  <1>6. QED BY <1>3, <1>4, <1>5 DEF GoodIn

\* The shift stops where no bucket has its home before the hole.
LEMMA ShiftEnds ==
    ASSUME NEW c \in Nat, c > 1, NEW t \in [0 .. (c - 1) -> Buckets], NEW x \in 0 .. (c - 1),
           GoodIn(t, c, {x}), NEW n \in 0 .. (c - 1), n = Up(c, x),
           IsEmpty(t[n]) \/ t[n].probe_length = 0, NEW u, u = [t EXCEPT ![x] = Empty]
    PROVE  GoodIn(u, c, {})
  <1>1. u[x] = Empty /\ IsEmpty(u[x]) /\ \A j \in 0 .. (c - 1) : j # x => u[j] = t[j]
    BY NewBucketFacts
  <1>2. \A i \in UsedIn(u, c) : i \in 0 .. (c - 1) /\ u[i] = t[i] /\ i \in UsedIn(t, c) \ {x}
    BY <1>1 DEF UsedIn
  <1>3. n # x BY FarFacts
  <1>4. ASSUME NEW i \in UsedIn(u, c), NEW j \in 0 .. (c - 1), j # i, Far(c, i, j) <= u[i].probe_length
        PROVE  ~IsEmpty(u[j]) /\ u[i].probe_length <= u[j].probe_length + Far(c, i, j)
    <2>0. i \in 0 .. (c - 1) /\ i # x /\ u[i] = t[i] /\ ~IsEmpty(t[i]) BY <1>2 DEF UsedIn
    <2>1. FitsIn(t, c, {x}, i, t[i].probe_length) BY <1>2 DEF GoodIn, OrderIn
    <2>2. CASE j # x
      <3>1. ~IsEmpty(t[j]) /\ t[i].probe_length <= t[j].probe_length + Far(c, i, j)
        BY <1>4, <2>0, <2>1, <2>2 DEF FitsIn
      <3>2. QED BY <1>1, <2>0, <2>2, <3>1
    <2>3. CASE j = x
      <3>1. PICK a \in 1 .. (c - 1), p \in Nat, q \in Nat :
               a = Far(c, i, x) /\ p = t[i].probe_length /\ q = t[n].probe_length
        <4>1. Far(c, i, x) \in 1 .. (c - 1) BY <2>0 DEF Far
        <4>2. t[i].probe_length \in Nat /\ t[n].probe_length \in Nat BY <2>0, BucketFacts
        <4>3. QED BY <4>1, <4>2
      <3>2. a <= p BY <1>4, <2>0, <2>3, <3>1
      <3>3. CASE i = n BY <2>0, <3>1, <3>2, <3>3
      <3>4. CASE i # n
        <4>1. Far(c, i, n) = a - 1 BY <2>0, <3>1, FarFacts
        <4>2. ~IsEmpty(t[n]) /\ p <= q + (a - 1) BY <1>3, <2>1, <3>1, <3>2, <3>4, <4>1 DEF FitsIn
        <4>3. q = 0 BY <3>1, <4>2
        <4>4. QED BY <3>2, <4>2, <4>3
      <3>5. QED BY <3>3, <3>4
    <2>4. QED BY <2>2, <2>3
  <1>5. OrderIn(u, c, {}) BY <1>4 DEF OrderIn, FitsIn
  <1>6. UniqueIn(u, c, {}) BY <1>2 DEF GoodIn, UniqueIn
  <1>7. ShortIn(u, c, {}) BY <1>2 DEF GoodIn, ShortIn
  <1>8. QED BY <1>5, <1>6, <1>7 DEF GoodIn

\* The bucket behind the hole moves into it.
LEMMA ShiftGood ==
    ASSUME NEW c \in Nat, c > 1, NEW t \in [0 .. (c - 1) -> Buckets], NEW x \in 0 .. (c - 1),
           GoodIn(t, c, {x}), NEW n \in 0 .. (c - 1), n = Up(c, x), ~IsEmpty(t[n]),
           NEW b \in Buckets, b.key = t[n].key, b.probe_length + 1 = t[n].probe_length,
           NEW u \in [0 .. (c - 1) -> Buckets], u[x] = b,
           \A j \in 0 .. (c - 1) : j # x /\ j # n => u[j] = t[j]
    PROVE  GoodIn(u, c, {n})
  <1>1. n # x /\ n \in UsedIn(t, c) \ {x} BY FarFacts DEF UsedIn
  <1>2. PICK d \in Nat : d = b.probe_length /\ t[n].probe_length = d + 1 BY BucketFacts
  <1>3. ~IsEmpty(b) BY DEF IsEmpty
  <1>4. \A i \in UsedIn(u, c) \ {n} :
           i \in 0 .. (c - 1) /\ (i # x => u[i] = t[i] /\ i \in UsedIn(t, c) \ {x} /\ i # n)
    BY DEF UsedIn
  <1>5. ASSUME NEW i \in UsedIn(u, c) \ {n}, NEW j \in 0 .. (c - 1), j # n, j # i,
               Far(c, i, j) <= u[i].probe_length
        PROVE  ~IsEmpty(u[j]) /\ u[i].probe_length <= u[j].probe_length + Far(c, i, j)
    <2>0. i \in 0 .. (c - 1) /\ Far(c, i, j) \in 0 .. (c - 1) BY <1>4, FarFacts
    <2>1. CASE i = x
      <3>1. Far(c, n, j) = Far(c, x, j) + 1 BY <1>5, FarFacts
      <3>2. FitsIn(t, c, {x}, n, d + 1) BY <1>1, <1>2 DEF GoodIn, OrderIn
      <3>3. Far(c, n, j) <= d + 1 BY <1>2, <1>5, <2>0, <2>1, <3>1
      <3>4. ~IsEmpty(t[j]) /\ d + 1 <= t[j].probe_length + Far(c, n, j) BY <1>5, <2>1, <3>2, <3>3 DEF FitsIn
      <3>5. u[j] = t[j] /\ t[j].probe_length \in Nat BY <1>5, <2>1, BucketFacts
      <3>6. QED BY <1>2, <2>0, <2>1, <3>1, <3>4, <3>5
    <2>2. CASE i # x
      <3>1. u[i] = t[i] /\ i \in UsedIn(t, c) \ {x} /\ i # n BY <1>4, <2>2
      <3>2. FitsIn(t, c, {x}, i, t[i].probe_length) BY <3>1 DEF GoodIn, OrderIn
      <3>3. CASE j # x
        <4>1. ~IsEmpty(t[j]) /\ t[i].probe_length <= t[j].probe_length + Far(c, i, j)
          BY <1>5, <3>1, <3>2, <3>3 DEF FitsIn
        <4>2. QED BY <1>5, <3>1, <3>3, <4>1
      <3>4. CASE j = x
        <4>1. PICK a \in 1 .. (c - 1), p \in Nat : a = Far(c, i, x) /\ p = t[i].probe_length
          <5>1. Far(c, i, x) \in 1 .. (c - 1) BY <2>0, <2>2 DEF Far
          <5>2. t[i].probe_length \in Nat BY <2>0, BucketFacts
          <5>3. QED BY <5>1, <5>2
        <4>2. a <= p BY <1>5, <3>1, <3>4, <4>1
        <4>3. Far(c, i, n) = a - 1 BY <2>0, <2>2, <4>1, FarFacts
        <4>4. p <= d + 1 + (a - 1)
          <5>1. n \in (0 .. (c - 1)) \ {x} /\ n # i /\ Far(c, i, n) <= t[i].probe_length
            BY <1>1, <3>1, <4>1, <4>2, <4>3
          <5>2. t[i].probe_length <= t[n].probe_length + Far(c, i, n) BY <3>2, <5>1 DEF FitsIn
          <5>3. QED BY <1>2, <4>1, <4>3, <5>2
        <4>5. u[j] = b BY <3>4
        <4>6. u[i].probe_length <= u[j].probe_length + Far(c, i, j)
          BY <1>2, <3>1, <3>4, <4>1, <4>4, <4>5
        <4>7. QED BY <1>3, <4>5, <4>6
      <3>5. QED BY <3>3, <3>4
    <2>3. QED BY <2>1, <2>2
  <1>6. OrderIn(u, c, {n}) BY <1>5 DEF OrderIn, FitsIn
  <1>7. UniqueIn(u, c, {n})
    <2>1. ASSUME NEW i \in UsedIn(u, c) \ {n}, NEW j \in UsedIn(u, c) \ {n}, u[i].key = u[j].key
          PROVE  i = j
      <3>1. UniqueIn(t, c, {x}) BY DEF GoodIn
      <3>2. CASE i = x /\ j # x BY <1>1, <1>4, <2>1, <3>1, <3>2 DEF UniqueIn
      <3>3. CASE i # x /\ j = x BY <1>1, <1>4, <2>1, <3>1, <3>3 DEF UniqueIn
      <3>4. CASE i # x /\ j # x BY <1>4, <2>1, <3>1, <3>4 DEF UniqueIn
      <3>5. QED BY <3>2, <3>3, <3>4
    <2>2. QED BY <2>1 DEF UniqueIn
  <1>8. ShortIn(u, c, {n})
    <2>1. PICK l \in Nat : l = MaxProbes(c) BY MaxProbesFacts
    <2>2. ASSUME NEW i \in UsedIn(u, c) \ {n} PROVE u[i].probe_length < MaxProbes(c)
      <3>1. ShortIn(t, c, {x}) BY DEF GoodIn
      <3>2. d + 1 < l BY <1>1, <1>2, <2>1, <3>1 DEF ShortIn
      <3>3. CASE i = x BY <1>2, <2>1, <3>2, <3>3
      <3>4. CASE i # x BY <1>4, <3>1, <3>4 DEF ShortIn
      <3>5. QED BY <3>3, <3>4
    <2>3. QED BY <2>2 DEF ShortIn
  <1>9. QED BY <1>6, <1>7, <1>8 DEF GoodIn

\* A turn that goes on, or begins, to shift.
LEMMA OrderShifts ==
    ASSUME OrderInv, MapInv', pc \in {"remove", "shift"}, pc' = "shift",
           UNCHANGED <<capacity, hash, entry, again, seen>>, NEW u, table' = u,
           GoodIn(u, capacity, {index'}), 10 * size' <= 9 * capacity
    PROVE  OrderInv'
  <1>1. Hole' = {index'} BY DEF Hole
  <1>2. GoodIn(table', capacity', Hole') BY <1>1
  <1>3. capacity' # 0 => IsPow2(capacity') BY DEF OrderInv, Good
  <1>4. Good' BY <1>2, <1>3 DEF Good
  <1>5. Room' BY DEF Room
  <1>6. QED BY <1>4, <1>5 DEF OrderInv, Fresh, Growing, Inserting, Searching, Iterated

\* One turn of the loop of hashmap_remove.
LEMMA OrderRemoveStep == ASSUME OrderInv, MapInv', RemoveStep PROVE OrderInv'
  <1>1. /\ pc = "remove" /\ MapInv /\ Good /\ capacity > 1 /\ index \in Slots /\ size \in Nat
        /\ UNCHANGED <<capacity, hash, seen>>
    BY DEF RemoveStep, OrderInv, MapInv, Phases, Types
  <1>2. seen' = {} BY <1>1 DEF OrderInv, Iterated
  <1>3. CASE Return /\ UNCHANGED <<table, size>>
    <2>1. pc' = "idle" /\ Fresh' BY <1>3 DEF Return, Fresh
    <2>2. UNCHANGED mapVars BY <1>1, <1>3 DEF mapVars
    <2>3. QED BY <1>1, <1>2, <2>1, <2>2, OrderQuiet
  <1>4. CASE /\ table[index].key # key /\ index' = NextSlot(index) /\ probe' = probe + 1
             /\ UNCHANGED <<table, size, pc, key, value, entry, again>>
    BY <1>1, <1>4, SearchOn
  <1>5. CASE /\ table' = [table EXCEPT ![index] = Empty] /\ size' = size - 1 /\ pc' = "shift"
             /\ UNCHANGED <<callVars, entry, again>>
    <2>1. /\ capacity \in Nat /\ Slots = 0 .. (capacity - 1) /\ Hole = {}
          /\ table \in [0 .. (capacity - 1) -> Buckets]
      BY <1>1, HomeFacts
    <2>2. PICK x, u :
           x \in 0 .. (capacity - 1) /\ x = index /\ u = [table EXCEPT ![x] = Empty] BY <1>1, <2>1
    <2>3. GoodIn(table, capacity, {}) BY <1>1, <2>1 DEF Good
    <2>4. GoodIn(u, capacity, {x}) BY <2>1, <2>2, <2>3, HoleGood
    <2>5. table' = u /\ index' = x BY <1>5, <2>2 DEF callVars
    <2>6. 10 * size' <= 9 * capacity
      <3>1. 10 * size <= 9 * capacity BY <1>1 DEF OrderInv, Room
      <3>2. QED BY <1>1, <1>5, <2>1, <3>1
    <2>7. QED BY <1>1, <1>5, <2>4, <2>5, <2>6, OrderShifts
  <1>6. QED BY <1>3, <1>4, <1>5 DEF RemoveStep

\* One turn of the backward shift.
LEMMA OrderShiftStep == ASSUME OrderInv, MapInv', ShiftStep PROVE OrderInv'
  <1>1. /\ pc = "shift" /\ MapInv /\ Good /\ capacity > 1 /\ index \in Slots
        /\ UNCHANGED <<capacity, size, hash, seen>>
    BY DEF ShiftStep, OrderInv, MapInv, Phases
  <1>2. /\ capacity \in Nat /\ Slots = 0 .. (capacity - 1) /\ table \in [0 .. (capacity - 1) -> Buckets]
    BY <1>1, HomeFacts
  <1>3. PICK x \in 0 .. (capacity - 1), n \in 0 .. (capacity - 1) :
           x = index /\ n = Up(capacity, x) /\ n = NextSlot(index)
    BY <1>1, <1>2, StateFacts
  <1>4. GoodIn(table, capacity, {x}) BY <1>1, <1>3 DEF Good, Hole
  <1>5. 10 * size <= 9 * capacity BY <1>1 DEF OrderInv, Room
  <1>6. CASE IsEmpty(table[n]) \/ table[n].probe_length = 0
    <2>1. PICK u : u = [table EXCEPT ![x] = Empty] OBVIOUS
    <2>2. table' = u /\ Return BY <1>3, <1>6, <2>1 DEF ShiftStep
    <2>3. GoodIn(u, capacity, {}) BY <1>1, <1>2, <1>3, <1>4, <1>6, <2>1, ShiftEnds
    <2>4. pc' # "shift" BY <2>2 DEF Return
    <2>5. Good' BY <1>1, <2>2, <2>3, <2>4, NextTable
    <2>6. QED BY <1>1, <1>5, <2>2, <2>5, OrderReturn
  <1>7. CASE ~IsEmpty(table[n]) /\ table[n].probe_length # 0
    <2>1. PICK q \in Buckets : q = table[n] BY <1>2
    <2>2. PICK d \in Nat : d = q.probe_length - 1 BY <1>7, <2>1, BucketFacts
    <2>3. PICK b \in Buckets : /\ b = [q EXCEPT !.probe_length = d] /\ b.key = q.key
                               /\ b.probe_length = d
      BY BucketFacts
    <2>4. /\ table' = [table EXCEPT ![x] = b, ![n] = b] /\ index' = n
          /\ UNCHANGED <<pc, entry, again>>
      BY <1>3, <1>7, <2>1, <2>2, <2>3 DEF ShiftStep
    <2>5. PICK u \in [0 .. (capacity - 1) -> Buckets] :
             /\ table' = u /\ u[x] = b /\ \A j \in 0 .. (capacity - 1) : j # x /\ j # n => u[j] = table[j]
      BY <1>2, <2>4
    <2>6. b.key = table[n].key /\ b.probe_length + 1 = table[n].probe_length /\ ~IsEmpty(table[n])
      <3>1. q.probe_length \in Nat BY BucketFacts
      <3>2. QED BY <1>7, <2>1, <2>2, <2>3, <3>1
    <2>7. GoodIn(u, capacity, {n}) BY <1>1, <1>2, <1>3, <1>4, <2>5, <2>6, ShiftGood
    <2>8. QED BY <1>1, <1>5, <2>4, <2>5, <2>7, OrderShifts
  <1>8. QED BY <1>6, <1>7

\* One call of hashmap_iterate.
LEMMA OrderIterateStep == ASSUME OrderInv, MapInv', IterateStep PROVE OrderInv'
  <1>1. pc = "iterate" /\ MapInv /\ capacity > 1 /\ UNCHANGED <<capacity, size, table, hash>>
        /\ UNCHANGED mapVars /\ capacity \in Nat /\ index \in 0 .. capacity
    BY DEF IterateStep, mapVars, OrderInv, MapInv, Phases, Types
  <1>2. CASE seen' = {} /\ Return
    <2>1. pc' = "idle" /\ Fresh' BY <1>2 DEF Return, Fresh
    <2>2. QED BY <1>1, <1>2, <2>1, OrderQuiet
  <1>3. CASE ~(seen' = {} /\ Return)
    <2>1. PICK i \in index .. (capacity - 1) :
             /\ ~IsEmpty(table[i]) /\ seen' = seen \union {table[i].key} /\ index' = i + 1
             /\ \A j \in index .. (capacity - 1) : ~IsEmpty(table[j]) => i <= j
             /\ UNCHANGED <<pc, key, value, probe, entry, again>>
      BY <1>3 DEF IterateStep
    <2>2. /\ Good' /\ UsedIn(table, capacity)' = UsedIn(table, capacity)
      BY <1>1, <2>1, SameTable DEF OrderInv
    <2>3. Room' BY <1>1, <2>1 DEF OrderInv, Room
    <2>4. {j \in UsedIn(table, capacity) : j < i + 1} = {j \in UsedIn(table, capacity) : j < index} \cup {i}
      <3>1. i \in UsedIn(table, capacity) /\ i < i + 1 BY <1>1, <2>1 DEF UsedIn
      <3>2. ASSUME NEW j \in UsedIn(table, capacity) PROVE j < i + 1 <=> j < index \/ j = i
        <4>1. j \in 0 .. (capacity - 1) /\ ~IsEmpty(table[j]) BY DEF UsedIn
        <4>2. j >= index => i <= j BY <1>1, <2>1, <4>1
        <4>3. QED BY <1>1, <2>1, <4>1, <4>2
      <3>3. QED BY <3>1, <3>2
    <2>5. seen = {table[j].key : j \in {l \in UsedIn(table, capacity) : l < index}}
      BY <1>1 DEF OrderInv, Iterated
    <2>6. seen' = {table[j].key : j \in {l \in UsedIn(table, capacity) : l < i + 1}}
      BY <2>1, <2>4, <2>5
    <2>7. Iterated' BY <1>1, <2>1, <2>2, <2>6 DEF Iterated
    <2>8. QED BY <1>1, <2>1, <2>2, <2>3, <2>7 DEF OrderInv, Fresh, Growing, Inserting, Searching
  <1>4. QED BY <1>2, <1>3

\* A step that changes nothing.
LEMMA OrderStutter == ASSUME OrderInv, MapInv', UNCHANGED vars PROVE OrderInv'
  <1>1. UNCHANGED <<capacity, size, table, hash, pc, key, index, probe, entry, again, old, moved, seen>>
    BY DEF vars, mapVars, callVars, growVars
  <1>2. CASE pc = "shift"
    <2>1. GoodIn(table, capacity, {index}) BY <1>2 DEF OrderInv, Good, Hole
    <2>2. PICK u : u = table OBVIOUS
    <2>3. table' = u /\ GoodIn(u, capacity, {index'}) BY <1>1, <2>1, <2>2
    <2>4. 10 * size' <= 9 * capacity BY <1>1, <1>2 DEF OrderInv, Room
    <2>5. QED BY <1>1, <1>2, <2>3, <2>4, OrderShifts
  <1>3. CASE pc # "shift"
    <2>1. /\ Good' /\ TableKeys' = TableKeys /\ UsedIn(table, capacity)' = UsedIn(table, capacity)
      BY <1>1, <1>3, SameTable DEF OrderInv
    <2>2. OldKeys' = OldKeys /\ MovedKeys' = MovedKeys BY <1>1 DEF OldKeys, MovedKeys, IsEmpty
    <2>3. MapKeys' = MapKeys BY <2>1, <2>2 DEF MapKeys
    <2>4. /\ \A e, k : HomeIn(e, k)' = HomeIn(e, k)
          /\ \A i, k : HomeFar(i, k)' = HomeFar(i, k)
          /\ \A i : HomeFar(i, key)' = HomeFar(i, key)
          /\ HomeFar(index, key)' = HomeFar(index, key)
      BY <1>1 DEF HomeFar, Far, HomeIn
    <2>5. Doubled' = Doubled
      <3>1. \A pos, c : PlacesIn(MapKeys, pos, c)' <=> PlacesIn(MapKeys, pos, c)
        BY <2>3, <2>4 DEF PlacesIn
      <3>2. QED BY <1>1, <3>1 DEF Doubled
    <2>6. /\ FitsIn(table, capacity, {}, index, moved.probe_length)' = FitsIn(table, capacity, {}, index, moved.probe_length)
          /\ FitsIn(table, capacity, {}, index, entry.probe_length)' = FitsIn(table, capacity, {}, index, entry.probe_length)
      BY <1>1 DEF FitsIn, Far, IsEmpty
    <2>7. Growing' BY <1>1, <2>1, <2>2, <2>3, <2>5, <2>6 DEF OrderInv, Growing, IsEmpty
    <2>8. Passed(key, HomeFar(index, key))' = Passed(key, HomeFar(index, key))
      BY <1>1 DEF Passed, HomeFar, Far, HomeIn, Slots, IsEmpty
    <2>9. Inserting' BY <1>1, <2>1, <2>4, <2>6, <2>8 DEF OrderInv, Inserting
    <2>10. Searching' BY <1>1, <2>1, <2>4 DEF OrderInv, Searching
    <2>11. Iterated' BY <1>1, <2>1 DEF OrderInv, Iterated
    <2>12. Room' BY <1>1 DEF OrderInv, Room, IsEmpty
    <2>13. Fresh' BY <1>1 DEF OrderInv, Fresh
    <2>14. QED BY <2>1, <2>7, <2>9, <2>10, <2>11, <2>12, <2>13 DEF OrderInv
  <1>4. QED BY <1>2, <1>3

\* Every step keeps the invariant, if callers update the keys of the map only.
LEMMA OrderNext == OrderInv /\ ~UpdateAbsent /\ [Next]_vars => OrderInv'
  <1> SUFFICES ASSUME OrderInv, ~UpdateAbsent, [Next]_vars PROVE OrderInv'
    OBVIOUS
  <1>1. MapInv' BY InvNext DEF OrderInv
  <1>2. CASE UNCHANGED vars BY <1>1, <1>2, OrderStutter
  <1>3. CASE Call
    <2>1. ASSUME NEW n \in Requests, HashMapNew(n) PROVE OrderInv' BY <1>1, <2>1, OrderNew
    <2>2. ASSUME NEW k \in Keys, NEW v \in Values, HashMapInsert(k, v) PROVE OrderInv'
      BY <1>1, <2>2, OrderInsert
    <2>3. ASSUME NEW k \in Keys, NEW v \in Values, HashMapUpdate(k, v) PROVE OrderInv'
      BY <1>1, <2>3, OrderBegin
    <2>4. ASSUME NEW k \in Keys, HashMapGet(k) \/ HashMapRemove(k) PROVE OrderInv'
      BY <1>1, <2>4, OrderBegin
    <2>5. QED BY <1>1, <1>3, <2>1, <2>2, <2>3, <2>4, OrderIterateBegin, OrderFree DEF Call
  <1>4. CASE Step
    BY <1>1, <1>4, OrderGrowNext, OrderMoveEntry, OrderGrowReturn, OrderInsertStep, OrderInsertEnd,
       OrderUpdateStep, OrderGetStep, OrderRemoveStep, OrderShiftStep, OrderIterateStep DEF Step
  <1>5. QED BY <1>2, <1>3, <1>4 DEF Next

\* The invariant holds in every state.
LEMMA OrderAlways == ASSUME ~UpdateAbsent PROVE Spec => []OrderInv
  <1>1. OrderInv /\ [Next]_vars => OrderInv' BY OrderNext
  <1>2. QED BY <1>1, OrderInit, PTL DEF Spec

-----------------------------------------------------------------------------
(* What follows from it *)

\* No key has two buckets, between two calls.
UniqueKeys ==
    pc = "idle" => \A i, j \in Used : table[i].key = table[j].key => i = j

\* The invariant implies UniqueKeys.
LEMMA OrderUnique == OrderInv => UniqueKeys
  <1>1. Used = UsedIn(table, capacity) BY DEF Used, UsedIn, Slots
  <1>2. pc = "idle" => Hole = {} BY DEF Hole
  <1>3. QED BY <1>1, <1>2 DEF OrderInv, Good, GoodIn, UniqueIn, UniqueKeys

\* The slot before i.
LEMMA SlotBefore ==
    ASSUME NEW c \in Nat, c > 1, NEW i \in 0 .. (c - 1)
    PROVE  (i - 1) % c \in 0 .. (c - 1) /\ (i - 1) % c # i /\ Far(c, i, (i - 1) % c) = 1
  <1>1. CASE i = 0
    <2>1. (i - 1) % c = c - 1 BY <1>1, SMT
    <2>2. QED BY <1>1, <2>1 DEF Far
  <1>2. CASE i # 0
    <2>1. (i - 1) % c = i - 1 BY <1>2, SMT
    <2>2. QED BY <1>2, <2>1 DEF Far
  <1>3. QED BY <1>1, <1>2

\* The invariant implies RobinHood.
LEMMA OrderRobinHood == OrderInv => RobinHood
  <1> SUFFICES ASSUME OrderInv, pc = "idle"
               PROVE  /\ \A i \in Used :
                           /\ table[i].probe_length < MaxProbes(capacity)
                           /\ table[i].probe_length > 0 =>
                                 LET p == (i - 1) % capacity
                                 IN  p \in Used /\ table[i].probe_length <= table[p].probe_length + 1
                      /\ Used # Slots
    BY DEF RobinHood
  <1>1. MapInv /\ capacity > 1 BY DEF OrderInv, MapInv, Phases
  <1>2. /\ Used = UsedIn(table, capacity) /\ Hole = {} /\ capacity \in Nat
        /\ table \in [0 .. (capacity - 1) -> Buckets]
    BY <1>1, HomeFacts DEF Used, UsedIn, Slots
  <1>3. OrderIn(table, capacity, {}) /\ ShortIn(table, capacity, {}) BY <1>2 DEF OrderInv, Good, GoodIn
  <1>4. ASSUME NEW i \in Used PROVE table[i].probe_length < MaxProbes(capacity)
    BY <1>2, <1>3 DEF ShortIn
  <1>5. ASSUME NEW i \in Used, table[i].probe_length > 0, NEW p, p = (i - 1) % capacity
        PROVE  p \in Used /\ table[i].probe_length <= table[p].probe_length + 1
    <2>1. i \in 0 .. (capacity - 1) BY <1>2 DEF UsedIn
    <2>2. p \in 0 .. (capacity - 1) /\ p # i /\ Far(capacity, i, p) = 1 BY <1>1, <1>2, <1>5, <2>1, SlotBefore
    <2>3. table[i].probe_length \in Nat BY <1>2, <2>1, BucketFacts
    <2>4. Far(capacity, i, p) <= table[i].probe_length BY <1>5, <2>2, <2>3
    <2>5. FitsIn(table, capacity, {}, i, table[i].probe_length) BY <1>2, <1>3 DEF OrderIn
    <2>6. ~IsEmpty(table[p]) /\ table[i].probe_length <= table[p].probe_length + Far(capacity, i, p)
      BY <2>2, <2>4, <2>5 DEF FitsIn
    <2>7. QED BY <1>2, <2>2, <2>6 DEF UsedIn
  <1>6. Used # Slots
    <2>1. 10 * size <= 9 * capacity /\ size \in Nat BY DEF OrderInv, Room, MapInv, Types
    <2>2. size < capacity BY <1>1, <1>2, <2>1
    <2>3. PICK e \in 0 .. (capacity - 1) : IsEmpty(table[e]) BY <1>1, <2>2, EmptySlot
    <2>4. QED BY <2>3 DEF Used, Slots
  <1>7. QED BY <1>4, <1>5, <1>6

\* The invariant implies IterationComplete.
LEMMA OrderIterates == OrderInv => IterationComplete
  <1> SUFFICES ASSUME OrderInv, pc = "iterate", {i \in Used : i >= index} = {}
               PROVE  seen = {table[i].key : i \in Used} /\ Cardinality(seen) = size
    BY DEF IterationComplete
  <1>1. MapInv /\ capacity > 1 /\ index \in Nat BY DEF OrderInv, MapInv, Phases, Types
  <1>2. /\ Used = UsedIn(table, capacity) /\ Hole = {} /\ capacity \in Nat /\ Filled = Used
        /\ Used \subseteq 0 .. (capacity - 1)
    BY <1>1, HomeFacts DEF Used, UsedIn, Slots
  <1>3. \A i \in Used : i < index BY <1>1, <1>2
  <1>4. {j \in Used : j < index} = Used BY <1>3
  <1>5. seen = {table[i].key : i \in Used} BY <1>2, <1>4 DEF OrderInv, Iterated
  <1>6. \A i, j \in Used : table[i].key = table[j].key => i = j
    BY <1>2 DEF OrderInv, Good, GoodIn, UniqueIn
  <1>7. Cardinality(seen) = Cardinality(Used)
    <2>1. PICK U, S : U = Used /\ S = seen OBVIOUS
    <2>2. PICK f : f = [i \in U |-> table[i].key] OBVIOUS
    <2>3. f \in [U -> S] /\ \A i \in U : f[i] = table[i].key BY <1>5, <2>1, <2>2
    <2>4. \A i, j \in U : f[i] = f[j] => i = j BY <1>6, <2>1, <2>3
    <2>5. \A s \in S : \E i \in U : f[i] = s BY <1>5, <2>1, <2>3
    <2>6. f \in Injection(U, S) /\ f \in Surjection(U, S)
      BY <2>3, <2>4, <2>5 DEF Injection, Surjection, IsInjective
    <2>7. ExistsBijection(U, S) BY <2>6 DEF ExistsBijection, Bijection
    <2>8. IsFiniteSet(U) BY <1>2, <2>1, UsedCount
    <2>9. QED BY <2>1, <2>7, <2>8, FS_Bijection
  <1>8. QED BY <1>2, <1>5, <1>7 DEF OrderInv, MapInv, Exact

\* A search that gives up has passed every place where its key could be.
LEMMA OrderSearch == OrderInv => NoKeyMissed
  <1> SUFFICES ASSUME OrderInv, pc \in {"get", "remove"}, GivesUp(table[index]),
                      NEW p \in Slots, table[p].key = key
               PROVE  FALSE
    BY DEF NoKeyMissed, Present
  <1>1. /\ MapInv /\ Good /\ capacity > 1 /\ index \in Slots /\ key \in Keys /\ pc # "shift"
    BY DEF OrderInv, MapInv, Phases
  <1>2. /\ capacity \in Nat /\ Slots = 0 .. (capacity - 1) /\ Hole = {}
        /\ table \in [0 .. (capacity - 1) -> Buckets]
    BY <1>1, HomeFacts
  <1>3. p \in UsedIn(table, capacity) BY <1>1, <1>2, HashMapAssumption DEF UsedIn, IsEmpty
  <1>4. PICK c \in Nat : c = capacity BY <1>2
  <1>5. PICK x \in 0 .. (c - 1), h \in 0 .. (c - 1) : x = index /\ h = HomeIn(c, key)
    BY <1>1, <1>2, <1>4, HomeFacts
  <1>6. /\ table[p].probe_length = Far(c, p, h) /\ Far(c, x, h) <= Far(c, p, h) /\ probe = Far(c, x, h)
    BY <1>1, <1>3, <1>4, <1>5, HomeFacts DEF OrderInv, Searching, HomeFar
  <1>7. OrderIn(table, c, {}) BY <1>1, <1>2, <1>4 DEF Good, GoodIn
  <1>8. ~IsEmpty(table[x]) /\ Far(c, x, h) <= table[x].probe_length
    BY <1>1, <1>2, <1>3, <1>4, <1>6, <1>7, KeyMet
  <1>9. table[x].probe_length \in Nat /\ probe \in Nat
    BY <1>1, <1>2, <1>4, BucketFacts DEF MapInv, Types
  <1>10. QED BY <1>5, <1>6, <1>8, <1>9 DEF GivesUp

\* Between two calls hashmap_get reaches every bucket.
LEMMA OrderFound == OrderInv => KeysAreFound
  <1> SUFFICES ASSUME OrderInv, pc = "idle", NEW i \in Used PROVE Reachable(i)
    BY DEF KeysAreFound
  <1>1. /\ MapInv /\ Good /\ capacity > 1 /\ pc # "shift"
    BY DEF OrderInv, MapInv, Phases
  <1>2. /\ capacity \in Nat /\ Slots = 0 .. (capacity - 1) /\ Hole = {}
        /\ table \in [0 .. (capacity - 1) -> Buckets]
    BY <1>1, HomeFacts
  <1>3. i \in UsedIn(table, capacity) /\ i \in 0 .. (capacity - 1)
    BY <1>2 DEF UsedIn, Used
  <1>4. PICK c \in Nat : c = capacity BY <1>2
  <1>5. PICK h \in 0 .. (c - 1) : h = HomeIn(c, table[i].key) /\ h = Home(table[i].key)
    BY <1>1, <1>2, <1>3, <1>4, HomeFacts, StateFacts
  <1>6. table[i].probe_length = Far(c, i, h) BY <1>1, <1>3, <1>4, <1>5, HomeFacts DEF HomeFar
  <1>7. OrderIn(table, c, {}) BY <1>1, <1>2, <1>4 DEF Good, GoodIn
  <1>8. Distance(i) = Far(c, i, h) /\ Far(c, i, h) \in 0 .. (c - 1)
    <2>1. Distance(i) = (i - h) % c BY <1>4, <1>5 DEF Distance
    <2>2. (i - h) % c = Far(c, i, h) BY <1>3, <1>4, Circle
    <2>3. Far(c, i, h) \in 0 .. (c - 1) BY <1>1, <1>3, <1>4, FarFacts
    <2>4. QED BY <2>1, <2>2, <2>3
  <1>9. ASSUME NEW n \in 0 .. (Distance(i) - 1)
        PROVE  ~IsEmpty(table[(h + n) % c]) /\ n <= table[(h + n) % c].probe_length
    <2>1. n \in 0 .. (c - 1) /\ n <= Far(c, i, h) BY <1>8, <1>9
    <2>2. PICK x \in 0 .. (c - 1) : x = (h + n) % c /\ Far(c, x, h) = n
      <3>1. CASE h + n < c BY <2>1, <3>1 DEF Far
      <3>2. CASE h + n >= c
        <4>1. (h + n) % c = h + n - c BY <2>1, <3>2
        <4>2. QED BY <2>1, <3>2, <4>1 DEF Far
      <3>3. QED BY <2>1, <3>1, <3>2
    <2>3. QED BY <1>1, <1>2, <1>3, <1>4, <1>6, <1>7, <2>1, <2>2, KeyMet
  <1>10. QED BY <1>4, <1>5, <1>9 DEF Reachable

\* No key has two buckets between two calls, for maps of any size, as long as
\* hashmap_update is used on keys that are in the map.
THEOREM UniqueKeysTheorem == ASSUME ~UpdateAbsent PROVE Spec => []UniqueKeys
  <1>1. QED BY OrderAlways, OrderUnique, PTL

\* Under the same condition the table is in Robin Hood order between two
\* calls, no bucket is max_probes or more away from its home, and there is an
\* empty bucket.
THEOREM RobinHoodTheorem == ASSUME ~UpdateAbsent PROVE Spec => []RobinHood
  <1>1. QED BY OrderAlways, OrderRobinHood, PTL

\* Under the same condition a full iteration returns every key once.
THEOREM IterationTheorem == ASSUME ~UpdateAbsent PROVE Spec => []IterationComplete
  <1>1. QED BY OrderAlways, OrderIterates, PTL

\* Under the same condition hashmap_get and hashmap_remove give up only when
\* their key is not in the map.
THEOREM NoKeyMissedTheorem == ASSUME ~UpdateAbsent PROVE Spec => []NoKeyMissed
  <1>1. QED BY OrderAlways, OrderSearch, PTL

\* Under the same condition hashmap_get finds every key of the map: what the
\* tests of the map rely on fails only after an update of an absent key.
THEOREM KeysFoundTheorem == ASSUME ~UpdateAbsent PROVE Spec => []KeysAreFound
  <1>1. QED BY OrderAlways, OrderFound, PTL

-----------------------------------------------------------------------------
(* The map is a dictionary: the mapping *)

Contents == Values \cup {Null}

Holds(b, k, v) == b.key = k /\ b.value = v

\* Table t of c slots has a bucket with this key and value.
HeldIn(t, c, k, v) == \E i \in UsedIn(t, c) : Holds(t[i], k, v)

\* So has the map, in the middle of a growth too.
Stored(k, v) ==
    \/ HeldIn(table, capacity, k, v)
    \/ \E i \in DOMAIN old : Holds(old[i], k, v)
    \/ Holds(moved, k, v)

\* What the dictionary knows: the bucket in the hands of an insertion counts
\* unless its key is in the map.
Has(k, v) ==
    Stored(k, v) \/ (Holds(entry, k, v) /\ \A w \in Contents : ~Stored(k, w))

\* A key has one value, which is not NULL; and the slot that a removal will
\* empty next holds a copy of another bucket, or nothing.
OneValue ==
    /\ \A k \in Keys : ~Stored(k, Null) /\ \A v, w \in Contents : Stored(k, v) /\ Stored(k, w) => v = w
    /\ ~IsEmpty(entry) => entry.value \in Values
    /\ pc = "shift" /\ ~IsEmpty(table[index]) =>
          \E i \in Filled : Holds(table[i], table[index].key, table[index].value)

DictInv == OrderInv /\ OneValue

\* The values that hashmap_update stores as they are.
Plain == ~UpdateAbsent /\ Blocks = {} /\ (Pointers = {} \/ Words = {})

MapOf == [k \in Keys |-> ValueOf(k)]

\* The value of a key in the dictionary.
ValuesRight ==
    \A k \in Keys : ValueOf(k) \in Contents /\ \A v \in Values : Has(k, v) <=> ValueOf(k) = v

\* The mapping gives a key the value that the map has for it.
LEMMA ValueOfFacts == DictInv => ValuesRight
  <1> SUFFICES ASSUME DictInv, NEW k \in Keys
               PROVE  /\ ValueOf(k) \in Contents
                      /\ \A v \in Values : Has(k, v) <=> ValueOf(k) = v
    BY DEF ValuesRight
  <1>1. /\ capacity \in Nat /\ table \in [Slots -> Buckets] /\ old \in [DOMAIN old -> Buckets]
        /\ moved \in Buckets /\ entry \in Buckets
    BY DEF DictInv, OrderInv, MapInv, Types
  <1>2. UsedIn(table, capacity) = Used /\ Used \subseteq Slots BY <1>1 DEF UsedIn, Used, Slots
  <1>3. \A b \in Buckets : b.value \in Contents BY DEF Buckets, Contents
  <1>4. \A b \in Everywhere : b \in Buckets BY <1>1, <1>2 DEF Everywhere
  <1>5. \A v : Stored(k, v) <=> \E b \in Everywhere : Holds(b, k, v)
    BY <1>2 DEF Stored, HeldIn, Everywhere
  <1>6. CASE \E b \in Everywhere : b.key = k
    <2>1. PICK b : b = CHOOSE d \in Everywhere : d.key = k OBVIOUS
    <2>2. b \in Everywhere /\ b.key = k /\ ValueOf(k) = b.value BY <1>6, <2>1 DEF ValueOf
    <2>3. Stored(k, b.value) /\ b.value \in Contents BY <1>3, <1>4, <1>5, <2>2 DEF Holds
    <2>4. \A v \in Contents : Stored(k, v) <=> v = b.value BY <2>3 DEF DictInv, OneValue
    <2>5. Values \subseteq Contents BY DEF Contents
    <2>6. QED BY <2>2, <2>3, <2>4, <2>5 DEF Has
  <1>7. CASE ~\E b \in Everywhere : b.key = k
    <2>1. \A v : ~Stored(k, v) BY <1>5, <1>7 DEF Holds
    <2>2. ValueOf(k) = IF entry.key = k THEN entry.value ELSE Null BY <1>7 DEF ValueOf
    <2>3. Null \notin Values BY HashMapAssumption
    <2>4. QED BY <1>1, <1>3, <2>1, <2>2, <2>3 DEF Has, Holds, Contents
  <1>8. QED BY <1>6, <1>7

\* The dictionary is known from what it has.
LEMMA SameValue ==
    ASSUME DictInv, DictInv', NEW k \in Keys, \A v \in Values : Has(k, v)' <=> Has(k, v)
    PROVE  ValueOf(k)' = ValueOf(k)
  <1>1. ValueOf(k) \in Contents /\ \A v \in Values : Has(k, v) <=> ValueOf(k) = v
    BY ValueOfFacts DEF ValuesRight
  <1>2. ValueOf(k)' \in Contents /\ \A v \in Values : Has(k, v)' <=> ValueOf(k)' = v
    <2>1. ValuesRight' BY ValueOfFacts, PTL
    <2>2. QED BY <2>1 DEF ValuesRight, Contents, Values
  <1>3. QED BY <1>1, <1>2 DEF Contents

\* A step that leaves the map of the dictionary and its answer alone.
Quiet == DictInv' /\ MapOf' = MapOf /\ out' = out

\* A step after which the dictionary has what it had.
LEMMA Unnoticed ==
    ASSUME DictInv, DictInv', \A k \in Keys, v \in Values : Has(k, v)' <=> Has(k, v), out' = out
    PROVE  Quiet
  <1>1. \A k \in Keys : ValueOf(k)' = ValueOf(k) BY SameValue
  <1>2. MapOf' = MapOf BY <1>1 DEF MapOf
  <1>3. QED BY <1>2 DEF Quiet

\* A step that changes the value of one key.
LEMMA OneChanges ==
    ASSUME DictInv, DictInv', NEW l \in Keys,
           \A k \in Keys, v \in Values : k # l => (Has(k, v)' <=> Has(k, v))
    PROVE  MapOf' = [MapOf EXCEPT ![l] = ValueOf(l)']
  <1>1. \A k \in Keys : k # l => ValueOf(k)' = ValueOf(k) BY SameValue
  <1>2. QED BY <1>1 DEF MapOf

-----------------------------------------------------------------------------
(* The steps of the map, as the dictionary sees them *)

\* No bucket is lost, and none is new.
Kept == \A k \in Keys, v \in Contents : Stored(k, v)' <=> Stored(k, v)

EntryKept == entry'.key = entry.key /\ entry'.value = entry.value

Implements == DictInv' /\ [Dict!DictionaryNext]_Dict!dictionary

\* The call in progress stays the same.
CallKept == CallOp' = CallOp /\ CallKey' = CallKey /\ CallValue' = CallValue

\* A step that the dictionary does not notice.
LEMMA QuietKept == ASSUME Quiet, CallKept PROVE Implements
  BY DEF Quiet, CallKept, Implements, Dict!dictionary, MapOf

\* The insertion, of whatever bucket, goes on.
LEMMA QuietInsert ==
    ASSUME Quiet, pc \in {"insert", "grow"}, pc' \in {"insert", "grow"}
    PROVE  Implements
  <1>1. CallKept BY DEF CallKept, CallOp, CallKey, CallValue
  <1>2. QED BY <1>1, QuietKept

\* A call returns, or hashmap_new does, without an effect.
LEMMA QuietReturn ==
    ASSUME Quiet, pc' = "idle",
           pc \in {"none", "insert", "shift", "iterate"} \/ (pc = "remove" /\ MapOf[key] = Null)
    PROVE  Implements
  <1>1. Dict!Return BY DEF Dict!Return, CallOp, CallKey, CallValue
  <1>2. MapOf' = MapOf /\ out' = out /\ DictInv' BY DEF Quiet
  <1>3. CASE pc = "none"
    <2>1. CallOp = "none" BY <1>3 DEF CallOp
    <2>2. Dict!New BY <1>1, <1>2, <2>1 DEF Dict!New, MapOf
    <2>3. QED BY <1>2, <2>2 DEF Implements, Dict!DictionaryNext
  <1>4. CASE pc = "insert"
    <2>1. CallOp = "insert" BY <1>4 DEF CallOp
    <2>2. Dict!InsertReturn BY <1>1, <1>2, <2>1 DEF Dict!InsertReturn, MapOf
    <2>3. QED BY <1>2, <2>2 DEF Implements, Dict!DictionaryNext
  <1>5. CASE pc = "shift"
    <2>1. CallOp = "removed" BY <1>5 DEF CallOp
    <2>2. Dict!RemoveReturn BY <1>1, <1>2, <2>1 DEF Dict!RemoveReturn, MapOf
    <2>3. QED BY <1>2, <2>2 DEF Implements, Dict!DictionaryNext
  <1>6. CASE pc = "iterate"
    <2>1. CallOp = "iterate" BY <1>6 DEF CallOp
    <2>2. Dict!IterateReturn BY <1>1, <1>2, <2>1 DEF Dict!IterateReturn, MapOf
    <2>3. QED BY <1>2, <2>2 DEF Implements, Dict!DictionaryNext
  <1>7. CASE pc = "remove" /\ MapOf[key] = Null
    <2>1. CallOp = "remove" /\ CallKey = key BY <1>7 DEF CallOp, CallKey
    <2>2. Dict!RemoveReturn BY <1>1, <1>2, <1>7, <2>1 DEF Dict!RemoveReturn, MapOf
    <2>3. QED BY <1>2, <2>2 DEF Implements, Dict!DictionaryNext
  <1>8. QED BY <1>3, <1>4, <1>5, <1>6, <1>7

\* A call begins that takes effect later.
LEMMA QuietAsk ==
    ASSUME Quiet, pc = "idle",
           \/ pc' \in {"get", "remove"} /\ key' \in Keys
           \/ pc' = "update" /\ key' \in Keys /\ value' \in Values /\ MapOf[key'] # Null
           \/ pc' = "iterate"
    PROVE  Implements
  <1>1. MapOf' = MapOf /\ out' = out /\ DictInv' /\ CallOp = "idle" BY DEF Quiet, CallOp
  <1>2. CASE pc' = "get" /\ key' \in Keys
    <2>1. CallOp' = "get" /\ CallKey' = key' /\ CallValue' = Null BY <1>2 DEF CallOp, CallKey, CallValue
    <2>2. Dict!Get(key') BY <1>1, <2>1 DEF Dict!Get, Dict!Ask, MapOf
    <2>3. QED BY <1>1, <1>2, <2>2 DEF Implements, Dict!DictionaryNext
  <1>3. CASE pc' = "remove" /\ key' \in Keys
    <2>1. CallOp' = "remove" /\ CallKey' = key' /\ CallValue' = Null BY <1>3 DEF CallOp, CallKey, CallValue
    <2>2. Dict!Remove(key') BY <1>1, <2>1 DEF Dict!Remove, Dict!Ask, MapOf
    <2>3. QED BY <1>1, <1>3, <2>2 DEF Implements, Dict!DictionaryNext
  <1>4. CASE pc' = "update" /\ key' \in Keys /\ value' \in Values /\ MapOf[key'] # Null
    <2>1. CallOp' = "update" /\ CallKey' = key' /\ CallValue' = value'
      BY <1>4 DEF CallOp, CallKey, CallValue
    <2>2. Dict!Update(key', value') BY <1>1, <1>4, <2>1 DEF Dict!Update, Dict!Ask, MapOf
    <2>3. QED BY <1>1, <1>4, <2>2 DEF Implements, Dict!DictionaryNext
  <1>5. CASE pc' = "iterate"
    <2>1. CallOp' = "iterate" /\ CallKey' = NoKey /\ CallValue' = Null
      BY <1>5 DEF CallOp, CallKey, CallValue
    <2>2. Dict!Iterate BY <1>1, <2>1 DEF Dict!Iterate, Dict!Ask, MapOf
    <2>3. QED BY <1>1, <2>2 DEF Implements, Dict!DictionaryNext
  <1>6. QED BY <1>2, <1>3, <1>4, <1>5

\* A step that keeps every bucket is quiet.
LEMMA QuietStep ==
    ASSUME DictInv, OrderInv', Kept, EntryKept, pc' # "shift", out' = out
    PROVE  Quiet
  <1>1. \A v : v \in Values => v \in Contents BY DEF Contents
  <1>2. Null \in Contents BY DEF Contents
  <1>3. entry \in Buckets /\ entry' \in Buckets BY DEF DictInv, OrderInv, MapInv, Types, Buckets, Values
  <1>4. OneValue'
    <2>1. \A k \in Keys : ~Stored(k, Null)' /\ \A v, w \in Contents : Stored(k, v)' /\ Stored(k, w)' => v = w
      BY <1>2 DEF Kept, DictInv, OneValue
    <2>2. ~IsEmpty(entry') => entry'.value \in Values BY DEF EntryKept, DictInv, OneValue, IsEmpty
    <2>3. QED BY <2>1, <2>2 DEF OneValue, Contents, Values, IsEmpty
  <1>5. DictInv' BY <1>4 DEF DictInv
  <1>6. \A k \in Keys, v \in Values : Has(k, v)' <=> Has(k, v)
    <2>1. ASSUME NEW k \in Keys, NEW v \in Values PROVE Has(k, v)' <=> Has(k, v)
      <3>1. Stored(k, v)' <=> Stored(k, v) BY <1>1 DEF Kept
      <3>2. (\A w \in Contents : ~Stored(k, w)') <=> (\A w \in Contents : ~Stored(k, w)) BY DEF Kept
      <3>3. Holds(entry, k, v)' <=> Holds(entry, k, v) BY DEF EntryKept, Holds
      <3>4. QED BY <3>1, <3>2, <3>3 DEF Has, Contents, Values
    <2>2. QED BY <2>1
  <1>7. QED BY <1>5, <1>6, Unnoticed

\* The table stays as it is.
LEMMA TableKept ==
    ASSUME UNCHANGED <<capacity, table, old, moved>>
    PROVE  Kept
  BY DEF Kept, Stored, HeldIn, Holds, UsedIn

\* Nothing in hand is kept when nothing was.
LEMMA EntryEmpty ==
    ASSUME OrderInv, pc \notin {"insert", "grow"}, entry' = entry \/ entry' = Empty
    PROVE  EntryKept
  BY DEF OrderInv, Fresh, EntryKept

\* Writing a bucket into an empty slot.
LEMMA PutHeld ==
    ASSUME NEW c \in Nat, NEW t \in [0 .. (c - 1) -> Buckets], NEW x \in 0 .. (c - 1), IsEmpty(t[x]),
           NEW m \in Buckets, ~IsEmpty(m), NEW u, u = [t EXCEPT ![x] = m], NEW k, NEW v
    PROVE  HeldIn(u, c, k, v) <=> HeldIn(t, c, k, v) \/ Holds(m, k, v)
  BY DEF HeldIn, Holds, UsedIn

\* The bucket m in hand and the one at slot x change places, or do not: p is
\* in the slot then, and w in hand.
Trade(t, x, m, w, p) == (w = m /\ p = t[x]) \/ (w = t[x] /\ p = m)

\* Such a trade loses nothing.
LEMMA SwapHeld ==
    ASSUME NEW c \in Nat, NEW t \in [0 .. (c - 1) -> Buckets], NEW x \in 0 .. (c - 1), ~IsEmpty(t[x]),
           NEW m \in Buckets, ~IsEmpty(m), NEW w, NEW p, Trade(t, x, m, w, p),
           NEW u, u = [t EXCEPT ![x] = p], NEW k, NEW v
    PROVE  HeldIn(u, c, k, v) \/ Holds(w, k, v) <=> HeldIn(t, c, k, v) \/ Holds(m, k, v)
  <1>1. p \in Buckets /\ ~IsEmpty(p) BY DEF Trade
  <1>2. /\ u[x] = p /\ \A j \in 0 .. (c - 1) : j # x => u[j] = t[j]
        /\ UsedIn(u, c) = UsedIn(t, c)
    <2>1. u[x] = p /\ \A j \in 0 .. (c - 1) : j # x => u[j] = t[j] BY <1>1, PutUsed
    <2>2. QED BY <1>1, <2>1 DEF UsedIn
  <1>3. UsedIn(t, c) \subseteq 0 .. (c - 1) /\ x \in UsedIn(t, c) BY DEF UsedIn
  <1>4. HeldIn(u, c, k, v) <=> Holds(p, k, v) \/ \E i \in UsedIn(t, c) : i # x /\ Holds(t[i], k, v)
    BY <1>2, <1>3 DEF HeldIn
  <1>5. HeldIn(t, c, k, v) <=> Holds(t[x], k, v) \/ \E i \in UsedIn(t, c) : i # x /\ Holds(t[i], k, v)
    BY <1>3 DEF HeldIn
  <1>6. QED BY <1>4, <1>5 DEF Trade

\* hashmap_grow keeps what is in the table it is given.
LEMMA GrowHeld ==
    ASSUME MapInv, MapInv', NEW t, HashMapGrow(t), capacity > 1, IsEmpty(moved),
           t \in [0 .. (capacity - 1) -> Buckets], NEW k \in Keys, NEW v \in Contents
    PROVE  Stored(k, v)' <=> HeldIn(t, capacity, k, v)
  <1>1. capacity \in Nat \ {0} /\ Slots = 0 .. (capacity - 1) BY StateFacts
  <1>2. capacity' \in Nat /\ table' = EmptyTable(capacity') /\ moved' = moved /\ old' = InUse(t)
    BY DEF HashMapGrow, MapInv, Types
  <1>3. UsedIn(table', capacity') = {} BY <1>2, EmptyTableFacts
  <1>4. ~HeldIn(table', capacity', k, v) BY <1>3 DEF HeldIn
  <1>5. ~Holds(moved', k, v) BY <1>2, HashMapAssumption DEF Holds, IsEmpty
  <1>6. DOMAIN old' = UsedIn(t, capacity) /\ \A i \in UsedIn(t, capacity) : old'[i] = t[i]
    BY <1>1, <1>2 DEF InUse, UsedIn
  <1>7. (\E i \in DOMAIN old' : Holds(old'[i], k, v)) <=> HeldIn(t, capacity, k, v)
    BY <1>6 DEF HeldIn
  <1>8. QED BY <1>4, <1>5, <1>7 DEF Stored, HeldIn, Holds, UsedIn, IsEmpty

\* A step that leaves the table and the bucket in hand alone.
LEMMA ReadStep ==
    ASSUME DictInv, OrderInv', UNCHANGED <<capacity, table, old, moved, out>>,
           pc \notin {"insert", "grow"}, entry' = entry \/ entry' = Empty, pc' # "shift"
    PROVE  Quiet
  <1>1. Kept BY TableKept
  <1>2. EntryKept BY EntryEmpty DEF DictInv
  <1>3. QED BY <1>1, <1>2, QuietStep

\* A map at rest, or without a table, has nothing in hand.
LEMMA AtRest ==
    ASSUME OrderInv, pc \in {"none", "idle"}
    PROVE  /\ entry = Empty /\ IsEmpty(moved) /\ DOMAIN old = {} /\ capacity \in Nat /\ moved \in Buckets
           /\ pc = "none" => capacity = 0 /\ UsedIn(table, capacity) = {}
  <1>1. /\ entry = Empty /\ IsEmpty(moved) /\ DOMAIN old = {} /\ capacity \in Nat /\ moved \in Buckets
        /\ pc = "none" => capacity = 0
    BY DEF OrderInv, Fresh, MapInv, Phases, Types
  <1>2. capacity = 0 => UsedIn(table, capacity) = {} BY DEF UsedIn
  <1>3. QED BY <1>1, <1>2

\* A map without buckets in use has no value.
LEMMA NothingStored ==
    ASSUME UsedIn(table, capacity) = {}, DOMAIN old = {}, IsEmpty(moved), NEW k \in Keys, NEW v
    PROVE  ~Stored(k, v)
  BY HashMapAssumption DEF Stored, HeldIn, Holds, IsEmpty

\* hashmap_new.
LEMMA DictNew == ASSUME DictInv, OrderInv', NEW n \in Requests, HashMapNew(n) PROVE Implements
  <1>1. /\ pc = "none" /\ pc' = "idle" /\ table' = EmptyTable(capacity') /\ capacity' \in Nat
        /\ UNCHANGED <<entry, old, moved, out>>
    BY DEF HashMapNew, growVars, OrderInv, MapInv, Types
  <1>2. /\ UsedIn(table, capacity) = {} /\ DOMAIN old = {} /\ IsEmpty(moved)
    BY <1>1, AtRest DEF DictInv
  <1>3. UsedIn(table', capacity') = {} BY <1>1, EmptyTableFacts
  <1>4. \A k \in Keys : \A v : ~Stored(k, v) BY <1>2, NothingStored
  <1>5. \A k \in Keys : \A v : ~Stored(k, v)'
    BY <1>1, <1>2, <1>3, HashMapAssumption DEF Stored, HeldIn, Holds, IsEmpty
  <1>6. Kept BY <1>4, <1>5 DEF Kept
  <1>7. EntryKept BY <1>1 DEF EntryKept
  <1>8. Quiet BY <1>1, <1>6, <1>7, QuietStep
  <1>9. QED BY <1>1, <1>8, QuietReturn

\* hashmap_free.
LEMMA DictFree == ASSUME DictInv, OrderInv', HashMapFree PROVE Implements
  <1>1. /\ pc = "idle" /\ pc' = "none" /\ UNCHANGED <<entry, old, moved, out>>
    BY DEF HashMapFree, growVars
  <1>2. DOMAIN old = {} /\ IsEmpty(moved) /\ entry = Empty BY <1>1, AtRest DEF DictInv
  <1>3. UsedIn(table', capacity') = {}
    <2>1. capacity' = 0 BY DEF HashMapFree
    <2>2. QED BY <2>1 DEF UsedIn
  <1>4. \A k \in Keys : \A v : ~Stored(k, v)'
    BY <1>1, <1>2, <1>3, HashMapAssumption DEF Stored, HeldIn, Holds, IsEmpty
  <1>5. DictInv'
    <2>1. IsEmpty(entry') BY <1>1, <1>2, NewBucketFacts
    <2>2. QED BY <1>1, <1>4, <2>1 DEF DictInv, OneValue, IsEmpty
  <1>6. \A k \in Keys : ValueOf(k)' = Null
    <2>1. ASSUME NEW k \in Keys PROVE ValueOf(k)' = Null
      <3>1. ValuesRight' BY <1>5, ValueOfFacts, PTL
      <3>2. entry'.key = NoKey BY <1>1, <1>2 DEF Empty
      <3>3. \A v \in Values : ~Has(k, v)'
        BY <1>4, <3>2, HashMapAssumption DEF Has, Holds, Values
      <3>4. QED BY <3>1, <3>3 DEF ValuesRight, Contents, Values
    <2>2. QED BY <2>1
  <1>7. MapOf' = [k \in Keys |-> Null] BY <1>6 DEF MapOf
  <1>8. /\ CallOp = "idle" /\ CallOp' = "none" /\ CallKey' = CallKey /\ CallValue' = CallValue
    BY <1>1 DEF CallOp, CallKey, CallValue
  <1>9. Dict!Free BY <1>1, <1>7, <1>8 DEF Dict!Free, MapOf
  <1>10. QED BY <1>5, <1>9 DEF Implements, Dict!DictionaryNext

\* hashmap_insert begins: the dictionary gets the key, unless it has it.
LEMMA DictInsert ==
    ASSUME DictInv, OrderInv', NEW l \in Keys, NEW z \in Values, HashMapInsert(l, z)
    PROVE  Implements
  <1>1. /\ pc = "idle" /\ entry' = Bucket(l, z, 0) /\ UNCHANGED out BY DEF HashMapInsert
  <1>2. /\ MapInv /\ MapInv' /\ capacity > 1 /\ IsEmpty(moved) /\ entry = Empty /\ DOMAIN old = {}
        /\ moved \in Buckets
    BY <1>1, AtRest DEF DictInv, OrderInv, MapInv, Phases
  <1>3. pc' # "shift" BY DEF HashMapInsert, HashMapGrow
  <1>4. Kept
    <2>1. CASE UNCHANGED <<capacity, table, size, growVars>> BY <2>1, TableKept DEF growVars
    <2>2. CASE HashMapGrow(table)
      <3>1. PICK t : t = table OBVIOUS
      <3>2. t \in [0 .. (capacity - 1) -> Buckets] /\ HashMapGrow(t) BY <1>2, <2>2, <3>1, HomeFacts
      <3>3. \A k \in Keys, v \in Contents : Stored(k, v)' <=> HeldIn(t, capacity, k, v)
        BY <1>2, <3>2, GrowHeld
      <3>4. \A k \in Keys : \A v : Stored(k, v) <=> HeldIn(table, capacity, k, v)
        BY <1>2, HashMapAssumption DEF Stored, Holds, IsEmpty
      <3>5. QED BY <3>1, <3>3, <3>4 DEF Kept
    <2>3. QED BY <2>1, <2>2 DEF HashMapInsert
  <1>5. entry'.key = l /\ entry'.value = z BY <1>1, NewBucketFacts
  <1>6. \A k \in Keys : ~Stored(k, Null)' /\ \A v, w \in Contents : Stored(k, v)' /\ Stored(k, w)' => v = w
    BY <1>4 DEF Kept, DictInv, OneValue, Contents
  <1>7. DictInv' BY <1>3, <1>5, <1>6 DEF DictInv, OneValue, Contents, Values, IsEmpty
  <1>8. entry.key = NoKey BY <1>2 DEF Empty
  <1>9. \A v \in Values : v \in Contents BY DEF Contents
  <1>10. \A k \in Keys, v \in Values : Has(k, v) <=> Stored(k, v)
    BY <1>8, HashMapAssumption DEF Has, Holds
  <1>11. \A k \in Keys, v \in Values :
            Has(k, v)' <=> Stored(k, v) \/ (k = l /\ v = z /\ \A w \in Contents : ~Stored(k, w))
    <2>1. \A k \in Keys, v \in Values :
             Has(k, v)' <=> Stored(k, v)' \/ (Holds(entry', k, v) /\ \A w \in Contents : ~Stored(k, w)')
      BY DEF Has, Contents, Values
    <2>2. QED BY <1>4, <1>5, <1>9, <2>1 DEF Kept, Holds
  <1>0. Dict!Ask("insert", NoKey, Null)
    <2>1. pc' \in {"insert", "grow"} BY DEF HashMapInsert, HashMapGrow
    <2>2. QED BY <1>1, <2>1 DEF Dict!Ask, CallOp, CallKey, CallValue
  <1>12. CASE \E w \in Contents : Stored(l, w)
    <2>1. \A k \in Keys, v \in Values : Has(k, v)' <=> Has(k, v) BY <1>10, <1>11, <1>12
    <2>2. MapOf' = MapOf BY <1>1, <1>7, <2>1, Unnoticed DEF Quiet
    <2>3. PICK w \in Values : Stored(l, w) BY <1>12 DEF DictInv, OneValue, Contents
    <2>4. ValueOf(l) = w BY <1>10, <2>3, ValueOfFacts DEF ValuesRight
    <2>5. MapOf[l] # Null BY <2>4, HashMapAssumption DEF MapOf
    <2>6. Dict!Insert(l, z) BY <1>0, <1>1, <2>2, <2>5 DEF Dict!Insert, MapOf
    <2>7. QED BY <1>7, <2>6 DEF Implements, Dict!DictionaryNext
  <1>13. CASE \A w \in Contents : ~Stored(l, w)
    <2>1. \A k \in Keys, v \in Values : k # l => (Has(k, v)' <=> Has(k, v)) BY <1>10, <1>11
    <2>2. MapOf' = [MapOf EXCEPT ![l] = ValueOf(l)'] BY <1>7, <2>1, OneChanges
    <2>3. Has(l, z)' /\ \A v \in Values : ~Has(l, v) BY <1>9, <1>10, <1>11, <1>13
    <2>4. ValueOf(l) = Null BY <2>3, ValueOfFacts DEF ValuesRight, Contents
    <2>5. ValueOf(l)' = z
      <3>1. ValuesRight' BY <1>7, ValueOfFacts, PTL
      <3>2. QED BY <2>3, <3>1 DEF ValuesRight, Values
    <2>6. MapOf[l] = Null /\ MapOf' = [MapOf EXCEPT ![l] = z] BY <2>2, <2>4, <2>5 DEF MapOf
    <2>7. Dict!Insert(l, z) BY <1>0, <1>1, <2>6 DEF Dict!Insert, MapOf
    <2>8. QED BY <1>7, <2>7 DEF Implements, Dict!DictionaryNext
  <1>14. QED BY <1>12, <1>13

\* hashmap_grow takes a bucket of the old table.
LEMMA DictGrowNext == ASSUME DictInv, OrderInv', GrowNext PROVE Implements
  <1>1. /\ pc = "grow" /\ pc' = "grow" /\ IsEmpty(moved) /\ UNCHANGED <<capacity, table, entry, out>>
    BY DEF GrowNext, mapVars
  <1>2. PICK i \in DOMAIN old : /\ moved' = [old[i] EXCEPT !.probe_length = 0]
                                /\ old' = [j \in DOMAIN old \ {i} |-> old[j]]
    BY DEF GrowNext
  <1>3. old[i] \in Buckets BY DEF DictInv, OrderInv, MapInv, Types
  <1>4. moved'.key = old[i].key /\ moved'.value = old[i].value BY <1>2, <1>3, BucketFacts
  <1>5. ASSUME NEW k \in Keys, NEW v \in Contents PROVE Stored(k, v)' <=> Stored(k, v)
    <2>1. ~Holds(moved, k, v) BY <1>1, HashMapAssumption DEF Holds, IsEmpty
    <2>2. Holds(moved', k, v) <=> Holds(old[i], k, v) BY <1>4 DEF Holds
    <2>3. (\E j \in DOMAIN old : Holds(old[j], k, v)) <=>
              Holds(old[i], k, v) \/ \E j \in DOMAIN old' : Holds(old'[j], k, v)
      BY <1>2 DEF Holds
    <2>4. HeldIn(table', capacity', k, v) <=> HeldIn(table, capacity, k, v) BY <1>1
    <2>5. QED BY <2>1, <2>2, <2>3, <2>4 DEF Stored, HeldIn, Holds, UsedIn
  <1>6. Kept BY <1>5 DEF Kept
  <1>7. EntryKept BY <1>1 DEF EntryKept
  <1>8. Quiet BY <1>1, <1>6, <1>7, QuietStep
  <1>9. QED BY <1>1, <1>8, QuietInsert

\* The key and the value of a bucket that goes one step on.
LEMMA StepOn ==
    ASSUME NEW w \in Buckets, NEW e, e = [w EXCEPT !.probe_length = @ + 1]
    PROVE  e.key = w.key /\ e.value = w.value
  <1>1. PICK d \in Nat : d = w.probe_length + 1 BY BucketFacts
  <1>2. e = [w EXCEPT !.probe_length = d] BY <1>1
  <1>3. QED BY <1>2, BucketFacts

\* hashmap_move_entry swaps buckets, or puts one down.
LEMMA DictMoveEntry == ASSUME DictInv, OrderInv', MoveEntry PROVE Implements
  <1>1. /\ pc = "grow" /\ pc' = "grow" /\ ~IsEmpty(moved) /\ capacity > 1 /\ index \in Slots
        /\ UNCHANGED <<capacity, entry, old, out>> /\ MapInv
    BY DEF MoveEntry, DictInv, OrderInv, MapInv, Phases
  <1>2. /\ capacity \in Nat /\ Slots = 0 .. (capacity - 1)
        /\ table \in [0 .. (capacity - 1) -> Buckets] /\ moved \in Buckets
    BY <1>1, HomeFacts DEF MapInv, Types
  <1>3. PICK x \in 0 .. (capacity - 1), m \in Buckets : x = index /\ m = moved BY <1>1, <1>2
  <1>4. ASSUME NEW k \in Keys, NEW v \in Contents
        PROVE  HeldIn(table', capacity, k, v) \/ Holds(moved', k, v)
                   <=> HeldIn(table, capacity, k, v) \/ Holds(moved, k, v)
    <2>1. CASE IsEmpty(table[x])
      <3>1. PICK u : u = [table EXCEPT ![x] = m] OBVIOUS
      <3>2. table' = u /\ moved' = Empty BY <1>3, <2>1, <3>1 DEF MoveEntry
      <3>3. ~Holds(moved', k, v) BY <3>2, HashMapAssumption DEF Holds, Empty
      <3>4. HeldIn(u, capacity, k, v) <=> HeldIn(table, capacity, k, v) \/ Holds(m, k, v)
        BY <1>1, <1>2, <1>3, <2>1, <3>1, PutHeld
      <3>5. QED BY <1>3, <3>2, <3>3, <3>4
    <2>2. CASE ~IsEmpty(table[x])
      <3>1. PICK w, p, u : /\ u = [table EXCEPT ![x] = p] /\ table' = u
                           /\ moved' = [w EXCEPT !.probe_length = @ + 1]
                           /\ Trade(table, x, m, w, p)
        <4>1. CASE m.probe_length > table[x].probe_length
          BY <1>3, <2>2, <4>1 DEF MoveEntry, Trade
        <4>2. CASE ~(m.probe_length > table[x].probe_length)
          <5>1. table = [table EXCEPT ![x] = table[x]] BY <1>2
          <5>2. QED BY <1>3, <2>2, <4>2, <5>1 DEF MoveEntry, Trade
        <4>3. QED BY <4>1, <4>2
      <3>2. w \in Buckets BY <1>2, <3>1 DEF Trade
      <3>3. Holds(moved', k, v) <=> Holds(w, k, v) BY <3>1, <3>2, StepOn DEF Holds
      <3>4. HeldIn(u, capacity, k, v) \/ Holds(w, k, v)
                <=> HeldIn(table, capacity, k, v) \/ Holds(m, k, v)
        <4>1. capacity \in Nat /\ table \in [0 .. (capacity - 1) -> Buckets] /\ ~IsEmpty(m)
          BY <1>1, <1>2, <1>3
        <4>2. Trade(table, x, m, w, p) BY <3>1
        <4>3. u = [table EXCEPT ![x] = p] BY <3>1
        <4>4. QED BY <2>2, <4>1, <4>2, <4>3, SwapHeld, Zenon
      <3>5. QED BY <1>3, <3>1, <3>3, <3>4
    <2>3. QED BY <2>1, <2>2
  <1>5. ASSUME NEW k \in Keys, NEW v \in Contents PROVE Stored(k, v)' <=> Stored(k, v)
    <2>1. (\E i \in DOMAIN old' : Holds(old'[i], k, v)) <=> \E i \in DOMAIN old : Holds(old[i], k, v)
      BY <1>1
    <2>2. Stored(k, v)' <=> \/ HeldIn(table', capacity, k, v)
                            \/ \E i \in DOMAIN old' : Holds(old'[i], k, v)
                            \/ Holds(moved', k, v)
      BY <1>1 DEF Stored, HeldIn, Holds, UsedIn, IsEmpty
    <2>3. QED BY <1>4, <2>1, <2>2 DEF Stored
  <1>6. Kept BY <1>5 DEF Kept
  <1>7. EntryKept BY <1>1 DEF EntryKept
  <1>8. Quiet BY <1>1, <1>6, <1>7, QuietStep
  <1>9. QED BY <1>1, <1>8, QuietInsert

\* The end of hashmap_grow.
LEMMA DictGrowReturn == ASSUME DictInv, OrderInv', GrowReturn PROVE Implements
  <1>1. /\ pc = "grow" /\ IsEmpty(moved) /\ DOMAIN old = {} /\ entry' = [entry EXCEPT !.probe_length = 0]
        /\ UNCHANGED out
    BY DEF GrowReturn
  <1>2. capacity \in Nat /\ size \in Nat /\ entry \in Buckets BY DEF DictInv, OrderInv, MapInv, Types
  <1>3. EntryKept BY <1>1, <1>2, BucketFacts DEF EntryKept
  <1>4. 10 * (size + 1) <= 9 * capacity
    <2>1. Cardinality(DOMAIN old) = 0 BY <1>1, FS_EmptySet
    <2>2. 10 * (size + 0 + 0 + 1) <= 9 * capacity BY <1>1, <2>1 DEF DictInv, OrderInv, Room
    <2>3. QED BY <1>2, <2>2
  <1>5. ~Loaded BY <1>2, <1>4 DEF Loaded
  <1>6. pc' = "insert" /\ UNCHANGED <<capacity, table, old, moved>> BY <1>5 DEF GrowReturn, growVars
  <1>7. Quiet BY <1>1, <1>3, <1>6, TableKept, QuietStep
  <1>8. QED BY <1>1, <1>6, <1>7, QuietInsert

\* An insertion ends: the bucket in hand is put into the table, or its key is
\* there.
LEMMA DictInsertEnd == ASSUME DictInv, OrderInv', InsertEnd PROVE Implements
  <1>1. /\ pc = "insert" /\ MapInv /\ Good /\ capacity > 1 /\ index \in Slots /\ key \in Keys
        /\ entry.key \in Keys /\ entry \in Buckets /\ IsEmpty(moved) /\ DOMAIN old = {}
        /\ pc' = "idle" /\ entry' = Empty /\ UNCHANGED <<capacity, old, moved, out>>
    BY DEF InsertEnd, Return, growVars, DictInv, OrderInv, MapInv, Phases, Types
  <1>2. /\ capacity \in Nat /\ Slots = 0 .. (capacity - 1) /\ Hole = {}
        /\ table \in [0 .. (capacity - 1) -> Buckets] /\ ~IsEmpty(entry)
    BY <1>1, HomeFacts, BucketFacts
  <1>3. entry.value \in Values /\ IsEmpty(entry') /\ entry'.key = NoKey
    BY <1>1, <1>2, NewBucketFacts DEF DictInv, OneValue, Empty
  <1>4. \A k \in Keys : \A v : ~Holds(moved, k, v) /\ ~Holds(entry', k, v)
    BY <1>1, <1>3, HashMapAssumption DEF Holds, IsEmpty
  <1>5. \A k \in Keys : \A v : /\ Stored(k, v) <=> HeldIn(table, capacity, k, v)
                               /\ Stored(k, v)' <=> HeldIn(table', capacity, k, v)
    <2>1. \A k \in Keys : \A v : Stored(k, v) <=> HeldIn(table, capacity, k, v) BY <1>1, <1>4 DEF Stored
    <2>2. \A k \in Keys : \A v : Stored(k, v)' <=> HeldIn(table', capacity, k, v)
      BY <1>1, <1>4 DEF Stored, HeldIn, Holds, UsedIn, IsEmpty
    <2>3. QED BY <2>1, <2>2
  <1>6. PICK x \in 0 .. (capacity - 1), m \in Buckets : x = index /\ m = entry BY <1>1, <1>2
  <1>7. \A k \in Keys, v \in Contents :
           Stored(k, v)' <=> Stored(k, v) \/ (Holds(m, k, v) /\ \A w \in Contents : ~Stored(k, w))
    <2>1. CASE IsEmpty(table[x]) /\ table' = [table EXCEPT ![x] = m]
      <3>1. m.key \notin KeysIn(table, capacity, {}) BY <1>1, <1>6, <2>1, EntryNewAtEnd DEF DictInv
      <3>2. \A w : ~HeldIn(table, capacity, m.key, w) BY <3>1 DEF HeldIn, KeysIn, Holds
      <3>3. PICK u : u = [table EXCEPT ![x] = m] OBVIOUS
      <3>4. \A k, v : HeldIn(u, capacity, k, v) <=> HeldIn(table, capacity, k, v) \/ Holds(m, k, v)
        BY <1>2, <1>6, <2>1, <3>3, PutHeld
      <3>5. SUFFICES ASSUME NEW k \in Keys, NEW v \in Contents
                     PROVE  Stored(k, v)' <=> \/ Stored(k, v)
                                              \/ Holds(m, k, v) /\ \A w \in Contents : ~Stored(k, w)
        OBVIOUS
      <3>6. Stored(k, v)' <=> Stored(k, v) \/ Holds(m, k, v) BY <1>5, <2>1, <3>3, <3>4
      <3>7. Holds(m, k, v) => \A w \in Contents : ~Stored(k, w) BY <1>5, <3>2 DEF Holds
      <3>8. QED BY <3>6, <3>7
    <2>2. CASE ~IsEmpty(table[x]) /\ Matches(table[x]) /\ table' = table
      <3>1. x \in UsedIn(table, capacity) BY <2>2 DEF UsedIn
      <3>2. TableKeys = KeysIn(table, capacity, {}) BY <1>2 DEF TableKeys
      <3>3. table[x].key = m.key
        <4>1. CASE again BY <1>6, <2>2, <4>1 DEF Matches
        <4>2. CASE ~again /\ entry.key = key BY <1>6, <2>2, <4>2 DEF Matches
        <4>3. CASE ~again /\ entry.key # key
          <5>1. table[x].key = key BY <2>2, <4>3 DEF Matches
          <5>2. PICK p \in UsedIn(table, capacity) :
                    table[p].key = key /\ HomeFar(p, key) < HomeFar(index, key)
            BY <1>1, <4>3 DEF DictInv, OrderInv, Inserting
          <5>3. p = x BY <1>1, <1>2, <3>1, <5>1, <5>2 DEF Good, GoodIn, UniqueIn
          <5>4. HomeFar(x, key) \in Nat BY <1>1, <1>6, HomeFacts
          <5>5. QED BY <1>6, <5>2, <5>3, <5>4
        <4>4. QED BY <4>1, <4>2, <4>3
      <3>4. table[x].value \in Contents /\ HeldIn(table, capacity, m.key, table[x].value)
        <4>1. table[x] \in Buckets BY <1>2
        <4>2. QED BY <3>1, <3>3, <4>1 DEF HeldIn, Holds, Buckets, Contents
      <3>5. SUFFICES ASSUME NEW k \in Keys, NEW v \in Contents
                     PROVE  Stored(k, v)' <=> \/ Stored(k, v)
                                              \/ Holds(m, k, v) /\ \A w \in Contents : ~Stored(k, w)
        OBVIOUS
      <3>6. Stored(k, v)' <=> Stored(k, v) BY <1>5, <2>2
      <3>7. Holds(m, k, v) => \E w \in Contents : Stored(k, w) BY <1>5, <3>4 DEF Holds
      <3>8. QED BY <3>6, <3>7
    <2>3. QED BY <1>6, <2>1, <2>2 DEF InsertEnd
  <1>8. m.value \in Values /\ Null \notin Values BY <1>3, <1>6, HashMapAssumption
  <1>9. \A k \in Keys : ~Stored(k, Null)' /\ \A v, w \in Contents : Stored(k, v)' /\ Stored(k, w)' => v = w
    <2>1. Null \in Contents BY DEF Contents
    <2>2. \A k \in Keys : ~Stored(k, Null) /\ \A v, w \in Contents : Stored(k, v) /\ Stored(k, w) => v = w
      BY DEF DictInv, OneValue
    <2>3. QED BY <1>7, <1>8, <2>1, <2>2 DEF Holds
  <1>10. DictInv' BY <1>1, <1>3, <1>9 DEF DictInv, OneValue, Contents, Values, IsEmpty
  <1>11. \A k \in Keys, v \in Values : Has(k, v)' <=> Has(k, v)
    <2>1. \A k \in Keys, v \in Values : Has(k, v)' <=> Stored(k, v)'
      BY <1>4 DEF Has, Holds, Values
    <2>2. \A v \in Values : v \in Contents BY DEF Contents
    <2>3. QED BY <1>6, <1>7, <2>1, <2>2 DEF Has
  <1>12. Quiet BY <1>1, <1>10, <1>11, Unnoticed
  <1>13. QED BY <1>1, <1>12, QuietReturn

\* One turn of the loop of an insertion: the bucket in hand is kept, or it is
\* traded for one that the dictionary goes on to have.
LEMMA DictInsertStep == ASSUME DictInv, OrderInv', InsertStep PROVE Implements
  <1>0. OrderInv BY DEF DictInv
  <1>1. /\ pc = "insert" /\ MapInv /\ Good /\ capacity > 1 /\ capacity \in Nat /\ Hole = {}
        /\ IsEmpty(moved) /\ index \in 0 .. (capacity - 1) /\ DOMAIN old = {}
        /\ table \in [0 .. (capacity - 1) -> Buckets] /\ index \in UsedIn(table, capacity)
        /\ entry \in Buckets /\ ~IsEmpty(entry) /\ MapInv' /\ UNCHANGED out
    BY <1>0, InsertFacts DEF OrderInv, MapInv, Phases, InsertStep
  <1>2. PICK x \in 0 .. (capacity - 1), m \in Buckets :
           x = index /\ m = entry /\ ~IsEmpty(m) /\ ~IsEmpty(table[x]) /\ x \in UsedIn(table, capacity)
    BY <1>1 DEF UsedIn
  <1>3. PICK w, p, u : /\ u = [table EXCEPT ![x] = p]
                       /\ entry' = [w EXCEPT !.probe_length = @ + 1]
                       /\ \/ w = m /\ p = table[x]
                          \/ w = table[x] /\ p = m /\ m.probe_length > table[x].probe_length
                       /\ \/ table' = u /\ UNCHANGED <<capacity, pc, growVars>>
                          \/ HashMapGrow(u)
    <2>1. CASE m.probe_length > table[x].probe_length
      <3>1. /\ entry' = [table[x] EXCEPT !.probe_length = @ + 1]
            /\ \/ table' = [table EXCEPT ![x] = m] /\ UNCHANGED <<capacity, pc, growVars>>
               \/ HashMapGrow([table EXCEPT ![x] = m])
        BY <1>2, <2>1 DEF InsertStep
      <3>2. QED BY <2>1, <3>1
    <2>2. CASE ~(m.probe_length > table[x].probe_length)
      <3>1. table = [table EXCEPT ![x] = table[x]] BY <1>1
      <3>2. /\ entry' = [m EXCEPT !.probe_length = @ + 1]
            /\ \/ table' = table /\ UNCHANGED <<capacity, pc, growVars>>
               \/ HashMapGrow(table)
        BY <1>2, <2>2 DEF InsertStep
      <3>3. QED BY <3>1, <3>2
    <2>3. QED BY <2>1, <2>2
  <1>4. w \in Buckets /\ ~IsEmpty(w) /\ p \in Buckets /\ u \in [0 .. (capacity - 1) -> Buckets]
        /\ Trade(table, x, m, w, p)
    BY <1>1, <1>2, <1>3 DEF Trade
  <1>5. entry'.key = w.key /\ entry'.value = w.value BY <1>3, <1>4, StepOn
  <1>6. pc' \in {"insert", "grow"} BY <1>1, <1>3 DEF HashMapGrow
  <1>7. \A k \in Keys, v \in Contents : Stored(k, v)' <=> HeldIn(u, capacity, k, v)
    <2>1. CASE table' = u /\ UNCHANGED <<capacity, pc, growVars>>
      BY <1>1, <2>1, HashMapAssumption DEF Stored, HeldIn, Holds, UsedIn, IsEmpty, growVars
    <2>2. CASE HashMapGrow(u) BY <1>1, <1>4, <2>2, GrowHeld
    <2>3. QED BY <1>3, <2>1, <2>2
  <1>8. \A k \in Keys : \A v : Stored(k, v) <=> HeldIn(table, capacity, k, v)
    BY <1>1, HashMapAssumption DEF Stored, Holds, IsEmpty
  <1>9. CASE w = m /\ p = table[x]
    <2>1. u = table BY <1>1, <1>3, <1>9
    <2>2. Kept BY <1>7, <1>8, <2>1 DEF Kept
    <2>3. EntryKept BY <1>2, <1>5, <1>9 DEF EntryKept
    <2>4. Quiet BY <1>1, <1>6, <2>2, <2>3, QuietStep
    <2>5. QED BY <1>1, <1>6, <2>4, QuietInsert
  <1>10. CASE w = table[x] /\ p = m /\ m.probe_length > table[x].probe_length
    <2>1. m.key \notin KeysIn(table, capacity, {}) BY <1>0, <1>2, <1>10, EntryNew
    <2>2. w.key \notin KeysIn(u, capacity, {})
      <3>1. UniqueIn(table, capacity, {}) BY <1>1 DEF Good, GoodIn
      <3>2. QED BY <1>1, <1>2, <1>3, <1>10, <2>1, <3>1, SwapKeys
    <2>3. (\A v : ~HeldIn(table, capacity, m.key, v)) /\ \A v : ~HeldIn(u, capacity, w.key, v)
      BY <2>1, <2>2 DEF HeldIn, KeysIn, Holds
    <2>4. \A k, v : HeldIn(u, capacity, k, v) \/ Holds(w, k, v)
                        <=> HeldIn(table, capacity, k, v) \/ Holds(m, k, v)
      <3>1. capacity \in Nat /\ table \in [0 .. (capacity - 1) -> Buckets] BY <1>1
      <3>2. ~IsEmpty(table[x]) /\ ~IsEmpty(m) BY <1>2
      <3>3. Trade(table, x, m, w, p) /\ u = [table EXCEPT ![x] = p] BY <1>3, <1>4
      <3>4. QED BY <3>1, <3>2, <3>3, SwapHeld, Zenon
    <2>5. m.value \in Values /\ Null \notin Values /\ \A v \in Values : v \in Contents
      BY <1>2, HashMapAssumption DEF DictInv, OneValue, Contents
    <2>6. w.key \in Keys /\ w.value \in Contents BY <1>4 DEF Buckets, IsEmpty, Contents
    <2>7. w.value \in Values
      <3>1. Stored(w.key, w.value) BY <1>2, <1>8, <1>10, <2>6 DEF HeldIn, Holds
      <3>2. w.value # Null BY <2>6, <3>1 DEF DictInv, OneValue
      <3>3. QED BY <2>6, <3>2 DEF Contents
    <2>8. \A k \in Keys : ~Stored(k, Null)' /\ \A v, z \in Contents : Stored(k, v)' /\ Stored(k, z)' => v = z
      <3>1. \A k \in Keys : ~Stored(k, Null) /\ \A v, z \in Contents : Stored(k, v) /\ Stored(k, z) => v = z
        BY DEF DictInv, OneValue
      <3>2. Null \in Contents BY DEF Contents
      <3>3. \A k \in Keys, v \in Contents : Stored(k, v)' => Stored(k, v) \/ Holds(m, k, v)
        BY <1>7, <1>8, <2>4
      <3>4. \A v : m.key \in Keys => ~Stored(m.key, v) BY <1>8, <2>3
      <3>5. QED BY <2>5, <3>1, <3>2, <3>3, <3>4 DEF Holds
    <2>9. DictInv' BY <1>5, <1>6, <2>7, <2>8 DEF DictInv, OneValue, Contents, Values, IsEmpty
    <2>10. ASSUME NEW k \in Keys, NEW v \in Values PROVE Has(k, v)' <=> Has(k, v)
      <3>1. Has(k, v) <=> HeldIn(table, capacity, k, v) \/ Holds(m, k, v)
        BY <1>2, <1>8, <2>3 DEF Has, Holds
      <3>2. Has(k, v)' <=> Stored(k, v)' \/ (Holds(entry', k, v) /\ \A z \in Contents : ~Stored(k, z)')
        BY DEF Has, Holds, Contents, Values
      <3>3. Holds(entry', k, v) <=> Holds(w, k, v) BY <1>5 DEF Holds
      <3>4. Holds(w, k, v) => \A z \in Contents : ~Stored(k, z)' BY <1>7, <2>3 DEF Holds
      <3>5. Stored(k, v)' <=> HeldIn(u, capacity, k, v) BY <1>7, <2>5
      <3>6. QED BY <2>4, <3>1, <3>2, <3>3, <3>4, <3>5
    <2>11. Quiet BY <1>1, <2>9, <2>10, Unnoticed
    <2>12. QED BY <1>1, <1>6, <2>11, QuietInsert
  <1>11. QED BY <1>3, <1>9, <1>10

\* A call that searches has nothing in hand, and its table is all there is.
LEMMA SearchFacts ==
    ASSUME DictInv, pc \in {"update", "get", "remove", "shift"}
    PROVE  /\ MapInv /\ Good /\ capacity > 1 /\ capacity \in Nat /\ index \in 0 .. (capacity - 1)
           /\ key \in Keys /\ table \in [0 .. (capacity - 1) -> Buckets] /\ Slots = 0 .. (capacity - 1)
           /\ IsEmpty(moved) /\ DOMAIN old = {} /\ entry = Empty /\ entry.key = NoKey
           /\ \A k \in Keys : \A v : Stored(k, v) <=> HeldIn(table, capacity, k, v)
           /\ \A k \in Keys, v \in Values : Has(k, v) <=> Stored(k, v)
  <1>1. /\ MapInv /\ Good /\ capacity > 1 /\ index \in Slots /\ key \in Keys
        /\ IsEmpty(moved) /\ DOMAIN old = {} /\ entry = Empty
    BY DEF DictInv, OrderInv, MapInv, Phases, Fresh
  <1>2. capacity \in Nat /\ Slots = 0 .. (capacity - 1) /\ table \in [0 .. (capacity - 1) -> Buckets]
    BY <1>1, HomeFacts
  <1>3. entry.key = NoKey BY <1>1 DEF Empty
  <1>4. \A k \in Keys : \A v : Stored(k, v) <=> HeldIn(table, capacity, k, v)
    BY <1>1, HashMapAssumption DEF Stored, Holds, IsEmpty
  <1>5. \A k \in Keys, v \in Values : Has(k, v) <=> Stored(k, v)
    BY <1>3, HashMapAssumption DEF Has, Holds
  <1>6. QED BY <1>1, <1>2, <1>3, <1>4, <1>5

\* A search has written table u, and has nothing in hand after it either.
LEMMA WrittenFacts ==
    ASSUME DictInv, pc \in {"update", "get", "remove", "shift"}, NEW u, table' = u,
           UNCHANGED <<capacity, old, moved>>, entry' = Empty
    PROVE  /\ \A k \in Keys : \A v : Stored(k, v)' <=> HeldIn(u, capacity, k, v)
           /\ \A k \in Keys, v \in Values : Has(k, v)' <=> Stored(k, v)'
           /\ IsEmpty(entry')
  <1>1. IsEmpty(moved) /\ DOMAIN old = {} BY SearchFacts
  <1>2. \A k \in Keys : \A v : Stored(k, v)' <=> HeldIn(u, capacity, k, v)
    BY <1>1, HashMapAssumption DEF Stored, HeldIn, Holds, UsedIn, IsEmpty
  <1>3. entry'.key = NoKey BY DEF Empty
  <1>4. \A k \in Keys, v \in Values : Has(k, v)' <=> Stored(k, v)'
    BY <1>3, HashMapAssumption DEF Has, Holds, Values
  <1>5. QED BY <1>2, <1>3, <1>4 DEF IsEmpty

\* A search goes on.
LEMMA SearchQuiet ==
    ASSUME DictInv, OrderInv', pc \in {"update", "get", "remove"},
           UNCHANGED <<capacity, table, old, moved, out, pc, key, value, entry>>
    PROVE  Implements
  <1>1. Quiet BY ReadStep
  <1>2. CallKept BY DEF CallKept, CallOp, CallKey, CallValue
  <1>3. QED BY <1>1, <1>2, QuietKept

\* A key for which the table has no bucket has no value, and one for which it
\* has one has a value.
LEMMA SearchValue ==
    ASSUME DictInv, pc \in {"idle", "update", "get", "remove", "shift"}, NEW k \in Keys
    PROVE  ValueOf(k) = Null <=> ~Present(k)
  <1>1. /\ capacity \in Nat /\ Slots = 0 .. (capacity - 1) /\ IsEmpty(moved) /\ DOMAIN old = {}
        /\ entry = Empty /\ table \in [Slots -> Buckets]
    BY DEF DictInv, OrderInv, MapInv, Phases, Fresh, Types, Slots
  <1>2. entry.key = NoKey BY <1>1 DEF Empty
  <1>3. \A v : Stored(k, v) <=> HeldIn(table, capacity, k, v)
    BY <1>1, HashMapAssumption DEF Stored, Holds, IsEmpty
  <1>4. \A v \in Values : Has(k, v) <=> HeldIn(table, capacity, k, v)
    BY <1>2, <1>3, HashMapAssumption DEF Has, Holds
  <1>5. ~HeldIn(table, capacity, k, Null) BY <1>3 DEF DictInv, OneValue
  <1>6. Present(k) <=> \E v \in Contents : HeldIn(table, capacity, k, v)
    BY <1>1, HashMapAssumption DEF Present, HeldIn, Holds, UsedIn, IsEmpty, Buckets, Contents
  <1>7. ValueOf(k) \in Contents /\ \A v \in Values : Has(k, v) <=> ValueOf(k) = v
    BY ValueOfFacts DEF ValuesRight
  <1>8. QED BY <1>4, <1>5, <1>6, <1>7, HashMapAssumption DEF Contents

\* One turn of hashmap_get: the answer is what the dictionary has.
LEMMA DictGetStep == ASSUME DictInv, OrderInv', GetStep PROVE Implements
  <1>1. pc = "get" /\ UNCHANGED <<capacity, table, old, moved>> BY DEF GetStep, mapVars, growVars
  <1>2. CASE UNCHANGED <<pc, key, value, entry, out>> BY <1>1, <1>2, SearchQuiet
  <1>3. ASSUME Return, out' = ValueOf(key) PROVE Implements
    <2>1. pc' = "idle" /\ entry' = Empty BY <1>3 DEF Return
    <2>2. Kept /\ EntryKept BY <1>1, <2>1, TableKept, EntryEmpty DEF DictInv
    <2>3. key \in Keys /\ entry = Empty BY <1>1, SearchFacts
    <2>4. OneValue'
      <3>1. \A k \in Keys : ~Stored(k, Null)' /\ \A v, w \in Contents : Stored(k, v)' /\ Stored(k, w)' => v = w
        BY <2>2 DEF Kept, DictInv, OneValue, Contents
      <3>2. IsEmpty(entry') BY <2>1, NewBucketFacts
      <3>3. QED BY <2>1, <3>1, <3>2 DEF OneValue, Contents, Values, IsEmpty
    <2>5. DictInv' BY <2>4 DEF DictInv
    <2>6. \A k \in Keys, v \in Values : Has(k, v)' <=> Has(k, v)
      <3>1. PICK u : table' = u /\ u = table BY <1>1
      <3>2. \A k \in Keys, v \in Values : Has(k, v)' <=> HeldIn(u, capacity, k, v)
        BY <1>1, <2>1, <3>1, WrittenFacts
      <3>3. \A k \in Keys, v \in Values : Has(k, v) <=> HeldIn(table, capacity, k, v)
        BY <1>1, SearchFacts
      <3>4. QED BY <3>1, <3>2, <3>3
    <2>7. \A k \in Keys : ValueOf(k)' = ValueOf(k) BY <2>5, <2>6, SameValue
    <2>8. MapOf' = MapOf /\ out' = MapOf[key] BY <1>3, <2>3, <2>7 DEF MapOf
    <2>9. CallOp = "get" /\ CallKey = key BY <1>1 DEF CallOp, CallKey
    <2>10. Dict!Return BY <2>1 DEF Dict!Return, CallOp, CallKey, CallValue
    <2>11. Dict!GetReturn BY <2>8, <2>9, <2>10 DEF Dict!GetReturn, MapOf
    <2>12. QED BY <2>5, <2>11 DEF Implements, Dict!DictionaryNext
  <1>4. /\ key \in Keys /\ index \in 0 .. (capacity - 1) /\ table[index] \in Buckets
        /\ Slots = 0 .. (capacity - 1) /\ capacity \in Nat
    BY <1>1, SearchFacts
  <1>5. CASE table[index].key = key /\ out' = table[index].value /\ Return
    <2>1. index \in UsedIn(table, capacity) BY <1>4, <1>5, HashMapAssumption DEF UsedIn, IsEmpty
    <2>2. HeldIn(table, capacity, key, table[index].value) BY <1>5, <2>1 DEF HeldIn, Holds
    <2>3. Stored(key, table[index].value) /\ table[index].value \in Contents
      BY <1>1, <1>4, <2>2, SearchFacts DEF Buckets, Contents
    <2>4. table[index].value \in Values BY <1>4, <2>3 DEF DictInv, OneValue, Contents
    <2>5. ValueOf(key) = table[index].value
      BY <1>1, <1>4, <2>3, <2>4, SearchFacts, ValueOfFacts DEF ValuesRight
    <2>6. QED BY <1>3, <1>5, <2>5
  <1>6. CASE GivesUp(table[index]) /\ out' = Null /\ Return
    <2>1. ~Present(key) BY <1>1, <1>6, OrderSearch DEF DictInv, NoKeyMissed
    <2>2. \A v : ~HeldIn(table, capacity, key, v) BY <1>4, <2>1 DEF Present, HeldIn, Holds, UsedIn
    <2>3. \A v \in Values : ~Has(key, v) BY <1>1, <1>4, <2>2, SearchFacts
    <2>4. ValueOf(key) = Null BY <1>4, <2>3, ValueOfFacts DEF ValuesRight, Contents
    <2>5. QED BY <1>3, <1>6, <2>4
  <1>7. QED BY <1>2, <1>5, <1>6 DEF GetStep

\* One turn of hashmap_update, on a key of the map.
LEMMA DictUpdateStep == ASSUME DictInv, OrderInv', UpdateStep, Plain PROVE Implements
  <1>1. pc = "update" /\ UNCHANGED <<capacity, old, moved, out>> BY DEF UpdateStep, growVars
  <1>2. /\ MapInv /\ Good /\ capacity \in Nat /\ index \in 0 .. (capacity - 1) /\ key \in Keys /\ pc # "shift"
        /\ table \in [0 .. (capacity - 1) -> Buckets] /\ capacity > 1 /\ Hole = {} /\ value \in Values
    BY <1>1, SearchFacts DEF Hole, MapInv, Phases
  <1>3. PICK x \in 0 .. (capacity - 1), b \in Buckets : x = index /\ b = table[index] /\ b = table[x]
    BY <1>2
  <1>4. ~IsEmpty(b)
    <2>1. key \in KeysIn(table, capacity, {}) BY <1>1, <1>2 DEF DictInv, OrderInv, Searching, TableKeys
    <2>2. PICK p \in UsedIn(table, capacity) : table[p].key = key BY <2>1 DEF KeysIn
    <2>3. PICK h \in 0 .. (capacity - 1) : h = HomeIn(capacity, key) BY <1>2, HomeFacts
    <2>4. table[p].probe_length = Far(capacity, p, h) BY <1>2, <2>2, <2>3, HomeFacts DEF HomeFar
    <2>5. HomeFar(index, key) <= HomeFar(p, key) BY <1>1, <2>2 DEF DictInv, OrderInv, Searching
    <2>6. Far(capacity, x, h) <= Far(capacity, p, h) BY <1>3, <2>3, <2>5 DEF HomeFar
    <2>7. OrderIn(table, capacity, {}) BY <1>2 DEF Good, GoodIn
    <2>8. QED BY <1>2, <1>3, <2>4, <2>6, <2>7, KeyMet
  <1>5. CASE UNCHANGED <<table, pc, key, value, entry>> BY <1>1, <1>5, SearchQuiet
  <1>6. ~UpdateFaults(b, value) BY DEF Plain, UpdateFaults
  <1>7. CASE b.key = key /\ table' = [table EXCEPT ![index] = UpdateValue(b, value)] /\ Return
    <2>1. PICK z \in Values : z = value BY <1>2
    <2>2. x \in UsedIn(table, capacity) BY <1>3, <1>4 DEF UsedIn
    <2>3. Stored(key, b.value) /\ b.value \in Contents
      BY <1>1, <1>2, <1>3, <1>7, <2>2, SearchFacts DEF HeldIn, Holds, Buckets, Contents
    <2>4. b.value \in Values BY <1>2, <2>3 DEF DictInv, OneValue, Contents
    <2>5. ~(HasSize(b.value) /\ value \in Pointers)
      BY HashMapAssumption DEF Plain, HasSize
    <2>6. UpdateValue(b, value) = [b EXCEPT !.value = z] BY <2>1, <2>5 DEF UpdateValue
    <2>7. PICK m \in Buckets : m = UpdateValue(b, value) /\ m.key = key /\ m.value = z
      BY <1>7, <2>6 DEF Buckets
    <2>8. PICK u : u = [table EXCEPT ![x] = m] OBVIOUS
    <2>9. table' = u /\ entry' = Empty /\ pc' = "idle" BY <1>3, <1>7, <2>7, <2>8 DEF Return
    <2>10. ~IsEmpty(m) BY <1>2, <2>7, HashMapAssumption DEF IsEmpty
    <2>11. /\ u[x] = m /\ \A j \in 0 .. (capacity - 1) : j # x => u[j] = table[j]
           /\ UsedIn(u, capacity) = UsedIn(table, capacity)
      <3>1. u[x] = m /\ \A j \in 0 .. (capacity - 1) : j # x => u[j] = table[j] BY <1>2, <2>8, <2>10, PutUsed
      <3>2. QED BY <1>3, <1>4, <2>10, <3>1 DEF UsedIn
    <2>12. \A i \in UsedIn(table, capacity) : i \in 0 .. (capacity - 1) /\ (table[i].key = key => i = x)
      BY <1>2, <1>3, <1>7, <2>2 DEF Good, GoodIn, UniqueIn, UsedIn
    <2>13. \A k, v : HeldIn(u, capacity, k, v) <=>
                         IF k = key THEN v = z ELSE HeldIn(table, capacity, k, v)
      BY <1>3, <1>7, <2>2, <2>7, <2>11, <2>12 DEF HeldIn, Holds
    <2>14. /\ \A k \in Keys : \A v : Stored(k, v) <=> HeldIn(table, capacity, k, v)
           /\ \A k \in Keys, v \in Values : Has(k, v) <=> Stored(k, v)
      BY <1>1, SearchFacts
    <2>15. /\ \A k \in Keys : \A v : Stored(k, v)' <=> HeldIn(u, capacity, k, v)
           /\ \A k \in Keys, v \in Values : Has(k, v)' <=> Stored(k, v)'
           /\ IsEmpty(entry')
      BY <1>1, <2>9, WrittenFacts
    <2>16. \A k \in Keys : ~Stored(k, Null)' /\ \A v, w \in Contents : Stored(k, v)' /\ Stored(k, w)' => v = w
      <3>1. \A k \in Keys : ~Stored(k, Null) /\ \A v, w \in Contents : Stored(k, v) /\ Stored(k, w) => v = w
        BY DEF DictInv, OneValue
      <3>2. z # Null BY HashMapAssumption
      <3>3. QED BY <2>13, <2>14, <2>15, <3>1, <3>2
    <2>17. DictInv' BY <2>9, <2>15, <2>16 DEF DictInv, OneValue, Contents, Values, IsEmpty
    <2>18. \A k \in Keys, v \in Values : k # key => (Has(k, v)' <=> Has(k, v)) BY <2>13, <2>14, <2>15
    <2>19. PICK l \in Keys : l = key BY <1>2
    <2>20. MapOf' = [MapOf EXCEPT ![l] = ValueOf(l)'] BY <2>17, <2>18, <2>19, OneChanges
    <2>21. ValueOf(l)' = z
      <3>1. ValuesRight' BY <2>17, ValueOfFacts, PTL
      <3>2. Has(l, z)' BY <2>13, <2>15, <2>19
      <3>3. QED BY <3>1, <3>2 DEF ValuesRight, Values
    <2>22. MapOf' = [MapOf EXCEPT ![key] = value] BY <2>1, <2>19, <2>20, <2>21
    <2>23. CallOp = "update" /\ CallKey = key /\ CallValue = value BY <1>1 DEF CallOp, CallKey, CallValue
    <2>24. Dict!Return BY <2>9 DEF Dict!Return, CallOp, CallKey, CallValue
    <2>25. Dict!UpdateReturn BY <1>1, <2>22, <2>23, <2>24 DEF Dict!UpdateReturn, MapOf
    <2>26. QED BY <2>17, <2>25 DEF Implements, Dict!DictionaryNext
  <1>8. QED BY <1>3, <1>4, <1>5, <1>6, <1>7 DEF UpdateStep

\* One turn of hashmap_remove: the dictionary loses the key with its bucket.
LEMMA DictRemoveStep == ASSUME DictInv, OrderInv', RemoveStep PROVE Implements
  <1>1. pc = "remove" /\ UNCHANGED <<capacity, old, moved, out>> BY DEF RemoveStep, growVars
  <1>2. /\ MapInv /\ Good /\ capacity \in Nat /\ index \in 0 .. (capacity - 1) /\ key \in Keys
        /\ table \in [0 .. (capacity - 1) -> Buckets] /\ capacity > 1 /\ Hole = {} /\ entry = Empty
    BY <1>1, SearchFacts DEF Hole
  <1>3. CASE GivesUp(table[index]) /\ UNCHANGED <<table, size>> /\ Return
    <2>1. Quiet /\ pc' = "idle" BY <1>1, <1>3, ReadStep DEF Return
    <2>2. ~Present(key) BY <1>1, <1>3, OrderSearch DEF DictInv, NoKeyMissed
    <2>3. MapOf[key] = Null BY <1>1, <1>2, <2>2, SearchValue DEF MapOf
    <2>4. QED BY <1>1, <2>1, <2>3, QuietReturn
  <1>4. CASE UNCHANGED <<table, pc, key, value, entry>> BY <1>1, <1>4, SearchQuiet
  <1>5. CASE /\ ~GivesUp(table[index]) /\ table[index].key = key
             /\ table' = [table EXCEPT ![index] = Empty] /\ pc' = "shift"
             /\ UNCHANGED <<callVars, entry, again>>
    <2>1. PICK x, u :
           x \in 0 .. (capacity - 1) /\ x = index /\ u = [table EXCEPT ![x] = Empty] BY <1>2
    <2>2. table' = u /\ index' = x /\ entry' = Empty BY <1>2, <1>5, <2>1 DEF callVars
    <2>3. x \in UsedIn(table, capacity) BY <1>2, <1>5, <2>1, HashMapAssumption DEF UsedIn, IsEmpty
    <2>4. u[x] = Empty /\ IsEmpty(u[x]) /\ \A j \in 0 .. (capacity - 1) : j # x => u[j] = table[j]
      BY <1>2, <2>1, NewBucketFacts
    <2>5. UsedIn(u, capacity) = UsedIn(table, capacity) \ {x} BY <2>4 DEF UsedIn
    <2>6. \A i \in UsedIn(table, capacity) : i \in 0 .. (capacity - 1) /\ (table[i].key = key <=> i = x)
      BY <1>2, <1>5, <2>1, <2>3 DEF Good, GoodIn, UniqueIn, UsedIn
    <2>7. \A k, v : HeldIn(u, capacity, k, v) <=> k # key /\ HeldIn(table, capacity, k, v)
      BY <2>4, <2>5, <2>6 DEF HeldIn, Holds
    <2>8. /\ \A k \in Keys : \A v : Stored(k, v) <=> HeldIn(table, capacity, k, v)
          /\ \A k \in Keys, v \in Values : Has(k, v) <=> Stored(k, v)
      BY <1>1, SearchFacts
    <2>9. /\ \A k \in Keys : \A v : Stored(k, v)' <=> HeldIn(u, capacity, k, v)
          /\ \A k \in Keys, v \in Values : Has(k, v)' <=> Stored(k, v)'
          /\ IsEmpty(entry')
      BY <1>1, <2>2, WrittenFacts
    <2>10. \A k \in Keys : ~Stored(k, Null)' /\ \A v, w \in Contents : Stored(k, v)' /\ Stored(k, w)' => v = w
      <3>1. \A k \in Keys : ~Stored(k, Null) /\ \A v, w \in Contents : Stored(k, v) /\ Stored(k, w) => v = w
        BY DEF DictInv, OneValue
      <3>2. QED BY <2>7, <2>8, <2>9, <3>1
    <2>11. IsEmpty(table'[index']) BY <2>2, <2>4
    <2>12. DictInv' BY <2>9, <2>10, <2>11 DEF DictInv, OneValue, Contents, Values, IsEmpty
    <2>13. \A k \in Keys, v \in Values : k # key => (Has(k, v)' <=> Has(k, v)) BY <2>7, <2>8, <2>9
    <2>14. PICK l \in Keys : l = key BY <1>2
    <2>15. MapOf' = [MapOf EXCEPT ![l] = ValueOf(l)'] BY <2>12, <2>13, <2>14, OneChanges
    <2>16. ValueOf(l)' = Null
      <3>1. ValuesRight' BY <2>12, ValueOfFacts, PTL
      <3>2. \A v \in Values : ~Has(l, v)' BY <2>7, <2>9, <2>14
      <3>3. QED BY <3>1, <3>2 DEF ValuesRight, Contents, Values
    <2>17. MapOf' = [MapOf EXCEPT ![l] = Null] BY <2>15, <2>16
    <2>18. MapOf[key] # Null
      <3>1. Present(key) BY <1>2, <1>5 DEF Present, Slots
      <3>2. QED BY <1>1, <1>2, <3>1, SearchValue DEF MapOf
    <2>19. /\ CallOp = "remove" /\ CallOp' = "removed" /\ CallKey = key /\ CallKey' = CallKey
           /\ CallValue' = CallValue
      BY <1>1, <1>5 DEF CallOp, CallKey, CallValue, callVars
    <2>20. Dict!Delete BY <1>1, <2>14, <2>17, <2>18, <2>19 DEF Dict!Delete, MapOf
    <2>21. QED BY <2>12, <2>20 DEF Implements, Dict!DictionaryNext
  <1>6. QED BY <1>3, <1>4, <1>5 DEF RemoveStep

\* One turn of the backward shift, in which a bucket is in the table twice.
LEMMA DictShiftStep == ASSUME DictInv, OrderInv', ShiftStep PROVE Implements
  <1>1. pc = "shift" /\ UNCHANGED <<capacity, old, moved, out>> BY DEF ShiftStep, growVars
  <1>2. /\ MapInv /\ Good /\ capacity \in Nat /\ index \in 0 .. (capacity - 1)
        /\ table \in [0 .. (capacity - 1) -> Buckets] /\ capacity > 1 /\ entry = Empty
    BY <1>1, SearchFacts
  <1>3. PICK x \in 0 .. (capacity - 1), n \in 0 .. (capacity - 1) :
           x = index /\ n = NextSlot(index) /\ n # x
    BY <1>1, <1>2, SearchFacts, StateFacts, FarFacts
  <1>4. Filled = UsedIn(table, capacity) \ {x} BY <1>1, <1>3 DEF Filled, Hole
  <1>5. \A k, v : HeldIn(table, capacity, k, v) <=>
                      \E i \in UsedIn(table, capacity) : i # x /\ Holds(table[i], k, v)
    <2>1. ~IsEmpty(table[x]) =>
              \E i \in UsedIn(table, capacity) : i # x /\ Holds(table[i], table[x].key, table[x].value)
      BY <1>1, <1>3, <1>4 DEF DictInv, OneValue
    <2>2. \A i \in UsedIn(table, capacity) : ~IsEmpty(table[i]) BY DEF UsedIn
    <2>3. QED BY <2>1, <2>2 DEF HeldIn, Holds
  <1>6. PICK u \in [0 .. (capacity - 1) -> Buckets] :
           /\ table' = u
           /\ \A j \in 0 .. (capacity - 1) : j # x /\ j # n => u[j] = table[j]
           /\ \/ u[x] = Empty /\ u[n] = table[n] /\ Return
              \/ /\ ~IsEmpty(table[n]) /\ Holds(u[x], table[n].key, table[n].value) /\ u[n] = u[x]
                 /\ index' = n /\ UNCHANGED <<pc, key, entry>>
    <2>1. CASE IsEmpty(table[n]) \/ table[n].probe_length = 0
      <3>1. table' = [table EXCEPT ![x] = Empty] /\ Return BY <1>3, <2>1 DEF ShiftStep
      <3>2. QED BY <1>2, <1>3, <3>1, NewBucketFacts
    <2>2. CASE ~IsEmpty(table[n]) /\ table[n].probe_length # 0
      <3>1. PICK q \in Buckets : q = table[n] BY <1>2
      <3>2. PICK d \in Nat : d = q.probe_length - 1 BY <2>2, <3>1, BucketFacts
      <3>3. PICK b \in Buckets : /\ b = [q EXCEPT !.probe_length = d] /\ b.key = q.key
                                 /\ b.value = q.value
        BY BucketFacts
      <3>4. /\ table' = [table EXCEPT ![x] = b, ![n] = b] /\ index' = n
            /\ UNCHANGED <<pc, key, entry>>
        BY <1>3, <2>2, <3>1, <3>2, <3>3 DEF ShiftStep
      <3>5. PICK u \in [0 .. (capacity - 1) -> Buckets] :
               /\ table' = u /\ u[x] = b /\ u[n] = b
               /\ \A j \in 0 .. (capacity - 1) : j # x /\ j # n => u[j] = table[j]
        BY <1>2, <1>3, <3>4
      <3>6. Holds(u[x], table[n].key, table[n].value) BY <3>1, <3>3, <3>5 DEF Holds
      <3>7. QED BY <2>2, <3>4, <3>5, <3>6
    <2>3. QED BY <2>1, <2>2
  <1>7. entry' = Empty BY <1>2, <1>6 DEF Return
  <1>8. \A k, v : HeldIn(u, capacity, k, v) <=> HeldIn(table, capacity, k, v)
    <2>1. CASE u[x] = Empty /\ u[n] = table[n]
      <3>1. IsEmpty(u[x]) BY <2>1, NewBucketFacts
      <3>2. \A j \in 0 .. (capacity - 1) : j # x => u[j] = table[j] BY <1>6, <2>1
      <3>3. UsedIn(u, capacity) = UsedIn(table, capacity) \ {x} BY <3>1, <3>2 DEF UsedIn
      <3>4. \A i \in UsedIn(u, capacity) : u[i] = table[i] BY <3>2, <3>3 DEF UsedIn
      <3>5. \A k, v : HeldIn(u, capacity, k, v) <=>
                          \E i \in UsedIn(table, capacity) : i # x /\ Holds(table[i], k, v)
        BY <3>3, <3>4 DEF HeldIn
      <3>6. QED BY <1>5, <3>5
    <2>2. CASE ~IsEmpty(table[n]) /\ Holds(u[x], table[n].key, table[n].value) /\ u[n] = u[x]
      <3>1. ~IsEmpty(u[x]) /\ ~IsEmpty(u[n]) BY <2>2 DEF Holds, IsEmpty
      <3>2. UsedIn(u, capacity) = UsedIn(table, capacity) \cup {x} /\ n \in UsedIn(table, capacity)
        BY <1>6, <2>2, <3>1 DEF UsedIn
      <3>3. \A i \in UsedIn(table, capacity) : i # x /\ i # n => u[i] = table[i] BY <1>6 DEF UsedIn
      <3>4. \A k, v : /\ Holds(u[x], k, v) <=> Holds(table[n], k, v)
                      /\ Holds(u[n], k, v) <=> Holds(table[n], k, v)
        BY <2>2 DEF Holds
      <3>5. \A k, v : HeldIn(u, capacity, k, v) <=>
                 \/ Holds(table[n], k, v)
                 \/ \E i \in UsedIn(table, capacity) : i # x /\ i # n /\ Holds(table[i], k, v)
        BY <3>2, <3>3, <3>4 DEF HeldIn
      <3>6. \A k, v : HeldIn(table, capacity, k, v) <=>
                 \/ Holds(table[n], k, v)
                 \/ \E i \in UsedIn(table, capacity) : i # x /\ i # n /\ Holds(table[i], k, v)
        BY <1>3, <1>5, <3>2
      <3>7. QED BY <3>5, <3>6
    <2>3. QED BY <1>6, <2>1, <2>2
  <1>9. /\ \A k \in Keys : \A v : Stored(k, v) <=> HeldIn(table, capacity, k, v)
        /\ \A k \in Keys, v \in Values : Has(k, v) <=> Stored(k, v)
    BY <1>1, SearchFacts
  <1>10. /\ \A k \in Keys : \A v : Stored(k, v)' <=> HeldIn(u, capacity, k, v)
         /\ \A k \in Keys, v \in Values : Has(k, v)' <=> Stored(k, v)'
         /\ IsEmpty(entry')
    BY <1>1, <1>6, <1>7, WrittenFacts
  <1>11. \A k \in Keys : ~Stored(k, Null)' /\ \A v, w \in Contents : Stored(k, v)' /\ Stored(k, w)' => v = w
    <2>1. \A k \in Keys : ~Stored(k, Null) /\ \A v, w \in Contents : Stored(k, v) /\ Stored(k, w) => v = w
      BY DEF DictInv, OneValue
    <2>2. QED BY <1>8, <1>9, <1>10, <2>1
  <1>12. pc' = "shift" => \E i \in Filled' : Holds(u[i], u[index'].key, u[index'].value)
    <2>1. SUFFICES ASSUME pc' = "shift"
                   PROVE  \E i \in Filled' : Holds(u[i], u[index'].key, u[index'].value)
      OBVIOUS
    <2>2. /\ ~IsEmpty(table[n]) /\ Holds(u[x], table[n].key, table[n].value) /\ u[n] = u[x]
          /\ index' = n
      BY <1>6, <2>1 DEF Return
    <2>3. Filled' = UsedIn(u, capacity) \ {n} BY <1>1, <1>6, <2>1, <2>2 DEF Filled, Hole, UsedIn, IsEmpty
    <2>4. x \in UsedIn(u, capacity) BY <2>2 DEF UsedIn, Holds, IsEmpty
    <2>5. QED BY <1>3, <2>2, <2>3, <2>4 DEF Holds
  <1>13. DictInv'
    <2>1. OneValue' BY <1>6, <1>10, <1>11, <1>12 DEF OneValue, Contents, Values, IsEmpty, Holds
    <2>2. QED BY <2>1 DEF DictInv
  <1>14. \A k \in Keys, v \in Values : Has(k, v)' <=> Has(k, v) BY <1>8, <1>9, <1>10
  <1>15. Quiet BY <1>1, <1>13, <1>14, Unnoticed
  <1>16. CASE Return BY <1>1, <1>15, <1>16, QuietReturn DEF Return
  <1>17. CASE UNCHANGED <<pc, key>>
    <2>1. CallKept BY <1>1, <1>17 DEF CallKept, CallOp, CallKey, CallValue
    <2>2. QED BY <1>15, <2>1, QuietKept
  <1>18. QED BY <1>6, <1>16, <1>17

\* Every step is one of the dictionary, or leaves it as it is.
LEMMA DictNext == DictInv /\ OrderInv' /\ Plain /\ [Next]_vars => Implements
  <1> SUFFICES ASSUME DictInv, OrderInv', Plain, [Next]_vars PROVE Implements
    OBVIOUS
  <1>1. CASE UNCHANGED vars
    <2>1. UNCHANGED <<capacity, table, old, moved, out, entry, pc, key, value, index>>
      BY <1>1 DEF vars, mapVars, callVars, growVars
    <2>2. Kept BY <2>1, TableKept
    <2>3. \A k \in Keys, v \in Values : Has(k, v)' <=> Has(k, v)
      BY <2>1 DEF Has, Stored, HeldIn, Holds, UsedIn
    <2>4. OneValue' BY <2>1 DEF DictInv, OneValue, Stored, HeldIn, Holds, UsedIn, Filled, Hole, Contents
    <2>5. DictInv' BY <2>4 DEF DictInv
    <2>6. Quiet BY <2>1, <2>3, <2>5, Unnoticed
    <2>7. CallKept BY <2>1 DEF CallKept, CallOp, CallKey, CallValue
    <2>8. QED BY <2>6, <2>7, QuietKept
  <1>2. ASSUME NEW k \in Keys, NEW v \in Values, HashMapUpdate(k, v) PROVE Implements
    <2>1. Quiet BY <1>2, ReadStep DEF HashMapUpdate, Begin, mapVars, growVars
    <2>2. pc = "idle" /\ pc' = "update" /\ key' = k /\ value' = v /\ Present(k)
      BY <1>2 DEF HashMapUpdate, Begin, Plain
    <2>3. MapOf[k] # Null BY <2>2, SearchValue DEF MapOf
    <2>4. QED BY <2>1, <2>2, <2>3, QuietAsk
  <1>3. ASSUME NEW k \in Keys, HashMapGet(k) PROVE Implements
    <2>1. Quiet BY <1>3, ReadStep DEF HashMapGet, Begin, mapVars, growVars
    <2>2. pc = "idle" /\ pc' = "get" /\ key' = k BY <1>3 DEF HashMapGet, Begin
    <2>3. QED BY <2>1, <2>2, QuietAsk
  <1>4. ASSUME NEW k \in Keys, HashMapRemove(k) PROVE Implements
    <2>1. Quiet BY <1>4, ReadStep DEF HashMapRemove, Begin, mapVars, growVars
    <2>2. pc = "idle" /\ pc' = "remove" /\ key' = k BY <1>4 DEF HashMapRemove, Begin
    <2>3. QED BY <2>1, <2>2, QuietAsk
  <1>5. CASE HashMapIterate
    <2>1. Quiet BY <1>5, ReadStep DEF HashMapIterate, mapVars, growVars
    <2>2. pc = "idle" /\ pc' = "iterate" BY <1>5 DEF HashMapIterate
    <2>3. QED BY <2>1, <2>2, QuietAsk
  <1>6. CASE IterateStep
    <2>1. /\ pc = "iterate" /\ UNCHANGED <<capacity, table, old, moved, out>>
          /\ (pc' = pc /\ entry' = entry) \/ (pc' = "idle" /\ entry' = Empty)
      BY <1>6 DEF IterateStep, Return, mapVars, growVars
    <2>2. Quiet BY <2>1, ReadStep
    <2>3. CASE pc' = "idle" BY <2>1, <2>2, <2>3, QuietReturn
    <2>4. CASE pc' = pc
      <3>1. CallKept BY <2>1, <2>4 DEF CallKept, CallOp, CallKey, CallValue
      <3>2. QED BY <2>2, <3>1, QuietKept
    <2>5. QED BY <2>1, <2>3, <2>4
  <1>7. CASE Call BY <1>2, <1>3, <1>4, <1>5, <1>7, DictNew, DictFree, DictInsert DEF Call
  <1>8. CASE Step
    BY <1>6, <1>8, DictGrowNext, DictMoveEntry, DictGrowReturn, DictInsertStep, DictInsertEnd,
       DictUpdateStep, DictGetStep, DictRemoveStep, DictShiftStep DEF Step
  <1>9. QED BY <1>1, <1>7, <1>8 DEF Next

\* A map without a table is an empty dictionary.
LEMMA DictStart == Init => DictInv /\ Dict!DictionaryInit
  <1> SUFFICES ASSUME Init PROVE DictInv /\ Dict!DictionaryInit
    OBVIOUS
  <1>1. OrderInv /\ pc = "none" /\ out = Null BY OrderInit DEF Init
  <1>2. entry = Empty /\ IsEmpty(moved) /\ DOMAIN old = {} /\ UsedIn(table, capacity) = {}
    BY <1>1, AtRest
  <1>3. \A k \in Keys : \A v : ~Stored(k, v) BY <1>2, NothingStored
  <1>4. DictInv BY <1>1, <1>2, <1>3, NewBucketFacts DEF DictInv, OneValue
  <1>5. entry.key = NoKey BY <1>2 DEF Empty
  <1>6. \A k \in Keys, v \in Values : ~Has(k, v) BY <1>3, <1>5, HashMapAssumption DEF Has, Holds
  <1>7. \A k \in Keys : ValueOf(k) = Null BY <1>4, <1>6, ValueOfFacts DEF ValuesRight, Contents
  <1>8. MapOf = [k \in Keys |-> Null] BY <1>7 DEF MapOf
  <1>9. CallOp = "none" /\ CallKey = NoKey /\ CallValue = Null
    BY <1>1 DEF CallOp, CallKey, CallValue
  <1>10. QED BY <1>1, <1>4, <1>8, <1>9 DEF Dict!DictionaryInit, MapOf

\* The hash map implements Dictionary, for any keys, hashes and capacities,
\* with values that are all pointers or all of 1 to 8 bytes and hashmap_update
\* used on the keys of the map only.  Each call takes effect once, on the key and
\* with the value it was called with; hashmap_get answers with the value last
\* put in; and through swaps, growth, backward shifts and early ends of a search
\* no other key is lost, doubled or given another's value.
THEOREM DictionaryTheorem == ASSUME Plain PROVE Spec => ImplementsDictionary
  <1>1. ~UpdateAbsent BY DEF Plain
  <1>2. Spec => []OrderInv BY <1>1, OrderAlways
  <1>3. Init => DictInv /\ Dict!DictionaryInit BY DictStart
  <1>4. DictInv /\ OrderInv' /\ [Next]_vars => DictInv' /\ [Dict!DictionaryNext]_Dict!dictionary
    BY DictNext DEF Implements
  <1>5. QED BY <1>2, <1>3, <1>4, PTL DEF Spec, ImplementsDictionary, Dict!DictionarySpec

=============================================================================

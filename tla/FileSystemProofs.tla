-------------------------- MODULE FileSystemProofs --------------------------
(***************************************************************************)
(* The directory walk returns every entry once, for any names, any depth,  *)
(* any tree and any order of readdir.                                      *)
(***************************************************************************)
EXTENDS FileSystem, SequenceTheorems, WellFoundedInduction, TLAPS

-----------------------------------------------------------------------------
(* Sequences without repetition *)

Elems(s) == {s[i] : i \in 1 .. Len(s)}
Distinct(s) == \A i, j \in 1 .. Len(s) : s[i] = s[j] => i = j

\* A set of numbers that is not empty has a least one.
LEMMA NatMin ==
    ASSUME NEW S \in SUBSET Nat, S # {}
    PROVE  \E m \in S : \A n \in S : m <= n
  <1>1. PICK R : R = {p \in Nat \X Nat : p[1] < p[2]}
    OBVIOUS
  <1>2. IsWellFoundedOn(R, Nat) BY <1>1, NatLessThanWellFounded DEF OpToRel
  <1>3. PICK x \in S : \A y \in S : ~(<<y, x>> \in R) BY <1>2, WFMin
  <1>4. \A y \in S : y < x => <<y, x>> \in R BY <1>1
  <1>5. \A y \in S : ~(y < x) BY <1>3, <1>4, Zenon
  <1>6. \A y \in S : x <= y BY <1>5
  <1>7. QED BY <1>6

\* What Append does to the elements, and that a new one keeps them distinct.
LEMMA AppendElems ==
    ASSUME NEW S, NEW s \in Seq(S), NEW e \in S
    PROVE  /\ Append(s, e) \in Seq(S)
           /\ Elems(Append(s, e)) = Elems(s) \cup {e}
           /\ Distinct(s) /\ e \notin Elems(s) => Distinct(Append(s, e))
  <1>1. PICK t : t = Append(s, e)
    OBVIOUS
  <1>2. PICK n \in Nat : n = Len(s) BY LenProperties
  <1>3. /\ t \in Seq(S) /\ Len(t) = n + 1 /\ t[n + 1] = e
        /\ \A i \in 1 .. n : t[i] = s[i]
    BY <1>1, <1>2, AppendProperties
  <1>4. Elems(t) = Elems(s) \cup {e}
    <2>1. ASSUME NEW x \in Elems(t) PROVE x \in Elems(s) \cup {e}
      <3>1. PICK i \in 1 .. n + 1 : x = t[i] BY <1>3, <2>1 DEF Elems
      <3>2. CASE i = n + 1 BY <1>3, <3>1, <3>2
      <3>3. CASE i # n + 1
        <4>1. i \in 1 .. n BY <1>2, <3>3
        <4>2. QED BY <1>2, <1>3, <3>1, <4>1 DEF Elems
      <3>4. QED BY <3>2, <3>3
    <2>2. ASSUME NEW x \in Elems(s) PROVE x \in Elems(t)
      <3>1. PICK i \in 1 .. n : x = s[i] BY <1>2, <2>2 DEF Elems
      <3>2. i \in 1 .. n + 1 /\ x = t[i] BY <1>2, <1>3, <3>1
      <3>3. QED BY <1>3, <3>2 DEF Elems
    <2>3. e \in Elems(t)
      <3>1. n + 1 \in 1 .. Len(t) BY <1>2, <1>3
      <3>2. QED BY <1>3, <3>1 DEF Elems
    <2>4. QED BY <2>1, <2>2, <2>3
  <1>5. ASSUME Distinct(s), e \notin Elems(s),
               NEW i \in 1 .. n + 1, NEW j \in 1 .. n + 1, t[i] = t[j]
        PROVE  i = j
    <2>1. \A k \in 1 .. n : s[k] # e BY <1>2, <1>5 DEF Elems
    <2>2. CASE i = n + 1 /\ j # n + 1
      <3>1. j \in 1 .. n BY <1>2, <2>2
      <3>2. QED BY <1>3, <1>5, <2>1, <2>2, <3>1
    <2>3. CASE i # n + 1 /\ j = n + 1
      <3>1. i \in 1 .. n BY <1>2, <2>3
      <3>2. QED BY <1>3, <1>5, <2>1, <2>3, <3>1
    <2>4. CASE i # n + 1 /\ j # n + 1
      <3>1. i \in 1 .. n /\ j \in 1 .. n BY <1>2, <2>4
      <3>2. s[i] = s[j] BY <1>3, <1>5, <3>1
      <3>3. QED BY <1>2, <1>5, <3>1, <3>2 DEF Distinct
    <2>5. QED BY <2>2, <2>3, <2>4
  <1>6. Distinct(s) /\ e \notin Elems(s) => Distinct(t) BY <1>3, <1>5 DEF Distinct
  <1>7. QED BY <1>1, <1>3, <1>4, <1>6

\* Tail drops the first element and no other.
LEMMA TailElems ==
    ASSUME NEW S, NEW s \in Seq(S), s # <<>>, Distinct(s)
    PROVE  /\ Head(s) \in S /\ Head(s) \in Elems(s)
           /\ Tail(s) \in Seq(S) /\ Distinct(Tail(s))
           /\ Elems(Tail(s)) = Elems(s) \ {Head(s)}
  <1>1. PICK t : t = Tail(s)
    OBVIOUS
  <1>2. PICK n \in Nat : n = Len(t) BY <1>1, HeadTailProperties, LenProperties
  <1>3. /\ t \in Seq(S) /\ Len(s) = n + 1 /\ s[1] = Head(s) /\ s[1] \in S
        /\ \A i \in 1 .. n : t[i] = s[i + 1]
    <2>1. Len(s) \in Nat /\ Len(s) # 0 BY LenProperties, EmptySeq
    <2>2. t \in Seq(S) /\ Len(t) = Len(s) - 1 /\ \A i \in 1 .. Len(t) : t[i] = s[i + 1]
      BY <1>1, HeadTailProperties
    <2>3. Head(s) = s[1] /\ Head(s) \in S BY HeadTailProperties
    <2>4. QED BY <1>2, <2>1, <2>2, <2>3
  <1>4. 1 \in 1 .. n + 1 BY <1>2
  <1>5. s[1] \in Elems(s) BY <1>3, <1>4 DEF Elems
  <1>6. ASSUME NEW i \in 1 .. n, NEW j \in 1 .. n, t[i] = t[j] PROVE i = j
    <2>1. i + 1 \in 1 .. n + 1 /\ j + 1 \in 1 .. n + 1 BY <1>2
    <2>2. s[i + 1] = s[j + 1] BY <1>3, <1>6
    <2>3. i + 1 = j + 1 BY <1>3, <2>1, <2>2 DEF Distinct
    <2>4. QED BY <2>3
  <1>7. Distinct(t) BY <1>2, <1>6 DEF Distinct
  <1>8. Elems(t) = Elems(s) \ {s[1]}
    <2>1. ASSUME NEW x \in Elems(t) PROVE x \in Elems(s) \ {s[1]}
      <3>1. PICK i \in 1 .. n : x = t[i] BY <1>2, <2>1 DEF Elems
      <3>2. i + 1 \in 1 .. n + 1 /\ i + 1 # 1 /\ x = s[i + 1] BY <1>2, <1>3, <3>1
      <3>3. x # s[1] BY <1>3, <1>4, <3>2 DEF Distinct
      <3>4. QED BY <1>3, <3>2, <3>3 DEF Elems
    <2>2. ASSUME NEW x \in Elems(s), x # s[1] PROVE x \in Elems(t)
      <3>1. PICK i \in 1 .. n + 1 : x = s[i] BY <1>3, <2>2 DEF Elems
      <3>2. i # 1 BY <2>2, <3>1
      <3>3. PICK k : k = i - 1
        OBVIOUS
      <3>4. k \in 1 .. n /\ k + 1 = i BY <1>2, <3>2, <3>3
      <3>5. x = t[k] BY <1>3, <3>1, <3>4
      <3>6. QED BY <1>2, <3>4, <3>5 DEF Elems
    <2>3. QED BY <2>1, <2>2
  <1>9. QED BY <1>1, <1>3, <1>5, <1>7, <1>8

-----------------------------------------------------------------------------
(* Paths *)

Names == Seq(FileNames)
Entry == (Names \X {"dir", "file", "other"}) \cup {Dot}

\* A path is a sequence of names.
LEMMA PathIsNames ==
    ASSUME NEW p \in Paths
    PROVE  p \in Names /\ p # Root /\ Len(p) \in Nat /\ Len(p) > 0
  <1>1. PICK n \in 1 .. Depth : p \in [1 .. n -> FileNames] BY DEF Paths
  <1>2. n \in Nat /\ n > 0 BY FsAssumption DEF FsAssumption
  <1>3. p \in Seq(FileNames) /\ Len(p) = n BY <1>1, <1>2
  <1>4. QED BY <1>2, <1>3, EmptySeq DEF Names, Root

\* Parent drops the last name.
LEMMA ParentFacts ==
    ASSUME NEW p \in Names, p # Root
    PROVE  /\ Parent(p) \in Names /\ Len(p) \in Nat /\ Len(p) > 0
           /\ Len(Parent(p)) = Len(p) - 1
           /\ \A i \in 1 .. Len(p) - 1 : Parent(p)[i] = p[i]
           /\ Append(Parent(p), p[Len(p)]) = p
           /\ (Len(p) = 1 <=> Parent(p) = Root)
           /\ Parent(p) # p
  <1>1. PICK n \in Nat : n = Len(p) /\ n > 0 BY LenProperties, EmptySeq DEF Names, Root
  <1>2. \A i \in 1 .. n - 1 : p[i] \in FileNames BY <1>1 DEF Names
  <1>3. PICK r : r = Parent(p)
    OBVIOUS
  <1>4. r \in Seq(FileNames) /\ Len(r) = n - 1 /\ \A i \in 1 .. n - 1 : r[i] = p[i]
    BY <1>1, <1>2, <1>3, SubSeqProperties DEF Parent
  <1>5. Append(r, p[n]) = p
    <2>1. p[n] \in FileNames BY <1>1 DEF Names
    <2>2. PICK a : a = Append(r, p[n])
      OBVIOUS
    <2>3. /\ a \in Seq(FileNames) /\ Len(a) = Len(r) + 1 /\ a[Len(r) + 1] = p[n]
          /\ \A i \in 1 .. Len(r) : a[i] = r[i]
      BY <1>4, <2>1, <2>2, AppendProperties
    <2>4. Len(r) + 1 = n BY <1>1, <1>4
    <2>5. \A i \in 1 .. n : a[i] = p[i]
      <3>1. TAKE i \in 1 .. n
      <3>2. CASE i = n BY <2>3, <2>4, <3>2
      <3>3. CASE i # n
        <4>1. i \in 1 .. Len(r) /\ i \in 1 .. n - 1 BY <1>1, <1>4, <3>3
        <4>2. QED BY <1>4, <2>3, <4>1
      <3>4. QED BY <3>2, <3>3
    <2>6. a = p BY <1>1, <2>3, <2>4, <2>5, SeqEqual DEF Names
    <2>7. QED BY <2>2, <2>6
  <1>6. n = 1 <=> r = <<>>
    <2>1. r = <<>> => Len(r) = 0 BY EmptySeq
    <2>2. r # <<>> => Len(r) # 0 BY <1>4, EmptySeq
    <2>3. QED BY <1>1, <1>4, <2>1, <2>2
  <1>7. r # p BY <1>1, <1>4
  <1>8. QED BY <1>1, <1>3, <1>4, <1>5, <1>6, <1>7 DEF Names, Root

\* Below, name by name.
LEMMA BelowFacts ==
    ASSUME NEW r \in Names, NEW p \in Names
    PROVE  Below(r, p) <=> Len(r) >= Len(p) /\ \A i \in 1 .. Len(p) : r[i] = p[i]
  <1>1. Len(r) \in Nat /\ Len(p) \in Nat BY LenProperties DEF Names
  <1>2. SUFFICES ASSUME Len(r) >= Len(p)
                 PROVE  SubSeq(r, 1, Len(p)) = p <=> \A i \in 1 .. Len(p) : r[i] = p[i]
    BY DEF Below
  <1>3. \A i \in 1 .. Len(p) : r[i] \in FileNames BY <1>1, <1>2 DEF Names
  <1>4. PICK s : s = SubSeq(r, 1, Len(p))
    OBVIOUS
  <1>5. s \in Seq(FileNames) /\ Len(s) = Len(p) /\ \A i \in 1 .. Len(p) : s[i] = r[i]
    BY <1>1, <1>3, <1>4, SubSeqProperties
  <1>6. (\A i \in 1 .. Len(p) : s[i] = p[i]) => s = p BY <1>5, SeqEqual DEF Names
  <1>7. QED BY <1>4, <1>5, <1>6

\* What is below p is p or has a parent below p; what has a parent below p is.
LEMMA BelowParent ==
    ASSUME NEW r \in Names, r # Root, NEW p \in Names
    PROVE  /\ Below(Parent(r), p) => Below(r, p)
           /\ Below(r, p) /\ r # p => Below(Parent(r), p) /\ Len(r) > Len(p)
           /\ Below(p, p)
  <1>1. /\ Parent(r) \in Names /\ Len(r) \in Nat /\ Len(r) > 0 /\ Len(p) \in Nat
        /\ Len(Parent(r)) = Len(r) - 1 /\ \A i \in 1 .. Len(r) - 1 : Parent(r)[i] = r[i]
    BY ParentFacts, LenProperties DEF Names
  <1>2. PICK q \in Names : q = Parent(r) BY <1>1
  <1>3. ASSUME Below(q, p) PROVE Below(r, p)
    <2>1. Len(q) >= Len(p) /\ \A i \in 1 .. Len(p) : q[i] = p[i] BY <1>3, BelowFacts
    <2>2. Len(r) >= Len(p) BY <1>1, <1>2, <2>1
    <2>3. ASSUME NEW i \in 1 .. Len(p) PROVE r[i] = p[i]
      <3>1. i \in 1 .. Len(r) - 1 BY <1>1, <1>2, <2>1
      <3>2. QED BY <1>1, <1>2, <2>1, <3>1
    <2>4. QED BY <2>2, <2>3, BelowFacts
  <1>4. ASSUME Below(r, p), r # p PROVE Below(q, p) /\ Len(r) > Len(p)
    <2>1. Len(r) >= Len(p) /\ \A i \in 1 .. Len(p) : r[i] = p[i] BY <1>4, BelowFacts
    <2>2. Len(r) # Len(p) BY <1>4, <2>1, SeqEqual DEF Names
    <2>3. Len(r) > Len(p) /\ Len(q) >= Len(p) BY <1>1, <1>2, <2>1, <2>2
    <2>4. ASSUME NEW i \in 1 .. Len(p) PROVE q[i] = p[i]
      <3>1. i \in 1 .. Len(r) - 1 BY <1>1, <2>3
      <3>2. QED BY <1>1, <1>2, <2>1, <3>1
    <2>5. QED BY <2>3, <2>4, BelowFacts
  <1>5. Below(p, p) BY <1>1, BelowFacts
  <1>6. QED BY <1>2, <1>3, <1>4, <1>5

-----------------------------------------------------------------------------
(* The tree *)

\* The paths of a tree are paths, and none is the root.
LEMMA TreePath ==
    ASSUME NEW t, IsTree(t), NEW p \in DOMAIN t
    PROVE  /\ p \in Names /\ p # Root /\ p \in Paths /\ Len(p) \in Nat /\ Len(p) > 0
           /\ t[p] \in {"dir", "file", "other"}
           /\ Len(p) > 1 => Parent(p) \in DOMAIN t /\ t[Parent(p)] = "dir"
  BY PathIsNames DEF IsTree

\* A path that is not there, or has no children, has nothing below it.
LEMMA NothingBelow ==
    ASSUME NEW t, IsTree(t), NEW q \in Names, q # Root,
           q \in DOMAIN t => \A r \in DOMAIN t : Parent(r) # q,
           NEW s \in DOMAIN t, Below(s, q)
    PROVE  s = q
  <1>1. SUFFICES ASSUME s # q PROVE FALSE
    OBVIOUS
  <1>2. PICK B : B = {r \in DOMAIN t : Below(r, q) /\ r # q}
    OBVIOUS
  <1>3. PICK L : L = {Len(r) : r \in B}
    OBVIOUS
  <1>4. L \in SUBSET Nat /\ Len(s) \in L BY <1>1, <1>2, <1>3, TreePath
  <1>5. PICK m \in L : \A n \in L : m <= n BY <1>4, NatMin
  <1>6. PICK r \in B : m = Len(r) BY <1>3
  <1>7. r \in DOMAIN t /\ Below(r, q) /\ r # q BY <1>2, <1>6
  <1>8. /\ r \in Names /\ r # Root /\ Len(r) \in Nat
        /\ Len(r) > 1 => Parent(r) \in DOMAIN t
    BY <1>7, TreePath
  <1>9. Below(Parent(r), q) /\ Len(r) > Len(q) BY <1>7, <1>8, BelowParent
  <1>10. Len(q) \in Nat /\ Len(q) > 0 BY ParentFacts
  <1>11. Parent(r) \in DOMAIN t BY <1>8, <1>9, <1>10
  <1>12. CASE Parent(r) = q BY <1>7, <1>11, <1>12
  <1>13. CASE Parent(r) # q
    <2>1. Len(Parent(r)) \in L BY <1>2, <1>3, <1>9, <1>11, <1>13
    <2>2. Len(Parent(r)) = Len(r) - 1 BY <1>8, ParentFacts
    <2>3. QED BY <1>5, <1>6, <1>8, <2>1, <2>2
  <1>14. QED BY <1>12, <1>13

\* fs_makedirs adds a directory to a directory.
LEMMA MakedirsTree ==
    ASSUME NEW p \in Paths, IsTree(tree), p \notin DOMAIN tree, IsDirectory(Parent(p)),
           NEW t, t = [q \in DOMAIN tree \cup {p} |-> IF q = p THEN "dir" ELSE tree[q]]
    PROVE  IsTree(t)
  <1>1. p \in Names /\ p # Root /\ Len(p) \in Nat BY PathIsNames
  <1>2. DOMAIN t = DOMAIN tree \cup {p} /\ t[p] = "dir" /\ \A q \in DOMAIN tree : t[q] = tree[q]
    OBVIOUS
  <1>3. DOMAIN t \subseteq Paths BY <1>2 DEF IsTree
  <1>4. ASSUME NEW q \in DOMAIN t
        PROVE  /\ t[q] \in {"dir", "file", "other"}
               /\ Len(q) > 1 => Parent(q) \in DOMAIN t /\ t[Parent(q)] = "dir"
    <2>1. CASE q = p
      <3>1. Len(p) > 1 => Parent(p) # Root BY <1>1, ParentFacts
      <3>2. QED BY <1>2, <2>1, <3>1 DEF IsDirectory
    <2>2. CASE q # p
      <3>1. q \in DOMAIN tree BY <1>2, <2>2
      <3>2. QED BY <1>2, <3>1, TreePath
    <2>3. QED BY <2>1, <2>2
  <1>5. QED BY <1>3, <1>4 DEF IsTree

\* What fs_remove leaves is a tree.
LEMMA RemoveTree ==
    ASSUME NEW p \in DOMAIN tree, IsTree(tree), NEW gone,
           gone = (IF FsIsDir(p) THEN {q \in DOMAIN tree : Below(q, p)}
                   ELSE IF Children(p) = {} THEN {p} ELSE {}),
           NEW t, t = [q \in DOMAIN tree \ gone |-> tree[q]]
    PROVE  IsTree(t)
  <1>1. DOMAIN t = DOMAIN tree \ gone /\ \A q \in DOMAIN t : t[q] = tree[q]
    OBVIOUS
  <1>2. ASSUME NEW q \in DOMAIN t, Len(q) > 1
        PROVE  Parent(q) \in DOMAIN t /\ t[Parent(q)] = "dir"
    <2>1. q \in DOMAIN tree /\ q \notin gone BY <1>1
    <2>2. Parent(q) \in DOMAIN tree /\ tree[Parent(q)] = "dir" /\ q \in Names /\ q # Root
      BY <1>2, <2>1, TreePath
    <2>3. p \in Names BY TreePath
    <2>4. Parent(q) \notin gone
      <3>1. CASE FsIsDir(p) BY <2>1, <2>2, <2>3, <3>1, BelowParent
      <3>2. CASE ~FsIsDir(p) BY <2>1, <3>2 DEF Children
      <3>3. QED BY <3>1, <3>2
    <2>5. QED BY <1>1, <2>2, <2>4
  <1>3. QED BY <1>1, <1>2 DEF IsTree

\* Where rename takes a path r that is below p.
Renamed(p, q, r) == q \o SubSeq(r, Len(p) + 1, Len(r))

\* x is q followed by what r has behind p.
Follows(x, p, q, r) ==
    /\ x \in Names /\ Len(x) = Len(q) + (Len(r) - Len(p))
    /\ \A i \in 1 .. Len(q) : x[i] = q[i]
    /\ \A i \in 1 .. Len(r) - Len(p) : x[Len(q) + i] = r[Len(p) + i]

\* The names of what fs_move makes of r: those of q, then the rest of r.
LEMMA RenamedFacts ==
    ASSUME NEW p \in Names, NEW q \in Names, NEW r \in Names, Below(r, p)
    PROVE  Follows(Renamed(p, q, r), p, q, r)
  <1>0. PICK x : x = Renamed(p, q, r)
    OBVIOUS
  <1>1. /\ Len(r) \in Nat /\ Len(p) \in Nat /\ Len(q) \in Nat /\ Len(r) >= Len(p)
    BY BelowFacts, LenProperties DEF Names
  <1>2. PICK s : s = SubSeq(r, Len(p) + 1, Len(r))
    OBVIOUS
  <1>3. PICK n \in Nat : n = Len(r) - Len(p)
    <2>1. Len(r) - Len(p) \in Nat BY <1>1
    <2>2. QED BY <2>1
  <1>4. \A i \in Len(p) + 1 .. Len(r) : r[i] \in FileNames BY <1>1 DEF Names
  <1>5. s \in Seq(FileNames) /\ Len(s) = n /\ \A i \in 1 .. n : s[i] = r[Len(p) + i]
    <2>1. PICK m \in Int : m = Len(p) + 1 BY <1>1
    <2>2. PICK k \in Int : k = Len(r) BY <1>1
    <2>3. \A i \in m .. k : r[i] \in FileNames BY <1>4, <2>1, <2>2
    <2>4. /\ s \in Seq(FileNames) /\ Len(s) = IF m <= k THEN k - m + 1 ELSE 0
          /\ \A i \in 1 .. k - m + 1 : s[i] = r[m + i - 1]
      BY <1>2, <2>1, <2>2, <2>3, SubSeqProperties
    <2>5. k - m + 1 = n BY <1>1, <1>3, <2>1, <2>2
    <2>6. Len(s) = n BY <1>1, <1>3, <2>1, <2>2, <2>4
    <2>7. ASSUME NEW i \in 1 .. n PROVE s[i] = r[Len(p) + i]
      <3>1. i \in 1 .. k - m + 1 /\ m + i - 1 = Len(p) + i BY <1>1, <2>1, <2>5
      <3>2. QED BY <2>4, <3>1
    <2>8. QED BY <2>4, <2>6, <2>7
  <1>6. /\ x \in Seq(FileNames) /\ Len(x) = Len(q) + n
        /\ \A i \in 1 .. Len(q) + n : x[i] = IF i <= Len(q) THEN q[i] ELSE s[i - Len(q)]
    <2>1. x = q \o s BY <1>0, <1>2 DEF Renamed
    <2>2. /\ x \in Seq(FileNames) /\ Len(x) = Len(q) + Len(s)
          /\ \A i \in 1 .. Len(q) + Len(s) : x[i] = IF i <= Len(q) THEN q[i] ELSE s[i - Len(q)]
      BY <1>5, <2>1, ConcatProperties DEF Names
    <2>3. QED BY <1>5, <2>2
  <1>7. ASSUME NEW i \in 1 .. Len(q) PROVE x[i] = q[i]
    <2>1. i \in 1 .. Len(q) + n /\ i <= Len(q) BY <1>1
    <2>2. QED BY <1>6, <2>1
  <1>8. ASSUME NEW i \in 1 .. n PROVE x[Len(q) + i] = r[Len(p) + i]
    <2>1. Len(q) + i \in 1 .. Len(q) + n /\ ~(Len(q) + i <= Len(q)) /\ (Len(q) + i) - Len(q) = i
      BY <1>1
    <2>2. QED BY <1>5, <1>6, <2>1
  <1>9. QED BY <1>0, <1>3, <1>6, <1>7, <1>8 DEF Names, Follows

\* The moved directory itself becomes q.
LEMMA RenamedSame ==
    ASSUME NEW p \in Names, NEW q \in Names
    PROVE  Renamed(p, q, p) = q
  <1>1. PICK x : x = Renamed(p, q, p)
    OBVIOUS
  <1>2. Len(p) \in Nat /\ Len(q) \in Nat /\ Below(p, p)
    BY BelowFacts, LenProperties DEF Names
  <1>3. x \in Names /\ Len(x) = Len(q) + (Len(p) - Len(p)) /\ \A i \in 1 .. Len(q) : x[i] = q[i]
    BY <1>1, <1>2, RenamedFacts DEF Follows
  <1>4. Len(x) = Len(q) BY <1>2, <1>3
  <1>5. x = q BY <1>3, <1>4, SeqEqual DEF Names
  <1>6. QED BY <1>1, <1>5

\* Two paths are not renamed to the same one.
LEMMA RenamedOnce ==
    ASSUME NEW p \in Names, NEW q \in Names, NEW r \in Names, NEW s \in Names,
           Below(r, p), Below(s, p), Renamed(p, q, r) = Renamed(p, q, s)
    PROVE  r = s
  <1>1. PICK x : x = Renamed(p, q, r) /\ x = Renamed(p, q, s)
    OBVIOUS
  <1>2. /\ Len(x) = Len(q) + (Len(r) - Len(p))
        /\ \A i \in 1 .. Len(r) - Len(p) : x[Len(q) + i] = r[Len(p) + i]
    <2>1. Follows(x, p, q, r) BY <1>1, RenamedFacts
    <2>2. QED BY <2>1 DEF Follows
  <1>3. /\ Len(x) = Len(q) + (Len(s) - Len(p))
        /\ \A i \in 1 .. Len(s) - Len(p) : x[Len(q) + i] = s[Len(p) + i]
    <2>1. Follows(x, p, q, s) BY <1>1, RenamedFacts
    <2>2. QED BY <2>1 DEF Follows
  <1>4. /\ Len(r) \in Nat /\ Len(s) \in Nat /\ Len(p) \in Nat /\ Len(q) \in Nat
    BY LenProperties DEF Names
  <1>5. Len(r) = Len(s) BY <1>2, <1>3, <1>4
  <1>6. /\ \A i \in 1 .. Len(p) : r[i] = p[i]
        /\ \A i \in 1 .. Len(p) : s[i] = p[i]
    BY BelowFacts
  <1>7. ASSUME NEW i \in 1 .. Len(r) PROVE r[i] = s[i]
    <2>1. CASE i <= Len(p)
      <3>1. i \in 1 .. Len(p) BY <1>4, <2>1
      <3>2. QED BY <1>6, <3>1
    <2>2. CASE ~(i <= Len(p))
      <3>1. PICK k \in Nat : k = i - Len(p) BY <1>4, <2>2
      <3>2. /\ k \in 1 .. Len(r) - Len(p) /\ k \in 1 .. Len(s) - Len(p) /\ Len(p) + k = i
        BY <1>4, <1>5, <2>2, <3>1
      <3>3. QED BY <1>2, <1>3, <3>2
    <2>3. QED BY <2>1, <2>2
  <1>8. QED BY <1>5, <1>7, SeqEqual DEF Names

\* The parent of what r is renamed to is what its parent is renamed to.
LEMMA RenamedParent ==
    ASSUME NEW p \in Names, NEW q \in Names, NEW r \in Names, r # Root, Below(r, p), r # p
    PROVE  /\ Below(Parent(r), p)
           /\ Renamed(p, q, r) # Root
           /\ Parent(Renamed(p, q, r)) = Renamed(p, q, Parent(r))
  <1>1. Below(Parent(r), p) /\ Len(r) > Len(p) /\ Parent(r) \in Names BY BelowParent, ParentFacts
  <1>2. PICK x : x = Renamed(p, q, r)
    OBVIOUS
  <1>3. PICK y : y = Renamed(p, q, Parent(r))
    OBVIOUS
  <1>4. /\ Len(r) \in Nat /\ Len(p) \in Nat /\ Len(q) \in Nat /\ Len(Parent(r)) = Len(r) - 1
        /\ \A i \in 1 .. Len(r) - 1 : Parent(r)[i] = r[i]
    BY ParentFacts, LenProperties DEF Names
  <1>5. /\ x \in Names /\ Len(x) = Len(q) + (Len(r) - Len(p))
        /\ \A i \in 1 .. Len(q) : x[i] = q[i]
        /\ \A i \in 1 .. Len(r) - Len(p) : x[Len(q) + i] = r[Len(p) + i]
    <2>1. Follows(x, p, q, r) BY <1>2, RenamedFacts
    <2>2. QED BY <2>1 DEF Follows
  <1>6. PICK n : n = (Len(r) - 1) - Len(p)
    OBVIOUS
  <1>7. n \in Nat BY <1>1, <1>4, <1>6
  <1>8. /\ y \in Names /\ Len(y) = Len(q) + n
        /\ \A i \in 1 .. Len(q) : y[i] = q[i]
        /\ \A i \in 1 .. n : y[Len(q) + i] = Parent(r)[Len(p) + i]
    <2>1. Follows(y, p, q, Parent(r)) BY <1>1, <1>3, RenamedFacts
    <2>2. Len(Parent(r)) - Len(p) = n BY <1>4, <1>6
    <2>3. QED BY <2>1, <2>2 DEF Follows
  <1>9. Len(x) = Len(q) + n + 1 /\ Len(x) # 0 BY <1>4, <1>5, <1>6, <1>7
  <1>10. x # Root BY <1>9, EmptySeq DEF Root
  <1>11. /\ Parent(x) \in Names /\ Len(Parent(x)) = Len(q) + n
         /\ \A i \in 1 .. Len(q) + n : Parent(x)[i] = x[i]
    <2>1. /\ Parent(x) \in Names /\ Len(Parent(x)) = Len(x) - 1
          /\ \A i \in 1 .. Len(x) - 1 : Parent(x)[i] = x[i]
      BY <1>5, <1>10, ParentFacts
    <2>2. Len(x) - 1 = Len(q) + n BY <1>4, <1>7, <1>9
    <2>3. QED BY <2>1, <2>2
  <1>12. ASSUME NEW i \in 1 .. Len(q) + n PROVE Parent(x)[i] = y[i]
    <2>1. CASE i <= Len(q)
      <3>1. i \in 1 .. Len(q) BY <1>4, <1>7, <2>1
      <3>2. QED BY <1>5, <1>8, <1>11, <3>1
    <2>2. CASE ~(i <= Len(q))
      <3>1. PICK k : k = i - Len(q)
        OBVIOUS
      <3>2. /\ k \in 1 .. n /\ k \in 1 .. Len(r) - Len(p) /\ Len(q) + k = i
            /\ Len(p) + k \in 1 .. Len(r) - 1
        <4>1. Len(r) \in Nat /\ Len(p) \in Nat /\ Len(q) \in Nat BY <1>4
        <4>2. k \in 1 .. n /\ Len(q) + k = i BY <1>7, <2>2, <3>1, <4>1
        <4>3. Len(r) - Len(p) = n + 1 /\ Len(r) - 1 = Len(p) + n BY <1>6, <4>1
        <4>4. k \in 1 .. n + 1 /\ Len(p) + k \in 1 .. Len(p) + n BY <1>7, <4>1, <4>2
        <4>5. QED BY <4>2, <4>3, <4>4
      <3>3. x[i] = r[Len(p) + k] BY <1>5, <3>2
      <3>4. y[i] = r[Len(p) + k] BY <1>4, <1>8, <3>2
      <3>5. QED BY <1>11, <3>3, <3>4
    <2>3. QED BY <2>1, <2>2
  <1>13. Parent(x) = y BY <1>8, <1>11, <1>12, SeqEqual DEF Names
  <1>14. QED BY <1>1, <1>2, <1>3, <1>10, <1>13

\* fs_move makes a tree of a tree.
LEMMA MoveTree ==
    ASSUME NEW p \in Paths, NEW q \in Paths, IsTree(tree), FsMove(p, q)
    PROVE  IsTree(tree')
  <1> DEFINE To(r) == q \o SubSeq(r, Len(p) + 1, Len(r))
             moved == {r \in DOMAIN tree : Below(r, p)}
             kept  == {r \in DOMAIN tree : ~Below(r, p) /\ r # q}
  <1>1. /\ p \in DOMAIN tree /\ IsDirectory(Parent(q)) /\ ~Below(q, p)
        /\ q \in DOMAIN tree => Children(q) = {}
        /\ {To(r) : r \in moved} \subseteq Paths
        /\ tree' = [r \in kept \cup {To(s) : s \in moved} |->
                       IF r \in kept THEN tree[r] ELSE tree[CHOOSE s \in moved : To(s) = r]]
    BY DEF FsMove, Changed
  <1>2. \A r : To(r) = Renamed(p, q, r) BY DEF Renamed
  <1> HIDE DEF To, moved, kept
  <1>3. p \in Names /\ p # Root /\ q \in Names /\ q # Root /\ Len(p) \in Nat /\ Len(p) > 0
    BY PathIsNames
  <1>4. \A s \in moved : s \in DOMAIN tree /\ s \in Names /\ s # Root /\ Below(s, p)
    BY TreePath DEF moved
  <1>5. \A r \in kept : r \in DOMAIN tree /\ r \in Names /\ r # Root /\ ~Below(r, p) /\ r # q
    BY TreePath DEF kept
  <1>6. DOMAIN tree' = kept \cup {To(s) : s \in moved}
    BY <1>1
  <1>7. \A r \in kept : tree'[r] = tree[r]
    BY <1>1
  <1>8. ASSUME NEW s \in moved PROVE To(s) \notin kept /\ tree'[To(s)] = tree[s]
    <2>1. To(s) \notin kept
      <3>1. SUFFICES ASSUME To(s) \in kept PROVE FALSE
        OBVIOUS
      <3>2. Follows(To(s), p, q, s) BY <1>2, <1>3, <1>4, RenamedFacts
      <3>3. Len(s) \in Nat /\ Len(q) \in Nat /\ Len(s) >= Len(p)
        BY <1>3, <1>4, BelowFacts, LenProperties DEF Names
      <3>4. To(s) \in Names /\ Len(To(s)) >= Len(q) /\ \A i \in 1 .. Len(q) : To(s)[i] = q[i]
        BY <1>3, <3>2, <3>3 DEF Follows
      <3>5. Below(To(s), q) BY <1>3, <3>4, BelowFacts
      <3>6. To(s) \in DOMAIN tree /\ To(s) # q BY <1>5, <3>1
      <3>7. q \in DOMAIN tree => \A r \in DOMAIN tree : Parent(r) # q BY <1>1 DEF Children
      <3>8. QED BY <1>3, <3>5, <3>6, <3>7, NothingBelow
    <2>2. \A r \in moved : To(r) = To(s) => r = s BY <1>2, <1>3, <1>4, RenamedOnce
    <2>3. (CHOOSE r \in moved : To(r) = To(s)) = s BY <2>2
    <2>4. QED BY <1>1, <2>1, <2>3
  <1>9. ASSUME NEW r \in kept, Len(r) > 1
        PROVE  Parent(r) \in DOMAIN tree' /\ tree'[Parent(r)] = "dir"
    <2>1. Parent(r) \in DOMAIN tree /\ tree[Parent(r)] = "dir" BY <1>5, <1>9, TreePath
    <2>2. ~Below(Parent(r), p) BY <1>3, <1>5, BelowParent
    <2>3. Parent(r) # q BY <1>1, <1>5, <2>1 DEF Children
    <2>4. Parent(r) \in kept BY <2>1, <2>2, <2>3 DEF kept
    <2>5. QED BY <1>6, <1>7, <2>1, <2>4
  <1>10. ASSUME NEW s \in moved, Len(To(s)) > 1
         PROVE  Parent(To(s)) \in DOMAIN tree' /\ tree'[Parent(To(s))] = "dir"
    <2>1. CASE s = p
      <3>1. To(s) = q BY <1>2, <1>3, <2>1, RenamedSame
      <3>2. Parent(q) # Root /\ Parent(q) # q BY <1>3, <1>10, <3>1, ParentFacts
      <3>3. Parent(q) \in DOMAIN tree /\ tree[Parent(q)] = "dir" BY <1>1, <3>2 DEF IsDirectory
      <3>4. ~Below(Parent(q), p) BY <1>1, <1>3, BelowParent
      <3>5. Parent(q) \in kept BY <3>2, <3>3, <3>4 DEF kept
      <3>6. QED BY <1>6, <1>7, <3>1, <3>3, <3>5
    <2>2. CASE s # p
      <3>1. Below(Parent(s), p) /\ Parent(To(s)) = To(Parent(s))
        BY <1>2, <1>3, <1>4, <2>2, RenamedParent
      <3>2. Len(s) > Len(p) BY <1>3, <1>4, <2>2, BelowParent
      <3>3. Len(s) \in Nat /\ Len(s) > 1 BY <1>3, <1>4, <3>2, ParentFacts
      <3>4. Parent(s) \in DOMAIN tree /\ tree[Parent(s)] = "dir" BY <1>4, <3>3, TreePath
      <3>5. Parent(s) \in moved BY <3>1, <3>4 DEF moved
      <3>6. QED BY <1>6, <1>8, <3>1, <3>4, <3>5
    <2>3. QED BY <2>1, <2>2
  <1>11. DOMAIN tree' \subseteq Paths BY <1>1, <1>5, <1>6, TreePath
  <1>12. ASSUME NEW r \in DOMAIN tree' PROVE tree'[r] \in {"dir", "file", "other"}
    <2>1. CASE r \in kept BY <1>5, <1>7, <2>1, TreePath
    <2>2. CASE r \notin kept
      <3>1. PICK s \in moved : r = To(s) BY <1>6, <2>2
      <3>2. QED BY <1>4, <1>8, <3>1, TreePath
    <2>3. QED BY <2>1, <2>2
  <1>13. ASSUME NEW r \in DOMAIN tree', Len(r) > 1
         PROVE  Parent(r) \in DOMAIN tree' /\ tree'[Parent(r)] = "dir"
    BY <1>6, <1>9, <1>10, <1>13
  <1>14. QED BY <1>11, <1>12, <1>13 DEF IsTree

-----------------------------------------------------------------------------
(* The walk in sets: the queue Q, the open directory D (a set of none or one), *)
(* the entries C that the stream still has to give, and what was returned, S   *)

Real(e) == e[2] # "dot"

\* Nothing is returned twice: what was returned is in a directory that is
\* neither queued nor has the entry still to give.
Once(Q, D, C, S) ==
    /\ Q \cup D \subseteq S \cup {Root} /\ Q \cap D = {}
    /\ \A y \in S : /\ y \in Names /\ y # Root
                    /\ Parent(y) \in S \cup {Root} /\ Parent(y) \notin Q
    /\ \A e \in C : e \in Entry /\ (Real(e) => /\ e[1] # Root /\ Parent(e[1]) \in D
                                               /\ e[1] \notin S)
    /\ \A e, f \in C : Real(e) /\ Real(f) /\ e[1] = f[1] => e = f

WantedIn(t, mode) ==
    {p \in DOMAIN t :
        /\ ~ShouldSkip(mode, t[p])
        /\ Len(p) = 1 \/ {"recursive", "dirs"} \subseteq mode}

\* Nothing is forgotten in a tree t that stays as it is: a wanted entry of a
\* directory that was reached is returned, or its directory is queued, or the
\* stream has it.
Reached(t, mode, Q, D, C, S) ==
    /\ S \subseteq WantedIn(t, mode)
    /\ \A q \in Q \cup D :
          q = Root \/ (/\ q \in DOMAIN t /\ t[q] = "dir"
                       /\ {"recursive", "dirs"} \subseteq mode)
    /\ \A e \in C : Real(e) => e[1] \in DOMAIN t /\ e[2] = t[e[1]]
    /\ \A p \in WantedIn(t, mode) : Parent(p) \in S \cup {Root} =>
          p \in S \/ Parent(p) \in Q \/ <<p, t[p]>> \in C

\* Opening the first queued directory returns nothing twice ...
LEMMA OpenOnce ==
    ASSUME IsTree(tree), NEW Q, NEW S, Once(Q, {}, {}, S), NEW p \in Q
    PROVE  Once(Q \ {p}, {p}, Stream(p), S)
  <1>1. ASSUME NEW e \in Stream(p)
        PROVE  /\ e \in Entry
               /\ Real(e) => e[1] # Root /\ Parent(e[1]) = p /\ e[1] \notin S
               /\ Real(e) => e = <<e[1], tree[e[1]]>>
    <2>1. CASE e = Dot BY <2>1 DEF Dot, Entry, Real
    <2>2. CASE e # Dot
      <3>1. PICK q \in Children(p) : e = <<q, tree[q]>> BY <2>2 DEF Stream
      <3>2. q \in DOMAIN tree /\ Parent(q) = p BY DEF Children
      <3>3. q \in Names /\ q # Root /\ tree[q] \in {"dir", "file", "other"} BY <3>2, TreePath
      <3>4. q \notin S BY <3>2 DEF Once
      <3>5. e[1] = q /\ e[2] = tree[q] BY <3>1
      <3>6. QED BY <3>1, <3>2, <3>3, <3>4, <3>5 DEF Entry
    <2>3. QED BY <2>1, <2>2
  <1>2. \A e, f \in Stream(p) : Real(e) /\ Real(f) /\ e[1] = f[1] => e = f
    BY <1>1, Zenon
  <1>3. QED BY <1>1, <1>2 DEF Once

\* ... and forgets nothing.
LEMMA OpenReached ==
    ASSUME IsTree(tree), NEW Q, NEW S, Once(Q, {}, {}, S), NEW p \in Q, NEW mode,
           Reached(tree, mode, Q, {}, {}, S)
    PROVE  Reached(tree, mode, Q \ {p}, {p}, Stream(p), S)
  <1>1. ASSUME NEW e \in Stream(p), Real(e) PROVE e[1] \in DOMAIN tree /\ e[2] = tree[e[1]]
    BY <1>1 DEF Stream, Children, Dot, Real
  <1>2. ASSUME NEW x \in WantedIn(tree, mode), Parent(x) \in S \cup {Root}
        PROVE  x \in S \/ Parent(x) \in Q \ {p} \/ <<x, tree[x]>> \in Stream(p)
    <2>1. CASE Parent(x) = p
      <3>1. x \in Children(p) BY <2>1 DEF Children, WantedIn
      <3>2. QED BY <3>1 DEF Stream
    <2>2. CASE Parent(x) # p BY <1>2, <2>2 DEF Reached
    <2>3. QED BY <2>1, <2>2
  <1>3. QED BY <1>1, <1>2 DEF Reached

\* Closing a directory whose stream is at its end: nothing twice ...
LEMMA CloseOnce ==
    ASSUME NEW Q, NEW S, NEW D, Once(Q, D, {}, S)
    PROVE  Once(Q, {}, {}, S)
  BY DEF Once

\* ... and nothing forgotten.
LEMMA CloseReached ==
    ASSUME NEW t, NEW mode, NEW Q, NEW S, NEW D, Reached(t, mode, Q, D, {}, S)
    PROVE  Reached(t, mode, Q, {}, {}, S)
  BY DEF Reached

\* Passing over an entry: nothing twice ...
LEMMA SkipOnce ==
    ASSUME NEW Q, NEW S, NEW D, NEW C, Once(Q, D, C, S), NEW e
    PROVE  Once(Q, D, C \ {e}, S)
  BY DEF Once

\* ... and nothing forgotten, when the entry is not wanted.
LEMMA SkipReached ==
    ASSUME NEW t, NEW mode, NEW Q, NEW S, NEW D, NEW C, Reached(t, mode, Q, D, C, S),
           NEW e \in C, ShouldSkip(mode, e[2])
    PROVE  Reached(t, mode, Q, D, C \ {e}, S)
  <1>1. ASSUME NEW p \in WantedIn(t, mode) PROVE <<p, t[p]>> # e
    <2>1. ~ShouldSkip(mode, t[p]) BY DEF WantedIn
    <2>2. <<p, t[p]>>[2] = t[p] OBVIOUS
    <2>3. QED BY <2>1, <2>2
  <1>2. QED BY <1>1 DEF Reached

\* Returning an entry, and queueing it if it is to be walked: nothing twice ...
LEMMA YieldOnce ==
    ASSUME NEW Q, NEW S, NEW D, NEW C, Once(Q, D, C, S), NEW e \in C, Real(e),
           NEW R, R = Q \/ R = Q \cup {e[1]}
    PROVE  Once(R, D, C \ {e}, S \cup {e[1]})
  <1>1. PICK p : p = e[1]
    OBVIOUS
  <1>2. e \in Entry /\ p # Root /\ Parent(p) \in D /\ p \notin S BY <1>1 DEF Once
  <1>3. p \in Names BY <1>1, <1>2 DEF Entry, Real, Dot
  <1>4. Parent(p) # p BY <1>2, <1>3, ParentFacts
  <1>5. Parent(p) \in S \cup {Root} /\ Parent(p) \notin Q BY <1>2 DEF Once
  <1>6. p \notin Q /\ p \notin D /\ R \subseteq Q \cup {p} BY <1>1, <1>2 DEF Once
  <1>7. \A y \in S : Parent(y) # p BY <1>2 DEF Once
  <1>8. ASSUME NEW y \in S \cup {p}
        PROVE  /\ y \in Names /\ y # Root
               /\ Parent(y) \in (S \cup {p}) \cup {Root} /\ Parent(y) \notin R
    <2>1. CASE y = p BY <1>2, <1>3, <1>4, <1>5, <1>6, <2>1
    <2>2. CASE y # p
      <3>1. y \in S BY <2>2
      <3>2. y \in Names /\ y # Root /\ Parent(y) \in S \cup {Root} /\ Parent(y) \notin Q
        BY <3>1 DEF Once
      <3>3. QED BY <1>6, <1>7, <3>1, <3>2
    <2>3. QED BY <2>1, <2>2
  <1>9. \A f \in C \ {e} : Real(f) => f[1] # p BY <1>1 DEF Once
  <1>10. R \cup D \subseteq (S \cup {p}) \cup {Root} /\ R \cap D = {} BY <1>6 DEF Once
  <1>11. \A f \in C \ {e} : f \in Entry /\ (Real(f) => /\ f[1] # Root /\ Parent(f[1]) \in D
                                                     /\ f[1] \notin S \cup {p})
    BY <1>9 DEF Once
  <1>12. \A f, g \in C \ {e} : Real(f) /\ Real(g) /\ f[1] = g[1] => f = g
    BY DEF Once
  <1>13. QED BY <1>1, <1>8, <1>10, <1>11, <1>12 DEF Once

\* ... and nothing forgotten.
LEMMA YieldReached ==
    ASSUME NEW t, IsTree(t), NEW mode, NEW Q, NEW S, NEW D, NEW C, Once(Q, D, C, S),
           Reached(t, mode, Q, D, C, S), NEW e \in C, Real(e), ~ShouldSkip(mode, e[2]),
           NEW R, R = IF e[2] = "dir" /\ "recursive" \in mode THEN Q \cup {e[1]} ELSE Q
    PROVE  Reached(t, mode, R, D, C \ {e}, S \cup {e[1]})
  <1>1. PICK p : p = e[1]
    OBVIOUS
  <1>2. p \in DOMAIN t /\ e[2] = t[p] BY <1>1 DEF Reached
  <1>3. p # Root /\ p \in Names /\ Parent(p) \in D BY <1>1, <1>2, TreePath DEF Once
  <1>4. p \in WantedIn(t, mode)
    <2>1. CASE Parent(p) = Root
      <3>1. Len(p) = 1 BY <1>3, <2>1, ParentFacts
      <3>2. QED BY <1>2, <3>1 DEF WantedIn
    <2>2. CASE Parent(p) # Root
      <3>1. {"recursive", "dirs"} \subseteq mode BY <1>3, <2>2 DEF Reached
      <3>2. QED BY <1>2, <3>1 DEF WantedIn
    <2>3. QED BY <2>1, <2>2
  <1>5. ASSUME NEW q \in R \cup D
        PROVE  q = Root \/ (/\ q \in DOMAIN t /\ t[q] = "dir"
                            /\ {"recursive", "dirs"} \subseteq mode)
    <2>1. CASE q \in Q \cup D BY <2>1 DEF Reached
    <2>2. CASE q \notin Q \cup D
      <3>1. q = p /\ t[p] = "dir" /\ "recursive" \in mode BY <1>1, <1>2, <2>2
      <3>2. "dirs" \in mode BY <1>2, <3>1 DEF ShouldSkip
      <3>3. QED BY <1>2, <3>1, <3>2
    <2>3. QED BY <2>1, <2>2
  <1>6. ASSUME NEW x \in WantedIn(t, mode), Parent(x) \in (S \cup {p}) \cup {Root}
        PROVE  x \in S \cup {p} \/ Parent(x) \in R \/ <<x, t[x]>> \in C \ {e}
    <2>1. x \in DOMAIN t BY DEF WantedIn
    <2>2. x \in Names /\ x # Root /\ Len(x) \in Nat BY <2>1, TreePath
    <2>3. CASE Parent(x) = p
      <3>1. Len(x) # 1 BY <1>3, <2>2, <2>3, ParentFacts
      <3>2. Len(x) > 1 BY <2>2, <3>1, ParentFacts
      <3>3. t[p] = "dir" BY <2>1, <2>3, <3>2, TreePath
      <3>4. "recursive" \in mode BY <3>1 DEF WantedIn
      <3>5. R = Q \cup {p} BY <1>1, <1>2, <3>3, <3>4
      <3>6. QED BY <2>3, <3>5
    <2>4. CASE Parent(x) # p
      <3>1. x \in S \/ Parent(x) \in Q \/ <<x, t[x]>> \in C BY <1>6, <2>4 DEF Reached
      <3>2. <<x, t[x]>> = e => x = p BY <1>1
      <3>3. Q \subseteq R OBVIOUS
      <3>4. QED BY <3>1, <3>2, <3>3
    <2>5. QED BY <2>3, <2>4
  <1>7. \A f \in C \ {e} : Real(f) => f[1] \in DOMAIN t /\ f[2] = t[f[1]] BY DEF Reached
  <1>8. S \cup {p} \subseteq WantedIn(t, mode) BY <1>4 DEF Reached
  <1>9. QED BY <1>1, <1>5, <1>6, <1>7, <1>8 DEF Reached

\* When nothing is queued and nothing open, everything wanted was returned.
LEMMA AllReached ==
    ASSUME NEW t, IsTree(t), NEW mode, NEW S, Reached(t, mode, {}, {}, {}, S)
    PROVE  S = WantedIn(t, mode)
  <1>1. S \subseteq WantedIn(t, mode) BY DEF Reached
  <1>2. SUFFICES ASSUME NEW x \in WantedIn(t, mode), x \notin S PROVE FALSE
    BY <1>1
  <1>3. PICK L : L = {Len(p) : p \in {q \in WantedIn(t, mode) : q \notin S}}
    OBVIOUS
  <1>4. \A p \in WantedIn(t, mode) : p \in DOMAIN t BY DEF WantedIn
  <1>5. L \in SUBSET Nat /\ Len(x) \in L BY <1>2, <1>3, <1>4, TreePath
  <1>6. PICK m \in L : \A n \in L : m <= n BY <1>5, NatMin
  <1>7. PICK p \in WantedIn(t, mode) : p \notin S /\ m = Len(p) BY <1>3
  <1>8. p \in Names /\ p # Root /\ Len(p) \in Nat /\ Len(p) > 0 BY <1>4, TreePath
  <1>9. Parent(p) \notin S \cup {Root} BY <1>7 DEF Reached
  <1>10. Len(p) > 1 BY <1>8, <1>9, ParentFacts
  <1>11. Parent(p) \in DOMAIN t /\ t[Parent(p)] = "dir" BY <1>4, <1>10, TreePath
  <1>12. {"recursive", "dirs"} \subseteq mode BY <1>7, <1>8, <1>10 DEF WantedIn
  <1>13. Parent(p) \in WantedIn(t, mode) BY <1>11, <1>12 DEF WantedIn, ShouldSkip
  <1>14. Len(Parent(p)) \in L BY <1>3, <1>9, <1>13
  <1>15. Len(Parent(p)) = Len(p) - 1 BY <1>8, ParentFacts
  <1>16. QED BY <1>6, <1>7, <1>8, <1>14, <1>15

-----------------------------------------------------------------------------
(* The inductive invariant *)

IsWalk(w) ==
    w \in [stage : {"none", "idle", "seek", "entry", "ended", "freed"}, first : BOOLEAN,
           queue : Seq(Names), dir : [path : Names, open : BOOLEAN, rest : SUBSET Entry],
           mode : WalkModes \cup {{}}, entry : Entry, yielded : Seq(Names), exact : BOOLEAN]

OpenDir(w) == {p \in {w.dir.path} : w.dir.open}
Coming(w) == w.dir.rest \cup {e \in {w.entry} : w.stage = "entry"}

\* What the fields of an iterator say of each other.
Fields(w) ==
    /\ ~w.dir.open => w.dir.rest = {} /\ w.stage # "entry"
    /\ w.stage = "entry" => w.entry \notin w.dir.rest
    /\ w.first => /\ w.stage \in {"none", "idle", "freed"}
                  /\ w.queue = <<>> /\ w.yielded = <<>> /\ ~w.dir.open
    /\ w.stage \in {"none", "freed"} => w.first
    /\ w.stage = "ended" => w.queue = <<>> /\ ~w.dir.open
    /\ Distinct(w.queue) /\ Distinct(w.yielded)

FsInv ==
    /\ IsTree(tree)
    /\ IsWalk(walk) /\ Fields(walk)
    /\ Once(Elems(walk.queue), OpenDir(walk), Coming(walk), Elems(walk.yielded))
    /\ walk.exact /\ ~walk.first =>
          Reached(tree, walk.mode, Elems(walk.queue), OpenDir(walk), Coming(walk),
                  Elems(walk.yielded))

\* The empty queue.
LEMMA EmptyElems == Elems(<<>>) = {} /\ Distinct(<<>>)
  BY EmptySeq DEF Elems, Distinct

\* A walk that has not begun, or is freed.
LEMMA FreshWalk ==
    ASSUME NEW s \in {"none", "idle", "freed"}, NEW w,
           w = [NoWalk EXCEPT !.stage = s] \/ (w = NoWalk /\ s = "none")
    PROVE  /\ IsWalk(w) /\ Fields(w) /\ w.first
           /\ Once(Elems(w.queue), OpenDir(w), Coming(w), Elems(w.yielded))
  <1>1. <<>> \in Names /\ <<>> \in Seq(Names) BY DEF Names
  <1>2. /\ w.stage = s /\ w.first = TRUE /\ w.queue = <<>> /\ w.dir = Closed /\ w.yielded = <<>>
        /\ IsWalk(w)
    <2>1. CASE w = [NoWalk EXCEPT !.stage = s]
      BY <1>1, <2>1 DEF NoWalk, IsWalk, Closed, Root, Entry
    <2>2. CASE w = NoWalk /\ s = "none"
      BY <1>1, <2>2 DEF NoWalk, IsWalk, Closed, Root, Entry
    <2>3. QED BY <2>1, <2>2
  <1>3. w.dir.open = FALSE /\ w.dir.rest = {} BY <1>2 DEF Closed
  <1>4. OpenDir(w) = {} /\ Coming(w) = {} BY <1>2, <1>3 DEF OpenDir, Coming
  <1>5. Fields(w) BY <1>2, <1>3, EmptyElems DEF Fields
  <1>6. Once({}, {}, {}, {}) BY DEF Once
  <1>7. QED BY <1>2, <1>4, <1>5, <1>6, EmptyElems

\* FsInv holds at first, and every step keeps it.
LEMMA FsInvInit == FsInit => FsInv
  <1> SUFFICES ASSUME FsInit PROVE FsInv
    OBVIOUS
  <1>1. IsTree(tree) BY FsAssumption DEF FsInit, FsAssumption
  <1>2. walk = NoWalk BY DEF FsInit
  <1>3. QED BY <1>1, <1>2, FreshWalk DEF FsInv

\* A change of the tree, after which a walk in progress promises less.
LEMMA InvChanged ==
    ASSUME FsInv, NEW t, Changed(t), IsTree(t)
    PROVE  FsInv'
  <1>1. IsTree(tree') BY DEF Changed
  <1>2. walk' = [walk EXCEPT !.exact = @ /\ walk.stage = "none"] BY DEF Changed
  <1>3. IsWalk(walk) /\ Fields(walk) BY DEF FsInv
  <1>4. /\ walk'.stage = walk.stage /\ walk'.first = walk.first /\ walk'.queue = walk.queue
        /\ walk'.dir = walk.dir /\ walk'.mode = walk.mode /\ walk'.entry = walk.entry
        /\ walk'.yielded = walk.yielded
    BY <1>2, <1>3 DEF IsWalk
  <1>5. IsWalk(walk') BY <1>2, <1>3 DEF IsWalk
  <1>6. OpenDir(walk') = OpenDir(walk) /\ Coming(walk') = Coming(walk)
    BY <1>4 DEF OpenDir, Coming
  <1>7. Fields(walk') BY <1>3, <1>4 DEF Fields
  <1>8. walk'.exact => walk.stage = "none" BY <1>2, <1>3 DEF IsWalk
  <1>9. walk'.exact => walk'.first BY <1>3, <1>4, <1>8 DEF Fields
  <1>10. Once(Elems(walk'.queue), OpenDir(walk'), Coming(walk'), Elems(walk'.yielded))
    BY <1>4, <1>6 DEF FsInv
  <1>11. QED BY <1>1, <1>5, <1>7, <1>9, <1>10 DEF FsInv

\* The functions that change the tree.
LEMMA InvTree ==
    ASSUME FsInv, NEW p \in Paths, NEW q \in Paths, FsMakedirs(p) \/ FsRemove(p) \/ FsMove(p, q)
    PROVE  FsInv'
  <1>0. IsTree(tree) BY DEF FsInv
  <1>1. CASE FsMakedirs(p)
    <2>1. PICK t : t = [r \in DOMAIN tree \cup {p} |-> IF r = p THEN "dir" ELSE tree[r]]
      OBVIOUS
    <2>2. Changed(t) /\ p \notin DOMAIN tree /\ IsDirectory(Parent(p)) BY <1>1, <2>1 DEF FsMakedirs
    <2>3. QED BY <1>0, <2>1, <2>2, MakedirsTree, InvChanged
  <1>2. CASE FsRemove(p)
    <2>1. PICK gone : gone = (IF FsIsDir(p) THEN {r \in DOMAIN tree : Below(r, p)}
                              ELSE IF Children(p) = {} THEN {p} ELSE {})
      OBVIOUS
    <2>2. PICK t : t = [r \in DOMAIN tree \ gone |-> tree[r]]
      OBVIOUS
    <2>3. p \in DOMAIN tree /\ Changed(t) BY <1>2, <2>1, <2>2 DEF FsRemove
    <2>4. QED BY <1>0, <2>1, <2>2, <2>3, RemoveTree, InvChanged
  <1>3. CASE FsMove(p, q)
    <2>1. IsTree(tree') BY <1>0, <1>3, MoveTree
    <2>2. PICK t : t = tree'
      OBVIOUS
    <2>3. Changed(t) BY <1>3, <2>2 DEF FsMove, Changed
    <2>4. QED BY <2>1, <2>2, <2>3, InvChanged
  <1>4. QED BY <1>1, <1>2, <1>3

\* A new iterator, or a freed one.
LEMMA InvFresh ==
    ASSUME FsInv, WalkNew \/ WalkFree
    PROVE  FsInv'
  <1>1. PICK s \in {"idle", "freed"} : walk' = [NoWalk EXCEPT !.stage = s] /\ tree' = tree
    BY DEF WalkNew, WalkFree
  <1>2. QED BY <1>1, FreshWalk DEF FsInv

\* The call of fs_walk.
LEMMA InvCall ==
    ASSUME FsInv, NEW mode \in WalkModes, WalkCall(mode)
    PROVE  FsInv'
  <1>1. IsWalk(walk) /\ Fields(walk) /\ walk.stage = "idle" /\ tree' = tree
    BY DEF FsInv, WalkCall
  <1>2. PICK q : q = IF walk.first THEN Append(walk.queue, Root) ELSE walk.queue
    OBVIOUS
  <1>3. walk' = [walk EXCEPT !.stage = "seek", !.first = FALSE, !.mode = mode, !.queue = q]
    BY <1>2 DEF WalkCall
  <1>4. Root \in Names /\ walk.queue \in Seq(Names) BY <1>1 DEF IsWalk, Root, Names
  <1>5. q \in Seq(Names) BY <1>2, <1>4, AppendElems
  <1>6. /\ IsWalk(walk') /\ walk'.stage = "seek" /\ walk'.first = FALSE /\ walk'.queue = q
        /\ walk'.dir = walk.dir /\ walk'.mode = mode /\ walk'.entry = walk.entry
        /\ walk'.yielded = walk.yielded /\ walk'.exact = walk.exact
    BY <1>1, <1>3, <1>5 DEF IsWalk
  <1>7. OpenDir(walk') = OpenDir(walk) /\ Coming(walk') = Coming(walk)
    BY <1>1, <1>6 DEF OpenDir, Coming
  <1>8. CASE walk.first
    <2>1. walk.queue = <<>> /\ walk.yielded = <<>> /\ ~walk.dir.open /\ walk.dir.rest = {}
      BY <1>1, <1>8 DEF Fields
    <2>2. OpenDir(walk) = {} /\ Coming(walk) = {} BY <1>1, <2>1 DEF OpenDir, Coming
    <2>3. Elems(q) = {Root} /\ Distinct(q)
      <3>1. q = Append(walk.queue, Root) BY <1>2, <1>8
      <3>2. Elems(walk.queue) = {} /\ Distinct(walk.queue) BY <2>1, EmptyElems
      <3>3. Elems(q) = Elems(walk.queue) \cup {Root} BY <1>4, <3>1, AppendElems
      <3>4. Distinct(q) BY <1>4, <3>1, <3>2, AppendElems
      <3>5. QED BY <3>2, <3>3, <3>4
    <2>4. Elems(walk.yielded) = {} BY <2>1, EmptyElems
    <2>5. Once({Root}, {}, {}, {}) BY DEF Once
    <2>6. Reached(tree, mode, {Root}, {}, {}, {}) BY DEF Reached
    <2>7. Fields(walk') BY <1>1, <1>6, <2>1, <2>3 DEF Fields
    <2>8. QED BY <1>1, <1>6, <1>7, <2>2, <2>3, <2>4, <2>5, <2>6, <2>7 DEF FsInv
  <1>9. CASE ~walk.first
    <2>1. q = walk.queue /\ walk.mode = mode BY <1>2, <1>9 DEF WalkCall
    <2>2. Fields(walk') BY <1>1, <1>6, <2>1 DEF Fields
    <2>3. walk.exact =>
            Reached(tree, mode, Elems(q), OpenDir(walk), Coming(walk), Elems(walk.yielded))
      BY <1>9, <2>1 DEF FsInv
    <2>4. Once(Elems(q), OpenDir(walk), Coming(walk), Elems(walk.yielded))
      BY <2>1 DEF FsInv
    <2>5. QED BY <1>1, <1>6, <1>7, <2>2, <2>3, <2>4 DEF FsInv
  <1>10. QED BY <1>8, <1>9

\* A step that leaves queue, open directory, entries to come and what was
\* returned as they were, or only loses the claim to be exact.
LEMMA StaysInv ==
    ASSUME FsInv, tree' = tree, IsWalk(walk'), Fields(walk'),
           Elems(walk'.queue) = Elems(walk.queue), OpenDir(walk') = OpenDir(walk),
           Coming(walk') = Coming(walk), Elems(walk'.yielded) = Elems(walk.yielded),
           walk'.mode = walk.mode,
           walk'.exact /\ ~walk'.first => walk.exact /\ ~walk.first
    PROVE  FsInv'
  <1>1. Once(Elems(walk'.queue), OpenDir(walk'), Coming(walk'), Elems(walk'.yielded))
    BY DEF FsInv
  <1>2. walk'.exact /\ ~walk'.first =>
          Reached(tree', walk'.mode, Elems(walk'.queue), OpenDir(walk'), Coming(walk'),
                  Elems(walk'.yielded))
    BY DEF FsInv
  <1>3. IsTree(tree') BY DEF FsInv
  <1>4. QED BY <1>1, <1>2, <1>3 DEF FsInv

\* The steps of the loop of fs_walk, one by one.
LEMMA InvOpen ==
    ASSUME FsInv, WalkOpen
    PROVE  FsInv'
  <1>1. /\ IsWalk(walk) /\ Fields(walk) /\ walk.stage = "seek" /\ tree' = tree /\ ~walk.dir.open
        /\ IsTree(tree)
    BY DEF FsInv, WalkOpen
  <1>2. walk.dir.rest = {} /\ ~walk.first BY <1>1 DEF Fields
  <1>3. OpenDir(walk) = {} /\ Coming(walk) = {} BY <1>1, <1>2 DEF OpenDir, Coming
  <1>4. CASE walk.queue = <<>>
    <2>1. walk' = [walk EXCEPT !.stage = "ended"] BY <1>4 DEF WalkOpen
    <2>2. /\ IsWalk(walk') /\ walk'.stage = "ended" /\ walk'.first = walk.first
          /\ walk'.queue = walk.queue /\ walk'.dir = walk.dir /\ walk'.mode = walk.mode
          /\ walk'.entry = walk.entry /\ walk'.yielded = walk.yielded /\ walk'.exact = walk.exact
      BY <1>1, <2>1 DEF IsWalk
    <2>3. OpenDir(walk') = OpenDir(walk) /\ Coming(walk') = Coming(walk)
      BY <1>1, <2>2 DEF OpenDir, Coming
    <2>4. Fields(walk') BY <1>1, <1>2, <1>4, <2>2 DEF Fields
    <2>5. QED BY <1>1, <2>2, <2>3, <2>4, StaysInv
  <1>5. CASE walk.queue # <<>>
    <2>1. PICK p : p = Head(walk.queue)
      OBVIOUS
    <2>2. PICK q : q = Tail(walk.queue)
      OBVIOUS
    <2>3. walk.queue \in Seq(Names) /\ Distinct(walk.queue) BY <1>1 DEF IsWalk, Fields
    <2>4. /\ p \in Names /\ p \in Elems(walk.queue) /\ q \in Seq(Names) /\ Distinct(q)
          /\ Elems(q) = Elems(walk.queue) \ {p}
      BY <1>5, <2>1, <2>2, <2>3, TailElems
    <2>5. Once(Elems(walk.queue), {}, {}, Elems(walk.yielded)) BY <1>3 DEF FsInv
    <2>6. walk.exact => Reached(tree, walk.mode, Elems(walk.queue), {}, {}, Elems(walk.yielded))
      BY <1>2, <1>3 DEF FsInv
    <2>7. CASE ~IsDirectory(p)
      <3>1. walk' = [[walk EXCEPT !.queue = q] EXCEPT !.stage = "idle"]
        BY <1>5, <2>1, <2>2, <2>7 DEF WalkOpen
      <3>2. /\ IsWalk(walk') /\ walk'.stage = "idle" /\ walk'.first = walk.first
            /\ walk'.queue = q /\ walk'.dir = walk.dir /\ walk'.mode = walk.mode
            /\ walk'.entry = walk.entry /\ walk'.yielded = walk.yielded
            /\ walk'.exact = walk.exact
        BY <1>1, <2>4, <3>1 DEF IsWalk
      <3>3. OpenDir(walk') = {} /\ Coming(walk') = {}
        BY <1>1, <1>2, <3>2 DEF OpenDir, Coming
      <3>4. Fields(walk') BY <1>1, <1>2, <2>4, <3>2 DEF Fields
      <3>5. Once(Elems(q), {}, {}, Elems(walk.yielded)) BY <2>4, <2>5 DEF Once
      <3>6. ~walk.exact BY <2>4, <2>6, <2>7 DEF Reached, IsDirectory
      <3>7. QED BY <1>1, <3>2, <3>3, <3>4, <3>5, <3>6 DEF FsInv
    <2>8. CASE IsDirectory(p)
      <3>1. PICK e \in Stream(p) :
              walk' = [[walk EXCEPT !.queue = q] EXCEPT !.stage = "entry", !.entry = e,
                         !.dir = [path |-> p, open |-> TRUE, rest |-> Stream(p) \ {e}]]
        BY <1>5, <2>1, <2>2, <2>8 DEF WalkOpen
      <3>2. Once(Elems(q), {p}, Stream(p), Elems(walk.yielded))
        BY <1>1, <2>4, <2>5, OpenOnce
      <3>3. Stream(p) \subseteq Entry BY <3>2 DEF Once
      <3>4. PICK d : d = [path |-> p, open |-> TRUE, rest |-> Stream(p) \ {e}]
        OBVIOUS
      <3>5. /\ d \in [path : Names, open : BOOLEAN, rest : SUBSET Entry]
            /\ d.path = p /\ d.open = TRUE /\ d.rest = Stream(p) \ {e}
        BY <2>4, <3>3, <3>4
      <3>6. /\ IsWalk(walk') /\ walk'.stage = "entry" /\ walk'.first = walk.first
            /\ walk'.queue = q /\ walk'.dir = d /\ walk'.mode = walk.mode
            /\ walk'.entry = e /\ walk'.yielded = walk.yielded /\ walk'.exact = walk.exact
        BY <1>1, <2>4, <3>1, <3>3, <3>4, <3>5 DEF IsWalk
      <3>7. OpenDir(walk') = {p} /\ Coming(walk') = Stream(p)
        BY <3>5, <3>6 DEF OpenDir, Coming
      <3>8. Fields(walk') BY <1>1, <1>2, <2>4, <3>5, <3>6 DEF Fields
      <3>9. walk.exact =>
              Reached(tree, walk.mode, Elems(q), {p}, Stream(p), Elems(walk.yielded))
        BY <1>1, <2>4, <2>5, <2>6, OpenReached
      <3>10. QED BY <1>1, <3>2, <3>6, <3>7, <3>8, <3>9 DEF FsInv
    <2>9. QED BY <2>7, <2>8
  <1>6. QED BY <1>4, <1>5

LEMMA InvRead ==
    ASSUME FsInv, WalkRead
    PROVE  FsInv'
  <1>1. /\ IsWalk(walk) /\ Fields(walk) /\ walk.stage = "seek" /\ tree' = tree /\ walk.dir.open
        /\ IsTree(tree)
    BY DEF FsInv, WalkRead
  <1>2. ~walk.first BY <1>1 DEF Fields
  <1>3. Coming(walk) = walk.dir.rest BY <1>1 DEF Coming
  <1>4. CASE walk.dir.rest = {} /\ walk' = [walk EXCEPT !.dir = Closed]
    <2>1. Closed \in [path : Names, open : BOOLEAN, rest : SUBSET Entry]
          /\ Closed.open = FALSE /\ Closed.rest = {}
      BY DEF Closed, Root, Names
    <2>2. /\ IsWalk(walk') /\ walk'.stage = walk.stage /\ walk'.first = walk.first
          /\ walk'.queue = walk.queue /\ walk'.dir = Closed /\ walk'.mode = walk.mode
          /\ walk'.entry = walk.entry /\ walk'.yielded = walk.yielded /\ walk'.exact = walk.exact
      BY <1>1, <1>4, <2>1 DEF IsWalk
    <2>3. OpenDir(walk') = {} /\ Coming(walk') = {} BY <1>1, <2>1, <2>2 DEF OpenDir, Coming
    <2>4. Fields(walk') BY <1>1, <1>2, <2>1, <2>2 DEF Fields
    <2>5. Once(Elems(walk.queue), {}, {}, Elems(walk.yielded)) BY <1>3, <1>4, CloseOnce DEF FsInv
    <2>6. walk.exact => Reached(tree, walk.mode, Elems(walk.queue), {}, {}, Elems(walk.yielded))
      BY <1>2, <1>3, <1>4, CloseReached DEF FsInv
    <2>7. QED BY <1>1, <2>2, <2>3, <2>4, <2>5, <2>6 DEF FsInv
  <1>5. ASSUME NEW e \in walk.dir.rest,
               walk' = [walk EXCEPT !.stage = "entry", !.entry = e, !.dir.rest = @ \ {e}]
        PROVE  FsInv'
    <2>1. e \in Entry BY <1>1 DEF IsWalk
    <2>2. /\ IsWalk(walk') /\ walk'.stage = "entry" /\ walk'.first = walk.first
          /\ walk'.queue = walk.queue /\ walk'.dir.path = walk.dir.path
          /\ walk'.dir.open = walk.dir.open /\ walk'.dir.rest = walk.dir.rest \ {e}
          /\ walk'.mode = walk.mode /\ walk'.entry = e /\ walk'.yielded = walk.yielded
          /\ walk'.exact = walk.exact
      BY <1>1, <1>5, <2>1 DEF IsWalk
    <2>3. OpenDir(walk') = OpenDir(walk) /\ Coming(walk') = Coming(walk)
      BY <1>3, <2>2 DEF OpenDir, Coming
    <2>4. Fields(walk') BY <1>1, <1>2, <2>2 DEF Fields
    <2>5. QED BY <1>1, <2>2, <2>3, <2>4, StaysInv
  <1>6. QED BY <1>4, <1>5 DEF WalkRead

LEMMA InvError ==
    ASSUME FsInv, WalkError
    PROVE  FsInv'
  <1>1. /\ IsWalk(walk) /\ Fields(walk) /\ walk.stage = "seek" /\ tree' = tree /\ IsTree(tree)
        /\ walk' = [walk EXCEPT !.stage = "idle", !.dir = Closed, !.exact = FALSE]
    BY DEF FsInv, WalkError
  <1>2. ~walk.first BY <1>1 DEF Fields
  <1>3. Closed \in [path : Names, open : BOOLEAN, rest : SUBSET Entry]
        /\ Closed.open = FALSE /\ Closed.rest = {}
    BY DEF Closed, Root, Names
  <1>4. /\ IsWalk(walk') /\ walk'.stage = "idle" /\ walk'.first = walk.first
        /\ walk'.queue = walk.queue /\ walk'.dir = Closed /\ walk'.mode = walk.mode
        /\ walk'.entry = walk.entry /\ walk'.yielded = walk.yielded /\ walk'.exact = FALSE
    BY <1>1, <1>3 DEF IsWalk
  <1>5. OpenDir(walk') = {} /\ Coming(walk') = {} BY <1>3, <1>4 DEF OpenDir, Coming
  <1>6. Fields(walk') BY <1>1, <1>2, <1>3, <1>4 DEF Fields
  <1>7. Once(Elems(walk.queue), {}, {}, Elems(walk.yielded)) BY DEF FsInv, Once
  <1>8. QED BY <1>1, <1>4, <1>5, <1>6, <1>7 DEF FsInv

LEMMA InvSkip ==
    ASSUME FsInv, WalkSkip
    PROVE  FsInv'
  <1>1. /\ IsWalk(walk) /\ Fields(walk) /\ walk.stage = "entry" /\ tree' = tree /\ IsTree(tree)
        /\ ShouldSkip(walk.mode, walk.entry[2])
    BY DEF FsInv, WalkSkip
  <1>2. ~walk.first /\ walk.dir.open /\ walk.entry \notin walk.dir.rest BY <1>1 DEF Fields
  <1>3. walk.entry \in Coming(walk) /\ Coming(walk) \ {walk.entry} = walk.dir.rest
    BY <1>1, <1>2 DEF Coming
  <1>4. Once(Elems(walk.queue), OpenDir(walk), walk.dir.rest, Elems(walk.yielded))
    BY <1>3, SkipOnce DEF FsInv
  <1>5. walk.exact => Reached(tree, walk.mode, Elems(walk.queue), OpenDir(walk), walk.dir.rest,
                              Elems(walk.yielded))
    BY <1>1, <1>2, <1>3, SkipReached DEF FsInv
  <1>6. CASE walk.dir.rest = {} /\ walk' = [walk EXCEPT !.stage = "idle"]
    <2>1. /\ IsWalk(walk') /\ walk'.stage = "idle" /\ walk'.first = walk.first
          /\ walk'.queue = walk.queue /\ walk'.dir = walk.dir /\ walk'.mode = walk.mode
          /\ walk'.entry = walk.entry /\ walk'.yielded = walk.yielded /\ walk'.exact = walk.exact
      BY <1>1, <1>6 DEF IsWalk
    <2>2. OpenDir(walk') = OpenDir(walk) /\ Coming(walk') = walk.dir.rest
      BY <2>1 DEF OpenDir, Coming
    <2>3. Fields(walk') BY <1>1, <1>2, <2>1 DEF Fields
    <2>4. QED BY <1>1, <1>4, <1>5, <2>1, <2>2, <2>3 DEF FsInv
  <1>7. ASSUME NEW e \in walk.dir.rest, walk' = [walk EXCEPT !.entry = e, !.dir.rest = @ \ {e}]
        PROVE  FsInv'
    <2>1. e \in Entry BY <1>1 DEF IsWalk
    <2>2. /\ IsWalk(walk') /\ walk'.stage = "entry" /\ walk'.first = walk.first
          /\ walk'.queue = walk.queue /\ walk'.dir.path = walk.dir.path
          /\ walk'.dir.open = walk.dir.open /\ walk'.dir.rest = walk.dir.rest \ {e}
          /\ walk'.mode = walk.mode /\ walk'.entry = e /\ walk'.yielded = walk.yielded
          /\ walk'.exact = walk.exact
      BY <1>1, <1>7, <2>1 DEF IsWalk
    <2>3. OpenDir(walk') = OpenDir(walk) /\ Coming(walk') = walk.dir.rest
      BY <2>2 DEF OpenDir, Coming
    <2>4. Fields(walk') BY <1>1, <1>2, <2>2 DEF Fields
    <2>5. QED BY <1>1, <1>4, <1>5, <2>2, <2>3, <2>4 DEF FsInv
  <1>8. QED BY <1>6, <1>7 DEF WalkSkip

LEMMA InvYield ==
    ASSUME FsInv, WalkYield
    PROVE  FsInv'
  <1>1. /\ IsWalk(walk) /\ Fields(walk) /\ walk.stage = "entry" /\ tree' = tree /\ IsTree(tree)
        /\ ~ShouldSkip(walk.mode, walk.entry[2])
    BY DEF FsInv, WalkYield
  <1>2. ~walk.first /\ walk.dir.open /\ walk.entry \notin walk.dir.rest BY <1>1 DEF Fields
  <1>3. PICK e : e = walk.entry
    OBVIOUS
  <1>4. e \in Coming(walk) /\ Coming(walk) \ {e} = walk.dir.rest
    BY <1>1, <1>2, <1>3 DEF Coming
  <1>5. Real(e) BY <1>1, <1>3 DEF Real, ShouldSkip
  <1>6. Once(Elems(walk.queue), OpenDir(walk), Coming(walk), Elems(walk.yielded)) BY DEF FsInv
  <1>7. /\ e \in Entry /\ e[1] # Root /\ Parent(e[1]) \in OpenDir(walk)
        /\ e[1] \notin Elems(walk.yielded)
    BY <1>4, <1>5, <1>6 DEF Once
  <1>8. e[1] \in Names /\ Parent(e[1]) = walk.dir.path BY <1>5, <1>7 DEF Entry, Real, Dot, OpenDir
  <1>9. Append(walk.dir.path, e[1][Len(e[1])]) = e[1] BY <1>7, <1>8, ParentFacts
  <1>10. PICK q : q = IF e[2] = "dir" /\ "recursive" \in walk.mode
                      THEN Append(walk.queue, e[1]) ELSE walk.queue
    OBVIOUS
  <1>11. PICK y : y = Append(walk.yielded, e[1])
    OBVIOUS
  <1>12. walk' = [walk EXCEPT !.stage = "idle", !.yielded = y, !.queue = q]
    BY <1>3, <1>9, <1>10, <1>11 DEF WalkYield
  <1>13. /\ walk.queue \in Seq(Names) /\ walk.yielded \in Seq(Names)
         /\ Distinct(walk.queue) /\ Distinct(walk.yielded)
    BY <1>1 DEF IsWalk, Fields
  <1>14. y \in Seq(Names) /\ Distinct(y) /\ Elems(y) = Elems(walk.yielded) \cup {e[1]}
    BY <1>7, <1>8, <1>11, <1>13, AppendElems
  <1>15. e[1] \notin Elems(walk.queue) BY <1>6, <1>7 DEF Once
  <1>16. /\ q \in Seq(Names) /\ Distinct(q)
         /\ Elems(q) = IF e[2] = "dir" /\ "recursive" \in walk.mode
                       THEN Elems(walk.queue) \cup {e[1]} ELSE Elems(walk.queue)
    <2>1. CASE e[2] = "dir" /\ "recursive" \in walk.mode
      <3>1. q = Append(walk.queue, e[1]) BY <1>10, <2>1
      <3>2. q \in Seq(Names) /\ Distinct(q) /\ Elems(q) = Elems(walk.queue) \cup {e[1]}
        BY <1>8, <1>13, <1>15, <3>1, AppendElems
      <3>3. QED BY <2>1, <3>2
    <2>2. CASE ~(e[2] = "dir" /\ "recursive" \in walk.mode)
      <3>1. q = walk.queue BY <1>10, <2>2
      <3>2. QED BY <1>13, <2>2, <3>1
    <2>3. QED BY <2>1, <2>2
  <1>17. /\ IsWalk(walk') /\ walk'.stage = "idle" /\ walk'.first = walk.first
         /\ walk'.queue = q /\ walk'.dir = walk.dir /\ walk'.mode = walk.mode
         /\ walk'.entry = walk.entry /\ walk'.yielded = y /\ walk'.exact = walk.exact
    BY <1>1, <1>12, <1>14, <1>16 DEF IsWalk
  <1>18. OpenDir(walk') = OpenDir(walk) /\ Coming(walk') = Coming(walk) \ {e}
    BY <1>4, <1>17 DEF OpenDir, Coming
  <1>19. Fields(walk') BY <1>1, <1>2, <1>14, <1>16, <1>17 DEF Fields
  <1>20. Elems(q) = Elems(walk.queue) \/ Elems(q) = Elems(walk.queue) \cup {e[1]} BY <1>16
  <1>21. Once(Elems(q), OpenDir(walk), Coming(walk) \ {e}, Elems(y))
    <2>1. Once(Elems(q), OpenDir(walk), Coming(walk) \ {e}, Elems(walk.yielded) \cup {e[1]})
      BY <1>4, <1>5, <1>6, <1>20, YieldOnce, Zenon
    <2>2. QED BY <1>14, <2>1
  <1>22. ASSUME walk.exact
         PROVE  Reached(tree, walk.mode, Elems(q), OpenDir(walk), Coming(walk) \ {e}, Elems(y))
    <2>1. Reached(tree, walk.mode, Elems(walk.queue), OpenDir(walk), Coming(walk),
                  Elems(walk.yielded))
      BY <1>2, <1>22 DEF FsInv
    <2>2. ~ShouldSkip(walk.mode, e[2]) BY <1>1, <1>3
    <2>3. QED BY <1>1, <1>4, <1>5, <1>6, <1>14, <1>16, <2>1, <2>2, YieldReached
  <1>23. QED BY <1>1, <1>17, <1>18, <1>19, <1>21, <1>22 DEF FsInv

-----------------------------------------------------------------------------
(* The theorem *)

\* fs_walk returns no entry twice, however fs_makedirs, fs_remove and fs_move
\* change the tree between two of its steps; and a caller that goes on until
\* queue and stream are empty, over a tree that nobody changes and without a
\* failing readdir, is given every wanted entry, for any tree, any depth and
\* any order of readdir.
THEOREM WalksAreComplete == FsSpec => []WalkComplete
  <1>1. FsInv /\ [FsNext]_fsVars => FsInv'
    <2> SUFFICES ASSUME FsInv, [FsNext]_fsVars PROVE FsInv'
      OBVIOUS
    <2>1. CASE UNCHANGED fsVars
      <3>1. tree' = tree /\ walk' = walk BY <2>1 DEF fsVars
      <3>2. QED BY <3>1 DEF FsInv
    <2>2. CASE \E p \in Paths : FsMakedirs(p) \/ FsRemove(p) BY <2>2, InvTree
    <2>3. CASE \E p, q \in Paths : FsMove(p, q) BY <2>3, InvTree
    <2>4. CASE \E mode \in WalkModes : WalkCall(mode) BY <2>4, InvCall
    <2>5. CASE WalkOpen BY <2>5, InvOpen
    <2>6. CASE WalkRead BY <2>6, InvRead
    <2>7. CASE WalkError BY <2>7, InvError
    <2>8. CASE WalkSkip BY <2>8, InvSkip
    <2>9. CASE WalkYield BY <2>9, InvYield
    <2>10. CASE WalkNew \/ WalkFree BY <2>10, InvFresh
    <2>11. QED
      BY <2>1, <2>2, <2>3, <2>4, <2>5, <2>6, <2>7, <2>8, <2>9, <2>10 DEF FsNext
  <1>2. FsInv => WalkComplete
    <2> SUFFICES ASSUME FsInv PROVE WalkComplete
      OBVIOUS
    <2>1. \A i, j \in 1 .. Len(walk.yielded) : walk.yielded[i] = walk.yielded[j] => i = j
      BY DEF FsInv, Fields, Distinct
    <2>2. ASSUME walk.stage = "ended", walk.exact
          PROVE  {walk.yielded[i] : i \in 1 .. Len(walk.yielded)} = Wanted(walk.mode)
      <3>1. walk.queue = <<>> /\ ~walk.dir.open /\ walk.dir.rest = {} /\ ~walk.first
        BY <2>2 DEF FsInv, Fields
      <3>2. OpenDir(walk) = {} /\ Coming(walk) = {} BY <2>2, <3>1 DEF OpenDir, Coming
      <3>3. Reached(tree, walk.mode, {}, {}, {}, Elems(walk.yielded))
        BY <2>2, <3>1, <3>2, EmptyElems DEF FsInv
      <3>4. Elems(walk.yielded) = WantedIn(tree, walk.mode) BY <3>3, AllReached DEF FsInv
      <3>5. QED BY <3>4 DEF Elems, Wanted, WantedIn
    <2>3. QED BY <2>1, <2>2 DEF WalkComplete
  <1>3. QED BY <1>1, <1>2, FsInvInit, PTL DEF FsSpec

=============================================================================

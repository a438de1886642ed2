------------------------------- MODULE Vector ------------------------------
(***************************************************************************)
(* The vector of src/vector.c: a header of three words and the elements    *)
(* behind it, in one allocation.  Indices are those of C, from 0.          *)
(***************************************************************************)
EXTENDS Integers, Sequences, SequencesExt

CONSTANTS
    Elements,       \* values of elements
    Capacities,     \* initial capacities a caller asks for
    HeaderRoom,     \* elements that fit into the room of the header
    MaxSize         \* bound: elements of the vector

ASSUME VectorAssumption ==
    Capacities \subseteq Nat /\ HeaderRoom \in Nat \ {0} /\ MaxSize \in Nat

VARIABLES
    vec,        \* stage, size, capacity, and the elements up to the capacity
    list        \* the sequence the calls so far stand for

vectorVars == <<vec, list>>

Garbage == "garbage"
NoVector == [stage |-> "none", size |-> 0, capacity |-> 0, cells |-> <<>>, over |-> "none"]

At(v, index) == v.cells[index + 1]      \* vector_at
Cells(n) == [i \in 1 .. n |-> Garbage]

VectorInitial == vec = NoVector /\ list = <<>>

\* vector_new and vector_init; capacity 0 asks for the default, 128.
DefaultCapacity == 128

VectorNew(initial_capacity) ==
    LET capacity == IF initial_capacity = 0 THEN DefaultCapacity ELSE initial_capacity
    IN  /\ vec.stage = "none"
        /\ vec' = [NoVector EXCEPT !.stage = "ready", !.capacity = capacity,
                      !.cells = Cells(capacity)]
        /\ UNCHANGED list

\* vector_resize only ever grows.
Resize(v, new_capacity) ==
    IF new_capacity <= v.capacity THEN v
    ELSE [v EXCEPT !.capacity = new_capacity, !.cells = @ \o Cells(new_capacity - v.capacity)]

\* Mutant: truncated instead of rounded.
GrowTruncated(v) == Resize(v, (v.capacity * 161) \div 100)

\* _vector_grow: round(capacity * 1.61).
Grow(v) == Resize(v, (v.capacity * 161 + 50) \div 100)

\* memmove of n elements: one that would be read from behind the capacity is
\* garbage and is noted, one that would be written there is a fault.
Move(v, to, from, n) ==
    [v EXCEPT
        !.cells = [i \in DOMAIN @ |->
            IF i - 1 \in to .. to + n - 1
            THEN IF from + (i - 1 - to) < v.capacity THEN @[from + (i - 1 - to) + 1]
                 ELSE Garbage
            ELSE @[i]],
        !.over = IF to + n > v.capacity THEN "write"
                 ELSE IF from + n > v.capacity THEN "read" ELSE @]

Put(v, index, element) ==
    IF index >= v.capacity THEN [v EXCEPT !.over = "write"]
    ELSE [v EXCEPT !.cells[index + 1] = element]

Room(v) == IF v.capacity = v.size THEN Grow(v) ELSE v

Ready == vec.stage = "ready"

VectorResize(new_capacity) ==
    /\ Ready /\ new_capacity > vec.capacity /\ new_capacity <= MaxSize
    /\ vec' = Resize(vec, new_capacity)
    /\ UNCHANGED list

\* vector_push_back, and _vector_emplace_back with the caller's assignment.
VectorPushBack(element) ==
    /\ Ready /\ vec.size < MaxSize
    /\ vec' = [Put(Room(vec), vec.size, element) EXCEPT !.size = @ + 1]
    /\ list' = Append(list, element)

VectorInsert(element, position) ==
    /\ Ready /\ vec.size < MaxSize /\ position <= vec.size
    /\ vec' = [Put(Move(Room(vec), position + 1, position, vec.size - position),
                   position, element) EXCEPT !.size = @ + 1]
    /\ list' = InsertAt(list, position + 1, element)

VectorRemove(position) ==
    /\ Ready /\ position < vec.size
    /\ vec' = [Move(vec, position, position + 1, vec.size - position) EXCEPT !.size = @ - 1]
    /\ list' = RemoveAt(list, position + 1)

VectorPop ==
    /\ Ready /\ vec.size > 0
    /\ vec' = [vec EXCEPT !.size = @ - 1]
    /\ list' = Front(list)

VectorPopFront ==
    /\ Ready /\ vec.size > 0
    /\ vec' = [Move(vec, 0, 1, vec.size) EXCEPT !.size = @ - 1]
    /\ list' = Tail(list)

\* vector_shrink_to_fit allocates for the elements and not for the header:
\* with too few elements the header itself is lost, otherwise as many
\* elements as the header is long.
VectorShrinkToFit ==
    /\ Ready
    /\ vec' = IF vec.size < HeaderRoom THEN [vec EXCEPT !.stage = "lost"]
              ELSE [vec EXCEPT !.stage = "shrunk", !.capacity = vec.size,
                       !.cells = SubSeq(@, 1, vec.size - HeaderRoom) \o Cells(HeaderRoom)]
    /\ UNCHANGED list

\* vector_find: the first index, or -1 for VECTOR_NOT_FOUND.
VectorFind(element) ==
    LET hits == {i \in 0 .. vec.size - 1 : At(vec, i) = element}
    IN  IF hits = {} THEN -1 ELSE CHOOSE i \in hits : \A j \in hits : i <= j

\* vector_release and its variants.
VectorRelease ==
    /\ Ready \/ vec.stage = "shrunk"
    /\ vec' = NoVector /\ list' = <<>>

VectorNext ==
    \/ \E c \in Capacities : VectorNew(c) \/ VectorResize(c)
    \/ \E e \in Elements : VectorPushBack(e)
    \/ \E e \in Elements, i \in 0 .. MaxSize : VectorInsert(e, i)
    \/ \E i \in 0 .. MaxSize : VectorRemove(i)
    \/ VectorPop \/ VectorPopFront \/ VectorShrinkToFit
    \/ VectorRelease

VectorSpec == VectorInitial /\ [][VectorNext]_vectorVars

(***************************************************************************)
(* Properties.                                                             *)
(***************************************************************************)

\* Until it is shrunk a vector is the sequence its calls describe, through
\* every growth and with every move of its elements, never writes behind its
\* capacity, and finds an element where the sequence has it first; shrunk, it
\* keeps all but the elements that the missing header costs.
VectorIsList ==
    /\ Ready =>
        /\ vec.over # "write" /\ Len(vec.cells) = vec.capacity
        /\ SubSeq(vec.cells, 1, vec.size) = list
        /\ \A e \in Elements :
              VectorFind(e) = IF \E i \in 1 .. Len(list) : list[i] = e
                              THEN (CHOOSE i \in 1 .. Len(list) :
                                      list[i] = e /\ \A j \in 1 .. i - 1 : list[j] # e) - 1
                              ELSE -1
    /\ vec.stage = "shrunk" =>
          LET n == vec.size - HeaderRoom
          IN  SubSeq(vec.cells, 1, n) = SubSeq(list, 1, n)

=============================================================================

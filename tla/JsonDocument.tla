--------------------------- MODULE JsonDocument ---------------------------
(***************************************************************************)
(* The value tree of json.c.  The two arenas of a document only grow, so a *)
(* document is three sequences, and an address is an index into one:       *)
(* values (JsonValue), infos (JsonArrayInfo, JsonDictInfo) and elems       *)
(* (JsonArrayElement; JsonDictElement with its JsonKeyValue).  The address *)
(* 0 is NULL.  A list is followed from info.head through elem.next.        *)
(*                                                                         *)
(* A value is its tag, the size kept in the upper half of the tags, and    *)
(* its union: the text that tells two scalars apart (the sign of a number  *)
(* and, of a double, its magnitude; the characters of a string; the word   *)
(* of a literal) or the address of its info.  The size is kept for arrays  *)
(* and dicts only.                                                         *)
(***************************************************************************)
EXTENDS Naturals, SequencesExt

CONSTANT SizeModulus    \* 2^32: the size occupies 32 bits of the tags

ASSUME SizeAssumption == SizeModulus \in Nat \ {0}

VARIABLE doc            \* the Json document a caller works on

Null == 0

\* json_new: nothing is in the arenas; no list operation has written to NULL
json_new == [values |-> <<>>, infos |-> <<>>, elems |-> <<>>,
             root |-> Null, fault |-> FALSE]

json_set_root(d, v) == [d EXCEPT !.root = v]

Value(tag, text, info) == [tag |-> tag, size |-> 0, text |-> text, info |-> info]

Containers == {"array", "dict"}

IsContainer(d, v) == d.values[v].tag \in Containers

\* json_null_new, json_bool_new, json_u64_new, json_i64_new, json_f64_new,
\* json_str_new: the address of the new value is Len(values) afterwards
json_scalar_new(d, tag, text) ==
    [d EXCEPT !.values = Append(@, Value(tag, text, Null))]

\* json_null_set ... json_str_set: the tag and the union, not the size
json_scalar_set(d, v, tag, text) ==
    [d EXCEPT !.values[v].tag = tag, !.values[v].text = text, !.values[v].info = Null]

\* json_array_new and json_dict_new: a value and its empty list
ContainerNew(d, tag) ==
    [d EXCEPT !.values = Append(@, Value(tag, <<>>, Len(d.infos) + 1)),
              !.infos = Append(@, [head |-> Null, tail |-> Null])]

Info(d, c) == d.infos[d.values[c].info]

\* The elements of a list, in order: the loop over get_next, from NULL to NULL
Walk(d, c) ==
    LET from[e \in 0..Len(d.elems)] ==
            IF e = Null THEN <<>> ELSE <<e>> \o from[d.elems[e].next]
    IN  from[Info(d, c).head]

\* Mutant: the iterator never leaves the first element
GetNextStays(d, c, current) == Info(d, c).head

\* json_array_get_next, json_dict_get_next
GetNext(d, c, current) ==
    IF current = Null THEN Info(d, c).head ELSE d.elems[current].next

(***************************************************************************)
(* json_array_append and json_dict_append.  The new element goes behind    *)
(* info.tail whenever info.head is not NULL: a NULL tail is dereferenced.  *)
(* Without reference the element holds a copy of the value: a copied       *)
(* container has its own size and shares the list.                         *)
(***************************************************************************)
ContainerAppend(d, c, key, v, reference) ==
    LET e      == Len(d.elems) + 1
        i      == d.values[c].info
        tail   == d.infos[i].tail
        copied == IF reference THEN d.values ELSE Append(d.values, d.values[v])
        held   == IF reference THEN v ELSE Len(d.values) + 1
        linked == [d EXCEPT
                      !.values = [copied EXCEPT ![c].size = (@ + 1) % SizeModulus],
                      !.elems  = Append(@, [next |-> Null, key |-> key, value |-> held])]
    IN  IF d.infos[i].head = Null
        THEN [linked EXCEPT !.infos[i] = [head |-> e, tail |-> e]]
        ELSE IF tail = Null
        THEN [d EXCEPT !.fault = TRUE]
        ELSE [linked EXCEPT !.elems[tail].next = e, !.infos[i].tail = e]

\* json_decr_sz
Shrink(d, c) ==
    [d EXCEPT !.values[c].size = (@ + SizeModulus - 1) % SizeModulus]

\* Mutant: what follows the element is lost with it
UnlinkSkips(d, c, previous, e) ==
    Shrink([d EXCEPT !.elems[previous].next = Null], c)

\* The common end of the two pops: unlink the element behind `previous'
Unlink(d, c, previous, e) ==
    LET i    == d.values[c].info
        next == d.elems[e].next
    IN  Shrink([d EXCEPT !.elems[previous].next = next,
                         !.infos[i].tail = IF @ = e THEN next ELSE @], c)

\* json_array_pop: the first element leaves by the head, whatever the tail is.
\* The loop stops at the last element; an empty list with a size (that of a
\* copied container) is dereferenced.
json_array_pop(d, c, index) ==
    LET walk == Walk(d, c)
        i    == d.values[c].info
        at   == IF index + 1 <= Len(walk) THEN index + 1 ELSE Len(walk)
    IN  IF index >= d.values[c].size
        THEN d
        ELSE IF walk = <<>>
        THEN [d EXCEPT !.fault = TRUE]
        ELSE IF index = 0
        THEN Shrink([d EXCEPT !.infos[i].head = d.elems[@].next], c)
        ELSE IF at = 1
        THEN Shrink(d, c)
        ELSE Unlink(d, c, walk[at - 1], walk[at])

\* The places of a key in a dict; json_dict_find returns the value at the first
Places(d, walk, key) == {j \in DOMAIN walk : d.elems[walk[j]].key = key}

json_dict_find(d, c, key) ==
    LET walk  == Walk(d, c)
        found == Places(d, walk, key)
    IN  IF found = {} THEN Null ELSE d.elems[walk[Min(found)]].value

\* json_dict_pop: a key found in the first element stays there (info.head is
\* assigned to itself), and the size goes down all the same
json_dict_pop(d, c, key) ==
    LET walk  == Walk(d, c)
        found == Places(d, walk, key)
    IN  IF found = {}
        THEN d
        ELSE IF Min(found) = 1
        THEN Shrink(d, c)
        ELSE Unlink(d, c, walk[Min(found) - 1], walk[Min(found)])

============================================================================

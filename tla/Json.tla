------------------------------- MODULE Json -------------------------------
(***************************************************************************)
(* A caller of json.h and one document at a time: it builds the document   *)
(* with the functions of JsonDocument, or loads it from a text, writes it  *)
(* with json_dumps and loads what was written.  The calls to the parser    *)
(* and the writer run step by step; everything is one thread.              *)
(***************************************************************************)
EXTENDS JsonWriter

CONSTANT
    Plans   \* bounds: for each kind of caller, the texts it hands to
            \* json_loads, the <<tag, text>> of the scalars it makes, its keys,
            \* the indent_sizes it gives json_dumps, the values, lists and
            \* elements it may bring a document to, the calls of json_..._set

VARIABLES
    caller,     \* the plan of the caller, one per behaviour
    content,    \* history: for each list, what the caller expects it to hold
    sets,       \* calls of json_..._set so far
    phase,      \* "build", "load", "dump", "reload", "end"
    tree        \* history: what the writer is writing

vars == <<doc, p, w, caller, content, sets, phase, tree>>

Plan == Plans[caller]

Addresses == DOMAIN doc.values

Lists == {v \in Addresses : IsContainer(doc, v)}

Arrays == {v \in Addresses : doc.values[v].tag = "array"}
Dicts  == {v \in Addresses : doc.values[v].tag = "dict"}

ListOf(c) == doc.values[c].info

\* No other value shares the list of c
Unshared(c) == \A v \in Lists : ListOf(v) = ListOf(c) => v = c

\* The list is reachable from the value v of an acyclic document
Reaches(v, list) ==
    LET from[u \in Addresses] ==
            /\ IsContainer(doc, u)
            /\ \/ ListOf(u) = list
               \/ \E e \in Range(Walk(doc, u)) : from[doc.elems[e].value]
    IN  from[v]

----------------------------------------------------------------------------
(***************************************************************************)
(* What the caller expects of a list: its items, and whether it has made   *)
(* one of the calls that the lists do not survive.  A list is `cut' when   *)
(* the last of several items was popped, until it is empty.  It is         *)
(* `spoilt' by an append while it is cut, by json_dict_pop of the first    *)
(* key, and by any change while a copied container shares it.              *)
(***************************************************************************)
NewList == [items |-> <<>>, cut |-> FALSE, spoilt |-> FALSE]

ItemAdded(list, item, shared) ==
    LET cut == list.cut /\ list.items # <<>>
    IN  [items |-> Append(list.items, item), cut |-> cut,
         spoilt |-> list.spoilt \/ shared \/ cut]

PlacesOf(list, key) == {j \in DOMAIN list.items : list.items[j][1] = key}

ItemGone(list, place, shared, stays) ==
    [items  |-> RemoveAt(list.items, place),
     cut    |-> list.cut \/ (place = Len(list.items) /\ place > 1),
     spoilt |-> list.spoilt \/ shared \/ stays]

----------------------------------------------------------------------------

Init == /\ doc = json_new
        /\ p = Idle
        /\ w = Resting
        /\ caller \in DOMAIN Plans
        /\ content = <<>>
        /\ sets = 0
        /\ phase = "build"
        /\ tree = <<>>

Unused == UNCHANGED <<p, w, caller, phase, tree>>

NewScalar == \E s \in Plan.scalars :
    /\ Len(doc.values) < Plan.values
    /\ doc' = json_scalar_new(doc, s[1], s[2])
    /\ UNCHANGED <<content, sets>>

SetScalar == \E s \in Plan.scalars, v \in Addresses :
    /\ sets < Plan.sets
    /\ sets' = sets + 1
    /\ doc' = json_scalar_set(doc, v, s[1], s[2])
    /\ UNCHANGED content

NewContainer == \E tag \in Containers :
    /\ Len(doc.values) < Plan.values
    /\ Len(doc.infos) < Plan.lists
    /\ doc' = ContainerNew(doc, tag)
    /\ content' = Append(content, NewList)
    /\ UNCHANGED sets

\* What the caller expects of an append: the value, or its copy, at the end
Appended(c, key, held) ==
    [content EXCEPT ![ListOf(c)] = ItemAdded(@, <<key, held>>, ~Unshared(c))]

\* A container is not put into itself

AppendTo == \E c \in Lists, v \in Addresses, reference \in BOOLEAN :
    /\ Len(doc.elems) < Plan.elems
    /\ reference \/ Len(doc.values) < Plan.values
    /\ ~Reaches(v, ListOf(c))
    /\ \E key \in IF c \in Dicts THEN Plan.keys ELSE {<<>>} :
          /\ doc' = ContainerAppend(doc, c, key, v, reference)
          /\ content' = Appended(c, key, IF reference THEN v ELSE Len(doc.values) + 1)
    /\ UNCHANGED sets

ArrayPop == \E c \in Arrays, index \in 0..Plan.elems :
    /\ doc' = json_array_pop(doc, c, index)
    /\ content' = [content EXCEPT ![ListOf(c)] =
                      IF index < Len(@.items)
                      THEN ItemGone(@, index + 1, ~Unshared(c), FALSE) ELSE @]
    /\ UNCHANGED sets

DictPop == \E c \in Dicts, key \in Plan.keys :
    LET places == PlacesOf(content[ListOf(c)], key)
    IN  /\ doc' = json_dict_pop(doc, c, key)
        /\ content' = [content EXCEPT ![ListOf(c)] =
                          IF places = {} THEN @
                          ELSE ItemGone(@, Min(places), ~Unshared(c), Min(places) = 1)]
        /\ UNCHANGED sets

Build == /\ phase = "build"
         /\ ~doc.fault
         /\ Unused
         /\ NewScalar \/ SetScalar \/ NewContainer \/ AppendTo \/ ArrayPop \/ DictPop

----------------------------------------------------------------------------

\* What is left of a scalar by json_dumps and json_loads: an integer is read
\* as unsigned unless it is negative, a double is rounded to three decimals,
\* and zero has no sign
Rounded(value) ==
    IF value.tag = "f64" /\ Last(value.text) \in {"zero", "tiny"} THEN <<"zero">>
    ELSE IF value.tag = "f64" /\ Last(value.text) = "carry"
    THEN Front(value.text) \o <<"plain">>
    ELSE value.text

\* A double that json_write_f64 writes as a word: infinite, not a number, or
\* more than 64 bits hold
IsWord(value) == value.tag = "f64" /\ Last(value.text) \in {"huge", "inf", "nan"}

\* What a value stands for: its tag, its text, what is in it, and whether a
\* word is
TreeOf(v) ==
    LET from[u \in Addresses] ==
            LET value == doc.values[u]
                walk  == IF u \in Lists THEN Walk(doc, u) ELSE <<>>
            IN  [tag  |-> IF value.tag = "i64" /\ value.text = <<>> THEN "u64"
                          ELSE value.tag,
                 text |-> Rounded(value),
                 word |-> \/ IsWord(value)
                          \/ \E j \in DOMAIN walk : from[doc.elems[walk[j]].value].word,
                 kids |-> [j \in DOMAIN walk |->
                              <<doc.elems[walk[j]].key, from[doc.elems[walk[j]].value]>>]]
    IN  from[v]

\* json_loads of a text the caller has
Load == /\ phase = "build"
        /\ doc = json_new
        /\ \E t \in Plan.texts : json_parse(t)
        /\ phase' = "load"
        /\ UNCHANGED <<w, caller, content, sets, tree>>

\* The lists the parser fills, for `content'
ParserLists ==
    IF Len(doc'.infos) < Len(content) THEN <<>>
    ELSE IF Len(doc'.infos) > Len(content) THEN Append(content, NewList)
    ELSE IF Len(doc'.elems) > Len(doc.elems) THEN Appended(Top.c, Top.key, p.ret)
    ELSE content

Parse == /\ phase \in {"load", "reload"}
         /\ ParserStep
         /\ content' = ParserLists
         /\ UNCHANGED <<w, caller, sets, phase, tree>>

\* json_dumps of a document that has a root: one the caller gives it, or the
\* parsed one
Dump == /\ \/ phase = "build" /\ \E v \in Addresses : doc' = json_set_root(doc, v)
           \/ phase = "load" /\ p.mode = "done" /\ UNCHANGED doc
        /\ ~doc.fault
        /\ tree' = TreeOf(doc'.root)
        /\ \E n \in Plan.indents : json_write(doc'.root, n)
        /\ phase' = "dump"
        /\ UNCHANGED <<p, caller, content, sets>>

Write == /\ phase = "dump"
         /\ WriterStep
         /\ UNCHANGED <<doc, p, caller, content, sets, phase, tree>>

\* json_loads of what was written, after json_free of the document
Reload == /\ phase = "dump"
          /\ w.mode = "done"
          /\ json_parse(w.str)
          /\ w' = [w EXCEPT !.mode = "idle"]
          /\ content' = <<>>
          /\ phase' = "reload"
          /\ UNCHANGED <<caller, sets, tree>>

Next == Build \/ Load \/ Parse \/ Dump \/ Write \/ Reload

Spec == Init /\ [][Next]_vars

----------------------------------------------------------------------------

\* The lists are what the caller, or the parser, has made them, whatever is
\* called, until one of the three calls that spoil a list: following head and
\* next gives the elements appended and not popped, in order, the size in the
\* tags of every value that shows the list is their number, and
\* json_dict_find finds the first of them with the key.  A NULL is only
\* dereferenced for a list so spoilt, and the others are not touched by it
\* (json_array_append, json_dict_append, json_array_pop, json_dict_pop).
ListsExact ==
    /\ doc.fault => \E c \in Lists : content[ListOf(c)].spoilt
    /\ \A c \in Lists :
          LET walk  == Walk(doc, c)
              list  == content[ListOf(c)]
              items == list.items
          IN  \/ list.spoilt
              \/ /\ Len(walk) = Len(items)
                 /\ \A j \in DOMAIN walk :
                       <<doc.elems[walk[j]].key, doc.elems[walk[j]].value>> = items[j]
                 /\ doc.values[c].size = Len(items)
                 /\ c \in Dicts => \A key \in Plan.keys :
                       json_dict_find(doc, c, key) =
                           IF PlacesOf(list, key) = {} THEN Null
                           ELSE items[Min(PlacesOf(list, key))][2]

\* Neither json_parse_string nor the writer passes the end of what it has
\* allocated: the decoded string is no longer than the characters counted,
\* and no piece of the text passes the capacity, although room is counted before and
\* separately from what is written (json_write_str).
BuffersFit ==
    /\ p.spare >= 0
    /\ w.fits

\* json_loads returns a document exactly for the texts of the grammar: it
\* neither stops early nor wants more, whatever the nesting.
AcceptsJson ==
    /\ p.mode = "done" => IsJson(p.str)
    /\ p.mode = "fail" => ~IsJson(p.str)

\* What json_dumps writes, json_loads reads unless a double is written as a
\* word (fmt_f64), and it reads the same document up to the decimals of a
\* double: the types, signs, strings with their escapes, keys, order and
\* nesting, whether the document was built or parsed, and however it is
\* indented.
RoundTrip ==
    phase = "reload" =>
        /\ p.mode = "fail" => tree.word
        /\ p.mode = "done" => ~tree.word /\ TreeOf(doc.root) = tree

\* What the writer still has to do: for each value two for a container (its
\* brackets) or one, and one for each element, none of which is met twice
WorkOf(v) ==
    LET from[u \in Addresses] ==
            IF u \in Lists
            THEN 2 + MapThenSumSet(LAMBDA j : 1 + from[doc.elems[Walk(doc, u)[j]].value],
                                   DOMAIN Walk(doc, u))
            ELSE 1
    IN  from[v]

WorkLeft ==
    LET item(k) == w.todo[k]
        ahead(k) == {j \in DOMAIN Walk(doc, item(k).c) :
                        item(k).current = Null
                        \/ \E i \in 1..(j - 1) : Walk(doc, item(k).c)[i] = item(k).current}
        work(k) == IF item(k).do = "value" THEN WorkOf(item(k).v)
                   ELSE 1 + MapThenSumSet(
                                LAMBDA j : 1 + WorkOf(doc.elems[Walk(doc, item(k).c)[j]].value),
                                ahead(k))
    IN  MapThenSumSet(work, DOMAIN w.todo)

\* json_loads and json_dumps come to an end: every step of the parser consumes
\* a character or returns, although calls are nested, and every step of the
\* writer leaves it less to write, although values are shared.
CallsAdvance ==
    [][/\ p.mode \in {"value", "key", "return"} =>
             p'.pos > p.pos \/ p'.mode \in {"done", "fail"}
       /\ w.mode = "write" => WorkLeft' < WorkLeft \/ w'.mode \in {"done", "fail"}]_vars

============================================================================

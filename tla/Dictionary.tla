----------------------------- MODULE Dictionary -----------------------------
(***************************************************************************)
(* What hashmap.h offers, without buckets: at most one value per key, an   *)
(* insertion that keeps the value of a key that is already there, an       *)
(* update that replaces it, a removal, and a lookup that answers with the  *)
(* last value or with NULL.  One call is in progress at a time; each takes *)
(* effect once, on the key and the value it was called with, and nothing   *)
(* else changes the map.                                                   *)
(***************************************************************************)
CONSTANTS Keys, NoKey, Values, Null

VARIABLES
    map,       \* the value of each key, Null for a key that is not in the map
    out,       \* the answer of the last lookup
    op,        \* the call in progress; "none" without a map, "idle" between calls
    arg, new   \* the key and the value with which it has still to take effect

dictionary == <<map, out, op, arg, new>>

DictionaryInit ==
    /\ map = [k \in Keys |-> Null]
    /\ out = Null
    /\ op = "none" /\ arg = NoKey /\ new = Null

Ask(call, k, v) == op = "idle" /\ op' = call /\ arg' = k /\ new' = v
Return == op' = "idle" /\ arg' = NoKey /\ new' = Null

New == op = "none" /\ Return /\ UNCHANGED <<map, out>>

Free ==
    /\ op = "idle" /\ op' = "none"
    /\ map' = [k \in Keys |-> Null]
    /\ UNCHANGED <<out, arg, new>>

\* An insertion takes effect at once; until it returns, however it moves the
\* buckets, the map is what it then was.
Insert(k, v) ==
    /\ Ask("insert", NoKey, Null)
    /\ map' = IF map[k] = Null THEN [map EXCEPT ![k] = v] ELSE map
    /\ UNCHANGED out

InsertReturn == op = "insert" /\ Return /\ UNCHANGED <<map, out>>

Update(k, v) == map[k] # Null /\ Ask("update", k, v) /\ UNCHANGED <<map, out>>

UpdateReturn ==
    /\ op = "update"
    /\ map' = [map EXCEPT ![arg] = new]
    /\ Return
    /\ UNCHANGED out

Get(k) == Ask("get", k, Null) /\ UNCHANGED <<map, out>>

GetReturn == op = "get" /\ out' = map[arg] /\ Return /\ UNCHANGED map

\* A removal takes its key out before it returns.
Remove(k) == Ask("remove", k, Null) /\ UNCHANGED <<map, out>>

Delete ==
    /\ op = "remove" /\ map[arg] # Null
    /\ map' = [map EXCEPT ![arg] = Null]
    /\ op' = "removed"
    /\ UNCHANGED <<out, arg, new>>

RemoveReturn ==
    /\ op = "removed" \/ (op = "remove" /\ map[arg] = Null)
    /\ Return
    /\ UNCHANGED <<map, out>>

Iterate == Ask("iterate", NoKey, Null) /\ UNCHANGED <<map, out>>
IterateReturn == op = "iterate" /\ Return /\ UNCHANGED <<map, out>>

DictionaryNext ==
    \/ New \/ Free \/ Iterate \/ IterateReturn
    \/ \E k \in Keys, v \in Values : Insert(k, v) \/ Update(k, v)
    \/ \E k \in Keys : Get(k) \/ Remove(k)
    \/ InsertReturn \/ UpdateReturn \/ GetReturn \/ Delete \/ RemoveReturn

DictionarySpec == DictionaryInit /\ [][DictionaryNext]_dictionary

=============================================================================

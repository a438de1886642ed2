------------------------------- MODULE MCJson -----------------------------
(***************************************************************************)
(* Texts and values for the model checker: every short text over the       *)
(* structural characters, every short number and string, and every text    *)
(* that is one character away from a larger document.                      *)
(***************************************************************************)
EXTENDS Json

Over(chars, n) == UNION {[1..k -> chars] : k \in 0..n}

Edits(t, chars) ==
    UNION {{RemoveAt(t, i)} \cup {ReplaceAt(t, i, c) : c \in chars}
              \cup {InsertAt(t, i, c) : c \in chars} : i \in DOMAIN t}

Structure == {"[", "]", "{", "}", ",", ":", " ", Quote, "1"}

\* {"a": [1, {}, -1.1], "": null}
Sample == <<"{", Quote, "a", Quote, ":", "[", "1", ",", "{", "}", " ", ",", "-", "1", ".", "1",
            "]", ",", Quote, Quote, ":", "null", "}">>

MCTexts ==
    Over(Structure, 4)
    \cup Over({"-", "0", "1", ".", "e", "+"}, 4)
    \cup {n \o <<"e">> \o sign \o [k \in 1..digits |-> "1"] :
             n \in {<<"0">>, <<"-", "1">>, <<"0", ".", "1">>}, sign \in {<<>>, <<"+">>, <<"-">>},
             digits \in 1..4}
    \cup {<<Quote>> \o t : t \in Over({Quote, Backslash, "u"}, 7)
                                 \cup Over({Quote, Backslash, "n", Newline}, 4)}
    \cup {<<"true">>, <<"false">>, <<"t">>, <<" ", Newline, "null", Newline>>}
    \cup Edits(Sample, Structure)

\* Loads and dumps, and lists of up to four elements
WritingCaller ==
    [texts |-> MCTexts, scalars |-> {<<"i64", <<>>>>, <<"f64", <<"carry">>>>},
     keys |-> {<<"a">>, <<Backslash, "'", Newline>>}, indents |-> {0, 1},
     values |-> 2, lists |-> 2, elems |-> 4, sets |-> 1]

\* Containers in containers, and copies of them
NestingCaller ==
    [texts |-> {}, scalars |-> {<<"i64", <<>>>>}, keys |-> {<<"a">>}, indents |-> {},
     values |-> 4, lists |-> 2, elems |-> 3, sets |-> 0]

MCPlans == [writing |-> WritingCaller, nesting |-> NestingCaller]

============================================================================

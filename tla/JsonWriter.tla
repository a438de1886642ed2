---------------------------- MODULE JsonWriter ----------------------------
(***************************************************************************)
(* json_write.  The recursion of json_write_value, json_write_array and    *)
(* json_write_dict is the sequence `todo' of what is still to be written:  *)
(* a value, or the rest of a container from an iterator's position.  A     *)
(* step writes what precedes the next recursive call, in pieces for each   *)
(* of which room is reserved first; a reservation may fail.                *)
(***************************************************************************)
EXTENDS JsonParser

CONSTANT Capacity       \* the buffer's first capacity (4096 in json_write)

ASSUME CapacityAssumption == Capacity \in Nat \ {0}

VARIABLE w              \* the JsonWriter, and where in the recursion it is

\* Mutant: the total may fill the capacity
json_write_realloc_full(cap, total) ==
    LET grown[c \in Nat] == IF total <= c THEN c ELSE grown[2 * c]
    IN  grown[cap]

\* json_write_realloc: the capacity is doubled until the total is below it
json_write_realloc(cap, total) ==
    LET grown[c \in Nat] == IF total < c THEN c ELSE grown[2 * c]
    IN  grown[cap]

(***************************************************************************)
(* One json_write_char, json_write_literal, json_write_str...: the         *)
(* characters str_sz moves over, the number it has reserved, and the       *)
(* number it has put into the buffer.                                      *)
(***************************************************************************)
Piece(chars, need, put) == [chars |-> chars, need |-> need, put |-> put]

Chars(chars) == Piece(chars, Len(chars), Len(chars))

\* json_char_is_escaped and json_escaped_to_char; a vertical tab is written
\* with an escape that the parser does not know
Escapes == (Quote :> Quote) @@ (Backslash :> Backslash) @@ (Newline :> "n") @@ ("VT" :> "v")

json_char_is_escaped(c) == c \in DOMAIN Escapes \cup {"'"}

\* Mutant: a backslash is written as it is
EscapedButBackslash(c) ==
    IF c \in DOMAIN Escapes \ {Backslash} THEN <<Backslash, Escapes[c]>> ELSE <<c>>

Escaped(c) == IF c \in DOMAIN Escapes THEN <<Backslash, Escapes[c]>> ELSE <<c>>

\* json_write_str: three characters are counted for an escaped one
json_write_str(text) ==
    LET escaped == {i \in DOMAIN text : json_char_is_escaped(text[i])}
        counted == Len(text) + 2 * Cardinality(escaped)
        written == FlattenSeq([i \in DOMAIN text |-> Escaped(text[i])])
    IN  Piece(<<Quote>> \o written \o <<Quote>>, counted + 2, Len(written) + 2)

(***************************************************************************)
(* fmt_f64 with three decimals: all that it puts into the buffer.  0.0     *)
(* compares equal to -0.0, so it has a sign; a "carry" is a number whose   *)
(* decimals round up to a further digit (9.9996); "ovf", "inf" and "nan"   *)
(* count as one character.                                                 *)
(***************************************************************************)
fmt_f64(sign, magnitude) ==
    CASE magnitude = "plain" -> sign \o <<"1", ".", "1", "1", "1">>
      [] magnitude = "carry" -> sign \o <<"1", "0", ".", "0", "0", "0">>
      [] magnitude = "tiny"  -> sign \o <<"0", ".", "0", "0", "0">>
      [] magnitude = "zero"  -> <<"-", "0", ".", "0", "0", "0">>
      [] magnitude = "huge"  -> sign \o <<"ovf">>
      [] magnitude = "inf"   -> sign \o <<"inf">>
      [] magnitude = "nan"   -> <<"nan">>

\* fmt_size_f64 with three decimals: for a word one more than the word, or
\* as many as the number would have (one more also stands for these)
fmt_size_f64(sign, magnitude) ==
    CASE magnitude \in {"plain", "carry", "tiny"} -> Len(sign) + 5
      [] magnitude = "zero"                      -> 5
      [] magnitude \in {"huge", "inf"}           -> Len(sign) + 2
      [] magnitude = "nan"                       -> 2

\* What the buffer held before at a place that str_sz moves over
Stray == "?"

(***************************************************************************)
(* json_write_u64, json_write_i64: the sign and the digits.                *)
(* json_write_f64: str_sz moves on by fmt_size_f64, whatever fmt_f64 has   *)
(* put there.                                                              *)
(***************************************************************************)
json_write_number(value) ==
    LET sign      == IF "-" \in Range(value.text) THEN <<"-">> ELSE <<>>
        magnitude == Last(value.text)
        written   == fmt_f64(sign, magnitude)
        size      == fmt_size_f64(sign, magnitude)
    IN  IF value.tag = "f64"
        THEN Piece([k \in 1..size |-> IF k \in DOMAIN written THEN written[k] ELSE Stray],
                   size, Len(written))
        ELSE Chars(value.text \o <<"1">>)

\* json_write_value of a scalar
ScalarPiece(value) ==
    CASE value.tag \in {"null", "bool"}       -> Chars(value.text)
      [] value.tag \in {"u64", "i64", "f64"}  -> json_write_number(value)
      [] value.tag = "str"                    -> json_write_str(value.text)

----------------------------------------------------------------------------

Resting == [mode |-> "idle", str |-> <<>>, str_capacity |-> 0, indent_size |-> 0,
            indent |-> 0, todo |-> <<>>, fits |-> TRUE]

(***************************************************************************)
(* The pieces are written one after the other, each with its reservation,  *)
(* and todo is replaced; or a realloc fails and json_write returns NULL.   *)
(* `fits' is a history: no piece has passed the end of the buffer.         *)
(***************************************************************************)
WritePieces(pieces, indent, todo) ==
    LET upto(k)  == w.str \o FlattenSeq([j \in 1..k |-> pieces[j].chars])
        total(k) == Len(upto(k - 1)) + pieces[k].need
        cap(k)   == json_write_realloc(w.str_capacity,
                                       Max({Len(w.str)} \cup {total(j) : j \in 1..k}))
        last     == Len(pieces)
    IN  \/ w' = [w EXCEPT !.str = upto(last), !.str_capacity = cap(last),
                          !.fits = \A k \in 1..last :
                                     Len(upto(k - 1)) + pieces[k].put <= cap(k),
                          !.indent = indent, !.todo = todo]
        \/ /\ cap(last) # w.str_capacity
           /\ w' = [Resting EXCEPT !.mode = "fail"]

\* A new line of pretty printing: json_write_char and json_write_indent
NewLine(indent) == IF w.indent_size = 0 THEN <<>>
                   ELSE <<Chars(<<Newline>>), Chars([k \in 1..indent |-> " "])>>

Writing(kind) == w.mode = "write" /\ w.todo # <<>> /\ Head(w.todo).do = kind

Brackets == [tag \in Containers |-> IF tag = "array" THEN <<"[">> ELSE <<"{">>]

\* json_write_value; of a container: json_write_array, json_write_dict up to
\* their loops
json_write_value ==
    LET v     == Head(w.todo).v
        value == doc.values[v]
        rest  == [do |-> "rest", c |-> v, current |-> Null]
    IN  /\ Writing("value")
        /\ IF value.tag \in Containers
           THEN WritePieces(<<Chars(Brackets[value.tag])>>, w.indent + w.indent_size,
                            <<rest>> \o Tail(w.todo))
           ELSE WritePieces(<<ScalarPiece(value)>>, w.indent, Tail(w.todo))

\* A turn of the loop of json_write_array or json_write_dict, up to the value
WriteElement ==
    LET item == Head(w.todo)
        e    == GetNext(doc, item.c, item.current)
        elem == doc.elems[e]
        tag  == doc.values[item.c].tag
        todo == <<[do |-> "value", v |-> elem.value], [item EXCEPT !.current = e]>>
    IN  /\ Writing("rest")
        /\ e # Null
        /\ WritePieces((IF item.current = Null THEN <<>> ELSE <<Chars(<<",">>)>>)
                        \o NewLine(w.indent)
                        \o (IF tag = "array" THEN <<>>
                            ELSE <<json_write_str(elem.key), Chars(<<":">>), Chars(<<" ">>)>>),
                       w.indent, todo \o Tail(w.todo))

\* json_write_array and json_write_dict after their loops
WriteClose ==
    LET item == Head(w.todo)
        back == w.indent - w.indent_size
    IN  /\ Writing("rest")
        /\ GetNext(doc, item.c, item.current) = Null
        /\ WritePieces(NewLine(back) \o <<Chars(<<Closing[doc.values[item.c].tag]>>)>>,
                       back, Tail(w.todo))

\* json_write after its json_write_value
WriteEnd == /\ w.mode = "write"
            /\ w.todo = <<>>
            /\ w' = [w EXCEPT !.mode = "done"]

\* json_write before it; its calloc may fail
json_write(root, indent_size) ==
    \/ w' = [Resting EXCEPT !.mode = "write", !.str_capacity = Capacity,
                            !.indent_size = indent_size,
                            !.todo = <<[do |-> "value", v |-> root]>>]
    \/ w' = [Resting EXCEPT !.mode = "fail"]

WriterStep == json_write_value \/ WriteElement \/ WriteClose \/ WriteEnd

============================================================================

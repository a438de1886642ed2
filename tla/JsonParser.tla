---------------------------- MODULE JsonParser ----------------------------
(***************************************************************************)
(* json_parse: the recursive descent of json.c as a machine.  A text is a  *)
(* sequence of characters; a literal word (null, true, false) counts as    *)
(* one character.  The recursion of json_parse_value, json_parse_array and *)
(* parse_dict is a stack of the containers being filled; a step is one     *)
(* value read, one key read, or one value handed to its container.         *)
(***************************************************************************)
EXTENDS Integers, JsonDocument, JsonGrammar

VARIABLE p      \* the JsonParser, and where in the recursion it is

End == ""

\* p->str[p->pos], or End when pos >= len
At(t, i) == IF i \in DOMAIN t THEN t[i] ELSE End

\* json_skip_whitespace
json_skip_whitespace(t, i) ==
    Min({k \in i..(Len(t) + 1) : At(t, k) \notin Space})

DigitsEnd(t, i) == Min({k \in i..(Len(t) + 1) : At(t, k) \notin Digits})

(***************************************************************************)
(* json_parse_string, first loop: where the closing quote is (0: the text  *)
(* is refused), how many characters are counted, and whether one of them   *)
(* was escaped.  An escape counts one character; \u skips four more.       *)
(***************************************************************************)
Refused == [end |-> 0, len |-> 0, has_escape |-> FALSE]

Counted(r, escaped) == [r EXCEPT !.len = @ + 1, !.has_escape = @ \/ escaped]

ScanString(t, start) ==
    LET scan[i \in 1..(Len(t) + 6)] ==
            CASE At(t, i) = End        -> Refused
              [] At(t, i) = Quote      -> [Refused EXCEPT !.end = i]
              [] At(t, i) = Newline    -> Refused
              [] At(t, i) = Backslash  ->
                     IF At(t, i + 1) = "u"
                     THEN Counted(scan[i + 6], TRUE)
                     ELSE Counted(scan[i + 2], TRUE)
              [] OTHER                 -> Counted(scan[i + 1], FALSE)
    IN  scan[start]

\* json_parse_string, second loop: what str[j++] receives for an escape
Unescape(c) == CASE c \in {Quote, Backslash, "/"} -> <<c>>
                 [] c = "n"   -> <<Newline>>
                 [] c = "u"   -> <<"?">>
                 [] OTHER     -> <<>>

DecodeString(t, start, end) ==
    LET from[i \in start..(end + 6)] ==
            IF i >= end THEN <<>>
            ELSE IF t[i] = Backslash
            THEN Unescape(t[i + 1]) \o from[i + (IF t[i + 1] = "u" THEN 6 ELSE 2)]
            ELSE <<t[i]>> \o from[i + 1]
    IN  from[start]

\* The string that starts at t[i], its allocation and its characters
json_parse_string(t, i) ==
    LET scan == ScanString(t, i + 1)
        text == IF scan.has_escape
                THEN DecodeString(t, i + 1, scan.end)
                ELSE SubSeq(t, i + 1, i + scan.len)
    IN  IF At(t, i) # Quote \/ scan.end = 0
        THEN [ok |-> FALSE]
        ELSE [ok |-> TRUE, tag |-> "str", end |-> scan.end + 1,
              text |-> text, room |-> scan.len]

\* The number that digits t[i] ... t[j - 1] denote
Decimal(t, i, j) ==
    LET upto[k \in i..j] == IF k = i THEN 0
                            ELSE 10 * upto[k - 1] + (IF t[k - 1] = "1" THEN 1 ELSE 0)
    IN  upto[j]

(***************************************************************************)
(* The magnitude of the double that t[whole] ... t[exp - 1] and a power of *)
(* ten make: what json_write_f64 tells apart.  10^power is 0 below -323    *)
(* and infinite above 308; `order' is the place of the first digit that is *)
(* not 0.  Above 10^19 a number does not fit in 64 bits.                   *)
(***************************************************************************)
Magnitude(t, whole, dot, exp, power) ==
    LET ones  == {k \in whole..(exp - 1) : t[k] = "1"}
        first == Min(ones)
        order == power + (IF first < dot THEN dot - 1 - first ELSE dot - first)
    IN  IF ones = {} THEN (IF power > 308 THEN "nan" ELSE "zero")
        ELSE IF power < -323 \/ order < -323 THEN "zero"
        ELSE IF power > 308 \/ order > 308 THEN "inf"
        ELSE IF order > 19 THEN "huge"
        ELSE IF order < -3 THEN "tiny"
        ELSE "plain"

(***************************************************************************)
(* json_parse_number.  The sign, the type and the magnitude of a double    *)
(* are kept; -0 is the integer 0.                                          *)
(***************************************************************************)
json_parse_number(t, i) ==
    LET negative == At(t, i) = "-"
        whole    == IF negative THEN i + 1 ELSE i
        dot      == DigitsEnd(t, whole)
        fraction == At(t, dot) = "."
        exp      == IF fraction THEN DigitsEnd(t, dot + 1) ELSE dot
        power    == At(t, exp) = "e"
        digits   == IF At(t, exp + 1) \in {"-", "+"} THEN exp + 2 ELSE exp + 1
        end      == IF power THEN DigitsEnd(t, digits) ELSE exp
        value    == IF power THEN Decimal(t, digits, end) ELSE 0
        exponent == IF At(t, exp + 1) = "-" THEN 0 - value ELSE value
        double   == fraction \/ power
        below    == negative /\ (double \/ \E k \in whole..(dot - 1) : t[k] # "0")
    IN  IF \/ dot = whole
           \/ fraction /\ exp = dot + 1
           \/ power /\ end = digits
        THEN [ok |-> FALSE]
        ELSE [ok |-> TRUE, end |-> end, room |-> 2,
              text |-> (IF below THEN <<"-">> ELSE <<>>)
                       \o (IF double THEN <<Magnitude(t, whole, dot, exp, exponent)>>
                           ELSE <<>>),
              tag |-> IF double THEN "f64"
                      ELSE IF negative THEN "i64" ELSE "u64"]

\* json_parse_literal: only a whole word is read
json_parse_literal(t, i) ==
    IF At(t, i) \notin Words
    THEN [ok |-> FALSE]
    ELSE [ok |-> TRUE, end |-> i + 1, room |-> 1, text |-> <<t[i]>>,
          tag |-> IF t[i] = "null" THEN "null" ELSE "bool"]

\* The scalars json_parse_value dispatches to; any other character is refused
ParseScalar(t, i) ==
    CASE At(t, i) = Quote       -> json_parse_string(t, i)
      [] At(t, i) \in {"-"} \cup Digits -> json_parse_number(t, i)
      [] OTHER                  -> json_parse_literal(t, i)

----------------------------------------------------------------------------

\* No parser is running
Idle == [mode |-> "idle", str |-> <<>>, pos |-> 0, stack |-> <<>>,
         ret |-> Null, spare |-> 0]

Top == Last(p.stack)

Opening == [c \in {"[", "{"} |-> IF c = "[" THEN "array" ELSE "dict"]

Closing == [tag \in Containers |-> IF tag = "array" THEN "]" ELSE "}"]

\* What a turn of the container's loop begins with
Awaits == [tag \in Containers |-> IF tag = "array" THEN "value" ELSE "key"]

\* Some function returned NULL: so do its callers, and json_parse frees the
\* document
Fail == /\ doc' = json_new
        /\ p' = [p EXCEPT !.mode = "fail", !.stack = <<>>, !.ret = Null]

\* The scalar s is the value returned
ReturnScalar(s) ==
    /\ doc' = json_scalar_new(doc, s.tag, s.text)
    /\ p' = [p EXCEPT !.mode = "return", !.pos = s.end, !.ret = Len(doc.values) + 1,
                      !.spare = s.room - Len(s.text)]

\* The opening bracket at i: an empty container is returned at once, otherwise
\* its loop is entered unless the text ends
OpenContainer(i) ==
    LET tag  == Opening[At(p.str, i)]
        c    == Len(doc.values) + 1
        next == json_skip_whitespace(p.str, i + 1)
        char == At(p.str, next)
    IN  IF char = End
        THEN Fail
        ELSE /\ doc' = ContainerNew(doc, tag)
             /\ p' = IF char = Closing[tag]
                     THEN [p EXCEPT !.mode = "return", !.pos = next + 1, !.ret = c]
                     ELSE [p EXCEPT !.mode = Awaits[tag], !.pos = next,
                                    !.stack = Append(@, [c |-> c, key |-> <<>>])]

\* json_parse_value
json_parse_value ==
    LET i == json_skip_whitespace(p.str, p.pos)
        s == ParseScalar(p.str, i)
    IN  /\ p.mode = "value"
        /\ IF At(p.str, i) \in DOMAIN Opening
           THEN OpenContainer(i)
           ELSE IF s.ok THEN ReturnScalar(s) ELSE Fail

\* parse_dict up to its call of json_parse_value: the key, also a value of the
\* arena, and the colon
parse_key ==
    LET i     == json_skip_whitespace(p.str, p.pos)
        s     == json_parse_string(p.str, i)
        colon == json_skip_whitespace(p.str, s.end)
    IN  /\ p.mode = "key"
        /\ IF s.ok /\ At(p.str, colon) = ":"
           THEN /\ doc' = json_scalar_new(doc, "str", s.text)
                /\ p' = [p EXCEPT !.mode = "value",
                                  !.pos = json_skip_whitespace(p.str, colon + 1),
                                  !.stack[Len(p.stack)].key = s.text,
                                  !.spare = s.room - Len(s.text)]
           ELSE Fail

\* The loops of json_parse_array and parse_dict after a value: it is appended,
\* and a comma goes on unless the text ends, a bracket returns the container
parse_rest ==
    LET c    == Top.c
        tag  == doc.values[c].tag
        i    == json_skip_whitespace(p.str, p.pos)
        next == json_skip_whitespace(p.str, i + 1)
        char == At(p.str, i)
    IN  /\ p.mode = "return"
        /\ p.stack # <<>>
        /\ IF char = Closing[tag] \/ (char = "," /\ At(p.str, next) # End)
           THEN /\ doc' = ContainerAppend(doc, c, Top.key, p.ret, TRUE)
                /\ p' = IF char = ","
                        THEN [p EXCEPT !.mode = Awaits[tag], !.pos = next]
                        ELSE [p EXCEPT !.pos = i + 1, !.ret = c,
                                       !.stack = Front(@)]
           ELSE Fail

\* Mutant: what follows the value is not looked at
parse_end_early ==
    /\ p.mode = "return"
    /\ p.stack = <<>>
    /\ doc' = json_set_root(doc, p.ret)
    /\ p' = [p EXCEPT !.mode = "done"]

\* json_parse once its json_parse_value has returned: nothing may follow
parse_end ==
    /\ p.mode = "return"
    /\ p.stack = <<>>
    /\ IF json_skip_whitespace(p.str, p.pos) > Len(p.str)
       THEN /\ doc' = json_set_root(doc, p.ret)
            /\ p' = [p EXCEPT !.mode = "done"]
       ELSE Fail

\* json_parse up to its call of json_parse_value; an empty text is refused
json_parse(t) ==
    /\ doc' = json_new
    /\ p' = [Idle EXCEPT !.mode = IF t = <<>> THEN "fail" ELSE "value",
                         !.str = t, !.pos = 1]

ParserStep == json_parse_value \/ parse_key \/ parse_rest \/ parse_end

============================================================================

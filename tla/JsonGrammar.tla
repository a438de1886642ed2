---------------------------- MODULE JsonGrammar ---------------------------
(***************************************************************************)
(* The characters of a JSON text, and the texts json_parse is meant to     *)
(* accept: the JSON grammar, read leniently where json.c is lenient (any   *)
(* character may be escaped, \u takes any four characters, a number may    *)
(* begin with zeros).  Defined by splitting a text in every possible way,  *)
(* independently of the parser.  A literal word (null, true, false) counts *)
(* as one character, "0" and "1" are the digits, a newline stands also for *)
(* the other control characters that a string must not contain.            *)
(***************************************************************************)
EXTENDS Naturals, Sequences

Quote     == "\""
Backslash == "\\"
Newline   == "\n"
Space     == {" ", Newline}
Words     == {"null", "true", "false"}
Digits    == {"0", "1"}

\* t[i] ... t[j], an interval of a text
IsDigits(t, i, j) == i <= j /\ \A k \in i..j : t[k] \in Digits

IsFraction(t, i, j) == i > j \/ (t[i] = "." /\ IsDigits(t, i + 1, j))

IsExponent(t, i, j) ==
    \/ i > j
    \/ /\ t[i] = "e"
       /\ \/ IsDigits(t, i + 1, j)
          \/ i < j /\ t[i + 1] \in {"+", "-"} /\ IsDigits(t, i + 2, j)

IsUnsigned(t, i, j) ==
    \E d \in i..j : \E f \in d..j :
        IsDigits(t, i, d) /\ IsFraction(t, d + 1, f) /\ IsExponent(t, f + 1, j)

IsNumber(t, i, j) ==
    IsUnsigned(t, i, j) \/ (t[i] = "-" /\ IsUnsigned(t, i + 1, j))

\* Between two quotes: plain characters, escapes of two characters, and of six
IsString(t, i, j) ==
    LET rest[k \in i..(j + 6)] ==
            \/ k = j
            \/ k < j /\ t[k] \notin {Quote, Backslash, Newline} /\ rest[k + 1]
            \/ k + 1 < j /\ t[k] = Backslash /\ t[k + 1] # "u" /\ rest[k + 2]
            \/ k + 5 < j /\ t[k] = Backslash /\ t[k + 1] = "u" /\ rest[k + 6]
    IN  i < j /\ t[i] = Quote /\ t[j] = Quote /\ rest[i + 1]

(***************************************************************************)
(* A value, the elements of an array, the members of a dict, or one member.*)
(* White space may surround each, and each key.                            *)
(***************************************************************************)
IsJson(t) ==
    LET last == Len(t)
        is[what \in {"value", "key", "elements", "members", "member"},
           i \in 1..(last + 1), j \in 0..last] ==
            IF i > j THEN FALSE
            ELSE IF what = "elements"
            THEN \/ is["value", i, j]
                 \/ \E k \in i..j : /\ t[k] = ","
                                    /\ is["value", i, k - 1]
                                    /\ is["elements", k + 1, j]
            ELSE IF what = "members"
            THEN \/ is["member", i, j]
                 \/ \E k \in i..j : /\ t[k] = ","
                                    /\ is["member", i, k - 1]
                                    /\ is["members", k + 1, j]
            ELSE IF what = "member"
            THEN \E k \in i..j : /\ t[k] = ":"
                                 /\ is["key", i, k - 1]
                                 /\ is["value", k + 1, j]
            ELSE IF t[i] \in Space THEN is[what, i + 1, j]
            ELSE IF t[j] \in Space THEN is[what, i, j - 1]
            ELSE IF what = "key" THEN IsString(t, i, j)
            ELSE \/ i = j /\ t[i] \in Words
                 \/ IsNumber(t, i, j)
                 \/ IsString(t, i, j)
                 \/ /\ t[i] = "[" /\ t[j] = "]"
                    /\ \/ \A k \in (i + 1)..(j - 1) : t[k] \in Space
                       \/ is["elements", i + 1, j - 1]
                 \/ /\ t[i] = "{" /\ t[j] = "}"
                    /\ \/ \A k \in (i + 1)..(j - 1) : t[k] \in Space
                       \/ is["members", i + 1, j - 1]
    IN  is["value", 1, last]

============================================================================

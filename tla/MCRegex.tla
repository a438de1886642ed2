------------------------------ MODULE MCRegex ------------------------------
(***************************************************************************)
(* Regex for TLC: the patterns and strings.                                *)
(***************************************************************************)
EXTENDS Regex

Atoms == {<<ch.a>>, <<ch.b>>, <<ch.dot>>, <<ch.lbra, ch.a, ch.dash, ch.b, ch.rbra>>}
Repeats == {<<>>, <<ch.star>>, <<ch.plus>>, <<ch.opt>>}
Chunks == Atoms \cup Repeats \cup {<<ch.bar>>, <<ch.lpar>>, <<ch.rpar>>}
Group(p) == <<ch.lpar>> \o p \o <<ch.rpar>>

\* Every pattern of up to three chunks, and longer ones of quantified items
\* and groups.
MCPatterns ==
    {a \o b \o c : a, b, c \in Chunks}
    \cup {<<ch.a>> \o q \o a \o r : a \in Atoms, q, r \in Repeats}
    \cup {Group(a \o b) \o q \o t : a, b \in Chunks, q \in Repeats, t \in {<<>>, <<ch.b>>}}

MCSubjects == UNION {[1 .. n -> {ch.a, ch.b}] : n \in 0 .. 3}

=============================================================================

------------------------------- MODULE Regex -------------------------------
(***************************************************************************)
(* The regular expressions of src/regex.c: the lexer, the emitter, whose   *)
(* four mutually recursive functions write bytecode, the resolution of the *)
(* jumps to the final Fail, and the virtual machine that regex_match runs. *)
(*                                                                         *)
(* Characters and bytecode are bytes, because the machine can be sent into *)
(* the middle of an instruction and then takes operands for opcodes.  A    *)
(* position is the C index plus one.                                       *)
(***************************************************************************)
EXTENDS Integers, Sequences, FiniteSets, TLC

CONSTANTS
    Patterns,   \* the patterns that are compiled, sequences of characters
    Subjects    \* the strings they are matched with

VARIABLES
    regex,      \* the compiled pattern, or the stage of a compilation
    vm          \* the RegexVM of a match in progress

regexVars == <<regex, vm>>

ch == [a |-> 97, b |-> 98, z |-> 122, A |-> 65, Z |-> 90, zero |-> 48,
       nine |-> 57, bar |-> 124, star |-> 42, plus |-> 43, opt |-> 63,
       dot |-> 46, lpar |-> 40, rpar |-> 41, lbra |-> 91, rbra |-> 93,
       dash |-> 45]

IsDigit(c) == c \in 48 .. 57
IsUpper(c) == c \in 65 .. 90
IsLower(c) == c \in 97 .. 122
IsAlnum(c) == IsDigit(c) \/ IsUpper(c) \/ IsLower(c)

(***************************************************************************)
(* Lexing.  needs_concat is set by characters and ranges, cleared by |,    *)
(* and left alone by parentheses and quantifiers.                          *)
(***************************************************************************)

Operators == (ch.bar :> "alternate") @@ (ch.star :> "zero or more")
             @@ (ch.plus :> "one or more") @@ (ch.opt :> "zero or one")

Token(type, data) == [type |-> type, data |-> data]

Concatenate == Token("operator", "concatenate")
Invalid == <<Token("invalid", 0)>>

IsInvalid(tokens) == Len(tokens) = 1 /\ tokens[1].type = "invalid"
IsOperator(t, name) == t.type = "operator" /\ t.data = name

RECURSIVE Lex(_, _, _)

\* regex_lex, from what is left of the pattern; Invalid for NULL.
Lex(rest, tokens, needs_concat) ==
    LET c == Head(rest)
        sep == IF needs_concat THEN <<Concatenate>> ELSE <<>>
        ends == {i \in 2 .. Len(rest) : rest[i] = ch.rbra}
        end == CHOOSE i \in ends : \A j \in ends : i <= j
        text == Tail(rest) \o <<0>>    \* the token points into the pattern
        Go(n, toks, needs) == Lex(SubSeq(rest, n + 1, Len(rest)),
                                  tokens \o toks, needs)
    IN  CASE rest = <<>> -> tokens
          [] rest # <<>> /\ (IsAlnum(c) \/ c = 95) ->
                Go(1, sep \o <<Token("single", c)>>, TRUE)
          [] rest # <<>> /\ c = ch.dot -> Go(1, sep \o <<Token("any", 0)>>, TRUE)
          [] rest # <<>> /\ c \in DOMAIN Operators ->
                Go(1, <<Token("operator", Operators[c])>>,
                   needs_concat /\ c # ch.bar)
          [] rest # <<>> /\ c = ch.lpar -> Go(1, <<Token("begin", 0)>>, needs_concat)
          [] rest # <<>> /\ c = ch.rpar -> Go(1, <<Token("end", 0)>>, needs_concat)
          [] rest # <<>> /\ c = ch.lbra /\ ends # {} ->
                Go(end, sep \o <<Token("range", <<text[1], text[3]>>)>>, TRUE)
          [] OTHER -> Invalid

(***************************************************************************)
(* Bytecode.  The emitter's state is the token position, the next group,   *)
(* and the code so far; ok is what the C functions return.                 *)
(***************************************************************************)

op == [TestSingle |-> 0, TestRange |-> 1, TestNegatedRange |-> 2,
       TestAny |-> 3, TestDigit |-> 4, TestLowerCase |-> 5,
       TestUpperCase |-> 6, JumpEq |-> 7, JumpNeq |-> 8, Accept |-> 9,
       Fail |-> 10, GroupStart |-> 11, GroupEnd |-> 12, IncPos |-> 13,
       DecPos |-> 14, IncPosEq |-> 15, JumpPos |-> 16, SetFlag |-> 17]

JUMP_FAIL == 2147483647

\* Four bytes, the highest first, in two's complement.
EncodeJump(n) ==
    LET top == IF n < 0 THEN 128 ELSE 0
        m == IF n < 0 THEN (n + JUMP_FAIL) + 1 ELSE n
    IN  <<top + m \div 16777216, (m \div 65536) % 256, (m \div 256) % 256, m % 256>>

DecodeJump(code, i) ==
    (IF code[i] >= 128 THEN code[i] - 256 ELSE code[i]) * 16777216
        + code[i + 1] * 65536 + code[i + 2] * 256 + code[i + 3]

Jump(opcode, n) == <<opcode>> \o EncodeJump(n)

EmitRange(first, last) ==
    (CASE first = ch.zero /\ last = ch.nine -> <<op.TestDigit>>
       [] first = ch.a /\ last = ch.z -> <<op.TestLowerCase>>
       [] first = ch.A /\ last = ch.Z -> <<op.TestUpperCase>>
       [] OTHER -> <<op.TestRange, first, last>>) \o <<op.IncPosEq>>

Emit(st, bytes) == [st EXCEPT !.code = @ \o bytes]
Advance(st) == [st EXCEPT !.pos = @ + 1]
Refuse(st) == [st EXCEPT !.ok = FALSE]
AtEnd(tokens, st) == st.pos > Len(tokens)

RECURSIVE EmitAlternation(_, _)
RECURSIVE AlternationTail(_, _)
RECURSIVE EmitConcatenation(_, _, _)
RECURSIVE EmitPrimary(_, _)

\* Mutant: the flag is set before the jump back.
StarFlagFirst(st, start) ==
    Emit(st, <<op.SetFlag, 1>> \o Jump(op.JumpEq, start - (Len(st.code) + 3)))

\* The quantifiers, once the primary that starts at byte "start" is written.
Star(st, start) ==
    Emit(st, Jump(op.JumpEq, start - (Len(st.code) + 1)) \o <<op.SetFlag, 1>>)

\* Mutant: the way back forgets the SetFlag.
PlusShortWay(st, start) ==
    LET primary == SubSeq(st.code, start, Len(st.code))
    IN  Emit(st, Jump(op.JumpNeq, JUMP_FAIL) \o primary
                 \o Jump(op.JumpNeq, (4 + 2 + 5) - 1) \o <<op.SetFlag, 1>>
                 \o Jump(op.JumpEq, -(5 + Len(primary) + 5)))

Plus(st, start) ==
    LET primary == SubSeq(st.code, start, Len(st.code))
        n == Len(primary)
        \* the exit jump is patched with the distance to the end of its own
        \* block less two, measured from the first byte of its operand
        exit == (4 + 2 + 5) - 1
        back == -(5 + n + 5 + 2)
    IN  Emit(st, Jump(op.JumpNeq, JUMP_FAIL) \o primary
                 \o Jump(op.JumpNeq, exit) \o <<op.SetFlag, 1>>
                 \o Jump(op.JumpEq, back))

EmitQuantified(tokens, st) ==
    LET start == Len(st.code) + 1
        p == EmitPrimary(tokens, st)
        quantifier == IF ~p.ok \/ AtEnd(tokens, p) THEN "none"
                      ELSE IF tokens[p.pos].type = "operator"
                           THEN tokens[p.pos].data ELSE "none"
    IN  CASE quantifier = "zero or more" -> Star(Advance(p), start)
          [] quantifier = "one or more" -> Plus(Advance(p), start)
          [] quantifier = "zero or one" -> Emit(Advance(p), <<op.SetFlag, 1>>)
          [] OTHER -> p

\* The check that would stop at | is commented out in the source: only the
\* end of a group or of the tokens ends a concatenation.
EmitConcatenation(tokens, st, first) ==
    IF ~st.ok \/ AtEnd(tokens, st) THEN st
    ELSE IF tokens[st.pos].type = "end" THEN st
    ELSE LET s == IF first THEN st ELSE Emit(st, Jump(op.JumpNeq, JUMP_FAIL))
         IN  EmitConcatenation(tokens, EmitQuantified(tokens, s), FALSE)

AlternationTail(tokens, st) ==
    IF ~st.ok \/ AtEnd(tokens, st) THEN st
    ELSE IF ~IsOperator(tokens[st.pos], "alternate") THEN st
    ELSE LET jump == Len(st.code) + 1
             rhs == EmitConcatenation(tokens,
                        Emit(Advance(st), Jump(op.JumpEq, 0)), TRUE)
             offset == EncodeJump(Len(rhs.code) - (jump - 1))
             patched == [i \in 1 .. Len(rhs.code) |->
                            IF i \in jump + 1 .. jump + 4 THEN offset[i - jump]
                            ELSE rhs.code[i]]
         IN  IF rhs.ok THEN AlternationTail(tokens, [rhs EXCEPT !.code = patched])
             ELSE rhs

EmitAlternation(tokens, st) ==
    AlternationTail(tokens, EmitConcatenation(tokens, st, TRUE))

EmitPrimary(tokens, st) ==
    LET t == tokens[st.pos]
        next == Advance(st)
        body == EmitAlternation(tokens,
                    [Emit(next, <<op.GroupStart, st.group % 256>>)
                        EXCEPT !.group = @ + 1])
    IN  CASE AtEnd(tokens, st) -> Refuse(st)
          [] ~AtEnd(tokens, st) /\ t.type = "single" ->
                Emit(next, <<op.TestSingle, t.data, op.IncPosEq>>)
          [] ~AtEnd(tokens, st) /\ t.type = "any" ->
                Emit(next, <<op.TestAny, op.IncPosEq>>)
          [] ~AtEnd(tokens, st) /\ t.type = "range" ->
                Emit(next, EmitRange(t.data[1], t.data[2]))
          [] ~AtEnd(tokens, st) /\ t.type = "begin" ->
                IF ~body.ok \/ AtEnd(tokens, body) THEN Refuse(body)
                ELSE IF tokens[body.pos].type # "end" THEN Refuse(body)
                ELSE Advance(Emit(body, <<op.GroupEnd, st.group % 256>>))
          [] ~AtEnd(tokens, st) /\ IsOperator(t, "alternate") ->
                EmitAlternation(tokens, next)
          [] ~AtEnd(tokens, st) /\ IsOperator(t, "concatenate") ->
                EmitConcatenation(tokens, next, TRUE)
          [] OTHER -> Refuse(st)

OpLength(opcode) ==
    CASE opcode \in {op.JumpEq, op.JumpNeq, op.JumpPos} -> 5
      [] opcode \in {op.TestRange, op.TestNegatedRange} -> 3
      [] opcode \in {op.TestSingle, op.SetFlag, op.GroupStart, op.GroupEnd} -> 2
      [] OTHER -> 1

RECURSIVE Resolve(_, _)

\* The second pass of regex_emit: every JUMP_FAIL becomes the distance from
\* the end of its instruction to the last byte, the Fail.
Resolve(code, i) ==
    IF i > Len(code) THEN code
    ELSE IF code[i] \in {op.JumpEq, op.JumpNeq} /\ DecodeJump(code, i + 1) = JUMP_FAIL
    THEN Resolve(SubSeq(code, 1, i) \o EncodeJump(Len(code) - i - 5)
                 \o SubSeq(code, i + 5, Len(code)), i + 5)
    ELSE Resolve(code, i + OpLength(code[i]))

\* regex_emit; <<>> for false.
RegexEmit(tokens) ==
    LET st == EmitAlternation(tokens, [pos |-> 1, group |-> 1, code |-> <<>>, ok |-> TRUE])
    IN  CASE tokens = <<>> -> <<op.Accept>>
          [] tokens # <<>> /\ (~st.ok \/ ~AtEnd(tokens, st)) -> <<>>
          [] OTHER -> Resolve(st.code \o Jump(op.JumpNeq, JUMP_FAIL)
                              \o <<op.Accept, op.Fail>>, 1)

(***************************************************************************)
(* The calls of a program and the steps of the machine.                    *)
(***************************************************************************)

NoRegex == [stage |-> "none", pattern |-> <<>>, code |-> <<>>]
NoMatch == [stage |-> "none", string |-> <<>>, pc |-> 1, sp |-> 1, flag |-> FALSE]

RegexInit == regex = NoRegex /\ vm = NoMatch

\* regex_compile: a pattern that is refused by the lexer or by the emitter
\* leaves no regex behind.
RegexCompile(pattern) ==
    LET tokens == Lex(pattern, <<>>, FALSE)
        code == IF IsInvalid(tokens) THEN <<>> ELSE RegexEmit(tokens)
    IN  /\ regex.stage = "none"
        /\ regex' = [stage |-> IF code = <<>> THEN "refused" ELSE "ready",
                     pattern |-> pattern, code |-> code]
        /\ UNCHANGED vm

RegexMatch(string) ==
    /\ regex.stage = "ready" /\ vm.stage = "none"
    /\ vm' = [NoMatch EXCEPT !.stage = "exec", !.string = string]
    /\ UNCHANGED regex

Result(b) == [vm EXCEPT !.stage = "done", !.flag = b]
Pass(n) == [vm EXCEPT !.pc = @ + n]
Test(n, b) == [vm EXCEPT !.pc = @ + n, !.flag = b]

\* A forward jump counts from the end of the instruction, another one from
\* its opcode.
Jumped(taken) ==
    LET n == DecodeJump(regex.code, vm.pc + 1)
    IN  IF ~taken THEN Pass(5) ELSE IF n > 0 THEN Pass(5 + n) ELSE Pass(n)

\* One turn of the loop of regex_exec.
RegexExec ==
    LET code == regex.code
        opcode == code[vm.pc]
        c == vm.string[vm.sp]
        Arg(i) == code[vm.pc + i]
    IN  /\ vm.stage = "exec"
        /\ UNCHANGED regex
        /\ vm' =
            CASE vm.pc > Len(code) \/ vm.sp > Len(vm.string) -> Result(vm.flag)
              [] OTHER ->
            CASE vm.pc + OpLength(opcode) - 1 > Len(code) ->
                    [vm EXCEPT !.stage = "overrun"]
              [] OTHER ->
            CASE opcode = op.TestSingle -> Test(2, c = Arg(1))
              [] opcode = op.TestRange -> Test(3, c >= Arg(1) /\ c <= Arg(2))
              [] opcode = op.TestNegatedRange -> Test(3, c < Arg(1) /\ c > Arg(2))
              [] opcode = op.TestAny -> Test(1, TRUE)
              [] opcode = op.TestDigit -> Test(1, IsDigit(c))
              [] opcode = op.TestLowerCase -> Test(1, IsLower(c))
              [] opcode = op.TestUpperCase -> Test(1, IsUpper(c))
              [] opcode = op.JumpEq -> Jumped(vm.flag)
              [] opcode = op.JumpNeq -> Jumped(~vm.flag)
              [] opcode = op.Accept -> Result(TRUE)
              [] opcode = op.Fail -> Result(FALSE)
              [] opcode \in {op.GroupStart, op.GroupEnd} -> Pass(2)
              [] opcode = op.IncPos -> [Pass(1) EXCEPT !.sp = @ + 1]
              [] opcode = op.DecPos -> [Pass(1) EXCEPT !.sp = @ - 1]
              [] opcode = op.IncPosEq ->
                    [Pass(1) EXCEPT !.sp = IF vm.flag THEN @ + 1 ELSE @]
              [] opcode = op.JumpPos ->
                    [Pass(5) EXCEPT !.sp = @ + DecodeJump(code, vm.pc + 1)]
              [] opcode = op.SetFlag -> Test(2, Arg(1) # 0)
              [] OTHER -> Result(FALSE)

\* The caller reads the result, and frees the regex.
RegexFree ==
    /\ \/ regex.stage = "refused"
       \/ regex.stage = "ready" /\ vm.stage \in {"none", "done"}
    /\ regex' = NoRegex /\ vm' = NoMatch

RegexNext ==
    \/ regex.stage = "none" /\ \E p \in Patterns : RegexCompile(p)
    \/ vm.stage = "none" /\ \E s \in Subjects : RegexMatch(s)
    \/ RegexExec
    \/ RegexFree

RegexFairness == WF_regexVars(RegexExec)

RegexSpec == RegexInit /\ [][RegexNext]_regexVars /\ RegexFairness

(***************************************************************************)
(* Properties.                                                             *)
(***************************************************************************)

Quantifiers == {ch.star, ch.plus, ch.opt}
Has(pattern, cs) == \E i \in 1 .. Len(pattern) : pattern[i] \in cs
Count(pattern, c) == Cardinality({i \in 1 .. Len(pattern) : pattern[i] = c})
Balanced(pattern) == Count(pattern, ch.lpar) = Count(pattern, ch.rpar)
Before(s, i) == SubSeq(s, 1, i - 1)
From(s, i) == SubSeq(s, i, Len(s))

(***************************************************************************)
(* The language of a pattern, as regular expressions are read: | separates *)
(* alternatives, the operators *, + and ? repeat the character, class or   *)
(* group before them.  Defined by dividing a string in every possible way, *)
(* independently of the lexer, the emitter and the machine.                *)
(***************************************************************************)

\* The characters of the single, any or range that starts at p[i].
CharsAt(p, i) ==
    CASE p[i] = ch.dot -> 0 .. 255
      [] p[i] = ch.lbra -> p[i + 1] .. p[i + 3]
      [] OTHER -> {p[i]}

\* Where the first character, class or group of p ends.
AtomEnd(p) ==
    LET closes == {i \in 2 .. Len(p) : Balanced(SubSeq(p, 1, i))}
    IN  CASE p[1] = ch.lbra -> 5
          [] p[1] = ch.lpar -> CHOOSE i \in closes : \A j \in closes : i <= j
          [] OTHER -> 1

RECURSIVE InLanguage(_, _)
RECURSIVE Repeated(_, _, _)

Once(atom, s) ==
    IF atom[1] = ch.lpar THEN InLanguage(SubSeq(atom, 2, Len(atom) - 1), s)
    ELSE Len(s) = 1 /\ s[1] \in CharsAt(atom, 1)

\* s is the atom as often as the quantifier allows; 0 is no quantifier.
Repeated(atom, quantifier, s) ==
    \/ quantifier \in {ch.star, ch.opt} /\ s = <<>>
    \/ Once(atom, s)
    \/ /\ quantifier \in {ch.star, ch.plus}
       /\ \E k \in 2 .. Len(s) : Once(atom, Before(s, k)) /\ Repeated(atom, ch.star, From(s, k))

InLanguage(p, s) ==
    LET bars == {i \in 1 .. Len(p) : p[i] = ch.bar /\ Balanced(Before(p, i))}
        n == AtomEnd(p)
        quantifier == IF n < Len(p) /\ p[n + 1] \in Quantifiers THEN p[n + 1] ELSE 0
        rest == From(p, IF quantifier = 0 THEN n + 1 ELSE n + 2)
    IN  IF bars # {}
        THEN \E i \in bars : InLanguage(Before(p, i), s) \/ InLanguage(From(p, i + 1), s)
        ELSE IF p = <<>> THEN s = <<>>
        ELSE \E k \in 1 .. Len(s) + 1 :
                Repeated(SubSeq(p, 1, n), quantifier, Before(s, k)) /\ InLanguage(rest, From(s, k))

\* A beginning of the string is in the language.
BeginsWithMatch(p, s) == \E k \in 1 .. Len(s) + 1 : InLanguage(p, Before(s, k))

\* The string is the beginning of one that is in the language; no subject
\* leaves more open than another subject fills.
Begins(p, s) == \E t \in Subjects : InLanguage(p, s \o t)

QuantifiesGroup(pattern) ==
    \E i \in 2 .. Len(pattern) : pattern[i - 1] = ch.rpar /\ pattern[i] \in Quantifiers

\* Patterns whose parentheses match and only group, with something before
\* the end of each group and of the pattern.
Plain(pattern) ==
    /\ \A i \in 1 .. Len(pattern) :
          Count(SubSeq(pattern, 1, i), ch.rpar) <= Count(SubSeq(pattern, 1, i), ch.lpar)
    /\ Balanced(pattern)
    /\ ~QuantifiesGroup(pattern)
    /\ \A i \in 1 .. Len(pattern) :
          pattern[i] \in {ch.bar, ch.lpar} => i < Len(pattern) /\ pattern[i + 1] # ch.rpar

\* A quantifier with nothing before it to repeat.
Misplaced(pattern) ==
    \E i \in 1 .. Len(pattern) :
        /\ pattern[i] \in Quantifiers
        /\ i = 1 \/ pattern[i - 1] \in Quantifiers \cup {ch.bar, ch.lpar}

\* Two items of a pattern can take the same character, and the earlier is
\* quantified: which of them takes it may have to be reconsidered.
Ambiguous(pattern) ==
    LET inside == {i \in 1 .. Len(pattern) : \E j \in 1 .. 4 : i > j /\ pattern[i - j] = ch.lbra}
        items == {i \in 1 .. Len(pattern) \ inside :
                     pattern[i] \notin Quantifiers \cup {ch.bar, ch.lpar, ch.rpar}}
        next(i) == IF pattern[i] = ch.lbra THEN i + 5 ELSE i + 1
    IN  \E i, j \in items :
            /\ i < j /\ next(i) <= Len(pattern) /\ pattern[next(i)] \in Quantifiers
            /\ CharsAt(pattern, i) \cap CharsAt(pattern, j) # {}

\* Lexer, emitter, jumps and machine together against the language of the
\* pattern, for patterns without | whose groups are not repeated.
\* regex_compile refuses just the patterns with a misplaced quantifier.  A
\* match that regex_match reports is one, or the string ended on the way to
\* one.  One that it does not report is none, if the string is not empty and
\* no quantified item competes with a later one (the machine gives nothing
\* back).  For every pattern the machine stays inside the bytecode, although
\* the exit of + lands inside an operand.
MatchAgrees ==
    LET p == regex.pattern
        s == vm.string
    IN  /\ vm.stage # "overrun"
        /\ Plain(p) => /\ regex.stage = "ready" => ~Misplaced(p)
                       /\ regex.stage = "refused" => Misplaced(p)
        /\ vm.stage = "done" /\ Plain(p) /\ ~Has(p, {ch.bar}) =>
              IF vm.flag THEN s # <<>> /\ (BeginsWithMatch(p, s) \/ Begins(p, s))
              ELSE s = <<>> \/ Ambiguous(p) \/ ~BeginsWithMatch(p, s)

\* regex_match returns, unless a group is repeated: the loop over a group
\* that matched nothing does not end.
MatchEnds ==
    (vm.stage = "exec" /\ ~QuantifiesGroup(regex.pattern)) ~> (vm.stage = "done")

\* regex.h: "Supports *, +, ., ?, | operators and alpha-numeric characters".
\* Between two characters, | matches a string that begins with either.
AlternatesMatch ==
    LET p == regex.pattern
    IN  vm.stage = "done" /\ Len(p) = 3 /\ IsAlnum(p[1]) /\ p[2] = ch.bar /\ IsAlnum(p[3]) =>
            vm.flag = (vm.string # <<>> /\ vm.string[1] \in {p[1], p[3]})

============================================================================

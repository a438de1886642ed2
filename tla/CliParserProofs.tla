-------------------------- MODULE CliParserProofs ---------------------------
(***************************************************************************)
(* The command line parser uses every entry of argv once and leaves no     *)
(* string behind, for any declarations, any entries and any argv.          *)
(***************************************************************************)
EXTENDS CliParser, FiniteSetTheorems, SequenceTheorems, WellFoundedInduction, TLAPS

-----------------------------------------------------------------------------
(* The inductive invariant *)

Texts == {e.value : e \in Entries} \cup {"-x", "", "0"}
ArgNames == {d.name : d \in Declarations} \cup {d.short : d \in Declarations}
ArgMaps == UNION {[D -> Nat] : D \in SUBSET ArgNames}

ArgData == {Unset} \cup ({"b"} \X BOOLEAN) \cup ({"i64"} \X Nat)
           \cup ({"str", "int", "float"} \X Texts)

Args == [mode : ArgModes, type : ArgTypes, action : ArgActions, name : ArgNames,
         data : ArgData, sz : Nat]

CliErrors ==
    {"none", "MemAlloc", "InvalidArgumentAction", "InvalidArgumentType", "MalformedArgument",
     "UnknownArgument", "TooManyPositionalArgs", "MissingPositionalArgs", "MissingRequiredArg"}

CliType ==
    /\ cli \in [stage : {"none", "open", "released", "aborted"}, args : Seq(Args),
                args_map : ArgMaps, short_names_map : ArgMaps, positional : Seq(Nat),
                strings : Int, error : CliErrors]
    /\ parse \in [stage : {"none", "loop", "done"}, argv : Seq(Entries), i : Nat,
                  pos_index : Nat, ok : BOOLEAN]

Ids == 1 .. Len(cli.args)

\* What the maps and the list of positional arguments lead to.
Declared ==
    /\ \A name \in DOMAIN cli.args_map :
          /\ cli.args_map[name] \in Ids
          /\ cli.args[cli.args_map[name]].name = name
    /\ \A short \in DOMAIN cli.short_names_map : cli.short_names_map[short] \in Ids
    /\ \A n \in 1 .. Len(cli.positional) :
          cli.positional[n] \in Ids /\ cli.args[cli.positional[n]].mode = "positional"
    /\ \A m, n \in 1 .. Len(cli.positional) : cli.positional[m] = cli.positional[n] => m = n
    /\ \A id \in Ids : cli.args[id].mode = "positional" => cli.args[id].action = "store"

\* Nothing is stored before cli_parser_parse.
Blank ==
    /\ cli.stage = "none" => parse.stage = "none"
    /\ parse.stage = "none" =>
        parse = NoParse /\ cli.strings = 0 /\ \A id \in Ids : cli.args[id].data = Unset

\* What an argument can hold.
Fits(arg, data) ==
    \/ data = Unset
    \/ arg.action = "store_true" /\ data = <<"b", TRUE>>
    \/ arg.action = "store_false" /\ data = <<"b", FALSE>>
    \/ arg.action = "count" /\ data[1] = "i64"
    \/ arg.action \in {"store", "append"} /\ (arg.type = "str" => data[1] = "str")

Fitting == \A id \in Ids : Fits(cli.args[id], cli.args[id].data)

\* The entries without a dash among the first n, and those for argument id.
Loose(argv, n) == {j \in 1 .. n : IsHead(argv)[j] /\ argv[j].dashes = 0}
Hits(argv, id, n) == {j \in 1 .. n : IsHead(argv)[j] /\ IsFor(argv, j) = id}

\* What entry i gives its argument, of n entries for it.
GivesAt(type, action, argv, i, n) ==
    LET e == argv[i]
        text == IF e.dashes = 0 \/ e.has_value THEN e.value ELSE Text(argv[i + 1])
    IN  IF e.dashes = 0 THEN Convert(type, text)[1]
        ELSE CASE action = "count" -> <<"i64", n>>
               [] action = "store_true" -> <<"b", TRUE>>
               [] action = "store_false" -> <<"b", FALSE>>
               [] OTHER -> Convert(type, text)[1]

\* What the entries hits give it: the last one counts.
Gives(type, action, argv, hits) ==
    IF hits = {} THEN Unset
    ELSE GivesAt(type, action, argv, CHOOSE i \in hits : \A j \in hits : j <= i,
                 Cardinality(hits))

\* In the loop: i is the beginning of an argument, or the end, and what is
\* stored is what the entries before i give.
Looping ==
    parse.stage = "loop" =>
        /\ cli.stage = "open" /\ parse.argv # <<>> /\ ~parse.ok
        /\ parse.i \in 1 .. Len(parse.argv) + 1
        /\ parse.i <= Len(parse.argv) => IsHead(parse.argv)[parse.i]
        /\ parse.pos_index = Cardinality(Loose(parse.argv, parse.i - 1))
        /\ parse.pos_index <= Len(cli.positional)
        /\ \A id \in Ids :
              cli.args[id].data = Gives(cli.args[id].type, cli.args[id].action, parse.argv,
                                        Hits(parse.argv, id, parse.i - 1))

Finished == parse.stage = "done" /\ parse.ok /\ parse.argv # <<>> => Accepted

StringIds == {id \in Ids : cli.args[id].data[1] = "str"}

\* The strings that were made are those that are held, until they are freed.
Counted ==
    parse.stage # "none" /\ GivenOnce =>
        /\ cli.stage = "open" => cli.strings = Cardinality(StringIds)
        /\ cli.stage = "released" => cli.strings = 0

Aborted ==
    cli.stage = "aborted" =>
        \E id \in Ids : cli.args[id].type = "str" /\ cli.args[id].action \in {"store_true", "count"}

CliInv ==
    /\ CliType /\ Declared /\ Blank /\ Fitting /\ Looping /\ Finished /\ Counted /\ Aborted

-----------------------------------------------------------------------------
(* Which entries begin an argument *)

\* A set of numbers that is not empty has a least member.
LEMMA NatMin ==
    ASSUME NEW S \in SUBSET Nat, S # {}
    PROVE  \E m \in S : \A n \in S : m <= n
  <1>1. PICK R : R = {p \in Nat \X Nat : p[1] < p[2]}
    OBVIOUS
  <1>2. IsWellFoundedOn(R, Nat) BY <1>1, NatLessThanWellFounded DEF OpToRel
  <1>3. PICK x \in S : \A y \in S : ~(<<y, x>> \in R) BY <1>2, WFMin
  <1>4. \A y \in S : y < x => <<y, x>> \in R BY <1>1
  <1>5. \A y \in S : ~(y < x) BY <1>3, <1>4, Zenon
  <1>6. \A y \in S : x <= y BY <1>5
  <1>7. QED BY <1>6

\* h says which of n entries begin an argument, when t says which take a value.
HeadsOf(h, n, t) == h = [i \in 1 .. n |-> i = 1 \/ ~(h[i - 1] /\ t[i - 1])]

\* There is such an h: the least n without one would have one.
LEMMA HeadsExist ==
    ASSUME NEW n \in Nat, NEW t
    PROVE  \E h : HeadsOf(h, n, t)
  <1>1. PICK S : S = {m \in Nat : ~ \E h : HeadsOf(h, m, t)} OBVIOUS
  <1>2. SUFFICES ASSUME S # {} PROVE FALSE BY <1>1
  <1>3. PICK m \in S : \A k \in S : m <= k BY <1>1, <1>2, NatMin
  <1>4. m \in Nat BY <1>1
  <1>5. m # 0
    <2>1. HeadsOf(<<>>, 0, t) BY DEF HeadsOf
    <2>2. QED BY <1>1, <2>1
  <1>6. PICK h : HeadsOf(h, m - 1, t)
    <2>1. m - 1 \in Nat /\ ~(m <= m - 1) BY <1>4, <1>5
    <2>2. m - 1 \notin S BY <1>3, <2>1
    <2>3. QED BY <1>1, <2>1, <2>2
  <1>7. PICK g : g = [i \in 1 .. m |-> i = 1 \/ ~(h[i - 1] /\ t[i - 1])] OBVIOUS
  <1>8. \A i \in 1 .. (m - 1) : g[i] = h[i] BY <1>4, <1>6, <1>7 DEF HeadsOf
  <1>9. HeadsOf(g, m, t)
    <2>1. \A i \in 1 .. m : i # 1 => i - 1 \in 1 .. (m - 1) BY <1>4
    <2>2. \A i \in 1 .. m : (i = 1 \/ ~(h[i - 1] /\ t[i - 1])) <=> (i = 1 \/ ~(g[i - 1] /\ t[i - 1]))
      BY <1>8, <2>1, Zenon
    <2>3. [i \in 1 .. m |-> i = 1 \/ ~(h[i - 1] /\ t[i - 1])]
            = [i \in 1 .. m |-> i = 1 \/ ~(g[i - 1] /\ t[i - 1])]
      BY <2>2, Zenon
    <2>4. QED BY <1>7, <2>3, Zenon DEF HeadsOf
  <1>10. QED BY <1>1, <1>3, <1>9

\* And there is only one: two would differ first somewhere.
LEMMA HeadsUnique ==
    ASSUME NEW n \in Nat, NEW t, NEW g, NEW h, HeadsOf(g, n, t), HeadsOf(h, n, t)
    PROVE  g = h
  <1>1. PICK S : S = {m \in 1 .. n : g[m] # h[m]} OBVIOUS
  <1>2. S = {}
    <2>1. SUFFICES ASSUME S # {} PROVE FALSE OBVIOUS
    <2>2. S \in SUBSET Nat BY <1>1
    <2>3. PICK m \in S : \A k \in S : m <= k BY <2>1, <2>2, NatMin
    <2>4. m \in 1 .. n /\ g[m] # h[m] BY <1>1
    <2>5. /\ g[m] = (m = 1 \/ ~(g[m - 1] /\ t[m - 1]))
          /\ h[m] = (m = 1 \/ ~(h[m - 1] /\ t[m - 1]))
      BY <2>4, Zenon DEF HeadsOf
    <2>6. CASE m = 1 BY <2>4, <2>5, <2>6, Zenon
    <2>7. CASE m # 1
      <3>1. m - 1 \in 1 .. n /\ ~(m <= m - 1) BY <2>4, <2>7
      <3>2. m - 1 \notin S BY <2>3, <3>1
      <3>3. g[m - 1] = h[m - 1] BY <1>1, <3>1, <3>2
      <3>4. QED BY <2>4, <2>5, <3>3, Zenon
    <2>8. QED BY <2>6, <2>7
  <1>3. \A m \in 1 .. n : g[m] = h[m] BY <1>1, <1>2
  <1>4. /\ g = [i \in 1 .. n |-> i = 1 \/ ~(g[i - 1] /\ t[i - 1])]
        /\ h = [i \in 1 .. n |-> i = 1 \/ ~(h[i - 1] /\ t[i - 1])]
    BY Zenon DEF HeadsOf
  <1>5. QED BY <1>3, <1>4

\* The entries that take the next one for their value.
Takes(argv) == [i \in 1 .. Len(argv) |-> TakesValue(argv[i])]

\* IsHead is the h of these entries.
HeadsRight == \A argv \in Seq(Entries) : HeadsOf(IsHead(argv), Len(argv), Takes(argv))

\* A function that satisfies the recursion exists, and IsHead is one.
LEMMA HeadsAlways == HeadsRight
  <1>1. SUFFICES ASSUME NEW argv \in Seq(Entries)
                 PROVE  HeadsOf(IsHead(argv), Len(argv), Takes(argv))
    BY DEF HeadsRight
  <1>2. PICK n \in Nat : n = Len(argv) BY LenProperties
  <1>3. \A h : [i \in 1 .. n |-> i = 1 \/ ~(h[i - 1] /\ Takes(argv)[i - 1])]
                 = [i \in 1 .. n |-> i = 1 \/ ~(h[i - 1] /\ TakesValue(argv[i - 1]))]
    <2>1. SUFFICES ASSUME NEW h
                   PROVE  \A i \in 1 .. n : (i = 1 \/ ~(h[i - 1] /\ Takes(argv)[i - 1]))
                                      <=> (i = 1 \/ ~(h[i - 1] /\ TakesValue(argv[i - 1])))
      BY Zenon
    <2>2. \A i \in 1 .. n : i # 1 => i - 1 \in 1 .. n OBVIOUS
    <2>3. \A j \in 1 .. n : Takes(argv)[j] = TakesValue(argv[j]) BY <1>2 DEF Takes
    <2>4. QED BY <2>2, <2>3, Zenon
  <1>4. PICK h : HeadsOf(h, n, Takes(argv)) BY HeadsExist
  <1>5. h = [i \in 1 .. n |-> i = 1 \/ ~(h[i - 1] /\ TakesValue(argv[i - 1]))]
    BY <1>3, <1>4, Zenon DEF HeadsOf
  <1>6. IsHead(argv) = [i \in 1 .. n |-> i = 1 \/ ~(IsHead(argv)[i - 1] /\ TakesValue(argv[i - 1]))]
    BY <1>2, <1>5 DEF IsHead
  <1>7. QED BY <1>2, <1>3, <1>6, Zenon DEF HeadsOf

\* What the recursion says of the first entry, and of the next one.
LEMMA HeadFacts ==
    ASSUME NEW argv \in Seq(Entries), NEW i \in 1 .. Len(argv)
    PROVE  /\ IsHead(argv)[1]
           /\ i + 1 \in 1 .. Len(argv) =>
                (IsHead(argv)[i + 1] <=> ~(IsHead(argv)[i] /\ TakesValue(argv[i])))
  <1>1. HeadsOf(IsHead(argv), Len(argv), Takes(argv)) BY HeadsAlways DEF HeadsRight
  <1>2. PICK h : h = IsHead(argv) OBVIOUS
  <1>3. PICK n \in Nat : n = Len(argv) BY LenProperties
  <1>4. \A j \in 1 .. n : h[j] = (j = 1 \/ ~(h[j - 1] /\ Takes(argv)[j - 1]))
    BY <1>1, <1>2, <1>3, Zenon DEF HeadsOf
  <1>5. h[1]
    <2>1. 1 \in 1 .. n BY <1>3
    <2>2. QED BY <1>4, <2>1, Zenon
  <1>6. ASSUME i + 1 \in 1 .. n PROVE h[i + 1] <=> ~(h[i] /\ TakesValue(argv[i]))
    <2>1. i + 1 # 1 /\ (i + 1) - 1 = i BY <1>3
    <2>2. Takes(argv)[i] = TakesValue(argv[i]) BY <1>3 DEF Takes
    <2>3. h[i + 1] = (i + 1 = 1 \/ ~(h[(i + 1) - 1] /\ Takes(argv)[(i + 1) - 1])) BY <1>4, <1>6, Zenon
    <2>4. h[i + 1] = ~(h[i] /\ TakesValue(argv[i])) BY <2>1, <2>2, <2>3, Zenon
    <2>5. QED BY <2>4, Zenon
  <1>7. QED BY <1>2, <1>3, <1>5, <1>6, Zenon

-----------------------------------------------------------------------------
(* What a parser that only stores values keeps *)

\* The declarations stay: only data and sizes of arguments change.
SameArgs ==
    /\ cli'.args_map = cli.args_map /\ cli'.short_names_map = cli.short_names_map
    /\ cli'.positional = cli.positional
    /\ cli'.args \in Seq(Args) /\ Len(cli'.args) = Len(cli.args)
    /\ \A id \in Ids : /\ cli'.args[id].mode = cli.args[id].mode
                       /\ cli'.args[id].type = cli.args[id].type
                       /\ cli'.args[id].action = cli.args[id].action
                       /\ cli'.args[id].name = cli.args[id].name

\* cli_parser_find_arg returns an argument or NULL.
LEMMA FindFacts ==
    ASSUME CliType, Declared, NEW e
    PROVE  FindArg(e) \in Ids \cup {0}
  BY DEF CliType, Declared, FindArg

\* What an argument is.
LEMMA ArgFacts ==
    ASSUME CliType, NEW id \in Ids
    PROVE  /\ Len(cli.args) \in Nat /\ id \in Nat \ {0} /\ cli.args[id] \in Args
           /\ cli.args[id].mode \in ArgModes /\ cli.args[id].type \in ArgTypes
           /\ cli.args[id].action \in ArgActions /\ cli.args[id].data \in ArgData
           /\ cli.args[id].sz \in Nat
  <1>1. PICK s \in Seq(Args) : s = cli.args BY DEF CliType
  <1>2. Len(s) \in Nat /\ id \in 1 .. Len(s) BY <1>1, LenProperties DEF Ids
  <1>3. s[id] \in Args BY <1>2
  <1>4. QED BY <1>1, <1>2, <1>3 DEF Args

\* So every entry means what it meant.
LEMMA FindKept ==
    ASSUME CliType, Declared, SameArgs, NEW e
    PROVE  FindArg(e)' = FindArg(e) /\ TakesValue(e)' = TakesValue(e)
  <1>1. FindArg(e)' = FindArg(e) BY DEF SameArgs, FindArg
  <1>2. PICK f : f = FindArg(e) /\ f = FindArg(e)' BY <1>1
  <1>3. f # 0 => f \in Ids BY <1>2, FindFacts
  <1>4. f # 0 => cli'.args[f].action = cli.args[f].action BY <1>3 DEF SameArgs
  <1>5. TakesValue(e)' <=> TakesValue(e) BY <1>2, <1>4, Zenon DEF TakesValue
  <1>6. QED BY <1>1, <1>5, Zenon DEF TakesValue

\* The same entries begin an argument.
LEMMA HeadsKept ==
    ASSUME CliType, Declared, SameArgs, NEW argv \in Seq(Entries)
    PROVE  IsHead(argv)' = IsHead(argv)
  <1>1. HeadsRight' BY HeadsAlways, PTL
  <1>2. PICK n \in Nat : n = Len(argv) BY LenProperties
  <1>3. PICK t : t = Takes(argv) OBVIOUS
  <1>4. Takes(argv)' = t
    <2>1. \A i \in 1 .. n : TakesValue(argv[i])' = TakesValue(argv[i]) BY FindKept
    <2>2. QED BY <1>2, <1>3, <2>1 DEF Takes
  <1>5. PICK g : g = IsHead(argv)' OBVIOUS
  <1>6. PICK h : h = IsHead(argv) OBVIOUS
  <1>7. HeadsOf(h, n, t) BY <1>2, <1>3, <1>6, HeadsAlways DEF HeadsRight
  <1>8. HeadsOf(g, n, t)
    <2>1. HeadsOf(IsHead(argv)', Len(argv), Takes(argv)') BY <1>1 DEF HeadsRight, HeadsOf
    <2>2. QED BY <1>2, <1>4, <1>5, <2>1, Zenon
  <1>9. QED BY <1>5, <1>6, <1>7, <1>8, HeadsUnique

\* Every entry is for the argument it was for.
LEMMA MeaningKept ==
    ASSUME CliType, Declared, SameArgs, NEW argv \in Seq(Entries)
    PROVE  /\ \A n : Loose(argv, n)' = Loose(argv, n)
           /\ \A j : IsFor(argv, j)' = IsFor(argv, j)
           /\ \A id, n : Hits(argv, id, n)' = Hits(argv, id, n)
  <1>1. IsHead(argv)' = IsHead(argv) BY HeadsKept
  <1>2. \A n : Loose(argv, n)' = Loose(argv, n) BY <1>1, Zenon DEF Loose
  <1>3. \A j : IsFor(argv, j)' = IsFor(argv, j)
    <2>1. SUFFICES ASSUME NEW j PROVE IsFor(argv, j)' = IsFor(argv, j) OBVIOUS
    <2>2. FindArg(argv[j])' = FindArg(argv[j]) BY FindKept
    <2>3. cli'.positional = cli.positional BY DEF SameArgs
    <2>4. QED BY <1>1, <2>2, <2>3, Zenon DEF IsFor
  <1>4. \A id, n : Hits(argv, id, n)' = Hits(argv, id, n) BY <1>1, <1>3, Zenon DEF Hits
  <1>5. QED BY <1>2, <1>3, <1>4

\* The maps and the list lead where they led.
LEMMA DeclaredKept ==
    ASSUME CliType, Declared, SameArgs
    PROVE  Declared' /\ Ids' = Ids
  <1>1. Ids' = Ids BY DEF SameArgs, Ids
  <1>2. \A name \in DOMAIN cli'.args_map :
          cli'.args_map[name] \in Ids /\ cli'.args[cli'.args_map[name]].name = name
    BY DEF Declared, SameArgs
  <1>3. \A short \in DOMAIN cli'.short_names_map : cli'.short_names_map[short] \in Ids
    BY DEF Declared, SameArgs
  <1>4. \A n \in 1 .. Len(cli'.positional) :
          cli'.positional[n] \in Ids /\ cli'.args[cli'.positional[n]].mode = "positional"
    BY DEF Declared, SameArgs
  <1>5. \A m, n \in 1 .. Len(cli'.positional) : cli'.positional[m] = cli'.positional[n] => m = n
    BY DEF Declared, SameArgs
  <1>6. \A id \in Ids : cli'.args[id].mode = "positional" => cli'.args[id].action = "store"
    BY DEF Declared, SameArgs
  <1>7. QED BY <1>1, <1>2, <1>3, <1>4, <1>5, <1>6, Zenon DEF Declared

\* The options of an argv, and GivenOnce in terms of them.
NamedHeads(argv) ==
    {i \in 1 .. Len(argv) : IsHead(argv)[i] /\ argv[i].dashes > 0 /\ FindArg(argv[i]) # 0}

OnceRight ==
    \A argv : argv = parse.argv =>
        (GivenOnce <=>
            /\ Cardinality(DOMAIN cli.args_map) = Len(cli.args)
            /\ \A i, j \in NamedHeads(argv) : FindArg(argv[i]) = FindArg(argv[j]) => i = j
            /\ \A i \in NamedHeads(argv) : cli.args[FindArg(argv[i])].mode # "positional")

\* GivenOnce is a statement about the options of argv.
LEMMA OnceFacts == OnceRight
  <1>1. GivenOnce <=>
            /\ Cardinality(DOMAIN cli.args_map) = Len(cli.args)
            /\ \A i, j \in NamedHeads(parse.argv) :
                  FindArg(parse.argv[i]) = FindArg(parse.argv[j]) => i = j
            /\ \A i \in NamedHeads(parse.argv) :
                  cli.args[FindArg(parse.argv[i])].mode # "positional"
    BY Zenon DEF GivenOnce, NamedHeads
  <1>2. QED BY <1>1, Zenon DEF OnceRight

\* Whether argv is one that gives each argument once.
LEMMA OnceKept ==
    ASSUME CliType, Declared, SameArgs, parse'.argv = parse.argv
    PROVE  GivenOnce' <=> GivenOnce
  <1>1. PICK argv \in Seq(Entries) : argv = parse.argv /\ argv = parse'.argv BY DEF CliType
  <1>2. IsHead(argv)' = IsHead(argv) BY HeadsKept
  <1>3. \A e : FindArg(e)' = FindArg(e) BY FindKept
  <1>4. \A e : FindArg(e) # 0 => FindArg(e) \in Ids BY FindFacts
  <1>5. \A e : FindArg(e) # 0 => cli'.args[FindArg(e)].mode = cli.args[FindArg(e)].mode
    BY <1>4 DEF SameArgs
  <1>6. cli'.args_map = cli.args_map /\ Len(cli'.args) = Len(cli.args) BY DEF SameArgs
  <1>7. PICK named : named = NamedHeads(argv) OBVIOUS
  <1>8. named = NamedHeads(argv)' BY <1>2, <1>3, <1>7, Zenon DEF NamedHeads
  <1>9. GivenOnce <=> /\ Cardinality(DOMAIN cli.args_map) = Len(cli.args)
                      /\ \A i, j \in named : FindArg(argv[i]) = FindArg(argv[j]) => i = j
                      /\ \A i \in named : cli.args[FindArg(argv[i])].mode # "positional"
    BY <1>1, <1>7, OnceFacts, Zenon DEF OnceRight
  <1>10. GivenOnce' <=> /\ Cardinality(DOMAIN cli'.args_map) = Len(cli'.args)
                        /\ \A i, j \in named : FindArg(argv[i])' = FindArg(argv[j])' => i = j
                        /\ \A i \in named : cli'.args[FindArg(argv[i])'].mode # "positional"
    <2>1. OnceRight' BY OnceFacts, PTL
    <2>2. QED BY <1>1, <1>8, <2>1, Zenon DEF OnceRight
  <1>11. \A i \in named : FindArg(argv[i]) # 0 BY <1>7 DEF NamedHeads
  <1>12. QED BY <1>3, <1>5, <1>6, <1>9, <1>10, <1>11, Zenon

-----------------------------------------------------------------------------
(* What entries give *)

\* An entry behind all others is the one that counts.
LEMMA GivesNext ==
    ASSUME NEW type, NEW action, NEW argv, NEW i \in Nat, NEW hits \in SUBSET (1 .. (i - 1))
    PROVE  /\ IsFiniteSet(hits) /\ Cardinality(hits) \in Nat
           /\ Gives(type, action, argv, hits \cup {i})
                = GivesAt(type, action, argv, i, Cardinality(hits) + 1)
  <1>1. IsFiniteSet(hits)
    <2>1. IsFiniteSet(1 .. (i - 1)) BY FS_Interval
    <2>2. QED BY <2>1, FS_Subset
  <1>2. i \notin hits /\ \A j \in hits : j \in Nat /\ j < i OBVIOUS
  <1>3. Cardinality(hits \cup {i}) = Cardinality(hits) + 1 BY <1>1, <1>2, FS_AddElement
  <1>4. PICK all : all = hits \cup {i} OBVIOUS
  <1>5. (CHOOSE k \in all : \A j \in all : j <= k) = i
    <2>1. i \in all /\ \A j \in all : j <= i BY <1>2, <1>4
    <2>2. \A k \in all : (\A j \in all : j <= k) => k = i BY <1>2, <1>4
    <2>3. QED BY <2>1, <2>2
  <1>6. all # {} BY <1>4
  <1>7. QED BY <1>1, <1>3, <1>4, <1>5, <1>6, FS_CardinalityType DEF Gives

\* Meant is what all entries give.
LEMMA MeantGives ==
    ASSUME NEW argv, NEW id
    PROVE  Meant(argv, id) = Gives(cli.args[id].type, cli.args[id].action, argv,
                                   Hits(argv, id, Len(argv)))
  BY Zenon DEF Meant, Gives, GivesAt, Hits

\* The data of flags and counters.
LEMMA FlagData ==
    /\ <<"b", TRUE>> \in ArgData /\ <<"b", FALSE>> \in ArgData
    /\ \A n \in Nat : <<"i64", n>> \in ArgData
  <1>1. <<"b", TRUE>> \in {"b"} \X BOOLEAN /\ <<"b", FALSE>> \in {"b"} \X BOOLEAN BY Zenon
  <1>2. \A n \in Nat : <<"i64", n>> \in ArgData BY DEF ArgData
  <1>3. QED BY <1>1, <1>2, Zenon DEF ArgData

\* The data a text is converted to.
LEMMA ConvertFacts ==
    ASSUME NEW type \in ArgTypes, NEW text \in Texts
    PROVE  /\ Convert(type, text)[1] \in ArgData /\ Convert(type, text)[2] \in Nat
           /\ type = "str" => Convert(type, text)[1][1] = "str"
  <1>1. CASE type = "str"
    <2>1. PICK d : d = (IF text \in {"", "quotes"} THEN "" ELSE text) OBVIOUS
    <2>2. d \in Texts BY <2>1 DEF Texts
    <2>3. PICK n \in Nat : Convert(type, text) = <<<<"str", d>>, n>>
      BY <1>1, <2>1 DEF Convert
    <2>4. QED BY <2>2, <2>3 DEF ArgData
  <1>2. CASE type = "bool"
    <2>0. PICK yes : yes = {"1", "true"} OBVIOUS
    <2>1. PICK d : d = <<"b", text \in yes>> OBVIOUS
    <2>2. Convert(type, text) = <<d, 1>> BY <1>2, <2>0, <2>1 DEF Convert
    <2>3. d \in ArgData
      <3>1. CASE text \in yes
        <4>1. (text \in yes) = TRUE BY <3>1, Zenon
        <4>2. d = <<"b", TRUE>> BY <2>1, <4>1, Zenon
        <4>3. QED BY <4>2, FlagData
      <3>2. CASE ~(text \in yes)
        <4>1. (text \in yes) = FALSE BY <3>2
        <4>2. d = <<"b", FALSE>> BY <2>1, <4>1, Zenon
        <4>3. QED BY <4>2, FlagData
      <3>3. QED BY <3>1, <3>2
    <2>4. QED BY <1>2, <2>2, <2>3
  <1>3. CASE type \in {"int", "float"}
    <2>1. PICK d : d = (IF text = "-x" THEN "0" ELSE text) OBVIOUS
    <2>2. d \in Texts BY <2>1 DEF Texts
    <2>3. Convert(type, text) = <<<<type, d>>, 8>> BY <1>3, <2>1 DEF Convert
    <2>4. QED BY <1>3, <2>2, <2>3 DEF ArgData
  <1>4. QED BY <1>1, <1>2, <1>3 DEF ArgTypes

-----------------------------------------------------------------------------
(* What a turn of the loop stores *)

\* The entries without a dash are a finite set.
LEMMA LooseFacts ==
    ASSUME NEW argv, NEW n \in Nat
    PROVE  Loose(argv, n) \in SUBSET (1 .. n) /\ IsFiniteSet(Loose(argv, n))
           /\ Cardinality(Loose(argv, n)) \in Nat
  <1>1. IsFiniteSet(1 .. n) BY FS_Interval
  <1>2. Loose(argv, n) \in SUBSET (1 .. n) BY DEF Loose
  <1>3. QED BY <1>1, <1>2, FS_Subset, FS_CardinalityType

\* An entry without a dash is for the positional argument of its number.
LEMMA PlaceFacts ==
    ASSUME CliType, Declared, NEW argv \in Seq(Entries), NEW n \in Nat,
           Cardinality(Loose(argv, n)) <= Len(cli.positional),
           NEW j \in 1 .. n, IsHead(argv)[j], argv[j].dashes = 0
    PROVE  /\ Cardinality(Loose(argv, j)) \in 1 .. Len(cli.positional)
           /\ IsFor(argv, j) = cli.positional[Cardinality(Loose(argv, j))]
           /\ IsFor(argv, j) \in Ids /\ cli.args[IsFor(argv, j)].mode = "positional"
           /\ cli.args[IsFor(argv, j)].action = "store"
  <1>1. j \in Nat /\ j \in 1 .. j OBVIOUS
  <1>2. Loose(argv, j) \subseteq Loose(argv, n) /\ j \in Loose(argv, j) BY <1>1 DEF Loose
  <1>3. Cardinality(Loose(argv, j)) <= Cardinality(Loose(argv, n)) BY <1>2, LooseFacts, FS_Subset
  <1>4. Cardinality(Loose(argv, j)) # 0 BY <1>1, <1>2, LooseFacts, FS_EmptySet
  <1>5. Len(cli.positional) \in Nat BY LenProperties DEF CliType
  <1>6. Cardinality(Loose(argv, j)) \in 1 .. Len(cli.positional)
    BY <1>1, <1>3, <1>4, <1>5, LooseFacts
  <1>7. IsFor(argv, j) = cli.positional[Cardinality(Loose(argv, j))]
    <2>1. ~(argv[j].dashes > 0) OBVIOUS
    <2>2. QED BY <2>1, Zenon DEF IsFor, Loose
  <1>8. QED BY <1>6, <1>7 DEF Declared

\* What a parse that succeeds does to its argument.
Count(id) == IF cli.args[id].data = Unset THEN 0 ELSE cli.args[id].data[2]

Stores(r, id, argv, i) ==
    \E data \in ArgData, sz \in Nat :
        /\ id \in Ids /\ Fits(cli.args[id], data)
        /\ r = Holds(id, data, sz, IF TakesValue(argv[i]) THEN 1 ELSE 0)
        /\ TakesValue(argv[i]) => i < Len(argv)
        /\ data = GivesAt(cli.args[id].type, cli.args[id].action, argv, i, Count(id) + 1)

\* A counter that is set is a number.
LEMMA CountFacts ==
    ASSUME CliType, Fitting, NEW id \in Ids, cli.args[id].action = "count"
    PROVE  Count(id) \in Nat
  <1>1. PICK d \in ArgData : d = cli.args[id].data BY ArgFacts
  <1>2. d = Unset \/ d[1] = "i64" BY <1>1 DEF Fitting, Fits
  <1>3. d[1] = "i64" => d[2] \in Nat BY DEF ArgData, Unset
  <1>4. QED BY <1>1, <1>2, <1>3 DEF Count

\* cli_parser_parse_named_argument fails and changes nothing, or stores what
\* the entry gives.
LEMMA NamedStores ==
    ASSUME CliType, Declared, Fitting, NEW argv \in Seq(Entries), NEW i \in 1 .. Len(argv),
           argv[i].dashes > 0, NEW r,
           r = ParseNamed(argv[i], SubSeq(argv, i + 1, Len(argv)))
    PROVE  (\E error \in CliErrors : r = Fails(error)) \/ Stores(r, FindArg(argv[i]), argv, i)
  <1>1. PICK e \in Entries : e = argv[i] OBVIOUS
  <1>2. PICK rest : rest = SubSeq(argv, i + 1, Len(argv)) OBVIOUS
  <1>3. PICK id : id = FindArg(e) OBVIOUS
  <1>4. PICK arg : arg = cli.args[id] OBVIOUS
  <1>5. PICK text : text = IF e.has_value THEN e.value ELSE Text(Head(rest)) OBVIOUS
  <1>6. r = IF e.name = "" /\ ~e.has_value THEN Fails("MalformedArgument")
            ELSE IF id = 0 THEN Fails("UnknownArgument")
            ELSE CASE arg.action = "store_true" -> Holds(id, <<"b", TRUE>>, 1, 0)
               [] arg.action = "store_false" -> Holds(id, <<"b", FALSE>>, 1, 0)
               [] arg.action = "count" ->
                    Holds(id, <<"i64", (IF arg.data = Unset THEN 0 ELSE arg.data[2]) + 1>>, 8, 0)
               [] OTHER ->
                    IF ~e.has_value /\ rest = <<>> THEN Fails("MalformedArgument")
                    ELSE IF text = "" THEN Fails("MalformedArgument")
                    ELSE StoreText(id, text, IF e.has_value THEN 0 ELSE 1)
    BY <1>1, <1>2, <1>3, <1>4, <1>5, Zenon DEF ParseNamed
  <1>7. SUFFICES ASSUME ~(e.name = "" /\ ~e.has_value), id # 0
                 PROVE  (\E error \in CliErrors : r = Fails(error)) \/ Stores(r, id, argv, i)
    BY <1>1, <1>3, <1>6 DEF CliErrors
  <1>8. id \in Ids /\ arg.action \in ArgActions /\ arg.type \in ArgTypes
    BY <1>3, <1>4, <1>7, FindFacts, ArgFacts
  <1>9. e.dashes \in Nat /\ e.dashes # 0 /\ e.has_value \in BOOLEAN /\ e.dashes > 0
    BY <1>1, CliAssumption DEF CliAssumption
  <1>10. TakesValue(e) <=> ~e.has_value /\ arg.action \in {"store", "append"}
    BY <1>3, <1>4, <1>7, <1>9 DEF TakesValue
  <1>11. CASE arg.action = "store_true"
    <2>1. r = Holds(id, <<"b", TRUE>>, 1, 0) BY <1>6, <1>7, <1>11
    <2>2. (IF TakesValue(e) THEN 1 ELSE 0) = 0 BY <1>10, <1>11
    <2>3. GivesAt(arg.type, arg.action, argv, i, Count(id) + 1) = <<"b", TRUE>>
      BY <1>1, <1>9, <1>11 DEF GivesAt
    <2>4. Fits(arg, <<"b", TRUE>>) BY <1>11 DEF Fits
    <2>5. ~TakesValue(e) BY <1>10, <1>11
    <2>6. QED BY <1>1, <1>4, <1>8, <2>1, <2>2, <2>3, <2>4, <2>5, FlagData, Zenon DEF Stores
  <1>12. CASE arg.action = "store_false"
    <2>1. r = Holds(id, <<"b", FALSE>>, 1, 0) BY <1>6, <1>7, <1>12
    <2>2. (IF TakesValue(e) THEN 1 ELSE 0) = 0 BY <1>10, <1>12
    <2>3. GivesAt(arg.type, arg.action, argv, i, Count(id) + 1) = <<"b", FALSE>>
      BY <1>1, <1>9, <1>12 DEF GivesAt
    <2>4. Fits(arg, <<"b", FALSE>>) BY <1>12 DEF Fits
    <2>5. ~TakesValue(e) BY <1>10, <1>12
    <2>6. QED BY <1>1, <1>4, <1>8, <2>1, <2>2, <2>3, <2>4, <2>5, FlagData, Zenon DEF Stores
  <1>13. CASE arg.action = "count"
    <2>0. PICK n \in Nat : n = Count(id) + 1 BY <1>4, <1>8, <1>13, CountFacts
    <2>1. r = Holds(id, <<"i64", n>>, 8, 0) BY <1>4, <1>6, <1>7, <1>13, <2>0 DEF Count
    <2>2. (IF TakesValue(e) THEN 1 ELSE 0) = 0 BY <1>10, <1>13
    <2>3. GivesAt(arg.type, arg.action, argv, i, Count(id) + 1) = <<"i64", n>>
      BY <1>1, <1>9, <1>13, <2>0 DEF GivesAt
    <2>4. Fits(arg, <<"i64", n>>) BY <1>13 DEF Fits
    <2>5. ~TakesValue(e) BY <1>10, <1>13
    <2>6. <<"i64", n>> \in ArgData /\ 8 \in Nat BY FlagData
    <2>7. QED BY <1>1, <1>4, <1>8, <2>1, <2>2, <2>3, <2>4, <2>5, <2>6, Zenon DEF Stores
  <1>14. CASE arg.action \in {"store", "append"}
    <2>1. SUFFICES ASSUME e.has_value \/ rest # <<>>, text # "", ValidType(arg.type, text)
                   PROVE  Stores(r, id, argv, i)
      BY <1>4, <1>6, <1>7, <1>14 DEF StoreText, CliErrors
    <2>2. PICK c : c = Convert(arg.type, text) OBVIOUS
    <2>3. r = Holds(id, c[1], c[2], IF e.has_value THEN 0 ELSE 1)
      BY <1>4, <1>6, <1>7, <1>14, <2>1, <2>2 DEF StoreText
    <2>4. (IF TakesValue(e) THEN 1 ELSE 0) = (IF e.has_value THEN 0 ELSE 1) BY <1>9, <1>10, <1>14
    <2>5. Len(argv) \in Nat BY LenProperties
    <2>6. ~e.has_value => i < Len(argv) /\ Head(rest) = argv[i + 1]
      <3>1. SUFFICES ASSUME rest # <<>> PROVE i < Len(argv) /\ Head(rest) = argv[i + 1] BY <2>1
      <3>2. i < Len(argv)
        <4>1. ~(i < Len(argv)) => rest = <<>> BY <1>2, <2>5
        <4>2. QED BY <3>1, <4>1
      <3>3. rest[1] = argv[i + 1] BY <1>2, <2>5, <3>2, SubSeqProperties
      <3>4. QED BY <3>2, <3>3
    <2>7. text \in Texts
      <3>1. CASE e.has_value BY <1>5, <3>1 DEF Texts
      <3>2. CASE ~e.has_value
        <4>1. i + 1 \in 1 .. Len(argv) BY <2>5, <2>6, <3>2
        <4>2. argv[i + 1] \in Entries BY <4>1
        <4>3. QED BY <1>5, <2>6, <3>2, <4>2 DEF Texts, Text
      <3>3. QED BY <3>1, <3>2
    <2>8. c[1] \in ArgData /\ c[2] \in Nat /\ (arg.type = "str" => c[1][1] = "str")
      BY <1>8, <2>2, <2>7, ConvertFacts
    <2>9. GivesAt(arg.type, arg.action, argv, i, Count(id) + 1) = c[1]
      <3>1. text = IF e.dashes = 0 \/ e.has_value THEN e.value ELSE Text(argv[i + 1])
        BY <1>5, <1>9, <2>6
      <3>2. QED BY <1>1, <1>9, <1>14, <2>2, <3>1 DEF GivesAt
    <2>10. Fits(arg, c[1]) BY <1>14, <2>8 DEF Fits
    <2>11. TakesValue(e) => i < Len(argv) BY <1>10, <2>6
    <2>12. QED BY <1>1, <1>4, <1>8, <2>3, <2>4, <2>8, <2>9, <2>10, <2>11, Zenon DEF Stores
  <1>15. QED BY <1>8, <1>11, <1>12, <1>13, <1>14 DEF ArgActions

\* And so does cli_parser_parse_positional_argument.
LEMMA PositionalStores ==
    ASSUME CliType, Declared, NEW argv \in Seq(Entries), NEW i \in 1 .. Len(argv),
           argv[i].dashes = 0, NEW r, r = ParsePositional(argv[i])
    PROVE  \/ \E error \in CliErrors : r = Fails(error)
           \/ /\ parse.pos_index < Len(cli.positional)
              /\ Stores(r, cli.positional[parse.pos_index + 1], argv, i)
  <1>1. PICK e \in Entries : e = argv[i] OBVIOUS
  <1>2. parse.pos_index \in Nat /\ Len(cli.positional) \in Nat BY LenProperties DEF CliType
  <1>3. CASE parse.pos_index >= Len(cli.positional)
    BY <1>1, <1>3 DEF ParsePositional, CliErrors
  <1>4. CASE ~(parse.pos_index >= Len(cli.positional))
    <2>1. PICK id : id = cli.positional[parse.pos_index + 1] OBVIOUS
    <2>2. parse.pos_index < Len(cli.positional) /\ parse.pos_index + 1 \in 1 .. Len(cli.positional)
      BY <1>2, <1>4
    <2>3. id \in Ids /\ cli.args[id].mode = "positional" /\ cli.args[id].action = "store"
      BY <2>1, <2>2 DEF Declared
    <2>4. PICK arg : arg = cli.args[id] OBVIOUS
    <2>5. arg.type \in ArgTypes BY <2>3, <2>4, ArgFacts
    <2>6. PICK c : c = Convert(arg.type, e.value) OBVIOUS
    <2>7. e.value \in Texts BY DEF Texts
    <2>8. c[1] \in ArgData /\ c[2] \in Nat /\ (arg.type = "str" => c[1][1] = "str")
      BY <2>5, <2>6, <2>7, ConvertFacts
    <2>9. CASE ~ValidType(arg.type, e.value)
      BY <1>1, <1>4, <2>1, <2>4, <2>9 DEF ParsePositional, StoreText, CliErrors
    <2>10. CASE ValidType(arg.type, e.value)
      <3>1. r = Holds(id, c[1], c[2], 0)
        BY <1>1, <1>4, <2>1, <2>4, <2>6, <2>10 DEF ParsePositional, StoreText
      <3>2. ~TakesValue(e) BY <1>1 DEF TakesValue
      <3>3. (IF TakesValue(e) THEN 1 ELSE 0) = 0 BY <3>2
      <3>4. GivesAt(arg.type, arg.action, argv, i, Count(id) + 1) = c[1]
        BY <1>1, <2>6 DEF GivesAt
      <3>5. Fits(arg, c[1]) BY <2>3, <2>4, <2>8 DEF Fits
      <3>6. Stores(r, id, argv, i)
        BY <1>1, <2>3, <2>4, <2>8, <3>1, <3>2, <3>3, <3>4, <3>5, Zenon DEF Stores
      <3>7. QED BY <2>1, <2>2, <3>6
    <2>11. QED BY <2>9, <2>10
  <1>5. QED BY <1>3, <1>4

-----------------------------------------------------------------------------
(* A turn that fails *)

\* The loop ends; what is stored stays.
Halted ==
    /\ parse' = [parse EXCEPT !.stage = "done"]
    /\ \E error \in CliErrors : cli' = [cli EXCEPT !.error = error]

\* A turn that ends the loop, with an error or for help, keeps the invariant.
LEMMA HaltedKeeps == ASSUME CliInv, parse.stage = "loop", Halted PROVE CliInv'
  <1>1. PICK error \in CliErrors : cli' = [cli EXCEPT !.error = error] BY DEF Halted
  <1>2. CliType' BY <1>1 DEF CliInv, CliType, Halted
  <1>3. /\ cli'.stage = "open" /\ cli'.args = cli.args /\ cli'.args_map = cli.args_map
        /\ cli'.short_names_map = cli.short_names_map /\ cli'.positional = cli.positional
        /\ cli'.strings = cli.strings /\ cli.stage = "open"
    BY <1>1 DEF CliInv, CliType, Looping
  <1>4. parse'.stage = "done" /\ parse'.argv = parse.argv /\ ~parse'.ok
    BY DEF CliInv, CliType, Looping, Halted
  <1>5. SameArgs BY <1>3 DEF SameArgs, CliInv, CliType
  <1>6. Declared' /\ Ids' = Ids BY <1>5, DeclaredKept DEF CliInv
  <1>7. GivenOnce' <=> GivenOnce BY <1>4, <1>5, OnceKept DEF CliInv
  <1>8. StringIds' = StringIds BY <1>3, <1>6, Zenon DEF StringIds
  <1>9. Fitting' BY <1>3, <1>6 DEF Fitting, CliInv
  <1>10. Counted' BY <1>3, <1>4, <1>7, <1>8 DEF Counted, CliInv
  <1>11. Blank' /\ Looping' /\ Finished' /\ Aborted'
    BY <1>3, <1>4 DEF Blank, Looping, Finished, Aborted
  <1>12. QED BY <1>2, <1>6, <1>9, <1>10, <1>11 DEF CliInv

-----------------------------------------------------------------------------
(* A turn that stores *)

\* A finite set of numbers that is not empty has a greatest member.
LEMMA NatMax ==
    ASSUME NEW n \in Nat, NEW S \in SUBSET (1 .. n), S # {}
    PROVE  \E m \in S : \A j \in S : j <= m
  <1>1. PICK B : B = {m \in Nat : \A j \in S : j <= m} OBVIOUS
  <1>2. n \in B BY <1>1
  <1>3. PICK m \in B : \A k \in B : m <= k BY <1>1, <1>2, NatMin
  <1>4. m \in Nat /\ \A j \in S : j <= m BY <1>1
  <1>5. CASE m \in S BY <1>4, <1>5
  <1>6. CASE m \notin S
    <2>1. \A j \in S : j \in Nat /\ 1 <= j /\ j < m BY <1>4, <1>6
    <2>0. PICK x \in S : TRUE OBVIOUS
    <2>2. m - 1 \in Nat /\ ~(m <= m - 1) BY <1>4, <2>0, <2>1
    <2>3. \A j \in S : j <= m - 1 BY <1>4, <2>1
    <2>4. m - 1 \in B BY <1>1, <2>2, <2>3
    <2>5. QED BY <1>3, <2>2, <2>4
  <1>7. QED BY <1>5, <1>6

\* Only counters depend on the number of entries.
LEMMA GivesAtAny ==
    ASSUME NEW type, NEW action, NEW argv, NEW i, NEW m, NEW n,
           argv[i].dashes = 0 \/ action # "count"
    PROVE  GivesAt(type, action, argv, i, m) = GivesAt(type, action, argv, i, n)
  BY DEF GivesAt

\* The entries for an argument are among those looked at.
LEMMA HitsFacts ==
    ASSUME NEW argv, NEW id, NEW n \in Nat
    PROVE  Hits(argv, id, n) \in SUBSET (1 .. n)
  BY DEF Hits

\* The parser in the loop, at entry i.
At(argv, i) ==
    /\ CliInv /\ parse.stage = "loop" /\ argv \in Seq(Entries) /\ argv = parse.argv
    /\ i = parse.i /\ i \in 1 .. Len(argv)

\* A counter counts the entries that were for it.
LEMMA CountsHits ==
    ASSUME NEW argv, NEW i, At(argv, i), NEW id \in Ids, cli.args[id].action = "count"
    PROVE  Count(id) = Cardinality(Hits(argv, id, i - 1))
  <1>1. PICK n \in Nat : n = i - 1 BY DEF At
  <1>2. PICK hits \in SUBSET (1 .. n) : hits = Hits(argv, id, n) BY HitsFacts
  <1>3. cli.args[id].data = Gives(cli.args[id].type, "count", argv, hits)
    BY <1>1, <1>2 DEF At, CliInv, Looping
  <1>4. CASE hits = {}
    <2>1. cli.args[id].data = Unset BY <1>3, <1>4 DEF Gives
    <2>2. QED BY <1>1, <1>2, <1>4, <2>1, FS_EmptySet DEF Count
  <1>5. CASE hits # {}
    <2>1. PICK last : last = CHOOSE k \in hits : \A j \in hits : j <= k OBVIOUS
    <2>2. last \in hits
      <3>1. \E k \in hits : \A j \in hits : j <= k BY <1>5, NatMax
      <3>2. QED BY <2>1, <3>1
    <2>3. last \in 1 .. n /\ IsHead(argv)[last] /\ IsFor(argv, last) = id BY <1>2, <2>2 DEF Hits
    <2>4. argv[last].dashes # 0
      <3>1. SUFFICES ASSUME argv[last].dashes = 0 PROVE FALSE OBVIOUS
      <3>2. argv \in Seq(Entries) /\ CliType /\ Declared
            /\ Cardinality(Loose(argv, n)) <= Len(cli.positional)
        BY <1>1 DEF At, CliInv, Looping
      <3>3. cli.args[IsFor(argv, last)].action = "store" BY <2>3, <3>1, <3>2, PlaceFacts
      <3>4. QED BY <2>3, <3>3
    <2>5. cli.args[id].data = GivesAt(cli.args[id].type, "count", argv, last, Cardinality(hits))
      BY <1>3, <1>5, <2>1 DEF Gives
    <2>6. cli.args[id].data = <<"i64", Cardinality(hits)>> BY <2>4, <2>5 DEF GivesAt
    <2>7. cli.args[id].data # Unset /\ cli.args[id].data[2] = Cardinality(hits)
      BY <2>6 DEF Unset
    <2>8. QED BY <1>1, <1>2, <2>7 DEF Count
  <1>6. QED BY <1>4, <1>5

\* The entry that was taken for a value begins no argument.
LEMMA SeenFacts ==
    ASSUME NEW argv, NEW i, At(argv, i), TakesValue(argv[i]) => i < Len(argv),
           NEW n, n = IF TakesValue(argv[i]) THEN i + 1 ELSE i
    PROVE  /\ n \in i .. Len(argv) /\ IsHead(argv)[i]
           /\ n + 1 <= Len(argv) => IsHead(argv)[n + 1]
           /\ \A j \in 1 .. n : IsHead(argv)[j] => j \in 1 .. i
  <1>1. argv \in Seq(Entries) /\ i \in 1 .. Len(argv) /\ Len(argv) \in Nat /\ IsHead(argv)[i]
    BY LenProperties DEF At, CliInv, Looping
  <1>2. CASE TakesValue(argv[i])
    <2>1. n = i + 1 /\ n \in 1 .. Len(argv) BY <1>1, <1>2
    <2>2. ~IsHead(argv)[n] BY <1>1, <1>2, <2>1, HeadFacts
    <2>3. n + 1 \in 1 .. Len(argv) => IsHead(argv)[n + 1] BY <1>1, <2>1, <2>2, HeadFacts
    <2>4. \A j \in 1 .. n : j = n \/ j \in 1 .. i BY <1>1, <2>1
    <2>5. n \in i .. Len(argv) /\ (n + 1 <= Len(argv) => n + 1 \in 1 .. Len(argv)) BY <1>1, <2>1
    <2>6. QED BY <1>1, <2>2, <2>3, <2>4, <2>5, Zenon
  <1>3. CASE ~TakesValue(argv[i])
    <2>1. n = i BY <1>3
    <2>2. i + 1 \in 1 .. Len(argv) => IsHead(argv)[i + 1] BY <1>1, <1>3, HeadFacts
    <2>3. i \in i .. Len(argv) /\ (i + 1 <= Len(argv) => i + 1 \in 1 .. Len(argv)) BY <1>1
    <2>4. QED BY <1>1, <2>1, <2>2, <2>3, Zenon
  <1>4. QED BY <1>2, <1>3

\* The sets of entries that were looked at grow by entry i.
LEMMA SeenSets ==
    ASSUME NEW argv, NEW i, At(argv, i), NEW n \in i .. Len(argv), IsHead(argv)[i],
           \A j \in 1 .. n : IsHead(argv)[j] => j \in 1 .. i
    PROVE  /\ Loose(argv, n) = Loose(argv, i)
           /\ argv[i].dashes = 0 => Loose(argv, i) = Loose(argv, i - 1) \cup {i}
           /\ argv[i].dashes # 0 => Loose(argv, i) = Loose(argv, i - 1)
           /\ \A id : id # IsFor(argv, i) => Hits(argv, id, n) = Hits(argv, id, i - 1)
           /\ \A id : id = IsFor(argv, i) => Hits(argv, id, n) = Hits(argv, id, i - 1) \cup {i}
  <1>1. i \in Nat /\ i >= 1 /\ n \in Nat /\ i <= n BY LenProperties DEF At
  <1>2. 1 .. i \subseteq 1 .. n /\ i \in 1 .. i /\ i \in 1 .. n BY <1>1
  <1>3. 1 .. i = (1 .. (i - 1)) \cup {i} /\ 1 .. (i - 1) \subseteq 1 .. n BY <1>1
  <1>4. Loose(argv, n) = Loose(argv, i) BY <1>2 DEF Loose
  <1>5. argv[i].dashes = 0 => Loose(argv, i) = Loose(argv, i - 1) \cup {i} BY <1>3 DEF Loose
  <1>6. argv[i].dashes # 0 => Loose(argv, i) = Loose(argv, i - 1) BY <1>3 DEF Loose
  <1>7. ASSUME NEW id PROVE Hits(argv, id, n) = {j \in 1 .. i : IsHead(argv)[j] /\ IsFor(argv, j) = id}
    BY <1>2 DEF Hits
  <1>8. \A id : id # IsFor(argv, i) => Hits(argv, id, n) = Hits(argv, id, i - 1)
    BY <1>3, <1>7 DEF Hits
  <1>9. \A id : id = IsFor(argv, i) => Hits(argv, id, n) = Hits(argv, id, i - 1) \cup {i}
    BY <1>3, <1>7 DEF Hits
  <1>10. QED BY <1>4, <1>5, <1>6, <1>8, <1>9

\* The number of the positional argument that entry i is for.
LEMMA LooseNext ==
    ASSUME NEW argv, NEW i, At(argv, i), IsHead(argv)[i],
           argv[i].dashes = 0 => parse.pos_index < Len(cli.positional)
    PROVE  /\ Len(cli.positional) \in Nat /\ parse.pos_index \in Nat
           /\ Cardinality(Loose(argv, i)) <= Len(cli.positional)
           /\ Cardinality(Loose(argv, i)) = IF argv[i].dashes = 0 THEN parse.pos_index + 1
                                            ELSE parse.pos_index
  <1>1. /\ Len(cli.positional) \in Nat /\ parse.pos_index \in Nat /\ i \in Nat /\ i - 1 \in Nat
        /\ parse.pos_index = Cardinality(Loose(argv, i - 1)) /\ parse.pos_index <= Len(cli.positional)
    BY LenProperties DEF At, CliInv, CliType, Looping
  <1>2. i \in i .. Len(argv) /\ \A j \in 1 .. i : IsHead(argv)[j] => j \in 1 .. i
    BY LenProperties DEF At
  <1>3. CASE argv[i].dashes = 0
    <2>1. Loose(argv, i) = Loose(argv, i - 1) \cup {i} BY <1>2, <1>3, SeenSets
    <2>2. Loose(argv, i - 1) \in SUBSET (1 .. (i - 1)) /\ IsFiniteSet(Loose(argv, i - 1))
      BY <1>1, LooseFacts
    <2>3. i \notin Loose(argv, i - 1) BY <1>1, <2>2
    <2>4. PICK L : L = Loose(argv, i - 1) OBVIOUS
    <2>5. Cardinality(L \cup {i}) = Cardinality(L) + 1 BY <2>2, <2>3, <2>4, FS_AddElement
    <2>6. Cardinality(Loose(argv, i)) = parse.pos_index + 1 BY <1>1, <2>1, <2>4, <2>5, Zenon
    <2>7. QED BY <1>1, <1>3, <2>6
  <1>4. CASE argv[i].dashes # 0
    <2>1. Loose(argv, i) = Loose(argv, i - 1) BY <1>2, <1>4, SeenSets
    <2>2. QED BY <1>1, <1>4, <2>1
  <1>5. QED BY <1>3, <1>4

\* Where each argument is given once, nothing was given to the argument of
\* entry i before.
LEMMA FirstHit ==
    ASSUME NEW argv, NEW i, At(argv, i), IsHead(argv)[i], GivenOnce, IsFor(argv, i) \in Ids,
           argv[i].dashes = 0 => parse.pos_index < Len(cli.positional)
    PROVE  Hits(argv, IsFor(argv, i), i - 1) = {}
  <1>1. SUFFICES ASSUME NEW j \in Hits(argv, IsFor(argv, i), i - 1) PROVE FALSE OBVIOUS
  <1>2. argv \in Seq(Entries) /\ argv = parse.argv /\ CliType /\ Declared /\ i \in Nat /\ i - 1 \in Nat
    BY LenProperties DEF At, CliInv
  <1>3. j \in 1 .. (i - 1) /\ j \in 1 .. i /\ j < i /\ IsHead(argv)[j] /\ IsFor(argv, j) = IsFor(argv, i)
    BY <1>1, <1>2 DEF Hits
  <1>4. i \in 1 .. Len(argv) /\ j \in 1 .. Len(argv) /\ i \in 1 .. i
    BY <1>2, <1>3, LenProperties DEF At
  <1>5. argv[i].dashes \in Nat /\ argv[j].dashes \in Nat
    BY <1>2, <1>4, CliAssumption DEF CliAssumption
  <1>6. /\ \A k, l \in NamedHeads(argv) : FindArg(argv[k]) = FindArg(argv[l]) => k = l
        /\ \A k \in NamedHeads(argv) : cli.args[FindArg(argv[k])].mode # "positional"
    BY <1>2, OnceFacts, Zenon DEF OnceRight
  <1>7. Cardinality(Loose(argv, i)) <= Len(cli.positional) BY LooseNext
  <1>8. \A k \in {i, j} : argv[k].dashes = 0 =>
            /\ Cardinality(Loose(argv, k)) \in 1 .. Len(cli.positional)
            /\ IsFor(argv, k) = cli.positional[Cardinality(Loose(argv, k))]
            /\ cli.args[IsFor(argv, k)].mode = "positional"
    BY <1>2, <1>3, <1>4, <1>7, PlaceFacts
  <1>9. \A k \in {i, j} : argv[k].dashes # 0 => k \in NamedHeads(argv) /\ FindArg(argv[k]) = IsFor(argv, k)
    <2>1. SUFFICES ASSUME NEW k \in {i, j}, argv[k].dashes # 0
                   PROVE  k \in NamedHeads(argv) /\ FindArg(argv[k]) = IsFor(argv, k)
      OBVIOUS
    <2>2. argv[k].dashes > 0 BY <1>5, <2>1
    <2>3. FindArg(argv[k]) = IsFor(argv, k) BY <2>2 DEF IsFor
    <2>4. IsFor(argv, k) # 0 BY <1>2, <1>3 DEF Ids
    <2>5. QED BY <1>3, <1>4, <2>2, <2>3, <2>4 DEF NamedHeads
  <1>10. CASE argv[i].dashes # 0 /\ argv[j].dashes # 0 BY <1>3, <1>2, <1>6, <1>9, <1>10
  <1>11. CASE argv[i].dashes # 0 /\ argv[j].dashes = 0 BY <1>3, <1>6, <1>8, <1>9, <1>11
  <1>12. CASE argv[i].dashes = 0 /\ argv[j].dashes # 0 BY <1>3, <1>6, <1>8, <1>9, <1>12
  <1>13. CASE argv[i].dashes = 0 /\ argv[j].dashes = 0
    <2>0. PICK a, b : a = Cardinality(Loose(argv, i)) /\ b = Cardinality(Loose(argv, j)) OBVIOUS
    <2>a. /\ a \in 1 .. Len(cli.positional) /\ b \in 1 .. Len(cli.positional)
          /\ cli.positional[a] = cli.positional[b]
      BY <1>3, <1>8, <1>13, <2>0
    <2>1. Cardinality(Loose(argv, i)) = Cardinality(Loose(argv, j)) BY <1>2, <2>0, <2>a DEF Declared
    <2>2. Loose(argv, j) \subseteq Loose(argv, i) /\ i \in Loose(argv, i) /\ i \notin Loose(argv, j)
      BY <1>2, <1>3, <1>4, <1>13 DEF Loose
    <2>3. IsFiniteSet(Loose(argv, i)) BY <1>2, LooseFacts
    <2>4. Loose(argv, j) = Loose(argv, i) BY <2>1, <2>2, <2>3, FS_Subset
    <2>5. QED BY <2>2, <2>4
  <1>14. QED BY <1>10, <1>11, <1>12, <1>13

\* One argument gets a value.
SetTo(new, args, id, data, sz) == new = [args EXCEPT ![id].data = data, ![id].sz = sz]

\* The declaration of no argument changes, and the data of one.
LEMMA SetArg ==
    ASSUME NEW args \in Seq(Args), NEW id \in 1 .. Len(args), NEW data \in ArgData, NEW sz \in Nat,
           NEW new, SetTo(new, args, id, data, sz)
    PROVE  /\ new \in Seq(Args) /\ Len(new) = Len(args)
           /\ new[id].data = data
           /\ \A k \in 1 .. Len(args) : /\ k # id => new[k] = args[k]
                                        /\ new[k].mode = args[k].mode /\ new[k].type = args[k].type
                                        /\ new[k].action = args[k].action /\ new[k].name = args[k].name
  <1>1. args[id] \in Args OBVIOUS
  <1>2. PICK a : a = [args[id] EXCEPT !.data = data, !.sz = sz] OBVIOUS
  <1>3. /\ a \in Args /\ a.data = data /\ a.mode = args[id].mode /\ a.type = args[id].type
        /\ a.action = args[id].action /\ a.name = args[id].name
    BY <1>1, <1>2 DEF Args
  <1>4. new = [args EXCEPT ![id] = a] BY <1>1, <1>2 DEF Args, SetTo
  <1>5. /\ new \in Seq(Args) /\ Len(new) = Len(args)
        /\ \A k \in 1 .. Len(args) : new[k] = IF k = id THEN a ELSE args[k]
    BY <1>3, <1>4, ExceptSeq
  <1>6. \A k \in 1 .. Len(args) : k # id => new[k] = args[k] BY <1>5
  <1>7. new[id] = a BY <1>5
  <1>8. \A k \in 1 .. Len(args) : /\ new[k].mode = args[k].mode /\ new[k].type = args[k].type
                                  /\ new[k].action = args[k].action /\ new[k].name = args[k].name
    BY <1>3, <1>6, <1>7
  <1>9. QED BY <1>3, <1>5, <1>6, <1>7, <1>8

\* A turn stored data in argument id; n is the last entry it used.
Advanced(argv, i, id, n, data, sz) ==
    /\ At(argv, i) /\ id = IsFor(argv, i) /\ id \in Ids /\ data \in ArgData /\ sz \in Nat
    /\ Fits(cli.args[id], data) /\ (TakesValue(argv[i]) => i < Len(argv))
    /\ data = GivesAt(cli.args[id].type, cli.args[id].action, argv, i, Count(id) + 1)
    /\ argv[i].dashes = 0 => parse.pos_index < Len(cli.positional)
    /\ n = IF TakesValue(argv[i]) THEN i + 1 ELSE i
    /\ cli' = [cli EXCEPT !.args = [cli.args EXCEPT ![id].data = data, ![id].sz = sz],
                  !.strings = cli.strings + (IF data[1] = "str" THEN 1 ELSE 0),
                  !.error = cli.error]
    /\ parse' = [parse EXCEPT !.i = n + 1,
                    !.pos_index = IF argv[i].dashes > 0 THEN @ ELSE @ + 1]

\* What it leaves as it is.
LEMMA AdvancedFacts ==
    ASSUME NEW argv, NEW i, NEW id, NEW n, NEW data, NEW sz, Advanced(argv, i, id, n, data, sz)
    PROVE  /\ CliType' /\ SameArgs /\ Ids' = Ids /\ Declared'
           /\ cli'.stage = "open" /\ parse'.stage = "loop" /\ parse'.argv = argv /\ ~parse'.ok
           /\ parse'.i = n + 1 /\ n \in i .. Len(argv) /\ IsHead(argv)[i]
           /\ n + 1 <= Len(argv) => IsHead(argv)[n + 1]
           /\ \A j \in 1 .. n : IsHead(argv)[j] => j \in 1 .. i
           /\ parse'.pos_index = IF argv[i].dashes = 0 THEN parse.pos_index + 1 ELSE parse.pos_index
           /\ cli'.args[id].data = data
           /\ \A k \in Ids : k # id => cli'.args[k].data = cli.args[k].data
           /\ cli'.strings = cli.strings + (IF data[1] = "str" THEN 1 ELSE 0)
  <1>1. CliInv /\ parse.stage = "loop" /\ argv \in Seq(Entries) /\ argv = parse.argv /\ i = parse.i
        /\ i \in 1 .. Len(argv) /\ cli.stage = "open" /\ ~parse.ok
    BY DEF Advanced, At, CliInv, Looping
  <1>2. /\ n \in i .. Len(argv) /\ IsHead(argv)[i] /\ (n + 1 <= Len(argv) => IsHead(argv)[n + 1])
        /\ \A j \in 1 .. n : IsHead(argv)[j] => j \in 1 .. i
    BY SeenFacts DEF Advanced
  <1>3. PICK new : new = [cli.args EXCEPT ![id].data = data, ![id].sz = sz] OBVIOUS
  <1>4. cli.args \in Seq(Args) /\ id \in 1 .. Len(cli.args) /\ data \in ArgData /\ sz \in Nat
    BY <1>1 DEF Advanced, CliInv, CliType, Ids
  <1>5. /\ new \in Seq(Args) /\ Len(new) = Len(cli.args) /\ new[id].data = data
        /\ \A k \in Ids : /\ k # id => new[k] = cli.args[k]
                          /\ new[k].mode = cli.args[k].mode /\ new[k].type = cli.args[k].type
                          /\ new[k].action = cli.args[k].action /\ new[k].name = cli.args[k].name
    <2>1. PICK args \in Seq(Args) : args = cli.args BY <1>4
    <2>2. id \in 1 .. Len(args) /\ SetTo(new, args, id, data, sz)
      BY <1>3, <1>4, <2>1 DEF SetTo
    <2>3. /\ new \in Seq(Args) /\ Len(new) = Len(args) /\ new[id].data = data
          /\ \A k \in 1 .. Len(args) :
                /\ k # id => new[k] = args[k]
                /\ new[k].mode = args[k].mode /\ new[k].type = args[k].type
                /\ new[k].action = args[k].action /\ new[k].name = args[k].name
      BY <1>4, <2>2, SetArg
    <2>4. QED BY <2>1, <2>3, Zenon DEF Ids
  <1>6. PICK s \in Int : s = cli.strings + (IF data[1] = "str" THEN 1 ELSE 0)
    BY <1>1 DEF CliInv, CliType
  <1>7. cli' = [cli EXCEPT !.args = new, !.strings = s, !.error = cli.error]
    BY <1>3, <1>6, Zenon DEF Advanced
  <1>8. /\ cli'.stage = cli.stage /\ cli'.args = new /\ cli'.args_map = cli.args_map
        /\ cli'.short_names_map = cli.short_names_map /\ cli'.positional = cli.positional
        /\ cli'.strings = s /\ cli'.error = cli.error
        /\ cli' \in [stage : {"none", "open", "released", "aborted"}, args : Seq(Args),
                args_map : ArgMaps, short_names_map : ArgMaps, positional : Seq(Nat),
                strings : Int, error : CliErrors]
    BY <1>1, <1>5, <1>7 DEF CliInv, CliType
  <1>9. argv[i].dashes \in Nat /\ parse.pos_index \in Nat
    BY <1>1, CliAssumption DEF CliAssumption, CliInv, CliType
  <1>10. PICK p \in Nat : p = IF argv[i].dashes = 0 THEN parse.pos_index + 1 ELSE parse.pos_index
    BY <1>9
  <1>11. p = IF argv[i].dashes > 0 THEN parse.pos_index ELSE parse.pos_index + 1 BY <1>9, <1>10
  <1>12. parse' = [parse EXCEPT !.i = n + 1, !.pos_index = p]
    BY <1>11 DEF Advanced
  <1>13. n + 1 \in Nat BY <1>1, <1>2, LenProperties
  <1>14. /\ parse' \in [stage : {"none", "loop", "done"}, argv : Seq(Entries), i : Nat,
                        pos_index : Nat, ok : BOOLEAN]
         /\ parse'.stage = "loop" /\ parse'.argv = argv /\ parse'.i = n + 1 /\ parse'.pos_index = p
         /\ ~parse'.ok
    BY <1>1, <1>12, <1>13 DEF CliInv, CliType
  <1>15. CliType' BY <1>8, <1>14 DEF CliType
  <1>16. SameArgs BY <1>5, <1>8 DEF SameArgs
  <1>17. Declared' /\ Ids' = Ids BY <1>1, <1>16, DeclaredKept DEF CliInv
  <1>18. \A k \in Ids : k # id => cli'.args[k].data = cli.args[k].data BY <1>5, <1>8
  <1>19. cli'.args[id].data = data BY <1>5, <1>8
  <1>20. QED BY <1>1, <1>2, <1>6, <1>8, <1>10, <1>14, <1>15, <1>16, <1>17, <1>18, <1>19

\* The data is what the entries up to n give.
LEMMA AdvancedGives ==
    ASSUME NEW argv, NEW i, NEW id, NEW n, NEW data, NEW sz, Advanced(argv, i, id, n, data, sz)
    PROVE  \A k \in Ids : cli'.args[k].data
                = Gives(cli.args[k].type, cli.args[k].action, argv, Hits(argv, k, n))
  <1>1. /\ At(argv, i) /\ i \in Nat /\ i - 1 \in Nat /\ id \in Ids /\ id = IsFor(argv, i)
        /\ n \in i .. Len(argv)
        /\ IsHead(argv)[i] /\ \A j \in 1 .. n : IsHead(argv)[j] => j \in 1 .. i
    <2>1. At(argv, i) /\ i \in Nat /\ i - 1 \in Nat /\ id \in Ids /\ id = IsFor(argv, i)
      BY DEF Advanced, At
    <2>2. QED BY <2>1, AdvancedFacts
  <1>2. ASSUME NEW k \in Ids, k # id
        PROVE  cli'.args[k].data = Gives(cli.args[k].type, cli.args[k].action, argv, Hits(argv, k, n))
    <2>1. Hits(argv, k, n) = Hits(argv, k, i - 1) BY <1>1, <1>2, SeenSets
    <2>2. cli'.args[k].data = cli.args[k].data BY <1>2, AdvancedFacts
    <2>3. cli.args[k].data = Gives(cli.args[k].type, cli.args[k].action, argv, Hits(argv, k, i - 1))
      BY <1>1 DEF At, CliInv, Looping
    <2>4. QED BY <2>1, <2>2, <2>3
  <1>3. cli'.args[id].data = Gives(cli.args[id].type, cli.args[id].action, argv, Hits(argv, id, n))
    <2>1. PICK type, action : type = cli.args[id].type /\ action = cli.args[id].action OBVIOUS
    <2>2. PICK hits \in SUBSET (1 .. (i - 1)) : hits = Hits(argv, id, i - 1) BY <1>1, HitsFacts
    <2>3. Hits(argv, id, n) = hits \cup {i} BY <1>1, <2>2, SeenSets
    <2>4. Gives(type, action, argv, hits \cup {i}) = GivesAt(type, action, argv, i, Cardinality(hits) + 1)
      BY <1>1, GivesNext
    <2>5. cli'.args[id].data = GivesAt(type, action, argv, i, Count(id) + 1)
      <3>1. data = GivesAt(type, action, argv, i, Count(id) + 1) BY <2>1 DEF Advanced
      <3>2. QED BY <3>1, AdvancedFacts
    <2>6. GivesAt(type, action, argv, i, Count(id) + 1)
            = GivesAt(type, action, argv, i, Cardinality(hits) + 1)
      <3>1. CASE action = "count"
        <4>1. Count(id) = Cardinality(hits) BY <1>1, <2>1, <2>2, <3>1, CountsHits
        <4>2. QED BY <4>1
      <3>2. CASE action # "count" BY <3>2, GivesAtAny
      <3>3. QED BY <3>1, <3>2
    <2>7. QED BY <2>1, <2>3, <2>4, <2>5, <2>6, Zenon
  <1>4. QED BY <1>2, <1>3

\* Where each argument is given once, the strings are counted.
LEMMA AdvancedCounts ==
    ASSUME NEW argv, NEW i, NEW id, NEW n, NEW data, NEW sz, Advanced(argv, i, id, n, data, sz)
    PROVE  Counted'
  <1>1. /\ CliInv /\ At(argv, i) /\ parse.stage = "loop" /\ argv = parse.argv /\ cli.stage = "open"
        /\ id \in Ids /\ id = IsFor(argv, i) /\ IsHead(argv)[i] /\ argv = parse'.argv
        /\ (argv[i].dashes = 0 => parse.pos_index < Len(cli.positional))
        /\ cli'.stage = "open" /\ parse'.stage = "loop" /\ Ids' = Ids /\ SameArgs
    <2>1. /\ CliInv /\ At(argv, i) /\ parse.stage = "loop" /\ argv = parse.argv /\ cli.stage = "open"
          /\ id \in Ids /\ id = IsFor(argv, i)
          /\ (argv[i].dashes = 0 => parse.pos_index < Len(cli.positional))
      BY DEF Advanced, At, CliInv, Looping
    <2>2. QED BY <2>1, AdvancedFacts
  <1>2. SUFFICES ASSUME GivenOnce PROVE cli'.strings = Cardinality(StringIds')
    <2>1. GivenOnce' <=> GivenOnce BY <1>1, OnceKept DEF CliInv
    <2>2. QED BY <1>1, <2>1 DEF Counted
  <1>3. cli.strings = Cardinality(StringIds) BY <1>1, <1>2 DEF CliInv, Counted
  <1>4. Hits(argv, id, i - 1) = {} BY <1>1, <1>2, FirstHit
  <1>5. cli.args[id].data = Unset
    <2>1. cli.args[id].data = Gives(cli.args[id].type, cli.args[id].action, argv, Hits(argv, id, i - 1))
      BY <1>1 DEF At, CliInv, Looping
    <2>2. QED BY <1>4, <2>1 DEF Gives
  <1>6. id \notin StringIds BY <1>5 DEF StringIds, Unset
  <1>7. IsFiniteSet(StringIds)
    <2>1. Len(cli.args) \in Nat BY <1>1, LenProperties DEF CliInv, CliType
    <2>2. IsFiniteSet(Ids) BY <2>1, FS_Interval DEF Ids
    <2>3. StringIds \subseteq Ids BY DEF StringIds
    <2>4. QED BY <2>2, <2>3, FS_Subset
  <1>8. cli'.args[id].data = data /\ \A k \in Ids : k # id => cli'.args[k].data = cli.args[k].data
    BY AdvancedFacts
  <1>9. cli'.strings = cli.strings + (IF data[1] = "str" THEN 1 ELSE 0) BY AdvancedFacts
  <1>10. CASE data[1] = "str"
    <2>1. StringIds' = StringIds \cup {id} BY <1>1, <1>8, <1>10 DEF StringIds
    <2>2. Cardinality(StringIds \cup {id}) = Cardinality(StringIds) + 1 BY <1>6, <1>7, FS_AddElement
    <2>3. QED BY <1>3, <1>9, <1>10, <2>1, <2>2
  <1>11. CASE data[1] # "str"
    <2>1. StringIds' = StringIds BY <1>1, <1>6, <1>8, <1>11 DEF StringIds
    <2>2. Cardinality(StringIds) \in Nat BY <1>7, FS_CardinalityType
    <2>3. QED BY <1>3, <1>9, <1>11, <2>1, <2>2
  <1>12. QED BY <1>10, <1>11

\* A turn that stores keeps the invariant.
LEMMA AdvancedKeeps ==
    ASSUME NEW argv, NEW i, NEW id, NEW n, NEW data, NEW sz, Advanced(argv, i, id, n, data, sz)
    PROVE  CliInv'
  <1>1. /\ CliInv /\ At(argv, i) /\ argv \in Seq(Entries) /\ i \in 1 .. Len(argv) /\ Len(argv) \in Nat
        /\ (argv[i].dashes = 0 => parse.pos_index < Len(cli.positional)) /\ Fits(cli.args[id], data)
        /\ id \in Ids
    BY LenProperties DEF Advanced, At
  <1>2. /\ CliType' /\ SameArgs /\ Ids' = Ids /\ Declared'
        /\ cli'.stage = "open" /\ parse'.stage = "loop" /\ parse'.argv = argv /\ ~parse'.ok
        /\ parse'.i = n + 1 /\ n \in i .. Len(argv) /\ IsHead(argv)[i]
        /\ (n + 1 <= Len(argv) => IsHead(argv)[n + 1])
        /\ \A j \in 1 .. n : IsHead(argv)[j] => j \in 1 .. i
        /\ parse'.pos_index = IF argv[i].dashes = 0 THEN parse.pos_index + 1 ELSE parse.pos_index
    BY AdvancedFacts
  <1>3. IsHead(argv)' = IsHead(argv) BY <1>1, <1>2, HeadsKept DEF CliInv
  <1>4. /\ \A m : Loose(argv, m)' = Loose(argv, m)
        /\ \A k, m : Hits(argv, k, m)' = Hits(argv, k, m)
    BY <1>1, <1>2, MeaningKept DEF CliInv
  <1>5. Looping'
    <2>1. argv # <<>> BY <1>1
    <2>2. n + 1 \in 1 .. Len(argv) + 1 /\ (n + 1) - 1 = n BY <1>1, <1>2
    <2>3. n + 1 <= Len(argv) => IsHead(argv)'[n + 1] BY <1>2, <1>3
    <2>4. /\ parse'.pos_index = Cardinality(Loose(argv, n)')
          /\ parse'.pos_index <= Len(cli'.positional)
      <3>1. Loose(argv, n) = Loose(argv, i) BY <1>1, <1>2, SeenSets
      <3>2. /\ Cardinality(Loose(argv, i)) <= Len(cli.positional)
            /\ Cardinality(Loose(argv, i)) = parse'.pos_index
        BY <1>1, <1>2, LooseNext
      <3>3. cli'.positional = cli.positional BY <1>2 DEF SameArgs
      <3>4. QED BY <1>4, <3>1, <3>2, <3>3
    <2>5. \A k \in Ids : cli'.args[k].data
              = Gives(cli'.args[k].type, cli'.args[k].action, argv, Hits(argv, k, n)')
      BY <1>2, <1>4, AdvancedGives DEF SameArgs
    <2>6. QED BY <1>2, <2>1, <2>2, <2>3, <2>4, <2>5, Zenon DEF Looping
  <1>6. Fitting'
    <2>1. ASSUME NEW k \in Ids PROVE Fits(cli'.args[k], cli'.args[k].data)
      <3>1. cli'.args[k].type = cli.args[k].type /\ cli'.args[k].action = cli.args[k].action
        BY <1>2 DEF SameArgs
      <3>2. Fits(cli.args[k], cli'.args[k].data)
        <4>1. CASE k = id BY <1>1, <4>1, AdvancedFacts
        <4>2. CASE k # id
          <5>1. cli'.args[k].data = cli.args[k].data BY <4>2, AdvancedFacts
          <5>2. QED BY <1>1, <5>1 DEF CliInv, Fitting
        <4>3. QED BY <4>1, <4>2
      <3>3. QED BY <3>1, <3>2, Zenon DEF Fits
    <2>2. QED BY <1>2, <2>1, Zenon DEF Fitting
  <1>7. Counted' BY AdvancedCounts
  <1>8. Blank' /\ Finished' /\ Aborted' BY <1>2 DEF Blank, Finished, Aborted
  <1>9. QED BY <1>2, <1>5, <1>6, <1>7, <1>8 DEF CliInv

-----------------------------------------------------------------------------
(* The turn *)

\* Every turn ends the loop or stores what its entry gives.
LEMMA TurnKeeps == ASSUME CliInv, CliTurn PROVE CliInv'
  <1>1. PICK argv \in Seq(Entries) : argv = parse.argv BY DEF CliInv, CliType
  <1>2. PICK i : i = parse.i OBVIOUS
  <1>3. parse.stage = "loop" /\ i <= Len(argv) BY <1>1, <1>2 DEF CliTurn
  <1>4. i \in 1 .. Len(argv) BY <1>1, <1>2, <1>3, LenProperties DEF CliInv, Looping
  <1>5. At(argv, i) BY <1>1, <1>2, <1>3, <1>4 DEF At
  <1>6. PICK e \in Entries : e = argv[i] BY <1>4
  <1>7. e.dashes \in Nat BY CliAssumption DEF CliAssumption
  <1>8. PICK r : r = IF e.dashes > 0 THEN ParseNamed(e, SubSeq(argv, i + 1, Len(argv)))
                     ELSE ParsePositional(e)
    OBVIOUS
  <1>9. CASE IsHelp(e)
    <2>1. parse' = [parse EXCEPT !.stage = "done"] /\ cli' = cli BY <1>1, <1>2, <1>6, <1>9 DEF CliTurn
    <2>2. cli.error \in CliErrors /\ cli = [cli EXCEPT !.error = cli.error] BY DEF CliInv, CliType
    <2>3. Halted BY <2>1, <2>2 DEF Halted
    <2>4. QED BY <1>3, <2>3, HaltedKeeps
  <1>10. CASE ~IsHelp(e)
    <2>1. /\ cli' = [cli EXCEPT !.args = r.args, !.strings = r.strings, !.error = r.error]
          /\ parse' = IF ~r.ok THEN [parse EXCEPT !.stage = "done"]
                      ELSE [parse EXCEPT !.i = @ + 1 + r.offset,
                              !.pos_index = IF e.dashes > 0 THEN @ ELSE @ + 1]
      BY <1>1, <1>2, <1>6, <1>8, <1>10, Zenon DEF CliTurn
    <2>2. CASE \E error \in CliErrors : r = Fails(error)
      <3>1. PICK error \in CliErrors : r = Fails(error) BY <2>2
      <3>2. ~r.ok /\ r.args = cli.args /\ r.strings = cli.strings /\ r.error = error
        BY <3>1 DEF Fails
      <3>3. cli' = [cli EXCEPT !.error = error] BY <2>1, <3>2 DEF CliInv, CliType
      <3>4. Halted BY <2>1, <3>2, <3>3 DEF Halted
      <3>5. QED BY <1>3, <3>4, HaltedKeeps
    <2>3. CASE /\ Stores(r, IsFor(argv, i), argv, i)
               /\ argv[i].dashes = 0 => parse.pos_index < Len(cli.positional)
      <3>1. PICK id : id = IsFor(argv, i) OBVIOUS
      <3>2. PICK data \in ArgData, sz \in Nat :
                /\ id \in Ids /\ Fits(cli.args[id], data)
                /\ r = Holds(id, data, sz, IF TakesValue(argv[i]) THEN 1 ELSE 0)
                /\ TakesValue(argv[i]) => i < Len(argv)
                /\ data = GivesAt(cli.args[id].type, cli.args[id].action, argv, i, Count(id) + 1)
        BY <2>3, <3>1 DEF Stores
      <3>3. PICK n : n = IF TakesValue(argv[i]) THEN i + 1 ELSE i OBVIOUS
      <3>4. /\ r.ok /\ r.args = [cli.args EXCEPT ![id].data = data, ![id].sz = sz]
            /\ r.strings = cli.strings + (IF data[1] = "str" THEN 1 ELSE 0)
            /\ r.error = cli.error /\ r.offset = IF TakesValue(argv[i]) THEN 1 ELSE 0
        BY <3>2 DEF Holds
      <3>5. i + 1 + r.offset = n + 1 BY <1>4, <3>3, <3>4
      <3>6. parse' = [parse EXCEPT !.i = n + 1, !.pos_index = IF argv[i].dashes > 0 THEN @ ELSE @ + 1]
        BY <1>2, <1>6, <2>1, <3>4, <3>5
      <3>7. cli' = [cli EXCEPT !.args = [cli.args EXCEPT ![id].data = data, ![id].sz = sz],
                      !.strings = cli.strings + (IF data[1] = "str" THEN 1 ELSE 0),
                      !.error = cli.error]
        BY <2>1, <3>4, Zenon
      <3>8. Advanced(argv, i, id, n, data, sz)
        BY <1>5, <2>3, <3>1, <3>2, <3>3, <3>6, <3>7, Zenon DEF Advanced
      <3>9. QED BY <3>8, AdvancedKeeps
    <2>4. CASE e.dashes > 0
      <3>1. r = ParseNamed(argv[i], SubSeq(argv, i + 1, Len(argv))) BY <1>6, <1>8, <2>4
      <3>2. (\E error \in CliErrors : r = Fails(error)) \/ Stores(r, FindArg(argv[i]), argv, i)
        BY <1>4, <1>6, <2>4, <3>1, NamedStores DEF CliInv
      <3>3. IsFor(argv, i) = FindArg(argv[i]) BY <1>6, <2>4 DEF IsFor
      <3>4. argv[i].dashes # 0 BY <1>6, <2>4
      <3>5. QED BY <2>2, <2>3, <3>2, <3>3, <3>4
    <2>5. CASE ~(e.dashes > 0)
      <3>1. e.dashes = 0 /\ r = ParsePositional(argv[i]) BY <1>6, <1>7, <1>8, <2>5
      <3>2. \/ \E error \in CliErrors : r = Fails(error)
            \/ /\ parse.pos_index < Len(cli.positional)
               /\ Stores(r, cli.positional[parse.pos_index + 1], argv, i)
        BY <1>4, <1>6, <3>1, PositionalStores DEF CliInv
      <3>3. ASSUME parse.pos_index < Len(cli.positional)
            PROVE  IsFor(argv, i) = cli.positional[parse.pos_index + 1]
        <4>1. IsHead(argv)[i] BY <1>1, <1>2, <1>3, <1>4 DEF CliInv, Looping
        <4>2. /\ Cardinality(Loose(argv, i)) <= Len(cli.positional)
              /\ Cardinality(Loose(argv, i)) = parse.pos_index + 1
          BY <1>5, <1>6, <3>1, <3>3, <4>1, LooseNext
        <4>3. i \in Nat /\ i \in 1 .. i BY <1>4
        <4>4. IsFor(argv, i) = cli.positional[Cardinality(Loose(argv, i))]
          BY <1>6, <3>1, <4>1, <4>2, <4>3, PlaceFacts DEF CliInv
        <4>5. QED BY <4>2, <4>4
      <3>4. QED BY <2>2, <2>3, <3>2, <3>3
    <2>6. QED BY <2>4, <2>5
  <1>11. QED BY <1>9, <1>10

-----------------------------------------------------------------------------
(* The other operations *)

\* Nothing is declared or stored.
Untouched ==
    /\ cli'.args = cli.args /\ cli'.args_map = cli.args_map
    /\ cli'.short_names_map = cli.short_names_map /\ cli'.positional = cli.positional

\* So what was said of the arguments stays true.
LEMMA UntouchedFacts ==
    ASSUME CliType, Declared, Untouched
    PROVE  SameArgs /\ Declared' /\ Ids' = Ids /\ StringIds' = StringIds
  <1>1. SameArgs BY DEF Untouched, SameArgs, CliType
  <1>2. Declared' /\ Ids' = Ids BY <1>1, DeclaredKept
  <1>3. cli'.args = cli.args BY DEF Untouched
  <1>4. StringIds' = StringIds BY <1>2, <1>3, Zenon DEF StringIds
  <1>5. QED BY <1>1, <1>2, <1>4

\* Accepted, in the terms of the loop.
AcceptedBy(argv) ==
    /\ \A name \in DOMAIN cli.args_map :
          LET arg == cli.args[cli.args_map[name]]
          IN  /\ arg.data = Gives(arg.type, arg.action, argv,
                                  Hits(argv, cli.args_map[name], Len(argv)))
              /\ arg.mode = "named" => arg.sz > 0
    /\ Cardinality(Loose(argv, Len(argv))) \in {Len(cli.positional) - 1, Len(cli.positional)}

AcceptRight == \A argv : argv = parse.argv => (Accepted <=> AcceptedBy(argv))

\* The getters return the data, and Meant is what all entries give.
LEMMA AcceptFacts == AcceptRight
  <1>1. SUFFICES ASSUME NEW argv, argv = parse.argv PROVE Accepted <=> AcceptedBy(argv)
    BY DEF AcceptRight
  <1>2. \A name \in DOMAIN cli.args_map :
          ArgGet(name, cli.args[cli.args_map[name]].type) = cli.args[cli.args_map[name]].data
    BY Zenon DEF ArgGet
  <1>3. \A name \in DOMAIN cli.args_map : HasArg(name) <=> cli.args[cli.args_map[name]].sz > 0
    BY Zenon DEF HasArg
  <1>4. \A id : Meant(argv, id) = Gives(cli.args[id].type, cli.args[id].action, argv,
                                        Hits(argv, id, Len(argv)))
    BY MeantGives
  <1>5. PICK L : L = Loose(argv, Len(argv)) OBVIOUS
  <1>6. Accepted <=>
          /\ \A name \in DOMAIN cli.args_map :
                /\ ArgGet(name, cli.args[cli.args_map[name]].type) = Meant(argv, cli.args_map[name])
                /\ cli.args[cli.args_map[name]].mode = "named" => HasArg(name)
          /\ Cardinality(L) \in {Len(cli.positional) - 1, Len(cli.positional)}
    BY <1>1, <1>5, Zenon DEF Accepted, Loose
  <1>7. QED BY <1>2, <1>3, <1>4, <1>5, <1>6, Zenon DEF AcceptedBy

\* A parser that is not touched accepted what it accepted.
LEMMA AcceptedKept ==
    ASSUME CliType, Declared, Untouched, NEW argv \in Seq(Entries)
    PROVE  AcceptedBy(argv)' <=> AcceptedBy(argv)
  <1>1. SameArgs BY UntouchedFacts
  <1>2. /\ \A n : Loose(argv, n)' = Loose(argv, n)
        /\ \A id, n : Hits(argv, id, n)' = Hits(argv, id, n)
    BY <1>1, MeaningKept
  <1>3. cli'.args = cli.args /\ cli'.args_map = cli.args_map /\ cli'.positional = cli.positional
    BY DEF Untouched
  <1>4. QED BY <1>2, <1>3, Zenon DEF AcceptedBy

\* A parser without an argument.
Fresh ==
    /\ parse = NoParse
    /\ \E stage \in {"none", "open"}, error \in CliErrors :
          cli = [stage |-> stage, args |-> <<>>, args_map |-> <<>>, short_names_map |-> <<>>,
                 positional |-> <<>>, strings |-> 0, error |-> error]

FreshRight == Fresh => CliInv

\* There is nothing to say of its arguments.
LEMMA FreshFacts == FreshRight
  <1>1. SUFFICES ASSUME Fresh PROVE CliInv BY DEF FreshRight
  <1>2. PICK stage \in {"none", "open"}, error \in CliErrors :
          cli = [stage |-> stage, args |-> <<>>, args_map |-> <<>>, short_names_map |-> <<>>,
                 positional |-> <<>>, strings |-> 0, error |-> error]
    BY <1>1 DEF Fresh
  <1>3. /\ cli.stage = stage /\ cli.args = <<>> /\ cli.args_map = <<>>
        /\ cli.short_names_map = <<>> /\ cli.positional = <<>> /\ cli.strings = 0
        /\ cli.error = error
    BY <1>2
  <1>4. parse.stage = "none" /\ parse = NoParse BY <1>1 DEF Fresh, NoParse
  <1>5. <<>> \in ArgMaps
    <2>1. <<>> \in [{} -> Nat] OBVIOUS
    <2>2. {} \in SUBSET ArgNames OBVIOUS
    <2>3. QED BY <2>1, <2>2, Zenon DEF ArgMaps
  <1>6. CliType
    <2>1. cli \in [stage : {"none", "open", "released", "aborted"}, args : Seq(Args),
                   args_map : ArgMaps, short_names_map : ArgMaps, positional : Seq(Nat),
                   strings : Int, error : CliErrors]
      <3>1. PICK map \in ArgMaps : map = <<>> BY <1>5
      <3>2. PICK args \in Seq(Args) : args = <<>> BY EmptySeq
      <3>3. PICK ids \in Seq(Nat) : ids = <<>> BY EmptySeq
      <3>4. cli = [stage |-> stage, args |-> args, args_map |-> map, short_names_map |-> map,
                   positional |-> ids, strings |-> 0, error |-> error]
        BY <1>2, <3>1, <3>2, <3>3, Zenon
      <3>5. QED BY <3>4
    <2>2. parse \in [stage : {"none", "loop", "done"}, argv : Seq(Entries), i : Nat,
                     pos_index : Nat, ok : BOOLEAN]
      BY <1>4 DEF NoParse
    <2>3. QED BY <2>1, <2>2 DEF CliType
  <1>7. Ids = {} BY <1>3 DEF Ids
  <1>8. Declared BY <1>3, <1>7 DEF Declared
  <1>9. Blank /\ Fitting /\ Looping /\ Finished /\ Counted /\ Aborted
    BY <1>3, <1>4, <1>7 DEF Blank, Fitting, Looping, Finished, Counted, Aborted
  <1>10. QED BY <1>6, <1>8, <1>9 DEF CliInv

\* cli_parser_init.
LEMMA InitKeeps == ASSUME CliInv, NEW b \in BOOLEAN, CliInit(b) PROVE CliInv'
  <1>1. parse' = NoParse BY DEF CliInv, Blank, CliInit
  <1>2. CASE b
    <2>1. cli' = [stage |-> "open", args |-> <<>>, args_map |-> <<>>, short_names_map |-> <<>>,
                  positional |-> <<>>, strings |-> 0, error |-> "none"]
      BY <1>2 DEF CliInit, NoParser
    <2>2. Fresh' BY <1>1, <2>1 DEF Fresh, CliErrors
    <2>3. FreshRight' BY FreshFacts, PTL
    <2>4. QED BY <2>2, <2>3 DEF FreshRight
  <1>3. CASE ~b
    <2>1. cli' = [stage |-> "none", args |-> <<>>, args_map |-> <<>>, short_names_map |-> <<>>,
                  positional |-> <<>>, strings |-> 0, error |-> "MemAlloc"]
      BY <1>3 DEF CliInit, NoParser
    <2>2. Fresh' BY <1>1, <2>1 DEF Fresh, CliErrors
    <2>3. FreshRight' BY FreshFacts, PTL
    <2>4. QED BY <2>2, <2>3 DEF FreshRight
  <1>4. QED BY <1>2, <1>3

\* What hashmap_insert makes of one of the maps.
LEMMA BindFacts ==
    ASSUME NEW m \in ArgMaps, NEW key \in ArgNames, NEW id \in Nat
    PROVE  /\ Bind(m, key, id) \in ArgMaps
           /\ \A k \in DOMAIN Bind(m, key, id) :
                \/ k \in DOMAIN m /\ Bind(m, key, id)[k] = m[k]
                \/ k = key /\ Bind(m, key, id)[k] = id
  <1>1. PICK D \in SUBSET ArgNames : m \in [D -> Nat] BY DEF ArgMaps
  <1>2. PICK b : b = Bind(m, key, id) OBVIOUS
  <1>3. b \in [D \cup {key} -> Nat] BY <1>1, <1>2 DEF Bind
  <1>4. D \cup {key} \in SUBSET ArgNames OBVIOUS
  <1>5. b \in ArgMaps BY <1>3, <1>4, Zenon DEF ArgMaps
  <1>6. \A k \in DOMAIN b : \/ k \in DOMAIN m /\ b[k] = m[k]
                            \/ k = key /\ b[k] = id
    BY <1>1, <1>2 DEF Bind
  <1>7. QED BY <1>2, <1>5, <1>6

\* cli_parser_parse.
LEMMA ParseKeeps ==
    ASSUME CliInv, NEW n \in Nat, NEW argv \in [1 .. n -> Entries], CliParse(argv)
    PROVE  CliInv'
  <1>1. argv \in Seq(Entries) /\ Len(argv) = n OBVIOUS
  <1>2. /\ cli' = cli /\ cli.stage = "open" /\ parse.stage = "none"
        /\ parse' = [NoParse EXCEPT !.argv = argv, !.ok = argv = <<>>,
                        !.stage = IF argv = <<>> THEN "done" ELSE "loop"]
    BY DEF CliParse
  <1>3. PICK ok \in BOOLEAN : ok = (argv = <<>>)
    <2>1. CASE argv = <<>> BY <2>1
    <2>2. CASE argv # <<>> BY <2>2
    <2>3. QED BY <2>1, <2>2
  <1>4. PICK stage \in {"loop", "done"} : stage = IF argv = <<>> THEN "done" ELSE "loop" OBVIOUS
  <1>5. parse' = [NoParse EXCEPT !.argv = argv, !.ok = ok, !.stage = stage]
    BY <1>2, <1>3, <1>4, Zenon
  <1>6. /\ parse'.stage = stage /\ parse'.argv = argv /\ parse'.i = 1 /\ parse'.pos_index = 0
        /\ parse'.ok = ok
    BY <1>5 DEF NoParse
  <1>7. CliType'
    <2>1. parse' = [stage |-> stage, argv |-> argv, i |-> 1, pos_index |-> 0, ok |-> ok]
      BY <1>5 DEF NoParse
    <2>2. parse' \in [stage : {"none", "loop", "done"}, argv : Seq(Entries), i : Nat,
                      pos_index : Nat, ok : BOOLEAN]
      BY <1>1, <2>1
    <2>3. QED BY <1>2, <2>2 DEF CliInv, CliType
  <1>8. Untouched BY <1>2 DEF Untouched
  <1>9. SameArgs /\ Declared' /\ Ids' = Ids /\ StringIds' = StringIds
    BY <1>8, UntouchedFacts DEF CliInv
  <1>10. cli.strings = 0 /\ \A id \in Ids : cli.args[id].data = Unset
    BY <1>2 DEF CliInv, Blank
  <1>11. Fitting' BY <1>2, <1>9 DEF CliInv, Fitting
  <1>12. Looping'
    <2>1. SUFFICES ASSUME argv # <<>>, ~ok
                   PROVE  Looping'
      BY <1>3, <1>4, <1>6 DEF Looping
    <2>2. n \in Nat \ {0} /\ 1 \in 1 .. Len(argv) + 1 /\ 1 \in 1 .. Len(argv) BY <1>1, <2>1
    <2>3. IsHead(argv)'[1]
      <3>1. IsHead(argv)[1] BY <1>1, <2>2, HeadFacts
      <3>2. IsHead(argv)' = IsHead(argv) BY <1>1, <1>9, HeadsKept DEF CliInv
      <3>3. QED BY <3>1, <3>2
    <2>4. Loose(argv, 0)' = {} BY DEF Loose
    <2>5. \A id : Hits(argv, id, 0)' = {} BY DEF Hits
    <2>6. Cardinality({}) = 0 BY FS_EmptySet
    <2>7. Len(cli.positional) \in Nat BY LenProperties DEF CliInv, CliType
    <2>8. \A id \in Ids : cli'.args[id].data
              = Gives(cli'.args[id].type, cli'.args[id].action, argv, Hits(argv, id, 0)')
      BY <1>2, <1>10, <2>5 DEF Gives
    <2>9. 1 - 1 = 0 /\ 0 <= Len(cli'.positional) BY <1>2, <2>7
    <2>10. cli'.stage = "open" BY <1>2
    <2>11. QED BY <1>6, <1>9, <2>1, <2>2, <2>3, <2>4, <2>6, <2>8, <2>9, <2>10, Zenon DEF Looping
  <1>13. Finished' BY <1>3, <1>6 DEF Finished
  <1>14. Counted'
    <2>1. StringIds = {} BY <1>10 DEF StringIds, Unset
    <2>2. QED BY <1>2, <1>9, <1>10, <2>1, FS_EmptySet DEF Counted
  <1>15. Blank' /\ Aborted' BY <1>2, <1>4, <1>6 DEF Blank, Aborted
  <1>16. QED BY <1>7, <1>9, <1>11, <1>12, <1>13, <1>14, <1>15 DEF CliInv

\* The end of cli_parser_parse.
LEMMA FinishKeeps == ASSUME CliInv, CliFinish PROVE CliInv'
  <1>1. PICK argv \in Seq(Entries) : argv = parse.argv BY DEF CliInv, CliType
  <1>2. PICK few : few <=> cli.positional = <<>> \/ parse.pos_index < Len(cli.positional) - 1
    OBVIOUS
  <1>3. PICK missing : missing <=> \E name \in DOMAIN cli.args_map :
                                       /\ cli.args[cli.args_map[name]].mode = "named"
                                       /\ cli.args[cli.args_map[name]].sz = 0
    OBVIOUS
  <1>4. /\ parse.stage = "loop" /\ parse.i > Len(argv)
        /\ (parse'.ok => ~few /\ ~missing)
        /\ \E ok \in BOOLEAN : parse' = [parse EXCEPT !.stage = "done", !.ok = ok]
        /\ \E error \in CliErrors : cli' = [cli EXCEPT !.error = error]
    <2>1. parse.stage = "loop" /\ parse.i > Len(argv) BY <1>1 DEF CliFinish
    <2>2. CASE few
      <3>1. /\ parse' = [parse EXCEPT !.stage = "done", !.ok = FALSE]
            /\ cli' = [cli EXCEPT !.error = "MissingPositionalArgs"]
        BY <1>2, <2>2 DEF CliFinish
      <3>2. ~parse'.ok BY <3>1 DEF CliInv, CliType
      <3>3. QED BY <2>1, <3>1, <3>2 DEF CliErrors
    <2>3. CASE ~few /\ missing
      <3>1. /\ parse' = [parse EXCEPT !.stage = "done", !.ok = FALSE]
            /\ cli' = [cli EXCEPT !.error = "MissingRequiredArg"]
        BY <1>2, <1>3, <2>3 DEF CliFinish
      <3>2. ~parse'.ok BY <3>1 DEF CliInv, CliType
      <3>3. QED BY <2>1, <3>1, <3>2 DEF CliErrors
    <2>4. CASE ~few /\ ~missing
      <3>1. /\ parse' = [parse EXCEPT !.stage = "done", !.ok = TRUE]
            /\ cli' = [cli EXCEPT !.error = cli.error]
        BY <1>2, <1>3, <2>4 DEF CliFinish
      <3>2. cli.error \in CliErrors BY DEF CliInv, CliType
      <3>3. QED BY <2>1, <2>4, <3>1, <3>2
    <2>5. QED BY <2>2, <2>3, <2>4
  <1>5. PICK ok \in BOOLEAN : parse' = [parse EXCEPT !.stage = "done", !.ok = ok] BY <1>4
  <1>6. PICK error \in CliErrors : cli' = [cli EXCEPT !.error = error] BY <1>4
  <1>7. CliType' BY <1>5, <1>6 DEF CliInv, CliType
  <1>8. parse'.stage = "done" /\ parse'.argv = argv BY <1>1, <1>5 DEF CliInv, CliType
  <1>9. /\ cli'.stage = "open" /\ cli'.strings = cli.strings /\ cli'.args = cli.args
        /\ cli.stage = "open" /\ Untouched
    BY <1>4, <1>6 DEF CliInv, CliType, Looping, Untouched
  <1>10. SameArgs /\ Declared' /\ Ids' = Ids /\ StringIds' = StringIds
    BY <1>9, UntouchedFacts DEF CliInv
  <1>11. Fitting' BY <1>9, <1>10 DEF CliInv, Fitting
  <1>12. Counted'
    <2>1. GivenOnce' <=> GivenOnce BY <1>1, <1>8, <1>10, OnceKept DEF CliInv
    <2>2. QED BY <1>4, <1>8, <1>9, <1>10, <2>1 DEF CliInv, Counted
  <1>13. Finished'
    <2>1. SUFFICES ASSUME ~few, ~missing PROVE Accepted' BY <1>4 DEF Finished
    <2>2. Len(argv) \in Nat /\ parse.i = Len(argv) + 1 /\ parse.i - 1 = Len(argv)
      BY <1>1, <1>4, LenProperties DEF CliInv, Looping
    <2>3. /\ parse.pos_index = Cardinality(Loose(argv, Len(argv)))
          /\ parse.pos_index <= Len(cli.positional)
          /\ \A id \in Ids :
                cli.args[id].data = Gives(cli.args[id].type, cli.args[id].action, argv,
                                          Hits(argv, id, Len(argv)))
      BY <1>1, <1>4, <2>2, Zenon DEF CliInv, Looping
    <2>4. Cardinality(Loose(argv, Len(argv))) \in {Len(cli.positional) - 1, Len(cli.positional)}
      <3>1. parse.pos_index \in Nat /\ Len(cli.positional) \in Nat
        BY LenProperties DEF CliInv, CliType
      <3>2. ~(parse.pos_index < Len(cli.positional) - 1) BY <1>2, <2>1
      <3>3. QED BY <2>3, <3>1, <3>2
    <2>5. \A name \in DOMAIN cli.args_map :
            /\ cli.args_map[name] \in Ids
            /\ cli.args[cli.args_map[name]].mode = "named" => cli.args[cli.args_map[name]].sz > 0
      <3>1. SUFFICES ASSUME NEW name \in DOMAIN cli.args_map
                     PROVE  /\ cli.args_map[name] \in Ids
                            /\ cli.args[cli.args_map[name]].mode = "named" =>
                                 cli.args[cli.args_map[name]].sz > 0
        OBVIOUS
      <3>2. PICK id \in Ids : id = cli.args_map[name] BY DEF CliInv, Declared
      <3>3. cli.args[id].sz \in Nat BY ArgFacts DEF CliInv
      <3>4. cli.args[id].mode = "named" => cli.args[id].sz # 0 BY <1>3, <2>1, <3>2
      <3>5. QED BY <3>2, <3>3, <3>4
    <2>6. AcceptedBy(argv) BY <2>3, <2>4, <2>5, Zenon DEF AcceptedBy
    <2>7. AcceptedBy(argv)' BY <1>9, <2>6, AcceptedKept DEF CliInv
    <2>8. AcceptRight' BY AcceptFacts, PTL
    <2>9. QED BY <1>8, <2>7, <2>8, Zenon DEF AcceptRight
  <1>14. Blank' /\ Looping' /\ Aborted' BY <1>8, <1>9 DEF Blank, Looping, Aborted
  <1>15. QED BY <1>7, <1>10, <1>11, <1>12, <1>13, <1>14 DEF CliInv

\* A declaration that adds an argument.
Adds(d, arg) ==
    /\ d \in Declarations /\ cli.stage = "open" /\ parse.stage = "none"
    /\ d.mode = "positional" => d.action = "store"
    /\ arg = [mode |-> d.mode, type |-> d.type, action |-> d.action,
              name |-> d.name, data |-> Unset, sz |-> 0]
    /\ UNCHANGED parse
    /\ cli' = [cli EXCEPT
                 !.args = Append(@, arg),
                 !.short_names_map = IF d.short = NoShort THEN @
                                     ELSE Bind(@, d.short, Len(cli.args) + 1),
                 !.positional = IF d.mode = "positional" THEN Append(@, Len(cli.args) + 1) ELSE @,
                 !.args_map = Bind(@, d.name, Len(cli.args) + 1)]

\* The new argument comes last, and the maps lead to an argument.
LEMMA AddsKeeps == ASSUME CliInv, NEW d, NEW arg, Adds(d, arg) PROVE CliInv'
  <1>1. /\ d \in Declarations /\ cli.stage = "open" /\ parse.stage = "none" /\ parse' = parse
        /\ d.mode = "positional" => d.action = "store"
        /\ CliType /\ Declared
    BY DEF CliInv, Adds
  <1>2. arg \in Args /\ arg.name = d.name /\ arg.mode = d.mode /\ arg.action = d.action
        /\ arg.data = Unset
    <2>1. d.mode \in ArgModes /\ d.type \in ArgTypes /\ d.action \in ArgActions
      BY <1>1, CliAssumption DEF CliAssumption
    <2>2. d.name \in ArgNames /\ Unset \in ArgData BY <1>1 DEF ArgNames, ArgData
    <2>3. QED BY <2>1, <2>2 DEF Adds, Args
  <1>3. PICK n \in Nat : n = Len(cli.args) BY <1>1, LenProperties DEF CliType
  <1>4. PICK id \in Nat : id = n + 1 BY <1>3
  <1>5. PICK args \in Seq(Args) : args = Append(cli.args, arg)
    <2>1. PICK old \in Seq(Args) : old = cli.args BY <1>1 DEF CliType
    <2>2. Append(old, arg) \in Seq(Args) BY <1>2
    <2>3. QED BY <2>1, <2>2
  <1>6. /\ Len(args) = id /\ args[id] = arg
        /\ \A k \in 1 .. n : args[k] = cli.args[k]
    BY <1>1, <1>2, <1>3, <1>4, <1>5 DEF CliType
  <1>7. PICK map \in ArgMaps :
          /\ map = Bind(cli.args_map, d.name, id)
          /\ \A k \in DOMAIN map : \/ k \in DOMAIN cli.args_map /\ map[k] = cli.args_map[k]
                                   \/ k = d.name /\ map[k] = id
    <2>1. cli.args_map \in ArgMaps /\ d.name \in ArgNames BY <1>1 DEF CliType, ArgNames
    <2>2. QED BY <2>1, BindFacts
  <1>8. PICK shorts \in ArgMaps :
          /\ shorts = IF d.short = NoShort THEN cli.short_names_map
                      ELSE Bind(cli.short_names_map, d.short, id)
          /\ \A k \in DOMAIN shorts :
                \/ k \in DOMAIN cli.short_names_map /\ shorts[k] = cli.short_names_map[k]
                \/ shorts[k] = id
    <2>1. cli.short_names_map \in ArgMaps /\ d.short \in ArgNames BY <1>1 DEF CliType, ArgNames
    <2>2. CASE d.short = NoShort BY <2>1, <2>2
    <2>3. CASE d.short # NoShort
      <3>1. PICK m : m = Bind(cli.short_names_map, d.short, id) OBVIOUS
      <3>2. m \in ArgMaps /\ \A k \in DOMAIN m :
                \/ k \in DOMAIN cli.short_names_map /\ m[k] = cli.short_names_map[k]
                \/ m[k] = id
        BY <2>1, <3>1, BindFacts
      <3>3. m = IF d.short = NoShort THEN cli.short_names_map
                ELSE Bind(cli.short_names_map, d.short, id)
        BY <2>3, <3>1
      <3>4. QED BY <3>2, <3>3, Zenon
    <2>4. QED BY <2>2, <2>3
  <1>9. PICK positional \in Seq(Nat) :
          positional = IF d.mode = "positional" THEN Append(cli.positional, id) ELSE cli.positional
    <2>1. PICK old \in Seq(Nat) : old = cli.positional BY <1>1 DEF CliType
    <2>2. Append(old, id) \in Seq(Nat) OBVIOUS
    <2>3. QED BY <2>1, <2>2
  <1>10. cli' = [cli EXCEPT !.args = args, !.short_names_map = shorts,
                    !.positional = positional, !.args_map = map]
    <2>1. id = Len(cli.args) + 1 BY <1>3, <1>4
    <2>2. QED BY <1>5, <1>7, <1>8, <1>9, <2>1 DEF Adds
  <1>11. /\ cli'.stage = "open" /\ cli'.args = args /\ cli'.args_map = map
         /\ cli'.short_names_map = shorts /\ cli'.positional = positional
         /\ cli'.strings = cli.strings
    BY <1>1, <1>10 DEF CliType
  <1>12. CliType' BY <1>1, <1>10 DEF CliType
  <1>13. Ids = 1 .. n /\ Ids' = 1 .. id /\ \A k \in 1 .. id : k \in 1 .. n \/ k = id
    BY <1>3, <1>4, <1>6, <1>11 DEF Ids
  <1>14. 1 .. n \subseteq 1 .. id /\ id \in 1 .. id /\ id \notin 1 .. n BY <1>3, <1>4
  <1>15. Declared'
    <2>1. \A name \in DOMAIN map : map[name] \in 1 .. id /\ args[map[name]].name = name
      BY <1>1, <1>2, <1>6, <1>7, <1>13, <1>14 DEF Declared
    <2>2. \A short \in DOMAIN shorts : shorts[short] \in 1 .. id
      BY <1>1, <1>8, <1>13, <1>14 DEF Declared
    <2>3. PICK p \in Nat : p = Len(cli.positional) BY <1>1, LenProperties DEF CliType
    <2>4. \A k \in 1 .. p : cli.positional[k] \in 1 .. n /\ cli.args[cli.positional[k]].mode = "positional"
      BY <1>1, <1>13, <2>3 DEF Declared
    <2>5. \A k, l \in 1 .. p : cli.positional[k] = cli.positional[l] => k = l
      BY <1>1, <2>3 DEF Declared
    <2>6. /\ \A k \in 1 .. Len(positional) :
                positional[k] \in 1 .. id /\ args[positional[k]].mode = "positional"
          /\ \A k, l \in 1 .. Len(positional) : positional[k] = positional[l] => k = l
      <3>1. CASE d.mode = "positional"
        <4>1. /\ Len(positional) = p + 1 /\ positional[p + 1] = id
              /\ \A k \in 1 .. p : positional[k] = cli.positional[k]
          BY <1>1, <1>9, <2>3, <3>1 DEF CliType
        <4>2. \A k \in 1 .. (p + 1) : k = p + 1 \/ k \in 1 .. p BY <2>3
        <4>3. \A k \in 1 .. p : positional[k] \in 1 .. n /\ args[positional[k]].mode = "positional"
          BY <1>6, <2>4, <4>1
        <4>4. args[id].mode = "positional" BY <1>2, <1>6, <3>1
        <4>5. \A k \in 1 .. Len(positional) :
                positional[k] \in 1 .. id /\ args[positional[k]].mode = "positional"
          BY <1>14, <4>1, <4>2, <4>3, <4>4
        <4>6. \A k, l \in 1 .. (p + 1) : positional[k] = positional[l] => k = l
          BY <1>14, <2>5, <4>1, <4>2, <4>3
        <4>7. QED BY <4>1, <4>5, <4>6
      <3>2. CASE d.mode # "positional"
        <4>1. positional = cli.positional BY <1>9, <3>2
        <4>2. QED BY <1>6, <1>14, <2>3, <2>4, <2>5, <4>1
      <3>3. QED BY <3>1, <3>2
    <2>7. \A k \in 1 .. id : args[k].mode = "positional" => args[k].action = "store"
      BY <1>1, <1>2, <1>6, <1>13 DEF Declared
    <2>8. QED BY <1>11, <1>13, <2>1, <2>2, <2>6, <2>7, Zenon DEF Declared
  <1>16. cli.strings = 0 /\ parse = NoParse /\ \A k \in 1 .. id : args[k].data = Unset
    BY <1>1, <1>2, <1>6, <1>13 DEF CliInv, Blank
  <1>17. Blank' BY <1>1, <1>11, <1>13, <1>16 DEF Blank
  <1>18. Fitting' BY <1>11, <1>13, <1>16 DEF Fitting, Fits
  <1>19. Looping' /\ Finished' /\ Counted' /\ Aborted'
    BY <1>1, <1>11 DEF Looping, Finished, Counted, Aborted
  <1>20. QED BY <1>12, <1>15, <1>17, <1>18, <1>19 DEF CliInv

\* cli_parser_add_arg.
LEMMA AddArgKeeps ==
    ASSUME CliInv, parse.stage = "none", NEW d \in Declarations, CliAddArg(d)
    PROVE  CliInv'
  <1>1. PICK arg : arg = [mode |-> d.mode, type |-> d.type, action |-> d.action,
                          name |-> d.name, data |-> Unset, sz |-> 0]
    OBVIOUS
  <1>2. CASE d.mode = "positional" /\ d.action # "store"
    <2>1. cli' = [cli EXCEPT !.error = "InvalidArgumentAction"] /\ parse' = parse
          /\ cli.stage = "open"
      BY <1>2 DEF CliAddArg
    <2>2. CliType' BY <2>1 DEF CliInv, CliType, CliErrors
    <2>3. /\ Untouched /\ cli'.args = cli.args /\ cli'.strings = cli.strings
          /\ cli'.stage = cli.stage
      BY <2>1 DEF CliInv, CliType, Untouched
    <2>4. Declared' /\ Ids' = Ids BY <2>3, UntouchedFacts DEF CliInv
    <2>5. Blank' BY <2>1, <2>3, <2>4 DEF CliInv, Blank
    <2>6. Fitting' BY <2>3, <2>4 DEF CliInv, Fitting
    <2>7. Looping' /\ Finished' /\ Counted' /\ Aborted'
      BY <2>1, <2>3 DEF Looping, Finished, Counted, Aborted
    <2>8. QED BY <2>2, <2>4, <2>5, <2>6, <2>7 DEF CliInv
  <1>3. CASE ~(d.mode = "positional" /\ d.action # "store")
    <2>1. Adds(d, arg) BY <1>1, <1>3 DEF CliAddArg, Adds
    <2>2. QED BY <2>1, AddsKeeps
  <1>4. QED BY <1>2, <1>3

\* Where no name is declared twice, the names lead to every argument.
LEMMA NamesReach ==
    ASSUME CliType, Declared, Cardinality(DOMAIN cli.args_map) = Len(cli.args), NEW id \in Ids
    PROVE  \E name \in DOMAIN cli.args_map : cli.args_map[name] = id
  <1>1. PICK map, D : map = cli.args_map /\ D = DOMAIN map OBVIOUS
  <1>2. map \in [D -> Ids] BY <1>1 DEF CliType, Declared, ArgMaps
  <1>3. \A a, b \in D : map[a] = map[b] => a = b BY <1>1 DEF Declared
  <1>4. map \in Injection(D, Ids) BY <1>2, <1>3 DEF Injection, IsInjective
  <1>5. Len(cli.args) \in Nat BY LenProperties DEF CliType
  <1>6. IsFiniteSet(Ids) /\ Cardinality(Ids) = Len(cli.args) BY <1>5, FS_Interval DEF Ids
  <1>7. map \in Surjection(D, Ids) BY <1>1, <1>4, <1>6, FS_Injection
  <1>8. QED BY <1>1, <1>7 DEF Surjection

\* cli_parser_release.
LEMMA ReleaseKeeps == ASSUME CliInv, CliRelease PROVE CliInv'
  <1>1. PICK named : named = {cli.args_map[name] : name \in DOMAIN cli.args_map} OBVIOUS
  <1>2. PICK freed : freed = {id \in named : cli.args[id].data[1] = "str"} OBVIOUS
  <1>3. PICK wild : wild <=> \E id \in named : /\ cli.args[id].type = "str"
                                               /\ cli.args[id].data # Unset
                                               /\ cli.args[id].data # <<"b", FALSE>>
                                               /\ id \notin freed
    OBVIOUS
  <1>4. PICK stage : stage = IF wild THEN "aborted" ELSE "released" OBVIOUS
  <1>5. /\ cli.stage = "open" /\ parse.stage \in {"none", "done"} /\ parse' = parse
        /\ cli' = [cli EXCEPT !.stage = stage, !.strings = @ - Cardinality(freed)]
    BY <1>1, <1>2, <1>3, <1>4 DEF CliRelease
  <1>6. CliType /\ Declared /\ stage \in {"released", "aborted"} BY <1>4 DEF CliInv
  <1>7. named \subseteq Ids BY <1>1, <1>6 DEF Declared
  <1>8. freed \subseteq StringIds BY <1>2, <1>7 DEF StringIds
  <1>9. IsFiniteSet(StringIds) /\ Cardinality(freed) \in Nat
    <2>1. Len(cli.args) \in Nat BY <1>6, LenProperties DEF CliType
    <2>2. IsFiniteSet(Ids) BY <2>1, FS_Interval DEF Ids
    <2>3. StringIds \subseteq Ids BY DEF StringIds
    <2>4. IsFiniteSet(StringIds) BY <2>2, <2>3, FS_Subset
    <2>5. QED BY <1>8, <2>4, FS_Subset, FS_CardinalityType
  <1>10. /\ cli'.stage = stage /\ cli'.strings = cli.strings - Cardinality(freed)
         /\ cli'.args = cli.args /\ Untouched
    BY <1>5, <1>6 DEF CliType, Untouched
  <1>11. CliType'
    <2>1. PICK strings \in Int : strings = cli.strings - Cardinality(freed)
      BY <1>6, <1>9 DEF CliType
    <2>2. cli' = [cli EXCEPT !.stage = stage, !.strings = strings] BY <1>5, <2>1
    <2>3. QED BY <1>5, <1>6, <2>2 DEF CliType
  <1>12. SameArgs /\ Declared' /\ Ids' = Ids BY <1>6, <1>10, UntouchedFacts
  <1>13. Fitting' BY <1>10, <1>12 DEF CliInv, Fitting
  <1>14. Finished'
    <2>1. PICK argv \in Seq(Entries) : argv = parse.argv BY <1>6 DEF CliType
    <2>2. AcceptedBy(argv)' <=> AcceptedBy(argv) BY <1>6, <1>10, AcceptedKept
    <2>3. Accepted <=> AcceptedBy(argv) BY <2>1, AcceptFacts, Zenon DEF AcceptRight
    <2>4. AcceptRight' BY AcceptFacts, PTL
    <2>5. Accepted' <=> AcceptedBy(argv)' BY <1>5, <2>1, <2>4, Zenon DEF AcceptRight
    <2>6. QED BY <1>5, <2>2, <2>3, <2>5 DEF CliInv, Finished
  <1>15. Counted'
    <2>1. SUFFICES ASSUME parse.stage # "none", GivenOnce PROVE cli'.strings = 0
      <3>1. GivenOnce' <=> GivenOnce BY <1>5, <1>6, <1>12, OnceKept
      <3>2. QED BY <1>5, <1>6, <1>10, <3>1 DEF Counted
    <2>2. cli.strings = Cardinality(StringIds) BY <1>5, <2>1 DEF CliInv, Counted
    <2>3. Cardinality(DOMAIN cli.args_map) = Len(cli.args) BY <2>1 DEF GivenOnce
    <2>4. StringIds \subseteq freed
      <3>1. SUFFICES ASSUME NEW id \in StringIds PROVE id \in freed OBVIOUS
      <3>2. id \in Ids /\ cli.args[id].data[1] = "str" BY DEF StringIds
      <3>3. PICK name \in DOMAIN cli.args_map : cli.args_map[name] = id
        BY <1>6, <2>3, <3>2, NamesReach
      <3>4. QED BY <1>1, <1>2, <3>2, <3>3
    <2>5. freed = StringIds BY <1>8, <2>4
    <2>6. QED BY <1>9, <1>10, <2>2, <2>5
  <1>16. Aborted'
    <2>1. SUFFICES ASSUME wild
                   PROVE  \E id \in Ids : /\ cli.args[id].type = "str"
                                          /\ cli.args[id].action \in {"store_true", "count"}
      BY <1>4, <1>10, <1>12 DEF Aborted
    <2>2. PICK id \in named : /\ cli.args[id].type = "str" /\ cli.args[id].data # Unset
                              /\ cli.args[id].data # <<"b", FALSE>> /\ id \notin freed
      BY <1>3, <2>1
    <2>3. id \in Ids /\ cli.args[id].data[1] # "str" BY <1>2, <1>7, <2>2
    <2>4. Fits(cli.args[id], cli.args[id].data) BY <2>3 DEF CliInv, Fitting
    <2>5. cli.args[id].action \in {"store_true", "count"} BY <2>2, <2>3, <2>4 DEF Fits
    <2>6. QED BY <2>2, <2>3, <2>5
  <1>17. Blank'
    <2>1. SUFFICES ASSUME parse.stage = "none"
                   PROVE  /\ parse = NoParse /\ cli'.strings = 0
                          /\ \A id \in Ids : cli.args[id].data = Unset
      BY <1>5, <1>6, <1>10, <1>12 DEF Blank
    <2>2. parse = NoParse /\ cli.strings = 0 /\ \A id \in Ids : cli.args[id].data = Unset
      BY <2>1 DEF CliInv, Blank
    <2>3. StringIds = {} BY <2>2 DEF StringIds, Unset
    <2>4. freed = {} BY <1>8, <2>3
    <2>5. QED BY <1>10, <2>2, <2>4, FS_EmptySet
  <1>18. Looping' BY <1>5 DEF Looping
  <1>19. QED BY <1>11, <1>12, <1>13, <1>14, <1>15, <1>16, <1>17, <1>18 DEF CliInv

-----------------------------------------------------------------------------
(* The theorem *)

\* Every step of the parser keeps the invariant.
LEMMA NextKeeps == ASSUME CliInv, [CliNext]_cliVars PROVE CliInv'
  <1>1. CASE \E b \in BOOLEAN : CliInit(b) BY <1>1, InitKeeps
  <1>2. CASE parse.stage = "none" /\ \E d \in Declarations : CliAddArg(d) BY <1>2, AddArgKeeps
  <1>3. CASE /\ parse.stage = "none"
             /\ \E n \in 0 .. MaxArgc : \E argv \in [1 .. n -> Entries] : CliParse(argv)
    <2>1. PICK n \in 0 .. MaxArgc : \E argv \in [1 .. n -> Entries] : CliParse(argv) BY <1>3
    <2>2. n \in Nat OBVIOUS
    <2>3. QED BY <2>1, <2>2, ParseKeeps
  <1>4. CASE CliTurn BY <1>4, TurnKeeps
  <1>5. CASE CliFinish BY <1>5, FinishKeeps
  <1>6. CASE CliRelease BY <1>6, ReleaseKeeps
  <1>7. CASE UNCHANGED cliVars
    <2>1. cli' = cli /\ parse' = parse BY <1>7 DEF cliVars
    <2>2. Untouched BY <2>1 DEF Untouched
    <2>3. CliType' BY <2>1 DEF CliInv, CliType
    <2>4. SameArgs /\ Declared' /\ Ids' = Ids /\ StringIds' = StringIds
      BY <2>2, UntouchedFacts DEF CliInv
    <2>5. PICK argv \in Seq(Entries) : argv = parse.argv BY DEF CliInv, CliType
    <2>6. IsHead(argv)' = IsHead(argv) BY <2>4, HeadsKept DEF CliInv
    <2>7. /\ \A n : Loose(argv, n)' = Loose(argv, n)
          /\ \A id, n : Hits(argv, id, n)' = Hits(argv, id, n)
      BY <2>4, MeaningKept DEF CliInv
    <2>8. Looping' BY <2>1, <2>4, <2>5, <2>6, <2>7, Zenon DEF CliInv, Looping
    <2>9. Finished'
      <3>1. AcceptedBy(argv)' <=> AcceptedBy(argv) BY <2>2, AcceptedKept DEF CliInv
      <3>2. Accepted <=> AcceptedBy(argv) BY <2>5, AcceptFacts, Zenon DEF AcceptRight
      <3>3. AcceptRight' BY AcceptFacts, PTL
      <3>4. Accepted' <=> AcceptedBy(argv)' BY <2>1, <2>5, <3>3, Zenon DEF AcceptRight
      <3>5. QED BY <2>1, <3>1, <3>2, <3>4 DEF CliInv, Finished
    <2>10. Counted'
      <3>1. GivenOnce' <=> GivenOnce BY <2>1, <2>4, OnceKept DEF CliInv
      <3>2. QED BY <2>1, <2>4, <3>1 DEF CliInv, Counted
    <2>11. Blank' BY <2>1, <2>4 DEF CliInv, Blank
    <2>12. Fitting' BY <2>1, <2>4 DEF CliInv, Fitting
    <2>13. Aborted' BY <2>1, <2>4 DEF CliInv, Aborted
    <2>14. QED BY <2>3, <2>4, <2>8, <2>9, <2>10, <2>11, <2>12, <2>13 DEF CliInv
  <1>8. QED BY <1>1, <1>2, <1>3, <1>4, <1>5, <1>6, <1>7 DEF CliNext

\* The invariant says what was to be shown.
LEMMA InvExact == CliInv => ParseExact
  <1>1. SUFFICES ASSUME CliInv PROVE ParseExact OBVIOUS
  <1>2. parse.stage = "done" /\ parse.ok /\ parse.argv # <<>> => Accepted
    BY <1>1 DEF CliInv, Finished
  <1>3. ASSUME cli.stage = "released", GivenOnce PROVE cli.strings = 0
    BY <1>1, <1>3 DEF CliInv, Counted, Blank
  <1>4. cli.stage = "aborted" =>
          \E i \in 1 .. Len(cli.args) :
              cli.args[i].type = "str" /\ cli.args[i].action \in {"store_true", "count"}
    BY <1>1 DEF CliInv, Aborted, Ids
  <1>5. QED BY <1>2, <1>3, <1>4 DEF ParseExact

\* cli_parser_parse: whatever is declared and given, an argv that is accepted
\* was used entry by entry, exactly once; where each argument is given once, a
\* released parser leaves no string behind; and release meets a bad pointer
\* only for a flag or a counter that was declared as a string.
THEOREM ParsesExactly == CliSpec => []ParseExact
  <1>1. CliInitial => CliInv
    <2>1. SUFFICES ASSUME CliInitial PROVE CliInv OBVIOUS
    <2>2. cli = [stage |-> "none", args |-> <<>>, args_map |-> <<>>, short_names_map |-> <<>>,
                 positional |-> <<>>, strings |-> 0, error |-> "none"]
      BY <2>1 DEF CliInitial, NoParser
    <2>3. Fresh BY <2>1, <2>2 DEF Fresh, CliInitial, CliErrors
    <2>4. QED BY <2>3, FreshFacts DEF FreshRight
  <1>2. CliInv /\ [CliNext]_cliVars => CliInv' BY NextKeeps
  <1>3. CliInv => ParseExact BY InvExact
  <1>4. QED BY <1>1, <1>2, <1>3, PTL DEF CliSpec

=============================================================================

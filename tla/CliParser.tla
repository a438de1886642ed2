----------------------------- MODULE CliParser -----------------------------
(***************************************************************************)
(* The command line parser of src/cli.c: declarations of arguments, found  *)
(* by name, by short name or by position, and the loop that goes through   *)
(* argv and stores what it finds.                                          *)
(*                                                                         *)
(* An entry of argv is its number of dashes, a name, and a text with or    *)
(* without the "=" or ":" before it; without a dash it is a text.  A text  *)
(* stands for the texts that are checked and converted alike.  argv is     *)
(* what follows the name of the program.                                   *)
(***************************************************************************)
EXTENDS Integers, Sequences, FiniteSets

CONSTANTS
    Declarations,   \* [name, short, mode, type, action] that are declared
    Entries,        \* entries of argv: [dashes, name, has_value, value]
    MaxArgs,        \* bound: declarations of one parser
    MaxArgc         \* bound: entries of one argv

\* The members of CLIArgMode, CLIArgType and CLIArgAction.
ArgModes == {"positional", "named", "optional"}
ArgTypes == {"str", "int", "float", "bool"}
ArgActions == {"store", "store_true", "store_false", "append", "count"}

ASSUME CliAssumption ==
    /\ MaxArgs \in Nat /\ MaxArgc \in Nat
    /\ \A d \in Declarations : d.mode \in ArgModes /\ d.type \in ArgTypes /\ d.action \in ArgActions
    /\ \A e \in Entries : e.dashes \in Nat /\ e.has_value \in BOOLEAN

VARIABLES
    cli,        \* the CLIParser and the CLIArgs it made
    parse       \* the call of cli_parser_parse

cliVars == <<cli, parse>>

NoShort == ""
Unset == <<"null", 0>>

NoParser == [stage |-> "none", args |-> <<>>, args_map |-> <<>>,
             short_names_map |-> <<>>, positional |-> <<>>, strings |-> 0,
             error |-> "none"]

NoParse == [stage |-> "none", argv |-> <<>>, i |-> 1, pos_index |-> 0, ok |-> FALSE]

CliInitial == cli = NoParser /\ parse = NoParse

\* cli_parser_init: any of its three allocations may fail.
CliInit(allocated) ==
    /\ cli.stage = "none"
    /\ cli' = IF allocated THEN [NoParser EXCEPT !.stage = "open"]
              ELSE [NoParser EXCEPT !.error = "MemAlloc"]
    /\ UNCHANGED parse

\* hashmap_insert keeps what a key has: the first declaration of a name or of
\* a short name is the one that is found.
Bind(m, key, id) == [k \in DOMAIN m \cup {key} |-> IF k \in DOMAIN m THEN m[k] ELSE id]

\* cli_parser_add_arg.
CliAddArg(d) ==
    LET id == Len(cli.args) + 1
        arg == [mode |-> d.mode, type |-> d.type, action |-> d.action,
                name |-> d.name, data |-> Unset, sz |-> 0]
    IN  /\ cli.stage = "open" /\ id <= MaxArgs
        /\ cli' =
            IF d.mode = "positional" /\ d.action # "store"
            THEN [cli EXCEPT !.error = "InvalidArgumentAction"]
            ELSE [cli EXCEPT
                    !.args = Append(@, arg),
                    !.short_names_map = IF d.short = NoShort THEN @ ELSE Bind(@, d.short, id),
                    !.positional = IF d.mode = "positional" THEN Append(@, id) ELSE @,
                    !.args_map = Bind(@, d.name, id)]
        /\ UNCHANGED parse

(***************************************************************************)
(* Texts.                                                                  *)
(***************************************************************************)

\* What an entry is when it is taken for a value.
Text(e) == IF e.dashes = 0 THEN e.value ELSE "-x"

\* cli_parser_validate_argument_type looks at the first character, and at
\* the whole text only for the names of the Booleans.
ValidType(type, text) ==
    CASE type = "str" -> TRUE
      [] type = "int" -> text \in {"1", "7", "-x"}
      [] type = "float" -> text \in {"1", "7", ".5", "-x"}
      [] type = "bool" -> text \in {"1", "true", "false"}

\* The data and its size; strtoll and strtod give 0 for "-x".
Convert(type, text) ==
    CASE type = "str" -> IF text \in {"", "quotes"} THEN <<<<"str", "">>, 0>>
                         ELSE <<<<"str", text>>, 1>>
      [] type = "bool" -> <<<<"b", text \in {"1", "true"}>>, 1>>
      [] OTHER -> <<<<type, IF text = "-x" THEN "0" ELSE text>>, 8>>

(***************************************************************************)
(* The loop.                                                               *)
(***************************************************************************)

\* cli_parser_find_arg: one dash looks in the short names, any other number
\* in the names, those of the positional arguments included; 0 for NULL.
FindArg(e) ==
    LET m == IF e.dashes = 1 THEN cli.short_names_map ELSE cli.args_map
    IN  IF e.name \in DOMAIN m THEN m[e.name] ELSE 0

Fails(error) == [ok |-> FALSE, args |-> cli.args, strings |-> cli.strings,
                 offset |-> 0, error |-> error]

Holds(id, data, sz, offset) ==
    [ok |-> TRUE, args |-> [cli.args EXCEPT ![id].data = data, ![id].sz = sz],
     strings |-> cli.strings + (IF data[1] = "str" THEN 1 ELSE 0),
     offset |-> offset, error |-> cli.error]

\* Storing a text: a string that was held is not freed.
StoreText(id, text, offset) ==
    LET c == Convert(cli.args[id].type, text)
    IN  IF ValidType(cli.args[id].type, text) THEN Holds(id, c[1], c[2], offset)
        ELSE Fails("InvalidArgumentType")

\* cli_parser_parse_named_argument, with what follows it in argv.
ParseNamed(e, rest) ==
    LET id == FindArg(e)
        arg == cli.args[id]
        text == IF e.has_value THEN e.value ELSE Text(Head(rest))
        offset == IF e.has_value THEN 0 ELSE 1
        count == IF arg.data = Unset THEN 0 ELSE arg.data[2]
    IN  IF e.name = "" /\ ~e.has_value THEN Fails("MalformedArgument")
        ELSE IF id = 0 THEN Fails("UnknownArgument")
        ELSE CASE arg.action = "store_true" -> Holds(id, <<"b", TRUE>>, 1, 0)
               [] arg.action = "store_false" -> Holds(id, <<"b", FALSE>>, 1, 0)
               [] arg.action = "count" -> Holds(id, <<"i64", count + 1>>, 8, 0)
               [] OTHER ->
                    IF ~e.has_value /\ rest = <<>> THEN Fails("MalformedArgument")
                    ELSE IF text = "" THEN Fails("MalformedArgument")
                    ELSE StoreText(id, text, offset)

\* cli_parser_parse_positional_argument, with pos_index from 0.
ParsePositional(e) ==
    IF parse.pos_index >= Len(cli.positional) THEN Fails("TooManyPositionalArgs")
    ELSE StoreText(cli.positional[parse.pos_index + 1], e.value, 0)

CliParse(argv) ==
    /\ cli.stage = "open" /\ parse.stage = "none"
    /\ parse' = [NoParse EXCEPT !.argv = argv, !.ok = argv = <<>>,
                    !.stage = IF argv = <<>> THEN "done" ELSE "loop"]
    /\ UNCHANGED cli

IsHelp(e) == ~e.has_value /\ <<e.dashes, e.name>> \in {<<1, "h">>, <<2, "help">>}

\* Mutant: the value of an option is looked at again.
CliTurnRereads ==
    LET e == parse.argv[parse.i]
        r == IF e.dashes > 0
             THEN ParseNamed(e, SubSeq(parse.argv, parse.i + 1, Len(parse.argv)))
             ELSE ParsePositional(e)
    IN  /\ parse.stage = "loop" /\ parse.i <= Len(parse.argv)
        /\ cli' = [cli EXCEPT !.args = r.args, !.strings = r.strings, !.error = r.error]
        /\ parse' = IF ~r.ok THEN [parse EXCEPT !.stage = "done"]
                    ELSE [parse EXCEPT !.i = @ + 1,
                            !.pos_index = IF e.dashes > 0 THEN @ ELSE @ + 1]

\* A turn of the loop; the entry that was taken for a value is stepped over.
CliTurn ==
    LET e == parse.argv[parse.i]
        r == IF e.dashes > 0
             THEN ParseNamed(e, SubSeq(parse.argv, parse.i + 1, Len(parse.argv)))
             ELSE ParsePositional(e)
    IN  /\ parse.stage = "loop" /\ parse.i <= Len(parse.argv)
        /\ IF IsHelp(e)
           THEN parse' = [parse EXCEPT !.stage = "done"] /\ UNCHANGED cli
           ELSE /\ cli' = [cli EXCEPT !.args = r.args, !.strings = r.strings,
                              !.error = r.error]
                /\ parse' = IF ~r.ok THEN [parse EXCEPT !.stage = "done"]
                            ELSE [parse EXCEPT !.i = @ + 1 + r.offset,
                                    !.pos_index = IF e.dashes > 0 THEN @ ELSE @ + 1]

\* After the loop.  The number of positional arguments less one is unsigned:
\* without any, no pos_index is large enough.
CliFinish ==
    LET few == cli.positional = <<>> \/ parse.pos_index < Len(cli.positional) - 1
        missing == \E name \in DOMAIN cli.args_map :
                      LET arg == cli.args[cli.args_map[name]]
                      IN  arg.mode = "named" /\ arg.sz = 0
    IN  /\ parse.stage = "loop" /\ parse.i > Len(parse.argv)
        /\ parse' = [parse EXCEPT !.stage = "done", !.ok = ~few /\ ~missing]
        /\ cli' = [cli EXCEPT !.error = IF few THEN "MissingPositionalArgs"
                                        ELSE IF missing THEN "MissingRequiredArg" ELSE @]

\* cli_parser_has_arg, and the getters: what they return for a name and a
\* type, <<"none">> for NULL.
HasArg(name) ==
    name \in DOMAIN cli.args_map /\ cli.args[cli.args_map[name]].sz > 0

ArgGet(name, type) ==
    IF name \notin DOMAIN cli.args_map THEN <<"none">>
    ELSE LET arg == cli.args[cli.args_map[name]]
         IN  IF arg.type = type THEN arg.data ELSE <<"none">>

\* cli_parser_release goes through the names and frees the string of every
\* argument of that type.  A flag or a counter declared as a string is a bad
\* pointer by then, and the program aborts.
CliRelease ==
    LET named == {cli.args_map[name] : name \in DOMAIN cli.args_map}
        freed == {id \in named : cli.args[id].data[1] = "str"}
        wild == \E id \in named : /\ cli.args[id].type = "str"
                                  /\ cli.args[id].data # Unset
                                  /\ cli.args[id].data # <<"b", FALSE>>
                                  /\ id \notin freed
    IN  /\ cli.stage = "open" /\ parse.stage \in {"none", "done"}
        /\ cli' = [cli EXCEPT !.stage = IF wild THEN "aborted" ELSE "released",
                      !.strings = @ - Cardinality(freed)]
        /\ UNCHANGED parse

CliNext ==
    \/ \E b \in BOOLEAN : CliInit(b)
    \/ parse.stage = "none" /\ \E d \in Declarations : CliAddArg(d)
    \/ /\ parse.stage = "none"
       /\ \E n \in 0 .. MaxArgc : \E argv \in [1 .. n -> Entries] : CliParse(argv)
    \/ CliTurn
    \/ CliFinish
    \/ CliRelease

CliSpec == CliInitial /\ [][CliNext]_cliVars

(***************************************************************************)
(* Properties.                                                             *)
(***************************************************************************)

TakesValue(e) ==
    /\ e.dashes > 0 /\ ~e.has_value /\ FindArg(e) # 0
    /\ cli.args[FindArg(e)].action \in {"store", "append"}

\* Whether entry i begins an argument, or is the value of the one before.
IsHead(argv) ==
    LET head[i \in 1 .. Len(argv)] ==
            i = 1 \/ ~(head[i - 1] /\ TakesValue(argv[i - 1]))
    IN  head

\* The argument an entry is for: the k-th entry without a dash is for the
\* k-th positional argument.
IsFor(argv, i) ==
    LET before == {j \in 1 .. i : IsHead(argv)[j] /\ argv[j].dashes = 0}
    IN  IF argv[i].dashes > 0 THEN FindArg(argv[i])
        ELSE cli.positional[Cardinality(before)]

\* What argument id must hold after argv.
Meant(argv, id) ==
    LET arg == cli.args[id]
        hits == {i \in 1 .. Len(argv) : IsHead(argv)[i] /\ IsFor(argv, i) = id}
        last == CHOOSE i \in hits : \A j \in hits : j <= i
        e == argv[last]
        text == IF e.dashes = 0 \/ e.has_value THEN e.value ELSE Text(argv[last + 1])
    IN  IF hits = {} THEN Unset
        ELSE IF e.dashes = 0 THEN Convert(arg.type, text)[1]
        ELSE CASE arg.action = "count" -> <<"i64", Cardinality(hits)>>
               [] arg.action = "store_true" -> <<"b", TRUE>>
               [] arg.action = "store_false" -> <<"b", FALSE>>
               [] OTHER -> Convert(arg.type, text)[1]

\* An accepted argv: the getters return the last value given to each
\* argument, every required option has one, and of the positional arguments
\* only the last may be missing.
Accepted ==
    LET argv == parse.argv
        loose == {i \in 1 .. Len(argv) : IsHead(argv)[i] /\ argv[i].dashes = 0}
    IN  /\ \A name \in DOMAIN cli.args_map :
              LET id == cli.args_map[name]
              IN  /\ ArgGet(name, cli.args[id].type) = Meant(argv, id)
                  /\ cli.args[id].mode = "named" => HasArg(name)
        /\ Cardinality(loose) \in {Len(cli.positional) - 1, Len(cli.positional)}

\* No argument is declared or given twice, and none by name and by position.
GivenOnce ==
    LET named == {i \in 1 .. Len(parse.argv) :
                    /\ IsHead(parse.argv)[i] /\ parse.argv[i].dashes > 0
                    /\ FindArg(parse.argv[i]) # 0}
    IN  /\ Cardinality(DOMAIN cli.args_map) = Len(cli.args)
        /\ \A i, j \in named : FindArg(parse.argv[i]) = FindArg(parse.argv[j]) => i = j
        /\ \A i \in named : cli.args[FindArg(parse.argv[i])].mode # "positional"

\* When cli_parser_parse accepts an argv, every entry was used exactly once:
\* as an option, as the value of the option before it, which the loop steps
\* over, or as the next positional argument.  And where each argument was
\* given once, a released parser leaves no string behind, also after a parse
\* that failed half way; release meets a bad pointer only for a flag or a
\* counter that was declared as a string.
ParseExact ==
    /\ parse.stage = "done" /\ parse.ok /\ parse.argv # <<>> => Accepted
    /\ cli.stage = "released" /\ GivenOnce => cli.strings = 0
    /\ cli.stage = "aborted" =>
        \E i \in 1 .. Len(cli.args) :
            cli.args[i].type = "str" /\ cli.args[i].action \in {"store_true", "count"}

=============================================================================

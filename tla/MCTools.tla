------------------------------ MODULE MCTools ------------------------------
(***************************************************************************)
(* The parts of the library that a program uses from one thread, for TLC:  *)
(* the hash map with callers of every kind, the vector, the arena, regular *)
(* expressions, the command line parser, the file system and the HTTP      *)
(* client.  A behaviour is about one of them, the tool.                    *)
(***************************************************************************)
EXTENDS HashMap, Vector, Arena, MCRegex, CliParser, FileSystem, HttpClient

VARIABLE tool

allVars == <<tool, vars, vectorVars, arenaVars, regexVars, cliVars, fsVars, httpVars>>

Tools == {"map", "vector", "arena", "regex", "cli", "fs", "http"}

(***************************************************************************)
(* Instances.                                                              *)
(***************************************************************************)

Declare(n, s, m, t, a) == [name |-> n, short |-> s, mode |-> m, type |-> t, action |-> a]
Word(text) == [dashes |-> 0, name |-> "", has_value |-> FALSE, value |-> text]
Option(d, n) == [dashes |-> d, name |-> n, has_value |-> FALSE, value |-> ""]
Given(n, text) == [dashes |-> 2, name |-> n, has_value |-> TRUE, value |-> text]

MCDeclarations ==
    {Declare("file", "", "positional", "str", "store"),
     Declare("level", "v", "positional", "float", "store"),
     Declare("num", "n", "named", "int", "store"),
     Declare("out", "o", "optional", "str", "append"),
     Declare("verbose", "v", "optional", "int", "count"),
     Declare("flag", "", "optional", "str", "store_true"),
     Declare("quiet", "", "positional", "bool", "store_false")}

MCEntries ==
    {Word("7"), Word("word"), Option(1, "o"), Option(1, "v"), Option(2, "num"),
     Option(2, "flag"), Option(2, "help"), Given("out", "quotes"), Given("file", "word")}

MCTrees ==
    {<<"a">> :> "dir" @@ <<"b">> :> "file" @@ <<"a", "a">> :> "dir" @@ <<"a", "b">> :> "file",
     <<"a">> :> "dir" @@ <<"b">> :> "dir" @@ <<"a", "a">> :> "other"
        @@ <<"b", "a">> :> "file" @@ <<"b", "b">> :> "file"}

MCModes == {{"dirs", "files", "recursive"}, {"files", "recursive"}, {"dirs", "recursive"}}

MCNames == {"Date", "Accept"}
MCNameLen == [n \in {"Date", "Accept", "Host"} |-> IF n = "Accept" THEN 6 ELSE 4]

MCAnswers ==
    {[headers |-> <<<<<<"Date">>, <<"d">>>>, <<<<"Connection">>, <<"close">>>>>>, body |-> 2],
     [headers |-> <<<<<<"Connection">>, <<"keep-alive">>>>>>, body |-> 0],
     [headers |-> <<<<<<"Date">>, <<>>>>>>, body |-> 1]}

(***************************************************************************)
(* The specification.                                                      *)
(***************************************************************************)

OneHash == CHOOSE f \in [Keys -> HashValues] : TRUE

ToolsInit ==
    /\ tool \in Tools
    /\ Init /\ (tool # "map" => hash = OneHash)
    /\ VectorInitial /\ ArenaInitial /\ RegexInit /\ CliInitial /\ HttpInit
    /\ FsInit /\ (tool # "fs" => tree = CHOOSE t \in Trees : TRUE)

ToolsNext ==
    /\ UNCHANGED tool
    /\ \/ /\ tool = "map" /\ Next
          /\ UNCHANGED <<vectorVars, arenaVars, regexVars, cliVars, fsVars, httpVars>>
       \/ /\ tool = "vector" /\ VectorNext
          /\ UNCHANGED <<vars, arenaVars, regexVars, cliVars, fsVars, httpVars>>
       \/ /\ tool = "arena" /\ ArenaNext
          /\ UNCHANGED <<vars, vectorVars, regexVars, cliVars, fsVars, httpVars>>
       \/ /\ tool = "regex" /\ RegexNext
          /\ UNCHANGED <<vars, vectorVars, arenaVars, cliVars, fsVars, httpVars>>
       \/ /\ tool = "cli" /\ CliNext
          /\ UNCHANGED <<vars, vectorVars, arenaVars, regexVars, fsVars, httpVars>>
       \/ /\ tool = "fs" /\ FsNext
          /\ UNCHANGED <<vars, vectorVars, arenaVars, regexVars, cliVars, httpVars>>
       \/ /\ tool = "http" /\ HttpNext
          /\ UNCHANGED <<vars, vectorVars, arenaVars, regexVars, cliVars, fsVars>>

ToolsSpec ==
    ToolsInit /\ [][ToolsNext]_allVars /\ RegexFairness /\ HttpFairness

=============================================================================

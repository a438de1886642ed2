------------------------------- MODULE Logger -------------------------------
(***************************************************************************)
(* The global logger of src/logger.c: threads that call it, the spin lock  *)
(* every function of it takes, and the console and log file it writes to.  *)
(*                                                                         *)
(* A call takes the lock, does its work and gives the lock back.  Writing  *)
(* a message to the console and writing it to the file are two steps.  The *)
(* assertions are those of a debug build and do nothing here.              *)
(***************************************************************************)
EXTENDS Integers, Sequences

CONSTANTS
    Threads,
    Levels,       \* arguments of logger_set_level and logger_log
    MaxMessages,  \* bound: calls of logger_log
    MaxOpens,     \* bound: calls of logger_enable_file
    MaxInits      \* bound: calls of logger_init

ASSUME LoggerAssumption ==
    /\ Levels \subseteq Nat
    /\ MaxMessages \in Nat /\ MaxOpens \in Nat /\ MaxInits \in Nat

Ops == {"init", "set_level", "enable_console", "disable_console",
        "enable_file", "disable_file", "log", "release"}

NoFile == 0   \* the NULL FILE*; the others are 1 .. MaxOpens

VARIABLES
    lock, initialized, level, console, file_mode, file,  \* the g_ variables
    pc, op, arg,     \* where a thread is, in which call, with which argument
    message,         \* the message a thread logs
    open,            \* FILEs that are open
    on_console, in_file,    \* the messages written, in order
    messages, opens, inits  \* calls so far

globals == <<initialized, level, console, file_mode, file, open>>
threadVars == <<op, arg, message>>
written == <<on_console, in_file>>
counts == <<messages, opens, inits>>
vars == <<lock, globals, pc, threadVars, written, counts>>

PCs == {"idle", "spin", "in", "file", "out", "fault"}

TypeOK ==
    /\ lock \in {0, 1} /\ initialized \in BOOLEAN /\ level \in 0 .. 4
    /\ console \in BOOLEAN /\ file_mode \in BOOLEAN /\ file \in 0 .. MaxOpens
    /\ pc \in [Threads -> PCs] /\ op \in [Threads -> Ops]
    /\ arg \in [Threads -> 0 .. 4]
    /\ message \in [Threads -> 0 .. MaxMessages]
    /\ open \in SUBSET (1 .. MaxOpens)
    /\ on_console \in Seq(1 .. MaxMessages) /\ Len(on_console) <= MaxMessages
    /\ in_file \in Seq(1 .. MaxMessages) /\ Len(in_file) <= MaxMessages
    /\ messages \in 0 .. MaxMessages /\ opens \in 0 .. MaxOpens /\ inits \in 0 .. MaxInits

Init ==
    /\ lock = 0 /\ initialized = FALSE /\ level = 3
    /\ console = TRUE /\ file_mode = FALSE /\ file = NoFile
    /\ pc = [t \in Threads |-> "idle"]
    /\ op = [t \in Threads |-> "log"] /\ arg = [t \in Threads |-> 0]
    /\ message = [t \in Threads |-> 0]
    /\ open = {}
    /\ on_console = <<>> /\ in_file = <<>>
    /\ messages = 0 /\ opens = 0 /\ inits = 0

-----------------------------------------------------------------------------
\* level < 5 ? level : 4, of logger_set_level and logger_log
Clamp(l) == IF l < 5 THEN l ELSE 4

\* A thread calls one of the functions, which all begin with the spin.  The
\* calls that need a bound are counted.
Call(t, o, l) ==
    /\ pc[t] = "idle"
    /\ pc' = [pc EXCEPT ![t] = "spin"]
    /\ op' = [op EXCEPT ![t] = o]
    /\ arg' = [arg EXCEPT ![t] = IF o \in {"log", "set_level"} THEN Clamp(l) ELSE 0]
    /\ o = "log" => messages < MaxMessages
    /\ o = "enable_file" => opens < MaxOpens
    /\ o = "init" => inits < MaxInits
    /\ messages' = IF o = "log" THEN messages + 1 ELSE messages
    /\ message' = IF o = "log" THEN [message EXCEPT ![t] = messages'] ELSE message
    /\ opens' = IF o = "enable_file" THEN opens + 1 ELSE opens
    /\ inits' = IF o = "init" THEN inits + 1 ELSE inits
    /\ UNCHANGED <<lock, globals, written>>

\* Mutant: the lock is read and then set.
AcquireUnchecked(t) ==
    /\ pc[t] = "spin"
    /\ lock' = 1
    /\ pc' = [pc EXCEPT ![t] = "in"]
    /\ UNCHANGED <<globals, threadVars, written, counts>>

\* logger_lock_acquire: the compare-exchange that succeeds.
Acquire(t) ==
    /\ pc[t] = "spin"
    /\ lock = 0
    /\ lock' = 1
    /\ pc' = [pc EXCEPT ![t] = "in"]
    /\ UNCHANGED <<globals, threadVars, written, counts>>

\* The locals of a call that is over.
Forget(t) ==
    /\ op' = [op EXCEPT ![t] = "log"]
    /\ arg' = [arg EXCEPT ![t] = 0] /\ message' = [message EXCEPT ![t] = 0]

\* Mutant: no call gives the lock back.
ReleaseNever(t) ==
    /\ pc[t] = "out"
    /\ pc' = [pc EXCEPT ![t] = "idle"]
    /\ UNCHANGED <<lock, globals, threadVars, written, counts>>

\* logger_lock_release at the end of a call.
Release(t) ==
    /\ pc[t] = "out"
    /\ lock' = 0
    /\ pc' = [pc EXCEPT ![t] = "idle"]
    /\ Forget(t)
    /\ UNCHANGED <<globals, written, counts>>

\* The work of call o done, the lock still held.
Done(t, o) ==
    /\ pc[t] = "in" /\ op[t] = o
    /\ pc' = [pc EXCEPT ![t] = "out"]
    /\ UNCHANGED <<lock, threadVars, counts>>

\* logger_init of an initialized logger returns without giving the lock back.
LoggerInit(t) ==
    /\ pc[t] = "in" /\ op[t] = "init"
    /\ pc' = [pc EXCEPT ![t] = IF initialized THEN "idle" ELSE "out"]
    /\ initialized' = TRUE
    /\ UNCHANGED <<lock, level, console, file_mode, file, open, threadVars, written, counts>>

SetLevel(t) ==
    /\ Done(t, "set_level")
    /\ level' = arg[t]
    /\ UNCHANGED <<initialized, console, file_mode, file, open, written>>

EnableConsole(t) ==
    /\ Done(t, "enable_console")
    /\ console' = TRUE
    /\ UNCHANGED <<initialized, level, file_mode, file, open, written>>

DisableConsole(t) ==
    /\ Done(t, "disable_console")
    /\ console' = FALSE
    /\ UNCHANGED <<initialized, level, file_mode, file, open, written>>

\* fopen returns a FILE that is not in use, or NULL; a file that was open is
\* forgotten.
EnableFile(t) ==
    /\ Done(t, "enable_file")
    /\ file_mode' = TRUE
    /\ \/ file' \in (1 .. MaxOpens) \ open /\ open' = open \union {file'}
       \/ file' = NoFile /\ UNCHANGED open
    /\ UNCHANGED <<initialized, level, console, written>>

\* Mutant: g_log_file keeps pointing to the closed file.
DisableFileDangling(t) ==
    /\ Done(t, "disable_file")
    /\ file_mode' = FALSE
    /\ open' = open \ {file}
    /\ UNCHANGED <<initialized, level, console, file, written>>

DisableFile(t) ==
    /\ Done(t, "disable_file")
    /\ file_mode' = FALSE
    /\ open' = open \ {file} /\ file' = NoFile
    /\ UNCHANGED <<initialized, level, console, written>>

\* logger_release closes the file and leaves LogMode_File set.
LoggerRelease(t) ==
    /\ Done(t, "release")
    /\ open' = open \ {file} /\ file' = NoFile
    /\ UNCHANGED <<initialized, level, console, file_mode, written>>

\* logger_log: a message above the level is dropped, others go to the console.
Log(t) ==
    /\ pc[t] = "in" /\ op[t] = "log"
    /\ pc' = [pc EXCEPT ![t] = IF arg[t] <= level THEN "file" ELSE "out"]
    /\ on_console' = IF arg[t] <= level /\ console
                     THEN Append(on_console, message[t]) ELSE on_console
    /\ UNCHANGED <<lock, globals, threadVars, in_file, counts>>

\* ... and then to the file: fprintf to the NULL file is a fault.
LogFile(t) ==
    /\ pc[t] = "file"
    /\ pc' = [pc EXCEPT ![t] = IF file_mode /\ file = NoFile THEN "fault" ELSE "out"]
    /\ in_file' = IF file_mode /\ file # NoFile
                  THEN Append(in_file, message[t]) ELSE in_file
    /\ UNCHANGED <<lock, globals, threadVars, on_console, counts>>

-----------------------------------------------------------------------------
Step(t) ==
    \/ Acquire(t) \/ LoggerInit(t) \/ SetLevel(t) \/ EnableConsole(t)
    \/ DisableConsole(t) \/ EnableFile(t) \/ DisableFile(t) \/ Log(t)
    \/ LogFile(t) \/ LoggerRelease(t) \/ Release(t)

Next ==
    \E t \in Threads :
        \/ \E o \in Ops, l \in Levels : Call(t, o, l)
        \/ Step(t)

Spec == Init /\ [][Next]_vars

\* A thread that is in a call and can run does run.
FairSpec == Spec /\ \A t \in Threads : WF_vars(Step(t))

(***************************************************************************)
(* Properties                                                              *)
(***************************************************************************)
Inside(t) == pc[t] \in {"in", "file", "out", "fault"}

\* The lock lets one thread at a time touch the logger, and is held when one
\* does; g_log_file, which it protects, never points to a file that is closed.
LockProtects ==
    /\ TypeOK
    /\ \A t \in Threads : Inside(t) => lock = 1 /\ \A u \in Threads \ {t} : ~Inside(u)
    /\ file # NoFile => file \in open

\* Two messages written to both outputs have the same order in them.
SameOrder ==
    \A i, j \in DOMAIN on_console : i < j =>
        \A k, l \in DOMAIN in_file :
            on_console[i] = in_file[k] /\ on_console[j] = in_file[l] => k < l

\* Unless logger_init was called for an initialized logger, or a write to the
\* NULL file has ended the process, the lock is always given back.
LockComesBack ==
    lock = 1 ~> (lock = 0 \/ inits > 1 \/ \E t \in Threads : pc[t] = "fault")

\* logger.c, logger_log: ROMANO_ASSERT(g_log_file != NULL, "Log file has not
\* been created"), for a logger in file mode.
LogFileCreated ==
    \A t \in Threads : pc[t] = "file" /\ file_mode => file # NoFile

=============================================================================

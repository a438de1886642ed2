---------------------------- MODULE LoggerProofs ----------------------------
(***************************************************************************)
(* Proofs about Logger, for any set of threads and any number of messages, *)
(* files and initializations.                                              *)
(***************************************************************************)
EXTENDS Logger, FiniteSetTheorems, TLAPS

-----------------------------------------------------------------------------
(* The inductive invariant *)

\* The types of the variables, TypeOK without the bound on the outputs' length.
Types ==
    /\ lock \in {0, 1} /\ initialized \in BOOLEAN /\ level \in 0 .. 4
    /\ console \in BOOLEAN /\ file_mode \in BOOLEAN /\ file \in 0 .. MaxOpens
    /\ pc \in [Threads -> PCs] /\ op \in [Threads -> Ops]
    /\ arg \in [Threads -> 0 .. 4]
    /\ message \in [Threads -> 0 .. MaxMessages]
    /\ open \in SUBSET (1 .. MaxOpens)
    /\ on_console \in Seq(1 .. MaxMessages) /\ in_file \in Seq(1 .. MaxMessages)
    /\ messages \in 0 .. MaxMessages /\ opens \in 0 .. MaxOpens /\ inits \in 0 .. MaxInits

\* At most one thread is between logger_lock_acquire and logger_lock_release.
Mutex ==
    \A t \in Threads : Inside(t) => lock = 1 /\ \A u \in Threads \ {t} : ~Inside(u)

\* g_log_file is NULL or an open file.
FileOpen == file # NoFile => file \in open

\* A thread in a call of logger_log.
Logging(t) == op[t] = "log" /\ pc[t] # "idle"

\* Each call of logger_log has a message of its own.
OwnMessage ==
    /\ \A t \in Threads : pc[t] = "file" => op[t] = "log"
    /\ \A t \in Threads : Logging(t) => message[t] \in 1 .. messages
    /\ \A t, u \in Threads :
           Logging(t) /\ Logging(u) /\ message[t] = message[u] => t = u

\* s holds messages of calls so far, none of them twice.
WrittenOnce(s) ==
    /\ \A i \in DOMAIN s : s[i] \in 1 .. messages
    /\ \A i, j \in DOMAIN s : s[i] = s[j] => i = j

\* A call writes its message when its turn comes: not before it has the lock,
\* and to the file after the console, where it is then the last one.
Turn(t) ==
    /\ pc[t] \in {"spin", "in"} => \A i \in DOMAIN on_console : on_console[i] # message[t]
    /\ pc[t] \in {"spin", "in", "file"} => \A k \in DOMAIN in_file : in_file[k] # message[t]
    /\ pc[t] = "file" => \A i \in DOMAIN on_console :
           on_console[i] = message[t] => i = Len(on_console)

NotYet == \A t \in Threads : Logging(t) => Turn(t)

LoggerInv ==
    /\ Types /\ Mutex /\ FileOpen /\ OwnMessage
    /\ WrittenOnce(on_console) /\ WrittenOnce(in_file)
    /\ NotYet /\ SameOrder

-----------------------------------------------------------------------------
(* Sequences *)

\* What Append does, element by element.
LEMMA AppendFacts ==
    ASSUME NEW S, NEW s \in Seq(S), NEW e \in S
    PROVE  /\ Append(s, e) \in Seq(S)
           /\ Len(s) \in Nat /\ DOMAIN s = 1 .. Len(s)
           /\ Len(Append(s, e)) = Len(s) + 1
           /\ DOMAIN Append(s, e) = 1 .. (Len(s) + 1)
           /\ \A i \in 1 .. Len(s) : Append(s, e)[i] = s[i]
           /\ Append(s, e)[Len(s) + 1] = e
  OBVIOUS

\* The interval 1 .. n has n elements.
LEMMA IntervalSize ==
    ASSUME NEW n \in Nat
    PROVE  IsFiniteSet(1 .. n) /\ Cardinality(1 .. n) = n
  <1>1. IsFiniteSet(1 .. n) /\ Cardinality(1 .. n) = IF 1 > n THEN 0 ELSE n - 1 + 1
    BY FS_Interval
  <1>2. QED BY <1>1

\* An output to which every message is written at most once is not longer
\* than the number of messages.
LEMMA WrittenLength ==
    ASSUME messages \in 0 .. MaxMessages, MaxMessages \in Nat,
           NEW s \in Seq(1 .. MaxMessages), WrittenOnce(s)
    PROVE  Len(s) <= MaxMessages
  <1>1. Len(s) \in Nat /\ DOMAIN s = 1 .. Len(s)
    OBVIOUS
  <1>2. s \in [1 .. Len(s) -> 1 .. messages]
    BY <1>1 DEF WrittenOnce
  <1>3. s \in Injection(1 .. Len(s), 1 .. messages)
    BY <1>1, <1>2 DEF WrittenOnce, Injection, IsInjective
  <1>4. /\ IsFiniteSet(1 .. messages) /\ Cardinality(1 .. messages) = messages
        /\ Cardinality(1 .. Len(s)) = Len(s)
    BY <1>1, IntervalSize
  <1>5. Cardinality(1 .. Len(s)) <= Cardinality(1 .. messages)
    BY <1>3, <1>4, FS_Injection
  <1>6. QED BY <1>1, <1>4, <1>5

-----------------------------------------------------------------------------
(* Every step keeps the invariant *)

\* LoggerInv holds at first, and every step keeps it.
LEMMA InvInit == Init => LoggerInv
  <1> SUFFICES ASSUME Init PROVE LoggerInv
    OBVIOUS
  <1> USE DEF Init
  <1>1. Types
    <2>1. initialized \in BOOLEAN /\ console \in BOOLEAN /\ file_mode \in BOOLEAN
      OBVIOUS
    <2>2. pc \in [Threads -> PCs] /\ op \in [Threads -> Ops]
      BY DEF PCs, Ops
    <2>3. on_console \in Seq(1 .. MaxMessages) /\ in_file \in Seq(1 .. MaxMessages)
      OBVIOUS
    <2>4. QED
      BY <2>1, <2>2, <2>3, LoggerAssumption DEF LoggerAssumption, Types, NoFile
  <1>2. Mutex /\ FileOpen
    BY DEF Mutex, Inside, FileOpen
  <1>3. OwnMessage /\ NotYet
    BY DEF OwnMessage, Logging, NotYet
  <1>4. DOMAIN on_console = {} /\ DOMAIN in_file = {}
    OBVIOUS
  <1>5. WrittenOnce(on_console) /\ WrittenOnce(in_file) /\ SameOrder
    BY <1>4 DEF WrittenOnce, SameOrder
  <1>6. QED BY <1>1, <1>2, <1>3, <1>5 DEF LoggerInv

\* A step that changes neither an output nor who has which message, and lets
\* no thread go back before its write, keeps the facts about the messages.
LEMMA MessagesFrame ==
    ASSUME LoggerInv, UNCHANGED <<messages, written>>,
           \A t \in Threads : Logging(t)' =>
               /\ Logging(t) /\ message'[t] = message[t]
               /\ pc'[t] \in {"spin", "in"} => pc[t] \in {"spin", "in"}
               /\ pc'[t] = "file" => pc[t] = "file",
           \A t \in Threads : pc'[t] = "file" => op'[t] = "log"
    PROVE  /\ OwnMessage' /\ WrittenOnce(on_console)' /\ WrittenOnce(in_file)'
           /\ NotYet' /\ SameOrder'
  BY DEF LoggerInv, OwnMessage, WrittenOnce, NotYet, Turn, SameOrder, written

LEMMA InvCall ==
    ASSUME LoggerInv, NEW t \in Threads, NEW o \in Ops, NEW l \in Levels, Call(t, o, l)
    PROVE  LoggerInv'
  <1> USE DEF LoggerInv
  <1>1. Clamp(l) \in 0 .. 4
    BY LoggerAssumption DEF LoggerAssumption, Clamp
  <1>2. Types'
    BY <1>1, LoggerAssumption DEF LoggerAssumption, Types, Call, PCs, globals, written
  <1>3. Mutex'
    BY DEF Mutex, Inside, Call, Types
  <1>4. FileOpen'
    BY DEF FileOpen, Call, globals
  <1>5. QED
    <2>1. CASE o # "log"
      BY <1>2, <1>3, <1>4, <2>1, MessagesFrame DEF Call, Types, Logging, OwnMessage
    <2>2. CASE o = "log"
      <3>1. OwnMessage'
        BY <2>2 DEF OwnMessage, Logging, Call, Types
      <3>2. WrittenOnce(on_console)' /\ WrittenOnce(in_file)' /\ SameOrder'
        BY <2>2 DEF WrittenOnce, SameOrder, Call, Types, written
      <3>3. NotYet'
        BY <2>2 DEF NotYet, Turn, Logging, WrittenOnce, Call, Types, written
      <3>4. QED BY <1>2, <1>3, <1>4, <3>1, <3>2, <3>3
    <2>3. QED BY <2>1, <2>2

LEMMA InvAcquire == ASSUME LoggerInv, NEW t \in Threads, Acquire(t) PROVE LoggerInv'
  <1> USE DEF LoggerInv
  <1>1. Types' BY DEF Types, Acquire, PCs, globals, threadVars, written, counts
  <1>2. Mutex' BY DEF Mutex, Inside, Acquire, Types
  <1>3. FileOpen' BY DEF FileOpen, Acquire, globals
  <1>4. QED
    BY <1>1, <1>2, <1>3, MessagesFrame
       DEF Acquire, Types, Logging, OwnMessage, threadVars, counts

LEMMA InvRelease == ASSUME LoggerInv, NEW t \in Threads, Release(t) PROVE LoggerInv'
  <1> USE DEF LoggerInv
  <1>1. Types'
    BY LoggerAssumption
       DEF LoggerAssumption, Types, Release, Forget, PCs, Ops, globals, written, counts
  <1>2. Mutex' BY DEF Mutex, Inside, Release, Types
  <1>3. FileOpen' BY DEF FileOpen, Release, globals
  <1>4. QED
    BY <1>1, <1>2, <1>3, MessagesFrame
       DEF Release, Forget, Types, Logging, OwnMessage, counts

\* A call that only changes the settings and keeps the lock.
LEMMA InvSettings ==
    ASSUME LoggerInv, NEW t \in Threads, Inside(t), op[t] # "log",
           NEW q \in {"idle", "out"}, pc' = [pc EXCEPT ![t] = q],
           UNCHANGED <<lock, threadVars, written, counts>>,
           Types', FileOpen'
    PROVE  LoggerInv'
  <1> USE DEF LoggerInv
  <1>1. Mutex' BY DEF Mutex, Inside, Types
  <1>2. QED
    BY <1>1, MessagesFrame DEF Types, Logging, OwnMessage, threadVars, counts

\* logger_init, set_level, enable, disable and release.
LEMMA InvSetting ==
    ASSUME LoggerInv, NEW t \in Threads,
           \/ LoggerInit(t) \/ SetLevel(t) \/ EnableConsole(t) \/ DisableConsole(t)
           \/ EnableFile(t) \/ DisableFile(t) \/ LoggerRelease(t)
    PROVE  LoggerInv'
  <1> USE LoggerAssumption
        DEF LoggerAssumption, Types, FileOpen, PCs, NoFile, Done, threadVars, written, counts
  <1>1. CASE LoggerInit(t)
    BY <1>1, InvSettings DEF LoggerInit, LoggerInv, Inside
  <1>2. ASSUME NEW o \in Ops \ {"log"}, Done(t, o), Types', FileOpen', UNCHANGED written
        PROVE  LoggerInv'
    BY <1>2, InvSettings DEF Inside
  <1>3. Types /\ FileOpen
    BY DEF LoggerInv
  <1>4. CASE SetLevel(t) BY <1>2, <1>3, <1>4 DEF SetLevel, Ops
  <1>5. CASE EnableConsole(t)
    <2>1. console' \in BOOLEAN BY <1>5 DEF EnableConsole
    <2>2. Types' /\ FileOpen' BY <1>3, <1>5, <2>1 DEF EnableConsole
    <2>3. QED BY <1>2, <1>5, <2>2 DEF EnableConsole, Ops
  <1>6. CASE DisableConsole(t)
    <2>1. console' \in BOOLEAN BY <1>6 DEF DisableConsole
    <2>2. Types' /\ FileOpen' BY <1>3, <1>6, <2>1 DEF DisableConsole
    <2>3. QED BY <1>2, <1>6, <2>2 DEF DisableConsole, Ops
  <1>7. CASE EnableFile(t)
    <2>1. file_mode' \in BOOLEAN BY <1>7 DEF EnableFile
    <2>2. file' \in 0 .. MaxOpens /\ open' \in SUBSET (1 .. MaxOpens) /\ FileOpen'
      <3>1. CASE file' = NoFile /\ open' = open BY <1>3, <3>1
      <3>2. CASE file' \in (1 .. MaxOpens) \ open /\ open' = open \union {file'}
        <4>1. file' \in 1 .. MaxOpens BY <3>2
        <4>2. file' \in 0 .. MaxOpens BY <4>1
        <4>3. open' \subseteq 1 .. MaxOpens BY <1>3, <3>2, <4>1
        <4>4. QED BY <3>2, <4>2, <4>3
      <3>3. QED BY <1>7, <3>1, <3>2 DEF EnableFile
    <2>3. Types' BY <1>3, <1>7, <2>1, <2>2 DEF EnableFile
    <2>4. QED BY <1>2, <1>7, <2>2, <2>3 DEF EnableFile, Ops
  <1>8. CASE DisableFile(t)
    <2>1. file_mode' \in BOOLEAN BY <1>8 DEF DisableFile
    <2>2. Types' /\ FileOpen' BY <1>3, <1>8, <2>1 DEF DisableFile
    <2>3. QED BY <1>2, <1>8, <2>2 DEF DisableFile, Ops
  <1>9. CASE LoggerRelease(t) BY <1>2, <1>3, <1>9 DEF LoggerRelease, Ops
  <1>10. QED BY <1>1, <1>4, <1>5, <1>6, <1>7, <1>8, <1>9

\* logger_log writes to the console ...
LEMMA InvLog == ASSUME LoggerInv, NEW t \in Threads, Log(t) PROVE LoggerInv'
  <1> USE DEF LoggerInv
  <1>1. Logging(t) /\ message[t] \in 1 .. messages /\ message[t] \in 1 .. MaxMessages
    BY DEF Log, Logging, OwnMessage, Types
  <1> USE AppendFacts, <1>1
  <1>2. Types'
    BY DEF Types, Log, PCs, globals, threadVars, counts
  <1>3. Mutex' BY DEF Mutex, Inside, Log, Types
  <1>4. FileOpen' BY DEF FileOpen, Log, globals
  <1>5. OwnMessage'
    BY DEF OwnMessage, Logging, Log, Types, threadVars, counts
  <1>6. CASE on_console' = on_console
    <2>1. WrittenOnce(on_console)' /\ WrittenOnce(in_file)' /\ SameOrder'
      BY <1>6 DEF WrittenOnce, SameOrder, Log, counts
    <2>2. NotYet'
      BY <1>6 DEF NotYet, Turn, Logging, Log, Types, threadVars
    <2>3. QED BY <1>2, <1>3, <1>4, <1>5, <2>1, <2>2
  <1>7. CASE on_console' = Append(on_console, message[t])
    <2>0. /\ on_console \in Seq(1 .. MaxMessages) /\ UNCHANGED <<in_file, message, messages>>
          /\ \A i \in DOMAIN on_console : on_console[i] # message[t]
          /\ \A k \in DOMAIN in_file : in_file[k] # message[t]
      BY DEF Log, Types, NotYet, Turn, threadVars, counts
    <2>1. WrittenOnce(on_console)' /\ WrittenOnce(in_file)'
      BY <1>7, <2>0 DEF WrittenOnce
    <2>2. SameOrder'
      BY <1>7, <2>0 DEF SameOrder
    <2>3. NotYet'
      <3> SUFFICES ASSUME NEW u \in Threads, Logging(u)' PROVE Turn(u)'
        BY DEF NotYet
      <3>1. CASE u = t
        BY <1>7, <2>0, <3>1 DEF Turn, Log, Types
      <3>2. CASE u # t
        <4>1. Logging(u) /\ message[u] # message[t] /\ Turn(u) /\ UNCHANGED pc[u]
          BY <3>2 DEF OwnMessage, NotYet, Logging, Log, Types, threadVars
        <4>2. pc[u] # "file"
          BY <3>2 DEF Mutex, Inside, Log
        <4>3. QED BY <1>7, <2>0, <4>1, <4>2 DEF Turn
      <3>3. QED BY <3>1, <3>2
    <2>4. QED BY <1>2, <1>3, <1>4, <1>5, <2>1, <2>2, <2>3
  <1>8. QED BY <1>6, <1>7 DEF Log

\* ... and then to the file.
LEMMA InvLogFile == ASSUME LoggerInv, NEW t \in Threads, LogFile(t) PROVE LoggerInv'
  <1> USE DEF LoggerInv
  <1>1. Logging(t) /\ message[t] \in 1 .. messages /\ message[t] \in 1 .. MaxMessages
    BY DEF LogFile, Logging, OwnMessage, Types
  <1> USE AppendFacts, <1>1
  <1>2. Types'
    BY DEF Types, LogFile, PCs, globals, threadVars, counts
  <1>3. Mutex' BY DEF Mutex, Inside, LogFile, Types
  <1>4. FileOpen' BY DEF FileOpen, LogFile, globals
  <1>5. OwnMessage'
    BY DEF OwnMessage, Logging, LogFile, Types, threadVars, counts
  <1>6. CASE in_file' = in_file
    BY <1>2, <1>3, <1>4, <1>6, MessagesFrame
       DEF LogFile, Types, Logging, OwnMessage, threadVars, counts, written
  <1>7. CASE in_file' = Append(in_file, message[t])
    <2>0. /\ in_file \in Seq(1 .. MaxMessages) /\ UNCHANGED <<on_console, message, messages>>
          /\ \A k \in DOMAIN in_file : in_file[k] # message[t]
          /\ \A i \in DOMAIN on_console : on_console[i] = message[t] => i = Len(on_console)
          /\ Len(on_console) \in Nat /\ DOMAIN on_console = 1 .. Len(on_console)
      BY DEF LogFile, Types, NotYet, Turn, threadVars, counts
    <2>1. WrittenOnce(on_console)' /\ WrittenOnce(in_file)'
      BY <1>7, <2>0 DEF WrittenOnce
    <2>2. SameOrder'
      <3> SUFFICES ASSUME NEW i \in DOMAIN on_console, NEW j \in DOMAIN on_console, i < j,
                          NEW k \in DOMAIN in_file', NEW l \in DOMAIN in_file',
                          on_console[i] = in_file'[k], on_console[j] = in_file'[l]
                   PROVE  k < l
        BY <2>0 DEF SameOrder
      <3>1. on_console[i] # message[t] /\ on_console[i] # on_console[j]
        BY <2>0 DEF WrittenOnce
      <3>2. k \in DOMAIN in_file /\ in_file'[k] = in_file[k]
        BY <1>7, <2>0, <3>1
      <3>3. CASE l \in DOMAIN in_file
        BY <1>7, <2>0, <3>2, <3>3 DEF SameOrder
      <3>4. CASE l \notin DOMAIN in_file
        BY <1>7, <2>0, <3>2, <3>4
      <3>5. QED BY <3>3, <3>4
    <2>3. NotYet'
      <3> SUFFICES ASSUME NEW u \in Threads, Logging(u)' PROVE Turn(u)'
        BY DEF NotYet
      <3>1. CASE u = t
        BY <3>1 DEF Turn, LogFile, Types
      <3>2. CASE u # t
        <4>1. Logging(u) /\ message[u] # message[t] /\ Turn(u) /\ UNCHANGED pc[u]
          BY <3>2 DEF OwnMessage, NotYet, Logging, LogFile, Types, threadVars
        <4>2. QED BY <1>7, <2>0, <4>1 DEF Turn
      <3>3. QED BY <3>1, <3>2
    <2>4. QED BY <1>2, <1>3, <1>4, <1>5, <2>1, <2>2, <2>3
  <1>8. QED BY <1>6, <1>7 DEF LogFile

\* LoggerInv is inductive.
LEMMA InvNext == LoggerInv /\ [Next]_vars => LoggerInv'
  <1>1. LoggerInv /\ UNCHANGED vars => LoggerInv'
    BY DEF vars, globals, threadVars, written, counts, LoggerInv, Types, Mutex, Inside,
       FileOpen, OwnMessage, Logging, WrittenOnce, NotYet, Turn, SameOrder
  <1>2. ASSUME LoggerInv, NEW t \in Threads, Step(t) PROVE LoggerInv'
    BY <1>2, InvAcquire, InvSetting, InvLog, InvLogFile, InvRelease DEF Step
  <1>3. QED BY <1>1, <1>2, InvCall DEF Next

-----------------------------------------------------------------------------
(* The theorems *)

\* The invariant holds in every state of the logger.
THEOREM LoggerInvariant == Spec => []LoggerInv
  BY InvInit, InvNext, PTL DEF Spec

\* logger_lock_acquire and logger_lock_release give every function of logger.c
\* the logger for itself, whatever the number of threads and calls, also after
\* a logger_init that returns early and keeps the lock; g_log_file is never a
\* file that logger_disable_file or logger_release has closed.
THEOREM LockProtectsAlways == Spec => []LockProtects
  <1>1. LoggerInv => LockProtects
    BY LoggerAssumption, WrittenLength
       DEF LoggerAssumption, LoggerInv, Types, Mutex, FileOpen, LockProtects, TypeOK
  <1>2. QED BY <1>1, LoggerInvariant, PTL

\* Messages that logger_log writes to both the console and the file are in the
\* same order in them, however the calls of the threads interleave and however
\* the outputs are switched on and off in between.
THEOREM SameOrderAlways == Spec => []SameOrder
  <1>1. LoggerInv => SameOrder
    BY DEF LoggerInv
  <1>2. QED BY <1>1, LoggerInvariant, PTL

=============================================================================

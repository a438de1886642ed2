# TLA+ verification of libromano

libromano is a C library of the things a C program needs and the language does
not have: containers, strings, threads and a thread pool, a logger, sockets and
a socket server, an HTTP client, JSON, regular expressions, a command line
parser, a file system walk, and mathematics.  This directory holds models of
its stateful parts, concurrent and sequential, the TLC configurations that check them on
small instances, and machine-checked proofs, for every size of the instance,
about the thread pool, the hash map, the socket server, the logger, the arena,
the vector, the command line parser and the file system walk.

Paths below are relative to the repository.  Every module names the C functions
it models, and `PROJECT.json` maps each definition to its lines.

## 1. Inventory

| Component | State | Operations | Interacts with | What is hard | What makes it correct |
|---|---|---|---|---|---|
| Thread pool (`src/thread.c`) | per-worker queues, `stop`, `working_threads_count`, `alive_count`, `submit_rr`, works, waiters' counters | `threadpool_init`, `_work_add`, `_wait`, `_waiter_wait`, `_release`, worker loop, stealing | client threads call it, work functions call back into it | every interleaving of adding, stealing, executing, waiting, releasing; failing allocations | a work has one owner, is executed at most once and freed exactly once; waiters count exactly; calls return |
| Threads, mutexes, condition variables (`src/thread.c`) | OS objects | create, start, join, detach, lock, wait, signal | pool, server | time-outs, unchecked creation | join before free |
| Hash map (`src/hashmap.c`) | bucket table, size, capacity, max_probes | new, insert, update, get, remove, iterate, free; growth inside insert | used by the command line parser | probe order, wrap-around, growth in the middle of an insertion | a dictionary; the order that early exits rely on |
| Socket server (`src/socket_server.c`) | flags, mutex, thread, callbacks, error | new, start, push_callback, get_last_error, stop, free; server loop | owner thread, server thread, clients | flags read without lock, start/stop/free races, failures in set-up | nothing is used after it is freed; stop ends |
| Logger (`src/logger.c`) | spin lock, level, mode, file | init, set_level, enable/disable, log, release | every thread | lock on all paths, two outputs, file that could not be opened | mutual exclusion, one order, no dangling file |
| Arena (`src/arena.c`) | chain of blocks | push, resize, clear, release | JSON, HTTP | block boundary, clear after growth | no overlap, no lost block |
| Vector, stack, buffer (`src/vector.c`, `stack.c`, `buffer.c`) | size, capacity, data | push, insert, remove, pop, shrink, sort | command line parser, regex, file system; HTTP (buffer) | capacity at its limits | refine a sequence |
| Strings (`src/string.c`, `strview.c`, `string_algo.c`) | size, capacity, bytes | set, append, prepend, split | everywhere | growth, terminator | length bookkeeping |
| JSON (`src/json.c`) | value tree in arenas; parser, writer | new, set, append, find, pop, loads, dumps | arena, files | linked-list tails, sizes in tags, shared copies, counted room | list and size agree, the grammar is accepted, what is written is read back |
| Regular expressions (`src/regex.c`) | bytecode; position, string position and flag of the machine | compile, match, free | vector | jump distances, greedy loops, termination | compiler and machine together agree with the language of the pattern, where nothing has to be given back |
| HTTP client (`src/http.c`) | connection, header list, buffers | connect, send_request, parse, disconnect | sockets, buffer, arena | partial reads, failures, keep-alive, removal from a list | the response belongs to the request however it was cut; no socket leaks; a send returns |
| Command line (`src/cli.c`) | argument tables, stored values | add, parse, get, release | hash map, vector | values that are entries of their own, positional counting, failing half way | every entry is used once; required arguments are reported; each string is freed |
| File system (`src/filesystem.c`) | walk queue, open directory | walk, makedirs, remove, move, read | OS, vector | tree changes during the walk, calls that give up early | every entry once |
| Sockets, errors, hashes, base64, fmt, maths, SIMD, CPU, OpenCL, backtrace, time | none, or OS handles | pure functions and system calls | | | out of scope (section 7) |

The hazards behind the "hard" column are listed in `PROJECT.json`, each at its
line, with the properties that would catch it going wrong.

## 2. Plan

1. *Done:* `ThreadPool` with its abstract specification `WorkLedger` and
   `ThreadPoolProofs`; `HashMap` with `Dictionary`; `SocketServer`; `Logger`;
   `Json` with `JsonDocument`, `JsonParser`, `JsonWriter` and `JsonGrammar`.
2. *Done:* the parts a program uses from one thread: `Arena`, `Vector`,
   `Regex`, `CliParser`, `FileSystem`, `HttpClient` over `Buffer`, composed in
   `MCTools`, whose variable `tool` chooses the part a behaviour is about.
3. *Done:* the proofs of section 6: every safety property of the pool, the
   hash map, the socket server, the logger, the arena, the vector, the command
   line parser and the file system walk, and the refinements of `WorkLedger`
   and `Dictionary`.
4. Left to TLC: liveness, and the parts whose properties speak of what a
   recursion over texts or lists computes (section 6, last paragraph).

## 3. Modules

### ThreadPool

The owner, which calls `threadpool_init` and `threadpool_release`; clients,
which add works and wait; `WorkersCount` workers.  Each thread has a program
counter (`phase`/`k` for the owner, `cpc`/`scan` for clients, `wpc`/`off` for
workers), and a step is one access to shared memory: a queue operation, a load
or a read-modify-write of a counter.  So `work_execute` is three steps (count
and enter the function, leave it and uncount, free), `threadpool_wait` is a
load followed by one step per queue, and `threadpool_work_add` is the
allocation with the waiter's increment and then the enqueue, which may fail.
A running function may add works, to the waiter of its own work or to none.

moodycamel's queue is external.  Its documentation, and the way `thread.c`
uses it, give no order between producers, so a queue is a set; a dequeue fails
only on an empty queue.  `born`, `adder` and `fate` are history variables.

The program around the pool is assumed to release it when no other thread is
inside a call that uses it; a client may be spinning on a waiter.

`WorkLedger` is what the pool promises: a work is offered, accepted or
refused, run once, done and retired, or dropped once the pool is closed, and a
client has joined a waiter only if no work of that waiter is outstanding.
`ImplementsLedger` shows that the queues, counters and worker loops implement
it, the state of a work being read off `heap`, `fate` and `submit`.

### HashMap

One turn of a loop is one step, so the table is visible in the middle of an
insertion, a growth (`hashmap_grow` with `hashmap_move_entry`) or a backward
shift.  A key is a model value with a fixed hash; a value is a pointer (size
0), a word (1 to 8 bytes) or a block, because `bucket_update_value`
distinguishes them.  `NewCapacity` is the power of two that
`round_u64_to_next_pow2(capacity + 1) + 1` really computes.  The write to NULL
in `bucket_update_value` is the state `fault`.

`Dictionary` is a partial map and the call in progress on it: which one, its
key and its value.  Only that call changes the map, once: an insertion when it
begins, for its key and if the key is absent; an update when it returns; a
removal at one step before it returns, of its own key; a lookup returns what
the map holds.  The refinement maps a key to its value wherever its bucket is:
in the table, in the old table still to be moved, in the hands of
`hashmap_move_entry`, or in those of the insertion; so a bucket dropped or
doubled by a growth is a change that no call explains.  `CallOp`, `CallKey` and
`CallValue` read the call off the program counter.

`UpdateAbsent` chooses between callers that use `hashmap_update` for present
keys only and callers that use it for any key.

### SocketServer

The owner thread, up to `MaxStarts` server threads and the clients'
connections.  A critical section is one step; `IsRunning`, which `start` and
`free` read without the mutex, is read in a step of its own.  Set-up, accept,
recv, allocation and send may fail, each with what the code then does: a failed
`inet_pton` (only with `LocalHost`, an address other than any) leaves the socket
open and logs nothing; a `recv` that returns -1, as it does when a client is
idle for the second that `SO_RCVTIMEO` allows, passes the test `!result` and
makes `memcpy` copy `(size_t)-1` bytes (`overrun`); a push that gets no memory
has lost the array (`failed` remembers it).  `Crashed` states go no further.  `Hasty` chooses between two kinds of
owner: one that waits for `IsRunning` (or for the end of a thread that failed)
before it frees or starts again, and pushes its callbacks before the start, as
`tests/test_socket_server.c` does; and one that does not.

### Logger

Threads that call any function of the logger in any order.  Taking the lock,
the body and giving the lock back are separate steps, and so are the two
outputs of `logger_log`.  `logger_init` of an initialized logger keeps the
lock, `fopen` may fail and otherwise returns a `FILE` that is not in use, and `logger_release` leaves the file mode set, as in
the code.  `ROMANO_ASSERT` does nothing, as in a release build.

### Json

`JsonDocument` holds the arenas of one document: values, list heads and list
elements, addressed by index and never freed, with the operations on them as
operators.  An append links the element behind `tail`, as in the code, and
faults when `tail` is NULL; an append without reference copies the value, and
the copy of a container has a size of its own and shares the list.  The pops
are translated with what they do at the ends of a list (section 5).

A double is its sign and one of the classes that `json_write_f64` writes alike:
`plain`, `tiny` (written as 0.000), `zero`, `carry` (9.9996, written with one
digit more than was counted), `huge` (above 2^64, written as `ovf`), `inf` and
`nan`.  The parser computes the class from the digits and the exponent, as
`json_parse_number` computes the number; `fmt_f64` gives the characters that
are written and `fmt_size_f64` how far `str_sz` moves, which are not the same:
what lies between is a stray byte of the buffer, and what goes beyond is
written behind the reserved room and then overwritten.

`JsonParser` is the recursive descent as a machine with a stack of open
containers, `JsonWriter` the recursive writer with a list of what is still to
be written; the room each reserves and the characters each writes are computed
separately, as the code does in separate loops.  `JsonGrammar` defines the
accepted texts without reference to the parser.  `Json` composes them with a
caller that builds a document or loads a text, dumps it and loads the dump, with
the bounds of one of the `Plans` (`caller`);
`content` and `tree` are history variables, what the lists should hold and what
is being written.  The caller makes any call on any value, but for putting a
container into itself, which no function of the library survives.  `content`
also remembers the calls that spoil a list: an append after the last of several
elements was popped, `json_dict_pop` of the first key, and a change of a list
that a copied container shares.

### Arena, Vector, Buffer

In `Arena` a block is its offset and its `previous`; `live` is what
`arena_push` has returned since the last `arena_clear`.  `Chain`, the blocks the
loops over `previous` visit, is the least set that holds the current block and
is closed under `previous`.  `Vector` keeps the
elements up to the capacity, so that what `memmove` reads and writes behind the
size is seen, and beside them the sequence the calls stand for.  Growth is
`round(1.61 * capacity)`.  `Buffer` has operators only; its user is
`HttpClient`.

### Regex

Characters, opcodes and operands are bytes, since a wrong jump makes the
machine read operands as opcodes.  `Lex` is `regex_lex`; `EmitAlternation`,
`EmitConcatenation`, `EmitQuantified` and `EmitPrimary` are the four mutually
recursive functions of the emitter, `Resolve` is the second pass of
`regex_emit`, and `RegexExec` is one turn of the machine's loop.  `InLanguage`
is what regular expressions mean, alternatives, groups and repetitions
included: it divides the string in every possible way and knows nothing of
tokens or bytecode.

### CliParser

An entry of `argv` is its number of dashes, a name, and a text with or without
`=`; a text stands for those that are checked and converted alike.  One turn of
the loop is one step.  `Meant` defines from `argv` alone what each argument
should hold in the end; `strings` counts the strings that were allocated and
not freed.

### FileSystem

The walk is one step per loop turn of `fs_walk`: open the next queued
directory, read, skip, or return an entry.  `readdir` gives the entries of a
directory in any order, as they were when it was opened; `fs_makedirs`,
`fs_remove` and `fs_move` change the tree between any two steps.  The trees a
walk begins with are trees (`IsTree`): an entry is in a directory.  The model
follows the Linux branch of the code.

### HttpClient

Header lists are entries with `next`, `head` and `tail`; the stream is a
sequence of names, values, separators and body characters.  A send writes all,
a part or nothing; a read returns any number of symbols up to the size of a
read; the peer answers a whole request with some response, and may close at any
time.  Building, reading, growing the buffer and parsing are those of the code.

## 4. Runs

| Run | Configuration | Shows |
|---|---|---|
| `pool` | `ThreadPool.cfg`: 2 workers, 2 clients, 2 works, `submit_rr` modulo 4 | ownership (`SingleOwner`, `NoLeak`), waiters (`WaiterExact`, `WaiterJoins`), life cycle (`PoolOutlivesUsers`, `PoolLifecycle`), what `threadpool_wait` does give (`WaitMeansTaken`), at-most-once execution (`FateSteps`), refinement (`ImplementsLedger`) |
| `pool_live` | `ThreadPoolLive.cfg`: 2 workers, 1 client, 2 works, fair | every work is freed, and init, both waits and release return |
| `pool_wait` | `ThreadPoolWait.cfg`: 3 workers, 1 client, 1 work | **violation**: `threadpool_wait` returns before the work is done |
| `map` | `HashMap.cfg`: 3 keys, 2 words, hashes 0, 3, 7, capacities from 2 | dictionary refinement (`ImplementsDictionary`), Robin Hood order (`RobinHood`), no search gives up on a key of the map (`NoKeyMissed`), `IterationComplete`, every call returns (`CallsReturn`) |
| `map_update` | `HashMapUpdate.cfg` | **violation**: a key put in by `hashmap_update` is not found |
| `server` | `SocketServer.cfg`: 2 starts, 2 connections, 2 callbacks, patient owner, fair | no use after free (`FreeStops`), mutex and sockets, none left open but after a failed `inet_pton` (`ResourcesExact`), callbacks, unless a push failed (`CallbacksAllRun`), flags (`FlagsExact`), stop returns unless the thread has crashed (`StopReturns`) |
| `server_free` | `SocketServerFree.cfg`: hasty owner | **violation**: `socket_server_free` frees a server that is starting |
| `logger` | `Logger.cfg`: 2 threads, 2 messages, 2 fopens, 2 inits, fair | mutual exclusion and file pointer (`LockProtects`), order of messages (`SameOrder`), the lock comes back (`LockComesBack`) |
| `logger_file` | `LoggerFile.cfg` | **violation**: file mode without a file |
| `json` | `Json.cfg`, module `MCJson`, one of two callers per behaviour: `writing` (2 values, 4 elements, 2 keys, 1 set, about 12,000 texts, indents 0 and 1) and `nesting` (4 values, 2 lists, 3 elements, 1 key, no texts) | lists, sizes and lookups up to the calls that spoil a list (`ListsExact`), counted room (`BuffersFit`), the language of `json_loads` (`AcceptsJson`), load after dump, which fails exactly for documents with a double written as a word (`RoundTrip`), termination by a variant (`CallsAdvance`) |
| `tools` | `Tools.cfg`, module `MCTools`: the sequential parts, one per behaviour, fair | `probe_length`, size and table are exact even when absent keys are updated (`TableExact`); a vector is the list its calls describe (`VectorIsList`); allocations never overlap and blocks are reachable (`AllocationsApart`); a reported match is one, or the string ended before it, and a match is reported when no quantified item competes with a later one, for patterns without a bar (`MatchAgrees`), and matches end (`MatchEnds`); an accepted `argv` was used entry by entry and no string is left (`ParseExact`); a walk returns every entry once (`WalkComplete`); header lists and sockets (`ClientExact`), the parsed response (`ResponseExact`), the end of the reads (`SendReturns`) |
| `regex_alternate` | `RegexAlternate.cfg`, module `MCRegex` | **violation**: the pattern "a or b", written with a bar, does not match `b` |

*Bounds.*  Two workers suffice for stealing in both directions and three are
needed for nothing but the scan of `threadpool_wait`; two works let one be
added by the other, be stolen, refused, or dropped while the other runs;
`SubmitModulus` 4 wraps.  With hashes 0, 3 and 7 and capacities 2, 4, 8, keys
collide, wrap around the end of the table, exceed `max_probes` and force one
insertion to grow the table more than once.  Two starts let a stopped server
be started again; one full chunk exercises the reallocation.  Level 7 is above
the range and must be clamped, to a level the default setting drops and a
changed one lets through.  Four elements let an append follow the pop of a
middle element or of the last of three; for a list that a copied container
shares and a value to append to it, four values are needed, with three
elements.  A capacity of 4 is doubled several times by every document, and met
exactly by a `carry` on an indented line.  The texts are all those of up to four
structural characters, of up to four characters of numbers, numbers with
exponents of one to four digits, strings long enough for a `\u` escape followed
or not by a quote, and every text one character away from a nested document.

In `tools`: hashes 0 and 1 in a table of 2 growing to 8; initial capacities 1,
3 and the default, with growth at 1, where the rounding decides; blocks of 4
with requests that leave room, fill a block exactly and exceed it; all patterns
of up to three items, quantifiers and parentheses and many longer ones, with
all strings over two letters up to three; two declarations and up to three
entries of `argv`, so that a value can follow an option, be missing, or fail
behind a stored string; trees of depth 2 with one change at any point of a
walk, in all orders of `readdir`; two sends on one connection, responses read
in every division into reads of at most 4, and answers whose length is and is
not a multiple of 4.  Behaviours of different parts share nothing, so the run
is the union of their state spaces.

*Fairness.*  Weak fairness for every thread that is inside a call (the
operating system runs it; the spins yield) and for work functions, callbacks,
`select` and clients' data to come to an end.  Nobody is obliged to begin a
call: adding, waiting, stopping and releasing are never fair.  In `tools` the
loop of `regex_exec` goes on (`RegexFairness`), a read that can return does, and
the peer answers a whole request unless it closes (`HttpFairness`): without a
peer that answers, `recv` waits by design.

*Deadlock* is checked for the pool and for the map of present keys.  The
socket server ends when it is freed, the logger when its bounds are used up or
the lock is lost, a document with its last load, and the parts of `tools` when
they are released, at a bound, or where `recv` waits; there the check is
switched off.

## 5. Findings

* `threadpool_wait` (thread.h: "Wait for all the work to be done") can return
  while a work is in a worker's hands and not counted: the dequeue comes
  before the increment of `working_threads_count`.
* `hashmap_update` of an absent key does not keep the Robin Hood order;
  `hashmap_get` may then not find the key.
* `socket_server_free` right after `socket_server_start` frees the struct
  under the server thread.
* `logger_enable_file` and `logger_release` leave the logger in file mode
  without a file, which `logger_log` asserts cannot be.
* `regex_emit_concatenation` does not stop at `|`, its check being commented
  out: `a|b` is compiled as `ab` (regex.h: "Supports ..., | operators").

Besides these, which a run shows against a document or an assertion, the code
has defects that no run of its own shows.  The models have them, and the
properties are stated so that they say what is left.

* JSON: `json_array_pop` and `json_dict_pop` of the last of several elements
  set `tail` to NULL, and the next append dereferences it; `json_dict_pop` of the
  first key lowers the size and leaves the key; a container appended without
  reference shares its list with the original and has a size of its own
  (`ListsExact` names the three).  `fmt_f64` writes `-0.000` for 0.0, one
  character more than `fmt_size_f64` says, which `json_dumps` cuts to `-0.00`;
  the character too many falls on the byte that `json_write_realloc` keeps spare
  by growing already when the buffer is full (`BuffersFit`).
  `json_dumps` writes `ovf`, `inf` or `nan` and stray bytes for doubles above 2^64, infinite or not a number, and the text is
  not JSON (`RoundTrip`); just below a power of ten, where `log10` rounds up,
  one stray byte is left, and an exponent of -23 reads behind the table of
  powers: neither is modelled.  `json_write_str` writes a vertical tab as an
  escape that `json_parse_string` drops, and other control characters as they
  are, which `json_parse_string` refuses; the keys of the run have neither.
* Socket server: a client that is silent for a second makes `recv` return -1
  and the thread copy `(size_t)-1` bytes; a failed `inet_pton` leaks the socket;
  a failed `realloc` loses the callbacks pushed before; a push while the server runs moves the array under its reader.
* Regular expressions: a repeated group that can match nothing loops for ever
  (`MatchEnds` excludes repeated groups); the exit of `+` lands three bytes
  behind its block, harmless while the operand it lands in begins with zero
  bytes, that is below 256 bytes of program; a string that ends before the
  pattern counts as a match, the empty one never does, and the machine gives
  nothing back, so that `a*ab` does not match `aab` (`MatchAgrees` names all
  three); `[]` at the end of a pattern is read past it and
  left out of the patterns.
* Vector: `vector_remove` and `vector_pop_front` read one element behind the
  size; `vector_shrink_to_fit` forgets the header's room, and what it costs is
  in `VectorIsList`.
* Arena: `arena_clear` leaves the later blocks behind (`left`); a request
  larger than a block is written past it, which `arena.h` warns of.
* Command line: without positional arguments every non-empty `argv` is refused,
  and the last positional one is never required; a string given twice leaks; a
  flag or a counter declared as a string makes `cli_parser_release` free a bad
  pointer.
* File system, Linux: the tests of `fs_is_dir` and `fs_is_file` are exchanged,
  so that `fs_remove` does not remove a directory with entries; `fs_makedirs`
  makes one level; a walk for files only does not descend; `fs_walk` returns
  false behind a skipped last entry although directories are queued.
* HTTP: a connection that fails leaves its socket open; `Host` is added again
  at every send; `http_header_remove_entry` removes only the tail, or a single
  entry; an empty header value is measured with `strlen`; a short read ends the
  response, and one that is a multiple of the read size waits for more; the
  connection is given up when `Connection` is not `close`.

## 6. Proofs

Every theorem holds for all values of the constants that satisfy the named
assumption of its module.  The bounds (`MaxWorks`, `MaxMessages`, `MaxBlocks`,
`MaxChanges`, ...) are arbitrary natural numbers, so a bound chosen for TLC
restricts no proof.

| Module | Theorem | Statement |
|---|---|---|
| `ThreadPoolProofs` | `TypeCorrect` | `Spec => []TypeOK` |
| | `OwnersAreUnique` | `Spec => []SingleOwner` |
| | `WorksDoNotLeak` | `Spec => []NoLeak` |
| | `WaitersCountExactly` | `Spec => []WaiterExact` |
| | `WaitersJoin` | `Spec => []WaiterJoins` |
| | `WorksRunAtMostOnce` | `Spec => FateSteps` |
| | `PoolOutlivesItsUsers` | `Spec => []PoolOutlivesUsers` |
| | `PoolLifecycleHolds` | `Spec => []PoolLifecycle` |
| | `WaitTakesAll` | `Spec => []WaitMeansTaken` |
| | `PoolImplementsLedger` | `Spec => ImplementsLedger` |
| `HashMapProofs` | `TableExactTheorem` | `Spec => []TableExact`, updates of absent keys included |
| `HashMapOrderProofs` | `UniqueKeysTheorem` | `~UpdateAbsent => (Spec => []UniqueKeys)` |
| | `RobinHoodTheorem` | `~UpdateAbsent => (Spec => []RobinHood)` |
| | `NoKeyMissedTheorem` | `~UpdateAbsent => (Spec => []NoKeyMissed)` |
| | `IterationTheorem` | `~UpdateAbsent => (Spec => []IterationComplete)` |
| | `KeysFoundTheorem` | `~UpdateAbsent => (Spec => []KeysAreFound)` |
| | `DictionaryTheorem` | `Plain => (Spec => ImplementsDictionary)` |
| `SocketServerProofs` | `AnyOwnerInvariant` | `Spec => []AnyOwner`, for hasty owners too |
| | `PatientOwnerInvariant` | `~Hasty => (Spec => []PatientOwner)` |
| | `FreeStopsAlways` | `~Hasty => (Spec => []FreeStops)` |
| | `ResourcesExactAlways` | `~Hasty => (Spec => []ResourcesExact)` |
| | `CallbacksAllRunAlways` | `~Hasty => (Spec => []CallbacksAllRun)` |
| | `FlagsExactAlways` | `~Hasty => (Spec => []FlagsExact)` |
| `LoggerProofs` | `LoggerInvariant` | `Spec => []LoggerInv` |
| | `LockProtectsAlways` | `Spec => []LockProtects` |
| | `SameOrderAlways` | `Spec => []SameOrder` |
| `ContainerProofs` | `AllocationsStayApart` | `ArenaSpec => []AllocationsApart` |
| | `VectorIsAList` | `VectorSpec => []VectorIsList` |
| `CliParserProofs` | `ParsesExactly` | `CliSpec => []ParseExact` |
| `FileSystemProofs` | `WalksAreComplete` | `FsSpec => []WalkComplete` |

**Thread pool: works.**  From `PoolAssumption` (at least one worker, clients
distinct from workers and finite in number, a submit counter of at least one
value).  None of the properties is inductive alone.  `TypeOK` needs `Hands` (a
worker in `work_execute` holds a work, so the indices of `fate` and `waiter`
exist) and `Hands` needs `Startup` (a worker that has not been started has no
work).  `SingleOwner` and `NoLeak` go together in `Places`, with `Fresh`: works
not yet allocated are nowhere, so `work_new` gives a new one.  The steps that
move works are reduced by `NextMoves` to five kinds (create, enqueue, dequeue,
free, none), and `Places` is shown for each.  `WaiterExact` is a cardinality: a
new work adds one element to the set its waiter counts, `work_free` removes
one, and `Places` says that the freed one was in it.  `WaiterJoins` follows
from `Joined` (a joined waiter has no allocated work, since its counter was 0
when the wait returned and only its own client, or a work of it, can add) and
`FateInv` (a work that is no longer allocated has a final fate).  `FateSteps`
needs `FateInv` and `Stopped` (release sets `stop` before it drains).  The
whole is `PoolInv`.

**Thread pool: life cycle.**  `LifeInv` is proved beside `PoolInv`.  `Stages`
says which queues exist at each point of init and release.  `Counted` says that
`alive_count` and `working_threads_count` are the numbers of registered and of
running workers; that is what lets `threadpool_init` conclude, from a counter,
that all workers are there.  `Crew` carries this to the joins: a worker leaves
only after `stop`, and the drain begins after the last join.  `Users` (a client
in a call has a live pool) and `Drained` (a drained queue stays empty, because
nobody is left to enqueue) then give that nothing touches a freed queue and
that nothing is left.  For `threadpool_wait`, `Scanned` says where a work of the
waiting client can be during the scan: taken, or in a queue the scan has not
reached.  It needs `ByAdder`, since the client itself adds nothing meanwhile,
and it survives stealing because a stolen work goes to a worker's hands, not to
another queue.

**Thread pool: refinement.**  Under the mapping `Ledger` each step of the
owner, a worker or a client changes the state of at most one work, by one step
of `WorkLedger`, or nothing.  The delicate cases are the join, which needs
`WaiterExact` to turn a counter of 0 into "no outstanding work", the drain,
which needs `Stopped`, and the enqueue, which needs `Places` for the work to be
still on offer.

**Hash map: the table.**  From `HashMapAssumption` (a key is not the empty
bucket's, kinds of values are disjoint, hashes and requested capacities are
numbers).  `MapInv` holds of every caller, one that updates absent keys
included.  It says of the table in the middle of any loop that `probe_length`
is the distance from the home and `size` the number of buckets in use, but for
the slot a shift is about to fill, and that the bucket in hand is as far from
its home as it says.  What makes it inductive are the bounds in `Loops`: a
distance is only exact while it is below the capacity, which `max_probes` gives
an insertion, the room in the new table a growth, and the first empty bucket an
update.

**Hash map: the order.**  `OrderInv` adds what early exits rely on.  `FitsIn`
says that a bucket has before it, down to its home, only buckets in use that are
no more than the distance nearer to theirs; it holds of all buckets and of the
bucket in hand, so a swap keeps it.  `Inserting` and `Searching` say where the
key of the call can still be.  The hard part is the limit: `hashmap_move_entry`
does not test `max_probes`, and yet every bucket must be below it in the new
table, or `hashmap_get` gives up too early.  `Doubled` remembers that the keys
had places below the old limit in a table of half the size, and `DoubledShort`
is a pigeonhole argument: between the last empty slot and a bucket too far from
its home there would be more buckets than the old table had places near their
homes.  Updates of absent keys break the order, which run `map_update` shows, so
`~UpdateAbsent` cannot be dropped.

**Hash map: refinement.**  `DictInv` adds `OneValue`, that a key has one value
wherever its bucket is: in the table, in the old one, or in hand.  Then a turn
of a loop is a stutter of `Dictionary`: it moves buckets and changes neither
the map nor the call (`Quiet`).  An insertion takes effect when the call
begins or never, and a removal when its shift begins.  A removal or a lookup
that gives up is a return of `Dictionary` only if its key is absent, which is
where `NoKeyMissed` is used.
`Plain` are the callers whose values `hashmap_update` stores as they are: present
keys, and values of one kind that carry no block; `bucket_update_value` of a word
over a pointer, or of a block, does not keep the value.

**Socket server.**  From `SocketServerAssumption`.  `AnyOwner` holds of every
owner: types, counters, the order of thread creation, and where in its code a
thread has a socket and a connection; the only socket an ended thread keeps is
that of a failed `inet_pton`.  With a patient owner `OneThread` says
that the only thread that can be active is the one the struct knows, on a live
server and mutex, `RunningFlag` that `IsRunning` is set just while a thread
serves, and `Stopping` that `needToStop` outlives no stop.  They need each
other: the owner frees only when `IsRunning` is off, which means something only
if no second thread could have cleared it, which holds because the owner starts
again only when the first has ended.  The hypothesis `~Hasty` cannot be dropped;
run `server_free` shows the violation.

**Logger.**  From `LoggerAssumption`.  `LockProtects` needs that the holder of
the lock is alone (`Mutex`) and that the file pointer is NULL or open
(`FileOpen`).  `SameOrder` compares two sequences that are written at different
steps; what makes it inductive is `OwnMessage` (calls in progress have different
messages), `WrittenOnce`, and `NotYet`: a call that still has to write to the
file has its message last on the console and not yet in the file.  So whatever
is in the file was written to the console before it, if at all.

**Arena.**  From `ArenaAssumption` (blocks and requests are not empty).  The
invariant adds `OneFirst`, that the chain ends in exactly one block without a
previous one, so that the loop of `arena_clear` stops at a well-defined block,
and `BelowOffset`, that what was returned lies below the offset of its block and
its block is in the chain.  A new allocation begins at the offset and is apart
from all others.  Requests larger than a block are in the theorem: they overrun
the end of their block and still overlap no other allocation of it.

**Vector.**  From `VectorAssumption`.  `VectorInv` says that there are as many
cells as the capacity, that the first `size` of them are the list, and that the
capacity of a vector in use is never 0: `round(1.61 * capacity)` is larger than
any capacity but 0, and only so does `_vector_grow` make room.  The theorem
covers what `memmove` reads behind the size, and the loss of `HeaderRoom`
elements by `vector_shrink_to_fit`.  That `vector_find` returns the first
occurrence is shown with the least index at which the element occurs.

**File system walk.**  From `FsAssumption` (a walk begins with trees).  Two
facts about the queue, the open directory, the entries still to come and what
was returned are inductive: `Once`, no entry can be returned twice, because
what was returned is in a directory that is no longer queued and its stream
does not have it any more; and, while the tree stays as it is, `Reached`, every
wanted entry of a directory that was reached was returned, or its directory is
queued, or the stream has it.  When the walk ends there is no queue and no
stream, so every wanted entry whose directory was reached was returned; the
shortest path that was not would have a directory that was
(`AllReached`).  `Once` holds although the tree changes during the walk, and
needs that `fs_makedirs`, `fs_remove` and `fs_move` make trees of trees.

**Command line parser.**  From `CliAssumption` (declarations use the members of
the three enumerations, an entry has a number of dashes and a value or none).
`Meant` and `GivenOnce` speak of the entries that begin an argument, which
`IsHead` defines by recursion over `argv`.  That the recursion has exactly one
solution, and that storing values does not change it, is shown with the least
index at which two solutions would differ (`HeadsExist`, `HeadsUnique`,
`HeadsKept`).  `CliInv` then says, at every turn of the loop, that `i` begins an
argument (`Looping`), that `pos_index` is the number of positional entries
before it, and that each argument holds what the entries before `i` give it;
a turn adds one entry, the last one, to those of one argument (`SeenSets`,
`GivesNext`), and steps over the entry it took for a value.  At the end this is
`Accepted`.  `Counted` says that the strings that were made are the strings that
are held, as long as each argument is given once (`FirstHit`); release reaches
all of them through the names because, when no name is declared twice, the names
and the arguments correspond one to one (`NamesReach`).  `Fitting` says which
data an argument can have, and so for which release meets a bad pointer.

**Only model-checked.**  Liveness (`WorkCompletes`, the `CallsReturn`s,
`StopReturns`, `LockComesBack`, `MatchEnds`, `SendReturns`) is out of the
prover's reach.  Regular expressions (`MatchAgrees`) and the HTTP client
(`ClientExact`, `ResponseExact`) use recursive operators, about which the prover
cannot reason; the properties of JSON (`ListsExact`, `BuffersFit`,
`AcceptsJson`, `RoundTrip`, and the variant of `CallsAdvance`) speak of what
recursive functions over lists and texts compute, which needs induction over
data.

## 7. Limits

* Memory is sequentially consistent; the relaxed orderings of `thread.c` are
  not modelled.
* Thread creation succeeds.  Allocation failures are modelled where the code
  tests for them.
* Works do not wait for works; a work that waits for itself blocks for ever.
* In JSON, integers are signs, doubles signs and classes of magnitude, the sizes of strings (which
  `json_str_set` and the parser do not keep) and the file variants of load and
  dump are left out, and so are texts larger than an arena block.
* Hash functions, key bytes, message text and data sizes are abstract.
* Not modelled at all: floating-point mathematics, SIMD, CPU and OpenCL
  queries, backtraces, formatting, hashes, base64, random numbers, the thin
  wrappers of system calls (sockets, DNS, time, memory) and error texts.  They
  keep no state over time, or state that only the operating system knows.
* Strings and the stack are not modelled: they keep the size and capacity of a
  growing block as the vector and the buffer do, and no part of the library
  keeps state in them from call to call.  Sorting and shuffling a vector, file
  contents, permissions, the help text, the JSON getters and the regex
  disassembler are left out for the same reason.
* The file system model is that of Linux; the Windows branches are not
  modelled.  In the sequential parts memory for a growth is assumed to be there.

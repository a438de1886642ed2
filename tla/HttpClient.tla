---------------------------- MODULE HttpClient -----------------------------
(***************************************************************************)
(* The HTTP client of src/http.c: linked lists of header entries, the      *)
(* request that is built from one, and a context that owns a connection,   *)
(* sends the request, reads the response in pieces and parses it.          *)
(*                                                                         *)
(* A symbol of the stream is a name, a value, a separator or one character *)
(* of a body.  The peer and the network are external: a read returns any   *)
(* part of what is on its way, and the peer may close at any time.         *)
(***************************************************************************)
EXTENDS Integers, Sequences, SequencesExt, Buffer

CONSTANTS
    Names,          \* header names a client adds or removes, none of them
                    \* the beginning of another
    NameLen,        \* the length of each
    Answers,        \* what a peer may answer: [headers, body]
    RecvSz,         \* HTTP_RESPONSE_BUFFER_SZ
    InitialCap,     \* the initial capacity of both buffers
    MaxEntries,     \* bound: entries a client adds
    MaxSends        \* bound: requests on one context

ASSUME HttpAssumption ==
    /\ NameLen \in [Names \cup {"Host"} -> Nat \ {0}]
    /\ RecvSz \in Nat \ {0} /\ InitialCap \in Nat \ {0}
    /\ MaxEntries \in Nat /\ MaxSends \in Nat

VARIABLES
    ctx,        \* the HTTPContext
    request,    \* the headers of the HTTPRequest
    response,   \* the HTTPResponse
    net,        \* sockets and the bytes on their way (external)
    call        \* the send in progress, and what the last one returned

httpVars == <<ctx, request, response, net, call>>

(***************************************************************************)
(* Headers: entries in the order they were added; 0 is NULL.               *)
(***************************************************************************)

NoHeaders == [entries |-> <<>>, head |-> 0, tail |-> 0]

\* http_header_add_entry
AddEntry(h, key, value) ==
    LET n == Len(h.entries) + 1
        linked == IF h.tail = 0 THEN h.entries
                  ELSE [h.entries EXCEPT ![h.tail].next = n]
    IN  [entries |-> Append(linked, [key |-> key, value |-> value, next |-> 0]),
         head |-> IF h.head = 0 THEN n ELSE h.head,
         tail |-> n]

\* What http_header_get_next returns, call after call.
Walk(h) ==
    LET From[i \in 0 .. Len(h.entries)] ==
            IF i = 0 THEN <<>> ELSE <<i>> \o From[h.entries[i].next]
    IN  From[h.head]

Lines(h) == [i \in 1 .. Len(Walk(h)) |->
                LET e == h.entries[Walk(h)[i]] IN <<e.key, e.value>>]

\* http_header_find: 0 when there is none.
Find(h, key) ==
    LET hits == {i \in 1 .. Len(Walk(h)) : h.entries[Walk(h)[i]].key = key}
    IN  IF hits = {} THEN 0 ELSE Walk(h)[CHOOSE i \in hits : \A j \in hits : i <= j]

\* Mutant: the tail pointer stays.
RemoveEntryKeepsTail(h, key) ==
    LET ids == Walk(h)
        hits == {i \in 1 .. Len(ids) : h.entries[ids[i]].key = key}
        at == CHOOSE i \in hits : \A j \in hits : i <= j
    IN  IF hits = {} \/ at = 1 THEN h
        ELSE [h EXCEPT !.entries[ids[at - 1]].next = h.entries[ids[at]].next]

\* http_header_remove_entry: with several entries the search stops at the
\* first one whose key is as long as the one asked for, and only the tail is
\* really taken off the list.
RemoveEntry(h, key) ==
    LET ids == Walk(h)
        stops == {i \in 1 .. Len(ids) :
                    NameLen[h.entries[ids[i]].key[1]] = NameLen[key[1]]}
        at == CHOOSE i \in stops : \A j \in stops : i <= j
    IN  CASE h.head = 0 -> h
          [] h.head # 0 /\ h.head = h.tail ->
                IF h.entries[h.head].key = key
                THEN [h EXCEPT !.head = 0, !.tail = 0] ELSE h
          [] OTHER ->
                IF stops = {} THEN [h EXCEPT !.entries[Last(ids)].next = 0]
                ELSE IF at = 1 THEN [h EXCEPT !.head = ids[1]]
                ELSE IF ids[at] = h.tail
                     THEN [h EXCEPT !.tail = ids[at - 1],
                                    !.entries[ids[at - 1]].next = 0]
                     ELSE [h EXCEPT !.entries[ids[at - 1]].next = ids[at]]

(***************************************************************************)
(* Building a request and parsing a response.                              *)
(***************************************************************************)

HeaderBytes(lines) ==
    FlattenSeq([i \in 1 .. Len(lines) |->
        lines[i][1] \o <<":", "SP">> \o lines[i][2] \o <<"CR", "LF">>])

\* http_request_build, into an empty builder.  Appending the parts one by one
\* ends with the same capacity: a resize doubles only as far as it must.
RequestBuild(builder, headers) ==
    BufferAppend(builder,
        <<"GET", "SP", "/", "SP", "HTTP", "CR", "LF">>
        \o HeaderBytes(Lines(headers)) \o <<"CR", "LF">>)

\* The first place from i where symbol c stands; Len(body) + 1 if nowhere.
Seek(body, i, c) ==
    LET hits == {j \in i .. Len(body) : body[j] = c}
    IN  IF hits = {} THEN Len(body) + 1 ELSE CHOOSE j \in hits : \A k \in hits : j <= k

\* http_response_parser_skip_whitespace and _skip_crlf: the place after the
\* separator, or 0 when there is none or nothing follows it.
SkipWhitespace(body, i) ==
    LET j == Seek(body, i, "SP") + 1 IN IF j > Len(body) THEN 0 ELSE j

\* Mutant: the line feed is taken for the beginning of the next line.
SkipCrlfHalf(body, i) ==
    LET j == Seek(body, i, "CR") + 1
    IN  IF j >= Len(body) THEN 0 ELSE IF body[j] # "LF" THEN 0 ELSE j

SkipCrlf(body, i) ==
    LET j == Seek(body, i, "CR") + 1
    IN  IF j >= Len(body) THEN 0 ELSE IF body[j] # "LF" THEN 0 ELSE j + 1

\* A string handed to http_header_add_entry with the length 0 is measured
\* with strlen, up to the end of everything that was received.
Stored(body, i, j) ==
    SubSeq(body, i, (IF i = j THEN Seek(body, i, "NUL") ELSE j) - 1)

RECURSIVE ParseHeaders(_, _, _)

\* The loop of http_response_parse: [at, headers], with at = 0 for false.
ParseHeaders(body, i, headers) ==
    LET colon == Seek(body, i, ":")
        start == colon + 2
        end == Seek(body, start, "CR")
    IN  IF i + 1 >= Len(body) THEN [at |-> i, headers |-> headers]
        ELSE IF body[i] = "CR" /\ body[i + 1] = "LF"
        THEN [at |-> i, headers |-> headers]
        ELSE IF start > Len(body) THEN [at |-> 0, headers |-> headers]
        ELSE ParseHeaders(body, end + 2,
                AddEntry(headers, Stored(body, i, colon), Stored(body, start, end)))

NoResponse == [stage |-> "none", headers |-> NoHeaders, code |-> "0", content |-> <<>>]

\* http_response_parse: [ok, response].  The fields found so far stay set.
ResponseParse(r, body) ==
    LET code == SkipWhitespace(body, 1)
        coded == [r EXCEPT !.code = body[code]]
        lines == SkipCrlf(body, code)
        parsed == ParseHeaders(body, lines, r.headers)
        full == [coded EXCEPT !.headers = parsed.headers]
        content == IF parsed.at > Len(body) THEN 0 ELSE SkipCrlf(body, parsed.at)
        Failed(s) == [ok |-> FALSE, response |-> s]
    IN  CASE body[1] # "HTTP" -> Failed(r)
          [] body[1] = "HTTP" /\ code = 0 -> Failed(r)
          [] body[1] = "HTTP" /\ code # 0 /\ lines = 0 -> Failed(coded)
          [] OTHER -> IF parsed.at = 0 \/ content = 0 THEN Failed(full)
                      ELSE [ok |-> TRUE,
                            response |-> [full EXCEPT !.content =
                                SubSeq(body, content, Len(body))]]

(***************************************************************************)
(* The peer.                                                               *)
(***************************************************************************)

\* The n-th answer carries the n-th code, and its body is made of it.
Code(n) == <<"200", "404", "500">>[n]

AnswerBytes(n, answer) ==
    <<"HTTP", "SP", Code(n), "CR", "LF">> \o HeaderBytes(answer.headers)
    \o <<"CR", "LF">> \o [i \in 1 .. answer.body |-> Code(n)]

NoNet == [open |-> {}, made |-> 0, asked |-> <<>>, wire |-> <<>>, closed |-> FALSE]

\* The peer answers the oldest whole request it was sent.
PeerAnswer(answer) ==
    /\ net.asked # <<>> /\ ~net.closed
    /\ net' = [net EXCEPT !.asked = Tail(@), !.wire = @ \o AnswerBytes(Head(net.asked), answer)]
    /\ call' = [call EXCEPT !.answer = answer]
    /\ UNCHANGED <<ctx, request, response>>

PeerClose ==
    /\ ctx.is_alive /\ ~net.closed
    /\ net' = [net EXCEPT !.closed = TRUE]
    /\ UNCHANGED <<ctx, request, response, call>>

(***************************************************************************)
(* The calls of a client.                                                  *)
(***************************************************************************)

NoContext == [stage |-> "none", is_alive |-> FALSE, socket |-> 0,
              builder |-> BufferRelease, recv_buffer |-> BufferRelease]

NoAnswer == [headers |-> <<>>, body |-> 0]

NoCall == [pc |-> "idle", n |-> 0, whole |-> FALSE, synced |-> FALSE,
           ok |-> FALSE, answer |-> NoAnswer]

HttpInit ==
    /\ ctx = NoContext /\ request = NoHeaders /\ response = NoResponse
    /\ net = NoNet /\ call = NoCall

\* socket_new: the next descriptor.
Opened == [net EXCEPT !.made = @ + 1, !.open = @ \cup {net.made + 1}]

\* http_context_disconnect
Disconnect(c) == [c EXCEPT !.is_alive = FALSE]
Shut(n, c) == IF c.is_alive THEN [n EXCEPT !.open = @ \ {c.socket}] ELSE n

\* http_context_init.  A name that does not resolve, or a socket that cannot
\* be made, leaves nothing behind; a connection that fails leaves its socket
\* open; memory that is not there closes the connection.
HttpContextInit(outcome) ==
    LET connected == [NoContext EXCEPT !.is_alive = TRUE, !.socket = net.made + 1]
    IN  /\ ctx.stage = "none" /\ net.made = 0
        /\ CASE outcome = "unresolved" -> UNCHANGED <<ctx, net>>
             [] outcome = "refused" ->
                    ctx' = [NoContext EXCEPT !.socket = net.made + 1] /\ net' = Opened
             [] outcome = "no memory" ->
                    ctx' = Disconnect(connected) /\ net' = Shut(Opened, connected)
             [] outcome = "connected" ->
                    /\ net' = Opened
                    /\ ctx' = [connected EXCEPT !.stage = "ready",
                                  !.builder = BufferInit(InitialCap),
                                  !.recv_buffer = BufferInit(InitialCap)]
        /\ UNCHANGED <<request, response, call>>

\* A request is prepared before the context connects; the two share nothing.
HttpHeaderAdd(name) ==
    /\ ctx.stage = "none" /\ net.made = 0 /\ Len(request.entries) < MaxEntries
    /\ request' = AddEntry(request, <<name>>, <<"v">>)
    /\ UNCHANGED <<ctx, response, net, call>>

HttpHeaderRemove(name) ==
    /\ ctx.stage = "none" /\ net.made = 0
    /\ request' = RemoveEntry(request, <<name>>)
    /\ request' # request
    /\ UNCHANGED <<ctx, response, net, call>>

HttpResponseInit ==
    /\ call.pc = "idle" /\ response.stage = "none"
    /\ response' = [NoResponse EXCEPT !.stage = "ready"]
    /\ UNCHANGED <<ctx, request, net, call>>

HttpResponseRelease ==
    /\ call.pc = "idle" /\ response.stage = "used"
    /\ response' = NoResponse
    /\ UNCHANGED <<ctx, request, net, call>>

Returns(b) == [call EXCEPT !.pc = "idle", !.ok = b]

\* http_context_send_request up to its loop: the Host entry is added to the
\* caller's request, and a send that writes only a part is taken for done.
HttpSend(sent) ==
    LET headers == AddEntry(request, <<"Host">>, <<"h">>)
        built == RequestBuild(BufferReset(ctx.builder), headers)
        started == [call EXCEPT !.n = @ + 1, !.answer = NoAnswer, !.whole = (sent = "all"),
                        !.synced = net.wire = <<>> /\ net.asked = <<>>]
    IN  /\ ctx.stage = "ready" /\ call.pc = "idle" /\ response.stage = "ready"
        /\ IF ~ctx.is_alive
           THEN sent = "error" /\ call' = Returns(FALSE) /\ UNCHANGED <<ctx, request, net>>
           ELSE /\ call.n < MaxSends
                /\ request' = headers
                /\ call' = IF sent = "error" THEN [started EXCEPT !.pc = "idle", !.ok = FALSE]
                           ELSE [started EXCEPT !.pc = "recv"]
                /\ ctx' = [ctx EXCEPT !.builder = built,
                              !.recv_buffer = IF sent = "error" THEN @ ELSE BufferReset(@)]
                /\ net' = IF sent = "all" /\ ~net.closed
                          THEN [net EXCEPT !.asked = Append(@, started.n)] ELSE net
        /\ response' = [response EXCEPT !.stage = "used"]

\* Mutant: only the end of the stream ends the loop.
HttpRecvToEnd(n) ==
    /\ call.pc = "recv"
    /\ IF net.wire = <<>> THEN n = 0 /\ net.closed
       ELSE n \in 1 .. RecvSz /\ n <= Len(net.wire)
    /\ ctx' = [ctx EXCEPT !.recv_buffer =
                  BufferEmplace(BufferPrepare(@, RecvSz), SubSeq(net.wire, 1, n))]
    /\ net' = [net EXCEPT !.wire = SubSeq(@, n + 1, Len(@))]
    /\ call' = [call EXCEPT !.pc = IF n = 0 THEN "parse" ELSE "recv"]
    /\ UNCHANGED <<request, response>>

\* One turn of the loop: a read of n symbols, 0 at the end of the stream; a
\* short one ends the loop.
HttpRecv(n) ==
    /\ call.pc = "recv"
    /\ IF net.wire = <<>> THEN n = 0 /\ net.closed
       ELSE n \in 1 .. RecvSz /\ n <= Len(net.wire)
    /\ ctx' = [ctx EXCEPT !.recv_buffer =
                  BufferEmplace(BufferPrepare(@, RecvSz), SubSeq(net.wire, 1, n))]
    /\ net' = [net EXCEPT !.wire = SubSeq(@, n + 1, Len(@))]
    /\ call' = [call EXCEPT !.pc = IF n < RecvSz THEN "parse" ELSE "recv"]
    /\ UNCHANGED <<request, response>>

\* After the loop: the terminator is appended, the response parsed, and the
\* connection given up when a Connection header says anything but close.
HttpParse ==
    LET full == BufferAppend(ctx.recv_buffer, <<"NUL">>)
        result == ResponseParse(response, full.data)
        entry == Find(result.response.headers, <<"Connection">>)
        drops == result.ok /\ entry # 0
                 /\ result.response.headers.entries[entry].value # <<"close">>
        done == [ctx EXCEPT !.recv_buffer = full]
    IN  /\ call.pc = "parse"
        /\ response' = result.response
        /\ ctx' = IF drops THEN Disconnect(done) ELSE done
        /\ net' = IF drops THEN Shut(net, ctx) ELSE net
        /\ call' = Returns(result.ok)
        /\ UNCHANGED request

\* recv fails, which needs a connection that was reset.
HttpRecvError ==
    /\ call.pc = "recv" /\ net.closed
    /\ ctx' = [ctx EXCEPT !.recv_buffer = BufferPrepare(@, RecvSz)]
    /\ call' = Returns(FALSE)
    /\ UNCHANGED <<request, response, net>>

HttpContextRelease ==
    /\ ctx.stage = "ready" /\ call.pc = "idle"
    /\ ctx' = [NoContext EXCEPT !.stage = "released"]
    /\ net' = Shut(net, ctx)
    /\ request' = NoHeaders    \* http_request_release
    /\ UNCHANGED <<response, call>>

HttpNext ==
    \/ \E o \in {"unresolved", "refused", "no memory", "connected"} : HttpContextInit(o)
    \/ \E name \in Names : HttpHeaderAdd(name) \/ HttpHeaderRemove(name)
    \/ HttpResponseInit \/ HttpResponseRelease
    \/ \E sent \in {"all", "part", "error"} : HttpSend(sent)
    \/ \E n \in 0 .. RecvSz : HttpRecv(n)
    \/ HttpParse
    \/ HttpRecvError
    \/ HttpContextRelease
    \/ \E a \in Answers : PeerAnswer(a)
    \/ PeerClose

\* The loop reads on while there is something to read, and the peer answers
\* a whole request unless it closes.
HttpFairness ==
    /\ WF_httpVars(\E n \in 0 .. RecvSz : HttpRecv(n))
    /\ WF_httpVars(\E a \in Answers : PeerAnswer(a))

HttpSpec == HttpInit /\ [][HttpNext]_httpVars /\ HttpFairness

(***************************************************************************)
(* Properties.                                                             *)
(***************************************************************************)

\* A list of headers is in the order of its additions and ends at its tail,
\* where the next entry is linked; and a context that is in use or released
\* has no other socket open than that of a living connection.
ClientExact ==
    /\ \A h \in {request, response.headers} :
          LET ids == Walk(h)
          IN  /\ h.tail = IF ids = <<>> THEN 0 ELSE Last(ids)
              /\ \A i \in 1 .. Len(ids) - 1 : ids[i] < ids[i + 1]
    /\ ctx.stage # "none" => net.open = IF ctx.is_alive THEN {ctx.socket} ELSE {}

\* When http_context_send_request returns true, over a connection on which
\* nothing else was on its way, and the answer has no empty value: the code
\* and all the headers are those of the answer to this request, however the
\* stream was cut into reads, and the content is a beginning of its body (a
\* short read is taken for the end).
ResponseExact ==
    call.pc = "idle" /\ call.ok /\ call.synced /\ response.stage = "used"
    /\ (\A i \in 1 .. Len(call.answer.headers) : call.answer.headers[i][2] # <<>>) =>
        /\ response.code = Code(call.n)
        /\ Lines(response.headers) = call.answer.headers
        /\ \E k \in 0 .. call.answer.body :
              response.content = [i \in 1 .. k |-> Code(call.n)] \o <<"NUL">>

\* Everything was read, and it was a multiple of the size of a read: the loop
\* waits for more, as long as the peer keeps the connection.
Blocked ==
    /\ net.wire = <<>> /\ net.asked = <<>>
    /\ Len(ctx.recv_buffer.data) % RecvSz = 0

\* A request that was sent as a whole over such a connection leaves the loop
\* of reads, if the peer answers or closes, except where it is Blocked.
SendReturns ==
    (call.pc = "recv" /\ call.synced /\ call.whole) ~> (call.pc # "recv" \/ Blocked)

=============================================================================

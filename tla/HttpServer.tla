----------------------------- MODULE HttpServer -----------------------------
(***************************************************************************)
(* The event loop of the server (cas/src/http-server.cpp, main() and       *)
(* handle_context() in httpServer.cpp) with the connections it serves.     *)
(*                                                                         *)
(* The futures are awaited at once, so the server is one thread of         *)
(* control: it polls, accepts or reads one request, handles it, sends the  *)
(* response and polls again.  Clients and the kernel are the environment.  *)
(*                                                                         *)
(* A request reaches the server in one or two pieces, one per read().  Of  *)
(* its contents only what the code and the properties tell apart is kept:  *)
(* what the request asks for, which headers are present, and whether the   *)
(* value of a header is keep-alive or has a colon in it.                   *)
(***************************************************************************)
EXTENDS Naturals, Sequences, Functions

CONSTANTS
    Conns,        \* client connections, each opened once
    Headers,      \* names of headers
    Values,       \* what the values of headers are like
    MaxRequests,  \* bound on the requests a client sends on its connection
    MaxSent,      \* bound on the requests of all clients together
    MaxFds,       \* descriptors the server has for connections and files
    Cuts          \* where the first piece of a request may end

(* edge: in the request line, or with only the last line feed of the       *)
(* header to come; line: anywhere in between.                              *)
AllCuts == {"edge", "line"}

(* colon: a value with a colon in it; other: neither that nor keep-alive.  *)
AllValues == {"keep-alive", "colon", "other"}

ASSUME ServerAssumption ==
    /\ Cuts \subseteq AllCuts
    /\ Values \subseteq AllValues
    /\ MaxRequests \in Nat
    /\ MaxSent \in Nat
    /\ MaxFds \in Nat \ {0}

(* api: answered by the weather service; page: a file of www.              *)
Kinds == {"api", "page"}

(* The headers of a piece: a value for each of some names.                 *)
HeaderLines == UNION {[names -> Values] : names \in SUBSET Headers}

VARIABLES
    client,   \* what each client is doing
    sent,     \* complete requests each client has sent
    stream,   \* per connection, the pieces the server has not read
    replies,  \* per connection, the requests answered, in order
    backlog   \* connections waiting for accept()

VARIABLES
    open,     \* the server's open descriptors and their connections
    fds,      \* HttpServer::_fds without its first entry, the listening socket
    pc,       \* where the server's thread is
    cur,      \* fdIndex of handleRead()
    raw,      \* headers that the text handleRead() has read so far assigns
    cut,      \* where what it has read so far ends
    result,   \* headers of get_ctx()'s result, and the requests they are of
    ctx       \* the context handle_context() works on

environment == <<client, sent, stream, replies, backlog>>
server == <<open, fds, pc, cur, raw, cut, result, ctx>>
vars == <<environment, server>>

NoHeaders == [h \in {} |-> 0]
NoCtx == [fd |-> 0, kind |-> "none", request |-> <<>>, headers |-> NoHeaders]

Init ==
    /\ client = [c \in Conns |-> "new"]
    /\ sent = [c \in Conns |-> 0]
    /\ stream = [c \in Conns |-> <<>>]
    /\ replies = [c \in Conns |-> <<>>]
    /\ backlog = <<>>
    /\ open = [f \in {} |-> 0] /\ fds = <<>>
    /\ pc = "poll" /\ cur = 0 /\ raw = NoHeaders /\ cut = "edge"
    /\ result = NoHeaders /\ ctx = NoCtx

-----------------------------------------------------------------------------
(* Clients: they wait for the response before they send another request.   *)
(* A client may go away at any time: it closes the connection, or resets   *)
(* it.                                                                     *)

(* Bound: the requests all clients have sent.                              *)
MoreToCome == FoldFunction(+, 0, sent) < MaxSent

Connect(c) ==
    /\ client[c] = "new"
    /\ client' = [client EXCEPT ![c] = "idle"]
    /\ backlog' = Append(backlog, c)
    /\ UNCHANGED <<sent, stream, replies, server>>

StartRequest(c) ==
    /\ client[c] = "idle" /\ sent[c] < MaxRequests /\ MoreToCome
    /\ client' = [client EXCEPT ![c] = "partial"]
    /\ \E h \in HeaderLines, k \in Cuts :
          stream' = [stream EXCEPT ![c] =
                        Append(@, [headers |-> h, kind |-> k])]
    /\ UNCHANGED <<sent, replies, backlog, server>>

FinishRequest(c) ==
    /\ client[c] \in {"idle", "partial"} /\ sent[c] < MaxRequests /\ MoreToCome
    /\ client' = [client EXCEPT ![c] = "waiting"]
    /\ sent' = [sent EXCEPT ![c] = @ + 1]
    /\ \E h \in HeaderLines, k \in Kinds :
          stream' = [stream EXCEPT ![c] =
                        Append(@, [headers |-> h, kind |-> k])]
    /\ UNCHANGED <<replies, backlog, server>>

HangUp(c) ==
    /\ client[c] \in {"idle", "partial", "waiting"}
    /\ \E gone \in {"closed", "reset"} :
          client' = [client EXCEPT ![c] = gone]
    /\ UNCHANGED <<sent, stream, replies, backlog, server>>

-----------------------------------------------------------------------------
(* get_ctx().                                                              *)

FreeFds == 1..MaxFds \ DOMAIN open

(* Faulty variant: descriptors are counted, not reused.                    *)
NextFd == IF DOMAIN open = {} THEN 1
          ELSE 1 + CHOOSE f \in DOMAIN open : \A g \in DOMAIN open : f >= g

(* The kernel gives out the lowest descriptor that is free.                *)
LowestFree == CHOOSE f \in FreeFds : \A g \in FreeFds : f <= g

(* handleAccept().  The listening socket is the first entry of _fds, so it *)
(* goes before every request that is waiting.                              *)
Accept ==
    /\ pc = "poll" /\ backlog # <<>> /\ FreeFds # {}
    /\ open' = [f \in DOMAIN open \cup {LowestFree} |->
                   IF f = LowestFree THEN Head(backlog) ELSE open[f]]
    /\ fds' = Append(fds, LowestFree)
    /\ backlog' = Tail(backlog)
    /\ UNCHANGED <<client, sent, stream, replies, pc, cur, raw, cut, result, ctx>>

(* accept() fails and leaves the connection where it is: the exception     *)
(* ends get_ctx(), main() calls it again.                                  *)
AcceptFails ==
    /\ pc = "poll" /\ backlog # <<>> /\ FreeFds = {}
    /\ result' = NoHeaders
    /\ UNCHANGED <<environment, open, fds, pc, cur, raw, cut, ctx>>

(* Faulty variant: the end of a stream is not noticed.                     *)
HasData(i) == stream[open[fds[i]]] # <<>>

(* POLLIN: something to read, or the end of the stream or an error.        *)
Readable(i) ==
    LET c == open[fds[i]]
    IN  stream[c] # <<>> \/ client[c] \in {"closed", "reset"}

(* The loop serves the first entry that is readable and breaks.            *)
Poll ==
    /\ pc = "poll" /\ backlog = <<>>
    /\ \E i \in DOMAIN fds :
          /\ Readable(i)
          /\ \A j \in 1..(i - 1) : ~Readable(j)
          /\ cur' = i
    /\ pc' = "read" /\ raw' = NoHeaders /\ cut' = "edge"
    /\ UNCHANGED <<environment, open, fds, result, ctx>>

-----------------------------------------------------------------------------
(* handleRead(): one read() after another until the header ends.           *)

Peer == open[fds[cur]]

(* Faulty variant: a header that is there is not replaced.                 *)
MergeFirst(headers, read, request) ==
    [h \in DOMAIN headers \cup DOMAIN read |->
        IF h \in DOMAIN headers THEN headers[h]
        ELSE [of |-> request, value |-> read[h]]]

(* init_from_raw_http_header() assigns the headers it finds; those the     *)
(* result already has stay.                                                *)
Merge(headers, read, request) ==
    [h \in DOMAIN headers \cup DOMAIN read |->
        IF h \in DOMAIN read THEN [of |-> request, value |-> read[h]]
        ELSE headers[h]]

(* It splits a line at its colons and assigns nothing unless there are two *)
(* pieces: a value with a colon does not count.                            *)
Assigned(lines) == {h \in DOMAIN lines : lines[h] # "colon"}

(* Of two lines of one name the later one counts.                          *)
ReadLines(read, lines) ==
    [h \in DOMAIN read \cup Assigned(lines) |->
        IF h \in Assigned(lines) THEN lines[h] ELSE read[h]]

(* Faulty variant: the result outlives the call of get_ctx().              *)
KeptResult(headers) == headers

(* Every call of get_ctx() starts with a result of its own.                *)
NextResult(headers) == NoHeaders

(* Faulty variants: the descriptor is left open; the index of the entry is *)
(* taken after the adjustment for the erase.                               *)
EraseOnly(i) ==
    /\ fds' = SubSeq(fds, 1, i - 1) \o SubSeq(fds, i + 1, Len(fds))
    /\ open' = open

CloseBefore(i) ==
    LET j == IF i > 1 THEN i - 1 ELSE i
    IN  /\ fds' = SubSeq(fds, 1, j - 1) \o SubSeq(fds, j + 1, Len(fds))
        /\ open' = [f \in DOMAIN open \ {fds[j]} |-> open[f]]

(* close() and _fds.erase().                                               *)
CloseEntry(i) ==
    /\ fds' = SubSeq(fds, 1, i - 1) \o SubSeq(fds, i + 1, Len(fds))
    /\ open' = [f \in DOMAIN open \ {fds[i]} |-> open[f]]

(* Faulty variant: the index of the entry in place of its descriptor.      *)
IndexAsFd(i) == i

(* The descriptor the context is for.                                      *)
ContextFd(i) == fds[i]

ReadPiece ==
    /\ pc = "read" /\ stream[Peer] # <<>>
    /\ stream' = [stream EXCEPT ![Peer] = Tail(@)]
    /\ raw' = ReadLines(raw, Head(stream[Peer]).headers)
    /\ \/ /\ Head(stream[Peer]).kind \in Cuts
          /\ cut' = Head(stream[Peer]).kind
          /\ UNCHANGED <<pc, result, ctx>>
       \/ /\ Head(stream[Peer]).kind \in Kinds
          /\ LET request == <<Peer, sent[Peer]>>
                 headers == Merge(result, raw', request)
             IN  /\ ctx' = [fd |-> ContextFd(cur),
                            kind |-> Head(stream[Peer]).kind,
                            request |-> request, headers |-> headers]
                 /\ result' = NextResult(headers)
          /\ pc' = "handle" /\ cut' = "edge"
    /\ UNCHANGED <<client, sent, replies, backlog, open, fds, cur>>

(* The cuts init_from_raw_http_header() never comes back from: it leaves   *)
(* its loop at an empty or blank line, and getline() at the end of the     *)
(* text leaves the last line in place.                                     *)
HangingCuts == {"line"}

(* read() returns 0: what was read is parsed all the same, the connection  *)
(* is closed, and get_ctx() goes on with the same result.                  *)
ReadEof ==
    /\ pc = "read" /\ stream[Peer] = <<>> /\ client[Peer] = "closed"
    /\ cut \notin HangingCuts
    /\ result' = Merge(result, raw, <<Peer, sent[Peer] + 1>>)
    /\ CloseEntry(cur)
    /\ pc' = "poll"
    /\ UNCHANGED <<environment, cur, raw, cut, ctx>>

(* The parser's loop does not end, and the server's only thread is in it.  *)
ParseHangs ==
    /\ pc = "read" /\ stream[Peer] = <<>> /\ client[Peer] = "closed"
    /\ cut \in HangingCuts
    /\ pc' = "stuck"
    /\ UNCHANGED <<environment, open, fds, cur, raw, cut, result, ctx>>

(* read() fails: the exception ends get_ctx() and the connection stays in  *)
(* _fds; the error is reported once, after it read() returns 0.            *)
ReadError ==
    /\ pc = "read" /\ stream[Peer] = <<>> /\ client[Peer] = "reset"
    /\ client' = [client EXCEPT ![Peer] = "closed"]
    /\ result' = NoHeaders /\ pc' = "poll"
    /\ UNCHANGED <<sent, stream, replies, backlog, open, fds, cur, raw, cut, ctx>>

-----------------------------------------------------------------------------
(* handle_context() and the two ways to send a response.                   *)

Requester == open[ctx.fd]

(* A page is read from a file, which takes a descriptor of its own.        *)
CanOpenFile == ctx.kind = "api" \/ FreeFds # {}

(* handle_context() looks at the headers of the context, whose-ever they   *)
(* are.                                                                    *)
KeepAlive ==
    /\ "Connection" \in DOMAIN ctx.headers
    /\ ctx.headers["Connection"].value = "keep-alive"

(* A page closes the connection unless it is to be kept.  A response to a  *)
(* client that has closed is accepted and lost.                            *)
SendResponse ==
    /\ pc = "handle" /\ ctx.fd \in DOMAIN open
    /\ CanOpenFile /\ client[Requester] # "reset"
    /\ IF client[Requester] = "waiting"
       THEN /\ client' = [client EXCEPT ![Requester] = "idle"]
            /\ replies' = [replies EXCEPT ![Requester] = Append(@, ctx.request)]
       ELSE UNCHANGED <<client, replies>>
    /\ IF ctx.kind = "page" /\ ~KeepAlive
       THEN pc' = "close" /\ ctx' = ctx
       ELSE pc' = "poll" /\ ctx' = NoCtx
    /\ UNCHANGED <<sent, stream, backlog, open, fds, cur, raw, cut, result>>

(* Neither the page nor 404.html can be opened: the exception reaches      *)
(* main() and no response is sent.                                         *)
PageFails ==
    /\ pc = "handle" /\ ~CanOpenFile
    /\ pc' = "poll" /\ ctx' = NoCtx
    /\ UNCHANGED <<environment, open, fds, cur, raw, cut, result>>

(* send() reports the reset: the exception skips the close of a page, and  *)
(* the next read() returns 0.                                              *)
SendFails ==
    /\ pc = "handle" /\ ctx.fd \in DOMAIN open
    /\ CanOpenFile /\ client[Requester] = "reset"
    /\ client' = [client EXCEPT ![Requester] = "closed"]
    /\ pc' = "poll" /\ ctx' = NoCtx
    /\ UNCHANGED <<sent, stream, replies, backlog, open, fds, cur, raw, cut, result>>

(* close_client_connection(): the client sees the end of the connection.   *)
CloseClientConnection ==
    /\ pc = "close"
    /\ \E i \in DOMAIN fds : fds[i] = ctx.fd /\ CloseEntry(i)
    /\ client' = [client EXCEPT ![Requester] = "closed"]
    /\ pc' = "poll" /\ ctx' = NoCtx
    /\ UNCHANGED <<sent, stream, replies, backlog, cur, raw, cut, result>>

-----------------------------------------------------------------------------
Client(c) ==
    Connect(c) \/ StartRequest(c) \/ FinishRequest(c) \/ HangUp(c)

Server ==
    \/ Accept \/ AcceptFails \/ Poll
    \/ ReadPiece \/ ReadEof \/ ParseHangs \/ ReadError
    \/ SendResponse \/ PageFails \/ SendFails \/ CloseClientConnection

Next == Server \/ \E c \in Conns : Client(c)

Spec == Init /\ [][Next]_vars

(* The server's thread is scheduled as long as it is not blocked.          *)
ServerFairSpec == Spec /\ WF_vars(Server)

(* HttpClient sends a request with one send(): the kernels deliver what is *)
(* left of it, or the connection ends.                                     *)
Completes(c) == client[c] = "partial" /\ (FinishRequest(c) \/ HangUp(c))
FairSpec == ServerFairSpec /\ \A c \in Conns : WF_vars(Completes(c))

-----------------------------------------------------------------------------
(* Properties.                                                             *)

Requests == Conns \X (1..MaxRequests)
Header == [of : Requests, value : Values \ {"colon"}]

(* Type invariant.                                                         *)
TypeOK ==
    /\ client \in [Conns -> {"new", "idle", "partial", "waiting", "closed",
                             "reset"}]
    /\ sent \in [Conns -> 0..MaxRequests]
    /\ stream \in [Conns -> Seq([headers : HeaderLines,
                                 kind : Kinds \cup Cuts])]
    /\ replies \in [Conns -> Seq(Requests)]
    /\ backlog \in Seq(Conns)
    /\ DOMAIN open \subseteq 1..MaxFds /\ open \in [DOMAIN open -> Conns]
    /\ fds \in Seq(1..MaxFds)
    /\ pc \in {"poll", "read", "handle", "close", "stuck"}
    /\ cur \in Nat
    /\ DOMAIN raw \subseteq Headers
    /\ raw \in [DOMAIN raw -> Values \ {"colon"}]
    /\ cut \in AllCuts
    /\ DOMAIN result \subseteq Headers
    /\ result \in [DOMAIN result -> Header]
    /\ DOMAIN ctx.headers \subseteq Headers
    /\ ctx.headers \in [DOMAIN ctx.headers -> Header]
    /\ pc \in {"handle", "close"} =>
          ctx.fd \in Nat /\ ctx.kind \in Kinds /\ ctx.request \in Requests

(* _fds lists every open descriptor exactly once, for a connection of its  *)
(* own, however accepts, closes and the reuse of descriptors follow each   *)
(* other: otherwise the server would poll a descriptor that is closed or   *)
(* belongs to someone else, or leak one.                                   *)
DescriptorsMatch ==
    /\ Range(fds) = DOMAIN open
    /\ \A i, j \in DOMAIN fds : fds[i] = fds[j] => i = j
    /\ \A f, g \in DOMAIN open : open[f] = open[g] => f = g

(* Every response a client gets is to the request it is waiting for: its   *)
(* own requests, each answered at most once, in the order it sent them.    *)
AnswersOwnRequests ==
    \A c \in Conns :
        /\ \A i \in DOMAIN replies[c] : replies[c][i] = <<c, i>>
        /\ client[c] = "idle" => Len(replies[c]) = sent[c]

(* A header the request has is the one the handler sees, whatever get_ctx()*)
(* has read from others before, unless its value has a colon in it: such a *)
(* header is not assigned, and the handler sees one of the same name that  *)
(* is left over, or none.                                                  *)
OwnHeadersWin ==
    pc = "handle" =>
        \A h \in Headers :
            IF h \in DOMAIN raw
            THEN /\ h \in DOMAIN ctx.headers
                 /\ ctx.headers[h] = [of |-> ctx.request, value |-> raw[h]]
            ELSE h \in DOMAIN ctx.headers => ctx.headers[h].of # ctx.request

(* A header of someone else's request that a handler sees can only stem    *)
(* from a client that went away in the middle of that request.             *)
ForeignHeadersAbandoned ==
    \A h \in DOMAIN ctx.headers :
        LET from == ctx.headers[h].of IN
        from # ctx.request =>
            client[from[1]] = "closed" /\ from[2] = sent[from[1]] + 1

(* The server closes a connection only when the client has closed it, or   *)
(* after the response to a page.                                           *)
ClosedWhenDone ==
    [][\A c \in Range(open) : c \notin Range(open') =>
          \/ client[c] = "closed"
          \/ pc = "close" /\ c = Requester
             /\ \E i \in DOMAIN replies[c] : replies[c][i] = ctx.request]_vars

(* A complete request waits on a connection the server has, or is handled. *)
UnderWay(c) ==
    \/ /\ c \in Range(backlog) \cup Range(open)
       /\ \E i \in DOMAIN stream[c] : stream[c][i].kind \in Kinds
    \/ pc = "handle" /\ ctx.fd \in DOMAIN open /\ Requester = c

(* A request that is complete stays under way until its client has the     *)
(* response or is gone, whatever is accepted, closed, reused or fails in   *)
(* between.  One alone is dropped: a page, and its 404.html, that cannot   *)
(* be opened because the server has no descriptor left; its client waits   *)
(* for ever.                                                               *)
RequestsKept ==
    [][\A c \in Conns : client'[c] = "waiting" =>
          \/ UnderWay(c)'
          \/ client[c] = "waiting" /\ ~UnderWay(c)
          \/ pc = "handle" /\ Requester = c /\ ~CanOpenFile]_vars

(* Every complete request is answered in the end, unless the client goes   *)
(* away: main()'s loop, the priority of low entries of _fds and the        *)
(* exceptions lose none.  It takes enough descriptors and a thread that is *)
(* never stuck in the parser, whatever other clients have abandoned.       *)
RequestIsServed ==
    [](pc # "stuck") =>
        \A c \in Conns : client[c] = "waiting" ~> client[c] # "waiting"

(* http-server.hpp: "Blocks until a client request is available."  When    *)
(* the request of an accepted client has arrived, get_ctx() returns in the *)
(* end.                                                                    *)
ContextReturned ==
    \A c \in Conns :
        client[c] = "waiting" /\ c \in Range(open) /\ stream[c] # <<>>
            ~> pc = "handle" \/ client[c] # "waiting"

(* The descriptor of a connection the client has ended is given back, as   *)
(* long as the thread is not stuck in the parser.                          *)
DescriptorReclaimed ==
    [](pc # "stuck") =>
        \A c \in Conns : client[c] \in {"closed", "reset"} ~>
                            c \notin Range(open) /\ c \notin Range(backlog)
=============================================================================

-------------------------- MODULE HttpServerProofs --------------------------
(***************************************************************************)
(* Theorems about HttpServer for any number of connections, requests,      *)
(* headers and descriptors.                                                *)
(***************************************************************************)
EXTENDS HttpServer, TLAPS, SequenceTheorems, WellFoundedInduction

-----------------------------------------------------------------------------
(* Lemmas about descriptors and sequences.                                 *)

LEMMA LowestFreeIsFree ==
    ASSUME DOMAIN open \subseteq 1..MaxFds, FreeFds # {}
    PROVE  LowestFree \in FreeFds
<1>1. FreeFds \subseteq Nat
  BY ServerAssumption DEF FreeFds
<1>2. \E f \in FreeFds : \A g \in FreeFds : ~ (<<g, f>> \in OpToRel(<, Nat))
  BY <1>1, WFMin, NatLessThanWellFounded, Zenon
<1>3. \A f, g \in Nat : g < f => <<g, f>> \in OpToRel(<, Nat)
  BY DEF OpToRel
<1>4. \E f \in FreeFds : \A g \in FreeFds : ~ (g < f)
  BY <1>1, <1>2, <1>3, Zenon
<1>5. \E f \in FreeFds : \A g \in FreeFds : f <= g
  BY <1>1, <1>4
<1> QED BY <1>5 DEF LowestFree

(* A piece that cuts a request does not complete it.                       *)
LEMMA CutIsNoKind == \A k \in Cuts : k \notin Kinds /\ k \in AllCuts
BY ServerAssumption DEF Kinds, AllCuts

(* What erasing element i leaves.                                          *)
Erase(s, i) == SubSeq(s, 1, i - 1) \o SubSeq(s, i + 1, Len(s))

LEMMA Erased ==
    ASSUME NEW S, NEW s \in Seq(S), NEW i \in 1..Len(s)
    PROVE  /\ Erase(s, i) \in Seq(S) /\ Len(Erase(s, i)) = Len(s) - 1
           /\ \A j \in 1..(Len(s) - 1) :
                 Erase(s, i)[j] = IF j < i THEN s[j] ELSE s[j + 1]
<1> DEFINE r == Erase(s, i)
           a == SubSeq(s, 1, i - 1)
           b == SubSeq(s, i + 1, Len(s))
<1>1. i \in 1..Len(s) /\ Len(s) \in Nat
  OBVIOUS
<1>2. /\ a \in Seq(S) /\ Len(a) = i - 1
      /\ \A j \in 1..(i - 1) : a[j] = s[j]
  BY <1>1
<1>3. /\ b \in Seq(S) /\ Len(b) = Len(s) - i
      /\ \A j \in 1..(Len(s) - i) : b[j] = s[i + j]
  BY <1>1
<1>4. r = a \o b
  BY DEF Erase
<1> HIDE DEF a, b, r
<1>5. /\ r \in Seq(S) /\ Len(r) = Len(a) + Len(b)
      /\ \A j \in 1..(Len(a) + Len(b)) :
            r[j] = IF j <= Len(a) THEN a[j] ELSE b[j - Len(a)]
  BY <1>2, <1>3, <1>4, ConcatProperties
<1>6. Len(r) = Len(s) - 1
  BY <1>1, <1>2, <1>3, <1>5
<1>7. ASSUME NEW j \in 1..Len(r)
      PROVE  r[j] = IF j < i THEN s[j] ELSE s[j + 1]
  <2>1. CASE j < i
    <3>1. j \in 1..(i - 1) /\ j <= Len(a)
      BY <1>1, <1>2, <2>1
    <3> QED BY <1>2, <1>5, <2>1, <3>1
  <2>2. CASE ~(j < i)
    <3>1. /\ j - (i - 1) \in 1..(Len(s) - i)
          /\ i + (j - (i - 1)) = j + 1 /\ ~(j <= Len(a))
      BY <1>1, <1>2, <1>6, <2>2
    <3>2. r[j] = b[j - (i - 1)]
      BY <1>2, <1>5, <3>1
    <3> QED BY <1>3, <2>2, <3>1, <3>2
  <2> QED BY <2>1, <2>2
<1> QED BY <1>1, <1>5, <1>6, <1>7 DEF r

(* close() and erase() keep _fds and the open descriptors together.        *)
LEMMA CloseEntryMatch ==
    ASSUME TypeOK, DescriptorsMatch, NEW i \in DOMAIN fds, CloseEntry(i)
    PROVE  /\ DescriptorsMatch' /\ fds' \in Seq(1..MaxFds)
           /\ DOMAIN open' = DOMAIN open \ {fds[i]}
           /\ \A f \in DOMAIN open' : open'[f] = open[f]
<1>1. fds \in Seq(1..MaxFds) /\ i \in 1..Len(fds) /\ Len(fds) \in Nat
  BY DEF TypeOK
<1>2. /\ fds' \in Seq(1..MaxFds) /\ Len(fds') = Len(fds) - 1
      /\ \A j \in DOMAIN fds' : fds'[j] = IF j < i THEN fds[j] ELSE fds[j + 1]
  <2>1. fds' = Erase(fds, i)
    BY DEF CloseEntry, Erase
  <2>2. /\ Erase(fds, i) \in Seq(1..MaxFds) /\ Len(Erase(fds, i)) = Len(fds) - 1
        /\ \A j \in 1..(Len(fds) - 1) :
              Erase(fds, i)[j] = IF j < i THEN fds[j] ELSE fds[j + 1]
    BY <1>1, Erased
  <2> QED BY <1>1, <2>1, <2>2
<1>3. /\ DOMAIN open' = DOMAIN open \ {fds[i]}
      /\ \A f \in DOMAIN open' : open'[f] = open[f]
  BY DEF CloseEntry
<1>4. \A j \in DOMAIN fds' : fds'[j] \in Range(fds) \ {fds[i]}
  BY <1>1, <1>2 DEF DescriptorsMatch, Range
<1>5. ASSUME NEW j \in DOMAIN fds, j # i
      PROVE  fds[j] \in Range(fds')
  <2>1. CASE j < i
    <3>1. j \in DOMAIN fds' /\ fds'[j] = fds[j]
      BY <1>1, <1>2, <2>1
    <3> QED BY <3>1 DEF Range
  <2>2. CASE ~(j < i)
    <3>1. j - 1 \in DOMAIN fds' /\ fds'[j - 1] = fds[j]
      BY <1>1, <1>2, <1>5, <2>2
    <3> QED BY <3>1 DEF Range
  <2> QED BY <2>1, <2>2
<1>6. Range(fds') = DOMAIN open'
  BY <1>3, <1>4, <1>5 DEF DescriptorsMatch, Range
<1>7. \A j, k \in DOMAIN fds' : fds'[j] = fds'[k] => j = k
  <2>1. \A j, k \in DOMAIN fds : fds[j] = fds[k] => j = k
    BY DEF DescriptorsMatch
  <2> SUFFICES ASSUME NEW j \in DOMAIN fds', NEW k \in DOMAIN fds',
                      fds'[j] = fds'[k]
               PROVE  j = k
    OBVIOUS
  <2>2. PICK m \in DOMAIN fds, n \in DOMAIN fds :
            /\ m = (IF j < i THEN j ELSE j + 1) /\ fds'[j] = fds[m]
            /\ n = (IF k < i THEN k ELSE k + 1) /\ fds'[k] = fds[n]
    BY <1>1, <1>2
  <2>3. m = n
    BY <2>1, <2>2
  <2>4. i \in Nat /\ j \in Nat /\ k \in Nat
    BY <1>1, <1>2
  <2> QED BY <2>2, <2>3, <2>4
<1>8. \A f, g \in DOMAIN open' : open'[f] = open'[g] => f = g
  BY <1>3 DEF DescriptorsMatch
<1> QED BY <1>2, <1>3, <1>6, <1>7, <1>8 DEF DescriptorsMatch

LEMMA MergeTyped ==
    ASSUME NEW headers, DOMAIN headers \subseteq Headers,
           headers \in [DOMAIN headers -> Header],
           NEW read, DOMAIN read \subseteq Headers,
           read \in [DOMAIN read -> Values \ {"colon"}], NEW request,
           DOMAIN read # {} => request \in Requests
    PROVE  /\ DOMAIN Merge(headers, read, request) \subseteq Headers
           /\ Merge(headers, read, request) \in
                 [DOMAIN Merge(headers, read, request) -> Header]
BY DEF Merge, Header

LEMMA NoHeadersTyped ==
    /\ DOMAIN NoHeaders \subseteq Headers
    /\ NoHeaders \in [DOMAIN NoHeaders -> Header]
    /\ NoHeaders \in [DOMAIN NoHeaders -> Values \ {"colon"}]
BY DEF NoHeaders

(* What a further piece assigns.                                           *)
LEMMA ReadLinesTyped ==
    ASSUME NEW read, DOMAIN read \subseteq Headers,
           read \in [DOMAIN read -> Values \ {"colon"}],
           NEW lines \in HeaderLines
    PROVE  /\ DOMAIN ReadLines(read, lines) \subseteq Headers
           /\ ReadLines(read, lines) \in
                 [DOMAIN ReadLines(read, lines) -> Values \ {"colon"}]
<1>1. PICK names \in SUBSET Headers : lines \in [names -> Values]
  BY DEF HeaderLines
<1>2. \A h \in Assigned(lines) :
          h \in Headers /\ lines[h] \in Values \ {"colon"}
  BY <1>1 DEF Assigned
<1> QED BY <1>2 DEF ReadLines

-----------------------------------------------------------------------------
(* The inductive invariant.  A connection is in the backlog or open, never *)
(* both and never twice; a client has at most one request outstanding, in  *)
(* its stream or being handled, and one that is idle has none.             *)

ConnsApart ==
    /\ \A i, j \in DOMAIN backlog : backlog[i] = backlog[j] => i = j
    /\ \A i \in DOMAIN backlog :
          client[backlog[i]] # "new" /\ \A f \in DOMAIN open : open[f] # backlog[i]
    /\ \A f \in DOMAIN open : client[open[f]] # "new"

ThreadOnOpen ==
    /\ pc = "read" => cur \in DOMAIN fds
    /\ pc \in {"handle", "close"} => ctx.fd \in DOMAIN open

Complete(c) == \E i \in DOMAIN stream[c] : stream[c][i].kind \in Kinds
Handling(c) == pc = "handle" /\ open[ctx.fd] = c
Gone == {"closed", "reset"}

OneRequest(c) ==
    /\ \A i \in DOMAIN stream[c] :
          stream[c][i].kind \in Kinds => i = Len(stream[c])
    /\ Complete(c) => /\ client[c] \in Gone \cup {"waiting"}
                      /\ sent[c] > 0 /\ ~Handling(c)
    /\ Handling(c) => /\ client[c] \in Gone \cup {"waiting"}
                      /\ ctx.request = <<c, sent[c]>>
    /\ stream[c] # <<>> /\ ~Complete(c) => sent[c] < MaxRequests

RawOwned ==
    pc = "read" /\ DOMAIN raw # {} => sent[Peer] < MaxRequests \/ Complete(Peer)

Answered(c) ==
    /\ \A i \in DOMAIN replies[c] : replies[c][i] = <<c, i>>
    /\ client[c] \in {"new", "idle", "partial"} => Len(replies[c]) = sent[c]
    /\ client[c] = "waiting" => Len(replies[c]) + 1 = sent[c]

HInv ==
    /\ TypeOK /\ DescriptorsMatch /\ ConnsApart /\ ThreadOnOpen /\ RawOwned
    /\ \A c \in Conns : OneRequest(c) /\ Answered(c)

LEMMA SentTyped ==
    ASSUME HInv, NEW c \in Conns
    PROVE  sent[c] \in Nat /\ sent[c] <= MaxRequests /\ MaxRequests \in Nat
<1>1. sent \in [Conns -> 0..MaxRequests]
  BY DEF HInv, TypeOK
<1> QED BY <1>1, ServerAssumption

LEMMA InitHInv == Init => HInv
<1> SUFFICES ASSUME Init PROVE HInv
  OBVIOUS
<1>1. MaxRequests \in Nat /\ MaxFds \in Nat
  BY ServerAssumption
<1>2. <<>> \in Seq(Conns) /\ <<>> \in Seq(1..MaxFds) /\ <<>> \in Seq(Requests)
      /\ <<>> \in Seq([headers : HeaderLines, kind : Kinds \cup Cuts])
  OBVIOUS
<1>3. TypeOK
  BY <1>1, <1>2, NoHeadersTyped DEF Init, TypeOK, NoCtx, AllCuts
<1>4. DescriptorsMatch /\ ConnsApart /\ ThreadOnOpen /\ RawOwned
  BY DEF Init, DescriptorsMatch, Range, ConnsApart, ThreadOnOpen, RawOwned
<1>5. \A c \in Conns : OneRequest(c) /\ Answered(c)
  BY DEF Init, OneRequest, Complete, Handling, Answered
<1> QED BY <1>3, <1>4, <1>5 DEF HInv

-----------------------------------------------------------------------------
(* The clients.                                                            *)

Piece == [headers : HeaderLines, kind : Kinds \cup Cuts]

(* A step of client c alone leaves the server and other clients be.        *)
LEMMA ClientStep ==
    ASSUME HInv, NEW c \in Conns, UNCHANGED server,
           TypeOK', ConnsApart', Answered(c)', OneRequest(c)',
           sent'[c] = sent[c] \/ (~Complete(c) /\ Complete(c)'),
           Complete(c) => Complete(c)',
           \A d \in Conns \ {c} : /\ client'[d] = client[d]
                                  /\ sent'[d] = sent[d]
                                  /\ stream'[d] = stream[d]
                                  /\ replies'[d] = replies[d]
    PROVE  HInv'
<1>1. UNCHANGED <<open, fds, pc, cur, raw, cut, result, ctx>>
  BY DEF server
<1>2. DescriptorsMatch' /\ ThreadOnOpen'
  BY <1>1 DEF HInv, DescriptorsMatch, ThreadOnOpen
<1>3. ASSUME NEW d \in Conns PROVE OneRequest(d)' /\ Answered(d)'
  <2>1. CASE d # c
    BY <1>1, <2>1 DEF HInv, OneRequest, Complete, Handling, Answered
  <2> QED BY <2>1
<1>4. RawOwned'
  <2>1. ASSUME pc = "read" PROVE Peer \in Conns /\ Peer' = Peer
    BY <1>1, <2>1 DEF HInv, ThreadOnOpen, DescriptorsMatch, Range, Peer, TypeOK
  <2>2. CASE pc = "read" /\ Peer = c
    BY <1>1, <2>1, <2>2 DEF HInv, RawOwned
  <2>3. CASE pc = "read" /\ Peer # c
    BY <1>1, <2>1, <2>3 DEF HInv, RawOwned, Complete
  <2> QED BY <1>1, <2>2, <2>3 DEF RawOwned
<1> QED BY <1>2, <1>3, <1>4 DEF HInv

LEMMA ConnectHInv == ASSUME HInv, NEW c \in Conns, Connect(c) PROVE HInv'
<1>1. /\ client[c] = "new" /\ client' = [client EXCEPT ![c] = "idle"]
      /\ backlog' = Append(backlog, c)
      /\ UNCHANGED <<sent, stream, replies>> /\ UNCHANGED server
  BY DEF Connect
<1>2. TypeOK /\ backlog \in Seq(Conns) /\ client \in [Conns ->
        {"new", "idle", "partial", "waiting", "closed", "reset"}]
  BY DEF HInv, TypeOK
<1>3. TypeOK'
  <2>1. backlog' \in Seq(Conns) /\ client' \in [Conns ->
          {"new", "idle", "partial", "waiting", "closed", "reset"}]
    BY <1>1, <1>2
  <2> QED BY <1>1, <1>2, <2>1 DEF TypeOK, server
<1>4. ConnsApart'
  <2>1. /\ DOMAIN backlog' = 1..(Len(backlog) + 1) /\ Len(backlog) \in Nat
        /\ DOMAIN backlog = 1..Len(backlog)
        /\ \A i \in DOMAIN backlog : backlog'[i] = backlog[i]
        /\ backlog'[Len(backlog) + 1] = c
    BY <1>1, <1>2
  <2>2. \A d \in Conns : client[d] # "new" => client'[d] # "new" /\ d # c
    BY <1>1, <1>2
  <2>3. \A i \in DOMAIN backlog : backlog[i] \in Conns
    BY <1>2
  <2>4. \A f \in DOMAIN open : open[f] \in Conns
    BY <1>2 DEF TypeOK
  <2>5. open' = open /\ client'[c] # "new"
    BY <1>1, <1>2 DEF server
  <2> QED BY <2>1, <2>2, <2>3, <2>4, <2>5 DEF HInv, ConnsApart
<1>5. Answered(c)' /\ OneRequest(c)'
  <2>1. client'[c] = "idle" /\ UNCHANGED <<pc, open, ctx>>
    BY <1>1, <1>2 DEF server
  <2>2. ~Complete(c) /\ ~Handling(c)
    BY <1>1 DEF HInv, OneRequest, Gone
  <2> QED BY <1>1, <2>1, <2>2
      DEF HInv, OneRequest, Answered, Complete, Handling
<1>6. \A d \in Conns \ {c} : client'[d] = client[d]
  BY <1>1, <1>2
<1> QED BY <1>1, <1>3, <1>4, <1>5, <1>6, ClientStep DEF Complete

(* A client that was connected stays so; descriptors may have been closed. *)
LEMMA ApartKept ==
    ASSUME HInv, UNCHANGED backlog, DOMAIN open' \subseteq DOMAIN open,
           \A f \in DOMAIN open' : open'[f] = open[f],
           \A d \in Conns : client[d] # "new" => client'[d] # "new"
    PROVE  ConnsApart'
<1>1. \A i \in DOMAIN backlog : backlog[i] \in Conns
  BY DEF HInv, TypeOK
<1>2. \A f \in DOMAIN open : open[f] \in Conns
  BY DEF HInv, TypeOK
<1> QED BY <1>1, <1>2 DEF HInv, ConnsApart

LEMMA AppendPiece ==
    ASSUME HInv, NEW c \in Conns, NEW piece \in Piece,
           stream' = [stream EXCEPT ![c] = Append(@, piece)]
    PROVE  /\ stream' \in [Conns -> Seq(Piece)]
           /\ stream[c] \in Seq(Piece) /\ stream'[c] = Append(stream[c], piece)
           /\ \A d \in Conns \ {c} : stream'[d] = stream[d]
           /\ Len(stream'[c]) = Len(stream[c]) + 1
           /\ DOMAIN stream'[c] = 1..(Len(stream[c]) + 1)
           /\ \A i \in DOMAIN stream[c] : /\ stream'[c][i] = stream[c][i]
                                          /\ i \in DOMAIN stream'[c]
           /\ stream'[c][Len(stream[c]) + 1] = piece
<1>1. stream \in [Conns -> Seq(Piece)]
  BY DEF HInv, TypeOK, Piece
<1>2. stream[c] \in Seq(Piece) /\ stream'[c] = Append(stream[c], piece)
  BY <1>1
<1>3. Append(stream[c], piece) \in Seq(Piece)
  BY <1>2
<1> QED BY <1>1, <1>2, <1>3

LEMMA StartRequestHInv ==
    ASSUME HInv, NEW c \in Conns, StartRequest(c) PROVE HInv'
<1>1. PICK h \in HeaderLines, k \in Cuts :
        stream' = [stream EXCEPT ![c] = Append(@, [headers |-> h, kind |-> k])]
  BY DEF StartRequest
<1> DEFINE piece == [headers |-> h, kind |-> k]
<1>2. /\ piece \in Piece /\ piece.kind \notin Kinds
      /\ stream' = [stream EXCEPT ![c] = Append(@, piece)]
  BY <1>1, CutIsNoKind DEF Piece
<1> HIDE DEF piece
<1>3. /\ client[c] = "idle" /\ sent[c] < MaxRequests
      /\ client' = [client EXCEPT ![c] = "partial"]
      /\ UNCHANGED <<sent, replies, backlog>> /\ UNCHANGED server
  BY DEF StartRequest
<1>4. /\ client'[c] = "partial" /\ \A d \in Conns \ {c} : client'[d] = client[d]
      /\ client' \in [Conns -> {"new", "idle", "partial", "waiting", "closed",
                                "reset"}]
  BY <1>3 DEF HInv, TypeOK
<1>5. /\ stream' \in [Conns -> Seq(Piece)]
      /\ \A d \in Conns \ {c} : stream'[d] = stream[d]
      /\ DOMAIN stream'[c] = 1..(Len(stream[c]) + 1)
      /\ \A i \in DOMAIN stream[c] : stream'[c][i] = stream[c][i]
      /\ stream'[c][Len(stream[c]) + 1].kind \notin Kinds
      /\ stream[c] \in Seq(Piece)
  BY <1>2, AppendPiece
<1>6. TypeOK'
  BY <1>3, <1>4, <1>5 DEF HInv, TypeOK, Piece, server
<1>7. ConnsApart'
  BY <1>3, <1>4, ApartKept DEF server
<1>8. ~Complete(c) /\ ~Handling(c)
  BY <1>3 DEF HInv, OneRequest, Gone
<1>9. ~Complete(c)'
  BY <1>5, <1>8 DEF Complete
<1>10. ~Handling(c)'
  BY <1>3, <1>8 DEF Handling, server
<1>11. OneRequest(c)'
  BY <1>3, <1>9, <1>10 DEF OneRequest, Complete
<1>12. Answered(c)'
  BY <1>3, <1>4 DEF HInv, Answered
<1> QED BY <1>3, <1>4, <1>5, <1>6, <1>7, <1>8, <1>11, <1>12, ClientStep

LEMMA FinishRequestHInv ==
    ASSUME HInv, NEW c \in Conns, FinishRequest(c) PROVE HInv'
<1>1. PICK h \in HeaderLines, k \in Kinds :
        stream' = [stream EXCEPT ![c] = Append(@, [headers |-> h, kind |-> k])]
  BY DEF FinishRequest
<1> DEFINE piece == [headers |-> h, kind |-> k]
<1>2. /\ piece \in Piece /\ piece.kind = k /\ k \in Kinds
      /\ stream' = [stream EXCEPT ![c] = Append(@, piece)]
  BY <1>1 DEF Piece, Kinds
<1> HIDE DEF piece
<1>3. /\ client[c] \in {"idle", "partial"} /\ sent[c] < MaxRequests
      /\ client' = [client EXCEPT ![c] = "waiting"]
      /\ sent' = [sent EXCEPT ![c] = @ + 1]
      /\ UNCHANGED <<replies, backlog>> /\ UNCHANGED server
  BY DEF FinishRequest
<1>4. /\ client'[c] = "waiting" /\ \A d \in Conns \ {c} : client'[d] = client[d]
      /\ client' \in [Conns -> {"new", "idle", "partial", "waiting", "closed",
                                "reset"}]
  BY <1>3 DEF HInv, TypeOK
<1>5. /\ sent[c] \in Nat /\ sent'[c] = sent[c] + 1
      /\ \A d \in Conns \ {c} : sent'[d] = sent[d]
      /\ sent' \in [Conns -> 0..MaxRequests]
  BY <1>3, ServerAssumption DEF HInv, TypeOK
<1>6. /\ stream' \in [Conns -> Seq(Piece)]
      /\ \A d \in Conns \ {c} : stream'[d] = stream[d]
      /\ Len(stream'[c]) = Len(stream[c]) + 1
      /\ DOMAIN stream'[c] = 1..(Len(stream[c]) + 1)
      /\ \A i \in DOMAIN stream[c] : stream'[c][i] = stream[c][i]
      /\ stream'[c][Len(stream[c]) + 1].kind = k
      /\ stream[c] \in Seq(Piece)
  BY <1>2, AppendPiece
<1>7. TypeOK'
  BY <1>3, <1>4, <1>5, <1>6 DEF HInv, TypeOK, Piece, server
<1>8. ConnsApart'
  BY <1>3, <1>4, ApartKept DEF server
<1>9. ~Complete(c) /\ ~Handling(c)
  BY <1>3 DEF HInv, OneRequest, Gone
<1>10. Complete(c)'
  <2>1. Len(stream[c]) + 1 \in DOMAIN stream'[c]
    BY <1>6
  <2> QED BY <1>2, <1>6, <2>1 DEF Complete
<1>11. ~Handling(c)'
  BY <1>3, <1>9 DEF Handling, server
<1>12. \A i \in DOMAIN stream'[c] :
         stream'[c][i].kind \in Kinds => i = Len(stream'[c])
  BY <1>6, <1>9 DEF Complete
<1>13. OneRequest(c)'
  BY <1>4, <1>5, <1>10, <1>11, <1>12 DEF OneRequest
<1>14. Answered(c)'
  BY <1>3, <1>4, <1>5 DEF HInv, Answered
<1> QED BY <1>3, <1>4, <1>5, <1>6, <1>7, <1>8, <1>9, <1>10, <1>13, <1>14,
           ClientStep

LEMMA HangUpHInv == ASSUME HInv, NEW c \in Conns, HangUp(c) PROVE HInv'
<1>1. PICK gone \in Gone : client' = [client EXCEPT ![c] = gone]
  BY DEF HangUp, Gone
<1>2. /\ client[c] \in {"idle", "partial", "waiting"}
      /\ UNCHANGED <<sent, stream, replies, backlog>> /\ UNCHANGED server
  BY DEF HangUp
<1>3. /\ client'[c] = gone /\ \A d \in Conns \ {c} : client'[d] = client[d]
      /\ client' \in [Conns -> {"new", "idle", "partial", "waiting", "closed",
                                "reset"}]
  BY <1>1 DEF HInv, TypeOK, Gone
<1>4. TypeOK'
  BY <1>2, <1>3 DEF HInv, TypeOK, server
<1>5. ConnsApart'
  BY <1>2, <1>3, ApartKept DEF server, Gone
<1>6. OneRequest(c)' /\ Answered(c)'
  BY <1>2, <1>3 DEF HInv, OneRequest, Complete, Handling, Answered, Gone, server
<1> QED BY <1>2, <1>3, <1>4, <1>5, <1>6, ClientStep DEF Complete

-----------------------------------------------------------------------------
(* get_ctx().                                                              *)

(* What the server's thread works on is a client's connection.             *)
LEMMA PeerIsClient ==
    ASSUME HInv, pc = "read"
    PROVE  /\ Peer \in Conns /\ fds[cur] \in DOMAIN open /\ cur \in DOMAIN fds
BY DEF HInv, ThreadOnOpen, DescriptorsMatch, Range, Peer, TypeOK

(* A step of the server that leaves the clients, their streams and the     *)
(* answers alone, and does not begin to handle a request.                  *)
LEMMA ServerStep ==
    ASSUME HInv, UNCHANGED <<client, sent, stream, replies>>,
           TypeOK', DescriptorsMatch', ConnsApart', ThreadOnOpen', RawOwned',
           pc' # "handle"
    PROVE  HInv'
<1>1. \A c \in Conns : OneRequest(c)' /\ Answered(c)'
  BY DEF HInv, OneRequest, Complete, Handling, Answered
<1> QED BY <1>1 DEF HInv

LEMMA AcceptHInv == ASSUME HInv, Accept PROVE HInv'
<1> DEFINE f == LowestFree
           c == Head(backlog)
<1>1. /\ TypeOK /\ DescriptorsMatch /\ ConnsApart
      /\ backlog \in Seq(Conns) /\ backlog # <<>>
      /\ fds \in Seq(1..MaxFds) /\ DOMAIN open \subseteq 1..MaxFds
  BY DEF HInv, TypeOK, Accept
<1>2. f \in 1..MaxFds /\ f \notin DOMAIN open
  BY <1>1, LowestFreeIsFree DEF Accept, FreeFds
<1>3. /\ DOMAIN open' = DOMAIN open \cup {f} /\ open'[f] = c
      /\ \A g \in DOMAIN open : open'[g] = open[g]
      /\ fds' = Append(fds, f) /\ backlog' = Tail(backlog) /\ pc = "poll"
      /\ UNCHANGED <<client, sent, stream, replies, pc, cur, raw, cut, result, ctx>>
  BY <1>2 DEF Accept
<1>4. /\ c = backlog[1] /\ c \in Conns /\ 1 \in DOMAIN backlog
      /\ backlog' \in Seq(Conns) /\ DOMAIN backlog' = 1..(Len(backlog) - 1)
      /\ \A i \in DOMAIN backlog' : /\ i + 1 \in DOMAIN backlog /\ i + 1 # 1
                                     /\ backlog'[i] = backlog[i + 1]
  BY <1>1, <1>3
<1>5. /\ fds' \in Seq(1..MaxFds) /\ DOMAIN fds' = 1..(Len(fds) + 1)
      /\ DOMAIN fds = 1..Len(fds) /\ Len(fds) \in Nat
      /\ fds'[Len(fds) + 1] = f
      /\ \A i \in DOMAIN fds : fds'[i] = fds[i]
  BY <1>1, <1>2, <1>3
<1>6. TypeOK'
  <2>1. DOMAIN open' \subseteq 1..MaxFds /\ open' \in [DOMAIN open' -> Conns]
    <3>1. open' = [g \in DOMAIN open \cup {f} |-> IF g = f THEN c ELSE open[g]]
      BY DEF Accept
    <3> QED BY <1>1, <1>2, <1>4, <3>1 DEF TypeOK
  <2> QED BY <1>1, <1>3, <1>4, <1>5, <2>1 DEF TypeOK
<1>7. DescriptorsMatch'
  <2>1. Range(fds') = DOMAIN open'
    <3>1. \A i \in DOMAIN fds' : fds'[i] \in DOMAIN open'
      BY <1>1, <1>3, <1>5 DEF DescriptorsMatch, Range
    <3>2. ASSUME NEW g \in DOMAIN open' PROVE \E i \in DOMAIN fds' : fds'[i] = g
      <4>1. CASE g = f
        BY <1>5, <4>1
      <4>2. CASE g \in DOMAIN open
        BY <1>1, <1>5, <4>2 DEF DescriptorsMatch, Range
      <4> QED BY <1>3, <4>1, <4>2
    <3> QED BY <3>1, <3>2 DEF Range
  <2>2. \A i \in DOMAIN fds : fds[i] # f
    BY <1>1, <1>2 DEF DescriptorsMatch, Range
  <2>3. \A i, j \in DOMAIN fds' : fds'[i] = fds'[j] => i = j
    BY <1>1, <1>5, <2>2 DEF DescriptorsMatch
  <2>4. \A g \in DOMAIN open : open[g] # c
    BY <1>1, <1>4 DEF ConnsApart
  <2>5. \A g, h \in DOMAIN open' : open'[g] = open'[h] => g = h
    BY <1>1, <1>3, <2>4 DEF DescriptorsMatch
  <2> QED BY <2>1, <2>3, <2>5 DEF DescriptorsMatch
<1>8. ConnsApart'
  <2>1. \A i \in DOMAIN backlog' : backlog'[i] # c
    BY <1>1, <1>4 DEF ConnsApart
  <2>2. \A i, j \in DOMAIN backlog' : backlog'[i] = backlog'[j] => i = j
    <3> SUFFICES ASSUME NEW i \in DOMAIN backlog', NEW j \in DOMAIN backlog',
                        backlog'[i] = backlog'[j]
                 PROVE  i = j
      OBVIOUS
    <3>1. i + 1 = j + 1
      BY <1>1, <1>4 DEF ConnsApart
    <3> QED BY <1>4, <3>1
  <2> QED BY <1>1, <1>3, <1>4, <2>1, <2>2 DEF ConnsApart
<1>9. ThreadOnOpen' /\ RawOwned'
  BY <1>3 DEF ThreadOnOpen, RawOwned
<1> QED BY <1>3, <1>6, <1>7, <1>8, <1>9, ServerStep

LEMMA AcceptFailsHInv == ASSUME HInv, AcceptFails PROVE HInv'
<1>1. /\ UNCHANGED <<client, sent, stream, replies, backlog, open, fds, pc, cur,
                     raw, cut, ctx>>
      /\ pc = "poll" /\ result' = NoHeaders
  BY DEF AcceptFails, environment
<1>2. TypeOK'
  BY <1>1, NoHeadersTyped DEF HInv, TypeOK
<1>3. DescriptorsMatch' /\ ConnsApart' /\ ThreadOnOpen' /\ RawOwned'
  BY <1>1 DEF HInv, DescriptorsMatch, ConnsApart, ThreadOnOpen, RawOwned
<1> QED BY <1>1, <1>2, <1>3, ServerStep

LEMMA PollHInv == ASSUME HInv, Poll PROVE HInv'
<1>1. /\ UNCHANGED <<client, sent, stream, replies, backlog, open, fds, result,
                     ctx>>
      /\ pc' = "read" /\ raw' = NoHeaders /\ cut' = "edge" /\ cur' \in DOMAIN fds
  BY DEF Poll, environment
<1>2. cur' \in Nat
  BY <1>1 DEF HInv, TypeOK
<1>3. TypeOK'
  BY <1>1, <1>2, NoHeadersTyped DEF HInv, TypeOK, AllCuts
<1>4. DescriptorsMatch' /\ ConnsApart' /\ ThreadOnOpen' /\ RawOwned'
  BY <1>1 DEF HInv, DescriptorsMatch, ConnsApart, ThreadOnOpen, RawOwned,
              NoHeaders
<1> QED BY <1>1, <1>3, <1>4, ServerStep

LEMMA TailPiece ==
    ASSUME HInv, NEW c \in Conns, stream[c] # <<>>,
           stream' = [stream EXCEPT ![c] = Tail(@)]
    PROVE  /\ stream' \in [Conns -> Seq(Piece)]
           /\ \A d \in Conns \ {c} : stream'[d] = stream[d]
           /\ Head(stream[c]) = stream[c][1] /\ stream[c][1] \in Piece
           /\ Len(stream[c]) \in Nat \ {0} /\ DOMAIN stream[c] = 1..Len(stream[c])
           /\ Len(stream'[c]) = Len(stream[c]) - 1
           /\ DOMAIN stream'[c] = 1..(Len(stream[c]) - 1)
           /\ \A i \in 1..(Len(stream[c]) - 1) : stream'[c][i] = stream[c][i + 1]
           /\ Len(stream[c]) = 1 => stream'[c] = <<>>
<1>1. stream \in [Conns -> Seq(Piece)]
  BY DEF HInv, TypeOK, Piece
<1>2. stream[c] \in Seq(Piece) /\ stream'[c] = Tail(stream[c])
  BY <1>1
<1>3. Tail(stream[c]) \in Seq(Piece)
  BY <1>2
<1>4. Len(stream[c]) \in Nat \ {0} /\ DOMAIN stream[c] = 1..Len(stream[c])
  BY <1>2
<1>5. Head(stream[c]) = stream[c][1] /\ stream[c][1] \in Piece
  BY <1>2, <1>4
<1>6. stream' \in [Conns -> Seq(Piece)]
      /\ \A d \in Conns \ {c} : stream'[d] = stream[d]
  BY <1>1, <1>3
<1>7. /\ Len(stream'[c]) = Len(stream[c]) - 1
      /\ DOMAIN stream'[c] = 1..(Len(stream[c]) - 1)
      /\ \A i \in 1..(Len(stream[c]) - 1) : stream'[c][i] = stream[c][i + 1]
  <2>1. /\ Len(Tail(stream[c])) = Len(stream[c]) - 1
        /\ \A i \in 1..(Len(stream[c]) - 1) :
              Tail(stream[c])[i] = stream[c][i + 1]
    BY <1>2, <1>4
  <2>2. DOMAIN Tail(stream[c]) = 1..Len(Tail(stream[c]))
    BY <1>3
  <2> QED BY <1>2, <2>1, <2>2, Zenon
<1>8. Len(stream[c]) = 1 => stream'[c] = <<>>
  BY <1>2, <1>3, <1>7, EmptySeq
<1> QED BY <1>4, <1>5, <1>6, <1>7, <1>8

(* A piece that does not complete a request.                               *)
LEMMA ReadPartHInv ==
    ASSUME HInv, ReadPiece, Head(stream[Peer]).kind \in Cuts
    PROVE  HInv'
<1>0. PICK c \in Conns : c = Peer
  BY PeerIsClient DEF ReadPiece
<1>p. PICK n : n = Len(stream[c])
  OBVIOUS
<1>1. /\ c \in Conns /\ stream[c] # <<>> /\ pc = "read"
      /\ stream' = [stream EXCEPT ![c] = Tail(@)]
      /\ raw' = ReadLines(raw, Head(stream[c]).headers)
      /\ UNCHANGED <<client, sent, replies, backlog, open, fds, cur, pc, result,
                     ctx>>
      /\ cut' \in Cuts
  BY <1>0, CutIsNoKind DEF ReadPiece
<1>2. /\ stream' \in [Conns -> Seq(Piece)]
      /\ \A d \in Conns \ {c} : stream'[d] = stream[d]
      /\ Head(stream[c]) = stream[c][1] /\ stream[c][1] \in Piece
      /\ n \in Nat \ {0} /\ DOMAIN stream[c] = 1..n
      /\ Len(stream'[c]) = n - 1 /\ DOMAIN stream'[c] = 1..(n - 1)
      /\ \A i \in 1..(n - 1) : stream'[c][i] = stream[c][i + 1]
  BY <1>1, <1>p, TailPiece
<1>3. stream[c][1].kind \notin Kinds /\ Peer = c /\ Peer' = c
  BY <1>0, <1>1, <1>2, CutIsNoKind DEF Peer
<1>4. TypeOK'
  <2>1. /\ DOMAIN raw' \subseteq Headers
        /\ raw' \in [DOMAIN raw' -> Values \ {"colon"}]
    BY <1>1, <1>2, ReadLinesTyped DEF HInv, TypeOK, Piece
  <2>2. cut' \in AllCuts
    BY <1>1, CutIsNoKind
  <2> QED BY <1>1, <1>2, <2>1, <2>2 DEF HInv, TypeOK, Piece
<1>5. Complete(c)' <=> Complete(c)
  <2>1. ASSUME NEW i \in 1..n, stream[c][i].kind \in Kinds PROVE Complete(c)'
    <3>1. i # 1 /\ i - 1 \in 1..(n - 1) /\ (i - 1) + 1 = i
      BY <1>2, <1>3, <2>1
    <3>2. i - 1 \in DOMAIN stream'[c] /\ stream'[c][i - 1].kind \in Kinds
      BY <1>2, <2>1, <3>1, Zenon
    <3> QED BY <3>2 DEF Complete
  <2>2. ASSUME NEW i \in 1..(n - 1), stream'[c][i].kind \in Kinds
        PROVE  Complete(c)
    <3>1. i + 1 \in 1..n
      BY <1>2
    <3>2. i + 1 \in DOMAIN stream[c] /\ stream[c][i + 1].kind \in Kinds
      BY <1>2, <2>2, <3>1, Zenon
    <3> QED BY <3>2 DEF Complete
  <2> QED BY <1>2, <2>1, <2>2 DEF Complete
<1>6. \A d \in Conns : ~Handling(d) /\ ~Handling(d)'
  BY <1>1 DEF Handling
<1>7. OneRequest(c)'
  <2>1. OneRequest(c)
    BY <1>1 DEF HInv
  <2>2. ASSUME NEW i \in 1..(n - 1), stream'[c][i].kind \in Kinds
        PROVE  i = n - 1
    <3>1. i + 1 \in 1..n /\ stream[c][i + 1].kind \in Kinds
      BY <1>2, <2>2
    <3>2. i + 1 = n
      BY <1>2, <1>p, <2>1, <3>1 DEF OneRequest
    <3> QED BY <3>2, <1>2
  <2>3. stream[c] # <<>>
    BY <1>1
  <2> QED BY <1>1, <1>2, <1>5, <1>6, <2>1, <2>2, <2>3 DEF OneRequest
<1>8. \A d \in Conns \ {c} : OneRequest(d)'
  BY <1>1, <1>2, <1>6 DEF HInv, OneRequest, Complete
<1>9. \A d \in Conns : Answered(d)'
  BY <1>1 DEF HInv, Answered
<1>10. RawOwned'
  <2>1. sent[c] < MaxRequests \/ Complete(c)
    BY <1>1 DEF HInv, OneRequest
  <2> QED BY <1>1, <1>3, <1>5, <2>1 DEF RawOwned
<1>11. DescriptorsMatch' /\ ConnsApart' /\ ThreadOnOpen'
  BY <1>1 DEF HInv, DescriptorsMatch, ConnsApart, ThreadOnOpen
<1> QED BY <1>4, <1>7, <1>8, <1>9, <1>10, <1>11 DEF HInv

(* The piece that completes a request, which is the last of its stream.    *)
LEMMA ReadWholeHInv ==
    ASSUME HInv, ReadPiece, Head(stream[Peer]).kind \in Kinds
    PROVE  HInv'
<1>0. PICK c \in Conns : c = Peer
  BY PeerIsClient DEF ReadPiece
<1>p. PICK request : request = <<c, sent[c]>>
  OBVIOUS
<1>1. /\ stream[c] # <<>> /\ pc = "read" /\ pc' = "handle"
      /\ stream' = [stream EXCEPT ![c] = Tail(@)]
      /\ raw' = ReadLines(raw, Head(stream[c]).headers)
      /\ UNCHANGED <<client, sent, replies, backlog, open, fds, cur>>
      /\ result' = NoHeaders
      /\ ctx' = [fd |-> fds[cur], kind |-> Head(stream[c]).kind,
                 request |-> request, headers |-> Merge(result, raw', request)]
      /\ cut' = "edge"
  BY <1>0, <1>p, CutIsNoKind DEF ReadPiece, ContextFd, NextResult
<1>2. /\ stream' \in [Conns -> Seq(Piece)]
      /\ \A d \in Conns \ {c} : stream'[d] = stream[d]
      /\ Head(stream[c]) = stream[c][1] /\ stream[c][1] \in Piece
      /\ Len(stream[c]) \in Nat \ {0} /\ DOMAIN stream[c] = 1..Len(stream[c])
      /\ Len(stream[c]) = 1 => stream'[c] = <<>>
  BY <1>1, TailPiece
<1>3. 1 \in DOMAIN stream[c] /\ stream[c][1].kind \in Kinds
  BY <1>0, <1>2
<1>4. /\ client[c] \in Gone \cup {"waiting"} /\ sent[c] > 0
      /\ stream'[c] = <<>>
  <2>1. Complete(c) /\ OneRequest(c)
    BY <1>3 DEF Complete, HInv
  <2>2. 1 = Len(stream[c])
    BY <1>3, <2>1 DEF OneRequest
  <2> QED BY <1>2, <2>1, <2>2 DEF OneRequest
<1>5. fds[cur] \in DOMAIN open /\ fds[cur] \in Nat /\ open[fds[cur]] = c
  <2>1. fds[cur] \in DOMAIN open /\ open[fds[cur]] = c
    BY <1>0, <1>1, PeerIsClient DEF Peer
  <2>2. DOMAIN open \subseteq Nat
    BY ServerAssumption DEF HInv, TypeOK
  <2> QED BY <2>1, <2>2
<1>6. request \in Requests
  BY <1>p, <1>4, ServerAssumption DEF HInv, TypeOK, Requests
<1>7. /\ DOMAIN raw' \subseteq Headers
      /\ raw' \in [DOMAIN raw' -> Values \ {"colon"}]
  BY <1>1, <1>2, ReadLinesTyped DEF HInv, TypeOK, Piece
<1>8. PICK headers : headers = Merge(result, raw', request)
  OBVIOUS
<1>9. DOMAIN headers \subseteq Headers /\ headers \in [DOMAIN headers -> Header]
  BY <1>6, <1>7, <1>8, MergeTyped DEF HInv, TypeOK
<1>10. /\ ctx'.fd = fds[cur] /\ ctx'.kind \in Kinds
       /\ ctx'.request = request /\ ctx'.headers = headers
  BY <1>1, <1>2, <1>3, <1>8 DEF Piece
<1>11. TypeOK'
  BY <1>1, <1>2, <1>5, <1>6, <1>7, <1>9, <1>10, NoHeadersTyped
     DEF HInv, TypeOK, Piece, AllCuts
<1>12. \A d \in Conns : Handling(d)' <=> d = c
  BY <1>1, <1>5, <1>10 DEF Handling
<1>13. OneRequest(c)'
  BY <1>1, <1>p, <1>4, <1>10 DEF OneRequest, Complete
<1>14. \A d \in Conns \ {c} : OneRequest(d)'
  BY <1>1, <1>2, <1>12 DEF HInv, OneRequest, Complete
<1>15. \A d \in Conns : Answered(d)'
  BY <1>1 DEF HInv, Answered
<1>16. DescriptorsMatch' /\ ConnsApart' /\ RawOwned'
  BY <1>1 DEF HInv, DescriptorsMatch, ConnsApart, RawOwned
<1>17. ThreadOnOpen'
  BY <1>1, <1>5, <1>10 DEF ThreadOnOpen
<1> QED BY <1>11, <1>13, <1>14, <1>15, <1>16, <1>17 DEF HInv

(* A step of the server that changes at most what client c sees, and after *)
(* which the thread neither reads nor handles a request.                   *)
LEMMA ThreadStep ==
    ASSUME HInv, NEW c \in Conns, UNCHANGED <<sent, stream>>,
           TypeOK', DescriptorsMatch', ConnsApart', ThreadOnOpen',
           OneRequest(c)', Answered(c)', pc' \in {"poll", "close"},
           \A d \in Conns \ {c} : /\ client'[d] = client[d]
                                  /\ replies'[d] = replies[d]
    PROVE  HInv'
<1>1. \A d \in Conns \ {c} : OneRequest(d)' /\ Answered(d)'
  BY DEF HInv, OneRequest, Complete, Handling, Answered
<1>2. RawOwned'
  BY DEF RawOwned
<1> QED BY <1>1, <1>2 DEF HInv

LEMMA ReadEofHInv == ASSUME HInv, ReadEof PROVE HInv'
<1>0. PICK c \in Conns : c = Peer
  BY PeerIsClient DEF ReadEof
<1>1. /\ UNCHANGED <<client, sent, stream, replies, backlog, cur, raw, cut, ctx>>
      /\ pc = "read" /\ pc' = "poll" /\ stream[c] = <<>> /\ CloseEntry(cur)
      /\ result' = Merge(result, raw, <<c, sent[c] + 1>>)
  BY <1>0 DEF ReadEof, environment
<1>2. /\ DescriptorsMatch' /\ fds' \in Seq(1..MaxFds)
      /\ DOMAIN open' \subseteq DOMAIN open
      /\ \A f \in DOMAIN open' : open'[f] = open[f]
  BY <1>1, PeerIsClient, CloseEntryMatch DEF HInv
<1>3. DOMAIN raw # {} => <<c, sent[c] + 1>> \in Requests
  <2>1. ~Complete(c)
    BY <1>1 DEF Complete
  <2>2. DOMAIN raw # {} => sent[c] < MaxRequests
    BY <1>0, <1>1, <2>1 DEF HInv, RawOwned
  <2>3. sent[c] \in Nat /\ MaxRequests \in Nat
    BY SentTyped
  <2> QED BY <2>2, <2>3 DEF Requests
<1>4. DOMAIN result' \subseteq Headers /\ result' \in [DOMAIN result' -> Header]
  BY <1>1, <1>3, MergeTyped DEF HInv, TypeOK
<1>5. open' \in [DOMAIN open' -> Conns] /\ DOMAIN open' \subseteq 1..MaxFds
  BY <1>1, <1>2 DEF CloseEntry, HInv, TypeOK
<1>6. TypeOK'
  BY <1>1, <1>2, <1>4, <1>5 DEF HInv, TypeOK
<1>7. ConnsApart'
  BY <1>1, <1>2, ApartKept
<1>8. ThreadOnOpen' /\ RawOwned'
  BY <1>1 DEF ThreadOnOpen, RawOwned
<1> QED BY <1>1, <1>2, <1>6, <1>7, <1>8, ServerStep

LEMMA ParseHangsHInv == ASSUME HInv, ParseHangs PROVE HInv'
<1>1. /\ UNCHANGED <<client, sent, stream, replies, backlog, open, fds, cur, raw,
                     cut, result, ctx>>
      /\ pc' = "stuck"
  BY DEF ParseHangs, environment
<1>2. TypeOK'
  BY <1>1 DEF HInv, TypeOK
<1>3. DescriptorsMatch' /\ ConnsApart' /\ ThreadOnOpen' /\ RawOwned'
  BY <1>1 DEF HInv, DescriptorsMatch, ConnsApart, ThreadOnOpen, RawOwned
<1> QED BY <1>1, <1>2, <1>3, ServerStep

LEMMA ReadErrorHInv == ASSUME HInv, ReadError PROVE HInv'
<1>0. PICK c \in Conns : c = Peer
  BY PeerIsClient DEF ReadError
<1>1. /\ UNCHANGED <<sent, stream, replies, backlog, open, fds, cur, raw, cut, ctx>>
      /\ pc = "read" /\ pc' = "poll" /\ stream[c] = <<>> /\ client[c] = "reset"
      /\ client' = [client EXCEPT ![c] = "closed"] /\ result' = NoHeaders
  BY <1>0 DEF ReadError
<1>2. /\ client'[c] = "closed" /\ \A d \in Conns \ {c} : client'[d] = client[d]
      /\ client' \in [Conns -> {"new", "idle", "partial", "waiting", "closed",
                                "reset"}]
  BY <1>1 DEF HInv, TypeOK
<1>3. TypeOK'
  BY <1>1, <1>2, NoHeadersTyped DEF HInv, TypeOK
<1>4. DescriptorsMatch' /\ ThreadOnOpen'
  BY <1>1 DEF HInv, DescriptorsMatch, ThreadOnOpen
<1>5. ConnsApart'
  BY <1>1, <1>2, ApartKept
<1>6. OneRequest(c)' /\ Answered(c)'
  BY <1>1, <1>2 DEF HInv, OneRequest, Complete, Handling, Answered, Gone
<1> QED BY <1>1, <1>2, <1>3, <1>4, <1>5, <1>6, ThreadStep

-----------------------------------------------------------------------------
(* handle_context().                                                       *)

LEMMA RequesterIsClient ==
    ASSUME HInv, pc \in {"handle", "close"}
    PROVE  Requester \in Conns /\ ctx.fd \in DOMAIN open
BY DEF HInv, ThreadOnOpen, Requester, TypeOK

LEMMA NoCtxTyped ==
    /\ DOMAIN NoCtx.headers \subseteq Headers
    /\ NoCtx.headers \in [DOMAIN NoCtx.headers -> Header]
BY NoHeadersTyped DEF NoCtx

LEMMA Appended ==
    ASSUME NEW S, NEW s \in Seq(S), NEW e \in S, NEW t, t = Append(s, e)
    PROVE  /\ Len(t) = Len(s) + 1 /\ DOMAIN t = 1..(Len(s) + 1)
           /\ \A i \in 1..Len(s) : t[i] = s[i]
           /\ t[Len(s) + 1] = e
OBVIOUS

LEMMA SendResponseHInv == ASSUME HInv, SendResponse PROVE HInv'
<1>0. PICK c \in Conns : c = Requester
  BY RequesterIsClient DEF SendResponse
<1>1. /\ UNCHANGED <<sent, stream, backlog, open, fds, cur, raw, cut, result>>
      /\ pc = "handle" /\ ctx.fd \in DOMAIN open /\ client[c] # "reset"
      /\ (pc' = "close" /\ ctx' = ctx) \/ (pc' = "poll" /\ ctx' = NoCtx)
  BY <1>0 DEF SendResponse
<1>2. IF client[c] = "waiting"
      THEN /\ client' = [client EXCEPT ![c] = "idle"]
           /\ replies' = [replies EXCEPT ![c] = Append(@, ctx.request)]
      ELSE UNCHANGED <<client, replies>>
  BY <1>0 DEF SendResponse
<1>3. /\ Handling(c) /\ ~Complete(c) /\ ctx.request = <<c, sent[c]>>
      /\ client[c] \in {"waiting", "closed"} /\ ctx.request \in Requests
  BY <1>0, <1>1 DEF HInv, OneRequest, Handling, Requester, TypeOK, Gone
<1>4. /\ client' \in [Conns -> {"new", "idle", "partial", "waiting", "closed",
                                "reset"}]
      /\ \A d \in Conns \ {c} : client'[d] = client[d]
      /\ client[c] = "waiting" => client'[c] = "idle"
  BY <1>2 DEF HInv, TypeOK
<1>5. replies \in [Conns -> Seq(Requests)] /\ replies[c] \in Seq(Requests)
  BY DEF HInv, TypeOK
<1>6. /\ replies' \in [Conns -> Seq(Requests)]
      /\ \A d \in Conns \ {c} : replies'[d] = replies[d]
      /\ client[c] = "waiting" => replies'[c] = Append(replies[c], ctx.request)
  <2>1. Append(replies[c], ctx.request) \in Seq(Requests)
    BY <1>3, <1>5
  <2> QED BY <1>2, <1>5, <2>1
<1>7. TypeOK'
  BY <1>1, <1>4, <1>6, NoCtxTyped DEF HInv, TypeOK
<1>8. ConnsApart'
  BY <1>1, <1>2, <1>4, ApartKept
<1>9. DescriptorsMatch' /\ ThreadOnOpen'
  BY <1>1 DEF HInv, DescriptorsMatch, ThreadOnOpen
<1>10. OneRequest(c)'
  <2>1. ~Handling(c)' /\ ~Complete(c)'
    BY <1>1, <1>3 DEF Handling, Complete
  <2> QED BY <1>1, <1>3, <2>1 DEF HInv, OneRequest
<1>11. Answered(c)'
  <2>1. CASE client[c] = "waiting"
    <3>1. /\ Len(replies[c]) + 1 = sent[c] /\ Len(replies[c]) \in Nat
          /\ \A i \in 1..Len(replies[c]) : replies[c][i] = <<c, i>>
      BY <1>5, <2>1 DEF HInv, Answered
    <3>2. /\ Len(replies'[c]) = Len(replies[c]) + 1
          /\ DOMAIN replies'[c] = 1..(Len(replies[c]) + 1)
          /\ \A i \in 1..Len(replies[c]) : replies'[c][i] = replies[c][i]
          /\ replies'[c][Len(replies[c]) + 1] = ctx.request
      BY <1>3, <1>5, <1>6, <2>1, Appended
    <3>3. \A i \in DOMAIN replies'[c] : replies'[c][i] = <<c, i>>
      <4> SUFFICES ASSUME NEW i \in 1..(Len(replies[c]) + 1)
                   PROVE  replies'[c][i] = <<c, i>>
        BY <3>2
      <4>1. CASE i = Len(replies[c]) + 1
        BY <1>3, <3>1, <3>2, <4>1
      <4>2. CASE i # Len(replies[c]) + 1
        <5>1. i \in 1..Len(replies[c])
          BY <3>1, <4>2
        <5> QED BY <3>1, <3>2, <5>1
      <4> QED BY <4>1, <4>2
    <3>4. client'[c] = "idle" /\ Len(replies'[c]) = sent'[c]
      BY <1>1, <1>4, <2>1, <3>1, <3>2
    <3> QED BY <3>3, <3>4 DEF Answered
  <2>2. CASE client[c] # "waiting"
    BY <1>1, <1>2, <2>2 DEF HInv, Answered
  <2> QED BY <2>1, <2>2
<1> QED BY <1>1, <1>4, <1>6, <1>7, <1>8, <1>9, <1>10, <1>11, ThreadStep

LEMMA PageFailsHInv == ASSUME HInv, PageFails PROVE HInv'
<1>1. /\ UNCHANGED <<client, sent, stream, replies, backlog, open, fds, cur, raw,
                     cut, result>>
      /\ pc' = "poll" /\ ctx' = NoCtx
  BY DEF PageFails, environment
<1>2. TypeOK'
  BY <1>1, NoCtxTyped DEF HInv, TypeOK
<1>3. DescriptorsMatch' /\ ConnsApart' /\ ThreadOnOpen' /\ RawOwned'
  BY <1>1 DEF HInv, DescriptorsMatch, ConnsApart, ThreadOnOpen, RawOwned
<1> QED BY <1>1, <1>2, <1>3, ServerStep

LEMMA SendFailsHInv == ASSUME HInv, SendFails PROVE HInv'
<1>0. PICK c \in Conns : c = Requester
  BY RequesterIsClient DEF SendFails
<1>1. /\ UNCHANGED <<sent, stream, replies, backlog, open, fds, cur, raw, cut, result>>
      /\ pc' = "poll" /\ ctx' = NoCtx /\ client[c] = "reset"
      /\ client' = [client EXCEPT ![c] = "closed"]
  BY <1>0 DEF SendFails
<1>2. /\ client'[c] = "closed" /\ \A d \in Conns \ {c} : client'[d] = client[d]
      /\ client' \in [Conns -> {"new", "idle", "partial", "waiting", "closed",
                                "reset"}]
  BY <1>1 DEF HInv, TypeOK
<1>3. TypeOK'
  BY <1>1, <1>2, NoCtxTyped DEF HInv, TypeOK
<1>4. DescriptorsMatch' /\ ThreadOnOpen'
  BY <1>1 DEF HInv, DescriptorsMatch, ThreadOnOpen
<1>5. ConnsApart'
  BY <1>1, <1>2, ApartKept
<1>6. OneRequest(c)' /\ Answered(c)'
  BY <1>1, <1>2 DEF HInv, OneRequest, Complete, Handling, Answered, Gone
<1> QED BY <1>1, <1>2, <1>3, <1>4, <1>5, <1>6, ThreadStep

LEMMA CloseClientConnectionHInv ==
    ASSUME HInv, CloseClientConnection PROVE HInv'
<1>0. PICK c \in Conns : c = Requester
  BY RequesterIsClient DEF CloseClientConnection
<1>1. /\ UNCHANGED <<sent, stream, replies, backlog, cur, raw, cut, result>>
      /\ pc = "close" /\ pc' = "poll" /\ ctx' = NoCtx
      /\ client' = [client EXCEPT ![c] = "closed"]
  BY <1>0 DEF CloseClientConnection
<1>2. PICK i \in DOMAIN fds : CloseEntry(i)
  BY DEF CloseClientConnection
<1>3. /\ DescriptorsMatch' /\ fds' \in Seq(1..MaxFds)
      /\ DOMAIN open' \subseteq DOMAIN open
      /\ \A f \in DOMAIN open' : open'[f] = open[f]
  BY <1>2, CloseEntryMatch DEF HInv
<1>4. /\ client'[c] = "closed" /\ \A d \in Conns \ {c} : client'[d] = client[d]
      /\ client' \in [Conns -> {"new", "idle", "partial", "waiting", "closed",
                                "reset"}]
  BY <1>1 DEF HInv, TypeOK
<1>5. open' \in [DOMAIN open' -> Conns] /\ DOMAIN open' \subseteq 1..MaxFds
  BY <1>2, <1>3 DEF CloseEntry, HInv, TypeOK
<1>6. TypeOK'
  BY <1>1, <1>3, <1>4, <1>5, NoCtxTyped DEF HInv, TypeOK
<1>7. ConnsApart'
  BY <1>1, <1>3, <1>4, ApartKept
<1>8. ThreadOnOpen'
  BY <1>1 DEF ThreadOnOpen
<1>9. OneRequest(c)' /\ Answered(c)'
  BY <1>1, <1>4 DEF HInv, OneRequest, Complete, Handling, Answered, Gone
<1> QED BY <1>1, <1>3, <1>4, <1>6, <1>7, <1>8, <1>9, ThreadStep

-----------------------------------------------------------------------------
LEMMA NextHInv == HInv /\ [Next]_vars => HInv'
<1> SUFFICES ASSUME HInv, [Next]_vars PROVE HInv'
  OBVIOUS
<1>1. CASE UNCHANGED vars
  <2>1. /\ UNCHANGED <<client, sent, stream, replies, backlog>>
        /\ UNCHANGED <<open, fds, pc, cur, raw, cut, result, ctx>>
    BY <1>1 DEF vars, environment, server
  <2>2. TypeOK' /\ DescriptorsMatch' /\ ConnsApart' /\ ThreadOnOpen' /\ RawOwned'
    BY <2>1 DEF HInv, TypeOK, DescriptorsMatch, ConnsApart, ThreadOnOpen,
                RawOwned, Peer, Complete
  <2>3. \A c \in Conns : OneRequest(c)' /\ Answered(c)'
    BY <2>1 DEF HInv, OneRequest, Complete, Handling, Answered
  <2> QED BY <2>2, <2>3 DEF HInv
<1>2. ASSUME NEW c \in Conns, Client(c) PROVE HInv'
  BY <1>2, ConnectHInv, StartRequestHInv, FinishRequestHInv, HangUpHInv
     DEF Client
<1>3. CASE Server
  <2>1. CASE Accept
    BY <2>1, AcceptHInv
  <2>2. CASE AcceptFails
    BY <2>2, AcceptFailsHInv
  <2>3. CASE Poll
    BY <2>3, PollHInv
  <2>4. CASE ReadPiece
    BY <2>4, ReadPartHInv, ReadWholeHInv DEF ReadPiece
  <2>5. CASE ReadEof
    BY <2>5, ReadEofHInv
  <2>6. CASE ReadError
    BY <2>6, ReadErrorHInv
  <2>7. CASE SendResponse
    BY <2>7, SendResponseHInv
  <2>8. CASE PageFails
    BY <2>8, PageFailsHInv
  <2>9. CASE SendFails
    BY <2>9, SendFailsHInv
  <2>10. CASE CloseClientConnection
    BY <2>10, CloseClientConnectionHInv
  <2>11. CASE ParseHangs
    BY <2>11, ParseHangsHInv
  <2> QED BY <1>3, <2>1, <2>2, <2>3, <2>4, <2>5, <2>6, <2>7, <2>8, <2>9, <2>10,
             <2>11
          DEF Server
<1> QED BY <1>1, <1>2, <1>3 DEF Next

(* The invariant holds in every state.                                     *)
THEOREM ServerInductive == Spec => []HInv
BY InitHInv, NextHInv, PTL DEF Spec

(* Every state of the event loop is well typed: in particular a context    *)
(* that is handled has a descriptor, a kind and a request of a client.     *)
THEOREM ServerTypeCorrect == Spec => []TypeOK
<1>1. HInv => TypeOK
  BY DEF HInv
<1> QED BY <1>1, ServerInductive, PTL

(* _fds lists every open descriptor once, for a connection of its own,     *)
(* through every accept(), close() and reuse of a descriptor.              *)
THEOREM DescriptorsAlwaysMatch == Spec => []DescriptorsMatch
<1>1. HInv => DescriptorsMatch
  BY DEF HInv
<1> QED BY <1>1, ServerInductive, PTL

(* A client gets the responses to its own requests, each at most once and  *)
(* in the order it sent them, whatever the others and get_ctx() do.        *)
THEOREM OwnAnswers == Spec => []AnswersOwnRequests
<1>1. HInv => AnswersOwnRequests
  BY DEF HInv, Answered, AnswersOwnRequests
<1> QED BY <1>1, ServerInductive, PTL
-----------------------------------------------------------------------------
(* Where the headers of a context come from, and when the server closes a  *)
(* connection.                                                             *)

(* Headers that were read from clients which went away in the middle.      *)
Abandoned(headers) ==
    \A h \in DOMAIN headers :
        LET from == headers[h].of IN
        client[from[1]] = "closed" /\ from[2] = sent[from[1]] + 1

(* A page is closed after its response, which a client that had closed the *)
(* connection did not get.                                                 *)
PageAnswered ==
    pc = "close" =>
        \/ client[Requester] = "closed"
        \/ \E i \in DOMAIN replies[Requester] : replies[Requester][i] = ctx.request

(* The inductive invariant, on top of HInv.                                *)
OInv ==
    /\ HInv /\ OwnHeadersWin /\ ForeignHeadersAbandoned /\ PageAnswered
    /\ Abandoned(result)

LEMMA NoHeadersAbandoned == Abandoned(NoHeaders)
BY DEF Abandoned, NoHeaders

LEMMA InitOInv == Init => OInv
<1> SUFFICES ASSUME Init PROVE OInv
  OBVIOUS
<1>1. OwnHeadersWin /\ ForeignHeadersAbandoned /\ PageAnswered
  BY DEF Init, OwnHeadersWin, ForeignHeadersAbandoned, PageAnswered, NoCtx,
         NoHeaders
<1>2. Abandoned(result)
  BY NoHeadersAbandoned DEF Init, Abandoned, NoHeaders
<1> QED BY <1>1, <1>2, InitHInv DEF OInv

(* A client that has closed its connection sends nothing more.             *)
ClosedStays ==
    \A c \in Conns :
        client[c] = "closed" => client'[c] = "closed" /\ sent'[c] = sent[c]

LEMMA StepKeepsClosed == ASSUME HInv, Next PROVE ClosedStays
<1>t. client \in [Conns -> {"new", "idle", "partial", "waiting", "closed",
                            "reset"}]
  BY DEF HInv, TypeOK
<1>1. ASSUME NEW c \in Conns, Client(c) PROVE ClosedStays
  BY <1>t, <1>1 DEF Client, Connect, StartRequest, FinishRequest, HangUp,
                    ClosedStays, HInv, TypeOK
<1>2. CASE Accept \/ AcceptFails \/ Poll \/ ReadPiece \/ ReadEof \/ ParseHangs
           \/ PageFails
  <2>1. UNCHANGED <<client, sent>>
    BY <1>2 DEF Accept, AcceptFails, Poll, ReadPiece, ReadEof, ParseHangs,
                PageFails, environment
  <2> QED BY <2>1 DEF ClosedStays
<1>3. CASE ReadError \/ SendFails \/ CloseClientConnection
  BY <1>t, <1>3 DEF ReadError, SendFails, CloseClientConnection, ClosedStays
<1>4. CASE SendResponse
  BY <1>t, <1>4 DEF SendResponse, ClosedStays
<1> QED BY <1>1, <1>2, <1>3, <1>4 DEF Next, Server

(* What is abandoned stays so.                                             *)
LEMMA AbandonedKept ==
    ASSUME HInv, ClosedStays, NEW headers,
           headers \in [DOMAIN headers -> Header], Abandoned(headers)
    PROVE  Abandoned(headers)'
BY DEF Abandoned, ClosedStays, Header, Requests

LEMMA ForeignKept ==
    ASSUME OInv, ClosedStays, UNCHANGED ctx
    PROVE  ForeignHeadersAbandoned'
<1>1. \A h \in DOMAIN ctx.headers : ctx.headers[h].of[1] \in Conns
  BY DEF OInv, HInv, TypeOK, Header, Requests
<1> QED BY <1>1 DEF OInv, ForeignHeadersAbandoned, ClosedStays

LEMMA NoCtxForeign == ASSUME ctx' = NoCtx PROVE ForeignHeadersAbandoned'
BY DEF ForeignHeadersAbandoned, NoCtx, NoHeaders

(* A step that leaves the context and the result be.                       *)
LEMMA OtherStep ==
    ASSUME OInv, HInv', ClosedStays, UNCHANGED ctx, pc' \notin {"handle", "close"},
           \/ result' = result \/ result' = NoHeaders
    PROVE  OInv'
<1>1. OwnHeadersWin' /\ PageAnswered'
  BY DEF OwnHeadersWin, PageAnswered
<1>2. ForeignHeadersAbandoned'
  BY ForeignKept
<1>3. Abandoned(result)'
  <2>1. CASE result' = result
    BY <2>1, AbandonedKept DEF OInv, HInv, TypeOK, Abandoned
  <2>2. CASE result' = NoHeaders
    BY <2>2 DEF Abandoned, NoHeaders
  <2> QED BY <2>1, <2>2
<1> QED BY <1>1, <1>2, <1>3 DEF OInv

LEMMA ClientOInv ==
    ASSUME OInv, HInv', ClosedStays, NEW c \in Conns, Client(c) PROVE OInv'
<1>1. UNCHANGED <<pc, raw, result, ctx, open, replies>>
  BY DEF Client, Connect, StartRequest, FinishRequest, HangUp, server
<1>2. OwnHeadersWin'
  BY <1>1 DEF OInv, OwnHeadersWin
<1>3. ForeignHeadersAbandoned' /\ Abandoned(result)'
  BY <1>1, ForeignKept, AbandonedKept DEF OInv, HInv, TypeOK, Abandoned
<1>4. PageAnswered'
  <2> SUFFICES ASSUME pc = "close" PROVE PageAnswered'
    BY <1>1 DEF PageAnswered
  <2>1. Requester \in Conns /\ Requester' = Requester
    BY <1>1, RequesterIsClient DEF OInv, Requester
  <2> QED BY <1>1, <2>1 DEF OInv, PageAnswered, ClosedStays
<1> QED BY <1>2, <1>3, <1>4 DEF OInv

LEMMA ReadPieceOInv ==
    ASSUME OInv, HInv', ClosedStays, ReadPiece PROVE OInv'
<1>1. CASE UNCHANGED <<pc, result, ctx>>
  <2>1. pc' = "read"
    BY <1>1 DEF ReadPiece
  <2> QED BY <1>1, <2>1, OtherStep
<1>2. CASE pc' = "handle"
  <2>0. PICK r : r = <<Peer, sent[Peer]>>
    OBVIOUS
  <2>1. /\ ctx'.headers = Merge(result, raw', r) /\ ctx'.request = r
        /\ result' = NoHeaders
    <3>1. pc = "read" /\ pc' # pc
      BY <1>2 DEF ReadPiece
    <3> QED BY <2>0, <3>1 DEF ReadPiece, NextResult
  <2>2. /\ DOMAIN raw' \subseteq DOMAIN ctx'.headers
        /\ \A h \in DOMAIN raw' :
              ctx'.headers[h] = [of |-> r, value |-> raw'[h]]
        /\ \A h \in DOMAIN ctx'.headers \ DOMAIN raw' :
              h \in DOMAIN result /\ ctx'.headers[h] = result[h]
    BY <2>1 DEF Merge
  <2>3. \A h \in DOMAIN ctx'.headers :
            \/ ctx'.headers[h].of = r
            \/ h \in DOMAIN result /\ ctx'.headers[h] = result[h]
    <3>1. ASSUME NEW h \in DOMAIN raw' PROVE ctx'.headers[h].of = r
      <4>1. ctx'.headers[h] = [of |-> r, value |-> raw'[h]]
        BY <2>2
      <4> QED BY <4>1
    <3> QED BY <2>2, <3>1
  <2>4. \A h \in DOMAIN result : result[h].of[1] \in Conns
    BY DEF OInv, HInv, TypeOK, Header, Requests
  <2>5. ASSUME NEW h \in DOMAIN result PROVE result[h].of # r
    <3>1. PICK from : from = result[h].of
      OBVIOUS
    <3>2. from[1] \in Conns /\ from[2] = sent[from[1]] + 1
      BY <3>1, <2>4 DEF OInv, Abandoned
    <3>3. sent[from[1]] \in Nat /\ sent[from[1]] + 1 # sent[from[1]]
      <4>1. HInv
        BY DEF OInv
      <4>2. sent[from[1]] \in Nat
        BY <3>2, <4>1, SentTyped
      <4> QED BY <4>2
    <3>4. from = r => from[1] = Peer /\ from[2] = sent[Peer]
      BY <2>0
    <3> QED BY <3>1, <3>2, <3>3, <3>4
  <2>6. OwnHeadersWin'
    BY <2>1, <2>2, <2>5 DEF OwnHeadersWin
  <2>7. ForeignHeadersAbandoned'
    BY <2>1, <2>3, <2>4 DEF OInv, ForeignHeadersAbandoned, Abandoned, ClosedStays
  <2>8. Abandoned(result)' /\ PageAnswered'
    BY <1>2, <2>1 DEF Abandoned, NoHeaders, PageAnswered
  <2> QED BY <2>6, <2>7, <2>8 DEF OInv
<1> QED BY <1>1, <1>2 DEF ReadPiece

LEMMA ReadEofOInv == ASSUME OInv, HInv', ClosedStays, ReadEof PROVE OInv'
<1>0. PICK c \in Conns : c = Peer
  BY PeerIsClient DEF ReadEof, OInv
<1>1. /\ client[c] = "closed" /\ UNCHANGED <<client, sent, ctx>> /\ pc' = "poll"
      /\ result' = Merge(result, raw, <<c, sent[c] + 1>>)
  BY <1>0 DEF ReadEof, environment
<1>2. Abandoned(result)'
  <2>1. \A h \in DOMAIN result' :
            \/ result'[h].of = <<c, sent[c] + 1>>
            \/ h \in DOMAIN result /\ result'[h] = result[h]
    BY <1>1 DEF Merge
  <2> QED BY <1>1, <2>1 DEF OInv, Abandoned
<1>3. OwnHeadersWin' /\ PageAnswered' /\ ForeignHeadersAbandoned'
  BY <1>1, ForeignKept DEF OwnHeadersWin, PageAnswered
<1> QED BY <1>2, <1>3 DEF OInv

LEMMA SendResponseOInv ==
    ASSUME OInv, HInv', ClosedStays, SendResponse PROVE OInv'
<1>0. PICK c \in Conns : c = Requester
  BY RequesterIsClient DEF SendResponse, OInv
<1>1. /\ UNCHANGED <<open, raw, result>> /\ pc = "handle"
      /\ client[c] # "reset"
      /\ (pc' = "close" /\ ctx' = ctx) \/ (pc' = "poll" /\ ctx' = NoCtx)
      /\ client[c] = "waiting" =>
            replies' = [replies EXCEPT ![c] = Append(@, ctx.request)]
  BY <1>0 DEF SendResponse
<1>2. ctx.request \in Requests /\ client[c] \in {"waiting", "closed"}
  BY <1>0, <1>1 DEF OInv, HInv, OneRequest, Handling, Requester, TypeOK, Gone
<1>3. OwnHeadersWin' /\ ForeignHeadersAbandoned' /\ Abandoned(result)'
  <2>1. OwnHeadersWin'
    BY <1>1 DEF OwnHeadersWin
  <2>2. ForeignHeadersAbandoned'
    BY <1>1, ForeignKept, NoCtxForeign
  <2>3. Abandoned(result)'
    <3>1. HInv /\ Abandoned(result)
      BY DEF OInv
    <3>2. result' = result /\ result \in [DOMAIN result -> Header]
      BY <1>1 DEF OInv, HInv, TypeOK
    <3>3. \A h \in DOMAIN result : result[h].of[1] \in Conns
      BY <3>2 DEF Header, Requests
    <3> QED BY <3>1, <3>2, <3>3 DEF Abandoned, ClosedStays
  <2> QED BY <2>1, <2>2, <2>3
<1>4. PageAnswered'
  <2> SUFFICES ASSUME pc' = "close" PROVE PageAnswered'
    BY DEF PageAnswered
  <2>1. ctx' = ctx /\ Requester' = c
    BY <1>0, <1>1 DEF Requester
  <2>2. CASE client[c] = "closed"
    BY <2>1, <2>2 DEF PageAnswered, ClosedStays
  <2>3. CASE client[c] = "waiting"
    <3>1. replies[c] \in Seq(Requests) /\ replies'[c] = Append(replies[c], ctx.request)
      BY <1>1, <2>3 DEF OInv, HInv, TypeOK
    <3>2. PICK s, e : s = replies[c] /\ e = ctx.request
      OBVIOUS
    <3>3. PICK t : t = Append(s, e)
      OBVIOUS
    <3>4. Len(s) + 1 \in DOMAIN t /\ t[Len(s) + 1] = e
      BY <1>2, <3>1, <3>2, <3>3, Appended
    <3> QED BY <2>1, <3>1, <3>2, <3>3, <3>4 DEF PageAnswered
  <2> QED BY <1>2, <2>2, <2>3
<1> QED BY <1>3, <1>4 DEF OInv

LEMMA EndOfRequestOInv ==
    ASSUME OInv, HInv', ClosedStays, UNCHANGED result, ctx' = NoCtx, pc' = "poll"
    PROVE  OInv'
<1>1. Abandoned(result)'
  BY AbandonedKept DEF OInv, HInv, TypeOK, Abandoned
<1> QED BY <1>1, NoCtxForeign DEF OInv, OwnHeadersWin, PageAnswered

LEMMA NextOInv == OInv /\ [Next]_vars => OInv'
<1> SUFFICES ASSUME OInv, [Next]_vars PROVE OInv'
  OBVIOUS
<1>1. HInv'
  BY NextHInv DEF OInv
<1>2. CASE UNCHANGED vars
  <2>1. UNCHANGED <<client, sent, replies, open, pc, raw, result, ctx>>
    BY <1>2 DEF vars, environment, server
  <2> QED BY <1>1, <2>1 DEF OInv, OwnHeadersWin, ForeignHeadersAbandoned,
                            PageAnswered, Requester, Abandoned
<1>3. CASE Next
  <2>0. ClosedStays
    BY <1>3, StepKeepsClosed DEF OInv
  <2>1. ASSUME NEW c \in Conns, Client(c) PROVE OInv'
    BY <1>1, <2>0, <2>1, ClientOInv
  <2>2. CASE Accept \/ AcceptFails \/ Poll \/ ParseHangs \/ ReadError
    BY <1>1, <2>0, <2>2, OtherStep
       DEF Accept, AcceptFails, Poll, ParseHangs, ReadError
  <2>3. CASE ReadPiece
    BY <1>1, <2>0, <2>3, ReadPieceOInv
  <2>4. CASE ReadEof
    BY <1>1, <2>0, <2>4, ReadEofOInv
  <2>5. CASE SendResponse
    BY <1>1, <2>0, <2>5, SendResponseOInv
  <2>6. CASE PageFails \/ SendFails \/ CloseClientConnection
    BY <1>1, <2>0, <2>6, EndOfRequestOInv
       DEF PageFails, SendFails, CloseClientConnection
  <2> QED BY <1>3, <2>1, <2>2, <2>3, <2>4, <2>5, <2>6 DEF Next, Server
<1> QED BY <1>2, <1>3

LEMMA OriginInductive == Spec => []OInv
BY InitOInv, NextOInv, PTL DEF Spec

-----------------------------------------------------------------------------
(* A header that a request has is the one its handler sees, whatever       *)
(* get_ctx() has read from other clients before, unless its value has a    *)
(* colon in it: then the handler sees none of that request's.              *)
THEOREM OwnHeadersAlwaysWin == Spec => []OwnHeadersWin
<1>1. OInv => OwnHeadersWin
  BY DEF OInv
<1> QED BY <1>1, OriginInductive, PTL

(* Any other header a handler sees, because get_ctx()'s result outlives a  *)
(* client that went away, was sent by such a client and in the request it  *)
(* never finished.                                                         *)
THEOREM ForeignHeadersAreAbandoned == Spec => []ForeignHeadersAbandoned
<1>1. OInv => ForeignHeadersAbandoned
  BY DEF OInv
<1> QED BY <1>1, OriginInductive, PTL

(* Only ReadEof and CloseClientConnection close a descriptor.              *)
LEMMA KeepsOpen ==
    ASSUME HInv, [Next]_vars, ~ReadEof, ~CloseClientConnection
    PROVE  Range(open) \subseteq Range(open')
<1>1. CASE Accept
  <2>1. DOMAIN open \subseteq 1..MaxFds /\ FreeFds # {}
    BY <1>1 DEF Accept, HInv, TypeOK
  <2>2. LowestFree \in FreeFds
    BY <2>1, LowestFreeIsFree
  <2> QED BY <1>1, <2>2 DEF Accept, Range, FreeFds
<1>2. CASE UNCHANGED open
  BY <1>2 DEF Range
<1>3. Accept \/ UNCHANGED open
  BY DEF Next, Server, Client, Connect, StartRequest, FinishRequest, HangUp,
         AcceptFails, Poll, ReadPiece, ParseHangs, ReadError, SendResponse,
         PageFails, SendFails, vars, server, environment
<1> QED BY <1>1, <1>2, <1>3

(* The server closes a connection only if the client has closed it, or     *)
(* after it has sent the response to a page.                               *)
THEOREM ClosedOnlyWhenDone == Spec => ClosedWhenDone
<1> DEFINE Done(c) ==
       \/ client[c] = "closed"
       \/ pc = "close" /\ c = Requester
          /\ \E i \in DOMAIN replies[c] : replies[c][i] = ctx.request
<1>1. ASSUME OInv, [Next]_vars,
             NEW c \in Range(open), c \notin Range(open')
      PROVE  Done(c)
  <2>1. PICK f \in DOMAIN open : open[f] = c
    BY DEF Range
  <2>2. f \notin DOMAIN open' \/ open'[f] # c
    BY <1>1, <2>1 DEF Range
  <2>3. CASE ReadEof
    <3>1. f = fds[cur]
      BY <2>1, <2>2, <2>3 DEF ReadEof, CloseEntry
    <3> QED BY <2>1, <2>3, <3>1 DEF ReadEof, Peer
  <2>4. CASE CloseClientConnection
    <3>1. f = ctx.fd /\ pc = "close"
      BY <2>1, <2>2, <2>4 DEF CloseClientConnection, CloseEntry
    <3> QED BY <1>1, <2>1, <3>1 DEF OInv, PageAnswered, Requester
  <2> QED BY <1>1, <2>3, <2>4, KeepsOpen DEF OInv
<1>2. OInv /\ [Next]_vars =>
        [\A c \in Range(open) : c \notin Range(open') => Done(c)]_vars
  BY <1>1
<1> QED BY <1>2, OriginInductive, PTL DEF Spec, ClosedWhenDone

-----------------------------------------------------------------------------
(* No request is lost.  A client that has connected and is not gone is in  *)
(* the backlog or has a descriptor.                                        *)

Here == {"idle", "partial", "waiting"}
Connected(c) == c \in Range(backlog) \cup Range(open)
CInv == \A c \in Conns : client[c] \in Here => Connected(c)

(* Only the end of a connection takes a client off the server.             *)
LEMMA ConnectedStays ==
    ASSUME HInv, Next, NEW c \in Conns, Connected(c), client'[c] \in Here
    PROVE  Connected(c)'
<1>t. /\ backlog \in Seq(Conns) /\ open \in [DOMAIN open -> Conns]
      /\ client \in [Conns -> {"new", "idle", "partial", "waiting", "closed",
                               "reset"}]
  BY DEF HInv, TypeOK
<1>1. CASE ReadEof
  <2>1. client[c] # "closed" /\ client[Peer] = "closed" /\ UNCHANGED backlog
    BY <1>1 DEF ReadEof, environment, Here
  <2>2. ASSUME NEW f \in DOMAIN open, open[f] = c PROVE c \in Range(open')
    <3>1. f # fds[cur]
      BY <2>1, <2>2 DEF Peer
    <3>2. f \in DOMAIN open' /\ open'[f] = c
      BY <1>1, <2>2, <3>1 DEF ReadEof, CloseEntry
    <3> QED BY <3>2 DEF Range
  <2> QED BY <2>1, <2>2 DEF Connected, Range
<1>2. CASE CloseClientConnection
  <2>1. c # Requester /\ UNCHANGED backlog
    BY <1>t, <1>2, RequesterIsClient DEF CloseClientConnection, Here
  <2>2. ASSUME NEW f \in DOMAIN open, open[f] = c PROVE c \in Range(open')
    <3>1. f # ctx.fd
      BY <2>1, <2>2 DEF Requester
    <3>2. f \in DOMAIN open' /\ open'[f] = c
      BY <1>2, <2>2, <3>1 DEF CloseClientConnection, CloseEntry
    <3> QED BY <3>2 DEF Range
  <2> QED BY <2>1, <2>2 DEF Connected, Range
<1>3. CASE Accept
  <2>1. PICK f : f = LowestFree
    OBVIOUS
  <2>2. /\ backlog # <<>> /\ backlog' = Tail(backlog)
        /\ f \in DOMAIN open' /\ open'[f] = Head(backlog)
    BY <1>3, <2>1 DEF Accept
  <2>3. Head(backlog) \in Range(open')
    BY <2>2 DEF Range
  <2>4. Range(open) \subseteq Range(open')
    BY <1>3, KeepsOpen DEF Accept, ReadEof, CloseClientConnection
  <2>5. ASSUME NEW i \in DOMAIN backlog, backlog[i] = c
        PROVE  c \in Range(backlog') \cup Range(open')
    <3>1. CASE i = 1
      BY <1>t, <2>2, <2>3, <2>5, <3>1
    <3>2. CASE i # 1
      <4>1. i - 1 \in DOMAIN backlog' /\ backlog'[i - 1] = c
        BY <1>t, <2>2, <2>5, <3>2
      <4> QED BY <4>1 DEF Range
    <3> QED BY <3>1, <3>2
  <2> QED BY <2>4, <2>5 DEF Connected, Range
<1>4. ASSUME NEW d \in Conns, Client(d) PROVE Connected(c)'
  <2>1. UNCHANGED open /\ (UNCHANGED backlog \/ backlog' = Append(backlog, d))
    BY <1>4 DEF Client, Connect, StartRequest, FinishRequest, HangUp, server
  <2>2. Range(backlog) \subseteq Range(backlog')
    BY <1>t, <2>1 DEF Range
  <2> QED BY <2>1, <2>2 DEF Connected, Range
<1>5. CASE UNCHANGED <<backlog, open>>
  BY <1>5 DEF Connected, Range
<1> QED BY <1>1, <1>2, <1>3, <1>4, <1>5
     DEF Next, Server, AcceptFails, Poll, ReadPiece, ParseHangs, ReadError,
         SendResponse, PageFails, SendFails, environment

LEMMA NextCInv == HInv /\ CInv /\ [Next]_vars => CInv'
<1> SUFFICES ASSUME HInv, CInv, [Next]_vars, NEW c \in Conns, client'[c] \in Here
             PROVE  Connected(c)'
  BY DEF CInv
<1>1. /\ backlog \in Seq(Conns)
      /\ client \in [Conns -> {"new", "idle", "partial", "waiting", "closed",
                               "reset"}]
  BY DEF HInv, TypeOK
<1>2. CASE UNCHANGED vars
  BY <1>2 DEF vars, environment, server, CInv, Connected, Range
<1>3. CASE Connect(c)
  <2>1. /\ Len(backlog) \in Nat /\ backlog' = Append(backlog, c)
    BY <1>1, <1>3 DEF Connect
  <2>2. Len(backlog) + 1 \in DOMAIN backlog' /\ backlog'[Len(backlog) + 1] = c
    BY <1>1, <2>1
  <2> QED BY <2>2 DEF Connected, Range
<1>4. CASE Next /\ ~Connect(c)
  <2>1. client[c] \in Here
    <3>1. ASSUME NEW d \in Conns, Client(d) PROVE client[c] \in Here
      BY <1>1, <1>4, <3>1
         DEF Client, Connect, StartRequest, FinishRequest, HangUp, Here
    <3>2. CASE Server
      BY <1>1, <3>2
         DEF Server, Accept, AcceptFails, Poll, ReadPiece, ReadEof, ParseHangs,
             ReadError, SendResponse, PageFails, SendFails,
             CloseClientConnection, environment, Here
    <3> QED BY <1>4, <3>1, <3>2 DEF Next
  <2> QED BY <1>4, <2>1, ConnectedStays DEF CInv
<1> QED BY <1>2, <1>3, <1>4

(* A request in its stream stays there until it is handled.                *)
LEMMA CompleteStays ==
    ASSUME HInv, Server, NEW c \in Conns, Complete(c), client'[c] = "waiting"
    PROVE  Complete(c)' \/ (pc' = "handle" /\ ctx'.fd \in DOMAIN open'
                                           /\ open'[ctx'.fd] = c)
<1>1. PICK i \in DOMAIN stream[c] : stream[c][i].kind \in Kinds
  BY DEF Complete
<1>2. CASE ReadPiece /\ Peer = c
  <2>1. /\ stream[c] # <<>> /\ stream' = [stream EXCEPT ![c] = Tail(@)]
        /\ pc = "read" /\ UNCHANGED open
    BY <1>2 DEF ReadPiece
  <2>2. CASE Head(stream[c]).kind \in Kinds
    <3>1. pc' = "handle" /\ ctx'.fd = fds[cur]
      BY <1>2, <2>2, CutIsNoKind DEF ReadPiece, ContextFd
    <3>2. fds[cur] \in DOMAIN open /\ open[fds[cur]] = c
      BY <1>2, <2>1, PeerIsClient DEF Peer
    <3> QED BY <2>1, <3>1, <3>2
  <2>3. CASE Head(stream[c]).kind \notin Kinds
    <3>1. /\ Head(stream[c]) = stream[c][1]
          /\ Len(stream[c]) \in Nat \ {0} /\ DOMAIN stream[c] = 1..Len(stream[c])
          /\ DOMAIN stream'[c] = 1..(Len(stream[c]) - 1)
          /\ \A j \in 1..(Len(stream[c]) - 1) : stream'[c][j] = stream[c][j + 1]
      BY <2>1, TailPiece
    <3>2. i # 1
      BY <1>1, <2>3, <3>1
    <3>3. i - 1 \in 1..(Len(stream[c]) - 1) /\ (i - 1) + 1 = i
      BY <3>1, <3>2
    <3>4. i - 1 \in DOMAIN stream'[c] /\ stream'[c][i - 1] = stream[c][i]
      BY <3>1, <3>3
    <3> QED BY <1>1, <3>4 DEF Complete
  <2> QED BY <2>2, <2>3
<1>3. CASE ~(ReadPiece /\ Peer = c)
  <2>1. stream'[c] = stream[c]
    <3>1. CASE ReadPiece
      <4>1. stream' = [stream EXCEPT ![Peer] = Tail(@)] /\ Peer # c
        BY <1>3, <3>1 DEF ReadPiece
      <4>2. stream \in [Conns -> Seq(Piece)]
        BY DEF HInv, TypeOK, Piece
      <4> QED BY <4>1, <4>2
    <3>2. CASE ~ReadPiece
      BY <3>2 DEF Server, Accept, AcceptFails, Poll, ReadEof, ParseHangs,
         ReadError, SendResponse, PageFails, SendFails, CloseClientConnection,
         environment
    <3> QED BY <3>1, <3>2
  <2> QED BY <1>1, <2>1 DEF Complete
<1> QED BY <1>2, <1>3

(* What the step of one client does to it and to the others.               *)
LEMMA ClientKeepsRequests ==
    ASSUME HInv, CInv, CInv', NEW d \in Conns, Client(d), NEW c \in Conns,
           client'[c] = "waiting"
    PROVE  UnderWay(c)' \/ (client[c] = "waiting" /\ ~UnderWay(c))
<1>1. client \in [Conns -> {"new", "idle", "partial", "waiting", "closed",
                            "reset"}]
      /\ stream \in [Conns -> Seq(Piece)]
  BY DEF HInv, TypeOK, Piece
<1>2. Connected(c)'
  BY DEF CInv, Here
<1>3. CASE d = c
  <2>1. FinishRequest(c)
    BY <1>1, <1>3 DEF Client, Connect, StartRequest, HangUp
  <2>2. PICK h \in HeaderLines, k \in Kinds :
            stream' = [stream EXCEPT ![c] = Append(@, [headers |-> h, kind |-> k])]
    BY <2>1 DEF FinishRequest
  <2> DEFINE piece == [headers |-> h, kind |-> k]
  <2>3. /\ piece \in Piece /\ piece.kind \in Kinds
        /\ stream' = [stream EXCEPT ![c] = Append(@, piece)]
    BY <2>2 DEF Piece
  <2> HIDE DEF piece
  <2>4. /\ Len(stream[c]) + 1 \in DOMAIN stream'[c]
        /\ stream'[c][Len(stream[c]) + 1] = piece
    BY <1>1, <2>3, AppendPiece
  <2> QED BY <1>2, <2>3, <2>4 DEF UnderWay, Connected
<1>4. CASE d # c
  <2>1. client[c] = "waiting" /\ stream'[c] = stream[c]
        /\ UNCHANGED <<pc, ctx, open>>
    BY <1>1, <1>4 DEF Client, Connect, StartRequest, FinishRequest, HangUp, server
  <2> QED BY <1>2, <2>1 DEF UnderWay, Connected, Requester
<1> QED BY <1>3, <1>4

LEMMA ServerKeepsRequests ==
    ASSUME HInv, CInv', Server, NEW c \in Conns, client'[c] = "waiting"
    PROVE  \/ UnderWay(c)'
           \/ client[c] = "waiting" /\ ~UnderWay(c)
           \/ pc = "handle" /\ Requester = c /\ ~CanOpenFile
<1>1. client \in [Conns -> {"new", "idle", "partial", "waiting", "closed",
                            "reset"}]
  BY DEF HInv, TypeOK
<1>2. client[c] = "waiting"
  BY <1>1 DEF Server, Accept, AcceptFails, Poll, ReadPiece, ReadEof, ParseHangs,
     ReadError, SendResponse, PageFails, SendFails, CloseClientConnection,
     environment
<1>3. Connected(c)'
  BY DEF CInv, Here
<1>4. SUFFICES ASSUME UnderWay(c)
               PROVE  \/ UnderWay(c)'
                      \/ pc = "handle" /\ Requester = c /\ ~CanOpenFile
  BY <1>2
<1>5. CASE Complete(c)
  <2>1. Complete(c)' \/ (pc' = "handle" /\ ctx'.fd \in DOMAIN open'
                                        /\ open'[ctx'.fd] = c)
    BY <1>5, CompleteStays
  <2> QED BY <1>3, <2>1 DEF UnderWay, Complete, Connected, Requester
<1>6. CASE pc = "handle" /\ Requester = c
  <2>1. SendResponse \/ PageFails \/ SendFails
    BY <1>6 DEF Server, Accept, AcceptFails, Poll, ReadPiece, ReadEof, ParseHangs,
       ReadError, CloseClientConnection
  <2>2. ~SendResponse
    BY <1>1, <1>2, <1>6 DEF SendResponse
  <2>3. ~SendFails
    BY <1>2, <1>6 DEF SendFails
  <2>4. PageFails
    BY <2>1, <2>2, <2>3
  <2> QED BY <1>6, <2>4 DEF PageFails
<1> QED BY <1>4, <1>5, <1>6 DEF UnderWay, Complete

(* A complete request stays under way until it is answered or its client   *)
(* is gone, for any connections and any number of descriptors; only a page *)
(* that cannot be opened for want of one is dropped.                       *)
THEOREM NoRequestLost == Spec => RequestsKept
<1> DEFINE Kept ==
       \A c \in Conns : client'[c] = "waiting" =>
          \/ UnderWay(c)'
          \/ client[c] = "waiting" /\ ~UnderWay(c)
          \/ pc = "handle" /\ Requester = c /\ ~CanOpenFile
<1>1. HInv /\ CInv /\ CInv' /\ Next => Kept
  BY ClientKeepsRequests, ServerKeepsRequests DEF Next
<1>2. HInv /\ CInv /\ CInv' /\ [Next]_vars => [Kept]_vars
  BY <1>1
<1>3. Init => CInv
  BY DEF Init, CInv, Here
<1>4. HInv /\ CInv /\ [Next]_vars => CInv'
  BY NextCInv
<1> QED BY <1>2, <1>3, <1>4, ServerInductive, PTL DEF Spec, RequestsKept
=============================================================================

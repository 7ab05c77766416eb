---------------------------- MODULE MessageReader ----------------------------
(***************************************************************************)
(* How one side reads HTTP messages off a connection: FdReader             *)
(* (cas/src/fd-reader.cpp) and the two loops over it that find the         *)
(* blank line and take the body.  HttpServer::handleRead() and             *)
(* HttpClient::make_request() have the same loops; the buffer sizes differ.*)
(*                                                                         *)
(* The peer sends a message and waits until it is answered.  One read()    *)
(* returns any part of what has arrived that fits the buffer.              *)
(***************************************************************************)
EXTENDS Integers, Sequences, SequencesExt

CONSTANTS
    BufferSize,  \* FdReader::_bufferSize
    Letters,     \* characters other than CR, LF and NUL
    Messages     \* the messages the peer sends: header lines and body

CR == "cr"
LF == "lf"
NUL == "nul"
Junk == "junk"    \* a byte of the buffer that nothing has written yet
Char == Letters \cup {CR, LF}
BlankLine == <<CR, LF, CR, LF>>

ASSUME ReaderAssumption ==
    /\ BufferSize \in Nat \ {0, 1}
    /\ {CR, LF, NUL, Junk} \cap Letters = {}
    /\ Messages \in Seq([header : Seq(Char), body : Seq(Char)])

VARIABLES
    wire,       \* characters sent that read() has not returned
    ended,      \* no more characters will arrive
    sent        \* number of messages sent

VARIABLES
    buffer, index, nBytes, connected,   \* FdReader's members
    phase,      \* "idle", reading the "header" or the "body", "closed",
                \* or "failed": an exception has ended the loop
    seqCheck,   \* how much of the blank line has been seen
    raw,        \* the header so far
    body,       \* the body so far
    received    \* the messages read, as the loops return them

VARIABLE consumed   \* history: every character read_next() has returned

reader == <<buffer, index, nBytes, connected>>
vars == <<wire, ended, sent, reader, phase, seqCheck, raw, body, received,
          consumed>>

Wire(i) == Messages[i].header \o BlankLine \o Messages[i].body

(* The Content-Length of the header lines that end the text of a header,   *)
(* whatever stands in front of them.                                       *)
LengthIn(text) ==
    LET Ends == {i \in DOMAIN Messages :
                    IsSuffix(Messages[i].header \o <<CR, LF, CR>>, text)}
    IN  IF Ends = {} THEN 0
        ELSE Len(Messages[CHOOSE i \in Ends : \A j \in Ends :
                 Len(Messages[i].header) >= Len(Messages[j].header)].body)

(* The text of a header: its lines are not empty, and LF stands only       *)
(* between two of them.  CR may stand anywhere in a line.                  *)
HeaderText(text) ==
    /\ text # <<>> /\ text[1] \in Letters
    /\ \A k \in DOMAIN text :
          text[k] = LF => k < Len(text) /\ text[k + 1] \in Letters

(* The text of a body has no line end.                                     *)
BodyText(text) ==
    \A k \in DOMAIN text :
        text[k] = CR => k = Len(text) \/ text[k + 1] # LF

BodyBefore(i) == IF i = 1 THEN <<>> ELSE Messages[i - 1].body

(* Messages are written by to_string().  A value of a header is what       *)
(* getline() has read, from the user or from a message: it has no LF, but  *)
(* nothing takes a CR out of it.  build_http_request_str() and             *)
(* send_response_async() put the length of the body into the header, where *)
(* it is found behind what is left of another body as well.  No body has a *)
(* line end: the pages of www/ do, but only a browser gets them.           *)
ASSUME FramingAssumption ==
    \A i \in DOMAIN Messages :
        /\ HeaderText(Messages[i].header)
        /\ BodyText(Messages[i].body)
        /\ \A left \in Suffixes(BodyBefore(i)) :
              LengthIn(left \o Messages[i].header \o <<CR, LF, CR>>)
                  = Len(Messages[i].body)

NewBuffer == [i \in 0..(BufferSize - 1) |-> IF i = 0 THEN NUL ELSE Junk]

Init ==
    /\ wire = <<>> /\ ended = FALSE /\ sent = 0
    /\ buffer = NewBuffer /\ index = 0 /\ nBytes = 0 /\ connected = TRUE
    /\ phase = "idle" /\ seqCheck = 0 /\ raw = <<>> /\ body = <<>>
    /\ received = <<>> /\ consumed = <<>>

-----------------------------------------------------------------------------
(* The peer.                                                               *)

PeerSends ==
    /\ ~ended /\ sent < Len(Messages) /\ sent = Len(received)
    /\ sent' = sent + 1
    /\ wire' = wire \o Wire(sent + 1)
    /\ UNCHANGED <<ended, reader, phase, seqCheck, raw, body, received,
                   consumed>>

(* The connection ends; what has not arrived is lost.                      *)
PeerEnds ==
    /\ ~ended /\ ended' = TRUE
    /\ \E n \in 0..Len(wire) : wire' = SubSeq(wire, 1, n)
    /\ UNCHANGED <<sent, reader, phase, seqCheck, raw, body, received,
                   consumed>>

-----------------------------------------------------------------------------
(* FdReader.                                                               *)

eos == buffer[index] = NUL \/ index = BufferSize - 1

(* Faulty variant: no room is left for the terminator.                     *)
WholeBuffer == BufferSize

(* The most read() is asked for: a terminating NUL must fit.               *)
ReadLimit == BufferSize - 1

(* read_next() returns c: the next character of the buffer, or, when there *)
(* is none, the first of what read() returns.                              *)
read_next(c) ==
    /\ \/ /\ ~eos /\ c = buffer[index]
          /\ index' = index + 1
          /\ UNCHANGED <<wire, buffer, nBytes>>
       \/ /\ eos /\ wire # <<>>
          /\ \E n \in 1..Len(wire) :
                /\ n <= ReadLimit
                /\ nBytes' = n
                /\ buffer' = [i \in 0..(BufferSize - 1) |->
                                 IF i < n THEN wire[i + 1]
                                 ELSE IF i = n THEN NUL ELSE buffer[i]]
                /\ wire' = SubSeq(wire, n + 1, Len(wire))
          /\ index' = 1 /\ c = wire[1]
    /\ consumed' = Append(consumed, c)
    /\ UNCHANGED connected

-----------------------------------------------------------------------------
(* The loops of handleRead() and make_request().                           *)

(* poll() reports something to read, or the response is awaited: a reader  *)
(* of its own for every message.                                           *)
StartMessage ==
    /\ phase = "idle" /\ (wire # <<>> \/ ended)
    /\ buffer' = NewBuffer /\ index' = 0 /\ nBytes' = 0 /\ connected' = TRUE
    /\ phase' = "header" /\ seqCheck' = 0 /\ raw' = <<>> /\ body' = <<>>
    /\ UNCHANGED <<wire, ended, sent, received, consumed>>

(* Faulty variant: any CR LF ends the header.                           *)
AfterAnyLine(c) ==
    CASE c = CR -> 3
      [] c = LF /\ seqCheck = 3 -> 4
      [] OTHER -> 0

(* Faulty variant: the second CR is not expected.                          *)
AfterNoLine(c) ==
    CASE c = CR /\ seqCheck = 0 -> 1
      [] c = LF /\ seqCheck = 1 -> 2
      [] OTHER -> 0

(* seqCheck after character c; 4 ends the header.                          *)
Advance(c) ==
    CASE c = CR /\ seqCheck = 0 -> 1
      [] c = LF /\ seqCheck = 1 -> 2
      [] c = CR /\ seqCheck = 2 -> 3
      [] c = LF /\ seqCheck = 3 -> 4
      [] OTHER -> 0

ReadHeader ==
    /\ phase = "header"
    /\ \E c \in Char :
          /\ read_next(c)
          /\ seqCheck' = Advance(c)
          /\ IF Advance(c) = 4 THEN phase' = "body" /\ raw' = raw
                               ELSE phase' = phase /\ raw' = Append(raw, c)
    /\ UNCHANGED <<ended, sent, body, received>>

(* read() returns 0: the terminator is taken for a character of the header *)
(* and the loop ends.                                                      *)
ReadEnd ==
    /\ phase = "header" /\ eos /\ wire = <<>> /\ ended
    /\ nBytes' = 0 /\ index' = 0 /\ buffer' = [buffer EXCEPT ![0] = NUL]
    /\ connected' = FALSE /\ phase' = "closed" /\ raw' = Append(raw, NUL)
    /\ UNCHANGED <<wire, ended, sent, seqCheck, body, received, consumed>>

(* The connection was reset and read() returns -1: the terminator goes to  *)
(* the byte in front of the buffer (the highest of the chunk's size, which *)
(* is 0), and the exception leaves the loop and the reader with it.        *)
ReadFails ==
    /\ phase = "header" /\ eos /\ wire = <<>> /\ ended
    /\ nBytes' = -1 /\ index' = 0
    /\ phase' = "failed"
    /\ UNCHANGED <<wire, ended, sent, buffer, connected, seqCheck, raw, body,
                   received, consumed>>

contentLength == LengthIn(raw)

ReadBody ==
    /\ phase = "body" /\ Len(body) < contentLength /\ ~eos
    /\ \E c \in Char : read_next(c) /\ body' = Append(body, c)
    /\ UNCHANGED <<ended, sent, phase, seqCheck, raw, received>>

(* The body is complete, or the characters that have been read are used up.*)
FinishMessage ==
    /\ phase = "body" /\ (Len(body) = contentLength \/ eos)
    /\ received' = Append(received, [header |-> raw, body |-> body])
    /\ phase' = "idle"
    /\ UNCHANGED <<wire, ended, sent, reader, seqCheck, raw, body, consumed>>

Read ==
    \/ StartMessage \/ ReadHeader \/ ReadEnd \/ ReadFails
    \/ ReadBody \/ FinishMessage

Next == PeerSends \/ PeerEnds \/ Read

Spec == Init /\ [][Next]_vars

(* The reading thread runs, and the peer sends its next message.           *)
FairSpec == Spec /\ WF_vars(Read) /\ WF_vars(PeerSends)

-----------------------------------------------------------------------------
(* Properties.                                                             *)

(* Type invariant.                                                         *)
TypeOK ==
    /\ wire \in Seq(Char) /\ ended \in BOOLEAN /\ sent \in 0..Len(Messages)
    /\ buffer \in [0..(BufferSize - 1) -> Char \cup {NUL, Junk}]
    /\ index \in 0..(BufferSize - 1) /\ nBytes \in -1..(BufferSize - 1)
    /\ connected \in BOOLEAN
    /\ phase \in {"idle", "header", "body", "closed", "failed"}
    /\ seqCheck \in 0..4
    /\ raw \in Seq(Char \cup {NUL}) /\ body \in Seq(Char)
    /\ received \in Seq([header : Seq(Char), body : Seq(Char)])
    /\ consumed \in Seq(Char)

(* What the reader holds lies behind the index and in front of a NUL.      *)
Bounded ==
    /\ index <= nBytes /\ nBytes < BufferSize /\ buffer[nBytes] = NUL
    /\ \A i \in 0..(nBytes - 1) : buffer[i] \in Char

(* The reader stays inside what read() has returned: behind it is the      *)
(* terminator, and no byte before it is one that nothing has written.  A   *)
(* failed read() leaves it out of bounds, and then nothing reads from it.  *)
ReaderInBounds == phase # "failed" => Bounded

Unread == [i \in 1..(nBytes - index) |-> buffer[index + i - 1]]
Concat[n \in 0..Len(Messages)] ==
    IF n = 0 THEN <<>> ELSE Concat[n - 1] \o Wire(n)

(* Whatever the sizes read() returns, no character is lost, repeated or    *)
(* reordered: those returned, those in the buffer and those on the way are *)
(* what was sent, and nothing is thrown away with the reader.              *)
InOrder ==
    /\ ~ended => consumed \o Unread \o wire = Concat[sent]
    /\ phase = "idle" => Unread = <<>>

(* The i-th header read is the i-th header sent, wherever read() cuts the  *)
(* messages, as long as no body before it has been cut off.                *)
HeadersInStep ==
    \A i \in DOMAIN received :
        (\A j \in 1..(i - 1) : received[j].body = Messages[j].body) =>
            received[i].header = Messages[i].header \o <<CR, LF, CR>>

(* The value of the last header ends in a CR: the CR of the blank line     *)
(* behind it resets seqCheck, and the loop reads on.                       *)
EndsInCR(i) == LET h == Messages[i].header IN h[Len(h)] = CR

(* The two sides wait for each other only behind a header that ends in a   *)
(* CR: else, when the reader has read all there is and waits for more, the *)
(* peer is not waiting for an answer, as every message it sent has been    *)
(* read.  read() blocks the server's only thread, so that a blank line     *)
(* that is missed stops them both.                                         *)
NoMutualWait ==
    wire = <<>> /\ ~ended /\ (phase = "idle" \/ (phase = "header" /\ eos))
        => sent = Len(received) \/ EndsInCR(sent)

(* http-client.cpp: "read response from the server not limited to          *)
(* _bufferSize".  The body of a message read is the body sent.             *)
BodyWhole ==
    \A i \in DOMAIN received : received[i].body = Messages[i].body

(* Every message is read in the end, unless the connection ends or fails,  *)
(* or a header ends in a CR.                                               *)
AllReceived ==
    <>(\/ Len(received) = Len(Messages) \/ phase \in {"closed", "failed"}
       \/ sent # Len(received) /\ EndsInCR(sent))
=============================================================================

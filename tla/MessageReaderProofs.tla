------------------------ MODULE MessageReaderProofs ------------------------
(***************************************************************************)
(* Theorems about MessageReader for every buffer size, every sequence of   *)
(* messages, and every way read() cuts them.                               *)
(***************************************************************************)
EXTENDS MessageReader, TLAPS, SequenceTheorems, WellFoundedInduction

LEMMA Terminators ==
    /\ NUL \notin Char
    /\ BlankLine \in Seq(Char)
    /\ BufferSize \in Nat /\ BufferSize > 1
BY ReaderAssumption DEF NUL, Char, CR, LF, Junk, BlankLine

LEMMA ElementTyped ==
    ASSUME NEW S, NEW s \in Seq(S), NEW i \in 1..Len(s) PROVE s[i] \in S
OBVIOUS

LEMMA WireTyped == ASSUME NEW i \in 1..Len(Messages) PROVE Wire(i) \in Seq(Char)
<1>1. Messages[i] \in [header : Seq(Char), body : Seq(Char)]
  <2>1. Messages \in Seq([header : Seq(Char), body : Seq(Char)])
    BY ReaderAssumption
  <2> QED BY <2>1, ElementTyped
<1>2. Messages[i].header \in Seq(Char) /\ Messages[i].body \in Seq(Char)
  BY <1>1
<1> QED BY <1>2, Terminators DEF Wire

(* The inductive invariant: that the terminator is in place is what makes  *)
(* eos() stop the reader at the end of what read() returned; a terminator  *)
(* gets into the header only when the connection has ended.                *)
RInv ==
    /\ TypeOK /\ ReaderInBounds
    /\ phase # "closed" => raw \in Seq(Char)

LEMMA NewBufferInBounds ==
    /\ NewBuffer \in [0..(BufferSize - 1) -> Char \cup {NUL, Junk}]
    /\ NewBuffer[0] = NUL
BY Terminators DEF NewBuffer

LEMMA InitRInv == Init => RInv
<1> SUFFICES ASSUME Init PROVE RInv
  OBVIOUS
<1>1. <<>> \in Seq(Char) /\ <<>> \in Seq(Char \cup {NUL})
      /\ <<>> \in Seq([header : Seq(Char), body : Seq(Char)])
  OBVIOUS
<1>2. Len(Messages) \in Nat
  BY ReaderAssumption
<1>3. TypeOK
  BY <1>1, <1>2, NewBufferInBounds, Terminators DEF Init, TypeOK
<1>4. ReaderInBounds
  BY NewBufferInBounds, Terminators DEF Init, ReaderInBounds, Bounded
<1> QED BY <1>1, <1>3, <1>4 DEF RInv, Init

(* Where eos() is false the index is inside what read() returned, and the  *)
(* next read() leaves room for its terminator.                             *)
LEMMA ReadNextInBounds ==
    ASSUME RInv, phase # "failed", NEW c \in Char, read_next(c)
    PROVE  /\ Bounded'
           /\ wire' \in Seq(Char) /\ consumed' \in Seq(Char)
           /\ buffer' \in [0..(BufferSize - 1) -> Char \cup {NUL, Junk}]
           /\ index' \in 0..(BufferSize - 1) /\ nBytes' \in -1..(BufferSize - 1)
           /\ connected' \in BOOLEAN
<1>1. TypeOK /\ Bounded
  BY DEF RInv, ReaderInBounds
<1>2. consumed' \in Seq(Char) /\ connected' \in BOOLEAN
  BY <1>1 DEF read_next, TypeOK
<1>3. CASE ~eos /\ index' = index + 1 /\ UNCHANGED <<wire, buffer, nBytes>>
  <2>1. index # nBytes
    BY <1>1, <1>3 DEF eos, Bounded
  <2>2. index < nBytes
    BY <1>1, <2>1, Terminators DEF Bounded, TypeOK
  <2>3. index' \in 0..(BufferSize - 1) /\ index' <= nBytes'
    BY <1>1, <1>3, <2>2, Terminators DEF Bounded, TypeOK
  <2> QED BY <1>1, <1>2, <1>3, <2>3 DEF Bounded, TypeOK
<1>4. ASSUME NEW n \in 1..Len(wire), n <= ReadLimit, nBytes' = n, index' = 1,
             buffer' = [i \in 0..(BufferSize - 1) |->
                           IF i < n THEN wire[i + 1]
                           ELSE IF i = n THEN NUL ELSE buffer[i]],
             wire' = SubSeq(wire, n + 1, Len(wire))
      PROVE  /\ Bounded' /\ wire' \in Seq(Char)
             /\ buffer' \in [0..(BufferSize - 1) -> Char \cup {NUL, Junk}]
             /\ index' \in 0..(BufferSize - 1)
             /\ nBytes' \in -1..(BufferSize - 1)
  <2>1. wire \in Seq(Char) /\ Len(wire) \in Nat
    BY <1>1 DEF TypeOK
  <2>2. n \in 1..(BufferSize - 1)
    BY <1>4, Terminators DEF ReadLimit
  <2>3. \A i \in 0..(n - 1) : wire[i + 1] \in Char
    BY <2>1
  <2>4. wire' \in Seq(Char)
    BY <1>4, <2>1
  <2>5. buffer' \in [0..(BufferSize - 1) -> Char \cup {NUL, Junk}]
    BY <1>1, <1>4, <2>1, <2>2, <2>3 DEF TypeOK
  <2>6. /\ buffer'[n] = NUL
        /\ \A i \in 0..(n - 1) : buffer'[i] \in Char
    BY <1>4, <2>2, <2>3, Terminators
  <2>7. index' \in 0..(BufferSize - 1) /\ nBytes' \in -1..(BufferSize - 1)
    BY <1>4, <2>2, Terminators
  <2>8. index' <= nBytes' /\ nBytes' < BufferSize
    BY <1>4, <2>2, Terminators
  <2>9. Bounded'
    BY <1>4, <2>6, <2>8 DEF Bounded
  <2> QED BY <2>4, <2>5, <2>7, <2>9
<1> QED BY <1>2, <1>3, <1>4 DEF read_next

LEMMA ReadHeaderRInv == ASSUME RInv, ReadHeader PROVE RInv'
<1>1. PICK c \in Char : /\ read_next(c) /\ seqCheck' = Advance(c)
                        /\ IF Advance(c) = 4
                           THEN phase' = "body" /\ raw' = raw
                           ELSE phase' = phase /\ raw' = Append(raw, c)
  BY DEF ReadHeader
<1>2. /\ phase = "header" /\ raw \in Seq(Char)
      /\ UNCHANGED <<ended, sent, body, received>> /\ TypeOK
  BY DEF ReadHeader, RInv
<1>3. Advance(c) \in 0..4
  BY DEF Advance
<1>4. raw' \in Seq(Char) /\ raw' \in Seq(Char \cup {NUL})
      /\ phase' \in {"header", "body"}
  BY <1>1, <1>2
<1> QED BY <1>1, <1>2, <1>3, <1>4, ReadNextInBounds DEF RInv, TypeOK, ReaderInBounds

LEMMA ReadBodyRInv == ASSUME RInv, ReadBody PROVE RInv'
<1>1. PICK c \in Char : read_next(c) /\ body' = Append(body, c)
  BY DEF ReadBody
<1>2. UNCHANGED <<ended, sent, phase, seqCheck, raw, received>> /\ TypeOK
  BY DEF ReadBody, RInv
<1>3. body' \in Seq(Char)
  BY <1>1, <1>2 DEF TypeOK
<1> QED BY <1>1, <1>2, <1>3, ReadNextInBounds DEF RInv, TypeOK, ReaderInBounds, ReadBody

LEMMA PeerRInv == ASSUME RInv, PeerSends \/ PeerEnds PROVE RInv'
<1>1. TypeOK /\ Len(Messages) \in Nat
  BY ReaderAssumption DEF RInv
<1>2. wire' \in Seq(Char) /\ sent' \in 0..Len(Messages) /\ ended' \in BOOLEAN
  <2>1. CASE PeerSends
    <3>1. sent + 1 \in 1..Len(Messages)
      BY <1>1, <2>1 DEF PeerSends, TypeOK
    <3> QED BY <1>1, <2>1, <3>1, WireTyped DEF PeerSends, TypeOK
  <2>2. CASE PeerEnds
    <3>1. PICK n \in 0..Len(wire) : wire' = SubSeq(wire, 1, n)
      BY <2>2 DEF PeerEnds
    <3>2. wire \in Seq(Char) /\ Len(wire) \in Nat
      BY <1>1 DEF TypeOK
    <3>3. wire' \in Seq(Char)
      BY <3>1, <3>2
    <3> QED BY <1>1, <2>2, <3>3 DEF PeerEnds, TypeOK
  <2> QED BY <2>1, <2>2
<1>3. UNCHANGED <<buffer, index, nBytes, connected, phase, seqCheck, raw, body,
                  received, consumed>>
  BY DEF PeerSends, PeerEnds, reader
<1> QED BY <1>1, <1>2, <1>3 DEF RInv, TypeOK, ReaderInBounds, Bounded

LEMMA StartMessageRInv == ASSUME RInv, StartMessage PROVE RInv'
<1>1. TypeOK
  BY DEF RInv
<1>2. <<>> \in Seq(Char) /\ <<>> \in Seq(Char \cup {NUL})
  OBVIOUS
<1>3. TypeOK'
  <2>1. /\ buffer' \in [0..(BufferSize - 1) -> Char \cup {NUL, Junk}]
        /\ index' \in 0..(BufferSize - 1) /\ nBytes' \in 0..(BufferSize - 1)
    BY NewBufferInBounds, Terminators DEF StartMessage
  <2>2. /\ connected' \in BOOLEAN /\ seqCheck' \in 0..4
        /\ phase' \in {"idle", "header", "body", "closed", "failed"}
        /\ raw' \in Seq(Char \cup {NUL}) /\ body' \in Seq(Char)
        /\ UNCHANGED <<wire, ended, sent, received, consumed>>
    BY <1>2 DEF StartMessage
  <2> QED BY <1>1, <2>1, <2>2 DEF TypeOK
<1>4. ReaderInBounds'
  BY NewBufferInBounds, Terminators DEF StartMessage, ReaderInBounds, Bounded
<1> QED BY <1>2, <1>3, <1>4 DEF RInv, StartMessage

LEMMA ReadEndRInv == ASSUME RInv, ReadEnd PROVE RInv'
<1>1. TypeOK
  BY DEF RInv
<1>2. buffer' \in [0..(BufferSize - 1) -> Char \cup {NUL, Junk}]
      /\ buffer'[0] = NUL
  BY <1>1, Terminators DEF ReadEnd, TypeOK
<1>3. raw' \in Seq(Char \cup {NUL})
  BY <1>1 DEF ReadEnd, TypeOK
<1>4. TypeOK'
  <2>1. index' \in 0..(BufferSize - 1) /\ nBytes' \in 0..(BufferSize - 1)
    BY Terminators DEF ReadEnd
  <2>2. /\ connected' \in BOOLEAN
        /\ phase' \in {"idle", "header", "body", "closed", "failed"}
        /\ UNCHANGED <<wire, ended, sent, seqCheck, body, received, consumed>>
    BY DEF ReadEnd
  <2> QED BY <1>1, <1>2, <1>3, <2>1, <2>2 DEF TypeOK
<1>5. ReaderInBounds'
  BY <1>2, Terminators DEF ReadEnd, ReaderInBounds, Bounded
<1> QED BY <1>4, <1>5 DEF RInv, ReadEnd

LEMMA ReadFailsRInv == ASSUME RInv, ReadFails PROVE RInv'
<1>1. TypeOK
  BY DEF RInv
<1>2. index' \in 0..(BufferSize - 1) /\ nBytes' \in -1..(BufferSize - 1)
  BY Terminators DEF ReadFails
<1>3. /\ phase' = "failed" /\ raw \in Seq(Char)
      /\ UNCHANGED <<wire, ended, sent, buffer, connected, seqCheck, raw, body,
                     received, consumed>>
  BY DEF ReadFails, RInv
<1> QED BY <1>1, <1>2, <1>3 DEF RInv, TypeOK, ReaderInBounds

LEMMA FinishMessageRInv == ASSUME RInv, FinishMessage PROVE RInv'
<1>1. TypeOK /\ ReaderInBounds /\ raw \in Seq(Char)
  BY DEF RInv, FinishMessage
<1>2. [header |-> raw, body |-> body] \in [header : Seq(Char), body : Seq(Char)]
  BY <1>1 DEF TypeOK
<1>3. received' \in Seq([header : Seq(Char), body : Seq(Char)])
  BY <1>1, <1>2 DEF FinishMessage, TypeOK
<1>4. UNCHANGED <<wire, ended, sent, buffer, index, nBytes, connected, seqCheck,
                  raw, body, consumed>> /\ phase' = "idle"
  BY DEF FinishMessage, reader
<1> QED BY <1>1, <1>3, <1>4 DEF RInv, TypeOK, ReaderInBounds, Bounded,
        FinishMessage

LEMMA NextRInv == ASSUME RInv, [Next]_vars PROVE RInv'
<1>1. CASE UNCHANGED vars
  BY <1>1 DEF RInv, TypeOK, ReaderInBounds, Bounded, vars, reader
<1> QED BY <1>1, PeerRInv, StartMessageRInv, ReadHeaderRInv, ReadEndRInv,
        ReadFailsRInv, ReadBodyRInv, FinishMessageRInv DEF Next, Read

-----------------------------------------------------------------------------
(* The variables keep their types; in particular a header that is returned *)
(* as read never contains the terminator.                                  *)
THEOREM ReaderTypeCorrect == Spec => []TypeOK
<1>1. RInv /\ [Next]_vars => RInv'
  BY NextRInv
<1>2. RInv => TypeOK
  BY DEF RInv
<1> QED BY <1>1, <1>2, InitRInv, PTL DEF Spec

(* FdReader never reads behind what read() has returned and never writes   *)
(* its terminator outside the buffer, whatever the size of the buffer and  *)
(* of the pieces.                                                          *)
THEOREM ReaderStaysInBounds == Spec => []ReaderInBounds
<1>1. RInv /\ [Next]_vars => RInv'
  BY NextRInv
<1>2. RInv => ReaderInBounds
  BY DEF RInv
<1> QED BY <1>1, <1>2, InitRInv, PTL DEF Spec

(***************************************************************************)
(* InOrder and HeadersInStep, for messages with the framing that           *)
(* FramingAssumption states.                                               *)
(***************************************************************************)

(* Induction: a set that has 0 and every successor has every number,       *)
(* because the least number outside it would be neither.                   *)
LEMMA NatInductionOnSet ==
    ASSUME NEW S, 0 \in S, \A n \in Nat : n \in S => n + 1 \in S
    PROVE  Nat \subseteq S
<1> DEFINE Out == Nat \ S
<1>1. SUFFICES ASSUME Out # {} PROVE FALSE
  OBVIOUS
<1>2. \E f \in Out : \A g \in Out : ~ (<<g, f>> \in OpToRel(<, Nat))
  <2>1. Out \subseteq Nat OBVIOUS
  <2> HIDE DEF Out
  <2> QED  BY <1>1, <2>1, WFMin, NatLessThanWellFounded, Zenon
<1>3. \A f, g \in Nat : g < f => <<g, f>> \in OpToRel(<, Nat)
  BY DEF OpToRel
<1>4. PICK f \in Out : \A g \in Out : ~ (g < f)
  BY <1>2, <1>3, Zenon
<1>5. f # 0 /\ f \in Nat
  OBVIOUS
<1>6. f - 1 \in Nat /\ f - 1 \notin Out
  BY <1>4, <1>5
<1> QED BY <1>5, <1>6

(* What has been sent, message by message: a function that obeys the       *)
(* recursion exists for every number of messages.                          *)
LEMMA ConcatDef ==
    \A n \in 0..Len(Messages) :
        Concat[n] = IF n = 0 THEN <<>> ELSE Concat[n - 1] \o Wire(n)
<1> DEFINE Good(f, m) == f = [n \in 0..m |-> IF n = 0 THEN <<>>
                                           ELSE f[n - 1] \o Wire(n)]
           S == {m \in Nat : \E f : Good(f, m)}
<1>1. 0 \in S
  <2>1. Good([n \in 0..0 |-> <<>>], 0)
    OBVIOUS
  <2> QED BY <2>1
<1>2. ASSUME NEW m \in Nat, m \in S PROVE m + 1 \in S
  <2>1. PICK f : Good(f, m)
    BY <1>2
  <2> DEFINE g == [n \in 0..(m + 1) |->
                      IF n = m + 1 THEN f[m] \o Wire(m + 1) ELSE f[n]]
  <2>2. ASSUME NEW n \in 0..(m + 1)
        PROVE  g[n] = IF n = 0 THEN <<>> ELSE g[n - 1] \o Wire(n)
    <3>1. CASE n = m + 1
      <4>1. g[n] = f[m] \o Wire(m + 1)
        BY <3>1
      <4>2. n - 1 \in 0..(m + 1) /\ n - 1 = m /\ m # m + 1 /\ n # 0
        BY <3>1
      <4>3. g[n - 1] = f[m]
        BY <4>2
      <4> QED BY <3>1, <4>1, <4>2, <4>3
    <3>2. CASE n # m + 1
      <4>1. n \in 0..m /\ g[n] = f[n]
        BY <3>2
      <4>2. n # 0 => n - 1 \in 0..(m + 1) /\ n - 1 # m + 1
        BY <4>1
      <4>3. n # 0 => g[n - 1] = f[n - 1]
        BY <4>2
      <4>4. f[n] = IF n = 0 THEN <<>> ELSE f[n - 1] \o Wire(n)
        BY <2>1, <4>1
      <4> QED BY <4>1, <4>3, <4>4
    <3> QED BY <3>1, <3>2
  <2>3. Good(g, m + 1)
    <3> DEFINE h == [n \in 0..(m + 1) |->
                        IF n = 0 THEN <<>> ELSE g[n - 1] \o Wire(n)]
    <3>1. \A n \in 0..(m + 1) : h[n] = g[n]
      <4> HIDE DEF g
      <4> QED BY <2>2
    <3>2. g = [n \in 0..(m + 1) |-> g[n]] /\ h = [n \in 0..(m + 1) |-> h[n]]
      OBVIOUS
    <3>3. g = h
      <4> HIDE DEF g, h
      <4> QED BY <3>1, <3>2
    <3> QED BY <3>3
  <2>4. \E x : Good(x, m + 1)
    <3> HIDE DEF g, Good
    <3> QED BY <2>3
  <2> QED
    <3> HIDE DEF Good
    <3> QED BY <2>4
<1>3. Nat \subseteq S
  <2> HIDE DEF S
  <2> QED BY <1>1, <1>2, NatInductionOnSet
<1>4. Len(Messages) \in Nat
  BY ReaderAssumption
<1>5. \E f : Good(f, Len(Messages))
  BY <1>3, <1>4
<1>6. Good(Concat, Len(Messages))
  BY <1>5, Zenon DEF Concat
<1> QED BY <1>6
-----------------------------------------------------------------------------
(* What the reader has still to get: the buffer behind the index, and what *)
(* is on the way.                                                          *)
Held == Unread \o wire

(* The buffer as the reader may rely on it, and what is held then.         *)
Readable ==
    /\ index \in Nat /\ nBytes \in Nat /\ index <= nBytes /\ wire \in Seq(Char)
    /\ \A i \in 0..(nBytes - 1) : buffer[i] \in Char

HeldAt ==
    /\ Unread \in Seq(Char) /\ Len(Unread) = nBytes - index
    /\ Held \in Seq(Char) /\ Len(Held) = nBytes - index + Len(wire)
    /\ \A i \in 1..Len(Held) :
          Held[i] = IF i <= nBytes - index THEN buffer[index + i - 1]
                    ELSE wire[i - (nBytes - index)]

LEMMA HeldIs == Readable => HeldAt
<1> SUFFICES ASSUME Readable PROVE HeldAt
  OBVIOUS
<1>1. PICK d \in Nat : d = nBytes - index
  BY DEF Readable
<1>2. /\ index \in Nat /\ nBytes \in Nat /\ wire \in Seq(Char) /\ Len(wire) \in Nat
      /\ \A i \in 1..d : index + i - 1 \in 0..(nBytes - 1)
  BY <1>1 DEF Readable
<1>3. Unread = [i \in 1..d |-> buffer[index + i - 1]]
  BY <1>1 DEF Unread
<1>4. \A i \in 1..d : buffer[index + i - 1] \in Char
  BY <1>2 DEF Readable
<1>5. Unread \in Seq(Char) /\ Len(Unread) = d
  BY <1>3, <1>4
<1>6. /\ Unread \o wire \in Seq(Char) /\ Len(Unread \o wire) = d + Len(wire)
      /\ \A i \in 1..(d + Len(wire)) :
            (Unread \o wire)[i] = IF i <= d THEN Unread[i] ELSE wire[i - d]
  BY <1>2, <1>5, ConcatProperties
<1>7. ASSUME NEW i \in 1..Len(Held)
      PROVE  Held[i] = IF i <= d THEN buffer[index + i - 1] ELSE wire[i - d]
  <2>1. i \in 1..(d + Len(wire)) /\ (i <= d => i \in 1..d)
    BY <1>2, <1>6 DEF Held
  <2>2. Held[i] = IF i <= d THEN Unread[i] ELSE wire[i - d]
    BY <1>6, <2>1 DEF Held
  <2>3. i <= d => Unread[i] = buffer[index + i - 1]
    BY <1>3, <2>1
  <2> QED BY <2>2, <2>3
<1> QED BY <1>1, <1>5, <1>6, <1>7 DEF HeldAt, Held

LEMMA HeldIsNext == Readable' => HeldAt'
<1>1. Readable => HeldAt
  BY HeldIs
<1> QED BY <1>1, PTL

(* read_next() takes the first of them and nothing else.                   *)
LEMMA ReadNextTakes ==
    ASSUME RInv, phase # "failed", NEW c \in Char, read_next(c)
    PROVE  /\ Held \in Seq(Char) /\ Held' \in Seq(Char)
           /\ Len(Held) > 0 /\ c = Held[1] /\ Len(Held') = Len(Held) - 1
           /\ \A i \in 1..Len(Held') : Held'[i] = Held[i + 1]
<1>1. TypeOK /\ Bounded /\ Bounded' /\ wire' \in Seq(Char)
      /\ index' \in 0..(BufferSize - 1) /\ nBytes' \in -1..(BufferSize - 1)
  BY ReadNextInBounds DEF RInv, ReaderInBounds
<1>2. /\ index \in Nat /\ nBytes \in Nat /\ index <= nBytes /\ wire \in Seq(Char)
      /\ index' \in Nat /\ nBytes' \in Nat /\ index' <= nBytes'
      /\ \A i \in 0..(nBytes - 1) : buffer[i] \in Char
      /\ \A i \in 0..(nBytes' - 1) : buffer'[i] \in Char
  <2>1. /\ index \in Nat /\ nBytes \in Nat /\ index <= nBytes /\ wire \in Seq(Char)
        /\ \A i \in 0..(nBytes - 1) : buffer[i] \in Char
    BY <1>1, Terminators DEF TypeOK, Bounded
  <2>2. /\ index' <= nBytes' /\ \A i \in 0..(nBytes' - 1) : buffer'[i] \in Char
    BY <1>1 DEF Bounded
  <2>3. index' \in Nat /\ nBytes' \in Nat
    BY <1>1, <2>2, Terminators
  <2> QED BY <2>1, <2>2, <2>3
<1>3. /\ Held \in Seq(Char) /\ Len(Held) = nBytes - index + Len(wire)
      /\ \A i \in 1..Len(Held) :
            Held[i] = IF i <= nBytes - index THEN buffer[index + i - 1]
                      ELSE wire[i - (nBytes - index)]
  <2>1. Readable
    BY <1>2 DEF Readable
  <2> QED BY <2>1, HeldIs DEF HeldAt
<1>4. /\ Held' \in Seq(Char) /\ Len(Held') = nBytes' - index' + Len(wire')
      /\ \A i \in 1..Len(Held') :
            Held'[i] = IF i <= nBytes' - index' THEN buffer'[index' + i - 1]
                       ELSE wire'[i - (nBytes' - index')]
  <2>1. Readable'
    BY <1>1, <1>2 DEF Readable
  <2> QED BY <2>1, HeldIsNext DEF HeldAt
<1>5. CASE ~eos /\ c = buffer[index] /\ index' = index + 1
           /\ UNCHANGED <<wire, buffer, nBytes>>
  <2>1. index < nBytes
    BY <1>1, <1>2, <1>5 DEF eos, Bounded
  <2>2. Len(wire) \in Nat
    BY <1>2
  <2>3. Len(Held) > 0 /\ Len(Held') = Len(Held) - 1 /\ c = Held[1]
    <3>1. nBytes - index > 0 /\ index + 1 - 1 = index
          /\ nBytes' - index' = nBytes - index - 1
      BY <1>2, <1>5, <2>1
    <3>2. Len(Held) > 0 /\ Len(Held') = Len(Held) - 1 /\ 1 \in 1..Len(Held)
      BY <1>2, <1>3, <1>4, <1>5, <2>2, <3>1
    <3>3. Held[1] = buffer[index]
      BY <1>2, <1>3, <3>1, <3>2
    <3> QED BY <1>5, <3>2, <3>3
  <2>4. ASSUME NEW i \in 1..Len(Held') PROVE Held'[i] = Held[i + 1]
    <3>1. i \in Nat /\ i + 1 \in 1..Len(Held)
      <4>1. Len(Held) \in Nat /\ Len(Held') = Len(Held) - 1
        BY <1>3, <2>3
      <4> QED BY <4>1
    <3>2. PICK j \in 1..Len(Held) : j = i + 1
      BY <3>1
    <3>3. Held[j] = IF j <= nBytes - index THEN buffer[index + j - 1]
                    ELSE wire[j - (nBytes - index)]
      BY <1>3, <3>2
    <3>4. Held'[i] = IF i <= nBytes - (index + 1) THEN buffer[index + 1 + i - 1]
                     ELSE wire[i - (nBytes - (index + 1))]
      <4>1. Held'[i] = IF i <= nBytes' - index' THEN buffer'[index' + i - 1]
                       ELSE wire'[i - (nBytes' - index')]
        BY <1>4
      <4> QED BY <1>5, <4>1
    <3>5. index + 1 + i - 1 = index + j - 1
          /\ i - (nBytes - (index + 1)) = j - (nBytes - index)
          /\ (i <= nBytes - (index + 1) <=> j <= nBytes - index)
      <4>1. index \in Nat /\ nBytes \in Nat /\ i \in Nat /\ j = i + 1
        BY <1>2, <3>1, <3>2
      <4> QED BY <4>1
    <3>6. Held[j] = Held'[i]
      BY <3>3, <3>4, <3>5
    <3> QED BY <3>2, <3>6
  <2> QED BY <1>3, <1>4, <2>3, <2>4
<1>6. ASSUME NEW n \in 1..Len(wire), eos, n <= ReadLimit, nBytes' = n, index' = 1,
             buffer' = [i \in 0..(BufferSize - 1) |->
                           IF i < n THEN wire[i + 1]
                           ELSE IF i = n THEN NUL ELSE buffer[i]],
             wire' = SubSeq(wire, n + 1, Len(wire)), c = wire[1]
      PROVE  /\ Len(Held) > 0 /\ c = Held[1] /\ Len(Held') = Len(Held) - 1
             /\ \A i \in 1..Len(Held') : Held'[i] = Held[i + 1]
  <2>1. index = nBytes
    <3>1. CASE index < nBytes
      <4>1. buffer[index] # NUL
        <5>1. index \in 0..(nBytes - 1)
          BY <1>2, <3>1
        <5> QED BY <1>2, <5>1, Terminators
      <4>2. index # BufferSize - 1
        BY <1>1, <1>2, <3>1, Terminators DEF Bounded
      <4> QED BY <1>6, <4>1, <4>2 DEF eos
    <3> QED BY <1>2, <3>1
  <2>2. Len(wire) \in Nat /\ n \in Nat /\ 1 <= n /\ n <= Len(wire)
    BY <1>2
  <2>3. Len(Held) = Len(wire) /\ \A i \in 1..Len(wire) : Held[i] = wire[i]
    <3>1. nBytes - index = 0
      BY <1>2, <2>1
    <3>2. Len(Held) = Len(wire)
      BY <1>3, <2>2, <3>1
    <3>3. ASSUME NEW i \in 1..Len(wire) PROVE Held[i] = wire[i]
      <4>1. i \in 1..Len(Held) /\ ~(i <= nBytes - index) /\ i - (nBytes - index) = i
        BY <2>2, <3>1, <3>2
      <4>2. Held[i] = IF i <= nBytes - index THEN buffer[index + i - 1]
                      ELSE wire[i - (nBytes - index)]
        BY <1>3, <4>1
      <4> QED BY <4>1, <4>2
    <3> QED BY <3>2, <3>3
  <2>4. Len(wire') = Len(wire) - n
        /\ \A i \in 1..(Len(wire) - n) : wire'[i] = wire[n + i]
    BY <1>2, <1>6, <2>2
  <2>5. Len(Held') = Len(wire) - 1
    BY <1>4, <1>6, <2>2, <2>4
  <2>6. ASSUME NEW i \in 1..Len(Held') PROVE Held'[i] = wire[i + 1]
    <3>1. i \in Nat /\ 1 <= i /\ i <= Len(wire) - 1
      BY <2>2, <2>5
    <3>2. Held'[i] = IF i <= n - 1 THEN buffer'[1 + i - 1]
                     ELSE wire'[i - (n - 1)]
      BY <1>4, <1>6
    <3>3. CASE i <= n - 1
      <4>1. 1 + i - 1 = i /\ i < n /\ i \in 0..(BufferSize - 1)
        BY <1>6, <2>2, <3>1, <3>3, Terminators DEF ReadLimit
      <4>2. buffer'[i] = wire[i + 1]
        BY <1>6, <4>1
      <4> QED BY <3>2, <3>3, <4>1, <4>2
    <3>4. CASE ~(i <= n - 1)
      <4>1. i - (n - 1) \in 1..(Len(wire) - n) /\ n + (i - (n - 1)) = i + 1
        BY <2>2, <3>1, <3>4
      <4> QED BY <2>4, <3>2, <3>4, <4>1
    <3> QED BY <3>3, <3>4
  <2>7. \A i \in 1..Len(Held') : i + 1 \in 1..Len(wire)
    BY <2>2, <2>5
  <2>8. Len(wire) > 0 /\ c = Held[1]
    BY <1>6, <2>2, <2>3
  <2> QED BY <2>3, <2>5, <2>6, <2>7, <2>8
<1> QED BY <1>3, <1>4, <1>5, <1>6 DEF read_next

(* What has been returned and what is still to be returned, together, do   *)
(* not change when read_next() returns a character.                        *)
LEMMA ReadNextKeepsOrder ==
    ASSUME RInv, phase # "failed", NEW c \in Char, read_next(c)
    PROVE  consumed' \o Held' = consumed \o Held
<1> DEFINE s == consumed \o Held
           t == consumed' \o Held'
<1>1. /\ Held \in Seq(Char) /\ Held' \in Seq(Char)
      /\ Len(Held) > 0 /\ c = Held[1] /\ Len(Held') = Len(Held) - 1
      /\ \A i \in 1..Len(Held') : Held'[i] = Held[i + 1]
  BY ReadNextTakes
<1>2. consumed \in Seq(Char) /\ consumed' = Append(consumed, c)
  BY DEF RInv, TypeOK, read_next
<1>3. /\ consumed' \in Seq(Char)
      /\ Len(consumed') = Len(consumed) + 1
      /\ consumed'[Len(consumed) + 1] = c
      /\ \A i \in 1..Len(consumed) : consumed'[i] = consumed[i]
  BY <1>2
<1>4. PICK p, q, h, k : p = consumed /\ q = consumed' /\ h = Held /\ k = Held'
  OBVIOUS
<1>5. /\ p \in Seq(Char) /\ q \in Seq(Char) /\ h \in Seq(Char) /\ k \in Seq(Char)
      /\ Len(p) \in Nat /\ Len(h) \in Nat /\ Len(k) = Len(h) - 1
      /\ Len(q) = Len(p) + 1 /\ q[Len(p) + 1] = h[1]
      /\ (\A i \in 1..Len(p) : q[i] = p[i])
      /\ (\A i \in 1..Len(k) : k[i] = h[i + 1])
  <2>1. /\ p \in Seq(Char) /\ q \in Seq(Char) /\ h \in Seq(Char) /\ k \in Seq(Char)
        /\ Len(k) = Len(h) - 1 /\ Len(q) = Len(p) + 1 /\ q[Len(p) + 1] = h[1]
    BY <1>1, <1>2, <1>3, <1>4
  <2>2. Len(p) \in Nat /\ Len(h) \in Nat
    BY <2>1
  <2>3. \A i \in 1..Len(p) : q[i] = p[i]
    BY <1>3, <1>4
  <2>4. \A i \in 1..Len(k) : k[i] = h[i + 1]
    BY <1>1, <1>4
  <2> QED BY <2>1, <2>2, <2>3, <2>4
<1>6. q \o k = p \o h
  <2>1. /\ q \o k \in Seq(Char) /\ Len(q \o k) = Len(q) + Len(k)
        /\ \A i \in 1..(Len(q) + Len(k)) :
              (q \o k)[i] = IF i <= Len(q) THEN q[i] ELSE k[i - Len(q)]
    BY <1>5, ConcatProperties
  <2>2. /\ p \o h \in Seq(Char) /\ Len(p \o h) = Len(p) + Len(h)
        /\ \A i \in 1..(Len(p) + Len(h)) :
              (p \o h)[i] = IF i <= Len(p) THEN p[i] ELSE h[i - Len(p)]
    BY <1>5, ConcatProperties
  <2>3. Len(q) + Len(k) = Len(p) + Len(h)
    BY <1>5
  <2>4. ASSUME NEW i \in 1..(Len(p) + Len(h)) PROVE (q \o k)[i] = (p \o h)[i]
    <3>1. /\ (q \o k)[i] = IF i <= Len(q) THEN q[i] ELSE k[i - Len(q)]
          /\ (p \o h)[i] = IF i <= Len(p) THEN p[i] ELSE h[i - Len(p)]
      BY <2>1, <2>2, <2>3
    <3>2. CASE i <= Len(p)
      <4>1. i <= Len(q) /\ i \in 1..Len(p)
        BY <1>5, <3>2
      <4> QED BY <1>5, <3>1, <3>2, <4>1
    <3>3. CASE i = Len(p) + 1
      <4>1. i <= Len(q) /\ ~(i <= Len(p)) /\ i - Len(p) = 1
        BY <1>5, <3>3
      <4> QED BY <1>5, <3>1, <3>3, <4>1
    <3>4. CASE i > Len(p) + 1
      <4>1. PICK j \in 1..Len(k) : j = i - Len(q)
        <5>1. Len(p) \in Nat /\ Len(h) \in Nat /\ Len(k) = Len(h) - 1
              /\ Len(q) = Len(p) + 1
          BY <1>5
        <5>2. i - Len(q) \in 1..Len(k)
          BY <3>4, <5>1
        <5> QED BY <5>2
      <4>2. ~(i <= Len(q)) /\ ~(i <= Len(p)) /\ i - Len(p) = j + 1
        BY <1>5, <3>4, <4>1
      <4> QED BY <1>5, <3>1, <4>1, <4>2
    <3> QED BY <1>5, <3>2, <3>3, <3>4
  <2> QED BY <2>1, <2>2, <2>3, <2>4, SeqEqual
<1> QED BY <1>4, <1>6

-----------------------------------------------------------------------------
(* What the reader of the next message has in front of it: what is left of *)
(* the body before, if that was cut off, and the message, if it was sent.  *)
Left ==
    IF received = <<>> THEN <<>>
    ELSE SubSeq(Messages[Len(received)].body,
                Len(received[Len(received)].body) + 1,
                Len(Messages[Len(received)].body))

Stream == IF sent = Len(received) THEN Left ELSE Left \o Wire(sent)

(* How much of it has been read.                                           *)
Taken ==
    IF phase = "header" THEN Len(raw)
    ELSE IF phase = "body" THEN Len(raw) + 1 + Len(body)
    ELSE 0

(* seqCheck counts characters of the blank line that do end the first p    *)
(* characters of a text, though not all that do: a CR in front of them may *)
(* have hidden some.                                                       *)
Seen(text, p, seq) ==
    /\ seq \in 0..3
    /\ seq = 1 => p >= 1 /\ text[p] = CR
    /\ seq = 2 => p >= 2 /\ text[p] = LF /\ text[p - 1] = CR
    /\ seq = 3 => /\ p >= 3
                  /\ text[p] = CR /\ text[p - 1] = LF /\ text[p - 2] = CR

(* Behind a header that does not end in a CR it counts all of them.        *)
InBlankLine(p) ==
    LET q == p - (Len(Left) + Len(Messages[sent].header))
    IN  sent # Len(received) /\ ~EndsInCR(sent) =>
            q <= 3 /\ (q >= 0 => seqCheck = q)

(* The inductive invariant.                                                *)
Counts ==
    /\ phase \in {"closed", "failed"} => ended
    /\ Len(received) <= sent /\ sent <= Len(received) + 1
    /\ phase = "body" => sent = Len(received) + 1

Pending ==
    phase \in {"idle", "header", "body"} =>
        /\ Taken + Len(Held) <= Len(Stream)
        /\ ~ended => Taken + Len(Held) = Len(Stream)
        /\ \A i \in 1..Len(Held) : Held[i] = Stream[Taken + i]

HeaderSoFar ==
    phase = "header" =>
        /\ body = <<>>
        /\ \A i \in 1..Len(raw) : raw[i] = Stream[i]
        /\ Seen(Stream, Len(raw), seqCheck)
        /\ InBlankLine(Len(raw))

HeaderRead ==
    phase = "body" =>
        raw = Left \o Messages[sent].header \o <<CR, LF, CR>>

FInv ==
    /\ RInv /\ Counts /\ Pending /\ HeaderSoFar /\ HeaderRead
    /\ InOrder /\ HeadersInStep

LEMMA MessageTyped ==
    ASSUME NEW i \in 1..Len(Messages)
    PROVE  /\ Messages[i].header \in Seq(Char) /\ Messages[i].body \in Seq(Char)
           /\ Len(Messages[i].header) \in Nat /\ Len(Messages[i].body) \in Nat
<1>1. Messages[i] \in [header : Seq(Char), body : Seq(Char)]
  <2>1. Messages \in Seq([header : Seq(Char), body : Seq(Char)])
    BY ReaderAssumption
  <2> QED BY <2>1, ElementTyped
<1>2. Messages[i].header \in Seq(Char) /\ Messages[i].body \in Seq(Char)
  BY <1>1
<1> QED BY <1>2

(* What a text keeps that is a part of a body: no line end in it.          *)
NoLineEnd(text) ==
    \A k \in 1..(Len(text) - 1) : ~(text[k] = CR /\ text[k + 1] = LF)

LEMMA Framing ==
    ASSUME NEW i \in 1..Len(Messages)
    PROVE  /\ Messages[i].header # <<>> /\ Messages[i].header[1] \in Letters
           /\ \A k \in 1..Len(Messages[i].header) :
                 Messages[i].header[k] = LF =>
                     /\ k < Len(Messages[i].header)
                     /\ Messages[i].header[k + 1] \in Letters
           /\ NoLineEnd(Messages[i].body)
           /\ \A left \in Suffixes(BodyBefore(i)) :
                 LengthIn(left \o Messages[i].header \o <<CR, LF, CR>>)
                     = Len(Messages[i].body)
<1>1. i \in DOMAIN Messages
  BY ReaderAssumption
<1>2. PICK h, b : h = Messages[i].header /\ b = Messages[i].body
  OBVIOUS
<1>3. h \in Seq(Char) /\ b \in Seq(Char)
  BY <1>2, MessageTyped
<1>4. DOMAIN h = 1..Len(h) /\ DOMAIN b = 1..Len(b) /\ Len(b) \in Nat
  BY <1>3
<1>5. HeaderText(h) /\ BodyText(b)
  BY <1>1, <1>2, FramingAssumption
<1>6. /\ h # <<>> /\ h[1] \in Letters
      /\ \A k \in 1..Len(h) : h[k] = LF => k < Len(h) /\ h[k + 1] \in Letters
  BY <1>4, <1>5 DEF HeaderText
<1>7. ASSUME NEW k \in 1..(Len(b) - 1) PROVE ~(b[k] = CR /\ b[k + 1] = LF)
  <2>1. PICK n \in Nat : n = Len(b)
    BY <1>4
  <2>2. k \in 1..(n - 1) /\ k \in 1..n /\ k # n
    BY <2>1
  <2> QED BY <1>4, <1>5, <2>1, <2>2 DEF BodyText
<1> QED BY <1>1, <1>2, <1>6, <1>7, FramingAssumption DEF NoLineEnd

LEMMA ReceivedTyped ==
    ASSUME TypeOK
    PROVE  /\ Len(received) \in Nat /\ sent \in Nat /\ sent <= Len(Messages)
           /\ (received = <<>> <=> Len(received) = 0)
           /\ \A i \in 1..Len(received) :
                 /\ received[i].header \in Seq(Char)
                 /\ received[i].body \in Seq(Char) /\ Len(received[i].body) \in Nat
<1>1. received \in Seq([header : Seq(Char), body : Seq(Char)])
  BY DEF TypeOK
<1>2. ASSUME NEW i \in 1..Len(received)
      PROVE  /\ received[i].header \in Seq(Char)
             /\ received[i].body \in Seq(Char) /\ Len(received[i].body) \in Nat
  <2>1. received[i] \in [header : Seq(Char), body : Seq(Char)]
    BY <1>1, ElementTyped
  <2> QED BY <2>1
<1>3. Len(received) \in Nat /\ sent \in Nat /\ sent <= Len(Messages)
  BY <1>1, ReaderAssumption DEF TypeOK
<1>4. received = <<>> <=> Len(received) = 0
  BY <1>1
<1> QED BY <1>2, <1>3, <1>4

LEMMA SuffixIsSuffix ==
    ASSUME NEW s \in Seq(Char), NEW m \in 0..Len(s)
    PROVE  /\ SubSeq(s, m + 1, Len(s)) \in Suffixes(s)
           /\ SubSeq(s, m + 1, Len(s)) \in Seq(Char)
           /\ Len(SubSeq(s, m + 1, Len(s))) = Len(s) - m
           /\ \A i \in 1..(Len(s) - m) : SubSeq(s, m + 1, Len(s))[i] = s[m + i]
<1>1. Len(s) \in Nat /\ m \in Nat /\ m <= Len(s)
  OBVIOUS
<1>2. /\ SubSeq(s, m + 1, Len(s)) \in Seq(Char)
      /\ Len(SubSeq(s, m + 1, Len(s))) = Len(s) - m
      /\ \A i \in 1..(Len(s) - m) : SubSeq(s, m + 1, Len(s))[i] = s[m + i]
  BY <1>1
<1>3. CASE m = Len(s)
  <2>1. SubSeq(s, m + 1, Len(s)) = <<>>
    BY <1>1, <1>3, SubSeqEmpty
  <2> QED BY <1>2, <2>1 DEF Suffixes
<1>4. CASE m < Len(s)
  <2>1. m + 1 \in 1..Len(s)
    BY <1>1, <1>4
  <2> QED BY <1>2, <2>1 DEF Suffixes
<1> QED BY <1>1, <1>3, <1>4

(* Where the parts of a concatenation are.                                 *)
LEMMA ConcatAt ==
    ASSUME NEW a \in Seq(Char), NEW b \in Seq(Char)
    PROVE  /\ a \o b \in Seq(Char) /\ Len(a \o b) = Len(a) + Len(b)
           /\ \A i \in 1..Len(a) : (a \o b)[i] = a[i]
           /\ \A i \in 1..Len(b) : (a \o b)[Len(a) + i] = b[i]
<1> DEFINE c == a \o b
<1>1. /\ c \in Seq(Char) /\ Len(c) = Len(a) + Len(b)
      /\ \A i \in 1..(Len(a) + Len(b)) :
            c[i] = IF i <= Len(a) THEN a[i] ELSE b[i - Len(a)]
  BY ConcatProperties
<1>2. Len(a) \in Nat /\ Len(b) \in Nat
  OBVIOUS
<1> HIDE DEF c
<1>3. ASSUME NEW i \in 1..Len(a) PROVE c[i] = a[i]
  <2>1. i \in 1..(Len(a) + Len(b)) /\ i <= Len(a)
    BY <1>2
  <2> QED BY <1>1, <2>1
<1>4. ASSUME NEW i \in 1..Len(b) PROVE c[Len(a) + i] = b[i]
  <2>1. PICK j \in 1..(Len(a) + Len(b)) : j = Len(a) + i
    BY <1>2
  <2>2. ~(j <= Len(a)) /\ j - Len(a) = i
    BY <1>2, <2>1
  <2> QED BY <1>1, <2>1, <2>2
<1> QED BY <1>1, <1>3, <1>4 DEF c

(* Where the parts of a message are in a sequence that starts with l.      *)
Parts(s, l, h, b) ==
    /\ s \in Seq(Char) /\ Len(s) = Len(l) + Len(h) + 4 + Len(b)
    /\ \A i \in 1..Len(l) : s[i] = l[i]
    /\ \A q \in 1..Len(h) : s[Len(l) + q] = h[q]
    /\ s[Len(l) + Len(h) + 1] = CR /\ s[Len(l) + Len(h) + 2] = LF
    /\ s[Len(l) + Len(h) + 3] = CR /\ s[Len(l) + Len(h) + 4] = LF
    /\ \A q \in 1..Len(b) : s[Len(l) + Len(h) + 4 + q] = b[q]

LEMMA PartsOfMessage ==
    ASSUME NEW l \in Seq(Char), NEW h \in Seq(Char), NEW b \in Seq(Char)
    PROVE  Parts(l \o (h \o BlankLine \o b), l, h, b)
<1> DEFINE s == l \o (h \o BlankLine \o b)
<1>1. Len(h) \in Nat /\ Len(b) \in Nat /\ Len(l) \in Nat
  OBVIOUS
<1>2. /\ BlankLine \in Seq(Char) /\ Len(BlankLine) = 4
      /\ BlankLine[1] = CR /\ BlankLine[2] = LF
      /\ BlankLine[3] = CR /\ BlankLine[4] = LF
  BY Terminators DEF BlankLine
<1>3. PICK x, w : x = h \o BlankLine /\ w = x \o b
  OBVIOUS
<1>4. /\ x \in Seq(Char) /\ Len(x) = Len(h) + Len(BlankLine)
      /\ \A i \in 1..Len(h) : x[i] = h[i]
      /\ \A i \in 1..Len(BlankLine) : x[Len(h) + i] = BlankLine[i]
  <2>1. h \in Seq(Char) /\ BlankLine \in Seq(Char)
    BY <1>2
  <2>2. /\ h \o BlankLine \in Seq(Char)
        /\ Len(h \o BlankLine) = Len(h) + Len(BlankLine)
        /\ \A i \in 1..Len(h) : (h \o BlankLine)[i] = h[i]
        /\ \A i \in 1..Len(BlankLine) :
              (h \o BlankLine)[Len(h) + i] = BlankLine[i]
    BY <2>1, ConcatAt, Zenon
  <2> QED BY <1>3, <2>2, Zenon
<1>5. /\ w \in Seq(Char) /\ Len(w) = Len(x) + Len(b)
      /\ \A i \in 1..Len(x) : w[i] = x[i]
      /\ \A i \in 1..Len(b) : w[Len(x) + i] = b[i]
  BY <1>1, <1>3, <1>4, ConcatAt
<1>6. s = l \o w
  BY <1>3
<1> HIDE DEF s
<1>7. /\ s \in Seq(Char) /\ Len(s) = Len(l) + Len(w)
      /\ \A i \in 1..Len(l) : s[i] = l[i]
      /\ \A i \in 1..Len(w) : s[Len(l) + i] = w[i]
  <2>1. /\ l \o w \in Seq(Char) /\ Len(l \o w) = Len(l) + Len(w)
        /\ \A i \in 1..Len(l) : (l \o w)[i] = l[i]
        /\ \A i \in 1..Len(w) : (l \o w)[Len(l) + i] = w[i]
    <3>1. w \in Seq(Char)
      BY <1>5
    <3> QED BY <3>1, ConcatAt
  <2> QED BY <1>6, <2>1
<1>8. Len(x) = Len(h) + 4 /\ Len(w) = Len(h) + 4 + Len(b)
  BY <1>2, <1>4, <1>5
<1>9. ASSUME NEW q \in 1..(Len(h) + 4) PROVE s[Len(l) + q] = x[q]
  <2>1. q \in 1..Len(x) /\ q \in 1..Len(w)
    BY <1>1, <1>8
  <2> QED BY <1>5, <1>7, <2>1
<1>10. ASSUME NEW q \in 1..Len(h) PROVE s[Len(l) + q] = h[q]
  <2>1. q \in 1..(Len(h) + 4)
    BY <1>1
  <2> QED BY <1>4, <1>9, <2>1
<1>11. ASSUME NEW j \in 1..4 PROVE s[Len(l) + Len(h) + j] = BlankLine[j]
  <2>1. PICK q \in 1..(Len(h) + 4) : q = Len(h) + j
    BY <1>1
  <2>2. Len(l) + q = Len(l) + Len(h) + j
    BY <1>1, <2>1
  <2>3. x[q] = BlankLine[j]
    BY <1>2, <1>4, <2>1
  <2> QED BY <1>9, <2>2, <2>3
<1>12. /\ s[Len(l) + Len(h) + 1] = CR /\ s[Len(l) + Len(h) + 2] = LF
       /\ s[Len(l) + Len(h) + 3] = CR /\ s[Len(l) + Len(h) + 4] = LF
  <2>1. 1 \in 1..4 /\ 2 \in 1..4 /\ 3 \in 1..4 /\ 4 \in 1..4
    OBVIOUS
  <2> QED BY <1>2, <1>11, <2>1, Zenon
<1>13. Len(s) = Len(l) + Len(h) + 4 + Len(b)
  BY <1>1, <1>7, <1>8
<1>14. ASSUME NEW q \in 1..Len(b) PROVE s[Len(l) + Len(h) + 4 + q] = b[q]
  <2>1. PICK i \in 1..Len(w) : i = Len(x) + q
    BY <1>1, <1>8
  <2>2. Len(l) + Len(h) + 4 + q = Len(l) + i
    BY <1>1, <1>8, <2>1
  <2>3. w[i] = b[q]
    BY <1>5, <2>1
  <2> QED BY <1>7, <2>1, <2>2, <2>3
<1>15. Parts(s, l, h, b)
  BY <1>7, <1>10, <1>12, <1>13, <1>14 DEF Parts
<1> QED BY <1>15 DEF s

(* What is left of a body has no line end, and the length of the next body *)
(* is found behind it.                                                     *)
LEMMA LeftIs ==
    ASSUME TypeOK, Counts
    PROVE  /\ Left \in Seq(Char) /\ Len(Left) \in Nat
           /\ NoLineEnd(Left)
           /\ Left \in Suffixes(BodyBefore(Len(received) + 1))
<1>1. CASE received = <<>>
  <2>1. Left = <<>> /\ Len(received) + 1 = 1
    BY <1>1, ReceivedTyped DEF Left
  <2>2. Left \in Seq(Char) /\ Len(Left) = 0
    BY <2>1
  <2> QED BY <2>1, <2>2, EmptySeq DEF Suffixes, NoLineEnd
<1>2. CASE received # <<>>
  <2>1. PICK n \in 1..Len(Messages) : n = Len(received) /\ n \in 1..Len(received)
    BY <1>2, ReceivedTyped DEF Counts
  <2>2. PICK s, m : s = Messages[n].body /\ m = Len(received[n].body)
    OBVIOUS
  <2>3. s \in Seq(Char) /\ Len(s) \in Nat /\ m \in Nat
        /\ NoLineEnd(s)
    BY <2>1, <2>2, MessageTyped, ReceivedTyped, Framing
  <2>4. Left = SubSeq(s, m + 1, Len(s))
    BY <1>2, <2>1, <2>2 DEF Left
  <2>5. BodyBefore(Len(received) + 1) = s
    <3>1. n + 1 # 1 /\ n + 1 - 1 = n
      BY <2>1
    <3> QED BY <2>1, <2>2, <3>1 DEF BodyBefore
  <2>6. CASE m <= Len(s)
    <3>1. m \in 0..Len(s)
      BY <2>3, <2>6
    <3>2. /\ Left \in Suffixes(s) /\ Left \in Seq(Char)
          /\ Len(Left) = Len(s) - m
          /\ \A i \in 1..(Len(s) - m) : Left[i] = s[m + i]
      BY <2>3, <2>4, <3>1, SuffixIsSuffix
    <3>3. ASSUME NEW k \in 1..(Len(Left) - 1)
          PROVE  ~(Left[k] = CR /\ Left[k + 1] = LF)
      <4>1. /\ k \in 1..(Len(s) - m) /\ k + 1 \in 1..(Len(s) - m)
            /\ m + k \in 1..(Len(s) - 1) /\ m + (k + 1) = (m + k) + 1
        BY <2>3, <3>1, <3>2
      <4>2. PICK j \in 1..(Len(s) - 1) : j = m + k
        BY <4>1
      <4>3. Left[k] = s[j] /\ Left[k + 1] = s[j + 1]
        BY <3>2, <4>1, <4>2
      <4> QED BY <2>3, <4>3 DEF NoLineEnd
    <3>4. NoLineEnd(Left)
      BY <3>3 DEF NoLineEnd
    <3>5. Len(Left) \in Nat
      BY <3>2
    <3> QED BY <2>5, <3>2, <3>4, <3>5
  <2>7. CASE m > Len(s)
    <3>1. Left = <<>>
      BY <2>3, <2>4, <2>7, SubSeqEmpty
    <3>2. Left \in Seq(Char) /\ Len(Left) = 0
      BY <3>1
    <3> QED BY <2>5, <3>1, <3>2, EmptySeq DEF Suffixes, NoLineEnd
  <2> QED BY <2>3, <2>6, <2>7
<1> QED BY <1>1, <1>2

LEMMA StreamIs ==
    ASSUME TypeOK, Counts,
           NEW l, l = Left, NEW s, s = Stream,
           NEW h, h = Messages[sent].header, NEW b, b = Messages[sent].body
    PROVE  /\ s \in Seq(Char) /\ Len(s) \in Nat
           /\ \A i \in 1..Len(l) : s[i] = l[i]
           /\ sent = Len(received) => s = l
           /\ sent # Len(received) =>
                 /\ sent \in 1..Len(Messages)
                 /\ h \in Seq(Char) /\ Len(h) \in Nat
                 /\ b \in Seq(Char) /\ Len(b) \in Nat
                 /\ Parts(s, l, h, b)
<1>1. l \in Seq(Char) /\ Len(l) \in Nat
  BY LeftIs
<1>2. CASE sent = Len(received)
  BY <1>1, <1>2 DEF Stream
<1>3. CASE sent # Len(received)
  <2>1. PICK k : k = sent
    OBVIOUS
  <2>2. k \in 1..Len(Messages)
    BY <1>3, <2>1, ReceivedTyped DEF Counts
  <2>3. s = l \o Wire(k) /\ Wire(k) = h \o BlankLine \o b
    BY <1>3, <2>1 DEF Stream, Wire
  <2>4. /\ h \in Seq(Char) /\ Len(h) \in Nat /\ h = Messages[k].header
        /\ b \in Seq(Char) /\ Len(b) \in Nat /\ b = Messages[k].body
    BY <2>1, <2>2, MessageTyped
  <2>5. Parts(s, l, h, b)
    <3>1. s = l \o (h \o BlankLine \o b)
      BY <2>3
    <3>2. h \in Seq(Char) /\ b \in Seq(Char) /\ l \in Seq(Char)
      BY <1>1, <2>4
    <3> QED BY <3>1, <3>2, PartsOfMessage, Zenon
  <2>6. s \in Seq(Char) /\ \A i \in 1..Len(l) : s[i] = l[i]
    BY <2>5 DEF Parts
  <2>7. Len(s) \in Nat
    BY <2>6
  <2> QED BY <1>3, <2>1, <2>2, <2>4, <2>5, <2>6, <2>7
<1> QED BY <1>2, <1>3

LEMMA AdvanceIs ==
    ASSUME NEW c
    PROVE  /\ Advance(c) \in 0..4
           /\ Advance(c) = 1 <=> c = CR /\ seqCheck = 0
           /\ Advance(c) = 2 <=> c = LF /\ seqCheck = 1
           /\ Advance(c) = 3 <=> c = CR /\ seqCheck = 2
           /\ Advance(c) = 4 <=> c = LF /\ seqCheck = 3
BY DEF Advance, CR, LF

LEMMA CharsApart == CR # LF /\ CR \notin Letters /\ LF \notin Letters
BY ReaderAssumption DEF CR, LF

(* A blank line stands in the stream only where one was sent.              *)
LEMMA OnlyBlankLine ==
    ASSUME NEW l \in Seq(Char), NEW h \in Seq(Char), NEW b \in Seq(Char), NEW s,
           Parts(s, l, h, b), NoLineEnd(l), NoLineEnd(b),
           h # <<>>, h[1] \in Letters,
           \A k \in 1..Len(h) : h[k] = LF => k < Len(h) /\ h[k + 1] \in Letters,
           NEW i \in Nat, 1 <= i, i + 3 <= Len(s),
           s[i] = CR, s[i + 1] = LF, s[i + 2] = CR, s[i + 3] = LF
    PROVE  i = Len(l) + Len(h) + 1
<1>1. PICK m \in Nat, n \in Nat : m = Len(l) /\ n = Len(h)
  OBVIOUS
<1>2. Len(b) \in Nat /\ n >= 1
  BY <1>1
<1>3. /\ Len(s) = m + n + 4 + Len(b)
      /\ \A k \in 1..m : s[k] = l[k]
      /\ \A k \in 1..n : s[m + k] = h[k]
      /\ s[m + n + 1] = CR /\ s[m + n + 2] = LF
      /\ s[m + n + 3] = CR /\ s[m + n + 4] = LF
      /\ \A k \in 1..Len(b) : s[m + n + 4 + k] = b[k]
  BY <1>1 DEF Parts
<1>4. i + 1 > m
  <2>1. SUFFICES ASSUME i + 1 <= m PROVE FALSE
    BY <1>1
  <2>2. i \in 1..m /\ i + 1 \in 1..m /\ i \in 1..(m - 1)
    BY <2>1
  <2>3. l[i] = CR /\ l[i + 1] = LF
    BY <1>3, <2>2
  <2> QED BY <1>1, <2>2, <2>3 DEF NoLineEnd
<1>5. i + 1 # m + 1
  <2>1. 1 \in 1..n
    BY <1>2
  <2>2. s[m + 1] \in Letters
    BY <1>3, <2>1
  <2> QED BY <2>2, CharsApart
<1>6. i + 1 > m + n
  <2>1. SUFFICES ASSUME i + 1 <= m + n PROVE FALSE
    BY <1>1
  <2>2. PICK k \in 1..n : i + 1 = m + k
    <3>1. i + 1 - m \in 1..n /\ i + 1 = m + (i + 1 - m)
      BY <1>4, <2>1
    <3> QED BY <3>1
  <2>3. h[k] = LF
    BY <1>3, <2>2
  <2>4. k + 1 \in 1..n /\ h[k + 1] \in Letters
    BY <1>1, <2>3
  <2>5. i + 2 = m + (k + 1)
    BY <2>2
  <2>6. s[i + 2] = h[k + 1]
    BY <1>3, <2>4, <2>5
  <2> QED BY <2>4, <2>6, CharsApart
<1>7. i # m + n /\ i # m + n + 2 /\ i # m + n + 4
  BY <1>3, CharsApart
<1>8. i # m + n + 3
  <2>1. SUFFICES ASSUME i = m + n + 3 PROVE FALSE
    OBVIOUS
  <2>2. 1 \in 1..Len(b) /\ 2 \in 1..Len(b) /\ 1 \in 1..(Len(b) - 1)
    BY <1>2, <1>3, <2>1
  <2>3. i + 2 = m + n + 4 + 1 /\ i + 3 = m + n + 4 + 2
    BY <2>1
  <2>4. s[i + 2] = b[1] /\ s[i + 3] = b[2]
    BY <1>3, <2>2, <2>3
  <2>5. b[1] = CR /\ b[1 + 1] = LF
    BY <1>3, <2>4
  <2> QED BY <2>2, <2>5 DEF NoLineEnd
<1>9. i <= m + n + 4
  <2>1. SUFFICES ASSUME i > m + n + 4 PROVE FALSE
    BY <1>1
  <2>2. PICK k \in 1..(Len(b) - 1) : i = m + n + 4 + k
    <3>1. i - (m + n + 4) \in 1..(Len(b) - 1)
          /\ i = m + n + 4 + (i - (m + n + 4))
      BY <1>2, <1>3, <2>1
    <3> QED BY <3>1
  <2>3. /\ k \in 1..Len(b) /\ k + 1 \in 1..Len(b)
        /\ i + 1 = m + n + 4 + (k + 1)
    BY <1>2, <2>2
  <2>4. b[k] = CR /\ b[k + 1] = LF
    BY <1>3, <2>2, <2>3
  <2> QED BY <2>2, <2>4 DEF NoLineEnd
<1>10. i = m + n + 1
  BY <1>6, <1>7, <1>8, <1>9
<1> QED BY <1>1, <1>10

(* seqCheck follows the text: it reaches 4 only where the blank line ends, *)
(* and it does reach it behind a header that does not end in a CR.         *)
LEMMA SeenStep ==
    ASSUME TypeOK, Counts, NEW p \in Nat, NEW c, c = Stream[p + 1],
           p + 1 <= Len(Stream), Seen(Stream, p, seqCheck), InBlankLine(p)
    PROVE  /\ Advance(c) # 4 => Seen(Stream, p + 1, Advance(c))
           /\ Advance(c) = 4 =>
                 /\ sent # Len(received)
                 /\ p = Len(Left) + Len(Messages[sent].header) + 3
           /\ sent # Len(received) /\ ~EndsInCR(sent) /\ Advance(c) # 4 =>
                 LET q == p + 1 - (Len(Left) + Len(Messages[sent].header))
                 IN  q <= 3 /\ (q >= 0 => Advance(c) = q)
<1>1. PICK l, h, b, s : /\ l = Left /\ h = Messages[sent].header
                        /\ b = Messages[sent].body /\ s = Stream
  OBVIOUS
<1>2. /\ s \in Seq(Char) /\ Len(s) \in Nat
      /\ sent = Len(received) => s = l
      /\ sent # Len(received) =>
            /\ sent \in 1..Len(Messages) /\ Len(h) \in Nat /\ h \in Seq(Char)
            /\ b \in Seq(Char) /\ Parts(s, l, h, b)
  BY <1>1, StreamIs
<1>3. l \in Seq(Char) /\ Len(l) \in Nat /\ NoLineEnd(l)
  BY <1>1, LeftIs
<1>4. sent # Len(received) =>
          /\ h # <<>> /\ h[1] \in Letters /\ NoLineEnd(b)
          /\ \A k \in 1..Len(h) :
                h[k] = LF => k < Len(h) /\ h[k + 1] \in Letters
  BY <1>1, <1>2, Framing
<1>5. Seen(s, p, seqCheck) /\ c = s[p + 1] /\ p + 1 <= Len(s)
  BY <1>1
<1>6. Advance(c) # 4 => Seen(s, p + 1, Advance(c))
  <2>1. p + 1 - 1 = p /\ p + 1 - 2 = p - 1 /\ p + 1 >= 1
    OBVIOUS
  <2>2. Advance(c) = 1 => c = CR
    BY AdvanceIs
  <2>3. Advance(c) = 2 => c = LF /\ p >= 1 /\ s[p] = CR
    BY <1>5, AdvanceIs DEF Seen
  <2>4. Advance(c) = 3 => c = CR /\ p >= 2 /\ s[p] = LF /\ s[p - 1] = CR
    BY <1>5, AdvanceIs DEF Seen
  <2>5. Advance(c) \in 0..4
    BY AdvanceIs
  <2> QED BY <1>5, <2>1, <2>2, <2>3, <2>4, <2>5 DEF Seen
<1>7. ASSUME Advance(c) = 4
      PROVE  sent # Len(received) /\ p = Len(l) + Len(h) + 3
  <2>1. /\ p >= 3 /\ c = LF
        /\ s[p] = CR /\ s[p - 1] = LF /\ s[p - 2] = CR
    BY <1>5, <1>7, AdvanceIs DEF Seen
  <2>2. PICK i \in Nat : i = p - 2
    BY <2>1
  <2>3. /\ 1 <= i /\ i + 1 = p - 1 /\ i + 2 = p /\ i + 3 = p + 1
        /\ i + 3 <= Len(s)
    BY <1>5, <2>1, <2>2
  <2>4. s[i] = CR /\ s[i + 1] = LF /\ s[i + 2] = CR /\ s[i + 3] = LF
    BY <1>5, <2>1, <2>2, <2>3
  <2>5. sent # Len(received)
    <3>1. SUFFICES ASSUME s = l PROVE FALSE
      BY <1>2
    <3>2. i \in 1..(Len(l) - 1)
      BY <2>3, <3>1
    <3> QED BY <1>3, <2>4, <3>1, <3>2 DEF NoLineEnd
  <2>6. i = Len(l) + Len(h) + 1
    <3>1. /\ l \in Seq(Char) /\ h \in Seq(Char) /\ b \in Seq(Char)
          /\ Parts(s, l, h, b) /\ NoLineEnd(l) /\ NoLineEnd(b)
          /\ h # <<>> /\ h[1] \in Letters
      BY <1>2, <1>3, <1>4, <2>5
    <3>2. \A k \in 1..Len(h) : h[k] = LF => k < Len(h) /\ h[k + 1] \in Letters
      BY <1>4, <2>5
    <3> QED BY <2>3, <2>4, <3>1, <3>2, OnlyBlankLine
  <2> QED BY <1>2, <1>3, <2>2, <2>5, <2>6
<1>8. ASSUME sent # Len(received), ~EndsInCR(sent), Advance(c) # 4,
             NEW q, q = p + 1 - (Len(l) + Len(h))
      PROVE  q <= 3 /\ (q >= 0 => Advance(c) = q)
  <2>1. PICK m \in Nat, n \in Nat : m = Len(l) /\ n = Len(h)
    BY <1>2, <1>3, <1>8
  <2>2. /\ n >= 1 /\ h \in Seq(Char)
        /\ \A k \in 1..n : s[m + k] = h[k]
        /\ s[m + n + 1] = CR /\ s[m + n + 2] = LF
        /\ s[m + n + 3] = CR /\ s[m + n + 4] = LF
    <3>1. h \in Seq(Char) /\ h # <<>> /\ Parts(s, l, h, b)
      BY <1>2, <1>4, <1>8
    <3>2. n >= 1
      BY <2>1, <3>1
    <3> QED BY <2>1, <3>1, <3>2 DEF Parts
  <2>3. q - 1 <= 3 /\ (q - 1 >= 0 => seqCheck = q - 1)
    <3>1. p - (Len(l) + Len(h)) = q - 1
      BY <1>8, <2>1
    <3> QED BY <1>1, <1>8, <3>1 DEF InBlankLine
  <2>4. q \in Int /\ p + 1 = m + n + q
    BY <1>8, <2>1
  <2>5. CASE q = 0
    <3>1. n \in 1..n /\ p + 1 = m + n
      BY <2>2, <2>4, <2>5
    <3>2. c = h[n]
      BY <1>5, <2>2, <3>1
    <3>3. c # LF
      BY <1>4, <1>8, <2>1, <3>1, <3>2
    <3>4. c # CR
      BY <1>1, <1>8, <2>1, <3>2 DEF EndsInCR
    <3> QED BY <2>5, <3>3, <3>4, AdvanceIs
  <2>6. CASE q = 1
    <3>1. c = CR
      BY <1>5, <2>2, <2>4, <2>6
    <3>2. seqCheck = 0
      BY <2>3, <2>6
    <3> QED BY <2>6, <3>1, <3>2, AdvanceIs
  <2>7. CASE q = 2
    <3>1. c = LF
      BY <1>5, <2>2, <2>4, <2>7
    <3>2. seqCheck = 1
      BY <2>3, <2>7
    <3> QED BY <2>7, <3>1, <3>2, AdvanceIs
  <2>8. CASE q = 3
    <3>1. c = CR
      BY <1>5, <2>2, <2>4, <2>8
    <3>2. seqCheck = 2
      BY <2>3, <2>8
    <3> QED BY <2>8, <3>1, <3>2, AdvanceIs
  <2>9. q # 4
    BY <1>5, <1>8, <2>2, <2>3, <2>4, AdvanceIs
  <2> QED BY <2>3, <2>4, <2>5, <2>6, <2>7, <2>8, <2>9
<1> QED BY <1>1, <1>6, <1>7, <1>8

-----------------------------------------------------------------------------
(* The steps keep FInv.                                                    *)

LEMMA CharAssociative ==
    ASSUME NEW a \in Seq(Char), NEW b \in Seq(Char), NEW c \in Seq(Char)
    PROVE  (a \o b) \o c = a \o (b \o c)
BY ConcatAssociative

LEMMA HeldNow ==
    ASSUME RInv, phase # "failed"
    PROVE  /\ Unread \in Seq(Char) /\ Held \in Seq(Char) /\ Len(Held) \in Nat
           /\ nBytes \in Nat /\ index \in Nat /\ index <= nBytes
           /\ Len(Unread) = nBytes - index /\ Len(Held) = nBytes - index + Len(wire)
           /\ (Unread = <<>> <=> index = nBytes)
           /\ consumed \o Unread \o wire = consumed \o Held
<1>1. TypeOK /\ Bounded
  BY DEF RInv, ReaderInBounds
<1>2. /\ index \in Nat /\ nBytes \in Nat /\ index <= nBytes
      /\ wire \in Seq(Char) /\ Len(wire) \in Nat /\ consumed \in Seq(Char)
      /\ \A i \in 0..(nBytes - 1) : buffer[i] \in Char
  BY <1>1, Terminators DEF TypeOK, Bounded
<1>3. Readable
  BY <1>2 DEF Readable
<1>4. /\ Unread \in Seq(Char) /\ Len(Unread) = nBytes - index
      /\ Held \in Seq(Char) /\ Len(Held) = nBytes - index + Len(wire)
  BY <1>3, HeldIs DEF HeldAt
<1>5. Unread = <<>> <=> index = nBytes
  <2>1. Unread = <<>> <=> Len(Unread) = 0
    BY <1>4
  <2> QED BY <1>2, <1>4, <2>1
<1>6. consumed \o Unread \o wire = consumed \o Held
  BY <1>2, <1>4, CharAssociative DEF Held
<1> QED BY <1>2, <1>4, <1>5, <1>6

(* The same of the next state.                                             *)
LEMMA HeldNowNext ==
    (RInv /\ phase # "failed")' =>
        (/\ Held \in Seq(Char) /\ Len(Held) \in Nat
         /\ Len(Held) = nBytes - index + Len(wire)
         /\ (Unread = <<>> <=> index = nBytes)
         /\ consumed \o Unread \o wire = consumed \o Held)'
<1>1. RInv /\ phase # "failed" =>
        /\ Held \in Seq(Char) /\ Len(Held) \in Nat
        /\ Len(Held) = nBytes - index + Len(wire)
        /\ (Unread = <<>> <=> index = nBytes)
        /\ consumed \o Unread \o wire = consumed \o Held
  BY HeldNow
<1> QED BY <1>1, PTL

(* What has been read of a stream where the blank line is about to end.    *)
HeaderOf(r, s, l, h) ==
    Len(r) = Len(l) + Len(h) + 3 /\ \A i \in 1..Len(r) : r[i] = s[i]

LEMMA HeaderOfParts ==
    ASSUME NEW l \in Seq(Char), NEW h \in Seq(Char), NEW b, NEW s,
           NEW r \in Seq(Char), Parts(s, l, h, b), HeaderOf(r, s, l, h)
    PROVE  r = l \o h \o <<CR, LF, CR>>
<1>1. PICK e, x : e = <<CR, LF, CR>> /\ x = l \o h
  OBVIOUS
<1>2. e \in Seq(Char) /\ Len(e) = 3 /\ e[1] = CR /\ e[2] = LF /\ e[3] = CR
  BY <1>1 DEF Char
<1>3. Len(l) \in Nat /\ Len(h) \in Nat
  OBVIOUS
<1>4. /\ x \in Seq(Char) /\ Len(x) = Len(l) + Len(h)
      /\ \A i \in 1..Len(l) : x[i] = l[i]
      /\ \A i \in 1..Len(h) : x[Len(l) + i] = h[i]
  BY <1>1, ConcatAt
<1>5. /\ x \o e \in Seq(Char) /\ Len(x \o e) = Len(x) + Len(e)
      /\ \A i \in 1..Len(x) : (x \o e)[i] = x[i]
      /\ \A i \in 1..Len(e) : (x \o e)[Len(x) + i] = e[i]
  BY <1>2, <1>4, ConcatAt
<1>6. ASSUME NEW i \in 1..Len(r) PROVE r[i] = (x \o e)[i]
  <2>1. i \in Nat /\ 1 <= i /\ i <= Len(l) + Len(h) + 3
    BY <1>3 DEF HeaderOf
  <2>2. r[i] = s[i]
    BY DEF HeaderOf
  <2>3. CASE i <= Len(l)
    <3>1. i \in 1..Len(l) /\ i \in 1..Len(x)
      BY <1>3, <1>4, <2>1, <2>3
    <3> QED BY <1>4, <1>5, <2>2, <3>1 DEF Parts
  <2>4. CASE i > Len(l) /\ i <= Len(l) + Len(h)
    <3>1. PICK q \in 1..Len(h) : i = Len(l) + q
      <4>1. i - Len(l) \in 1..Len(h)
        BY <1>3, <2>1, <2>4
      <4>2. i = Len(l) + (i - Len(l))
        BY <1>3, <2>1
      <4> QED BY <4>1, <4>2
    <3>2. i \in 1..Len(x)
      BY <1>3, <1>4, <2>1, <2>4
    <3>3. s[i] = h[q]
      BY <3>1 DEF Parts
    <3> QED BY <1>4, <1>5, <2>2, <3>1, <3>2, <3>3
  <2>5. CASE i > Len(l) + Len(h)
    <3>1. PICK q \in 1..3 : i = Len(l) + Len(h) + q
      <4>1. i - (Len(l) + Len(h)) \in 1..3
        BY <1>3, <2>1, <2>5
      <4>2. i = Len(l) + Len(h) + (i - (Len(l) + Len(h)))
        BY <1>3, <2>1
      <4> QED BY <4>1, <4>2
    <3>2. (x \o e)[i] = e[q]
      BY <1>2, <1>4, <1>5, <3>1
    <3>3. s[i] = e[q]
      <4>1. q = 1 \/ q = 2 \/ q = 3
        OBVIOUS
      <4> QED BY <1>2, <3>1, <4>1 DEF Parts
    <3> QED BY <2>2, <3>2, <3>3
  <2>6. i <= Len(l) \/ (i > Len(l) /\ i <= Len(l) + Len(h)) \/ i > Len(l) + Len(h)
    BY <1>3, <2>1
  <2> QED BY <2>3, <2>4, <2>5, <2>6
<1>7. Len(r) = Len(x \o e)
  BY <1>2, <1>3, <1>4, <1>5 DEF HeaderOf
<1> QED BY <1>1, <1>5, <1>6, <1>7, SeqEqual

LEMMA InitFInv == Init => FInv
<1> SUFFICES ASSUME Init PROVE FInv
  OBVIOUS
<1>1. RInv /\ phase = "idle"
  BY InitRInv DEF Init
<1>2. index = nBytes /\ wire = <<>> /\ consumed = <<>> /\ received = <<>>
      /\ sent = 0 /\ Len(received) = 0 /\ ended = FALSE
  BY DEF Init
<1>3. Unread = <<>> /\ Held \in Seq(Char) /\ Len(Held) = 0
  <2>1. nBytes - index = 0 /\ Len(wire) = 0
    BY <1>1, <1>2, HeldNow
  <2> QED BY <1>1, <1>2, <2>1, HeldNow
<1>4. Stream = <<>>
  BY <1>2 DEF Stream, Left
<1>5. Counts /\ HeaderSoFar /\ HeaderRead /\ HeadersInStep
  BY <1>1, <1>2 DEF Counts, HeaderSoFar, HeaderRead, HeadersInStep
<1>6. Pending
  BY <1>1, <1>3, <1>4 DEF Pending, Taken
<1>7. InOrder
  <2>1. Held = <<>> /\ consumed \o Held = <<>>
    BY <1>2, <1>3
  <2>2. Concat[0] = <<>>
    <3>1. 0 \in 0..Len(Messages)
      BY ReaderAssumption
    <3> QED BY <3>1, ConcatDef
  <2> QED BY <1>1, <1>2, <1>3, <2>1, <2>2, HeldNow DEF InOrder
<1> QED BY <1>1, <1>5, <1>6, <1>7 DEF FInv

(* Nothing of the stream is read while received and sent stay as they are. *)
LEMMA StreamStays ==
    ASSUME UNCHANGED <<received, sent>>
    PROVE  /\ Left' = Left /\ Stream' = Stream
           /\ HeadersInStep => HeadersInStep'
<1>1. Left' = Left
  BY DEF Left
<1>2. Stream' = Stream
  BY <1>1 DEF Stream, Wire
<1>3. HeadersInStep => HeadersInStep'
  BY DEF HeadersInStep
<1> QED BY <1>1, <1>2, <1>3

LEMMA ReadHeaderFInv == ASSUME FInv, ReadHeader PROVE FInv'
<1>1. RInv' /\ RInv /\ TypeOK /\ Counts /\ phase = "header"
  BY ReadHeaderRInv DEF FInv, RInv, ReadHeader
<1>2. PICK c \in Char : /\ read_next(c) /\ seqCheck' = Advance(c)
                        /\ IF Advance(c) = 4
                           THEN phase' = "body" /\ raw' = raw
                           ELSE phase' = phase /\ raw' = Append(raw, c)
  BY DEF ReadHeader
<1>3. UNCHANGED <<ended, sent, body, received>>
  BY DEF ReadHeader
<1>4. /\ Held \in Seq(Char) /\ Held' \in Seq(Char)
      /\ Len(Held) > 0 /\ c = Held[1] /\ Len(Held') = Len(Held) - 1
      /\ \A i \in 1..Len(Held') : Held'[i] = Held[i + 1]
  BY <1>1, <1>2, ReadNextTakes
<1>5. /\ Left' = Left /\ Stream' = Stream
      /\ HeadersInStep'
  BY <1>3, StreamStays DEF FInv
<1>6. PICK p \in Nat : p = Len(raw)
  BY <1>1 DEF RInv
<1>7. /\ p + Len(Held) <= Len(Stream)
      /\ ~ended => p + Len(Held) = Len(Stream)
      /\ \A i \in 1..Len(Held) : Held[i] = Stream[p + i]
      /\ \A i \in 1..p : raw[i] = Stream[i]
      /\ Seen(Stream, p, seqCheck) /\ InBlankLine(p)
  BY <1>1, <1>6 DEF FInv, Pending, HeaderSoFar, Taken
<1>8. Stream \in Seq(Char) /\ Len(Stream) \in Nat /\ Len(Held) \in Nat
      /\ Left \in Seq(Char) /\ Len(Left) \in Nat
  BY <1>1, <1>4, StreamIs, LeftIs
<1>9. p + 1 <= Len(Stream) /\ c = Stream[p + 1]
  BY <1>4, <1>7, <1>8
<1>10. /\ Advance(c) # 4 => Seen(Stream, p + 1, Advance(c))
       /\ Advance(c) = 4 =>
             /\ sent # Len(received)
             /\ p = Len(Left) + Len(Messages[sent].header) + 3
       /\ sent # Len(received) /\ ~EndsInCR(sent) /\ Advance(c) # 4 =>
             LET q == p + 1 - (Len(Left) + Len(Messages[sent].header))
             IN  q <= 3 /\ (q >= 0 => Advance(c) = q)
  BY <1>1, <1>7, <1>9, SeenStep
<1>11. Counts'
  <2>1. Advance(c) = 4 => sent = Len(received) + 1
    BY <1>1, <1>10, ReceivedTyped DEF Counts
  <2> QED BY <1>1, <1>2, <1>3, <2>1 DEF Counts
<1>12. \A i \in 1..Len(Held') : Held'[i] = Stream[(p + 1) + i]
  <2>1. ASSUME NEW i \in 1..Len(Held') PROVE Held'[i] = Stream[(p + 1) + i]
    <3>1. PICK j \in 1..Len(Held) : j = i + 1
      BY <1>4, <1>8
    <3>2. (p + 1) + i = p + j
      BY <3>1
    <3> QED BY <1>4, <1>7, <3>1, <3>2
  <2> QED BY <2>1
<1>13. Taken' = p + 1
  <2>1. CASE Advance(c) = 4
    <3>1. body' = <<>> /\ Len(body') = 0
      BY <1>1, <1>3 DEF FInv, HeaderSoFar
    <3>2. phase' = "body" /\ Len(raw') = p
      BY <1>2, <1>6, <2>1
    <3>3. Taken' = p + 1
      BY <3>1, <3>2 DEF Taken
    <3> QED BY <3>3
  <2>2. CASE Advance(c) # 4
    <3>1. phase' = "header" /\ raw' = Append(raw, c) /\ raw \in Seq(Char)
      BY <1>1, <1>2, <2>2 DEF RInv
    <3>2. Taken' = p + 1
      BY <1>6, <3>1 DEF Taken
    <3> QED BY <3>2
  <2> QED BY <2>1, <2>2
<1>14. Pending'
  <2>1. Taken' + Len(Held') = p + Len(Held)
    BY <1>4, <1>8, <1>13
  <2> QED BY <1>3, <1>5, <1>7, <1>12, <1>13, <2>1 DEF Pending
<1>15. HeaderSoFar'
  <2>1. SUFFICES ASSUME phase' = "header" PROVE HeaderSoFar'
    BY DEF HeaderSoFar
  <2>2. Advance(c) # 4 /\ raw' = Append(raw, c)
    BY <1>2, <2>1
  <2>3. raw \in Seq(Char) /\ Len(raw') = p + 1
        /\ \A i \in 1..(p + 1) : raw'[i] = IF i = p + 1 THEN c ELSE raw[i]
    BY <1>1, <1>6, <2>2 DEF RInv
  <2>4. ASSUME NEW i \in 1..Len(raw') PROVE raw'[i] = Stream'[i]
    <3>1. i \in 1..(p + 1) /\ (i # p + 1 => i \in 1..p)
      BY <2>3
    <3> QED BY <1>5, <1>7, <1>9, <2>3, <3>1
  <2>5. Seen(Stream', Len(raw'), seqCheck')
    BY <1>2, <1>5, <1>10, <2>2, <2>3
  <2>6. InBlankLine(Len(raw))'
    <3>1. CASE sent # Len(received) /\ ~EndsInCR(sent)
      <4>1. PICK n \in Nat : n = Len(Left) + Len(Messages[sent].header)
        <5>1. Len(Messages[sent].header) \in Nat
          BY <1>1, <3>1, StreamIs
        <5> QED BY <1>8, <5>1
      <4>2. p + 1 - n <= 3 /\ (p + 1 - n >= 0 => Advance(c) = p + 1 - n)
        BY <1>10, <2>2, <3>1, <4>1
      <4>3. /\ Len(Left') + Len(Messages[sent'].header) = n
            /\ Len(raw') = p + 1 /\ seqCheck' = Advance(c)
        BY <1>2, <1>3, <1>5, <2>3, <4>1
      <4>4. PICK q \in Int : q = (p + 1) - n
        OBVIOUS
      <4>5. Len(raw') - (Len(Left') + Len(Messages[sent'].header)) = q
        BY <4>3, <4>4, Zenon
      <4>6. q <= 3 /\ (q >= 0 => seqCheck' = q)
        BY <4>2, <4>3, <4>4
      <4> QED BY <4>5, <4>6 DEF InBlankLine
    <3>2. CASE ~(sent # Len(received) /\ ~EndsInCR(sent))
      <4>1. ~(sent' # Len(received') /\ ~EndsInCR(sent'))
        BY <1>3, <3>2
      <4> QED BY <4>1 DEF InBlankLine
    <3> QED BY <3>1, <3>2
  <2>7. body' = <<>>
    BY <1>1, <1>3 DEF FInv, HeaderSoFar
  <2> QED BY <2>4, <2>5, <2>6, <2>7 DEF HeaderSoFar
<1>16. HeaderRead'
  <2>1. SUFFICES ASSUME phase' = "body" PROVE HeaderRead'
    BY DEF HeaderRead
  <2>2. PICK l, h, b, s : /\ l = Left /\ h = Messages[sent].header
                          /\ b = Messages[sent].body /\ s = Stream
    OBVIOUS
  <2>3. Advance(c) = 4 /\ raw' = raw
    BY <1>1, <1>2, <2>1
  <2>4. /\ sent # Len(received) /\ p = Len(l) + Len(h) + 3
        /\ l \in Seq(Char) /\ h \in Seq(Char) /\ Parts(s, l, h, b)
        /\ \A i \in 1..Len(raw) : raw[i] = s[i]
        /\ raw \in Seq(Char) /\ Len(raw) = Len(l) + Len(h) + 3
    BY <1>1, <1>6, <1>7, <1>8, <1>10, <2>2, <2>3, StreamIs DEF RInv
  <2>5. raw = l \o h \o <<CR, LF, CR>>
    <3>1. PICK r : r = raw
      OBVIOUS
    <3>2. /\ l \in Seq(Char) /\ h \in Seq(Char) /\ Parts(s, l, h, b)
          /\ r \in Seq(Char) /\ HeaderOf(r, s, l, h)
      BY <2>4, <3>1 DEF HeaderOf
    <3>3. r = l \o h \o <<CR, LF, CR>>
      BY <3>2, HeaderOfParts, Zenon
    <3> QED BY <3>1, <3>3
  <2> QED BY <1>3, <1>5, <2>2, <2>3, <2>5 DEF HeaderRead
<1>17. InOrder'
  <2>1. consumed' \o Held' = consumed \o Held
    BY <1>1, <1>2, ReadNextKeepsOrder
  <2>2. phase' # "idle" /\ phase' # "failed"
    BY <1>1, <1>2
  <2>3. consumed' \o Unread' \o wire' = consumed' \o Held'
    BY <1>1, <2>2, HeldNowNext
  <2>4. consumed \o Unread \o wire = consumed \o Held
    BY <1>1, HeldNow
  <2> QED BY <1>3, <2>1, <2>2, <2>3, <2>4 DEF FInv, InOrder
<1> QED BY <1>1, <1>5, <1>11, <1>14, <1>15, <1>16, <1>17 DEF FInv

(* The body ends where the Content-Length of the header says it does.      *)
LEMMA BodyLength ==
    ASSUME FInv, phase = "body"
    PROVE  /\ contentLength = Len(Messages[sent].body)
           /\ sent \in 1..Len(Messages) /\ sent = Len(received) + 1
           /\ Len(raw) = Len(Left) + Len(Messages[sent].header) + 3
           /\ Len(Stream) = Len(raw) + 1 + Len(Messages[sent].body)
           /\ Len(raw) \in Nat /\ Len(Messages[sent].body) \in Nat
           /\ Messages[sent].body \in Seq(Char)
           /\ \A q \in 1..Len(Messages[sent].body) :
                 Stream[Len(raw) + 1 + q] = Messages[sent].body[q]
<1>1. TypeOK /\ Counts /\ raw = Left \o Messages[sent].header \o <<CR, LF, CR>>
      /\ sent = Len(received) + 1
  BY DEF FInv, RInv, HeaderRead, Counts
<1>2. PICK l, h, b, s : /\ l = Left /\ h = Messages[sent].header
                        /\ b = Messages[sent].body /\ s = Stream
  OBVIOUS
<1>3. /\ sent # Len(received) /\ sent \in 1..Len(Messages)
      /\ h \in Seq(Char) /\ Len(h) \in Nat /\ b \in Seq(Char) /\ Len(b) \in Nat
      /\ Parts(s, l, h, b)
  BY <1>1, <1>2, ReceivedTyped, StreamIs
<1>4. l \in Seq(Char) /\ Len(l) \in Nat /\ l \in Suffixes(BodyBefore(sent))
  BY <1>1, <1>2, LeftIs
<1>5. LengthIn(l \o h \o <<CR, LF, CR>>) = Len(b)
  BY <1>2, <1>3, <1>4, Framing
<1>6. Len(raw) = Len(l) + Len(h) + 3
  <2>1. PICK e, x : e = <<CR, LF, CR>> /\ x = l \o h
    OBVIOUS
  <2>2. e \in Seq(Char) /\ Len(e) = 3
    BY <2>1 DEF Char
  <2>3. x \in Seq(Char) /\ Len(x) = Len(l) + Len(h)
    BY <1>3, <1>4, <2>1, ConcatAt
  <2>4. Len(x \o e) = Len(x) + Len(e)
    BY <2>2, <2>3, ConcatAt
  <2> QED BY <1>1, <1>2, <2>1, <2>2, <2>3, <2>4
<1>7. Len(s) = Len(l) + Len(h) + 4 + Len(b)
      /\ \A q \in 1..Len(b) : s[Len(l) + Len(h) + 4 + q] = b[q]
  BY <1>3 DEF Parts
<1>8. Len(raw) \in Nat /\ Len(raw) + 1 = Len(l) + Len(h) + 4
  BY <1>3, <1>4, <1>6
<1>9. \A q \in 1..Len(b) : s[Len(raw) + 1 + q] = b[q]
  BY <1>7, <1>8
<1>10. contentLength = Len(b)
  BY <1>1, <1>2, <1>5 DEF contentLength
<1>11. Len(s) = Len(raw) + 1 + Len(b)
  BY <1>7, <1>8
<1> QED BY <1>1, <1>2, <1>3, <1>6, <1>8, <1>9, <1>10, <1>11

LEMMA ReadBodyFInv == ASSUME FInv, ReadBody PROVE FInv'
<1>1. RInv' /\ RInv /\ TypeOK /\ Counts /\ phase = "body" /\ phase' = "body"
  BY ReadBodyRInv DEF FInv, RInv, ReadBody
<1>2. PICK c \in Char : read_next(c) /\ body' = Append(body, c)
  BY DEF ReadBody
<1>3. UNCHANGED <<ended, sent, phase, raw, received>>
  BY DEF ReadBody
<1>4. /\ Held \in Seq(Char) /\ Held' \in Seq(Char)
      /\ Len(Held) > 0 /\ c = Held[1] /\ Len(Held') = Len(Held) - 1
      /\ \A i \in 1..Len(Held') : Held'[i] = Held[i + 1]
  BY <1>1, <1>2, ReadNextTakes
<1>5. /\ Left' = Left /\ Stream' = Stream /\ HeadersInStep'
  BY <1>3, StreamStays DEF FInv
<1>6. PICK p \in Nat : p = Taken
  BY <1>1 DEF RInv, TypeOK, Taken
<1>7. /\ p + Len(Held) <= Len(Stream)
      /\ ~ended => p + Len(Held) = Len(Stream)
      /\ \A i \in 1..Len(Held) : Held[i] = Stream[p + i]
  BY <1>1, <1>6 DEF FInv, Pending
<1>8. Taken' = p + 1
  <2>1. body \in Seq(Char) /\ Len(body') = Len(body) + 1 /\ Len(body) \in Nat
        /\ Len(raw) \in Nat
    BY <1>1, <1>2 DEF TypeOK
  <2> QED BY <1>1, <1>3, <1>6, <2>1 DEF Taken
<1>9. Len(Held) \in Nat /\ Len(Stream) \in Nat
  BY <1>1, <1>4, StreamIs
<1>10. \A i \in 1..Len(Held') : Held'[i] = Stream[(p + 1) + i]
  <2>1. ASSUME NEW i \in 1..Len(Held') PROVE Held'[i] = Stream[(p + 1) + i]
    <3>1. PICK j \in 1..Len(Held) : j = i + 1
      BY <1>4, <1>9
    <3>2. (p + 1) + i = p + j
      BY <3>1
    <3> QED BY <1>4, <1>7, <3>1, <3>2
  <2> QED BY <2>1
<1>11. Pending'
  <2>1. Taken' + Len(Held') = p + Len(Held)
    BY <1>4, <1>8, <1>9
  <2> QED BY <1>3, <1>5, <1>7, <1>8, <1>10, <2>1 DEF Pending
<1>12. Counts' /\ HeaderSoFar' /\ HeaderRead'
  BY <1>1, <1>3, <1>5 DEF Counts, HeaderSoFar, HeaderRead, FInv
<1>13. InOrder'
  <2>1. consumed' \o Held' = consumed \o Held
    BY <1>1, <1>2, ReadNextKeepsOrder
  <2>2. consumed' \o Unread' \o wire' = consumed' \o Held'
    BY <1>1, HeldNowNext
  <2>3. consumed \o Unread \o wire = consumed \o Held
    BY <1>1, HeldNow
  <2> QED BY <1>1, <1>3, <2>1, <2>2, <2>3 DEF FInv, InOrder
<1> QED BY <1>1, <1>5, <1>11, <1>12, <1>13 DEF FInv

LEMMA FinishMessageFInv == ASSUME FInv, FinishMessage PROVE FInv'
<1>1. RInv' /\ RInv /\ TypeOK /\ Counts /\ Bounded
      /\ phase = "body" /\ phase' = "idle"
  BY FinishMessageRInv DEF FInv, RInv, ReaderInBounds, FinishMessage
<1>2. /\ received' = Append(received, [header |-> raw, body |-> body])
      /\ UNCHANGED <<wire, ended, sent, buffer, index, nBytes, raw, body, consumed>>
  BY DEF FinishMessage, reader
<1>3. PICK n \in Nat, b \in Seq(Char) : n = Len(received) /\ b = Messages[sent].body
  <2>1. Len(received) \in Nat /\ Messages[sent].body \in Seq(Char)
    BY <1>1, ReceivedTyped, BodyLength
  <2> QED BY <2>1
<1>4. /\ contentLength = Len(b) /\ sent = n + 1 /\ sent \in 1..Len(Messages)
      /\ Len(Stream) = Len(raw) + 1 + Len(b)
      /\ Len(raw) \in Nat /\ Len(b) \in Nat /\ b \in Seq(Char)
      /\ \A q \in 1..Len(b) : Stream[Len(raw) + 1 + q] = b[q]
  BY <1>1, <1>3, BodyLength
<1>5. PICK m \in Nat, p \in Nat : m = Len(body) /\ p = Len(raw) + 1 + m
  <2>1. Len(body) \in Nat
    BY <1>1 DEF TypeOK
  <2> QED BY <1>4, <2>1
<1>6. /\ p + Len(Held) <= Len(Stream)
      /\ ~ended => p + Len(Held) = Len(Stream)
      /\ \A i \in 1..Len(Held) : Held[i] = Stream[p + i]
  BY <1>1, <1>5 DEF FInv, Pending, Taken
<1>7. /\ Len(Held) \in Nat /\ nBytes \in Nat /\ index \in Nat /\ index <= nBytes
      /\ Len(Held) = nBytes - index + Len(wire) /\ Len(wire) \in Nat
      /\ wire \in Seq(Char)
  BY <1>1, HeldNow DEF TypeOK
<1>8. m <= Len(b)
  BY <1>4, <1>5, <1>6, <1>7
<1>9. index = nBytes
  <2>1. CASE m = Len(b)
    BY <1>4, <1>5, <1>6, <1>7, <2>1
  <2>2. CASE eos
    <3>1. CASE index < nBytes
      <4>1. index \in 0..(nBytes - 1)
        BY <1>7, <3>1
      <4>2. buffer[index] # NUL
        BY <1>1, <4>1, Terminators DEF Bounded
      <4>3. index # BufferSize - 1
        BY <1>1, <1>7, <3>1, Terminators DEF Bounded
      <4> QED BY <2>2, <4>2, <4>3 DEF eos
    <3> QED BY <1>7, <3>1
  <2> QED BY <1>4, <1>5, <2>1, <2>2 DEF FinishMessage
<1>10. Unread = <<>> /\ Held = wire /\ Held' = wire /\ Unread' = <<>>
  <2>1. Unread = <<>>
    BY <1>1, <1>9, HeldNow
  <2>2. Held = wire
    BY <1>7, <2>1, ConcatEmptySeq DEF Held
  <2>3. Unread' = Unread /\ Held' = Held
    BY <1>2 DEF Unread, Held
  <2> QED BY <2>1, <2>2, <2>3
<1>11. /\ Len(received') = n + 1
       /\ received'[n + 1] = [header |-> raw, body |-> body]
       /\ \A i \in 1..n : received'[i] = received[i]
       /\ DOMAIN received' = 1..(n + 1) /\ DOMAIN received = 1..n
  BY <1>2, <1>3, <1>1 DEF TypeOK
<1>12. Left' = SubSeq(b, m + 1, Len(b)) /\ Stream' = Left'
  <2>1. received' # <<>>
    BY <1>11, <1>3
  <2>2. Left' = SubSeq(Messages[n + 1].body, Len(body) + 1,
                       Len(Messages[n + 1].body))
    BY <1>11, <2>1 DEF Left
  <2>3. Left' = SubSeq(b, m + 1, Len(b))
    BY <1>3, <1>4, <1>5, <2>2
  <2>4. sent' = Len(received')
    BY <1>2, <1>4, <1>11
  <2> QED BY <2>3, <2>4 DEF Stream
<1>13. Len(Left') = Len(b) - m /\ \A i \in 1..(Len(b) - m) : Left'[i] = b[m + i]
  <2>1. m \in 0..Len(b)
    BY <1>4, <1>8
  <2>2. /\ Len(SubSeq(b, m + 1, Len(b))) = Len(b) - m
        /\ \A i \in 1..(Len(b) - m) : SubSeq(b, m + 1, Len(b))[i] = b[m + i]
    BY <1>4, <2>1, SuffixIsSuffix
  <2> QED BY <1>12, <2>2
<1>14. Pending'
  <2>1. Taken' = 0 /\ Taken' + Len(Held') = Len(Held)
    BY <1>1, <1>7, <1>10 DEF Taken
  <2>2. Len(Held) <= Len(b) - m /\ (~ended => Len(Held) = Len(b) - m)
    <3>1. Len(raw) + 1 + m + Len(Held) <= Len(raw) + 1 + Len(b)
          /\ (~ended => Len(raw) + 1 + m + Len(Held) = Len(raw) + 1 + Len(b))
      BY <1>4, <1>5, <1>6
    <3>2. Len(raw) \in Nat /\ Len(b) \in Nat /\ Len(Held) \in Nat
      BY <1>4, <1>7
    <3> QED BY <3>1, <3>2
  <2>3. ASSUME NEW i \in 1..Len(Held) PROVE Held[i] = b[m + i]
    <3>1. PICK q \in 1..Len(b) : q = m + i
      BY <1>4, <1>7, <2>2
    <3>2. p + i = Len(raw) + 1 + q
      BY <1>4, <1>5, <3>1
    <3> QED BY <1>4, <1>6, <3>1, <3>2
  <2>4. ASSUME NEW i \in 1..Len(Held') PROVE Held'[i] = Stream'[Taken' + i]
    <3>1. i \in 1..Len(Held) /\ i \in 1..(Len(b) - m) /\ 0 + i = i
      BY <1>4, <1>7, <1>10, <2>2
    <3>2. Held'[i] = b[m + i] /\ Left'[i] = b[m + i]
      BY <1>10, <1>13, <2>3, <3>1
    <3> QED BY <1>12, <2>1, <3>1, <3>2
  <2> QED BY <1>2, <1>12, <1>13, <2>1, <2>2, <2>4 DEF Pending
<1>15. Counts' /\ HeaderSoFar' /\ HeaderRead'
  BY <1>1, <1>2, <1>4, <1>11 DEF Counts, HeaderSoFar, HeaderRead
<1>16. InOrder'
  BY <1>1, <1>2, <1>10 DEF FInv, InOrder, Unread
<1>17. HeadersInStep'
  <2>1. SUFFICES ASSUME NEW i \in 1..(n + 1),
                        \A j \in 1..(i - 1) :
                            received'[j].body = Messages[j].body
                 PROVE  received'[i].header
                            = Messages[i].header \o <<CR, LF, CR>>
    BY <1>11 DEF HeadersInStep
  <2>2. CASE i \in 1..n
    <3>1. \A j \in 1..(i - 1) : received[j].body = Messages[j].body
      BY <1>11, <2>1, <2>2
    <3>2. received[i].header = Messages[i].header \o <<CR, LF, CR>>
      BY <1>11, <2>2, <3>1 DEF FInv, HeadersInStep
    <3> QED BY <1>11, <2>2, <3>2
  <2>3. CASE i = n + 1
    <3>1. received'[i].header = raw
      BY <1>11, <2>3
    <3>2. raw = Left \o Messages[sent].header \o <<CR, LF, CR>>
      BY <1>1 DEF FInv, HeaderRead
    <3>3. Left = <<>>
      <4>1. CASE n = 0
        BY <1>1, <1>3, <4>1, ReceivedTyped DEF Left
      <4>2. CASE n # 0
        <5>1. n \in 1..(i - 1) /\ n \in 1..n /\ n \in 1..Len(Messages)
          BY <1>4, <2>3, <4>2
        <5>2. received[n].body = Messages[n].body
          BY <1>11, <2>1, <5>1
        <5>3. Left = SubSeq(Messages[n].body, Len(Messages[n].body) + 1,
                            Len(Messages[n].body))
          BY <1>1, <1>3, <4>2, <5>2, ReceivedTyped DEF Left
        <5>4. Len(Messages[n].body) \in Nat
          BY <5>1, MessageTyped
        <5> QED BY <5>3, <5>4, SubSeqEmpty
      <4> QED BY <4>1, <4>2
    <3>4. Left \o Messages[sent].header = Messages[sent].header
      BY <1>4, <3>3, MessageTyped, ConcatEmptySeq
    <3> QED BY <1>4, <2>3, <3>1, <3>2, <3>4
  <2>4. i \in 1..n \/ i = n + 1
    BY <2>1
  <2> QED BY <2>2, <2>3, <2>4
<1> QED BY <1>1, <1>14, <1>15, <1>16, <1>17 DEF FInv

LEMMA HeaderNotEmpty ==
    ASSUME TypeOK, Counts, sent # Len(received)
    PROVE  Len(Messages[sent].header) >= 1
<1>1. PICK k, h : k = sent /\ h = Messages[sent].header
  OBVIOUS
<1>2. k \in 1..Len(Messages)
  BY <1>1, ReceivedTyped DEF Counts
<1>3. h # <<>> /\ h \in Seq(Char)
  BY <1>1, <1>2, Framing, MessageTyped
<1> QED BY <1>1, <1>3

LEMMA StartMessageFInv == ASSUME FInv, StartMessage PROVE FInv'
<1>1. RInv' /\ RInv /\ TypeOK /\ Counts /\ phase = "idle" /\ phase' = "header"
  BY StartMessageRInv DEF FInv, RInv, StartMessage
<1>2. /\ index' = 0 /\ nBytes' = 0 /\ seqCheck' = 0 /\ raw' = <<>> /\ body' = <<>>
      /\ UNCHANGED <<wire, ended, sent, received, consumed>>
  BY DEF StartMessage
<1>3. Unread = <<>> /\ Held = wire
  <2>1. Unread = <<>>
    BY <1>1 DEF FInv, InOrder
  <2> QED BY <1>1, <2>1, ConcatEmptySeq DEF Held, TypeOK
<1>4. Unread' = <<>> /\ Held' = Held
  <2>1. Unread' = <<>>
    BY <1>1, <1>2, HeldNowNext
  <2>2. Held' = <<>> \o wire
    BY <1>2, <2>1 DEF Held
  <2> QED BY <1>1, <1>3, <2>1, <2>2, ConcatEmptySeq DEF TypeOK
<1>5. /\ Left' = Left /\ Stream' = Stream /\ HeadersInStep'
  BY <1>2, StreamStays DEF FInv
<1>6. Taken = 0 /\ Taken' = 0 /\ Len(raw') = 0
  BY <1>1, <1>2 DEF Taken
<1>7. Pending' /\ Counts' /\ HeaderRead'
  BY <1>1, <1>2, <1>4, <1>5, <1>6 DEF FInv, Pending, Counts, HeaderRead
<1>8. HeaderSoFar'
  <2>1. Len(Left) \in Nat /\ (sent # Len(received) =>
            Len(Messages[sent].header) \in Nat)
    BY <1>1, LeftIs, StreamIs
  <2>2. Seen(Stream', Len(raw'), seqCheck')
    BY <1>2, <1>6 DEF Seen
  <2>3. InBlankLine(Len(raw))'
    <3>1. sent # Len(received) => Len(Messages[sent].header) >= 1
      BY <1>1, HeaderNotEmpty
    <3> QED BY <1>2, <1>5, <1>6, <2>1, <3>1 DEF InBlankLine
  <2> QED BY <1>2, <1>6, <2>2, <2>3 DEF HeaderSoFar
<1>9. InOrder'
  BY <1>1, <1>2, <1>3, <1>4 DEF FInv, InOrder
<1> QED BY <1>1, <1>5, <1>7, <1>8, <1>9 DEF FInv

LEMMA ReadStopsFInv == ASSUME FInv, ReadEnd \/ ReadFails PROVE FInv'
<1>1. RInv'
  BY ReadEndRInv, ReadFailsRInv DEF FInv
<1>2. /\ ended /\ ended' /\ phase' \in {"closed", "failed"}
      /\ UNCHANGED <<sent, received>>
  BY DEF ReadEnd, ReadFails
<1>3. HeadersInStep'
  BY <1>2, StreamStays DEF FInv
<1>4. Counts' /\ Pending' /\ HeaderSoFar' /\ HeaderRead' /\ InOrder'
  BY <1>2 DEF FInv, Counts, Pending, HeaderSoFar, HeaderRead, InOrder
<1> QED BY <1>1, <1>3, <1>4 DEF FInv

LEMMA PeerEndsFInv == ASSUME FInv, PeerEnds PROVE FInv'
<1>1. RInv' /\ RInv /\ TypeOK /\ Counts /\ ~ended /\ ended'
      /\ UNCHANGED <<sent, phase, seqCheck, raw, body, received, consumed>>
      /\ UNCHANGED <<buffer, index, nBytes>>
  BY PeerRInv DEF FInv, RInv, PeerEnds, reader
<1>2. PICK n \in 0..Len(wire) : wire' = SubSeq(wire, 1, n)
  BY DEF PeerEnds
<1>3. /\ Left' = Left /\ Stream' = Stream /\ HeadersInStep'
  BY <1>1, StreamStays DEF FInv
<1>4. Unread' = Unread /\ Taken' = Taken
  BY <1>1 DEF Unread, Taken
<1>5. Pending'
  <2>1. SUFFICES ASSUME phase \in {"idle", "header", "body"} PROVE Pending'
    BY <1>1 DEF Pending
  <2>2. /\ Unread \in Seq(Char) /\ wire \in Seq(Char) /\ wire' \in Seq(Char)
        /\ Len(wire) \in Nat /\ Len(Unread) \in Nat
    <3>1. Unread \in Seq(Char)
      <4>1. RInv /\ phase # "failed"
        BY <1>1, <2>1
      <4> QED BY <4>1, HeldNow
    <3>2. wire \in Seq(Char) /\ wire' \in Seq(Char)
      BY <1>1 DEF RInv, TypeOK
    <3> QED BY <3>1, <3>2
  <2>3. n \in Nat /\ n <= Len(wire) /\ Len(wire') = n
        /\ \A i \in 1..n : wire'[i] = wire[i]
    BY <1>2, <2>2
  <2>4. /\ Len(Held) = Len(Unread) + Len(wire)
        /\ \A i \in 1..Len(Unread) : Held[i] = Unread[i]
        /\ \A i \in 1..Len(wire) : Held[Len(Unread) + i] = wire[i]
    BY <2>2, ConcatAt DEF Held
  <2>5. /\ Len(Held') = Len(Unread) + Len(wire')
        /\ \A i \in 1..Len(Unread) : Held'[i] = Unread[i]
        /\ \A i \in 1..Len(wire') : Held'[Len(Unread) + i] = wire'[i]
    <3>1. Held' = Unread \o wire'
      BY <1>4 DEF Held
    <3>2. PICK u, w : u = Unread /\ w = wire'
      OBVIOUS
    <3>3. /\ Len(u \o w) = Len(u) + Len(w)
          /\ \A i \in 1..Len(u) : (u \o w)[i] = u[i]
          /\ \A i \in 1..Len(w) : (u \o w)[Len(u) + i] = w[i]
      BY <2>2, <3>2, ConcatAt
    <3> QED BY <3>1, <3>2, <3>3
  <2>6. ASSUME NEW i \in 1..Len(Held')
        PROVE  i \in 1..Len(Held) /\ Held'[i] = Held[i]
    <3>1. CASE i <= Len(Unread)
      <4>1. i \in 1..Len(Unread) /\ i \in 1..Len(Held)
        BY <2>2, <2>4, <3>1
      <4> QED BY <2>4, <2>5, <4>1
    <3>2. CASE i > Len(Unread)
      <4>1. i - Len(Unread) \in 1..n /\ i = Len(Unread) + (i - Len(Unread))
        BY <2>2, <2>3, <2>5, <3>2
      <4>2. PICK j \in 1..n : i = Len(Unread) + j
        BY <4>1
      <4>3. j \in 1..Len(wire) /\ j \in 1..Len(wire') /\ i \in 1..Len(Held)
        BY <2>2, <2>3, <2>4, <4>2
      <4> QED BY <2>3, <2>4, <2>5, <4>2, <4>3
    <3> QED BY <2>2, <2>5, <3>1, <3>2
  <2>7. Len(Held') <= Len(Held)
    BY <2>2, <2>3, <2>4, <2>5
  <2>8. PICK t : t = Taken
    OBVIOUS
  <2>9. /\ t + Len(Held) = Len(Stream)
        /\ \A i \in 1..Len(Held) : Held[i] = Stream[t + i]
    BY <1>1, <2>1, <2>8 DEF FInv, Pending
  <2>10. t \in Nat
    <3>1. Len(raw) \in Nat /\ Len(body) \in Nat
      BY <1>1 DEF TypeOK
    <3> QED BY <2>8, <3>1 DEF Taken
  <2>11. t + Len(Held') <= Len(Stream)
    BY <2>2, <2>3, <2>4, <2>5, <2>9, <2>10
  <2>12. \A i \in 1..Len(Held') : Held'[i] = Stream[t + i]
    BY <2>6, <2>9
  <2> QED BY <1>1, <1>3, <1>4, <2>8, <2>11, <2>12 DEF Pending
<1>6. Counts' /\ HeaderRead' /\ InOrder'
  BY <1>1, <1>3, <1>4 DEF FInv, Counts, HeaderRead, InOrder
<1>7. HeaderSoFar'
  BY <1>1, <1>3 DEF FInv, HeaderSoFar, InBlankLine, EndsInCR
<1> QED BY <1>1, <1>3, <1>5, <1>6, <1>7 DEF FInv

LEMMA PeerSendsFInv == ASSUME FInv, PeerSends PROVE FInv'
<1>1. RInv' /\ RInv /\ TypeOK /\ Counts /\ ~ended
      /\ UNCHANGED <<ended, phase, seqCheck, raw, body, received, consumed>>
      /\ UNCHANGED <<buffer, index, nBytes>>
  BY PeerRInv DEF FInv, RInv, PeerSends, reader
<1>2. PICK n \in Nat, k \in Nat : n = Len(received) /\ k = n + 1
  BY <1>1, ReceivedTyped
<1>3. /\ sent = n /\ sent' = k /\ wire' = wire \o Wire(k) /\ k \in 1..Len(Messages)
      /\ phase \in {"idle", "header"}
  <2>1. sent = n /\ sent' = k /\ wire' = wire \o Wire(k) /\ sent < Len(Messages)
    BY <1>2 DEF PeerSends
  <2>2. phase # "body"
    BY <1>1, <1>2, <2>1 DEF Counts
  <2>3. phase \in {"idle", "header"}
    BY <1>1, <2>2 DEF Counts, TypeOK
  <2>4. k \in 1..Len(Messages)
    BY <1>1, <1>2, <2>1, ReaderAssumption
  <2> QED BY <2>1, <2>3, <2>4
<1>4. /\ Wire(k) \in Seq(Char) /\ Len(Wire(k)) \in Nat
      /\ Left \in Seq(Char) /\ Len(Left) \in Nat
  BY <1>1, <1>3, WireTyped, LeftIs
<1>5. Left' = Left /\ Stream = Left /\ Stream' = Left \o Wire(k)
  <2>1. Left' = Left
    BY <1>1 DEF Left
  <2>2. Stream = Left
    BY <1>2, <1>3 DEF Stream
  <2>3. sent' # Len(received')
    BY <1>1, <1>2, <1>3
  <2> QED BY <1>3, <2>1, <2>2, <2>3 DEF Stream, Wire
<1>6. Unread' = Unread /\ Taken' = Taken
  BY <1>1 DEF Unread, Taken
<1>7. /\ Unread \in Seq(Char) /\ wire \in Seq(Char) /\ Held \in Seq(Char)
      /\ Len(Held) \in Nat
      /\ consumed \in Seq(Char) /\ consumed \o Unread \o wire = consumed \o Held
  BY <1>1, <1>3, HeldNow DEF TypeOK
<1>8. Held' = Held \o Wire(k)
  <2>1. Held' = Unread \o (wire \o Wire(k))
    BY <1>3, <1>6 DEF Held
  <2>2. (Unread \o wire) \o Wire(k) = Unread \o (wire \o Wire(k))
    <3>1. Unread \in Seq(Char) /\ wire \in Seq(Char) /\ Wire(k) \in Seq(Char)
      BY <1>4, <1>7
    <3> QED BY <3>1, CharAssociative, ZenonT(60)
  <2>3. Held = Unread \o wire
    BY DEF Held
  <2> QED BY <2>1, <2>2, <2>3
<1>9. PICK t \in Nat : t = Taken
  BY <1>1 DEF Taken, TypeOK
<1>10. t + Len(Held) = Len(Left) /\ \A i \in 1..Len(Held) : Held[i] = Left[t + i]
  BY <1>1, <1>3, <1>5, <1>9 DEF FInv, Pending
<1>11. PICK s, h, l, w : s = Stream' /\ h = Held' /\ l = Left /\ w = Wire(k)
  OBVIOUS
<1>12. /\ Len(h) = Len(Held) + Len(w)
       /\ \A i \in 1..Len(Held) : h[i] = Held[i]
       /\ \A i \in 1..Len(w) : h[Len(Held) + i] = w[i]
  BY <1>4, <1>7, <1>8, <1>11, ConcatAt
<1>13. /\ Len(s) = Len(l) + Len(w)
       /\ \A i \in 1..Len(l) : s[i] = l[i]
       /\ \A i \in 1..Len(w) : s[Len(l) + i] = w[i]
  BY <1>4, <1>5, <1>11, ConcatAt
<1>14. Pending'
  <2>4. /\ Len(h) = Len(Held) + Len(w) /\ Len(s) = Len(l) + Len(w)
        /\ t + Len(Held) = Len(l) /\ Len(Held) \in Nat /\ Len(w) \in Nat
        /\ Len(l) \in Nat
    <3>1. Len(h) = Len(Held) + Len(w) /\ Len(s) = Len(l) + Len(w)
      BY <1>12, <1>13
    <3>2. t + Len(Held) = Len(l)
      BY <1>10, <1>11
    <3>3. Len(Held) \in Nat /\ Len(w) \in Nat /\ Len(l) \in Nat
      BY <1>4, <1>7, <1>11
    <3> QED BY <3>1, <3>2, <3>3
  <2>1. t + Len(h) = Len(s)
    BY <2>4
  <2>2. ASSUME NEW i \in 1..Len(h) PROVE h[i] = s[t + i]
    <3>1. CASE i <= Len(Held)
      <4>1. i \in 1..Len(Held) /\ t + i \in 1..Len(l)
        BY <1>4, <1>7, <1>10, <1>11, <3>1
      <4> QED BY <1>10, <1>11, <1>12, <1>13, <4>1
    <3>2. CASE i > Len(Held)
      <4>1. i - Len(Held) \in 1..Len(w) /\ i = Len(Held) + (i - Len(Held))
            /\ t + i = Len(l) + (i - Len(Held))
        BY <2>4, <3>2
      <4>2. PICK j \in 1..Len(w) : i = Len(Held) + j /\ t + i = Len(l) + j
        BY <4>1
      <4> QED BY <1>12, <1>13, <4>2
    <3> QED BY <1>7, <3>1, <3>2
  <2>3. t + Len(h) <= Len(s)
    BY <1>4, <1>11, <1>13, <2>1
  <2> QED BY <1>6, <1>9, <1>11, <2>1, <2>2, <2>3 DEF Pending
<1>15. Counts' /\ HeaderRead' /\ HeadersInStep'
  <2>1. Counts'
    BY <1>1, <1>2, <1>3 DEF Counts
  <2>2. HeaderRead'
    BY <1>1, <1>3 DEF HeaderRead
  <2>3. HeadersInStep'
    BY <1>1 DEF FInv, HeadersInStep
  <2> QED BY <2>1, <2>2, <2>3
<1>16. HeaderSoFar'
  <2>1. SUFFICES ASSUME phase = "header" PROVE HeaderSoFar'
    BY <1>1 DEF HeaderSoFar
  <2>2. t = Len(raw) /\ Seen(l, t, seqCheck) /\ body = <<>>
        /\ \A i \in 1..t : raw[i] = l[i]
    BY <1>5, <1>9, <1>11, <2>1 DEF FInv, HeaderSoFar, Taken
  <2>3. t <= Len(l) /\ Len(l) \in Nat
    BY <1>4, <1>7, <1>10, <1>11
  <2>4. Seen(s, t, seqCheck)
    <3>1. \A i \in Nat : i >= 1 /\ i <= t => s[i] = l[i]
      BY <1>13, <2>3
    <3>2. /\ t >= 1 => s[t] = l[t]
          /\ t >= 2 => s[t - 1] = l[t - 1]
          /\ t >= 3 => s[t - 1] = l[t - 1] /\ s[t - 2] = l[t - 2]
      BY <3>1
    <3> QED BY <2>2, <3>2 DEF Seen
  <2>5. \A i \in 1..Len(raw') : raw'[i] = s[i]
    <3>1. \A i \in 1..t : i \in 1..Len(l)
      BY <2>3
    <3> QED BY <1>1, <1>13, <2>2, <3>1
  <2>6. InBlankLine(Len(raw))'
    <3>1. Len(Messages[sent'].header) >= 1 /\ Len(Messages[sent'].header) \in Nat
      <4>1. PICK x : x = Messages[k].header
        OBVIOUS
      <4>2. x # <<>> /\ x \in Seq(Char)
        BY <1>3, <4>1, Framing, MessageTyped
      <4> QED BY <1>3, <4>1, <4>2
    <3>2. PICK m \in Nat, j \in Nat :
              /\ j = Len(Messages[sent'].header) /\ m = Len(Left') /\ j >= 1
      BY <1>4, <1>5, <3>1
    <3>3. Len(raw') = t /\ t <= m
      BY <1>1, <1>5, <1>11, <2>2, <2>3, <3>2
    <3>4. t - (m + j) <= 3 /\ ~(t - (m + j) >= 0)
      BY <3>2, <3>3
    <3> QED BY <3>2, <3>3, <3>4 DEF InBlankLine
  <2> QED BY <1>1, <1>11, <2>2, <2>4, <2>5, <2>6 DEF HeaderSoFar
<1>17. InOrder'
  <2>1. consumed \o Held = Concat[n]
    BY <1>1, <1>3, <1>7 DEF FInv, InOrder
  <2>2. Concat[k] = Concat[n] \o Wire(k)
    <3>1. k \in 0..Len(Messages) /\ k # 0 /\ k - 1 = n
      BY <1>2, <1>3
    <3> QED BY <3>1, ConcatDef
  <2>3. consumed \o Held' = Concat[k]
    <3>1. (consumed \o Held) \o Wire(k) = consumed \o (Held \o Wire(k))
      <4>1. consumed \in Seq(Char) /\ Held \in Seq(Char) /\ Wire(k) \in Seq(Char)
        BY <1>4, <1>7
      <4> QED BY <4>1, CharAssociative, ZenonT(60)
    <3> QED BY <1>8, <2>1, <2>2, <3>1
  <2>4. consumed' \o Unread' \o wire' = consumed' \o Held'
    BY <1>1, <1>3, HeldNowNext
  <2>5. phase' = "idle" => Unread' = <<>>
    BY <1>1, <1>6 DEF FInv, InOrder
  <2> QED BY <1>1, <1>3, <2>3, <2>4, <2>5 DEF InOrder
<1> QED BY <1>1, <1>14, <1>15, <1>16, <1>17 DEF FInv

LEMMA NextFInv == ASSUME FInv, [Next]_vars PROVE FInv'
<1>1. CASE UNCHANGED vars
  <2>1. RInv'
    BY NextRInv DEF FInv
  <2>2. /\ UNCHANGED <<wire, ended, sent, phase, seqCheck, raw, body, received,
                       consumed>>
        /\ UNCHANGED <<buffer, index, nBytes>>
    BY <1>1 DEF vars, reader
  <2>3. Left' = Left /\ Stream' = Stream /\ HeadersInStep'
    BY <2>2, StreamStays DEF FInv
  <2>4. Unread' = Unread /\ Taken' = Taken
    BY <2>2 DEF Unread, Taken
  <2>5. Held' = Held
    BY <2>2, <2>4 DEF Held
  <2>6. Pending' /\ Counts' /\ HeaderRead' /\ InOrder'
    BY <2>2, <2>3, <2>4, <2>5 DEF FInv, Pending, Counts, HeaderRead, InOrder
  <2>7. HeaderSoFar'
    BY <2>2, <2>3 DEF FInv, HeaderSoFar, InBlankLine, EndsInCR
  <2> QED BY <2>1, <2>3, <2>6, <2>7 DEF FInv
<1> QED BY <1>1, PeerSendsFInv, PeerEndsFInv, StartMessageFInv, ReadHeaderFInv,
        ReadStopsFInv, ReadBodyFInv, FinishMessageFInv DEF Next, Read

-----------------------------------------------------------------------------
(* Whatever the size of the buffer, the sizes read() returns and the point *)
(* where the connection ends: the characters read_next() has returned,     *)
(* those in the buffer and those on the way are what was sent, and a       *)
(* reader that is replaced between two messages holds none of them.        *)
THEOREM NothingLostOrReordered == Spec => []InOrder
<1>1. FInv /\ [Next]_vars => FInv'
  BY NextFInv
<1>2. FInv => InOrder
  BY DEF FInv
<1> QED BY <1>1, <1>2, InitFInv, PTL DEF Spec

(* The headers are found at the same places as they were sent: seqCheck    *)
(* never takes anything else for the blank line, whatever CRs the values   *)
(* have, and the text a cut body leaves behind does not move it.           *)
THEOREM HeadersStayInStep == Spec => []HeadersInStep
<1>1. FInv /\ [Next]_vars => FInv'
  BY NextFInv
<1>2. FInv => HeadersInStep
  BY DEF FInv
<1> QED BY <1>1, <1>2, InitFInv, PTL DEF Spec

-----------------------------------------------------------------------------
LEMMA MoreToRead ==
    ASSUME TypeOK, Counts, sent # Len(received)
    PROVE  Len(Left) + Len(Messages[sent].header) + 3 < Len(Stream)
<1>1. PICK l, h, b, s : /\ l = Left /\ h = Messages[sent].header
                        /\ b = Messages[sent].body /\ s = Stream
  OBVIOUS
<1>2. /\ Len(h) \in Nat /\ Len(b) \in Nat /\ Len(s) \in Nat
      /\ Parts(s, l, h, b)
  BY <1>1, StreamIs
<1>3. Len(l) \in Nat
  BY <1>1, LeftIs
<1>4. Len(s) = Len(l) + Len(h) + 4 + Len(b)
  BY <1>2 DEF Parts
<1>5. Len(l) + Len(h) + 3 < Len(s)
  <2>1. Len(h) \in Nat /\ Len(b) \in Nat
    BY <1>2
  <2> QED BY <1>3, <1>4, <2>1
<1> QED BY <1>1, <1>5

(* All that is held has been read when the index is at a NUL or at the end *)
(* of the buffer.                                                          *)
LEMMA NothingHeld ==
    ASSUME RInv, phase # "failed", eos, wire = <<>>
    PROVE  Len(Held) = 0
<1>1. TypeOK /\ Bounded
  BY DEF RInv, ReaderInBounds
<1>2. nBytes \in Nat /\ index \in Nat /\ Len(Held) = nBytes - index + Len(wire)
  BY HeldNow
<1>3. ~(index < nBytes)
  <2>1. SUFFICES ASSUME index < nBytes PROVE FALSE
    OBVIOUS
  <2>2. index \in 0..(nBytes - 1) /\ index # BufferSize - 1
    BY <1>1, <1>2, <2>1, ReaderAssumption DEF Bounded
  <2>3. buffer[index] \in Char /\ buffer[index] = NUL
    BY <1>1, <2>2 DEF Bounded, eos
  <2> QED BY <2>3, Terminators
<1>4. index <= nBytes
  BY <1>1 DEF Bounded
<1> QED BY <1>2, <1>3, <1>4

(* The reader waits for a peer that waits for its answer only behind a     *)
(* header that ends in a CR: seqCheck does not miss any other blank line,  *)
(* so that a message that was sent goes on behind any place in its header  *)
(* that the reader can have got to, whatever a body before it has left on  *)
(* the connection.                                                         *)
THEOREM NeverBothWait == Spec => []NoMutualWait
<1>1. FInv /\ [Next]_vars => FInv'
  BY NextFInv
<1>2. FInv => NoMutualWait
  <2> SUFFICES ASSUME FInv, wire = <<>>, ~ended, sent # Len(received),
                      ~EndsInCR(sent),
                      phase = "idle" \/ (phase = "header" /\ eos)
               PROVE  FALSE
    BY DEF NoMutualWait
  <2>1. TypeOK /\ RInv /\ Counts /\ phase # "failed"
    BY DEF FInv, RInv
  <2>2. Len(Held) = 0
    <3>1. CASE phase = "idle"
      <4>1. Unread = <<>>
        BY <3>1 DEF FInv, InOrder
      <4> QED BY <2>1, <4>1, HeldNow
    <3>2. CASE phase = "header" /\ eos
      BY <2>1, <3>2, NothingHeld
    <3> QED BY <3>1, <3>2
  <2>3. Taken = Len(Stream)
    <3>1. Taken \in Nat
      BY <2>1 DEF Taken, RInv
    <3> QED BY <2>2, <3>1 DEF FInv, Pending
  <2>4. Len(Left) \in Nat /\ Len(Messages[sent].header) \in Nat
    BY <2>1, LeftIs, StreamIs
  <2>5. Taken <= Len(Left) + Len(Messages[sent].header) + 3
    <3>1. CASE phase = "idle"
      BY <2>4, <3>1 DEF Taken
    <3>2. CASE phase = "header"
      <4>1. InBlankLine(Len(raw)) /\ Taken = Len(raw) /\ Len(raw) \in Nat
        BY <2>1, <3>2 DEF FInv, HeaderSoFar, Taken, RInv
      <4>2. Len(raw) - (Len(Left) + Len(Messages[sent].header)) <= 3
        BY <4>1 DEF InBlankLine
      <4> QED BY <2>4, <4>1, <4>2
    <3> QED BY <3>1, <3>2
  <2>6. Len(Stream) \in Nat
    BY <2>1, StreamIs
  <2> QED BY <2>1, <2>3, <2>4, <2>5, <2>6, MoreToRead
<1> QED BY <1>1, <1>2, InitFInv, PTL DEF Spec
=============================================================================

----------------------------- MODULE HttpHeader -----------------------------
(***************************************************************************)
(* How a header is read back: init_from_raw_http_header(), the same in     *)
(* cas/src/http-request.cpp and http-response.cpp, and the text functions  *)
(* under it (string-helpers.cpp, helpers.cpp, user-info.cpp).              *)
(*                                                                         *)
(* A message is written by to_string() and arrives whole, or cut off when  *)
(* the connection ends; the parser reads it line by line from an           *)
(* istringstream.                                                          *)
(***************************************************************************)
EXTENDS Integers, Sequences, FiniteSets, SequencesExt

CONSTANTS
    Letters,     \* characters without a meaning of their own
    Code,        \* every character as a signed byte
    Names,       \* the names of the headers of a message, in order
    Values,      \* header values, without the ends of lines
    FirstLines   \* first lines: three fields, the last may have blanks

Colon == ":"
Space == " "
CR == "cr"
LF == "lf"
NUL == "nul"
Char == Letters \cup {Colon, Space, CR, LF, NUL}
Blank == {Space, CR, LF}      \* iswspace()
SizeRange == 65536            \* stands for the range of size_t
Digits == <<"0", "1", "2", "3", "4", "5", "6", "7", "8", "9">>

ASSUME HeaderAssumption ==
    /\ Letters \cap {Colon, Space, CR, LF, NUL} = {}
    /\ Code \in [Char -> -128..127]
    /\ Names \in Seq(Seq(Letters) \ {<<>>})
    /\ \A i, j \in DOMAIN Names : Names[i] = Names[j] => i = j
    /\ Values \subseteq Seq(Letters \cup {Colon, Space})
    /\ \A value \in Values : Len(value) + 2 < SizeRange
    /\ \A first \in FirstLines :
          /\ first \in Seq(Char \ {LF, NUL})
          /\ Cardinality({i \in DOMAIN first : first[i] = Space}) >= 2

VARIABLES
    message,   \* the first line and the header values sent
    cut,       \* how many characters of it arrive; all of them if whole
    rest,      \* what the stream still holds
    good,      \* no read has run into the end of the stream
    line,      \* the local variable header
    fields,    \* the fields of the first line
    headers,   \* the member headers
    pc         \* "idle", at the "first" line or the "headers", or "done"

vars == <<message, cut, rest, good, line, fields, headers, pc>>

-----------------------------------------------------------------------------
(* Texts.                                                                  *)

Positions(text, c) ==
    LET found[n \in 0..Len(text)] ==
            IF n = 0 THEN <<>>
            ELSE IF text[n] = c THEN Append(found[n - 1], n) ELSE found[n - 1]
    IN  found[Len(text)]

(* Faulty variant: one piece too many.                                     *)
FirstMax(ends, max) == SubSeq(ends, 1, IF Len(ends) < max THEN Len(ends) ELSE max)

(* With max pieces at most, only the first max - 1 delimiters end one.     *)
Splits(ends, max) ==
    SubSeq(ends, 1, IF Len(ends) < max THEN Len(ends) ELSE max - 1)

(* What follows the last delimiter is a piece unless it is empty.          *)
WithRest(pieces, last) == IF last = <<>> THEN pieces ELSE Append(pieces, last)

split(text, delimiter, max) ==
    LET ends == <<0>> \o Splits(Positions(text, delimiter), max)
    IN  WithRest([k \in 1..(Len(ends) - 1) |->
                     SubSeq(text, ends[k] + 1, ends[k + 1] - 1)],
                 SubSeq(text, ends[Len(ends)] + 1, Len(text)))

NoLimit(text) == Len(text) + 2

(* text[i], counted from 0.  Behind the text is its NUL; the byte in front *)
(* of it, which trim() reads of a blank one, is the highest byte of a      *)
(* length or of a chunk's size and so 0 as well (libstdc++, glibc).        *)
Byte(text, i) == IF i \in 0..(Len(text) - 1) THEN text[i + 1] ELSE NUL

substr(text, start, n) ==
    SubSeq(text, start + 1, IF start + n < Len(text) THEN start + n ELSE Len(text))

(* Where the loop of trim() leaves start, which goes up first, and end,    *)
(* which goes down: past the front of a blank text, where it is the largest *)
(* size_t.                                                                 *)
start(text) ==
    CHOOSE i \in 0..Len(text) :
        Byte(text, i) \notin Blank /\ \A j \in 0..(i - 1) : Byte(text, j) \in Blank

end(text) ==
    CHOOSE i \in -1..(Len(text) - 1) :
        /\ Byte(text, i) \notin Blank
        /\ \A j \in (i + 1)..(Len(text) - 1) : Byte(text, j) \in Blank

(* Faulty variant: only the front is trimmed.                              *)
TrimFront(text) == substr(text, start(text), Len(text))

trim(text) == substr(text, start(text), (end(text) + 1 - start(text)) % SizeRange)

is_whitespace(text) == \A i \in DOMAIN text : text[i] \in Blank

locations_to_string(list) ==
    FlattenSeq([i \in DOMAIN list |-> list[i] \o <<LF>>])

-----------------------------------------------------------------------------
(* base64_encode(): sextets, and 64 for "=".                               *)

(* The powers of two that the text is shifted by.                          *)
TwoTo(n) == <<1, 2, 4, 8, 16, 32, 64, 128>>[n + 1]

Sextet(val, valb) ==
    (IF valb >= 0 THEN val \div TwoTo(valb) ELSE val * TwoTo(-valb)) % 64

Emit(s) ==
    IF s.valb < 0 THEN s
    ELSE [val |-> s.val, valb |-> s.valb - 6,
          out |-> Append(s.out, Sextet(s.val, s.valb))]

(* val keeps the 16 bits that are ever looked at; a character above 127 is *)
(* negative and borrows from the bits before it.                           *)
ValRange == 65536

Shift(s, c) ==
    [val |-> (s.val * 256 + Code[c]) % ValRange, valb |-> s.valb + 8, out |-> s.out]

(* What the loop over the characters leaves.                               *)
Encoded(text) ==
    LET state[n \in 0..Len(text)] ==
            IF n = 0 THEN [val |-> 0, valb |-> -6, out |-> <<>>]
            ELSE Emit(Emit(Shift(state[n - 1], text[n])))
    IN  state[Len(text)]

Pad(out) == out \o [i \in 1..((-Len(out)) % 4) |-> 64]

(* Faulty variant: the bits that are left are dropped.                     *)
EncodeWholeSextets(text) == Pad(Encoded(text).out)

base64_encode(text) ==
    LET s == Encoded(text)
    IN  Pad(IF s.valb > -6 THEN Append(s.out, Sextet(s.val, s.valb)) ELSE s.out)

-----------------------------------------------------------------------------
(* Messages.                                                               *)

(* to_string(), the body left out.                                         *)
HeaderLine(m, i) == Names[i] \o <<Colon, Space>> \o m.values[i] \o <<CR, LF>>

to_string(m) ==
    m.first \o <<CR, LF>>
        \o FlattenSeq([i \in DOMAIN Names |-> HeaderLine(m, i)]) \o <<CR, LF>>

Whole == Len(to_string(message))

(* What the loops over FdReader hand to the parser: without the last LF,   *)
(* or with the NUL that stands for the end of the connection.              *)
Raw(text, n) ==
    IF n = Len(text) THEN SubSeq(text, 1, n - 1) ELSE SubSeq(text, 1, n) \o <<NUL>>

NoMessage == [first |-> <<>>, values |-> <<>>]

Init ==
    /\ message = NoMessage /\ cut = 0
    /\ rest = <<>> /\ good = TRUE /\ line = <<>> /\ fields = <<>>
    /\ headers = [n \in {} |-> <<>>]
    /\ pc = "idle"

Arrive ==
    /\ pc = "idle" /\ pc' = "first"
    /\ message' \in [first : FirstLines, values : [DOMAIN Names -> Values]]
    /\ cut' \in 0..Whole'
    /\ rest' = Raw(to_string(message'), cut')
    /\ UNCHANGED <<good, line, fields, headers>>

-----------------------------------------------------------------------------
(* The parser.                                                             *)

(* getline(): the text up to the next LF, or what is left.                 *)
Ends(text) == {i \in DOMAIN text : text[i] = LF}
FirstEnd(text) == CHOOSE i \in Ends(text) : \A j \in Ends(text) : i <= j
LineOf(text) ==
    IF Ends(text) = {} THEN text ELSE SubSeq(text, 1, FirstEnd(text) - 1)
After(text) ==
    IF Ends(text) = {} THEN <<>> ELSE SubSeq(text, FirstEnd(text) + 1, Len(text))

(* Faulty variant: a failed read empties the line.                         *)
Cleared(old) == <<>>

(* A stream that has run into its end leaves the line as it is.            *)
Unread(old) == old

GetLine(text, isGood, old) ==
    /\ line' = IF isGood THEN LineOf(text) ELSE Unread(old)
    /\ rest' = IF isGood THEN After(text) ELSE text
    /\ good' = (isGood /\ Ends(text) # {})

ReadFirstLine ==
    /\ pc = "first" /\ pc' = "headers"
    /\ fields' = split(LineOf(rest), Space, 3)
    /\ GetLine(After(rest), Ends(rest) # {}, <<>>)
    /\ UNCHANGED <<message, cut, headers>>

(* Faulty variant: the status is read off the wrong field.                 *)
LastField(f) == f[Len(f)]

StatusField(f) == f[2]

IsDigit(c) == \E d \in 0..9 : Digits[d + 1] = c
DigitOf(c) == CHOOSE d \in 0..9 : Digits[d + 1] = c

(* How many digits are in front.                                           *)
DigitsOf(text) ==
    CHOOSE n \in 0..Len(text) :
        /\ \A i \in 1..n : IsDigit(text[i])
        /\ n < Len(text) => ~IsDigit(text[n + 1])

(* stoi(): their value, or an exception if there are none.                 *)
stoi(text) ==
    LET value[n \in 0..DigitsOf(text)] ==
            IF n = 0 THEN 0 ELSE 10 * value[n - 1] + DigitOf(text[n])
    IN  IF DigitsOf(text) = 0 THEN -1 ELSE value[DigitsOf(text)]

(* The second field of a response is a status that set_status() knows, that *)
(* of a request is a path.                                                 *)
ASSUME StatusAssumption ==
    \A first \in FirstLines :
        LET field == split(first, Space, 3)[2]
        IN  \/ Len(field) = 3 /\ \A i \in 1..3 : IsDigit(field[i])
            \/ field = <<>> \/ ~IsDigit(field[1])

(* HttpResponse's statusCode: 200 unless there is a second field.          *)
statusCode == IF Len(fields) < 2 THEN 200 ELSE stoi(StatusField(fields))

(* Faulty variant: only an empty line ends the header.                     *)
NotEmpty(text) == text # <<>>

IsHeader(text) == text # <<>> /\ text[1] \notin Blank

(* A line of two fields is a header; any other is skipped.                 *)
ParseHeader ==
    /\ pc = "headers" /\ IsHeader(line)
    /\ \E pair \in {split(line, Colon, NoLimit(line))} :
          headers' = IF Len(pair) # 2 THEN headers
                     ELSE [n \in DOMAIN headers \cup {pair[1]} |->
                              IF n = pair[1] THEN trim(pair[2]) ELSE headers[n]]
    /\ GetLine(rest, good, line)
    /\ UNCHANGED <<message, cut, fields, pc>>

Stop ==
    /\ pc = "headers" /\ ~IsHeader(line)
    /\ pc' = "done"
    /\ UNCHANGED <<message, cut, rest, good, line, fields, headers>>

Parse == ReadFirstLine \/ ParseHeader \/ Stop

Next == Arrive \/ Parse

Spec == Init /\ [][Next]_vars /\ WF_vars(Parse)

-----------------------------------------------------------------------------
(* Properties.                                                             *)

(* Type invariant.                                                         *)
TypeOK ==
    /\ rest \in Seq(Char) /\ good \in BOOLEAN /\ line \in Seq(Char)
    /\ fields \in Seq(Seq(Char)) /\ Len(fields) <= 3
    /\ headers \in [DOMAIN headers -> Seq(Char)]
    /\ pc \in {"idle", "first", "headers", "done"}

(* The connection ended behind the first line and before the last LF.      *)
CutInHeaders ==
    Len(message.first) + 2 <= cut /\ cut <= Whole - 2

(* The parser comes to an end, unless the header is cut off behind its     *)
(* first line: then it parses its last line for ever.  These are the cuts  *)
(* of which HttpServer says that they hang the server.                     *)
ParserEnds == pc = "first" /\ ~CutInHeaders ~> pc = "done"
HangsWhenCut == CutInHeaders => pc # "done"

(* As long as the loop goes on there is something to read, unless the      *)
(* header is cut off behind its first line: a pass takes it off the        *)
(* stream, and so there are no more passes than characters.                *)
EveryPassReads ==
    pc = "headers" /\ IsHeader(line) /\ ~CutInHeaders => good /\ rest # <<>>

Strip(text) ==
    LET Kept == {i \in DOMAIN text : text[i] \notin Blank}
    IN  IF Kept = {} THEN <<>>
        ELSE SubSeq(text, CHOOSE i \in Kept : \A j \in Kept : i <= j,
                          CHOOSE i \in Kept : \A j \in Kept : i >= j)

(* A value arrives without the blanks around it or, if it has a colon in   *)
(* it, not at all; no value ends up under another name.  A handler refuses *)
(* what is missing or blank, so no user has a blank name or password.      *)
ValuesArrive ==
    pc = "done" /\ cut = Whole =>
        LET Plain == {i \in DOMAIN Names : ~Contains(message.values[i], Colon)}
        IN  /\ DOMAIN headers = {Names[i] : i \in Plain}
            /\ \A i \in Plain :
                  /\ headers[Names[i]] = Strip(message.values[i])
                  /\ is_whitespace(headers[Names[i]])
                        <=> is_whitespace(message.values[i])

(* A response has the status that was sent if its header is whole.  One    *)
(* that is cut off has the status 200 although another one was sent only   *)
(* if the end comes before the status: that is what login() of             *)
(* httpClient.cpp takes for success.                                       *)
StatusArrives ==
    LET sent == stoi(split(message.first, Space, 3)[2])
        protocol == split(message.first, Space, 3)[1]
    IN  pc = "done" =>
            /\ cut = Whole => statusCode = sent
            /\ statusCode = 200 => sent = 200 \/ cut <= Len(protocol) + 1

(* The text functions are looked at once for every message.                *)
NewMessage == pc = "first" /\ cut = Whole

Join(pieces, delimiter) ==
    IF pieces = <<>> THEN <<>>
    ELSE pieces[1] \o FlattenSeq([i \in 1..(Len(pieces) - 1) |->
                                      <<delimiter>> \o pieces[i + 1]])

(* Splitting loses nothing but a delimiter at the end, and only the last   *)
(* piece of a limited split has delimiters in it, for every limit up to    *)
(* none at all.                                                            *)
SplitIsExact(text, delimiter, max) ==
    LET pieces == split(text, delimiter, max)
    IN  /\ Len(pieces) <= max
        /\ \A i \in DOMAIN pieces : i < max => ~Contains(pieces[i], delimiter)
        /\ \/ text = Join(pieces, delimiter)
           \/ text = Append(Join(pieces, delimiter), delimiter)
SplitsAreExact ==
    NewMessage =>
        \A i \in DOMAIN message.values :
            \A max \in 1..NoLimit(message.values[i]) :
                SplitIsExact(message.values[i], Colon, max)

(* The list of locations in a response can be taken apart again.           *)
LocationsAreReadable ==
    NewMessage =>
        split(locations_to_string(message.values), LF,
              NoLimit(locations_to_string(message.values))) = message.values

(* The sextets of the bytes, by their bits.                                *)
Bit(text, b) ==
    IF b \div 8 >= Len(text) THEN 0
    ELSE (Code[text[b \div 8 + 1]] \div TwoTo(7 - (b % 8))) % 2
Base64(text) ==
    Pad([k \in 1..((8 * Len(text) + 5) \div 6) |->
            LET b == 6 * (k - 1)
            IN  32 * Bit(text, b) + 16 * Bit(text, b + 1) + 8 * Bit(text, b + 2)
                + 4 * Bit(text, b + 3) + 2 * Bit(text, b + 4) + Bit(text, b + 5)])

(* The start of a token is the base64 form of the user's name if the name  *)
(* is plain ASCII; for every other it is at least of the right length and  *)
(* alphabet, so that the token passes through a header unchanged.          *)
TokensAreBase64 ==
    NewMessage => \A i \in DOMAIN message.values :
        LET text == message.values[i]
        IN  /\ (\A j \in DOMAIN text : Code[text[j]] >= 0)
                  => base64_encode(text) = Base64(text)
            /\ Len(base64_encode(text)) = Len(Base64(text))
            /\ \A j \in DOMAIN base64_encode(text) : base64_encode(text)[j] \in 0..64
=============================================================================

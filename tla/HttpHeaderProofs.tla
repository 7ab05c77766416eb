-------------------------- MODULE HttpHeaderProofs --------------------------
(***************************************************************************)
(* Theorems about HttpHeader for every set of messages that is a set of    *)
(* http messages (HeaderAssumption), and for every character they are cut  *)
(* off at: the parser keeps its types, a header that is cut off hangs it   *)
(* and the loop runs down for every other, the values of a whole one and   *)
(* the status arrive, split() loses nothing but a delimiter at the end,    *)
(* and a token starts with the base64 form of its name.                    *)
(*                                                                         *)
(* The lemmas go from texts to the parser: Cuts says what split() does to  *)
(* any text, Laid what a text made of pieces and delimiters looks like,    *)
(* and CutsOfLaid and SplitOfLaid that splitting undoes the laying out.    *)
(* Alive and Dying texts are those that keep the loop going and that end   *)
(* it; Phase and Exact say how far base64_encode() is after n characters.  *)
(* Induction over lengths is by least elements (WFMin).                    *)
(***************************************************************************)
EXTENDS HttpHeader, TLAPS, SequenceTheorems, FiniteSetTheorems,
        WellFoundedInduction

(* Induction: a set that has 0 and every successor has every number.       *)
LEMMA NatInductionOnSet ==
    ASSUME NEW S, 0 \in S, \A n \in Nat : n \in S => n + 1 \in S
    PROVE  Nat \subseteq S
<1> DEFINE Out == Nat \ S
<1>1. SUFFICES ASSUME Out # {} PROVE FALSE
  OBVIOUS
<1>2. \E f \in Out : \A g \in Out : ~ (<<g, f>> \in OpToRel(<, Nat))
  <2>1. Out \subseteq Nat OBVIOUS
  <2> HIDE DEF Out
  <2> QED  BY <1>1, <2>1, WFMin, NatLessThanWellFounded, Zenon
<1>3. \A f, g \in Nat : g < f => <<g, f>> \in OpToRel(<, Nat)
  BY DEF OpToRel
<1>4. PICK f \in Out : \A g \in Out : ~ (g < f)
  BY <1>2, <1>3, Zenon
<1>5. f # 0 /\ f \in Nat
  OBVIOUS
<1>6. f - 1 \in Nat /\ f - 1 \notin Out
  BY <1>4, <1>5
<1> QED BY <1>5, <1>6

(* The least element of a set of numbers.                                  *)
LEMMA LeastElement ==
    ASSUME NEW S, S \subseteq Nat, S # {}
    PROVE  \E f \in S : \A g \in S : f <= g
<1>1. \E f \in S : \A g \in S : ~ (<<g, f>> \in OpToRel(<, Nat))
  BY WFMin, NatLessThanWellFounded, Zenon
<1>2. \A f, g \in Nat : g < f => <<g, f>> \in OpToRel(<, Nat)
  BY DEF OpToRel
<1>3. PICK f \in S : \A g \in S : ~ (g < f)
  BY <1>1, <1>2, Zenon
<1>4. \A g \in S : f <= g
  BY <1>3
<1> QED BY <1>4

(* A recursion over the numbers to N has a solution.                       *)
Solves(f, S, base, step, N) ==
    /\ f \in [0..N -> S] /\ f[0] = base
    /\ \A n \in 1..N : f[n] = step[<<f[n - 1], n>>]

LEMMA Recursion ==
    ASSUME NEW S, NEW base \in S, NEW step \in [S \X Nat -> S], NEW N \in Nat
    PROVE  \E f : Solves(f, S, base, step, N)
<1> DEFINE Good(f, m) == /\ f \in [0..m -> S] /\ f[0] = base
                         /\ \A n \in 1..m : f[n] = step[<<f[n - 1], n>>]
           I == {m \in Nat : \E f : Good(f, m)}
<1>1. 0 \in I
  <2>1. Good([n \in 0..0 |-> base], 0)
    OBVIOUS
  <2> QED BY <2>1
<1>2. ASSUME NEW m \in Nat, m \in I PROVE m + 1 \in I
  <2>1. PICK f : Good(f, m)
    BY <1>2
  <2> DEFINE g == [n \in 0..(m + 1) |->
                      IF n = m + 1 THEN step[<<f[m], m + 1>>] ELSE f[n]]
  <2>2. f[m] \in S /\ step[<<f[m], m + 1>>] \in S
    BY <2>1
  <2>3. g \in [0..(m + 1) -> S]
    <3>1. ASSUME NEW n \in 0..(m + 1), n # m + 1 PROVE f[n] \in S
      <4>1. n \in 0..m
        BY <3>1
      <4> QED BY <2>1, <4>1
    <3> QED BY <2>2, <3>1
  <2>4. g[0] = base
    BY <2>1
  <2>5. ASSUME NEW n \in 1..(m + 1) PROVE g[n] = step[<<g[n - 1], n>>]
    <3>1. n - 1 \in 0..(m + 1) /\ n - 1 # m + 1
      OBVIOUS
    <3>2. g[n - 1] = f[n - 1]
      BY <3>1
    <3>3. CASE n = m + 1
      <4>1. g[n] = step[<<f[m], m + 1>>] /\ n - 1 = m
        BY <3>3
      <4> QED BY <3>2, <3>3, <4>1
    <3>4. CASE n # m + 1
      <4>1. n \in 1..m /\ g[n] = f[n]
        BY <3>4
      <4> QED BY <2>1, <3>2, <4>1
    <3> QED BY <3>3, <3>4
  <2>6. Good(g, m + 1)
    <3> HIDE DEF g
    <3> QED BY <2>3, <2>4, <2>5
  <2>7. \E x : Good(x, m + 1)
    <3> HIDE DEF g, Good
    <3> QED BY <2>6
  <2> QED
    <3> HIDE DEF Good
    <3> QED BY <2>7
<1>3. Nat \subseteq I
  <2> HIDE DEF I
  <2> QED BY <1>1, <1>2, NatInductionOnSet
<1>4. \E f : Good(f, N)
  <2> HIDE DEF Good
  <2> QED BY <1>3
<1> QED BY <1>4 DEF Solves

(* The positions of a character, found one character after the other.      *)
Found(f, text, c) ==
    /\ f \in [0..Len(text) -> Seq(Nat)] /\ f[0] = <<>>
    /\ \A n \in 1..Len(text) :
          f[n] = IF text[n] = c THEN Append(f[n - 1], n) ELSE f[n - 1]

LEMMA PositionsIs ==
    ASSUME NEW text \in Seq(Char), NEW c
    PROVE  \E f : Found(f, text, c) /\ Positions(text, c) = f[Len(text)]
<1> DEFINE Good(f, m) == f = [n \in 0..m |-> IF n = 0 THEN <<>>
                            ELSE IF text[n] = c THEN Append(f[n - 1], n)
                            ELSE f[n - 1]]
           step == [x \in Seq(Nat) \X Nat |->
                       IF text[x[2]] = c THEN Append(x[1], x[2]) ELSE x[1]]
<1>1. step \in [Seq(Nat) \X Nat -> Seq(Nat)] /\ <<>> \in Seq(Nat)
      /\ Len(text) \in Nat
  OBVIOUS
<1>2. PICK f \in [0..Len(text) -> Seq(Nat)] :
         f[0] = <<>> /\ \A n \in 1..Len(text) : f[n] = step[<<f[n - 1], n>>]
  <2>1. PICK S, N, b : S = Seq(Nat) /\ N = Len(text) /\ b = <<>>
    OBVIOUS
  <2>2. step \in [S \X Nat -> S] /\ b \in S /\ N \in Nat
    BY <1>1, <2>1
  <2> HIDE DEF step
  <2>3. \E f : Solves(f, S, b, step, N)
    BY <2>2, Recursion
  <2> QED BY <2>1, <2>3 DEF Solves
<1>3. ASSUME NEW n \in 1..Len(text)
      PROVE  f[n] = IF text[n] = c THEN Append(f[n - 1], n) ELSE f[n - 1]
  <2>1. f[n - 1] \in Seq(Nat) /\ n \in Nat
    BY <1>1
  <2>2. <<f[n - 1], n>> \in Seq(Nat) \X Nat
    BY <2>1
  <2> QED BY <1>2, <2>2
<1> HIDE DEF step
<1>4. Good(f, Len(text))
  <2> DEFINE h == [n \in 0..Len(text) |-> IF n = 0 THEN <<>>
                            ELSE IF text[n] = c THEN Append(f[n - 1], n)
                            ELSE f[n - 1]]
  <2>1. \A n \in 0..Len(text) : h[n] = f[n]
    <3>1. ASSUME NEW n \in 0..Len(text) PROVE h[n] = f[n]
      <4>1. CASE n = 0
        BY <1>2, <4>1
      <4>2. CASE n # 0
        <5>1. n \in 1..Len(text)
          BY <1>1, <4>2
        <5> QED BY <1>3, <4>2, <5>1
      <4> QED BY <4>1, <4>2
    <3> QED BY <3>1
  <2>2. h = [n \in 0..Len(text) |-> h[n]] /\ f = [n \in 0..Len(text) |-> f[n]]
    OBVIOUS
  <2>3. h = f
    <3> HIDE DEF h
    <3> QED BY <2>1, <2>2
  <2> QED BY <2>3
<1>5. ASSUME NEW g, Good(g, Len(text)) PROVE g = f
  <2> DEFINE I == {n \in Nat : n \in 0..Len(text) => g[n] = f[n]}
  <2>1. 0 \in I
    BY <1>1, <1>2, <1>5
  <2>2. ASSUME NEW n \in Nat, n \in I PROVE n + 1 \in I
    <3>1. CASE n + 1 \in 0..Len(text)
      <4>1. n \in 0..Len(text) /\ n + 1 \in 1..Len(text) /\ n + 1 - 1 = n
            /\ n + 1 # 0
        BY <1>1, <3>1
      <4>2. g[n] = f[n]
        BY <2>2, <4>1
      <4>3. g[n + 1] = IF text[n + 1] = c THEN Append(g[n + 1 - 1], n + 1)
                       ELSE g[n + 1 - 1]
        <5>1. PICK k \in 0..Len(text) : k = n + 1
          BY <3>1
        <5>2. g[k] = IF k = 0 THEN <<>>
                     ELSE IF text[k] = c THEN Append(g[k - 1], k) ELSE g[k - 1]
          BY <1>5
        <5> QED BY <4>1, <5>1, <5>2
      <4>4. f[n + 1] = IF text[n + 1] = c THEN Append(f[n + 1 - 1], n + 1)
                       ELSE f[n + 1 - 1]
        BY <1>3, <4>1
      <4> QED BY <4>1, <4>2, <4>3, <4>4
    <3> QED BY <3>1
  <2>3. Nat \subseteq I
    <3> HIDE DEF I
    <3> QED BY <2>1, <2>2, NatInductionOnSet
  <2>4. \A n \in 0..Len(text) : g[n] = f[n]
    BY <1>1, <2>3
  <2>5. g = [n \in 0..Len(text) |-> g[n]] /\ f = [n \in 0..Len(text) |-> f[n]]
    BY <1>5
  <2> QED
    <3> HIDE DEF I, Good
    <3> QED BY <2>4, <2>5
<1> DEFINE F == CHOOSE g : Good(g, Len(text))
<1>6. Good(F, Len(text))
  <2> HIDE DEF Good
  <2> QED BY <1>4, Zenon
<1>7. Positions(text, c) = F[Len(text)]
  BY Zenon DEF Positions
<1>8. F = f
  <2> HIDE DEF F, Good
  <2> QED BY <1>5, <1>6
<1>9. Found(f, text, c)
  BY <1>2, <1>3 DEF Found
<1> QED BY <1>7, <1>8, <1>9, Zenon

(* The texts that FlattenSeq puts together, one after the other.           *)
LEMMA FlattenIs ==
    ASSUME NEW list \in Seq(Seq(Char)), list # <<>>
    PROVE  \E f \in [1..Len(list) -> Seq(Char)] :
              /\ FlattenSeq(list) = f[Len(list)] /\ f[1] = list[1]
              /\ \A n \in 2..Len(list) : f[n] = f[n - 1] \o list[n]
<1> DEFINE Good(f, m) == f = [n \in 1..m |-> IF n = 1 THEN list[n]
                                            ELSE f[n - 1] \o list[n]]
           step == [x \in Seq(Char) \X Nat |->
                       IF x[2] + 1 \in 1..Len(list) THEN x[1] \o list[x[2] + 1]
                       ELSE x[1]]
<1>1. PICK N : N = Len(list)
  OBVIOUS
<1>2. /\ N \in Nat /\ N # 0 /\ list[1] \in Seq(Char) /\ N - 1 \in Nat
      /\ \A n \in 1..N : list[n] \in Seq(Char)
  BY <1>1
<1>3. step \in [Seq(Char) \X Nat -> Seq(Char)]
  BY <1>1, <1>2
<1>4. PICK s : /\ s \in [0..(N - 1) -> Seq(Char)] /\ s[0] = list[1]
               /\ \A n \in 1..(N - 1) : s[n] = step[<<s[n - 1], n>>]
  <2>1. PICK S, M, b : S = Seq(Char) /\ M = N - 1 /\ b = list[1]
    OBVIOUS
  <2>2. step \in [S \X Nat -> S] /\ b \in S /\ M \in Nat
    BY <1>2, <1>3, <2>1
  <2> HIDE DEF step
  <2>3. \E s : Solves(s, S, b, step, M)
    BY <2>2, Recursion
  <2> QED BY <2>1, <2>3 DEF Solves
<1> DEFINE f == [n \in 1..N |-> s[n - 1]]
<1>5. f \in [1..N -> Seq(Char)] /\ f[1] = list[1]
  <2>1. \A n \in 1..N : n - 1 \in 0..(N - 1)
    BY <1>2
  <2> QED BY <1>2, <1>4, <2>1
<1>6. ASSUME NEW n \in 2..N PROVE f[n] = f[n - 1] \o list[n]
  <2>1. PICK k \in 1..(N - 1) : k = n - 1
    BY <1>2
  <2>2. n \in 1..N /\ n - 1 \in 1..N /\ n - 1 - 1 = k - 1 /\ k + 1 = n
        /\ k \in Nat /\ k - 1 \in 0..(N - 1)
    BY <1>2, <2>1
  <2>3. f[n] = s[k] /\ f[n - 1] = s[k - 1]
    BY <2>1, <2>2
  <2>4. <<s[k - 1], k>> \in Seq(Char) \X Nat
    BY <1>4, <2>2
  <2>5. step[<<s[k - 1], k>>] = s[k - 1] \o list[k + 1]
    BY <1>1, <2>2, <2>4
  <2> HIDE DEF f, step
  <2> QED BY <1>4, <2>1, <2>2, <2>3, <2>5
<1> HIDE DEF f, step
<1>7. Good(f, N)
  <2> DEFINE h == [n \in 1..N |-> IF n = 1 THEN list[n] ELSE f[n - 1] \o list[n]]
  <2>1. ASSUME NEW n \in 1..N PROVE h[n] = f[n]
    <3>1. CASE n = 1
      BY <1>5, <3>1
    <3>2. CASE n # 1
      <4>1. n \in 2..N
        BY <1>2, <3>2
      <4> QED BY <1>6, <3>2, <4>1
    <3> QED BY <3>1, <3>2
  <2>2. h = [n \in 1..N |-> h[n]] /\ f = [n \in 1..N |-> f[n]]
    BY <1>5
  <2>3. h = f
    <3> HIDE DEF h
    <3> QED BY <2>1, <2>2
  <2> QED BY <2>3
<1>8. ASSUME NEW g, Good(g, N) PROVE g = f
  <2> DEFINE I == {n \in Nat : n \in 1..N => g[n] = f[n]}
  <2>1. 0 \in I
    OBVIOUS
  <2>2. ASSUME NEW n \in Nat, n \in I PROVE n + 1 \in I
    <3>1. CASE n + 1 \in 1..N
      <4>1. PICK k \in 1..N : k = n + 1
        BY <3>1
      <4>2. g[k] = IF k = 1 THEN list[k] ELSE g[k - 1] \o list[k]
        BY <1>8
      <4>3. CASE k = 1
        BY <1>5, <4>1, <4>2, <4>3
      <4>4. CASE k # 1
        <5>1. k \in 2..N /\ k - 1 = n /\ n \in 1..N
          BY <1>2, <4>1, <4>4
        <5>2. g[n] = f[n]
          BY <2>2, <5>1
        <5>3. g[k] = g[n] \o list[k]
          BY <4>2, <4>4, <5>1
        <5>4. f[k] = f[n] \o list[k]
          BY <1>6, <5>1
        <5>5. g[k] = f[k]
          BY <5>2, <5>3, <5>4
        <5> QED BY <4>1, <5>5
      <4> QED BY <4>3, <4>4
    <3> QED BY <3>1
  <2>3. Nat \subseteq I
    <3> HIDE DEF I
    <3> QED BY <2>1, <2>2, NatInductionOnSet
  <2>4. \A n \in 1..N : g[n] = f[n]
    BY <1>2, <2>3
  <2>5. g = [n \in 1..N |-> g[n]] /\ f = [n \in 1..N |-> f[n]]
    BY <1>5, <1>8
  <2> QED
    <3> HIDE DEF I, Good
    <3> QED BY <2>4, <2>5
<1> DEFINE F == CHOOSE g : Good(g, Len(list))
<1>9. Good(F, N)
  <2> HIDE DEF Good
  <2> QED BY <1>1, <1>7, Zenon
<1>10. FlattenSeq(list) = F[Len(list)]
  BY <1>1, <1>2, Zenon DEF FlattenSeq
<1>11. F = f
  <2> HIDE DEF F, Good
  <2> QED BY <1>8, <1>9
<1>12. /\ FlattenSeq(list) = f[N] /\ f[1] = list[1]
       /\ \A n \in 2..N : f[n] = f[n - 1] \o list[n]
  <2> HIDE DEF F, Good
  <2> QED BY <1>1, <1>5, <1>6, <1>10, <1>11
<1> QED BY <1>1, <1>5, <1>12

-----------------------------------------------------------------------------
(* Characters and sequences of them.                                       *)

LEMMA CharFacts ==
    /\ Colon \in Char /\ Space \in Char /\ CR \in Char /\ LF \in Char /\ NUL \in Char
    /\ \A c \in Letters : c \in Char /\ c \notin Blank /\ c # Colon /\ c # NUL
    /\ LF \in Blank /\ CR \in Blank /\ Space \in Blank
    /\ Colon \notin Blank /\ NUL \notin Blank
    /\ Colon # Space /\ Colon # CR /\ Colon # LF /\ Colon # NUL
    /\ Space # CR /\ Space # LF /\ Space # NUL
    /\ CR # LF /\ CR # NUL /\ LF # NUL
BY HeaderAssumption DEF Char, Blank, Colon, Space, CR, LF, NUL

LEMMA ElementTyped ==
    ASSUME NEW S, NEW s \in Seq(S), NEW i \in 1..Len(s) PROVE s[i] \in S
OBVIOUS

(* Where the parts of a concatenation are.                                 *)
Joined(c, a, b) ==
    /\ c \in Seq(Char) /\ Len(c) = Len(a) + Len(b)
    /\ \A i \in 1..Len(a) : c[i] = a[i]
    /\ \A i \in 1..Len(b) : c[Len(a) + i] = b[i]

LEMMA ConcatAt ==
    ASSUME NEW a \in Seq(Char), NEW b \in Seq(Char) PROVE Joined(a \o b, a, b)
<1> DEFINE c == a \o b
<1>1. /\ c \in Seq(Char) /\ Len(c) = Len(a) + Len(b)
      /\ \A i \in 1..(Len(a) + Len(b)) :
            c[i] = IF i <= Len(a) THEN a[i] ELSE b[i - Len(a)]
  BY ConcatProperties
<1>2. Len(a) \in Nat /\ Len(b) \in Nat
  OBVIOUS
<1> HIDE DEF c
<1>3. \A i \in 1..Len(a) : c[i] = a[i]
  BY <1>1, <1>2
<1>4. ASSUME NEW i \in 1..Len(b) PROVE c[Len(a) + i] = b[i]
  <2>1. PICK j \in 1..(Len(a) + Len(b)) : j = Len(a) + i
    BY <1>2
  <2>2. ~(j <= Len(a)) /\ j - Len(a) = i
    BY <1>2, <2>1
  <2> QED BY <1>1, <2>1, <2>2
<1>5. Joined(c, a, b)
  BY <1>1, <1>3, <1>4 DEF Joined
<1> QED BY <1>5 DEF c

(* A piece of a text.                                                      *)
LEMMA PieceIs ==
    ASSUME NEW s \in Seq(Char), NEW a \in 1..(Len(s) + 1), NEW b \in 0..Len(s),
           a <= b + 1
    PROVE  /\ SubSeq(s, a, b) \in Seq(Char) /\ Len(SubSeq(s, a, b)) = b - a + 1
           /\ \A i \in 1..(b - a + 1) : SubSeq(s, a, b)[i] = s[a + i - 1]
<1>1. Len(s) \in Nat
  OBVIOUS
<1>2. SubSeq(s, a, b) = [i \in 1..(b - a + 1) |-> s[a + i - 1]]
  OBVIOUS
<1>3. \A i \in 1..(b - a + 1) : a + i - 1 \in 1..Len(s)
  BY <1>1
<1>4. \A i \in 1..(b - a + 1) : s[a + i - 1] \in Char
  BY <1>3
<1>5. b - a + 1 \in Nat
  BY <1>1
<1> QED BY <1>2, <1>4, <1>5

(* Two texts with the same characters.                                     *)
LEMMA SameText ==
    ASSUME NEW s \in Seq(Char), NEW t \in Seq(Char), Len(s) = Len(t),
           \A i \in 1..Len(s) : s[i] = t[i]
    PROVE  s = t
OBVIOUS

-----------------------------------------------------------------------------
(* Messages.                                                               *)

Message == [first : FirstLines, values : [DOMAIN Names -> Values]]

Block(m) == FlattenSeq([i \in DOMAIN Names |-> HeaderLine(m, i)])

LEMMA MessageTyped ==
    ASSUME NEW m \in Message
    PROVE  /\ m.first \in Seq(Char) /\ Len(m.first) \in Nat
           /\ \A i \in 1..Len(m.first) : m.first[i] # LF /\ m.first[i] # NUL
<1>1. m.first \in Seq(Char \ {LF, NUL})
  BY HeaderAssumption DEF Message
<1> QED BY <1>1

LEMMA NameTyped ==
    ASSUME NEW i \in 1..Len(Names)
    PROVE  /\ Names[i] \in Seq(Letters) /\ Names[i] \in Seq(Char)
           /\ Len(Names[i]) \in Nat /\ Len(Names[i]) > 0
           /\ \A k \in 1..Len(Names[i]) : Names[i][k] \in Letters
<1>1. Names \in Seq(Seq(Letters) \ {<<>>})
  BY HeaderAssumption
<1>2. PICK n : n = Names[i]
  OBVIOUS
<1>3. n \in Seq(Letters) /\ n # <<>>
  BY <1>1, <1>2, ElementTyped
<1>4. Len(n) \in Nat /\ Len(n) > 0 /\ \A k \in 1..Len(n) : n[k] \in Letters
  BY <1>3
<1>5. n \in Seq(Char)
  BY <1>3, <1>4, CharFacts
<1> QED BY <1>2, <1>3, <1>4, <1>5

LEMMA ValueTyped ==
    ASSUME NEW m \in Message, NEW i \in 1..Len(Names)
    PROVE  /\ m.values[i] \in Values /\ m.values[i] \in Seq(Char)
           /\ Len(m.values[i]) \in Nat
           /\ \A k \in 1..Len(m.values[i]) :
                 m.values[i][k] # LF /\ m.values[i][k] # CR /\ m.values[i][k] # NUL
<1>1. DOMAIN Names = 1..Len(Names)
  BY HeaderAssumption
<1>2. PICK v : v = m.values[i]
  OBVIOUS
<1>3. v \in Values
  BY <1>1, <1>2 DEF Message
<1>4. v \in Seq(Letters \cup {Colon, Space})
  BY <1>3, HeaderAssumption
<1>5. \A k \in 1..Len(v) : v[k] \in Letters \cup {Colon, Space}
  BY <1>4
<1>6. v \in Seq(Char) /\ Len(v) \in Nat
  BY <1>4, <1>5, CharFacts
<1>7. \A k \in 1..Len(v) : v[k] # LF /\ v[k] # CR /\ v[k] # NUL
  BY <1>5, CharFacts
<1> QED BY <1>2, <1>3, <1>6, <1>7

(* A line of a header: name, colon, blank, value, CR and LF.               *)
LineAt(l, n, v) ==
    /\ l \in Seq(Char) /\ Len(l) = Len(n) + Len(v) + 4
    /\ \A k \in 1..Len(n) : l[k] = n[k]
    /\ l[Len(n) + 1] = Colon /\ l[Len(n) + 2] = Space
    /\ \A k \in 1..Len(v) : l[Len(n) + 2 + k] = v[k]
    /\ l[Len(n) + Len(v) + 3] = CR /\ l[Len(n) + Len(v) + 4] = LF

LEMMA LineIs ==
    ASSUME NEW n \in Seq(Char), NEW v \in Seq(Char)
    PROVE  LineAt(n \o <<Colon, Space>> \o v \o <<CR, LF>>, n, v)
<1>1. Len(n) \in Nat /\ Len(v) \in Nat
  OBVIOUS
<1>2. PICK p, q : p = <<Colon, Space>> /\ q = <<CR, LF>>
  OBVIOUS
<1>3. /\ p \in Seq(Char) /\ Len(p) = 2 /\ p[1] = Colon /\ p[2] = Space
      /\ q \in Seq(Char) /\ Len(q) = 2 /\ q[1] = CR /\ q[2] = LF
  BY <1>2, CharFacts
<1>4. PICK a, b, c : a = n \o p /\ b = a \o v /\ c = b \o q
  OBVIOUS
<1>5. /\ a \in Seq(Char) /\ Len(a) = Len(n) + 2
      /\ \A i \in 1..Len(n) : a[i] = n[i]
      /\ \A i \in 1..2 : a[Len(n) + i] = p[i]
  <2>1. Joined(a, n, p)
    BY <1>3, <1>4, ConcatAt
  <2> QED BY <1>3, <2>1 DEF Joined
<1>6. /\ b \in Seq(Char) /\ Len(b) = Len(a) + Len(v)
      /\ \A i \in 1..Len(a) : b[i] = a[i]
      /\ \A i \in 1..Len(v) : b[Len(a) + i] = v[i]
  <2>1. Joined(b, a, v)
    BY <1>4, <1>5, ConcatAt
  <2> QED BY <2>1 DEF Joined
<1>7. /\ c \in Seq(Char) /\ Len(c) = Len(b) + 2
      /\ \A i \in 1..Len(b) : c[i] = b[i]
      /\ \A i \in 1..2 : c[Len(b) + i] = q[i]
  <2>1. Joined(c, b, q)
    BY <1>3, <1>4, <1>6, ConcatAt
  <2> QED BY <1>3, <2>1 DEF Joined
<1>8. Len(a) = Len(n) + 2 /\ Len(b) = Len(n) + 2 + Len(v)
      /\ Len(c) = Len(n) + Len(v) + 4
  BY <1>1, <1>5, <1>6, <1>7
<1>9. ASSUME NEW i \in 1..(Len(n) + 2) PROVE c[i] = a[i]
  <2>1. i \in 1..Len(a) /\ i \in 1..Len(b)
    BY <1>1, <1>8
  <2> QED BY <1>6, <1>7, <2>1
<1>10. ASSUME NEW i \in 1..Len(n) PROVE c[i] = n[i]
  <2>1. i \in 1..(Len(n) + 2)
    BY <1>1
  <2> QED BY <1>5, <1>9, <2>1
<1>11. c[Len(n) + 1] = Colon /\ c[Len(n) + 2] = Space
  <2>1. Len(n) + 1 \in 1..(Len(n) + 2) /\ Len(n) + 2 \in 1..(Len(n) + 2)
        /\ 1 \in 1..2 /\ 2 \in 1..2
    BY <1>1
  <2> QED BY <1>3, <1>5, <1>9, <2>1
<1>12. ASSUME NEW i \in 1..Len(v) PROVE c[Len(n) + 2 + i] = v[i]
  <2>1. PICK k \in 1..Len(b) : k = Len(a) + i
    BY <1>1, <1>8
  <2>2. k = Len(n) + 2 + i
    BY <1>8, <2>1
  <2> QED BY <1>6, <1>7, <2>1, <2>2
<1>13. c[Len(n) + Len(v) + 3] = CR /\ c[Len(n) + Len(v) + 4] = LF
  <2>1. Len(b) + 1 = Len(n) + Len(v) + 3 /\ Len(b) + 2 = Len(n) + Len(v) + 4
        /\ 1 \in 1..2 /\ 2 \in 1..2
    BY <1>1, <1>8
  <2> QED BY <1>3, <1>7, <2>1
<1>14. LineAt(c, n, v)
  BY <1>7, <1>8, <1>10, <1>11, <1>12, <1>13 DEF LineAt
<1> QED BY <1>2, <1>4, <1>14

(* The first character is none of the blanks, and LF is at the end only.   *)
OneLine(l) ==
    /\ l \in Seq(Char) /\ Len(l) > 0 /\ l[1] \notin Blank
    /\ \A i \in 1..Len(l) : l[i] = LF <=> i = Len(l)

LEMMA HeaderLineIs ==
    ASSUME NEW m \in Message, NEW i \in 1..Len(Names)
    PROVE  /\ LineAt(HeaderLine(m, i), Names[i], m.values[i])
           /\ OneLine(HeaderLine(m, i))
<1>1. PICK n, v, l : n = Names[i] /\ v = m.values[i] /\ l = HeaderLine(m, i)
  OBVIOUS
<1>2. /\ n \in Seq(Char) /\ Len(n) \in Nat /\ Len(n) > 0
      /\ \A k \in 1..Len(n) : n[k] \in Letters
  BY <1>1, NameTyped
<1>3. /\ v \in Seq(Char) /\ Len(v) \in Nat
      /\ \A k \in 1..Len(v) : v[k] # LF
  BY <1>1, ValueTyped
<1>4. LineAt(l, n, v)
  BY <1>1, <1>2, <1>3, LineIs DEF HeaderLine
<1>5. PICK x \in Nat, y \in Nat : x = Len(n) /\ y = Len(v)
  BY <1>2, <1>3
<1>6. /\ l \in Seq(Char) /\ Len(l) = x + y + 4 /\ x > 0
      /\ \A k \in 1..x : l[k] = n[k]
      /\ l[x + 1] = Colon /\ l[x + 2] = Space
      /\ \A k \in 1..y : l[x + 2 + k] = v[k]
      /\ l[x + y + 3] = CR /\ l[x + y + 4] = LF
  BY <1>2, <1>4, <1>5 DEF LineAt
<1>7. l[1] \notin Blank
  <2>1. 1 \in 1..x
    BY <1>6
  <2>2. l[1] = n[1] /\ n[1] \in Letters
    BY <1>2, <1>5, <1>6, <2>1
  <2> QED BY <2>2, CharFacts
<1>8. ASSUME NEW k \in 1..(x + y + 4) PROVE l[k] = LF <=> k = x + y + 4
  <2>1. CASE k \in 1..x
    <3>1. l[k] = n[k] /\ n[k] \in Letters
      BY <1>2, <1>5, <1>6, <2>1
    <3>2. k # x + y + 4
      BY <2>1
    <3> QED BY <3>1, <3>2, CharFacts
  <2>2. CASE k \in {x + 1, x + 2, x + y + 3}
    <3>1. l[k] \in {Colon, Space, CR}
      BY <1>6, <2>2
    <3>2. k # x + y + 4
      BY <2>2
    <3> QED BY <3>1, <3>2, CharFacts
  <2>3. CASE k \in (x + 3)..(x + y + 2)
    <3>1. PICK j \in 1..y : j = k - x - 2
      BY <2>3
    <3>2. k = x + 2 + j /\ k # x + y + 4
      BY <2>3, <3>1
    <3>3. l[k] = v[j] /\ v[j] # LF
      BY <1>3, <1>5, <1>6, <3>2
    <3> QED BY <3>2, <3>3
  <2>4. CASE k = x + y + 4
    BY <1>6, <2>4
  <2>5. \/ k \in 1..x \/ k \in {x + 1, x + 2, x + y + 3}
        \/ k \in (x + 3)..(x + y + 2) \/ k = x + y + 4
    OBVIOUS
  <2> QED BY <2>1, <2>2, <2>3, <2>4, <2>5
<1>9. OneLine(l)
  <2>1. Len(l) > 0 /\ Len(l) \in Nat
    BY <1>6
  <2> QED BY <1>6, <1>7, <1>8, <2>1 DEF OneLine
<1> QED BY <1>1, <1>4, <1>9

(* Lines one behind the other: behind an LF that is not the last character *)
(* there is none of the blanks.                                            *)
Framed(t) ==
    /\ t \in Seq(Char) /\ Len(t) > 0 /\ t[1] \notin Blank /\ t[Len(t)] = LF
    /\ \A i \in 1..(Len(t) - 1) : t[i] = LF => t[i + 1] \notin Blank

LEMMA OneMoreLine ==
    ASSUME NEW a, NEW b, Framed(a), OneLine(b) PROVE Framed(a \o b)
<1>1. /\ a \in Seq(Char) /\ Len(a) \in Nat /\ Len(a) > 0
      /\ b \in Seq(Char) /\ Len(b) \in Nat /\ Len(b) > 0
  BY DEF Framed, OneLine
<1>2. PICK x \in Nat, y \in Nat, c \in {a \o b} : x = Len(a) /\ y = Len(b)
  BY <1>1
<1>3. c = a \o b /\ Joined(c, a, b)
  BY <1>1, ConcatAt
<1>4. /\ c \in Seq(Char) /\ Len(c) = x + y /\ x > 0 /\ y > 0
      /\ \A i \in 1..x : c[i] = a[i]
      /\ \A i \in 1..y : c[x + i] = b[i]
  BY <1>1, <1>2, <1>3 DEF Joined
<1>5. c[1] \notin Blank /\ c[x + y] = LF
  <2>1. 1 \in 1..x /\ y \in 1..y
    BY <1>4
  <2> QED BY <1>2, <1>4, <2>1 DEF Framed, OneLine
<1>6. ASSUME NEW i \in 1..(x + y - 1), c[i] = LF PROVE c[i + 1] \notin Blank
  <2>1. CASE i < x
    <3>1. i \in 1..(x - 1) /\ i \in 1..x /\ i + 1 \in 1..x
      BY <2>1
    <3>2. a[i] = LF /\ c[i + 1] = a[i + 1]
      BY <1>4, <1>6, <3>1
    <3> QED BY <1>2, <3>1, <3>2 DEF Framed
  <2>2. CASE i = x
    <3>1. 1 \in 1..y
      BY <1>4
    <3>2. c[i + 1] = b[1]
      BY <1>4, <2>2, <3>1
    <3> QED BY <3>2 DEF OneLine
  <2>3. CASE i > x
    <3>1. PICK j \in 1..y : j = i - x /\ j # y
      BY <2>3
    <3>2. x + j = i
      BY <3>1
    <3>3. c[i] = b[j]
      BY <1>4, <3>2
    <3> QED BY <1>2, <1>6, <3>1, <3>3 DEF OneLine
  <2> QED BY <2>1, <2>2, <2>3
<1>7. Len(c) \in Nat /\ Len(c) > 0
  BY <1>4
<1> QED BY <1>2, <1>3, <1>4, <1>5, <1>6, <1>7 DEF Framed

LEMMA BlockIs ==
    ASSUME NEW m \in Message
    PROVE  /\ Block(m) \in Seq(Char) /\ Len(Block(m)) \in Nat
           /\ Len(Block(m)) # 0 => Framed(Block(m))
<1>1. PICK l : l = [i \in DOMAIN Names |-> HeaderLine(m, i)]
  OBVIOUS
<1>2. PICK N \in Nat : N = Len(Names) /\ DOMAIN Names = 1..N
  BY HeaderAssumption
<1>3. \A i \in 1..N : OneLine(l[i])
  BY <1>1, <1>2, HeaderLineIs
<1>4. l \in Seq(Seq(Char)) /\ Len(l) = N
  <2>1. \A i \in 1..N : l[i] \in Seq(Char)
    BY <1>3 DEF OneLine
  <2> QED BY <1>1, <1>2, <2>1
<1>5. Block(m) = FlattenSeq(l)
  BY <1>1 DEF Block
<1>6. CASE N = 0
  <2>1. l = <<>>
    BY <1>4, <1>6
  <2>2. FlattenSeq(l) = <<>>
    BY <2>1, <1>4, <1>6, Zenon DEF FlattenSeq
  <2> QED BY <1>5, <2>2
<1>7. CASE N # 0
  <2>1. l # <<>>
    BY <1>4, <1>7
  <2>2. PICK f \in [1..N -> Seq(Char)] :
           /\ FlattenSeq(l) = f[N] /\ f[1] = l[1]
           /\ \A n \in 2..N : f[n] = f[n - 1] \o l[n]
    BY <1>4, <2>1, FlattenIs
  <2> DEFINE I == {n \in Nat : n \in 1..N => Framed(f[n])}
  <2>3. 0 \in I
    OBVIOUS
  <2>4. ASSUME NEW n \in Nat, n \in I PROVE n + 1 \in I
    <3>1. CASE n + 1 \in 1..N
      <4>1. PICK k \in 1..N : k = n + 1
        BY <3>1
      <4>2. OneLine(l[k])
        BY <1>3
      <4>3. CASE k = 1
        <5>1. \A i \in 1..Len(l[1]) : l[1][i] = LF <=> i = Len(l[1])
          BY <4>2, <4>3 DEF OneLine
        <5>2. Len(l[1]) \in Nat /\ Len(l[1]) > 0
          BY <4>2, <4>3 DEF OneLine
        <5>3. l[1][Len(l[1])] = LF
          BY <5>1, <5>2
        <5>4. \A i \in 1..(Len(l[1]) - 1) : l[1][i] # LF
          BY <5>1, <5>2
        <5>5. Framed(l[1])
          BY <4>2, <4>3, <5>2, <5>3, <5>4 DEF OneLine, Framed
        <5> QED BY <2>2, <4>1, <4>3, <5>5
      <4>4. CASE k # 1
        <5>1. k \in 2..N /\ k - 1 = n /\ n \in 1..N
          BY <4>1, <4>4
        <5>2. f[k] = f[n] \o l[k] /\ Framed(f[n])
          BY <2>2, <2>4, <5>1
        <5>3. Framed(f[k])
          BY <4>2, <5>2, OneMoreLine
        <5> QED BY <4>1, <5>3
      <4> QED BY <4>3, <4>4
    <3> QED BY <3>1
  <2>5. Nat \subseteq I
    <3> HIDE DEF I
    <3> QED BY <2>3, <2>4, NatInductionOnSet
  <2>6. Framed(f[N])
    BY <1>7, <2>5
  <2>7. f[N] \in Seq(Char) /\ Len(f[N]) \in Nat
    BY <2>6 DEF Framed
  <2> QED BY <1>5, <2>2, <2>6, <2>7
<1> QED BY <1>6, <1>7

(* The text of a message: x characters of the first line, y of the headers.*)
TextAt(t, m, x, y) ==
    /\ t \in Seq(Char) /\ x \in Nat /\ y \in Nat
    /\ x = Len(m.first) /\ y = Len(Block(m)) /\ Len(t) = x + y + 4
    /\ \A i \in 1..x : t[i] # LF /\ t[i] # NUL
    /\ \A i \in 1..x : t[i] = m.first[i]
    /\ t[x + 1] = CR /\ t[x + 2] = LF
    /\ \A i \in 1..y : t[x + 2 + i] = Block(m)[i]
    /\ t[x + y + 3] = CR /\ t[x + y + 4] = LF

LEMMA TextIs ==
    ASSUME NEW m \in Message
    PROVE  \E x, y : TextAt(to_string(m), m, x, y)
<1>1. PICK p, h, q : p = m.first /\ h = Block(m) /\ q = <<CR, LF>>
  OBVIOUS
<1>2. /\ p \in Seq(Char) /\ h \in Seq(Char)
      /\ \A i \in 1..Len(p) : p[i] # LF /\ p[i] # NUL
      /\ q \in Seq(Char) /\ Len(q) = 2 /\ q[1] = CR /\ q[2] = LF
  BY <1>1, MessageTyped, BlockIs, CharFacts
<1>3. PICK x \in Nat, y \in Nat : x = Len(p) /\ y = Len(h)
  BY <1>2
<1>4. PICK a, b, t : a = p \o q /\ b = a \o h /\ t = b \o q
  OBVIOUS
<1>5. /\ a \in Seq(Char) /\ Len(a) = x + 2
      /\ \A i \in 1..x : a[i] = p[i]
      /\ \A i \in 1..2 : a[x + i] = q[i]
  <2>1. Joined(a, p, q)
    BY <1>2, <1>4, ConcatAt
  <2> QED BY <1>2, <1>3, <2>1 DEF Joined
<1>6. /\ b \in Seq(Char) /\ Len(b) = x + 2 + y
      /\ \A i \in 1..(x + 2) : b[i] = a[i]
      /\ \A i \in 1..y : b[x + 2 + i] = h[i]
  <2>1. Joined(b, a, h)
    BY <1>2, <1>4, <1>5, ConcatAt
  <2> QED BY <1>3, <1>5, <2>1 DEF Joined
<1>7. /\ t \in Seq(Char) /\ Len(t) = x + 2 + y + 2
      /\ \A i \in 1..(x + 2 + y) : t[i] = b[i]
      /\ \A i \in 1..2 : t[x + 2 + y + i] = q[i]
  <2>1. Joined(t, b, q)
    BY <1>2, <1>4, <1>6, ConcatAt
  <2> QED BY <1>2, <1>3, <1>6, <2>1 DEF Joined
<1>8. ASSUME NEW i \in 1..x PROVE t[i] = p[i]
  <2>1. i \in 1..(x + 2) /\ i \in 1..(x + 2 + y)
    OBVIOUS
  <2> QED BY <1>5, <1>6, <1>7, <2>1
<1>9. t[x + 1] = CR /\ t[x + 2] = LF
  <2>1. /\ x + 1 \in 1..(x + 2) /\ x + 2 \in 1..(x + 2) /\ 1 \in 1..2 /\ 2 \in 1..2
        /\ x + 1 \in 1..(x + 2 + y) /\ x + 2 \in 1..(x + 2 + y)
    OBVIOUS
  <2> QED BY <1>2, <1>5, <1>6, <1>7, <2>1
<1>10. ASSUME NEW i \in 1..y PROVE t[x + 2 + i] = h[i]
  <2>1. x + 2 + i \in 1..(x + 2 + y)
    OBVIOUS
  <2> QED BY <1>6, <1>7, <2>1
<1>11. t[x + y + 3] = CR /\ t[x + y + 4] = LF
  <2>1. x + 2 + y + 1 = x + y + 3 /\ x + 2 + y + 2 = x + y + 4
        /\ 1 \in 1..2 /\ 2 \in 1..2
    OBVIOUS
  <2> QED BY <1>2, <1>7, <2>1
<1>12. TextAt(t, m, x, y)
  <2>1. Len(t) = x + y + 4
    BY <1>7
  <2>2. \A i \in 1..x : t[i] # LF /\ t[i] # NUL
    BY <1>2, <1>3, <1>8
  <2> QED BY <1>1, <1>3, <1>7, <1>8, <1>9, <1>10, <1>11, <2>1, <2>2 DEF TextAt
<1>13. t = to_string(m)
  BY <1>1, <1>4 DEF to_string, Block
<1> QED BY <1>12, <1>13

(* What arrives of it.                                                     *)
LEMMA RawIs ==
    ASSUME NEW t \in Seq(Char), Len(t) > 0, NEW n \in 0..Len(t)
    PROVE  /\ Raw(t, n) \in Seq(Char)
           /\ Len(Raw(t, n)) = IF n = Len(t) THEN n - 1 ELSE n + 1
           /\ \A i \in 1..n : n # Len(t) => Raw(t, n)[i] = t[i]
           /\ \A i \in 1..(n - 1) : n = Len(t) => Raw(t, n)[i] = t[i]
           /\ n # Len(t) => Raw(t, n)[n + 1] = NUL
<1>1. Len(t) \in Nat /\ n \in Nat /\ n <= Len(t)
  OBVIOUS
<1>2. CASE n = Len(t)
  <2>1. Raw(t, n) = SubSeq(t, 1, n - 1)
    BY <1>2 DEF Raw
  <2>2. 1 \in 1..(Len(t) + 1) /\ n - 1 \in 0..Len(t) /\ 1 <= n - 1 + 1
    BY <1>1, <1>2
  <2>3. /\ SubSeq(t, 1, n - 1) \in Seq(Char)
        /\ Len(SubSeq(t, 1, n - 1)) = n - 1 - 1 + 1
        /\ \A i \in 1..(n - 1 - 1 + 1) : SubSeq(t, 1, n - 1)[i] = t[1 + i - 1]
    BY <2>2, PieceIs
  <2>4. n - 1 - 1 + 1 = n - 1 /\ \A i \in 1..(n - 1) : 1 + i - 1 = i
    BY <1>1
  <2> QED BY <1>2, <2>1, <2>3, <2>4
<1>3. CASE n # Len(t)
  <2>1. PICK a, b : a = SubSeq(t, 1, n) /\ b = <<NUL>>
    OBVIOUS
  <2>2. 1 \in 1..(Len(t) + 1) /\ n \in 0..Len(t) /\ 1 <= n + 1 /\ n - 1 + 1 = n
        /\ \A i \in 1..n : 1 + i - 1 = i
    BY <1>1
  <2>3. /\ a \in Seq(Char) /\ Len(a) = n - 1 + 1
        /\ \A i \in 1..(n - 1 + 1) : a[i] = t[1 + i - 1]
    BY <2>1, <2>2, PieceIs
  <2>4. a \in Seq(Char) /\ Len(a) = n /\ \A i \in 1..n : a[i] = t[i]
    BY <2>2, <2>3
  <2>5. b \in Seq(Char) /\ Len(b) = 1 /\ b[1] = NUL
    BY <2>1, CharFacts
  <2>6. Joined(a \o b, a, b)
    BY <2>4, <2>5, ConcatAt
  <2>7. Raw(t, n) = a \o b
    BY <1>3, <2>1 DEF Raw
  <2>8. 1 \in 1..1
    OBVIOUS
  <2> QED BY <1>3, <2>4, <2>5, <2>6, <2>7, <2>8 DEF Joined
<1> QED BY <1>2, <1>3

-----------------------------------------------------------------------------
(* split().                                                                *)

(* p has the positions of c in the first n characters, in order.           *)
Enumerates(p, text, c, n) ==
    /\ p \in Seq(Nat)
    /\ \A k \in 1..Len(p) : p[k] \in 1..n /\ text[p[k]] = c
    /\ \A k, l \in 1..Len(p) : k < l => p[k] < p[l]
    /\ \A i \in 1..n : text[i] = c => \E k \in 1..Len(p) : p[k] = i

LEMMA OneMorePosition ==
    ASSUME NEW text, NEW c, NEW n \in Nat, NEW p, Enumerates(p, text, c, n),
           text[n + 1] = c
    PROVE  Enumerates(Append(p, n + 1), text, c, n + 1)
<1>1. PICK L \in Nat, m \in Nat : L = Len(p) /\ m = n + 1
  <2>1. p \in Seq(Nat)
    BY DEF Enumerates
  <2> QED BY <2>1
<1> DEFINE q == Append(p, m)
<1>2. /\ p \in Seq(Nat) /\ \A k \in 1..L : p[k] \in 1..n /\ text[p[k]] = c
      /\ \A k, l \in 1..L : k < l => p[k] < p[l]
      /\ \A i \in 1..n : text[i] = c => \E k \in 1..L : p[k] = i
  BY <1>1 DEF Enumerates
<1>3. /\ q \in Seq(Nat) /\ Len(q) = L + 1 /\ q[L + 1] = m
      /\ \A k \in 1..L : q[k] = p[k]
  BY <1>1, <1>2
<1> HIDE DEF q
<1>4. ASSUME NEW k \in 1..(L + 1) PROVE q[k] \in 1..m /\ text[q[k]] = c
  <2>1. CASE k = L + 1
    BY <1>1, <1>3, <2>1
  <2>2. CASE k # L + 1
    <3>1. k \in 1..L
      BY <2>2
    <3>2. q[k] = p[k] /\ p[k] \in 1..n /\ text[p[k]] = c
      BY <1>2, <1>3, <3>1
    <3> QED BY <1>1, <3>2
  <2> QED BY <2>1, <2>2
<1>5. ASSUME NEW k \in 1..(L + 1), NEW l \in 1..(L + 1), k < l PROVE q[k] < q[l]
  <2>1. k \in 1..L
    BY <1>5
  <2>2. q[k] = p[k] /\ p[k] \in 1..n
    BY <1>2, <1>3, <2>1
  <2>3. CASE l = L + 1
    BY <1>1, <1>3, <2>2, <2>3
  <2>4. CASE l # L + 1
    <3>1. l \in 1..L
      BY <2>4
    <3> QED BY <1>2, <1>3, <1>5, <2>1, <3>1
  <2> QED BY <2>3, <2>4
<1>6. ASSUME NEW i \in 1..m, text[i] = c PROVE \E k \in 1..(L + 1) : q[k] = i
  <2>1. CASE i = m
    <3>1. L + 1 \in 1..(L + 1)
      OBVIOUS
    <3> QED BY <1>3, <2>1, <3>1
  <2>2. CASE i # m
    <3>1. i \in 1..n
      BY <1>1, <2>2
    <3>2. PICK k \in 1..L : p[k] = i
      BY <1>2, <1>6, <3>1
    <3>3. k \in 1..(L + 1)
      OBVIOUS
    <3> QED BY <1>3, <3>2, <3>3
  <2> QED BY <2>1, <2>2
<1>7. Enumerates(q, text, c, m)
  BY <1>3, <1>4, <1>5, <1>6 DEF Enumerates
<1> QED BY <1>1, <1>7 DEF q

LEMMA SamePositions ==
    ASSUME NEW text, NEW c, NEW n \in Nat, NEW p, Enumerates(p, text, c, n),
           text[n + 1] # c
    PROVE  Enumerates(p, text, c, n + 1)
<1>1. \A k \in 1..Len(p) : p[k] \in 1..(n + 1)
  BY DEF Enumerates
<1>2. ASSUME NEW i \in 1..(n + 1), text[i] = c PROVE i \in 1..n
  BY <1>2
<1> QED BY <1>1, <1>2 DEF Enumerates

LEMMA PositionsEnumerate ==
    ASSUME NEW text \in Seq(Char), NEW c
    PROVE  Enumerates(Positions(text, c), text, c, Len(text))
<1>1. PICK N \in Nat : N = Len(text)
  OBVIOUS
<1>2. PICK f : /\ f \in [0..N -> Seq(Nat)]
               /\ Positions(text, c) = f[N] /\ f[0] = <<>>
               /\ \A n \in 1..N : f[n] = IF text[n] = c THEN Append(f[n - 1], n)
                                      ELSE f[n - 1]
  <2>1. PICK f : Found(f, text, c) /\ Positions(text, c) = f[Len(text)]
    BY PositionsIs
  <2> QED BY <1>1, <2>1 DEF Found
<1> DEFINE I == {n \in Nat : n \in 0..N => Enumerates(f[n], text, c, n)}
<1>3. 0 \in I
  <2>1. f[0] \in Seq(Nat) /\ Len(f[0]) = 0
    BY <1>2
  <2>2. Enumerates(f[0], text, c, 0)
    BY <2>1 DEF Enumerates
  <2> QED BY <2>2
<1>4. ASSUME NEW n \in Nat, n \in I PROVE n + 1 \in I
  <2>1. CASE n + 1 \in 0..N
    <3>1. n \in 0..N /\ n + 1 \in 1..N /\ n + 1 - 1 = n
      BY <2>1
    <3>2. Enumerates(f[n], text, c, n)
      BY <1>4, <3>1
    <3>3. f[n + 1] = IF text[n + 1] = c THEN Append(f[n], n + 1) ELSE f[n]
      BY <1>2, <3>1
    <3>4. Enumerates(f[n + 1], text, c, n + 1)
      BY <3>2, <3>3, OneMorePosition, SamePositions
    <3> QED BY <3>4
  <2> QED BY <2>1
<1>5. Nat \subseteq I
  <2> HIDE DEF I
  <2> QED BY <1>3, <1>4, NatInductionOnSet
<1>6. Enumerates(f[N], text, c, N)
  BY <1>5
<1> QED BY <1>1, <1>2, <1>6

(* Where split() cuts the text: at the first K delimiters, which are all   *)
(* of them unless max pieces are reached.                                  *)
Cuts(z, K, text, c, max) ==
    /\ K \in Nat /\ z \in [0..K -> 0..Len(text)] /\ z[0] = 0 /\ K < max
    /\ \A k \in 1..K :
          /\ z[k - 1] < z[k] /\ text[z[k]] = c
          /\ \A i \in (z[k - 1] + 1)..(z[k] - 1) : text[i] # c
    /\ K = max - 1 \/ \A i \in (z[K] + 1)..Len(text) : text[i] # c

PieceAt(z, text, k) == SubSeq(text, z[k - 1] + 1, z[k] - 1)

SplitAt(r, z, K, text) ==
    r = WithRest([k \in 1..K |-> PieceAt(z, text, k)],
                 SubSeq(text, z[K] + 1, Len(text)))

LEMMA SplitIs ==
    ASSUME NEW text \in Seq(Char), NEW c, NEW max \in Nat, max # 0
    PROVE  \E z, K : /\ Cuts(z, K, text, c, max)
                     /\ SplitAt(split(text, c, max), z, K, text)
<1>1. PICK p : p = Positions(text, c)
  OBVIOUS
<1>2. Enumerates(p, text, c, Len(text))
  BY <1>1, PositionsEnumerate
<1>3. PICK N \in Nat, L \in Nat : N = Len(text) /\ L = Len(p)
  <2>1. p \in Seq(Nat)
    BY <1>2 DEF Enumerates
  <2> QED BY <2>1
<1>4. /\ p \in Seq(Nat) /\ \A k \in 1..L : p[k] \in 1..N /\ text[p[k]] = c
      /\ \A k, l \in 1..L : k < l => p[k] < p[l]
      /\ \A i \in 1..N : text[i] = c => \E k \in 1..L : p[k] = i
  BY <1>3, <1>2 DEF Enumerates
<1>5. PICK K \in Nat : K = IF L < max THEN L ELSE max - 1
  OBVIOUS
<1>6. K <= L /\ K < max /\ (K = max - 1 \/ K = L)
  BY <1>5
<1>7. PICK s, e : s = Splits(p, max) /\ e = <<0>> \o s
  OBVIOUS
<1>8. s \in Seq(Nat) /\ Len(s) = K /\ \A k \in 1..K : s[k] = p[k]
  <2>1. s = SubSeq(p, 1, K)
    BY <1>3, <1>5, <1>7 DEF Splits
  <2>2. s = [k \in 1..K |-> p[1 + k - 1]]
    BY <1>4, <2>1
  <2>3. \A k \in 1..K : 1 + k - 1 = k /\ k \in 1..L
    BY <1>6
  <2>4. \A k \in 1..K : s[k] = p[k] /\ p[k] \in Nat
    BY <1>3, <1>4, <2>2, <2>3
  <2> QED BY <2>2, <2>4
<1>9. /\ Len(e) = K + 1 /\ e[1] = 0 /\ \A k \in 1..K : e[k + 1] = s[k]
  <2>1. <<0>> \in Seq(Nat) /\ Len(<<0>>) = 1 /\ <<0>>[1] = 0
    OBVIOUS
  <2>2. /\ Len(e) = 1 + K
        /\ \A i \in 1..(1 + K) : e[i] = IF i <= 1 THEN <<0>>[i] ELSE s[i - 1]
    BY <1>7, <1>8, <2>1, ConcatProperties
  <2>3. ASSUME NEW k \in 1..K PROVE e[k + 1] = s[k]
    <3>1. PICK i \in 1..(1 + K) : i = k + 1 /\ ~(i <= 1) /\ i - 1 = k
      OBVIOUS
    <3> QED BY <2>2, <3>1
  <2>4. 1 \in 1..(1 + K)
    OBVIOUS
  <2> QED BY <2>1, <2>2, <2>3, <2>4
<1> DEFINE z == [k \in 0..K |-> IF k = 0 THEN 0 ELSE p[k]]
<1>10. z[0] = 0 /\ \A k \in 1..K : z[k] = p[k]
  OBVIOUS
<1>11. z \in [0..K -> 0..N]
  <2>1. \A k \in 1..K : p[k] \in 0..N
    BY <1>4, <1>6
  <2> QED BY <2>1
<1> HIDE DEF z
<1>12. \A k \in 0..K : e[k + 1] = z[k]
  <2>1. ASSUME NEW k \in 0..K PROVE e[k + 1] = z[k]
    <3>1. CASE k = 0
      BY <1>9, <1>10, <3>1
    <3>2. CASE k # 0
      <4>1. k \in 1..K
        BY <3>2
      <4> QED BY <1>8, <1>9, <1>10, <4>1
    <3> QED BY <3>1, <3>2
  <2> QED BY <2>1
<1>13. ASSUME NEW k \in 1..K
       PROVE  /\ z[k - 1] < z[k] /\ text[z[k]] = c
              /\ \A i \in (z[k - 1] + 1)..(z[k] - 1) : text[i] # c
  <2>1. z[k] = p[k] /\ k \in 1..L
    BY <1>6, <1>10
  <2>2. p[k] \in 1..N /\ text[p[k]] = c
    BY <1>4, <2>1
  <2>3. CASE k = 1
    <3>1. z[k - 1] = 0
      BY <1>10, <2>3
    <3>2. ASSUME NEW i \in 1..(p[k] - 1), text[i] = c PROVE FALSE
      <4>1. i \in 1..N /\ i < p[k]
        BY <2>2
      <4>2. PICK l \in 1..L : p[l] = i
        BY <1>4, <3>2, <4>1
      <4>3. k < l \/ k = l
        BY <2>3
      <4> QED BY <1>4, <2>1, <2>2, <4>1, <4>2, <4>3
    <3> QED BY <2>1, <2>2, <3>1, <3>2
  <2>4. CASE k # 1
    <3>1. PICK j \in 1..K : j = k - 1
      BY <2>4
    <3>2. z[j] = p[j] /\ j \in 1..L /\ j < k
      BY <1>6, <1>10, <3>1
    <3>3. p[j] < p[k] /\ p[j] \in 1..N
      BY <1>4, <2>1, <3>2
    <3>4. ASSUME NEW i \in (p[j] + 1)..(p[k] - 1), text[i] = c PROVE FALSE
      <4>1. i \in 1..N /\ i < p[k] /\ p[j] < i
        BY <2>2, <3>3
      <4>2. PICK l \in 1..L : p[l] = i
        BY <1>4, <3>4, <4>1
      <4>3. k < l \/ k = l \/ l = j \/ l < j
        BY <3>1
      <4>4. ~(p[k] < i) /\ p[k] # i /\ p[j] # i /\ ~(i < p[j])
        BY <2>2, <3>3, <4>1
      <4> QED BY <1>4, <2>1, <3>2, <4>2, <4>3, <4>4
    <3> QED BY <2>1, <2>2, <3>1, <3>2, <3>3, <3>4
  <2> QED BY <2>3, <2>4
<1>14. K = max - 1 \/ \A i \in (z[K] + 1)..N : text[i] # c
  <2>1. SUFFICES ASSUME K = L, NEW i \in (z[K] + 1)..N, text[i] = c PROVE FALSE
    BY <1>6
  <2>2. z[K] \in 0..N
    BY <1>11
  <2>3. i \in 1..N /\ z[K] < i
    BY <2>2
  <2>4. PICK l \in 1..L : p[l] = i
    BY <1>4, <2>1, <2>3
  <2>5. z[K] = p[K] /\ K \in 1..L /\ z[K] \in Nat
    BY <1>10, <2>1, <2>2
  <2>6. l = K \/ l < K
    BY <2>1
  <2>7. ~(i < z[K]) /\ i # z[K]
    BY <2>2, <2>3
  <2> QED BY <1>4, <2>4, <2>5, <2>6, <2>7
<1>15. Cuts(z, K, text, c, max)
  BY <1>3, <1>6, <1>10, <1>11, <1>13, <1>14 DEF Cuts
<1>16. SplitAt(split(text, c, max), z, K, text)
  <2>1. split(text, c, max)
           = WithRest([k \in 1..(Len(e) - 1) |->
                          SubSeq(text, e[k] + 1, e[k + 1] - 1)],
                      SubSeq(text, e[Len(e)] + 1, Len(text)))
    BY <1>3, <1>7, <1>1 DEF split
  <2>2. Len(e) - 1 = K /\ e[Len(e)] = z[K]
    BY <1>9, <1>12
  <2>3. [k \in 1..K |-> SubSeq(text, e[k] + 1, e[k + 1] - 1)]
           = [k \in 1..K |-> PieceAt(z, text, k)]
    <3>1. ASSUME NEW k \in 1..K PROVE e[k] = z[k - 1] /\ e[k + 1] = z[k]
      <4>1. PICK j \in 0..K : j = k - 1 /\ j + 1 = k
        OBVIOUS
      <4>2. k \in 0..K
        OBVIOUS
      <4> QED BY <1>12, <4>1, <4>2
    <3> QED BY <3>1 DEF PieceAt
  <2> QED BY <2>1, <2>2, <2>3 DEF SplitAt
<1> QED BY <1>15, <1>16

(* The pieces of a text are texts, and not more of them than allowed.      *)
LEMMA PieceTyped ==
    ASSUME NEW text \in Seq(Char), NEW c, NEW max, NEW z, NEW K,
           Cuts(z, K, text, c, max), NEW k \in 1..K
    PROVE  /\ z[k - 1] \in 0..Len(text) /\ z[k] \in 1..Len(text)
           /\ z[k - 1] < z[k] /\ PieceAt(z, text, k) \in Seq(Char)
           /\ Len(PieceAt(z, text, k)) = z[k] - z[k - 1] - 1
           /\ \A i \in 1..(z[k] - z[k - 1] - 1) :
                 PieceAt(z, text, k)[i] = text[z[k - 1] + i]
<1>1. Len(text) \in Nat /\ K \in Nat
  BY DEF Cuts
<1>2. k - 1 \in 0..K /\ k \in 0..K
  BY <1>1
<1>3. z[k - 1] \in 0..Len(text) /\ z[k] \in 0..Len(text) /\ z[k - 1] < z[k]
  BY <1>2 DEF Cuts
<1>4. PICK a \in Nat, b \in Nat : a = z[k - 1] /\ b = z[k]
  BY <1>1, <1>3
<1>5. a < b /\ b <= Len(text)
  BY <1>1, <1>3, <1>4
<1>6. /\ a + 1 \in 1..(Len(text) + 1) /\ b - 1 \in 0..Len(text) /\ a + 1 <= b - 1 + 1
      /\ b - 1 - (a + 1) + 1 = b - a - 1
      /\ \A i \in 1..(b - a - 1) : a + 1 + i - 1 = a + i
  BY <1>1, <1>5
<1>7. PICK r : r = SubSeq(text, a + 1, b - 1)
  OBVIOUS
<1>8. /\ r \in Seq(Char) /\ Len(r) = b - 1 - (a + 1) + 1
      /\ \A i \in 1..(b - 1 - (a + 1) + 1) : r[i] = text[a + 1 + i - 1]
  BY <1>6, <1>7, PieceIs
<1>9. /\ r \in Seq(Char) /\ Len(r) = b - a - 1
      /\ \A i \in 1..(b - a - 1) : r[i] = text[a + i]
  BY <1>6, <1>8
<1>10. r = PieceAt(z, text, k)
  BY <1>4, <1>7 DEF PieceAt
<1> QED BY <1>1, <1>3, <1>4, <1>5, <1>9, <1>10

(* What is behind position a of a text.                                    *)
LEMMA RestIs ==
    ASSUME NEW text \in Seq(Char), NEW a \in 0..Len(text)
    PROVE  /\ SubSeq(text, a + 1, Len(text)) \in Seq(Char)
           /\ Len(SubSeq(text, a + 1, Len(text))) = Len(text) - a
           /\ \A i \in 1..(Len(text) - a) :
                 SubSeq(text, a + 1, Len(text))[i] = text[a + i]
<1>1. PICK n \in Nat : n = Len(text)
  OBVIOUS
<1>2. /\ a + 1 \in 1..(n + 1) /\ n \in 0..n /\ a + 1 <= n + 1
      /\ n - (a + 1) + 1 = n - a
      /\ \A i \in 1..(n - a) : a + 1 + i - 1 = a + i
  BY <1>1
<1>3. PICK r : r = SubSeq(text, a + 1, n)
  OBVIOUS
<1>4. /\ r \in Seq(Char) /\ Len(r) = n - (a + 1) + 1
      /\ \A i \in 1..(n - (a + 1) + 1) : r[i] = text[a + 1 + i - 1]
  BY <1>1, <1>2, <1>3, PieceIs
<1> QED BY <1>1, <1>2, <1>3, <1>4

LEMMA SplitTyped ==
    ASSUME NEW text \in Seq(Char), NEW c, NEW max \in Nat, max # 0
    PROVE  /\ split(text, c, max) \in Seq(Seq(Char))
           /\ Len(split(text, c, max)) \in Nat /\ Len(split(text, c, max)) <= max
<1>1. PICK z, K : /\ Cuts(z, K, text, c, max)
                  /\ SplitAt(split(text, c, max), z, K, text)
  BY SplitIs
<1>2. K \in Nat /\ K < max /\ z[K] \in 0..Len(text)
  BY <1>1 DEF Cuts
<1>3. PICK p : p = [k \in 1..K |-> PieceAt(z, text, k)]
  OBVIOUS
<1>4. p \in Seq(Seq(Char)) /\ Len(p) = K
  <2>1. \A k \in 1..K : PieceAt(z, text, k) \in Seq(Char)
    BY <1>1, PieceTyped
  <2> QED BY <1>2, <1>3, <2>1
<1>5. PICK r : r = SubSeq(text, z[K] + 1, Len(text))
  OBVIOUS
<1>6. r \in Seq(Char)
  BY <1>2, <1>5, RestIs
<1>7. split(text, c, max) = WithRest(p, r)
  BY <1>1, <1>3, <1>5 DEF SplitAt
<1>8. WithRest(p, r) \in {p, Append(p, r)}
  BY DEF WithRest
<1>9. Append(p, r) \in Seq(Seq(Char)) /\ Len(Append(p, r)) = K + 1
  BY <1>4, <1>6
<1>10. \A s \in {p, Append(p, r)} : s \in Seq(Seq(Char)) /\ Len(s) \in {K, K + 1}
  BY <1>4, <1>9
<1>11. K \in Nat /\ K + 1 \in Nat /\ K + 1 <= max /\ K <= max
  BY <1>2
<1>12. PICK s : s = split(text, c, max)
  OBVIOUS
<1>13. s \in Seq(Seq(Char)) /\ Len(s) \in {K, K + 1}
  BY <1>7, <1>8, <1>10, <1>12
<1>14. Len(s) \in Nat /\ Len(s) <= max
  BY <1>11, <1>13
<1> QED BY <1>12, <1>13, <1>14

-----------------------------------------------------------------------------
(* trim().                                                                 *)

LEMMA ByteIs ==
    ASSUME NEW text \in Seq(Char)
    PROVE  /\ \A i \in 0..(Len(text) - 1) : Byte(text, i) = text[i + 1]
           /\ Byte(text, Len(text)) = NUL /\ Byte(text, -1) = NUL
           /\ Len(text) \in Nat
<1>1. Len(text) \in Nat
  OBVIOUS
<1>2. Len(text) \notin 0..(Len(text) - 1) /\ -1 \notin 0..(Len(text) - 1)
  BY <1>1
<1> QED BY <1>1, <1>2 DEF Byte

LEMMA StartIs ==
    ASSUME NEW text \in Seq(Char)
    PROVE  /\ start(text) \in 0..Len(text) /\ Byte(text, start(text)) \notin Blank
           /\ \A j \in 0..(start(text) - 1) : Byte(text, j) \in Blank
<1> DEFINE Kept == {i \in 0..Len(text) : Byte(text, i) \notin Blank}
<1>1. Len(text) \in Kept
  BY ByteIs, CharFacts
<1>2. PICK i \in Kept : \A j \in Kept : i <= j
  <2>1. Kept \subseteq Nat /\ Kept # {}
    BY <1>1
  <2> HIDE DEF Kept
  <2> QED BY <2>1, LeastElement
<1>3. \A j \in 0..(i - 1) : Byte(text, j) \in Blank
  <2>1. ASSUME NEW j \in 0..(i - 1), Byte(text, j) \notin Blank PROVE FALSE
    <3>1. j \in 0..Len(text) /\ j < i
      BY ByteIs
    <3> QED BY <1>2, <2>1, <3>1
  <2> QED BY <2>1
<1>4. \E k \in 0..Len(text) :
         Byte(text, k) \notin Blank /\ \A j \in 0..(k - 1) : Byte(text, j) \in Blank
  BY <1>3
<1> HIDE DEF Kept
<1> QED BY <1>4, Zenon DEF start

LEMMA EndIs ==
    ASSUME NEW text \in Seq(Char)
    PROVE  /\ end(text) \in -1..(Len(text) - 1) /\ Byte(text, end(text)) \notin Blank
           /\ \A j \in (end(text) + 1)..(Len(text) - 1) : Byte(text, j) \in Blank
<1>1. PICK N \in Nat : N = Len(text)
  OBVIOUS
<1> DEFINE Kept == {n \in 0..N : Byte(text, N - 1 - n) \notin Blank}
<1>2. N \in Kept
  <2>1. N - 1 - N = -1
    OBVIOUS
  <2> QED BY <2>1, ByteIs, CharFacts
<1>3. PICK n \in Kept : \A j \in Kept : n <= j
  <2>1. Kept \subseteq Nat /\ Kept # {}
    BY <1>2
  <2> HIDE DEF Kept
  <2> QED BY <2>1, LeastElement
<1>4. PICK i \in -1..(N - 1) : i = N - 1 - n
  OBVIOUS
<1>5. Byte(text, i) \notin Blank
  BY <1>4
<1>6. ASSUME NEW j \in (i + 1)..(N - 1), Byte(text, j) \notin Blank PROVE FALSE
  <2>1. PICK k \in 0..N : k = N - 1 - j
    BY <1>4
  <2>2. N - 1 - k = j /\ k < n
    BY <1>4, <2>1
  <2>3. k \in Kept
    BY <1>6, <2>2
  <2> QED BY <1>3, <2>2, <2>3
<1>7. \E k \in -1..(Len(text) - 1) :
         /\ Byte(text, k) \notin Blank
         /\ \A j \in (k + 1)..(Len(text) - 1) : Byte(text, j) \in Blank
  BY <1>1, <1>5, <1>6
<1> HIDE DEF Kept
<1> QED BY <1>7, Zenon DEF end

(* substr() of a place in the text.                                        *)
LEMMA SubstrTyped ==
    ASSUME NEW text \in Seq(Char), NEW a \in 0..Len(text), NEW n \in Nat
    PROVE  substr(text, a, n) \in Seq(Char)
<1>1. PICK b : b = IF a + n < Len(text) THEN a + n ELSE Len(text)
  OBVIOUS
<1>2. /\ a + 1 \in 1..(Len(text) + 1) /\ b \in 0..Len(text) /\ a + 1 <= b + 1
  BY <1>1
<1>3. SubSeq(text, a + 1, b) \in Seq(Char)
  BY <1>2, PieceIs
<1> QED BY <1>1, <1>3 DEF substr

LEMMA TrimTyped == ASSUME NEW text \in Seq(Char) PROVE trim(text) \in Seq(Char)
<1>1. PICK a \in 0..Len(text), b \in -1..(Len(text) - 1) :
         a = start(text) /\ b = end(text)
  BY StartIs, EndIs
<1>2. SizeRange \in Nat /\ SizeRange > 0
  BY DEF SizeRange
<1>3. b + 1 - a \in Int
  OBVIOUS
<1>4. (b + 1 - a) % SizeRange \in Nat
  BY <1>2, <1>3
<1> QED BY <1>1, <1>4, SubstrTyped DEF trim

-----------------------------------------------------------------------------
(* getline().                                                              *)

LEMMA FirstEndIs ==
    ASSUME NEW text \in Seq(Char), Ends(text) # {}
    PROVE  /\ FirstEnd(text) \in 1..Len(text) /\ text[FirstEnd(text)] = LF
           /\ \A j \in 1..(FirstEnd(text) - 1) : text[j] # LF
<1>1. Ends(text) \subseteq Nat /\ Len(text) \in Nat /\ DOMAIN text = 1..Len(text)
  BY DEF Ends
<1>2. \E i \in Ends(text) : \A j \in Ends(text) : i <= j
  BY <1>1, LeastElement
<1>3. PICK e : e = FirstEnd(text)
  OBVIOUS
<1>4. e \in Ends(text) /\ \A j \in Ends(text) : e <= j
  BY <1>2, <1>3, Zenon DEF FirstEnd
<1>5. e \in 1..Len(text) /\ text[e] = LF
  BY <1>1, <1>4 DEF Ends
<1>6. ASSUME NEW j \in 1..(e - 1), text[j] = LF PROVE FALSE
  <2>1. j \in 1..Len(text) /\ ~(e <= j)
    BY <1>1, <1>5
  <2>2. j \in Ends(text)
    BY <1>1, <1>6, <2>1 DEF Ends
  <2> QED BY <1>4, <2>1, <2>2
<1> QED BY <1>3, <1>5, <1>6

(* What is in front of the LF at e, and what is behind it.                 *)
CutAt(text, e) ==
    /\ LineOf(text) \in Seq(Char) /\ Len(LineOf(text)) = e - 1
    /\ \A i \in 1..(e - 1) : LineOf(text)[i] = text[i]
    /\ After(text) \in Seq(Char) /\ Len(After(text)) = Len(text) - e
    /\ \A i \in 1..(Len(text) - e) : After(text)[i] = text[e + i]

LEMMA GetLineCuts ==
    ASSUME NEW text \in Seq(Char), Ends(text) # {}
    PROVE  CutAt(text, FirstEnd(text))
<1>1. PICK n \in Nat, e \in 1..Len(text) : n = Len(text) /\ e = FirstEnd(text)
  BY FirstEndIs
<1>2. PICK l, a : l = SubSeq(text, 1, e - 1) /\ a = SubSeq(text, e + 1, n)
  OBVIOUS
<1>3. /\ l \in Seq(Char) /\ Len(l) = e - 1
      /\ \A i \in 1..(e - 1) : l[i] = text[i]
  <2>1. /\ 1 \in 1..(Len(text) + 1) /\ e - 1 \in 0..Len(text) /\ 1 <= e - 1 + 1
        /\ e - 1 - 1 + 1 = e - 1 /\ \A i \in 1..(e - 1) : 1 + i - 1 = i
    BY <1>1
  <2>2. /\ l \in Seq(Char) /\ Len(l) = e - 1 - 1 + 1
        /\ \A i \in 1..(e - 1 - 1 + 1) : l[i] = text[1 + i - 1]
    BY <1>2, <2>1, PieceIs
  <2> QED BY <2>1, <2>2
<1>4. /\ a \in Seq(Char) /\ Len(a) = n - e
      /\ \A i \in 1..(n - e) : a[i] = text[e + i]
  <2>1. e \in 0..Len(text)
    BY <1>1
  <2> QED BY <1>1, <1>2, <2>1, RestIs
<1>5. LineOf(text) = l /\ After(text) = a
  BY <1>1, <1>2 DEF LineOf, After
<1>6. CutAt(text, e)
  BY <1>1, <1>3, <1>4, <1>5 DEF CutAt
<1> QED BY <1>1, <1>6

LEMMA GetLineTyped ==
    ASSUME NEW text \in Seq(Char)
    PROVE  LineOf(text) \in Seq(Char) /\ After(text) \in Seq(Char)
<1>1. CASE Ends(text) = {}
  BY <1>1 DEF LineOf, After
<1>2. CASE Ends(text) # {}
  BY <1>2, GetLineCuts DEF CutAt
<1> QED BY <1>1, <1>2

(* Of such a text every line is a header, and so is every rest.            *)
Alive(u) ==
    /\ u \in Seq(Char) /\ Len(u) > 0 /\ u[1] \notin Blank
    /\ \A i \in 1..Len(u) : u[i] = LF => i < Len(u) /\ u[i + 1] \notin Blank

LEMMA AliveStays ==
    ASSUME NEW u, Alive(u)
    PROVE  IsHeader(LineOf(u)) /\ (Ends(u) # {} => Alive(After(u)))
<1>1. /\ u \in Seq(Char) /\ Len(u) \in Nat /\ Len(u) > 0 /\ 1 \in 1..Len(u)
      /\ u[1] \notin Blank /\ u # <<>>
  BY DEF Alive
<1>2. CASE Ends(u) = {}
  BY <1>1, <1>2 DEF LineOf, IsHeader
<1>3. CASE Ends(u) # {}
  <2>1. PICK e \in 1..Len(u) : e = FirstEnd(u)
    BY <1>1, <1>3, FirstEndIs
  <2>2. u[e] = LF /\ CutAt(u, e)
    BY <1>1, <1>3, <2>1, FirstEndIs, GetLineCuts
  <2>3. e # 1
    BY <1>1, <2>2, CharFacts
  <2>4. e < Len(u) /\ u[e + 1] \notin Blank
    BY <2>1, <2>2 DEF Alive
  <2>5. IsHeader(LineOf(u))
    <3>1. Len(LineOf(u)) > 0 /\ 1 \in 1..(e - 1) /\ LineOf(u) \in Seq(Char)
      BY <1>1, <2>1, <2>2, <2>3 DEF CutAt
    <3>2. LineOf(u)[1] = u[1]
      BY <2>2, <3>1 DEF CutAt
    <3> QED BY <1>1, <3>1, <3>2 DEF IsHeader
  <2>6. PICK a \in Seq(Char), n \in Nat : a = After(u) /\ n = Len(u) - e
    <3>1. After(u) \in Seq(Char)
      BY <2>2 DEF CutAt
    <3>2. Len(u) - e \in Nat
      BY <1>1
    <3> QED BY <3>1, <3>2
  <2>7. /\ a \in Seq(Char) /\ Len(a) = n /\ n > 0
        /\ \A i \in 1..n : a[i] = u[e + i]
    BY <1>1, <2>2, <2>4, <2>6 DEF CutAt
  <2>8. a[1] \notin Blank
    <3>1. 1 \in 1..n
      BY <2>7
    <3> QED BY <2>4, <2>7, <3>1
  <2>9. ASSUME NEW i \in 1..n, a[i] = LF PROVE i < n /\ a[i + 1] \notin Blank
    <3>1. PICK k \in 1..Len(u) : k = e + i
      BY <1>1, <2>1, <2>6
    <3>2. k < Len(u) /\ u[k + 1] \notin Blank
      BY <2>7, <2>9, <3>1 DEF Alive
    <3>3. i < n /\ i + 1 \in 1..n /\ k + 1 = e + (i + 1)
      BY <1>1, <2>1, <2>6, <3>1, <3>2
    <3> QED BY <2>7, <3>2, <3>3
  <2>10. Alive(a)
    BY <2>7, <2>8, <2>9 DEF Alive
  <2> QED BY <2>5, <2>6, <2>10
<1> QED BY <1>2, <1>3

(* A message that is cut off in its headers: behind the first line there   *)
(* is such a text.                                                         *)
LEMMA CutTextAlive ==
    ASSUME NEW m \in Message, NEW t, NEW x, NEW y, TextAt(t, m, x, y),
           NEW n \in Nat, x + 2 <= n, n <= x + y + 2
    PROVE  /\ Ends(Raw(t, n)) # {} /\ FirstEnd(Raw(t, n)) = x + 2
           /\ Alive(After(Raw(t, n)))
<1>1. /\ t \in Seq(Char) /\ x \in Nat /\ y \in Nat /\ Len(t) = x + y + 4
      /\ \A i \in 1..x : t[i] # LF
      /\ t[x + 1] = CR /\ t[x + 2] = LF
      /\ \A i \in 1..y : t[x + 2 + i] = Block(m)[i]
      /\ y = Len(Block(m))
  BY DEF TextAt
<1>2. PICK r : r = Raw(t, n)
  OBVIOUS
<1>3. /\ r \in Seq(Char) /\ Len(r) = n + 1
      /\ \A i \in 1..n : r[i] = t[i]
      /\ r[n + 1] = NUL
  <2>1. Len(t) > 0 /\ n \in 0..Len(t) /\ n # Len(t)
    BY <1>1
  <2> QED BY <1>1, <1>2, <2>1, RawIs
<1>4. r[x + 2] = LF /\ x + 2 \in DOMAIN r /\ x + 2 \in 1..Len(r)
  <2>1. x + 2 \in 1..n /\ x + 2 \in 1..(n + 1)
    BY <1>1
  <2> QED BY <1>1, <1>3, <2>1
<1>5. Ends(r) # {}
  BY <1>4 DEF Ends
<1>6. PICK e \in 1..Len(r) : e = FirstEnd(r)
  BY <1>3, <1>5, FirstEndIs
<1>7. r[e] = LF /\ (\A j \in 1..(e - 1) : r[j] # LF) /\ CutAt(r, e)
  BY <1>3, <1>5, <1>6, FirstEndIs, GetLineCuts
<1>8. e = x + 2
  <2>1. ~(x + 2 < e)
    <3>1. SUFFICES ASSUME x + 2 < e PROVE FALSE
      OBVIOUS
    <3>2. x + 2 \in 1..(e - 1)
      BY <1>1, <1>6, <3>1
    <3> QED BY <1>4, <1>7, <3>2
  <2>2. ~(e < x + 2)
    <3>1. SUFFICES ASSUME e < x + 2 PROVE FALSE
      OBVIOUS
    <3>2. e \in 1..n /\ (e \in 1..x \/ e = x + 1)
      BY <1>1, <1>3, <1>6, <3>1
    <3> QED BY <1>1, <1>3, <1>7, <3>2, CharFacts
  <2> QED BY <1>1, <1>3, <1>6, <2>1, <2>2
<1>9. PICK a \in Seq(Char), h \in 0..y : a = After(r) /\ h = n - (x + 2)
  BY <1>1, <1>7 DEF CutAt
<1>10. /\ a \in Seq(Char) /\ Len(a) = h + 1
       /\ \A i \in 1..(h + 1) : a[i] = r[x + 2 + i]
  <2>1. Len(r) - e = h + 1
    BY <1>1, <1>3, <1>8, <1>9
  <2> QED BY <1>7, <1>8, <1>9, <2>1 DEF CutAt
<1>11. a[h + 1] = NUL
  <2>1. h + 1 \in 1..(h + 1) /\ x + 2 + (h + 1) = n + 1
    BY <1>1, <1>9
  <2> QED BY <1>3, <1>10, <2>1
<1>12. ASSUME NEW i \in 1..h PROVE a[i] = Block(m)[i]
  <2>1. i \in 1..(h + 1) /\ x + 2 + i \in 1..n /\ i \in 1..y
    BY <1>1, <1>9
  <2> QED BY <1>1, <1>3, <1>10, <2>1
<1>13. h > 0 => Framed(Block(m))
  BY <1>1, BlockIs
<1>14. a[1] \notin Blank
  <2>1. CASE h = 0
    BY <1>11, <2>1, CharFacts
  <2>2. CASE h > 0
    <3>1. 1 \in 1..h
      BY <2>2
    <3> QED BY <1>12, <1>13, <2>2, <3>1 DEF Framed
  <2> QED BY <2>1, <2>2
<1>15. ASSUME NEW i \in 1..(h + 1), a[i] = LF
       PROVE  i < h + 1 /\ a[i + 1] \notin Blank
  <2>1. i # h + 1
    BY <1>11, <1>15, CharFacts
  <2>2. i \in 1..h /\ i < h + 1 /\ h > 0
    BY <2>1
  <2>3. CASE i = h
    <3>1. a[i + 1] = NUL
      BY <1>11, <2>3
    <3> QED BY <2>2, <3>1, CharFacts
  <2>4. CASE i # h
    <3>1. i + 1 \in 1..h /\ i \in 1..(y - 1)
      BY <1>1, <2>2, <2>4
    <3>2. Block(m)[i] = LF /\ a[i + 1] = Block(m)[i + 1]
      BY <1>12, <1>15, <2>2, <3>1
    <3> QED BY <1>1, <1>13, <2>2, <3>1, <3>2 DEF Framed
  <2> QED BY <2>3, <2>4
<1>16. Alive(a)
  <2>1. Len(a) > 0
    BY <1>10
  <2> QED BY <1>10, <1>14, <1>15, <2>1 DEF Alive
<1> QED BY <1>2, <1>5, <1>6, <1>8, <1>9, <1>16

-----------------------------------------------------------------------------
(* The inductive invariant.                                                *)
Arrived == message \in Message /\ cut \in 0..Whole

Fed == rest = Raw(to_string(message), cut)

NoHeadersYet == headers = [n \in {} |-> <<>>]

(* What hangs the parser: the line is a header, and so is every line that  *)
(* it has still to read; when there is none the line stays.                *)
Hanging == IsHeader(line) /\ (good => Alive(rest))

HInv ==
    /\ TypeOK
    /\ pc # "idle" => Arrived
    /\ pc = "first" => Fed
    /\ pc \in {"idle", "first"} => NoHeadersYet
    /\ pc = "headers" /\ CutInHeaders => Hanging
    /\ HangsWhenCut

LEMMA InitHInv == Init => HInv
<1> SUFFICES ASSUME Init PROVE HInv
  OBVIOUS
<1>1. <<>> \in Seq(Char) /\ <<>> \in Seq(Seq(Char)) /\ Len(<<>>) <= 3
  OBVIOUS
<1>2. headers \in [DOMAIN headers -> Seq(Char)]
  BY DEF Init
<1>3. TypeOK
  BY <1>1, <1>2 DEF Init, TypeOK
<1> QED BY <1>3 DEF Init, HInv, HangsWhenCut, NoHeadersYet

LEMMA ArriveHInv == ASSUME HInv, Arrive PROVE HInv'
<1>1. PICK m, t, n : m = message' /\ t = to_string(m) /\ n = cut'
  OBVIOUS
<1>2. /\ m \in Message /\ n \in 0..Len(t) /\ rest' = Raw(t, n)
      /\ pc = "idle" /\ pc' = "first" /\ UNCHANGED <<good, line, fields, headers>>
  BY <1>1 DEF Arrive, Message, Whole
<1>3. PICK x, y : TextAt(t, m, x, y)
  BY <1>1, <1>2, TextIs
<1>4. t \in Seq(Char) /\ Len(t) \in Nat /\ Len(t) > 0
  BY <1>3 DEF TextAt
<1>5. rest' \in Seq(Char)
  BY <1>2, <1>4, RawIs
<1>6. TypeOK'
  BY <1>2, <1>5 DEF HInv, TypeOK
<1>7. Arrived'
  BY <1>1, <1>2 DEF Arrived, Whole
<1>8. NoHeadersYet'
  BY <1>2 DEF HInv, NoHeadersYet
<1>9. Fed'
  BY <1>1, <1>2 DEF Fed
<1> QED BY <1>2, <1>6, <1>7, <1>8, <1>9 DEF HInv, HangsWhenCut

(* What getline() leaves of a text, whole or not.                          *)
LEMMA GetLineKeepsTypes ==
    ASSUME NEW text \in Seq(Char), NEW isGood \in BOOLEAN, NEW old \in Seq(Char),
           GetLine(text, isGood, old)
    PROVE  line' \in Seq(Char) /\ rest' \in Seq(Char) /\ good' \in BOOLEAN
BY GetLineTyped DEF GetLine, Unread

LEMMA AliveGetLine ==
    ASSUME NEW text, NEW isGood, NEW old, GetLine(text, isGood, old),
           isGood => Alive(text), ~isGood => IsHeader(old)
    PROVE  Hanging'
<1>1. CASE isGood
  <2>1. line' = LineOf(text) /\ rest' = After(text) /\ good' = (Ends(text) # {})
    BY <1>1 DEF GetLine
  <2>2. IsHeader(LineOf(text)) /\ (Ends(text) # {} => Alive(After(text)))
    BY <1>1, AliveStays
  <2>3. IsHeader(line')
    BY <2>1, <2>2
  <2>4. good' => Alive(rest')
    BY <2>1, <2>2
  <2> QED BY <2>3, <2>4 DEF Hanging, IsHeader, Alive
<1>2. CASE ~isGood
  <2>1. line' = old /\ ~good'
    BY <1>2 DEF GetLine, Unread
  <2> QED BY <1>2, <2>1 DEF Hanging, IsHeader
<1> QED BY <1>1, <1>2

LEMMA ReadFirstLineHInv == ASSUME HInv, ReadFirstLine PROVE HInv'
<1>1. /\ pc = "first" /\ pc' = "headers" /\ UNCHANGED <<message, cut, headers>>
      /\ TypeOK /\ Arrived /\ rest = Raw(to_string(message), cut)
      /\ fields' = split(LineOf(rest), Space, 3)
      /\ GetLine(After(rest), Ends(rest) # {}, <<>>)
  BY DEF ReadFirstLine, HInv, Fed
<1>2. PICK r : r = rest
  OBVIOUS
<1>3. r \in Seq(Char) /\ LineOf(r) \in Seq(Char) /\ After(r) \in Seq(Char)
  BY <1>1, <1>2, GetLineTyped DEF TypeOK
<1>4. line' \in Seq(Char) /\ rest' \in Seq(Char) /\ good' \in BOOLEAN
  <2>1. <<>> \in Seq(Char) /\ (Ends(r) # {}) \in BOOLEAN
    OBVIOUS
  <2>2. GetLine(After(r), Ends(r) # {}, <<>>)
    BY <1>1, <1>2
  <2> QED BY <1>3, <2>1, <2>2, GetLineKeepsTypes
<1>5. fields' \in Seq(Seq(Char)) /\ Len(fields') <= 3
  <2>1. 3 \in Nat /\ 3 # 0
    OBVIOUS
  <2>2. PICK l : l = LineOf(r)
    OBVIOUS
  <2>3. split(l, Space, 3) \in Seq(Seq(Char)) /\ Len(split(l, Space, 3)) <= 3
    BY <1>3, <2>1, <2>2, SplitTyped
  <2> QED BY <1>1, <1>2, <2>2, <2>3
<1>6. headers' \in [DOMAIN headers' -> Seq(Char)]
  BY <1>1 DEF TypeOK
<1>7. TypeOK'
  BY <1>1, <1>4, <1>5, <1>6 DEF TypeOK
<1>8. Arrived'
  BY <1>1 DEF Arrived, Whole
<1>9. CutInHeaders => Hanging'
  <2>1. SUFFICES ASSUME CutInHeaders PROVE Hanging'
    OBVIOUS
  <2>2. PICK m, t, n : m = message /\ t = to_string(m) /\ n = cut
    OBVIOUS
  <2>3. m \in Message /\ n \in 0..Len(t) /\ r = Raw(t, n)
    BY <1>1, <1>2, <2>2 DEF Arrived, Whole
  <2>4. PICK x, y : TextAt(t, m, x, y)
    BY <2>2, <2>3, TextIs
  <2>5. n \in Nat /\ x + 2 <= n /\ n <= x + y + 2
    <3>1. /\ Len(t) = x + y + 4 /\ Len(m.first) = x /\ x \in Nat /\ y \in Nat
      BY <2>4 DEF TextAt
    <3>2. x + 2 <= n /\ n <= x + y + 4 - 2
      BY <2>1, <2>2, <3>1 DEF CutInHeaders, Whole
    <3> QED BY <2>3, <3>1, <3>2
  <2>6. Ends(r) # {} /\ Alive(After(r))
    BY <2>3, <2>4, <2>5, CutTextAlive
  <2>7. GetLine(After(r), TRUE, <<>>)
    BY <1>1, <1>2, <2>6
  <2> QED BY <2>6, <2>7, AliveGetLine
<1>10. (CutInHeaders => Hanging)'
  BY <1>1, <1>9 DEF CutInHeaders, Whole
<1> QED BY <1>1, <1>7, <1>8, <1>10 DEF HInv, HangsWhenCut

LEMMA ParseHeaderHInv == ASSUME HInv, ParseHeader PROVE HInv'
<1>1. /\ pc = "headers" /\ IsHeader(line) /\ GetLine(rest, good, line)
      /\ UNCHANGED <<message, cut, fields, pc>>
      /\ TypeOK /\ Arrived /\ (CutInHeaders => Hanging)
  BY DEF ParseHeader, HInv
<1>2. /\ line \in Seq(Char) /\ rest \in Seq(Char) /\ good \in BOOLEAN
      /\ headers \in [DOMAIN headers -> Seq(Char)]
  BY <1>1 DEF TypeOK
<1>3. line' \in Seq(Char) /\ rest' \in Seq(Char) /\ good' \in BOOLEAN
  BY <1>1, <1>2, GetLineKeepsTypes
<1>4. headers' \in [DOMAIN headers' -> Seq(Char)]
  <2>1. PICK l : l = line
    OBVIOUS
  <2>2. PICK pair : /\ pair = split(l, Colon, NoLimit(l))
                    /\ headers' = IF Len(pair) # 2 THEN headers
                          ELSE [n \in DOMAIN headers \cup {pair[1]} |->
                                   IF n = pair[1] THEN trim(pair[2])
                                   ELSE headers[n]]
    BY <2>1 DEF ParseHeader
  <2>3. NoLimit(l) \in Nat /\ NoLimit(l) # 0
    BY <1>2, <2>1 DEF NoLimit
  <2>4. pair \in Seq(Seq(Char))
    BY <1>2, <2>1, <2>2, <2>3, SplitTyped
  <2>5. CASE Len(pair) # 2
    BY <1>2, <2>2, <2>5
  <2>6. CASE Len(pair) = 2
    <3>1. pair[2] \in Seq(Char)
      BY <2>4, <2>6
    <3>2. trim(pair[2]) \in Seq(Char)
      BY <3>1, TrimTyped
    <3> QED BY <1>2, <2>2, <2>6, <3>2
  <2> QED BY <2>5, <2>6
<1>5. TypeOK'
  BY <1>1, <1>3, <1>4 DEF TypeOK
<1>6. Arrived' /\ (CutInHeaders' => CutInHeaders)
  BY <1>1 DEF Arrived, Whole, CutInHeaders
<1>7. CutInHeaders => Hanging'
  <2>1. SUFFICES ASSUME Hanging PROVE Hanging'
    BY <1>1
  <2>2. PICK l, r, g : l = line /\ r = rest /\ g = good
    OBVIOUS
  <2>3. GetLine(r, g, l) /\ (g => Alive(r)) /\ IsHeader(l)
    BY <1>1, <2>1, <2>2 DEF Hanging
  <2> QED BY <2>3, AliveGetLine
<1> QED BY <1>1, <1>5, <1>6, <1>7 DEF HInv, HangsWhenCut

LEMMA StopHInv == ASSUME HInv, Stop PROVE HInv'
<1>1. /\ pc = "headers" /\ pc' = "done" /\ ~IsHeader(line) /\ TypeOK /\ Arrived
      /\ UNCHANGED <<message, cut, rest, good, line, fields, headers>>
      /\ (CutInHeaders => Hanging)
  BY DEF Stop, HInv
<1>2. ~CutInHeaders
  BY <1>1 DEF Hanging
<1>3. TypeOK' /\ Arrived' /\ (CutInHeaders' => CutInHeaders)
  BY <1>1 DEF TypeOK, Arrived, Whole, CutInHeaders
<1> QED BY <1>1, <1>2, <1>3 DEF HInv, HangsWhenCut

LEMMA NextHInv == HInv /\ [Next]_vars => HInv'
<1> SUFFICES ASSUME HInv, [Next]_vars PROVE HInv'
  OBVIOUS
<1>1. CASE Next
  BY <1>1, ArriveHInv, ReadFirstLineHInv, ParseHeaderHInv, StopHInv DEF Next, Parse
<1>2. CASE UNCHANGED vars
  BY <1>2 DEF vars, HInv, TypeOK, Arrived, Whole, Fed, NoHeadersYet, Hanging,
              HangsWhenCut, CutInHeaders, Alive, IsHeader
<1> QED BY <1>1, <1>2

-----------------------------------------------------------------------------
(* Whatever arrives, the parser keeps texts in texts and at most three     *)
(* fields of a first line.                                                 *)
THEOREM ParserTypeCorrect == Spec => []TypeOK
<1>1. HInv /\ [Next]_vars => HInv'
  BY NextHInv
<1>2. HInv => TypeOK
  BY DEF HInv
<1> QED BY <1>1, <1>2, InitHInv, PTL DEF Spec

(* A message that is cut off behind its first line and before the last LF  *)
(* of its header never gets through init_from_raw_http_header(), whatever  *)
(* its headers are: the parser reads the same line again for ever.         *)
THEOREM CutHeadersHang == Spec => []HangsWhenCut
<1>1. HInv /\ [Next]_vars => HInv'
  BY NextHInv
<1>2. HInv => HangsWhenCut
  BY DEF HInv
<1> QED BY <1>1, <1>2, InitHInv, PTL DEF Spec

-----------------------------------------------------------------------------
(* Texts that are put together from pieces and delimiters.  w has where    *)
(* each piece ends; the last one may have no delimiter behind it.          *)
Laid(q, w, N, text, c) ==
    /\ N \in Nat /\ q \in Seq(Seq(Char)) /\ Len(q) = N /\ w \in [0..N -> Nat]
    /\ w[0] = 0 /\ w[N] \in {Len(text), Len(text) + 1}
    /\ \A k \in 1..N :
          /\ w[k] = w[k - 1] + Len(q[k]) + 1
          /\ \A i \in 1..Len(q[k]) : text[w[k - 1] + i] = q[k][i]
          /\ w[k] <= Len(text) + 1
          /\ w[k] <= Len(text) => text[w[k]] = c
          /\ k < N => w[k] <= Len(text)

Unbroken(q, N, c) == \A k \in 1..N : \A i \in 1..Len(q[k]) : q[k][i] # c

(* Such a text as split() sees it, if no piece has a delimiter in it: with *)
(* M delimiters, and cut at each of them.                                  *)
LEMMA CutsOfLaid ==
    ASSUME NEW text \in Seq(Char), NEW c, NEW q, NEW w, NEW N,
           Laid(q, w, N, text, c),
           Unbroken(q, N, c),
           NEW z, NEW K, Cuts(z, K, text, c, NoLimit(text)),
           NEW M \in Nat, M \in {N - 1, N}, w[M] <= Len(text),
           M = N - 1 => w[N] > Len(text)
    PROVE  K = M /\ \A k \in 0..M : z[k] = w[k]
<1>1. PICK T \in Nat : T = Len(text)
  OBVIOUS
<1>2. /\ N \in Nat /\ w \in [0..N -> Nat] /\ w[0] = 0 /\ w[N] \in {T, T + 1}
      /\ q \in Seq(Seq(Char)) /\ Len(q) = N
      /\ \A k \in 1..N :
            /\ w[k] = w[k - 1] + Len(q[k]) + 1
            /\ \A i \in 1..Len(q[k]) : text[w[k - 1] + i] = q[k][i]
            /\ w[k] <= T => text[w[k]] = c
            /\ k < N => w[k] <= T
  BY <1>1 DEF Laid
<1>3. /\ K \in Nat /\ z \in [0..K -> 0..T] /\ z[0] = 0
      /\ \A k \in 1..K :
            /\ z[k - 1] < z[k] /\ text[z[k]] = c
            /\ \A i \in (z[k - 1] + 1)..(z[k] - 1) : text[i] # c
      /\ K = T + 1 \/ \A i \in (z[K] + 1)..T : text[i] # c
  <2>1. PICK X \in Nat : X = NoLimit(text) /\ X - 1 = T + 1
    BY <1>1 DEF NoLimit
  <2>2. Cuts(z, K, text, c, X)
    BY <2>1
  <2>3. /\ K \in Nat /\ z \in [0..K -> 0..Len(text)] /\ z[0] = 0
        /\ K = X - 1 \/ \A i \in (z[K] + 1)..Len(text) : text[i] # c
    BY <2>2 DEF Cuts
  <2>4. \A k \in 1..K :
           /\ z[k - 1] < z[k] /\ text[z[k]] = c
           /\ \A i \in (z[k - 1] + 1)..(z[k] - 1) : text[i] # c
    BY <2>2 DEF Cuts
  <2> QED BY <1>1, <2>1, <2>3, <2>4
<1>4. \A k \in 1..N : q[k] \in Seq(Char) /\ Len(q[k]) \in Nat
  BY <1>2
<1>5. \A k \in 0..M : w[k] \in Nat /\ w[k] <= T
  <2>1. ASSUME NEW k \in 0..M PROVE w[k] \in Nat /\ w[k] <= T
    <3>1. k \in 0..N
      BY <1>2
    <3>2. CASE k = M
      BY <1>1, <1>2, <3>1, <3>2
    <3>3. CASE k = 0
      BY <1>2, <3>3
    <3>4. CASE k # M /\ k # 0
      <4>1. k \in 1..N /\ k < N
        BY <1>2, <3>4
      <4>2. k < N => w[k] <= T
        BY <1>2, <4>1
      <4> QED BY <1>2, <3>1, <4>1, <4>2
    <3> QED BY <3>2, <3>3, <3>4
  <2> QED BY <2>1
(* Between two delimiters there is none. *)
<1>6. ASSUME NEW k \in 1..N, NEW i \in Nat, w[k - 1] < i, i < w[k]
      PROVE  text[i] # c
  <2>1. PICK a \in Nat, l \in Nat : a = w[k - 1] /\ l = Len(q[k]) /\ k - 1 \in 0..N
    <3>1. k - 1 \in 0..N
      BY <1>2
    <3> QED BY <1>2, <1>4, <3>1
  <2>2. w[k] = a + l + 1
    BY <1>2, <2>1
  <2>3. PICK j \in 1..l : i = a + j
    <3>1. a < i /\ i < a + l + 1 /\ a \in Nat /\ i \in Nat /\ l \in Nat
      BY <1>6, <2>1, <2>2
    <3>2. i - a \in 1..l /\ i = a + (i - a)
      BY <3>1
    <3> QED BY <3>2
  <2>4. text[a + j] = q[k][j]
    BY <1>2, <2>1, <2>3
  <2> QED BY <2>1, <2>3, <2>4 DEF Unbroken
<1> DEFINE I == {k \in Nat : k \in 0..M => k <= K /\ z[k] = w[k] /\ k <= w[k]}
<1>7. 0 \in I
  BY <1>2, <1>3
<1>8. ASSUME NEW k \in Nat, k \in I PROVE k + 1 \in I
  <2>1. SUFFICES ASSUME k + 1 \in 0..M
                 PROVE  k + 1 <= K /\ z[k + 1] = w[k + 1] /\ k + 1 <= w[k + 1]
    OBVIOUS
  <2>2. /\ k \in 0..M /\ k + 1 \in 1..N /\ k + 1 - 1 = k
    BY <1>2, <2>1
  <2>3. k <= K /\ z[k] = w[k] /\ k <= w[k]
    BY <1>8, <2>2
  <2>4. PICK a \in Nat, b \in Nat : a = w[k] /\ b = w[k + 1] /\ a <= T /\ b <= T
    BY <1>5, <2>1, <2>2
  <2>5. b = a + Len(q[k + 1]) + 1 /\ text[b] = c
    BY <1>2, <2>2, <2>4
  <2>6. a < b
    BY <1>4, <2>2, <2>4, <2>5
  <2>7. k # K
    <3>1. SUFFICES ASSUME k = K PROVE FALSE
      OBVIOUS
    <3>2. K # T + 1
      BY <2>3, <2>4, <3>1
    <3>3. b \in (z[K] + 1)..T
      BY <2>3, <2>4, <2>6, <3>1
    <3> QED BY <1>3, <2>5, <3>2, <3>3
  <2>8. k + 1 \in 1..K
    BY <1>3, <2>3, <2>7
  <2>9. PICK d \in Nat : d = z[k + 1] /\ d <= T
    BY <1>3, <2>8
  <2>10. /\ a < d /\ text[d] = c /\ \A i \in (a + 1)..(d - 1) : text[i] # c
    <3>1. PICK j \in 1..K : j = k + 1
      BY <2>8
    <3>2. j - 1 = k
      BY <3>1
    <3>3. z[j - 1] = a /\ z[j] = d
      BY <2>3, <2>4, <2>9, <3>1, <3>2
    <3>4. /\ z[j - 1] < z[j] /\ text[z[j]] = c
          /\ \A i \in (z[j - 1] + 1)..(z[j] - 1) : text[i] # c
      BY <1>3
    <3> QED BY <3>3, <3>4
  <2>11. ~(d < b)
    BY <1>6, <2>2, <2>4, <2>10
  <2>12. ~(b < d)
    <3>1. SUFFICES ASSUME b < d PROVE FALSE
      OBVIOUS
    <3>2. b \in (a + 1)..(d - 1)
      BY <2>6, <3>1
    <3> QED BY <2>5, <2>10, <3>2
  <2>13. d = b
    BY <2>11, <2>12
  <2>14. k + 1 <= b
    BY <2>3, <2>4, <2>6
  <2> QED BY <2>4, <2>8, <2>9, <2>13, <2>14
<1>9. Nat \subseteq I
  <2> HIDE DEF I
  <2> QED BY <1>7, <1>8, NatInductionOnSet
<1>10. \A k \in 0..M : k <= K /\ z[k] = w[k]
  BY <1>9
<1>11. K = M
  <2>1. SUFFICES ASSUME K # M PROVE FALSE
    OBVIOUS
  <2>2. M \in 0..M /\ M <= K /\ z[M] = w[M]
    BY <1>10
  <2>3. M + 1 \in 1..K /\ M + 1 - 1 = M
    BY <1>3, <2>1, <2>2
  <2>4. PICK d \in Nat : d = z[M + 1] /\ d <= T
    BY <1>3, <2>3
  <2>5. w[M] < d /\ text[d] = c
    BY <1>3, <2>2, <2>3, <2>4
  <2>6. CASE M = N
    <3>1. w[N] = T
      BY <1>1, <1>2, <2>6
    <3> QED BY <2>4, <2>5, <2>6, <3>1
  <2>7. CASE M = N - 1
    <3>1. N \in 1..N /\ w[N] = T + 1
      BY <1>1, <1>2, <2>7
    <3>2. d < w[N] /\ w[N - 1] < d
      BY <2>4, <2>5, <2>7, <3>1
    <3> QED BY <1>6, <2>5, <3>1, <3>2
  <2> QED BY <2>6, <2>7
<1> QED BY <1>10, <1>11

(* Splitting such a text gives the pieces back.                            *)
LEMMA SplitOfLaid ==
    ASSUME NEW text \in Seq(Char), NEW c, NEW q, NEW w, NEW N,
           Laid(q, w, N, text, c),
           Unbroken(q, N, c),
           w[N] # Len(text) => Len(q[N]) # 0
    PROVE  split(text, c, NoLimit(text)) = q
<1>1. PICK T \in Nat : T = Len(text)
  OBVIOUS
<1>2. /\ N \in Nat /\ w \in [0..N -> Nat] /\ w[0] = 0 /\ w[N] \in {T, T + 1}
      /\ q \in Seq(Seq(Char)) /\ Len(q) = N
      /\ \A k \in 1..N :
            /\ w[k] = w[k - 1] + Len(q[k]) + 1
            /\ \A i \in 1..Len(q[k]) : text[w[k - 1] + i] = q[k][i]
            /\ k < N => w[k] <= T
  BY <1>1 DEF Laid
<1>3. PICK z, K : /\ Cuts(z, K, text, c, NoLimit(text))
                  /\ SplitAt(split(text, c, NoLimit(text)), z, K, text)
  <2>1. NoLimit(text) \in Nat /\ NoLimit(text) # 0
    BY <1>1 DEF NoLimit
  <2> QED BY <2>1, SplitIs
<1>4. PICK r, p : /\ r = SubSeq(text, z[K] + 1, Len(text))
                  /\ p = [k \in 1..K |-> PieceAt(z, text, k)]
  OBVIOUS
<1>5. /\ split(text, c, NoLimit(text)) = WithRest(p, r)
      /\ K \in Nat /\ z[K] \in 0..T /\ r \in Seq(Char) /\ Len(r) = T - z[K]
      /\ \A i \in 1..(T - z[K]) : r[i] = text[z[K] + i]
  <2>1. K \in Nat /\ z[K] \in 0..Len(text)
    BY <1>3 DEF Cuts
  <2>2. /\ r \in Seq(Char) /\ Len(r) = Len(text) - z[K]
        /\ \A i \in 1..(Len(text) - z[K]) : r[i] = text[z[K] + i]
    BY <1>4, <2>1, RestIs
  <2> QED BY <1>1, <1>3, <1>4, <2>1, <2>2 DEF SplitAt
<1>6. ASSUME NEW M \in Nat, M <= N, K = M, \A k \in 0..M : z[k] = w[k],
             NEW k \in 1..M
      PROVE  p[k] = q[k]
  <2>1. /\ k \in 1..K /\ k \in 1..N /\ k - 1 \in 0..M /\ k \in 0..M
        /\ k - 1 \in 0..N
    <3>1. N \in Nat /\ M <= N /\ K = M
      BY <1>2, <1>6
    <3> QED BY <3>1
  <2>2. PICK s, u : s = p[k] /\ u = q[k]
    OBVIOUS
  <2>3. /\ s \in Seq(Char) /\ Len(s) = z[k] - z[k - 1] - 1
        /\ \A i \in 1..(z[k] - z[k - 1] - 1) : s[i] = text[z[k - 1] + i]
    BY <1>3, <1>4, <2>1, <2>2, PieceTyped
  <2>4. PICK a \in Nat : a = w[k - 1] /\ a = z[k - 1]
    <3>1. w[k - 1] \in Nat
      BY <1>2, <2>1
    <3>2. z[k - 1] = w[k - 1]
      BY <1>6, <2>1
    <3> QED BY <3>1, <3>2
  <2>5. /\ u \in Seq(Char) /\ z[k] = a + Len(u) + 1
        /\ \A i \in 1..Len(u) : text[a + i] = u[i]
    <3>1. z[k] = w[k]
      BY <1>6, <2>1
    <3>2. /\ w[k] = w[k - 1] + Len(q[k]) + 1
          /\ \A i \in 1..Len(q[k]) : text[w[k - 1] + i] = q[k][i]
      BY <1>2, <2>1
    <3>3. u \in Seq(Char)
      BY <1>2, <2>1, <2>2
    <3> QED BY <2>2, <2>4, <3>1, <3>2, <3>3
  <2>6. PICK l \in Nat : l = Len(u)
    BY <2>5
  <2>7. z[k] - z[k - 1] - 1 = l
    BY <2>4, <2>5, <2>6
  <2>8. Len(s) = Len(u) /\ \A i \in 1..Len(s) : s[i] = u[i]
    BY <2>3, <2>4, <2>5, <2>6, <2>7
  <2> QED BY <2>2, <2>3, <2>5, <2>8, SameText
<1>7. CASE w[N] = T
  <2>1. K = N /\ \A k \in 0..N : z[k] = w[k]
    <3>1. N \in Nat /\ N \in {N - 1, N} /\ w[N] <= Len(text)
          /\ (N = N - 1 => w[N] > Len(text))
      BY <1>1, <1>2, <1>7
    <3> QED BY <1>3, <3>1, CutsOfLaid
  <2>2. Len(r) = 0
    BY <1>2, <1>5, <1>7, <2>1
  <2>3. WithRest(p, r) = p
    BY <1>5, <2>2 DEF WithRest
  <2>4. \A k \in 1..N : p[k] = q[k]
    <3>1. N \in Nat /\ N <= N
      BY <1>2
    <3> QED BY <1>6, <2>1, <3>1
  <2>5. p = q
    BY <1>2, <1>4, <2>1, <2>4
  <2> QED BY <1>5, <2>3, <2>5
<1>8. CASE w[N] = T + 1
  <2>1. N # 0
    BY <1>2, <1>8
  <2>2. PICK M \in Nat : M = N - 1 /\ M + 1 = N /\ M < N
    BY <1>2, <2>1
  <2>3. w[M] \in Nat /\ w[M] <= T /\ w[N] = w[M] + Len(q[N]) + 1
    <3>1. N \in 1..N /\ N - 1 = M /\ M \in 0..N
      BY <1>2, <2>2
    <3>2. w[N] = w[M] + Len(q[N]) + 1 /\ w[M] \in Nat /\ Len(q[N]) \in Nat
      BY <1>2, <3>1
    <3> QED BY <1>8, <3>2
  <2>4. K = M /\ \A k \in 0..M : z[k] = w[k]
    <3>1. M \in {N - 1, N} /\ w[M] <= Len(text) /\ (M = N - 1 => w[N] > Len(text))
      BY <1>1, <1>8, <2>2, <2>3
    <3> QED BY <1>3, <3>1, CutsOfLaid
  <2>5. r = q[N]
    <3>1. PICK u \in Seq(Char), a \in Nat : u = q[N] /\ a = w[M] /\ a = z[K]
      <4>1. q[N] \in Seq(Char)
        BY <1>2, <2>1
      <4>2. M \in 0..M
        BY <2>2
      <4> QED BY <2>3, <2>4, <4>1, <4>2
    <3>2. PICK l \in Nat : l = Len(u)
      OBVIOUS
    <3>3. T = a + l
      BY <1>8, <2>3, <3>1, <3>2
    <3>4. T - a = l
      BY <3>3
    <3>5. \A i \in 1..l : text[a + i] = u[i]
      <4>1. N \in 1..N /\ N - 1 = M
        BY <1>2, <2>1, <2>2
      <4>2. \A i \in 1..Len(q[N]) : text[w[N - 1] + i] = q[N][i]
        BY <1>2, <4>1
      <4> QED BY <3>1, <3>2, <4>1, <4>2
    <3>6. Len(r) = l /\ \A i \in 1..l : r[i] = text[a + i]
      BY <1>5, <3>1, <3>4
    <3>7. Len(r) = Len(u) /\ \A i \in 1..Len(r) : r[i] = u[i]
      BY <3>2, <3>5, <3>6
    <3> QED BY <1>5, <3>1, <3>7, SameText
  <2>6. r # <<>>
    <3>1. Len(r) # 0
      BY <1>1, <1>8, <2>5
    <3> QED BY <3>1
  <2>7. WithRest(p, r) = Append(p, r)
    BY <2>6 DEF WithRest
  <2>8. \A k \in 1..M : p[k] = q[k]
    BY <1>6, <2>2, <2>4
  <2>9. p = [k \in 1..M |-> q[k]]
    BY <1>4, <2>4, <2>8
  <2>10. q = Append(p, q[N])
    <3>1. Append(p, q[N]) = [k \in 1..(M + 1) |-> IF k = M + 1 THEN q[N] ELSE p[k]]
      <4>1. p \in Seq(Seq(Char)) /\ Len(p) = M
        BY <1>2, <2>2, <2>9
      <4> QED BY <4>1
    <3>2. \A k \in 1..N : q[k] = IF k = M + 1 THEN q[N] ELSE p[k]
      BY <2>2, <2>9
    <3> QED BY <1>2, <2>2, <3>1, <3>2
  <2> QED BY <1>5, <2>5, <2>7, <2>10
<1> QED BY <1>2, <1>7, <1>8

(* The first n pieces, each with its delimiter behind it.                  *)
Fits(q, w, k, t, c) ==
    /\ w[k - 1] + Len(q[k]) + 1 = w[k] /\ w[k] <= Len(t) /\ t[w[k]] = c
    /\ \A i \in 1..Len(q[k]) : t[w[k - 1] + i] = q[k][i]

LaidTo(q, w, n, t, c) ==
    t \in Seq(Char) /\ Len(t) = w[n] /\ \A k \in 1..n : Fits(q, w, k, t, c)

LEMMA LaidOn ==
    ASSUME NEW q \in Seq(Seq(Char)), NEW n \in 0..(Len(q) - 1), NEW c \in Char,
           NEW w \in [0..Len(q) -> Nat],
           w[n + 1] = w[n] + Len(q[n + 1]) + 1,
           NEW t, LaidTo(q, w, n, t, c), NEW u, u = t \o (q[n + 1] \o <<c>>)
    PROVE  LaidTo(q, w, n + 1, u, c)
<1>1. PICK N \in Nat : N = Len(q)
  OBVIOUS
<1>2. n \in Nat /\ n + 1 \in 1..N /\ n + 1 - 1 = n /\ n \in 0..N
  BY <1>1
<1>3. q[n + 1] \in Seq(Char) /\ <<c>> \in Seq(Char)
  BY <1>1, <1>2
<1>4. PICK x \in Seq(Char), d \in Seq(Char), l \in Nat, T \in Nat :
         x = q[n + 1] /\ d = <<c>> /\ l = Len(x) /\ T = Len(t)
  <2>1. t \in Seq(Char)
    BY DEF LaidTo
  <2>2. Len(q[n + 1]) \in Nat /\ Len(t) \in Nat
    BY <1>3, <2>1
  <2> QED BY <1>3, <2>2
<1>5. Len(d) = 1 /\ d[1] = c
  BY <1>4
<1>6. PICK y \in {x \o d} : Joined(y, x, d)
  BY ConcatAt
<1>7. /\ y = x \o d /\ y \in Seq(Char) /\ Len(y) = l + 1
      /\ (\A i \in 1..l : y[i] = x[i]) /\ y[l + 1] = c
  <2>1. 1 \in 1..Len(d)
    BY <1>5
  <2> QED BY <1>4, <1>5, <1>6, <2>1 DEF Joined
<1>8. Joined(u, t, y)
  <2>1. t \in Seq(Char) /\ u = t \o y
    BY <1>4, <1>7 DEF LaidTo
  <2> QED BY <1>7, <2>1, ConcatAt
<1>9. /\ u \in Seq(Char) /\ Len(u) = T + (l + 1)
      /\ \A i \in 1..T : u[i] = t[i]
      /\ \A i \in 1..(l + 1) : u[T + i] = y[i]
  BY <1>4, <1>7, <1>8 DEF Joined
<1>10. w[n + 1] = T + l + 1 /\ w[n] = T /\ Len(u) = w[n + 1]
  <2>1. w[n] = T
    BY <1>4 DEF LaidTo
  <2>2. w[n + 1] = T + l + 1
    BY <1>4, <2>1
  <2>3. T + (l + 1) = T + l + 1
    OBVIOUS
  <2> QED BY <1>9, <2>1, <2>2, <2>3
<1>11. ASSUME NEW k \in 1..n PROVE Fits(q, w, k, u, c)
  <2>1. Fits(q, w, k, t, c)
    BY DEF LaidTo
  <2>2. k - 1 \in 0..N /\ k \in 0..N /\ k \in 1..N
    BY <1>2
  <2>3. PICK a \in Nat, b \in Nat, e \in Nat :
           a = w[k - 1] /\ b = Len(q[k]) /\ e = w[k]
    <3>1. q[k] \in Seq(Char)
      BY <1>1, <2>2
    <3>2. w[k - 1] \in Nat /\ w[k] \in Nat
      BY <1>1, <2>2
    <3>3. Len(q[k]) \in Nat
      BY <3>1
    <3> QED BY <3>2, <3>3
  <2>4. /\ a + b + 1 = e /\ e <= T /\ t[e] = c
        /\ \A i \in 1..b : t[a + i] = q[k][i]
    BY <1>4, <2>1, <2>3 DEF Fits
  <2>5. e \in 1..T /\ \A i \in 1..b : a + i \in 1..T
    <3>1. a + b + 1 = e /\ e <= T
      BY <2>4
    <3> QED BY <3>1
  <2>6. u[e] = c /\ \A i \in 1..b : u[a + i] = q[k][i]
    BY <1>9, <2>4, <2>5
  <2>7. e <= T + (l + 1)
    <3>1. e <= T
      BY <2>4
    <3> QED BY <3>1
  <2> QED BY <1>9, <2>3, <2>4, <2>6, <2>7 DEF Fits
<1>12. Fits(q, w, n + 1, u, c)
  <2>1. ASSUME NEW i \in 1..l PROVE u[T + i] = x[i]
    <3>1. i \in 1..(l + 1)
      OBVIOUS
    <3> QED BY <1>7, <1>9, <3>1
  <2>2. u[T + (l + 1)] = c
    <3>1. l + 1 \in 1..(l + 1)
      OBVIOUS
    <3> QED BY <1>7, <1>9, <3>1
  <2>3. T + (l + 1) = T + l + 1 /\ T + l + 1 <= T + l + 1
    OBVIOUS
  <2>4. PICK k : k = n + 1 /\ k - 1 = n
    BY <1>2
  <2>5. w[k - 1] = T /\ q[k] = x /\ w[k] = T + l + 1 /\ Len(u) = T + l + 1
    BY <1>4, <1>10, <2>4
  <2>6. u[w[k]] = c /\ \A i \in 1..Len(q[k]) : u[w[k - 1] + i] = q[k][i]
    BY <1>4, <2>1, <2>2, <2>3, <2>5
  <2>7. w[k - 1] + Len(q[k]) + 1 = w[k] /\ w[k] <= Len(u)
    BY <1>4, <2>3, <2>5
  <2>8. Fits(q, w, k, u, c)
    BY <2>6, <2>7 DEF Fits
  <2> QED BY <2>4, <2>8
<1>13. \A k \in 1..(n + 1) : k = n + 1 \/ k \in 1..n
  BY <1>2
<1>14. \A k \in 1..(n + 1) : Fits(q, w, k, u, c)
  BY <1>11, <1>12, <1>13
<1> QED BY <1>9, <1>10, <1>14 DEF LaidTo

(* FlattenSeq(), from nothing on.                                          *)
Flattens(g, list) ==
    /\ g \in [0..Len(list) -> Seq(Char)] /\ g[0] = <<>>
    /\ \A n \in 1..Len(list) : g[n] = g[n - 1] \o list[n]
    /\ FlattenSeq(list) = g[Len(list)]

LEMMA FlattenSteps ==
    ASSUME NEW list \in Seq(Seq(Char)) PROVE \E g : Flattens(g, list)
<1>1. PICK N \in Nat : N = Len(list)
  OBVIOUS
<1>2. CASE list = <<>>
  <2>1. FlattenSeq(list) = <<>>
    BY <1>2 DEF FlattenSeq
  <2>2. PICK g : g = [n \in 0..0 |-> <<>>]
    OBVIOUS
  <2>3. Len(list) = 0 /\ 1..0 = {}
    BY <1>2
  <2>4. g \in [0..0 -> Seq(Char)] /\ g[0] = <<>>
    BY <2>2
  <2>5. Flattens(g, list)
    BY <2>1, <2>3, <2>4 DEF Flattens
  <2> QED BY <2>5
<1>3. CASE list # <<>>
  <2>1. PICK f \in [1..Len(list) -> Seq(Char)] :
              /\ FlattenSeq(list) = f[Len(list)] /\ f[1] = list[1]
              /\ \A n \in 2..Len(list) : f[n] = f[n - 1] \o list[n]
    BY <1>3, FlattenIs
  <2>2. PICK g : g = [n \in 0..N |-> IF n = 0 THEN <<>> ELSE f[n]]
    OBVIOUS
  <2>3. N > 0 /\ \A n \in 0..N : n # 0 => n \in 1..N
    BY <1>1, <1>3
  <2>4. g \in [0..N -> Seq(Char)] /\ g[0] = <<>> /\ \A n \in 1..N : g[n] = f[n]
    BY <1>1, <2>1, <2>2, <2>3
  <2>5. ASSUME NEW n \in 1..N PROVE g[n] = g[n - 1] \o list[n]
    <3>1. CASE n = 1
      <4>1. g[1] = list[1] /\ g[n - 1] = <<>> /\ list[1] \in Seq(Char)
        BY <1>1, <2>1, <2>3, <2>4, <3>1
      <4>2. <<>> \o list[1] = list[1]
        BY <4>1
      <4> QED BY <3>1, <4>1, <4>2
    <3>2. CASE n # 1
      <4>1. n \in 2..N /\ n - 1 \in 1..N
        BY <3>2
      <4> QED BY <1>1, <2>1, <2>4, <4>1
    <3> QED BY <3>1, <3>2
  <2>6. FlattenSeq(list) = g[N]
    <3>1. N \in 1..N
      BY <2>3
    <3> QED BY <1>1, <2>1, <2>4, <3>1
  <2>7. Flattens(g, list)
    BY <1>1, <2>4, <2>5, <2>6 DEF Flattens
  <2> QED BY <2>7
<1> QED BY <1>2, <1>3

(* Pieces that are put together, each with a delimiter behind it.          *)
LEMMA FlattenLaid ==
    ASSUME NEW q \in Seq(Seq(Char)), NEW c \in Char, NEW t,
           t = FlattenSeq([i \in DOMAIN q |-> q[i] \o <<c>>])
    PROVE  /\ t \in Seq(Char)
           /\ \E w : Laid(q, w, Len(q), t, c) /\ w[Len(q)] = Len(t)
<1>1. PICK N \in Nat : N = Len(q) /\ DOMAIN q = 1..N
  OBVIOUS
<1>2. PICK list : list = [i \in 1..N |-> q[i] \o <<c>>]
  OBVIOUS
<1>3. list \in Seq(Seq(Char)) /\ Len(list) = N
  <2>1. ASSUME NEW i \in 1..N PROVE q[i] \o <<c>> \in Seq(Char)
    <3>1. q[i] \in Seq(Char) /\ <<c>> \in Seq(Char)
      BY <1>1
    <3>2. Joined(q[i] \o <<c>>, q[i], <<c>>)
      BY <3>1, ConcatAt
    <3> QED BY <3>2 DEF Joined
  <2> QED BY <1>2, <2>1
<1>4. PICK g : Flattens(g, list)
  BY <1>3, FlattenSteps
<1>5. /\ g \in [0..N -> Seq(Char)] /\ g[0] = <<>>
      /\ \A n \in 1..N : g[n] = g[n - 1] \o list[n]
      /\ t = g[N]
  <2>1. t = FlattenSeq(list)
    BY <1>1, <1>2
  <2> QED BY <1>3, <1>4, <2>1 DEF Flattens
<1>6. PICK w : w = [n \in 0..N |-> Len(g[n])]
  OBVIOUS
<1>7. w \in [0..N -> Nat] /\ w[0] = 0 /\ \A n \in 0..N : Len(g[n]) = w[n]
  <2>1. \A n \in 0..N : Len(g[n]) \in Nat
    BY <1>5
  <2>2. Len(g[0]) = 0 /\ 0 \in 0..N
    BY <1>1, <1>5
  <2> QED BY <1>6, <2>1, <2>2
<1>8. ASSUME NEW n \in 0..(N - 1)
      PROVE  /\ n + 1 \in 1..N /\ n \in 0..N /\ n + 1 \in 0..N
             /\ g[n + 1] = g[n] \o (q[n + 1] \o <<c>>)
             /\ w[n + 1] = w[n] + Len(q[n + 1]) + 1
  <2>1. n + 1 \in 1..N /\ n \in 0..N /\ n + 1 - 1 = n /\ n + 1 \in 0..N
    BY <1>1
  <2>2. g[n + 1] = g[n] \o list[n + 1] /\ list[n + 1] = q[n + 1] \o <<c>>
    <3>1. PICK k \in 1..N : k = n + 1 /\ k - 1 = n
      BY <2>1
    <3>2. g[k] = g[k - 1] \o list[k] /\ list[k] = q[k] \o <<c>>
      BY <1>2, <1>5
    <3> QED BY <3>1, <3>2
  <2>3. PICK x, d, y : x = q[n + 1] /\ d = <<c>> /\ y = x \o d
    OBVIOUS
  <2>4. x \in Seq(Char) /\ d \in Seq(Char) /\ Len(d) = 1
    BY <1>1, <2>1, <2>3
  <2>5. y \in Seq(Char) /\ Len(y) = Len(x) + 1
    <3>1. Joined(y, x, d)
      BY <2>3, <2>4, ConcatAt
    <3> QED BY <2>4, <3>1 DEF Joined
  <2>6. Len(g[n + 1]) = Len(g[n]) + Len(y)
    <3>1. Joined(g[n] \o y, g[n], y)
      BY <1>5, <2>1, <2>5, ConcatAt
    <3> QED BY <2>2, <2>3, <3>1 DEF Joined
  <2>7. PICK a \in Nat, b \in Nat : a = w[n] /\ b = Len(x)
    BY <1>7, <2>1, <2>4
  <2>8. w[n + 1] = w[n] + Len(x) + 1
    <3>1. Len(g[n + 1]) = w[n + 1] /\ Len(g[n]) = w[n]
      BY <1>7, <2>1
    <3>2. w[n + 1] = a + (b + 1)
      BY <2>5, <2>6, <2>7, <3>1
    <3>3. a + (b + 1) = a + b + 1
      OBVIOUS
    <3> QED BY <2>7, <3>2, <3>3
  <2> QED BY <2>1, <2>2, <2>3, <2>8
<1> DEFINE I == {n \in Nat : n \in 0..N => LaidTo(q, w, n, g[n], c)}
<1>9. 0 \in I
  <2>1. 0 \in 0..N /\ g[0] \in Seq(Char) /\ Len(g[0]) = w[0] /\ 1..0 = {}
    BY <1>1, <1>5, <1>7
  <2>2. LaidTo(q, w, 0, g[0], c)
    BY <2>1 DEF LaidTo
  <2> QED BY <2>2
<1>10. ASSUME NEW n \in Nat, n \in I PROVE n + 1 \in I
  <2>1. CASE n + 1 \in 0..N
    <3>1. n \in 0..(N - 1) /\ n \in 0..N
      BY <1>1, <2>1
    <3>2. LaidTo(q, w, n, g[n], c)
      BY <1>10, <3>1
    <3>3. PICK t1, u1 : t1 = g[n] /\ u1 = g[n + 1]
      OBVIOUS
    <3>4. u1 = t1 \o (q[n + 1] \o <<c>>) /\ w[n + 1] = w[n] + Len(q[n + 1]) + 1
      BY <1>8, <3>1, <3>3
    <3>5. LaidTo(q, w, n + 1, u1, c)
      BY <1>1, <1>7, <3>1, <3>2, <3>3, <3>4, LaidOn
    <3> QED BY <3>3, <3>5
  <2> QED BY <2>1
<1>11. Nat \subseteq I
  <2> HIDE DEF I
  <2> QED BY <1>9, <1>10, NatInductionOnSet
<1>12. LaidTo(q, w, N, t, c)
  BY <1>1, <1>5, <1>11
<1>13. PICK T \in Nat : T = Len(t) /\ w[N] = T /\ t \in Seq(Char)
  <2>1. t \in Seq(Char) /\ Len(t) = w[N]
    BY <1>12 DEF LaidTo
  <2>2. Len(t) \in Nat
    BY <2>1
  <2> QED BY <2>1, <2>2
<1>14. ASSUME NEW k \in 1..N
       PROVE  /\ w[k] = w[k - 1] + Len(q[k]) + 1
              /\ \A i \in 1..Len(q[k]) : t[w[k - 1] + i] = q[k][i]
              /\ w[k] <= T + 1 /\ w[k] <= T /\ t[w[k]] = c
  <2>1. Fits(q, w, k, t, c)
    BY <1>12 DEF LaidTo
  <2>2. w[k] \in Nat /\ w[k] <= T
    <3>1. k \in 0..N
      OBVIOUS
    <3> QED BY <1>7, <1>13, <2>1, <3>1 DEF Fits
  <2>3. w[k] <= T + 1
    BY <2>2
  <2> QED BY <2>1, <2>2, <2>3 DEF Fits
<1>15. Laid(q, w, N, t, c)
  BY <1>1, <1>7, <1>13, <1>14 DEF Laid
<1> QED BY <1>1, <1>13, <1>15

(* Whatever lists of locations there are, split() at the ends of lines     *)
(* takes what locations_to_string() makes of them apart again.             *)
THEOREM LocationListsReadable == Spec => []LocationsAreReadable
<1>1. HInv /\ [Next]_vars => HInv'
  BY NextHInv
<1>2. HInv => LocationsAreReadable
  <2> SUFFICES ASSUME HInv, NewMessage
               PROVE  split(locations_to_string(message.values), LF,
                            NoLimit(locations_to_string(message.values)))
                      = message.values
    BY DEF LocationsAreReadable
  <2>1. message \in Message
    BY DEF HInv, NewMessage, Arrived
  <2>2. PICK q, N : q = message.values /\ N = Len(Names)
    OBVIOUS
  <2>3. N \in Nat /\ DOMAIN Names = 1..N
    BY <2>2, HeaderAssumption
  <2>4. q \in [1..N -> Values]
    BY <2>1, <2>2, <2>3 DEF Message
  <2>5. \A k \in 1..N : q[k] \in Seq(Char)
                        /\ \A i \in 1..Len(q[k]) : q[k][i] # LF
    BY <2>1, <2>2, ValueTyped
  <2>6. q \in Seq(Seq(Char)) /\ Len(q) = N
    BY <2>3, <2>4, <2>5
  <2>7. PICK t : t = FlattenSeq([i \in DOMAIN q |-> q[i] \o <<LF>>])
    OBVIOUS
  <2>8. PICK w : Laid(q, w, Len(q), t, LF) /\ w[Len(q)] = Len(t)
    BY <2>6, <2>7, CharFacts, FlattenLaid
  <2>9. t \in Seq(Char)
    BY <2>6, <2>7, CharFacts, FlattenLaid
  <2>10. split(t, LF, NoLimit(t)) = q
    <3>1. Unbroken(q, Len(q), LF)
      BY <2>5, <2>6 DEF Unbroken
    <3> QED BY <2>6, <2>8, <2>9, <3>1, SplitOfLaid
  <2> QED BY <2>2, <2>7, <2>10 DEF locations_to_string
<1> QED BY <1>1, <1>2, InitHInv, PTL DEF Spec

(* What split() makes of a text is laid out in the text; only where it had *)
(* to stop is there a delimiter in a piece.                                *)
Parted(q, w, N, text, c, max) ==
    /\ Laid(q, w, N, text, c) /\ N <= max
    /\ \A k \in 1..N : k < max => \A i \in 1..Len(q[k]) : q[k][i] # c

LEMMA SplitIsLaid ==
    ASSUME NEW text \in Seq(Char), NEW c, NEW max \in Nat, max # 0
    PROVE  \E w, N : Parted(split(text, c, max), w, N, text, c, max)
<1>1. PICK T \in Nat : T = Len(text)
  OBVIOUS
<1>2. PICK z, K : /\ Cuts(z, K, text, c, max)
                  /\ SplitAt(split(text, c, max), z, K, text)
  BY SplitIs
<1>3. /\ K \in Nat /\ z \in [0..K -> 0..T] /\ z[0] = 0 /\ K < max
      /\ \A k \in 1..K :
            /\ z[k - 1] < z[k] /\ text[z[k]] = c
            /\ \A i \in (z[k - 1] + 1)..(z[k] - 1) : text[i] # c
      /\ K = max - 1 \/ \A i \in (z[K] + 1)..T : text[i] # c
  BY <1>1, <1>2 DEF Cuts
<1>4. PICK p, r : /\ p = [k \in 1..K |-> PieceAt(z, text, k)]
                  /\ r = SubSeq(text, z[K] + 1, Len(text))
  OBVIOUS
<1>5. /\ split(text, c, max) = WithRest(p, r)
      /\ r \in Seq(Char) /\ Len(r) = T - z[K]
      /\ \A i \in 1..(T - z[K]) : r[i] = text[z[K] + i]
  <2>1. z[K] \in 0..Len(text)
    BY <1>1, <1>3
  <2>2. /\ r \in Seq(Char) /\ Len(r) = Len(text) - z[K]
        /\ \A i \in 1..(Len(text) - z[K]) : r[i] = text[z[K] + i]
    BY <1>4, <2>1, RestIs
  <2> QED BY <1>1, <1>2, <1>4, <2>2 DEF SplitAt
<1>6. p \in Seq(Seq(Char)) /\ Len(p) = K
  <2>1. \A k \in 1..K : PieceAt(z, text, k) \in Seq(Char)
    BY <1>2, PieceTyped
  <2> QED BY <1>3, <1>4, <2>1
<1>7. ASSUME NEW k \in 1..K
      PROVE  /\ z[k - 1] \in Nat /\ z[k] \in Nat /\ z[k] <= T
             /\ z[k] = z[k - 1] + Len(p[k]) + 1 /\ text[z[k]] = c
             /\ \A i \in 1..Len(p[k]) : text[z[k - 1] + i] = p[k][i] /\ p[k][i] # c
  <2>1. PICK s : s = p[k]
    OBVIOUS
  <2>2. /\ z[k - 1] \in 0..T /\ z[k] \in 1..T /\ z[k - 1] < z[k]
        /\ s \in Seq(Char) /\ Len(s) = z[k] - z[k - 1] - 1
        /\ \A i \in 1..(z[k] - z[k - 1] - 1) : s[i] = text[z[k - 1] + i]
    <3>1. s = PieceAt(z, text, k)
      BY <1>4, <2>1
    <3>2. /\ z[k - 1] \in 0..Len(text) /\ z[k] \in 1..Len(text)
          /\ z[k - 1] < z[k] /\ PieceAt(z, text, k) \in Seq(Char)
          /\ Len(PieceAt(z, text, k)) = z[k] - z[k - 1] - 1
          /\ \A i \in 1..(z[k] - z[k - 1] - 1) :
                PieceAt(z, text, k)[i] = text[z[k - 1] + i]
      BY <1>2, PieceTyped
    <3> QED BY <1>1, <3>1, <3>2
  <2>3. PICK a \in Nat, b \in Nat, l \in Nat :
           a = z[k - 1] /\ b = z[k] /\ l = Len(s)
    <3>1. z[k - 1] \in Nat /\ z[k] \in Nat /\ Len(s) \in Nat
      BY <2>2
    <3> QED BY <3>1
  <2>4. b = a + l + 1 /\ b <= T /\ b - a - 1 = l
    <3>1. a < b /\ b <= T /\ l = b - a - 1
      BY <2>2, <2>3
    <3> QED BY <3>1
  <2>5. /\ text[b] = c /\ \A i \in (a + 1)..(b - 1) : text[i] # c
        /\ \A i \in 1..l : s[i] = text[a + i]
    BY <1>3, <2>2, <2>3, <2>4
  <2>6. \A i \in 1..l : a + i \in (a + 1)..(b - 1)
    <3>1. b = a + l + 1
      BY <2>4
    <3> QED BY <3>1
  <2>7. \A i \in 1..l : text[a + i] = s[i] /\ s[i] # c
    BY <2>5, <2>6
  <2> QED BY <2>1, <2>3, <2>4, <2>5, <2>7
<1>8. CASE r = <<>>
  <2>1. z[K] = T /\ WithRest(p, r) = p
    <3>1. T - z[K] = 0 /\ z[K] \in 0..T
      BY <1>3, <1>5, <1>8
    <3>2. z[K] = T
      BY <3>1
    <3> QED BY <1>8, <3>2 DEF WithRest
  <2>2. z \in [0..K -> Nat]
    BY <1>3
  <2>3. \A k \in 1..K : z[k] <= T + 1
    BY <1>7
  <2>4. Laid(p, z, K, text, c)
    BY <1>1, <1>3, <1>6, <1>7, <2>1, <2>2, <2>3 DEF Laid
  <2>5. K <= max
    BY <1>3
  <2>6. Parted(p, z, K, text, c, max)
    BY <1>7, <2>4, <2>5 DEF Parted
  <2> QED BY <1>5, <2>1, <2>6
<1>9. CASE r # <<>>
  <2>1. PICK q, N : q = Append(p, r) /\ N = K + 1
    OBVIOUS
  <2>2. /\ N \in Nat /\ K < N /\ N <= max /\ N - 1 = K /\ N \in 1..N
        /\ \A k \in 1..N : k = N \/ k \in 1..K
    BY <1>3, <2>1
  <2>3. /\ q \in Seq(Seq(Char)) /\ Len(q) = N /\ q[N] = r
        /\ \A k \in 1..K : q[k] = p[k]
    BY <1>5, <1>6, <2>1
  <2>4. PICK w : w = [k \in 0..N |-> IF k = N THEN T + 1 ELSE z[k]]
    OBVIOUS
  <2>5. w \in [0..N -> Nat] /\ w[N] = T + 1 /\ \A k \in 0..K : w[k] = z[k]
    <3>1. \A k \in 0..N : k # N => k \in 0..K
      BY <2>1, <2>2
    <3>2. \A k \in 0..K : k \in 0..N /\ k # N
      BY <1>3, <2>2
    <3>3. N \in 0..N /\ T + 1 \in Nat /\ \A k \in 0..K : z[k] \in Nat
      BY <1>3, <2>2
    <3> QED BY <2>4, <3>1, <3>2, <3>3
  <2>6. w[0] = 0
    <3>1. 0 \in 0..K
      BY <1>3
    <3> QED BY <1>3, <2>5, <3>1
  <2>7. PICK a \in Nat, l \in Nat : a = z[K] /\ l = Len(r) /\ T = a + l
    <3>1. z[K] \in 0..T /\ Len(r) = T - z[K]
      BY <1>3, <1>5
    <3> QED BY <3>1
  <2>8. w[N] = w[N - 1] + Len(q[N]) + 1
        /\ \A i \in 1..Len(q[N]) : text[w[N - 1] + i] = q[N][i]
    <3>1. w[N - 1] = a
      <4>1. K \in 0..K
        BY <1>3
      <4> QED BY <2>2, <2>5, <2>7, <4>1
    <3>2. T + 1 = a + l + 1 /\ T - a = l
      BY <2>7
    <3>3. \A i \in 1..l : r[i] = text[a + i]
      BY <1>5, <2>7, <3>2
    <3> QED BY <2>3, <2>5, <2>7, <3>1, <3>2, <3>3
  <2>9. ASSUME NEW k \in 1..K
        PROVE  /\ w[k] = w[k - 1] + Len(q[k]) + 1 /\ w[k] <= T /\ text[w[k]] = c
               /\ w[k] <= T + 1
               /\ \A i \in 1..Len(q[k]) : text[w[k - 1] + i] = q[k][i]
    <3>1. k \in 0..K /\ k - 1 \in 0..K
      BY <1>3
    <3>2. w[k] = z[k] /\ w[k - 1] = z[k - 1] /\ q[k] = p[k]
      BY <2>3, <2>5, <3>1
    <3>3. w[k] \in Nat /\ w[k] <= T
      BY <1>7, <3>2
    <3>4. w[k] <= T + 1
      BY <3>3
    <3> QED BY <1>7, <3>2, <3>3, <3>4
  <2>10. ASSUME NEW k \in 1..N
         PROVE  /\ w[k] = w[k - 1] + Len(q[k]) + 1
                /\ \A i \in 1..Len(q[k]) : text[w[k - 1] + i] = q[k][i]
                /\ w[k] <= T + 1 /\ (w[k] <= T => text[w[k]] = c)
                /\ (k < N => w[k] <= T)
    <3>1. CASE k = N
      <4>1. T + 1 <= T + 1 /\ ~(T + 1 <= T) /\ ~(N < N)
        BY <2>2
      <4> QED BY <2>5, <2>8, <3>1, <4>1
    <3>2. CASE k \in 1..K
      BY <2>9, <3>2
    <3> QED BY <2>2, <3>1, <3>2
  <2>11. Laid(q, w, N, text, c)
    BY <1>1, <2>2, <2>3, <2>5, <2>6, <2>10 DEF Laid
  <2>12. ASSUME NEW k \in 1..N, k < max, NEW i \in 1..Len(q[k]) PROVE q[k][i] # c
    <3>1. CASE k = N
      <4>1. K # max - 1
        BY <1>3, <2>1, <2>12, <3>1
      <4>2. i \in 1..l /\ q[k] = r
        BY <2>3, <2>7, <3>1
      <4>3. a + i \in (a + 1)..T /\ T - a = l
        <5>1. T = a + l
          BY <2>7
        <5> QED BY <4>2, <5>1
      <4> QED BY <1>3, <1>5, <2>7, <4>1, <4>2, <4>3
    <3>2. CASE k \in 1..K
      BY <1>7, <2>3, <3>2
    <3> QED BY <2>2, <3>1, <3>2
  <2>13. Parted(q, w, N, text, c, max)
    BY <2>2, <2>11, <2>12 DEF Parted
  <2> QED BY <1>5, <1>9, <2>1, <2>13 DEF WithRest
<1> QED BY <1>8, <1>9

(* Join() puts such pieces together again, but for a delimiter at the end. *)
JoinedTo(s, a, n, w, text) ==
    /\ s \in Seq(Char) /\ a + Len(s) + 1 = w[n + 1]
    /\ \A i \in 1..Len(s) : s[i] = text[a + i]

LEMMA OneMorePiece ==
    ASSUME NEW text \in Seq(Char), NEW c \in Char, NEW q, NEW w, NEW N,
           Laid(q, w, N, text, c),
           NEW a \in Nat, NEW n \in Nat, n + 2 \in 1..N, NEW s,
           JoinedTo(s, a, n, w, text)
    PROVE  JoinedTo(s \o (<<c>> \o q[n + 2]), a, n + 1, w, text)
<1>1. PICK k \in 1..N : k = n + 2 /\ k - 1 = n + 1 /\ n + 1 + 1 = k
  <2>1. N \in Nat
    BY DEF Laid
  <2> QED BY <2>1
<1>2. PICK j \in 1..N : j = n + 1 /\ j < N
  <2>1. N \in Nat
    BY DEF Laid
  <2> QED BY <2>1
<1>3. /\ q[k] \in Seq(Char) /\ w[k] = w[j] + Len(q[k]) + 1
      /\ \A i \in 1..Len(q[k]) : text[w[j] + i] = q[k][i]
      /\ text[w[j]] = c
  <2>1. k - 1 = j
    BY <1>1, <1>2
  <2>2. /\ q \in Seq(Seq(Char)) /\ Len(q) = N
        /\ w[k] = w[k - 1] + Len(q[k]) + 1
        /\ \A i \in 1..Len(q[k]) : text[w[k - 1] + i] = q[k][i]
    BY DEF Laid
  <2>3. w[j] <= Len(text)
    BY <1>2 DEF Laid
  <2>4. text[w[j]] = c
    BY <2>3 DEF Laid
  <2> QED BY <2>1, <2>2, <2>4
<1>4. PICK x \in Seq(Char), d \in Seq(Char), b \in Nat, f \in Nat :
         x = q[k] /\ d = <<c>> /\ b = Len(s) /\ f = Len(x)
  <2>1. s \in Seq(Char)
    BY DEF JoinedTo
  <2>2. Len(s) \in Nat /\ Len(q[k]) \in Nat /\ <<c>> \in Seq(Char)
    BY <1>3, <2>1
  <2> QED BY <1>3, <2>2
<1>5. Len(d) = 1 /\ d[1] = c /\ 1 \in 1..1
  BY <1>4
<1>6. PICK y \in {d \o x} : Joined(y, d, x)
  BY ConcatAt
<1>7. /\ y = d \o x /\ y \in Seq(Char) /\ Len(y) = 1 + f /\ y[1] = c
      /\ \A i \in 1..f : y[1 + i] = x[i]
  BY <1>4, <1>5, <1>6 DEF Joined
<1>8. PICK t \in {s \o y} : Joined(t, s, y)
  <2>1. s \in Seq(Char)
    BY DEF JoinedTo
  <2> QED BY <1>7, <2>1, ConcatAt
<1>9. /\ t \in Seq(Char) /\ Len(t) = b + (1 + f)
      /\ \A i \in 1..b : t[i] = s[i]
      /\ \A i \in 1..(1 + f) : t[b + i] = y[i]
  BY <1>4, <1>7, <1>8 DEF Joined
<1>10. a + b + 1 = w[j] /\ \A i \in 1..b : s[i] = text[a + i]
  BY <1>2, <1>4 DEF JoinedTo
<1>11. a + Len(t) + 1 = w[k]
  <2>1. w[k] = a + b + 1 + f + 1
    BY <1>3, <1>4, <1>10
  <2>2. a + (b + (1 + f)) + 1 = a + b + 1 + f + 1
    OBVIOUS
  <2> QED BY <1>9, <2>1, <2>2
<1>12. ASSUME NEW i \in 1..(b + (1 + f)) PROVE t[i] = text[a + i]
  <2>1. CASE i \in 1..b
    BY <1>9, <1>10, <2>1
  <2>2. CASE i = b + 1
    <3>1. 1 \in 1..(1 + f) /\ a + i = a + b + 1
      BY <2>2
    <3> QED BY <1>3, <1>7, <1>9, <1>10, <2>2, <3>1
  <2>3. CASE i > b + 1
    <3>1. PICK l \in 1..f : l = i - b - 1
      BY <2>3
    <3>2. 1 + l \in 1..(1 + f) /\ b + (1 + l) = i /\ a + b + 1 + l = a + i
      BY <3>1
    <3>3. t[i] = x[l]
      BY <1>7, <1>9, <3>2
    <3>4. text[a + b + 1 + l] = x[l]
      BY <1>3, <1>4, <1>10
    <3> QED BY <3>2, <3>3, <3>4
  <2>4. i \in 1..b \/ i = b + 1 \/ i > b + 1
    OBVIOUS
  <2> QED BY <2>1, <2>2, <2>3, <2>4
<1>13. JoinedTo(t, a, n + 1, w, text)
  BY <1>1, <1>9, <1>11, <1>12 DEF JoinedTo
<1> QED BY <1>1, <1>4, <1>7, <1>8, <1>13

LEMMA JoinIs ==
    ASSUME NEW text \in Seq(Char), NEW c \in Char, NEW q, NEW w, NEW N,
           Laid(q, w, N, text, c), N # 0
    PROVE  /\ Join(q, c) \in Seq(Char) /\ Len(Join(q, c)) + 1 = w[N]
           /\ \A i \in 1..Len(Join(q, c)) : Join(q, c)[i] = text[i]
<1>1. /\ N \in Nat /\ N > 0 /\ q \in Seq(Seq(Char)) /\ Len(q) = N /\ q # <<>>
      /\ w[0] = 0 /\ 1 \in 1..N
  <2>1. N \in Nat /\ q \in Seq(Seq(Char)) /\ Len(q) = N /\ w[0] = 0
    BY DEF Laid
  <2>2. N > 0 /\ 1 \in 1..N
    BY <2>1
  <2> QED BY <2>1, <2>2
<1>2. PICK x \in Seq(Char), a \in Nat : x = q[1] /\ a = Len(x)
  <2>1. q[1] \in Seq(Char)
    BY <1>1
  <2> QED BY <2>1
<1>3. w[1] = a + 1 /\ \A i \in 1..a : text[i] = x[i]
  <2>1. 1 - 1 = 0 /\ \A i \in 1..a : 0 + i = i
    OBVIOUS
  <2>2. /\ w[1] = w[1 - 1] + Len(q[1]) + 1
        /\ \A i \in 1..Len(q[1]) : text[w[1 - 1] + i] = q[1][i]
    BY <1>1 DEF Laid
  <2>3. w[1] = 0 + a + 1
    BY <1>1, <1>2, <2>1, <2>2
  <2>4. \A i \in 1..a : text[0 + i] = x[i]
    BY <1>1, <1>2, <2>1, <2>2
  <2> QED BY <2>1, <2>3, <2>4
<1>4. PICK M \in Nat : M = N - 1
  BY <1>1
<1>5. PICK list : list = [i \in 1..M |-> <<c>> \o q[i + 1]]
  OBVIOUS
<1>6. list \in Seq(Seq(Char)) /\ Len(list) = M
  <2>1. ASSUME NEW i \in 1..M PROVE <<c>> \o q[i + 1] \in Seq(Char)
    <3>1. i + 1 \in 1..N
      BY <1>1, <1>4
    <3>2. q[i + 1] \in Seq(Char) /\ <<c>> \in Seq(Char)
      BY <1>1, <3>1
    <3>3. Joined(<<c>> \o q[i + 1], <<c>>, q[i + 1])
      BY <3>2, ConcatAt
    <3> QED BY <3>3 DEF Joined
  <2> QED BY <1>5, <2>1
<1>7. Join(q, c) = x \o FlattenSeq(list)
  BY <1>1, <1>2, <1>4, <1>5 DEF Join
<1>8. PICK g : /\ g \in [0..M -> Seq(Char)] /\ g[0] = <<>>
               /\ \A n \in 1..M : g[n] = g[n - 1] \o list[n]
               /\ FlattenSeq(list) = g[M]
  BY <1>6, FlattenSteps DEF Flattens
<1> DEFINE I == {n \in Nat : n \in 0..M => JoinedTo(g[n], a, n, w, text)}
<1>9. 0 \in I
  <2>1. g[0] \in Seq(Char) /\ Len(g[0]) = 0 /\ 0 + 1 = 1 /\ a + 0 + 1 = a + 1
    BY <1>8
  <2>2. JoinedTo(g[0], a, 0, w, text)
    BY <1>3, <2>1 DEF JoinedTo
  <2> QED BY <2>2
<1>10. ASSUME NEW n \in Nat, n \in I PROVE n + 1 \in I
  <2>1. CASE n + 1 \in 0..M
    <3>1. PICK k \in 1..M : k = n + 1 /\ k - 1 = n /\ k + 1 = n + 2
      BY <2>1
    <3>2. n \in 0..M /\ n + 2 \in 1..N
      BY <1>1, <1>4, <3>1
    <3>3. JoinedTo(g[n], a, n, w, text)
      BY <1>10, <3>2
    <3>4. g[k] = g[n] \o (<<c>> \o q[n + 2])
      BY <1>5, <1>8, <3>1
    <3>5. PICK s, u : s = g[n] /\ u = s \o (<<c>> \o q[n + 2])
      OBVIOUS
    <3>6. JoinedTo(u, a, n + 1, w, text)
      BY <3>2, <3>3, <3>5, OneMorePiece
    <3>7. JoinedTo(g[n + 1], a, n + 1, w, text)
      BY <3>1, <3>4, <3>5, <3>6
    <3> QED BY <3>7
  <2> QED BY <2>1
<1>11. Nat \subseteq I
  <2> HIDE DEF I
  <2> QED BY <1>9, <1>10, NatInductionOnSet
<1>12. PICK s : s = g[M] /\ JoinedTo(s, a, M, w, text)
  BY <1>11
<1>13. PICK b \in Nat :
          /\ b = Len(s) /\ s \in Seq(Char) /\ a + b + 1 = w[N]
          /\ \A i \in 1..b : s[i] = text[a + i]
  <2>1. s \in Seq(Char) /\ a + Len(s) + 1 = w[M + 1]
        /\ \A i \in 1..Len(s) : s[i] = text[a + i]
    BY <1>12 DEF JoinedTo
  <2>2. M + 1 = N
    BY <1>1, <1>4
  <2>3. Len(s) \in Nat
    BY <2>1
  <2> QED BY <2>1, <2>2, <2>3
<1>14. PICK t \in {x \o s} : Joined(t, x, s)
  BY <1>13, ConcatAt
<1>15. /\ t \in Seq(Char) /\ Len(t) = a + b
       /\ \A i \in 1..a : t[i] = x[i]
       /\ \A i \in 1..b : t[a + i] = s[i]
  BY <1>2, <1>13, <1>14 DEF Joined
<1>16. ASSUME NEW i \in 1..(a + b) PROVE t[i] = text[i]
  <2>1. CASE i <= a
    BY <1>3, <1>15, <2>1
  <2>2. CASE i > a
    <3>1. PICK j \in 1..b : j = i - a
      BY <2>2
    <3>2. a + j = i
      BY <3>1
    <3>3. t[a + j] = text[a + j]
      BY <1>13, <1>15
    <3> QED BY <3>2, <3>3
  <2> QED BY <2>1, <2>2
<1>17. t = Join(q, c)
  BY <1>7, <1>8, <1>12, <1>14
<1> QED BY <1>13, <1>15, <1>16, <1>17

(* Any text is the pieces that split() makes of it.                        *)
LEMMA SplitExact ==
    ASSUME NEW text \in Seq(Char), NEW c \in Char, NEW max \in Nat, max # 0
    PROVE  SplitIsExact(text, c, max)
<1>1. PICK q : q = split(text, c, max)
  OBVIOUS
<1>2. PICK w, N : Parted(q, w, N, text, c, max)
  BY <1>1, SplitIsLaid
<1>3. Laid(q, w, N, text, c) /\ N <= max
      /\ \A k \in 1..N : k < max => \A i \in 1..Len(q[k]) : q[k][i] # c
  BY <1>2 DEF Parted
<1>4. PICK T \in Nat : T = Len(text)
  OBVIOUS
<1>5. N \in Nat /\ q \in Seq(Seq(Char)) /\ Len(q) = N /\ w[0] = 0
      /\ w[N] \in {T, T + 1}
  BY <1>3, <1>4 DEF Laid
<1>6. \A i \in DOMAIN q : i < max => ~Contains(q[i], c)
  BY <1>3, <1>5 DEF Contains
<1>7. text = Join(q, c) \/ text = Append(Join(q, c), c)
  <2>1. CASE N = 0
    <3>1. T = 0 /\ q = <<>>
      BY <1>5, <2>1
    <3>2. text = <<>>
      <4>1. Len(text) = 0
        BY <1>4, <3>1
      <4>2. text # <<>> => Len(text) # 0
        OBVIOUS
      <4> QED BY <4>1, <4>2
    <3>3. Join(q, c) = <<>>
      BY <3>1 DEF Join
    <3> QED BY <3>2, <3>3
  <2>2. CASE N # 0
    <3>1. PICK j \in Seq(Char), l \in Nat :
             /\ j = Join(q, c) /\ l = Len(j) /\ l + 1 = w[N]
             /\ \A i \in 1..l : j[i] = text[i]
      <4>1. /\ Join(q, c) \in Seq(Char) /\ Len(Join(q, c)) + 1 = w[N]
            /\ \A i \in 1..Len(Join(q, c)) : Join(q, c)[i] = text[i]
        BY <1>3, <2>2, JoinIs
      <4>2. Len(Join(q, c)) \in Nat
        BY <4>1
      <4> QED BY <4>1, <4>2
    <3>2. CASE w[N] = T + 1
      <4>1. l = T
        BY <3>1, <3>2
      <4>2. Len(j) = Len(text) /\ \A i \in 1..Len(j) : j[i] = text[i]
        BY <1>4, <3>1, <4>1
      <4> QED BY <3>1, <4>2, SameText
    <3>3. CASE w[N] = T
      <4>1. l + 1 = T /\ text[T] = c
        <5>1. N \in 1..N /\ w[N] <= Len(text)
          BY <1>4, <1>5, <2>2, <3>3
        <5>2. text[w[N]] = c
          BY <1>3, <5>1 DEF Laid
        <5> QED BY <3>1, <3>3, <5>2
      <4>2. PICK u : u = Append(j, c)
        OBVIOUS
      <4>3. /\ u \in Seq(Char) /\ Len(u) = l + 1 /\ u[l + 1] = c
            /\ \A i \in 1..l : u[i] = j[i]
        BY <3>1, <4>2
      <4>4. ASSUME NEW i \in 1..(l + 1) PROVE u[i] = text[i]
        <5>1. CASE i = l + 1
          BY <4>1, <4>3, <5>1
        <5>2. CASE i # l + 1
          <6>1. i \in 1..l
            BY <5>2
          <6> QED BY <3>1, <4>3, <6>1
        <5> QED BY <5>1, <5>2
      <4>5. Len(u) = Len(text) /\ \A i \in 1..Len(u) : u[i] = text[i]
        BY <1>4, <4>1, <4>3, <4>4
      <4>6. u = text
        BY <4>3, <4>5, SameText
      <4> QED BY <3>1, <4>2, <4>6
    <3> QED BY <1>5, <3>2, <3>3
  <2> QED BY <2>1, <2>2
<1>8. Len(q) <= max
  BY <1>3, <1>5
<1> QED BY <1>1, <1>6, <1>7, <1>8 DEF SplitIsExact

(* However it is limited, split() gives no more pieces than it may, no     *)
(* delimiter is left in any but the last piece of a limited one, and the   *)
(* text is these pieces with the delimiters between them: only a delimiter *)
(* at the very end is lost.  This for every text, delimiter and limit.     *)
THEOREM EverySplitIsExact ==
    \A text \in Seq(Char), c \in Char, max \in Nat \ {0} : SplitIsExact(text, c, max)
<1> TAKE text \in Seq(Char), c \in Char, max \in Nat \ {0}
<1>1. max \in Nat /\ max # 0
  OBVIOUS
<1> QED BY <1>1, SplitExact

(* In particular for every value a header can have, with any limit that    *)
(* makes a difference.                                                     *)
THEOREM SplittingIsExact == Spec => []SplitsAreExact
<1>1. HInv /\ [Next]_vars => HInv'
  BY NextHInv
<1>2. HInv => SplitsAreExact
  <2> SUFFICES ASSUME HInv, NewMessage, NEW i \in DOMAIN message.values,
                      NEW max \in 1..NoLimit(message.values[i])
               PROVE  SplitIsExact(message.values[i], Colon, max)
    BY DEF SplitsAreExact
  <2>1. message \in Message
    BY DEF HInv, NewMessage, Arrived
  <2>2. DOMAIN message.values = DOMAIN Names /\ DOMAIN Names = 1..Len(Names)
    BY <2>1, HeaderAssumption DEF Message
  <2>3. PICK v : v = message.values[i] /\ v \in Seq(Char)
    BY <2>1, <2>2, ValueTyped
  <2>4. max \in Nat /\ max # 0 /\ Colon \in Char
    <3>1. Len(v) + 2 \in Nat /\ max \in 1..(Len(v) + 2)
      BY <2>3 DEF NoLimit
    <3> QED BY <3>1, CharFacts
  <2>5. SplitIsExact(v, Colon, max)
    BY <2>3, <2>4, SplitExact
  <2> QED BY <2>3, <2>5
<1> QED BY <1>1, <1>2, InitHInv, PTL DEF Spec

-----------------------------------------------------------------------------
(* What arrives of a whole header, line by line.                           *)

LineText(m, k) == Names[k] \o <<Colon, Space>> \o m.values[k] \o <<CR>>

Lines(m) ==
    [k \in 1..(Len(Names) + 1) |->
        IF k = Len(Names) + 1 THEN <<CR>> ELSE LineText(m, k)]

(* A line as getline() leaves it.                                          *)
LineRead(l, n, v) ==
    /\ l \in Seq(Char) /\ Len(l) = Len(n) + Len(v) + 3
    /\ \A k \in 1..Len(n) : l[k] = n[k]
    /\ l[Len(n) + 1] = Colon /\ l[Len(n) + 2] = Space
    /\ \A k \in 1..Len(v) : l[Len(n) + 2 + k] = v[k]
    /\ l[Len(n) + Len(v) + 3] = CR

LEMMA TwoEnds ==
    ASSUME NEW b \in Seq(Char), NEW x \in Char, NEW y \in Char
    PROVE  (b \o <<x>>) \o <<y>> = b \o <<x, y>>
<1>1. PICK n \in Nat : n = Len(b)
  OBVIOUS
<1>2. PICK r, d, e : r = <<x>> /\ d = <<y>> /\ e = <<x, y>>
  OBVIOUS
<1>3. /\ r \in Seq(Char) /\ d \in Seq(Char) /\ e \in Seq(Char)
      /\ Len(r) = 1 /\ Len(d) = 1 /\ Len(e) = 2
      /\ r[1] = x /\ d[1] = y /\ e[1] = x /\ e[2] = y
  BY <1>2
<1>4. PICK s, t, u : s = b \o r /\ t = s \o d /\ u = b \o e
  OBVIOUS
<1>5. /\ s \in Seq(Char) /\ Len(s) = n + 1
      /\ (\A i \in 1..n : s[i] = b[i]) /\ \A i \in 1..1 : s[n + i] = r[i]
  <2>1. Joined(s, b, r)
    BY <1>3, <1>4, ConcatAt
  <2> QED BY <1>1, <1>3, <2>1 DEF Joined
<1>6. /\ t \in Seq(Char) /\ Len(t) = n + 1 + 1
      /\ (\A i \in 1..(n + 1) : t[i] = s[i]) /\ \A i \in 1..1 : t[n + 1 + i] = d[i]
  <2>1. Joined(t, s, d)
    BY <1>3, <1>4, <1>5, ConcatAt
  <2> QED BY <1>3, <1>5, <2>1 DEF Joined
<1>7. /\ u \in Seq(Char) /\ Len(u) = n + 2
      /\ (\A i \in 1..n : u[i] = b[i]) /\ \A i \in 1..2 : u[n + i] = e[i]
  <2>1. Joined(u, b, e)
    BY <1>3, <1>4, ConcatAt
  <2> QED BY <1>1, <1>3, <2>1 DEF Joined
<1>8. /\ 1 \in 1..1 /\ 1 \in 1..2 /\ 2 \in 1..2 /\ n + 1 \in 1..(n + 1)
      /\ n + 1 + 1 = n + 2 /\ \A i \in 1..n : i \in 1..(n + 1)
      /\ \A i \in 1..(n + 2) : i \in 1..n \/ i = n + 1 \/ i = n + 2
  OBVIOUS
<1>9. t[n + 1] = x /\ t[n + 2] = y /\ u[n + 1] = x /\ u[n + 2] = y
  BY <1>3, <1>5, <1>6, <1>7, <1>8
<1>10. \A i \in 1..n : t[i] = u[i]
  BY <1>5, <1>6, <1>7, <1>8
<1>11. Len(t) = Len(u) /\ \A i \in 1..Len(t) : t[i] = u[i]
  BY <1>6, <1>7, <1>8, <1>9, <1>10
<1>12. t = u
  BY <1>6, <1>7, <1>11, SameText
<1> QED BY <1>2, <1>4, <1>12

LEMMA LineTextIs ==
    ASSUME NEW m \in Message, NEW i \in 1..Len(Names)
    PROVE  /\ HeaderLine(m, i) = LineText(m, i) \o <<LF>>
           /\ LineRead(LineText(m, i), Names[i], m.values[i])
           /\ IsHeader(LineText(m, i))
           /\ \A k \in 1..Len(LineText(m, i)) : LineText(m, i)[k] # LF
<1>1. PICK n \in Seq(Char), v \in Seq(Char), x \in Nat, y \in Nat :
         n = Names[i] /\ v = m.values[i] /\ x = Len(n) /\ y = Len(v)
  BY NameTyped, ValueTyped
<1>2. PICK p, a, b : /\ p = <<Colon, Space>> /\ a = n \o p /\ b = a \o v
                     /\ p \in Seq(Char) /\ a \in Seq(Char) /\ b \in Seq(Char)
  <2>1. PICK p, a, b : p = <<Colon, Space>> /\ a = n \o p /\ b = a \o v
    OBVIOUS
  <2>2. p \in Seq(Char)
    BY <2>1, CharFacts
  <2>3. a \in Seq(Char)
    <3>1. Joined(a, n, p)
      BY <2>1, <2>2, ConcatAt
    <3> QED BY <3>1 DEF Joined
  <2>4. b \in Seq(Char)
    <3>1. Joined(b, a, v)
      BY <2>1, <2>3, ConcatAt
    <3> QED BY <3>1 DEF Joined
  <2> QED BY <2>1, <2>2, <2>3, <2>4
<1>3. PICK l, h, d : l = LineText(m, i) /\ h = HeaderLine(m, i) /\ d = <<LF>>
  OBVIOUS
<1>4. l = b \o <<CR>> /\ h = b \o <<CR, LF>>
  BY <1>1, <1>2, <1>3 DEF LineText, HeaderLine
<1>5. h = l \o d
  <2>1. CR \in Char /\ LF \in Char
    BY CharFacts
  <2>2. (b \o <<CR>>) \o <<LF>> = b \o <<CR, LF>>
    BY <1>2, <2>1, TwoEnds
  <2> QED BY <1>3, <1>4, <2>2
<1>6. d \in Seq(Char) /\ Len(d) = 1 /\ d[1] = LF
  BY <1>3, CharFacts
<1>7. l \in Seq(Char)
  <2>1. PICK r : r = <<CR>>
    OBVIOUS
  <2>2. r \in Seq(Char)
    BY <2>1, CharFacts
  <2>3. Joined(l, b, r)
    BY <1>2, <1>4, <2>1, <2>2, ConcatAt
  <2> QED BY <2>3 DEF Joined
<1>8. PICK z \in Nat :
         /\ z = Len(l) /\ Len(h) = z + 1 /\ \A k \in 1..z : l[k] = h[k]
  <2>1. Joined(h, l, d)
    BY <1>5, <1>6, <1>7, ConcatAt
  <2>2. Len(l) \in Nat /\ Len(h) = Len(l) + 1 /\ \A k \in 1..Len(l) : l[k] = h[k]
    BY <1>6, <1>7, <2>1 DEF Joined
  <2> QED BY <2>2
<1>9. /\ Len(h) = x + y + 4
      /\ \A k \in 1..x : h[k] = n[k]
      /\ h[x + 1] = Colon /\ h[x + 2] = Space
      /\ \A k \in 1..y : h[x + 2 + k] = v[k]
      /\ h[x + y + 3] = CR
  <2>1. LineAt(h, n, v)
    BY <1>1, <1>3, HeaderLineIs
  <2> QED BY <1>1, <2>1 DEF LineAt
<1>10. z = x + y + 3 /\ x > 0
  <2>1. x > 0
    BY <1>1, NameTyped
  <2> QED BY <1>8, <1>9, <2>1
<1>11. h[1] \notin Blank /\ \A k \in 1..z : h[k] # LF
  <2>1. OneLine(h)
    BY <1>3, HeaderLineIs
  <2>2. \A k \in 1..z : k \in 1..(z + 1) /\ k # z + 1
    OBVIOUS
  <2> QED BY <1>8, <2>1, <2>2 DEF OneLine
<1>12. IsHeader(l) /\ \A k \in 1..z : l[k] # LF
  <2>1. z > 0 /\ 1 \in 1..z
    BY <1>10
  <2>2. l # <<>>
    BY <1>8, <2>1
  <2> QED BY <1>8, <1>11, <2>1, <2>2 DEF IsHeader
<1>13. LineRead(l, n, v)
  <2>1. \A k \in 1..x : k \in 1..z
    BY <1>10
  <2>2. x + 1 \in 1..z /\ x + 2 \in 1..z /\ x + y + 3 \in 1..z
    BY <1>10
  <2>3. \A k \in 1..y : x + 2 + k \in 1..z
    BY <1>10
  <2>4. \A k \in 1..x : l[k] = n[k]
    BY <1>8, <1>9, <2>1
  <2>5. l[x + 1] = Colon /\ l[x + 2] = Space /\ l[x + y + 3] = CR
    BY <1>8, <1>9, <2>2
  <2>6. \A k \in 1..y : l[x + 2 + k] = v[k]
    BY <1>8, <1>9, <2>3
  <2>7. Len(l) = x + y + 3
    BY <1>8, <1>10
  <2> QED BY <1>1, <1>7, <2>4, <2>5, <2>6, <2>7 DEF LineRead
<1> QED BY <1>1, <1>3, <1>5, <1>8, <1>12, <1>13

(* A piece without a delimiter behind the others.                          *)
LEMMA LaidLast ==
    ASSUME NEW q \in Seq(Seq(Char)), NEW w, NEW t \in Seq(Char), NEW c,
           Laid(q, w, Len(q), t, c), w[Len(q)] = Len(t),
           NEW x \in Seq(Char), NEW u \in Seq(Char), Joined(u, t, x)
    PROVE  \E y : /\ Laid(Append(q, x), y, Len(q) + 1, u, c)
                  /\ y[Len(q) + 1] = Len(u) + 1
<1>1. PICK N \in Nat, T \in Nat, l \in Nat : N = Len(q) /\ T = Len(t) /\ l = Len(x)
  OBVIOUS
<1>2. PICK U \in Nat : /\ U = T + l /\ U = Len(u) /\ T <= U
                       /\ \A i \in 1..T : u[i] = t[i]
                       /\ \A i \in 1..l : u[T + i] = x[i]
  <2>1. Len(u) = T + l /\ Len(u) \in Nat /\ T <= T + l
    BY <1>1 DEF Joined
  <2>2. (\A i \in 1..T : u[i] = t[i]) /\ \A i \in 1..l : u[T + i] = x[i]
    BY <1>1 DEF Joined
  <2> QED BY <2>1, <2>2
<1>3. /\ w \in [0..N -> Nat] /\ w[0] = 0 /\ w[N] = T
      /\ \A k \in 1..N :
            /\ w[k] = w[k - 1] + Len(q[k]) + 1
            /\ \A i \in 1..Len(q[k]) : t[w[k - 1] + i] = q[k][i]
            /\ w[k] <= T => t[w[k]] = c
            /\ k < N => w[k] <= T
  BY <1>1 DEF Laid
<1>4. PICK M \in Nat : M = N + 1 /\ M - 1 = N /\ N < M /\ M \in 1..M /\ M \in 0..M
                       /\ N \in 0..N /\ 0 \in 0..N
  OBVIOUS
<1>5. \A k \in 1..M : k = M \/ k \in 1..N
  BY <1>4
<1>6. PICK r : r = Append(q, x)
  OBVIOUS
<1>7. /\ r \in Seq(Seq(Char)) /\ Len(r) = M /\ r[M] = x
      /\ \A k \in 1..N : r[k] = q[k]
  BY <1>1, <1>4, <1>6
<1>8. PICK y : y = [k \in 0..M |-> IF k = M THEN U + 1 ELSE w[k]]
  OBVIOUS
<1>9. y \in [0..M -> Nat] /\ y[M] = U + 1 /\ \A k \in 0..N : y[k] = w[k]
  <2>1. \A k \in 0..M : k # M => k \in 0..N
    BY <1>4
  <2>2. \A k \in 0..N : k \in 0..M /\ k # M
    BY <1>4
  <2> QED BY <1>3, <1>4, <1>8, <2>1, <2>2
<1>10. y[0] = 0 /\ y[N] = T
  BY <1>3, <1>4, <1>9
<1>11. ASSUME NEW k \in 1..N
       PROVE  /\ y[k] = y[k - 1] + Len(r[k]) + 1 /\ y[k] <= U /\ y[k] <= U + 1
              /\ u[y[k]] = c
              /\ \A i \in 1..Len(r[k]) : u[y[k - 1] + i] = r[k][i]
  <2>1. k \in 0..N /\ k - 1 \in 0..N
    BY <1>4
  <2>2. PICK s \in Seq(Char), a \in Nat, b \in Nat, f \in Nat :
           /\ s = q[k] /\ a = w[k - 1] /\ b = w[k] /\ f = Len(s)
    <3>1. q[k] \in Seq(Char)
      BY <1>1
    <3>2. w[k - 1] \in Nat /\ w[k] \in Nat
      BY <1>3, <2>1
    <3> QED BY <3>1, <3>2
  <2>3. y[k] = b /\ y[k - 1] = a /\ r[k] = s
    BY <1>7, <1>9, <2>1, <2>2
  <2>4. b = a + f + 1 /\ \A i \in 1..f : t[a + i] = s[i]
    BY <1>3, <2>2
  <2>5. b <= T
    <3>1. CASE k = N
      BY <1>3, <2>2, <3>1
    <3>2. CASE k # N
      <4>1. k < N
        BY <3>2
      <4> QED BY <1>3, <2>2, <4>1
    <3> QED BY <3>1, <3>2
  <2>6. t[b] = c
    BY <1>3, <2>2, <2>5
  <2>7. b \in 1..T /\ \A i \in 1..f : a + i \in 1..T
    <3>1. b = a + f + 1
      BY <2>4
    <3> QED BY <2>5, <3>1
  <2>8. u[b] = c /\ \A i \in 1..f : u[a + i] = s[i]
    BY <1>2, <2>4, <2>6, <2>7
  <2>9. b <= U /\ b <= U + 1
    BY <1>2, <2>5
  <2> QED BY <2>2, <2>3, <2>4, <2>8, <2>9
<1>12. /\ y[M] = y[M - 1] + Len(r[M]) + 1
       /\ \A i \in 1..Len(r[M]) : u[y[M - 1] + i] = r[M][i]
  <2>1. y[M - 1] = T /\ r[M] = x /\ Len(r[M]) = l
    BY <1>1, <1>4, <1>7, <1>10
  <2>2. y[M] = T + l + 1
    BY <1>2, <1>9
  <2>3. \A i \in 1..Len(r[M]) : u[y[M - 1] + i] = r[M][i]
    BY <1>2, <2>1
  <2>4. y[M] = y[M - 1] + Len(r[M]) + 1
    BY <2>1, <2>2
  <2> QED BY <2>3, <2>4
<1>13. ASSUME NEW k \in 1..M
       PROVE  /\ y[k] = y[k - 1] + Len(r[k]) + 1
              /\ \A i \in 1..Len(r[k]) : u[y[k - 1] + i] = r[k][i]
              /\ y[k] <= U + 1 /\ (y[k] <= U => u[y[k]] = c)
              /\ (k < M => y[k] <= U)
  <2>1. CASE k = M
    <3>1. U + 1 <= U + 1 /\ ~(U + 1 <= U) /\ ~(M < M)
      OBVIOUS
    <3> QED BY <1>9, <1>12, <2>1, <3>1
  <2>2. CASE k \in 1..N
    BY <1>11, <2>2
  <2> QED BY <1>5, <2>1, <2>2
<1>14. Laid(r, y, M, u, c)
  BY <1>2, <1>7, <1>9, <1>10, <1>13 DEF Laid
<1> QED BY <1>1, <1>2, <1>4, <1>6, <1>9, <1>14

LEMMA LinesAre ==
    ASSUME NEW m \in Message, NEW N, N = Len(Names)
    PROVE  /\ N \in Nat /\ DOMAIN Names = 1..N
           /\ Lines(m) \in Seq(Seq(Char)) /\ Len(Lines(m)) = N + 1
           /\ Lines(m)[N + 1] = <<CR>> /\ ~IsHeader(<<CR>>)
           /\ \A k \in 1..N : Lines(m)[k] = LineText(m, k)
           /\ \A k \in 1..(N + 1) :
                 \A i \in 1..Len(Lines(m)[k]) : Lines(m)[k][i] # LF
<1>1. N \in Nat /\ DOMAIN Names = 1..N
  BY HeaderAssumption
<1>2. PICK r : r = <<CR>>
  OBVIOUS
<1>3. r \in Seq(Char) /\ Len(r) = 1 /\ r[1] = CR
  BY <1>2, CharFacts
<1>4. PICK q : q = Lines(m)
  OBVIOUS
<1>5. N + 1 \in 1..(N + 1) /\ \A k \in 1..N : k \in 1..(N + 1) /\ k # N + 1
  BY <1>1
<1>6. q[N + 1] = r /\ \A k \in 1..N : q[k] = LineText(m, k)
  BY <1>2, <1>4, <1>5 DEF Lines
<1>7. \A k \in 1..(N + 1) : k = N + 1 \/ k \in 1..N
  BY <1>1
<1>8. \A k \in 1..N : /\ LineText(m, k) \in Seq(Char)
                      /\ \A i \in 1..Len(LineText(m, k)) : LineText(m, k)[i] # LF
  BY LineTextIs DEF LineRead
<1>9. \A k \in 1..(N + 1) : q[k] \in Seq(Char)
  BY <1>3, <1>6, <1>7, <1>8
<1>10. q \in Seq(Seq(Char)) /\ Len(q) = N + 1
  <2>1. q = [k \in 1..(N + 1) |-> q[k]]
    BY <1>4 DEF Lines
  <2> QED BY <1>1, <1>9, <2>1
<1>11. \A k \in 1..(N + 1) : \A i \in 1..Len(q[k]) : q[k][i] # LF
  <2>1. \A i \in 1..Len(r) : r[i] # LF
    BY <1>3, CharFacts
  <2> QED BY <1>6, <1>7, <1>8, <2>1
<1>12. ~IsHeader(r)
  BY <1>3, CharFacts DEF IsHeader
<1> QED BY <1>1, <1>2, <1>4, <1>6, <1>10, <1>11, <1>12

(* Behind the first line of a whole header are these lines, the last one   *)
(* without the end of a line.                                              *)
LEMMA HeaderIsLaid ==
    ASSUME NEW m \in Message, NEW t, NEW x, NEW y, TextAt(t, m, x, y),
           NEW r, r = Raw(t, Len(t)), NEW N, N = Len(Names)
    PROVE  /\ Ends(r) # {} /\ After(r) \in Seq(Char)
           /\ \E w : /\ Laid(Lines(m), w, N + 1, After(r), LF)
                     /\ w[N + 1] = Len(After(r)) + 1
<1>1. /\ t \in Seq(Char) /\ x \in Nat /\ y \in Nat /\ Len(t) = x + y + 4
      /\ \A i \in 1..x : t[i] # LF
      /\ t[x + 1] = CR /\ t[x + 2] = LF
      /\ \A i \in 1..y : t[x + 2 + i] = Block(m)[i]
      /\ y = Len(Block(m)) /\ t[x + y + 3] = CR
  BY DEF TextAt
<1>2. r \in Seq(Char) /\ Len(r) = x + y + 3 /\ \A i \in 1..(x + y + 3) : r[i] = t[i]
  <2>1. PICK T \in Nat : T = Len(t) /\ T > 0 /\ T \in 0..T /\ T - 1 = x + y + 3
    BY <1>1
  <2>2. /\ Raw(t, T) \in Seq(Char) /\ Len(Raw(t, T)) = T - 1
        /\ \A i \in 1..(T - 1) : Raw(t, T)[i] = t[i]
    BY <1>1, <2>1, RawIs
  <2>3. r = Raw(t, T)
    BY <2>1
  <2>4. Len(r) = x + y + 3
    BY <2>1, <2>2, <2>3
  <2>5. \A i \in 1..(x + y + 3) : r[i] = t[i]
    BY <2>1, <2>2, <2>3
  <2> QED BY <2>2, <2>3, <2>4, <2>5
<1>3. r[x + 2] = LF /\ x + 2 \in DOMAIN r /\ x + 2 \in 1..(x + y + 3)
  <2>1. x + 2 \in 1..(x + y + 3)
    BY <1>1
  <2>2. r[x + 2] = t[x + 2]
    BY <1>2, <2>1
  <2>3. DOMAIN r = 1..(x + y + 3)
    BY <1>2
  <2> QED BY <1>1, <2>1, <2>2, <2>3
<1>4. Ends(r) # {}
  BY <1>3 DEF Ends
<1>5. PICK e \in 1..Len(r) : e = FirstEnd(r)
  BY <1>2, <1>4, FirstEndIs
<1>6. r[e] = LF /\ (\A j \in 1..(e - 1) : r[j] # LF) /\ CutAt(r, e)
  BY <1>2, <1>4, <1>5, FirstEndIs, GetLineCuts
<1>7. e = x + 2
  <2>1. e \in Nat
    BY <1>2
  <2>2. ~(x + 2 < e)
    <3>1. SUFFICES ASSUME x + 2 < e PROVE FALSE
      OBVIOUS
    <3>2. x + 2 \in 1..(e - 1)
      BY <1>1, <2>1, <3>1
    <3> QED BY <1>3, <1>6, <3>2
  <2>3. ~(e < x + 2)
    <3>1. SUFFICES ASSUME e < x + 2 PROVE FALSE
      OBVIOUS
    <3>2. e \in 1..(x + y + 3) /\ (e \in 1..x \/ e = x + 1)
      BY <1>1, <1>2, <1>5, <3>1
    <3> QED BY <1>1, <1>2, <1>6, <3>2, CharFacts
  <2> QED BY <1>1, <2>1, <2>2, <2>3
<1>8. PICK u \in Seq(Char) : u = After(r)
  BY <1>6 DEF CutAt
<1>9. Len(u) = y + 1 /\ \A i \in 1..(y + 1) : u[i] = r[x + 2 + i]
  <2>1. Len(r) - e = y + 1
    BY <1>1, <1>2, <1>7
  <2> QED BY <1>6, <1>7, <1>8, <2>1 DEF CutAt
<1>10. (\A i \in 1..y : u[i] = Block(m)[i]) /\ u[y + 1] = CR
  <2>1. ASSUME NEW i \in 1..(y + 1) PROVE u[i] = t[x + 2 + i]
    <3>1. x \in Nat /\ y \in Nat
      BY <1>1
    <3>2. x + 2 + i \in 1..(x + y + 3)
      BY <3>1
    <3> QED BY <1>2, <1>9, <3>2
  <2>2. \A i \in 1..y : i \in 1..(y + 1)
    BY <1>1
  <2>3. y + 1 \in 1..(y + 1) /\ x + 2 + (y + 1) = x + y + 3
    BY <1>1
  <2> QED BY <1>1, <2>1, <2>2, <2>3
<1>11. PICK q : q = [k \in 1..N |-> LineText(m, k)]
  OBVIOUS
<1>12. /\ N \in Nat /\ DOMAIN Names = 1..N
       /\ \A k \in 1..N : LineText(m, k) \in Seq(Char)
                          /\ HeaderLine(m, k) = LineText(m, k) \o <<LF>>
  BY LinesAre, LineTextIs DEF LineRead
<1>13. q \in Seq(Seq(Char)) /\ Len(q) = N /\ DOMAIN q = 1..N
  BY <1>11, <1>12
<1>14. PICK b : b = Block(m) /\ b \in Seq(Char) /\ Len(b) = y
  BY <1>1, BlockIs
<1>15. b = FlattenSeq([i \in DOMAIN q |-> q[i] \o <<LF>>])
  <2>1. [i \in DOMAIN q |-> q[i] \o <<LF>>]
           = [i \in DOMAIN Names |-> HeaderLine(m, i)]
    BY <1>11, <1>12, <1>13
  <2> QED BY <1>14, <2>1 DEF Block
<1>16. PICK w : Laid(q, w, Len(q), b, LF) /\ w[Len(q)] = Len(b)
  <2>1. LF \in Char
    BY CharFacts
  <2>2. q \in Seq(Seq(Char))
    BY <1>13
  <2> QED BY <1>15, <2>1, <2>2, FlattenLaid, ZenonT(60)
<1>17. PICK c : c = <<CR>> /\ c \in Seq(Char) /\ Len(c) = 1 /\ c[1] = CR
  <2>1. PICK c : c = <<CR>>
    OBVIOUS
  <2>2. c \in Seq(Char) /\ Len(c) = 1 /\ c[1] = CR
    BY <2>1, CharFacts
  <2> QED BY <2>1, <2>2
<1>18. PICK z : /\ Laid(Append(q, c), z, N + 1, u, LF)
                /\ z[N + 1] = Len(u) + 1
  <2>1. \A i \in 1..Len(c) : i = 1
    BY <1>17
  <2>2. Joined(u, b, c)
    BY <1>9, <1>10, <1>14, <1>17, <2>1 DEF Joined
  <2>3. \E z : /\ Laid(Append(q, c), z, Len(q) + 1, u, LF)
                /\ z[Len(q) + 1] = Len(u) + 1
    <3>1. q \in Seq(Seq(Char)) /\ b \in Seq(Char) /\ c \in Seq(Char)
      BY <1>13, <1>14, <1>17
    <3> QED BY <1>16, <2>2, <3>1, LaidLast
  <2> QED BY <1>13, <2>3
<1>19. Append(q, c) = Lines(m)
  <2>1. PICK l, s : l = Lines(m) /\ s = Append(q, c)
    OBVIOUS
  <2>2. /\ l \in Seq(Seq(Char)) /\ Len(l) = N + 1 /\ l[N + 1] = c
        /\ \A k \in 1..N : l[k] = LineText(m, k)
    BY <1>17, <2>1, LinesAre
  <2>3. /\ s \in Seq(Seq(Char)) /\ Len(s) = N + 1 /\ s[N + 1] = c
        /\ \A k \in 1..N : s[k] = LineText(m, k)
    BY <1>11, <1>12, <1>13, <1>17, <2>1
  <2>4. \A k \in 1..(N + 1) : k = N + 1 \/ k \in 1..N
    BY <1>12
  <2>5. \A k \in 1..(N + 1) : l[k] = s[k]
    BY <2>2, <2>3, <2>4
  <2>6. l = [k \in 1..(N + 1) |-> l[k]] /\ s = [k \in 1..(N + 1) |-> s[k]]
    BY <2>2, <2>3
  <2> QED BY <2>1, <2>5, <2>6
<1> QED BY <1>4, <1>8, <1>18, <1>19

(* What is left of a text behind position a.                               *)
Behind(r, u, a) ==
    /\ r \in Seq(Char) /\ a + Len(r) = Len(u)
    /\ \A i \in 1..Len(r) : r[i] = u[a + i]

(* Reading the next line of such a text.                                   *)
NextRead(r, u, b, x, more) ==
    /\ LineOf(r) = x /\ (Ends(r) # {} <=> more)
    /\ more => Behind(After(r), u, b)

LEMMA ReadLaid ==
    ASSUME NEW u \in Seq(Char), NEW q, NEW w, NEW n, Laid(q, w, n, u, LF),
           w[n] = Len(u) + 1,
           Unbroken(q, n, LF),
           NEW j \in Nat, NEW k \in 1..n, k = j + 1, NEW r, Behind(r, u, w[j])
    PROVE  NextRead(r, u, w[k], q[k], k < n)
<1>1. n \in Nat /\ j \in 0..n /\ k \in 0..n /\ k - 1 = j
  <2>1. n \in Nat
    BY DEF Laid
  <2> QED BY <2>1
<1>2. PICK x \in Seq(Char), l \in Nat, a \in Nat, b \in Nat, U \in Nat, R \in Nat :
         /\ x = q[k] /\ l = Len(x) /\ a = w[j] /\ b = w[k]
         /\ U = Len(u) /\ R = Len(r)
  <2>1. q[k] \in Seq(Char) /\ w[j] \in Nat /\ w[k] \in Nat
    BY <1>1 DEF Laid
  <2>2. r \in Seq(Char)
    BY DEF Behind
  <2>3. Len(q[k]) \in Nat /\ Len(u) \in Nat /\ Len(r) \in Nat
    BY <2>1, <2>2
  <2> QED BY <2>1, <2>3
<1>3. /\ b = a + l + 1 /\ b <= U + 1
      /\ \A i \in 1..l : u[a + i] = x[i]
      /\ b <= U => u[b] = LF
      /\ k < n => b <= U
  <2>1. /\ w[k] = w[k - 1] + Len(q[k]) + 1
        /\ \A i \in 1..Len(q[k]) : u[w[k - 1] + i] = q[k][i]
        /\ w[k] <= Len(u) + 1
        /\ w[k] <= Len(u) => u[w[k]] = LF
        /\ k < n => w[k] <= Len(u)
    BY DEF Laid
  <2> QED BY <1>1, <1>2, <2>1
<1>4. r \in Seq(Char) /\ a + R = U /\ \A i \in 1..R : r[i] = u[a + i]
  BY <1>2 DEF Behind
<1>5. l <= R
  <2>1. a + l + 1 <= U + 1 /\ a + R = U
    BY <1>3, <1>4
  <2> QED BY <2>1
<1>6. \A i \in 1..l : r[i] = x[i] /\ r[i] # LF
  <2>1. ASSUME NEW i \in 1..l PROVE r[i] = x[i] /\ r[i] # LF
    <3>1. i \in 1..R
      BY <1>5
    <3>2. r[i] = u[a + i] /\ u[a + i] = x[i]
      BY <1>3, <1>4, <3>1
    <3>3. q[k][i] # LF
      BY <1>2 DEF Unbroken
    <3> QED BY <1>2, <3>2, <3>3
  <2> QED BY <2>1
<1>7. CASE k < n
  <2>1. b <= U /\ l + 1 \in 1..R /\ a + (l + 1) = b
    <3>1. b <= U /\ b = a + l + 1 /\ a + R = U
      BY <1>3, <1>4, <1>7
    <3> QED BY <3>1
  <2>2. r[l + 1] = LF /\ DOMAIN r = 1..R
    <3>1. r[l + 1] = u[a + (l + 1)] /\ u[b] = LF
      BY <1>3, <1>4, <2>1
    <3>2. DOMAIN r = 1..R
      BY <1>2, <1>4
    <3> QED BY <2>1, <3>1, <3>2
  <2>3. Ends(r) # {}
    BY <2>1, <2>2 DEF Ends
  <2>4. PICK e \in 1..R : e = FirstEnd(r)
    BY <1>2, <1>4, <2>3, FirstEndIs
  <2>5. r[e] = LF /\ (\A i \in 1..(e - 1) : r[i] # LF) /\ CutAt(r, e)
    BY <1>2, <1>4, <2>3, <2>4, FirstEndIs, GetLineCuts
  <2>6. e = l + 1
    <3>1. ~(l + 1 < e)
      <4>1. SUFFICES ASSUME l + 1 < e PROVE FALSE
        OBVIOUS
      <4>2. l + 1 \in 1..(e - 1)
        BY <4>1
      <4> QED BY <2>2, <2>5, <4>2
    <3>2. ~(e < l + 1)
      <4>1. SUFFICES ASSUME e < l + 1 PROVE FALSE
        OBVIOUS
      <4>2. e \in 1..l
        BY <4>1
      <4> QED BY <1>6, <2>5, <4>2
    <3> QED BY <3>1, <3>2
  <2>7. /\ LineOf(r) \in Seq(Char) /\ Len(LineOf(r)) = l
        /\ \A i \in 1..l : LineOf(r)[i] = r[i]
        /\ After(r) \in Seq(Char) /\ Len(After(r)) = R - (l + 1)
        /\ \A i \in 1..(R - (l + 1)) : After(r)[i] = r[l + 1 + i]
    <3>1. e - 1 = l
      BY <2>6
    <3> QED BY <1>2, <2>5, <2>6, <3>1 DEF CutAt
  <2>8. LineOf(r) = x
    <3>1. PICK s : s = LineOf(r)
      OBVIOUS
    <3>2. s \in Seq(Char) /\ Len(s) = Len(x) /\ \A i \in 1..Len(s) : s[i] = x[i]
      BY <1>2, <1>6, <2>7, <3>1
    <3> QED BY <3>1, <3>2, SameText
  <2>9. Behind(After(r), u, b)
    <3>1. PICK s : s = After(r)
      OBVIOUS
    <3>2. PICK d \in Nat : d = R - (l + 1) /\ b + d = U
      <4>1. l + 1 <= R /\ b = a + (l + 1) /\ a + R = U
        BY <1>4, <2>1
      <4>2. R - (l + 1) \in Nat /\ b + (R - (l + 1)) = U
        BY <4>1
      <4> QED BY <4>2
    <3>3. s \in Seq(Char) /\ Len(s) = d
      BY <2>7, <3>1, <3>2
    <3>4. ASSUME NEW i \in 1..d PROVE s[i] = u[b + i]
      <4>1. s[i] = r[l + 1 + i]
        BY <2>7, <3>1, <3>2
      <4>2. PICK h \in 1..R : h = l + 1 + i
        BY <3>2
      <4>3. r[h] = u[a + h]
        BY <1>4
      <4>4. a + h = b + i
        BY <1>3, <4>2
      <4> QED BY <4>1, <4>2, <4>3, <4>4
    <3> QED BY <1>2, <3>1, <3>2, <3>3, <3>4 DEF Behind
  <2> QED BY <1>2, <1>7, <2>3, <2>8, <2>9 DEF NextRead
<1>8. CASE ~(k < n)
  <2>1. k = n /\ l = R
    <3>1. k = n
      BY <1>1, <1>8
    <3>2. a + l + 1 = U + 1
      BY <1>2, <1>3, <3>1
    <3>3. l = R
      BY <1>4, <3>2
    <3> QED BY <3>1, <3>3
  <2>2. Ends(r) = {}
    BY <1>2, <1>4, <1>6, <2>1 DEF Ends
  <2>3. LineOf(r) = r
    BY <2>2 DEF LineOf
  <2>4. Len(r) = Len(x) /\ \A i \in 1..Len(r) : r[i] = x[i]
    BY <1>2, <1>6, <2>1
  <2>5. r = x
    BY <1>4, <2>4, SameText
  <2> QED BY <1>2, <1>8, <2>2, <2>3, <2>5 DEF NextRead
<1> QED BY <1>7, <1>8

-----------------------------------------------------------------------------
(* A value as it stands behind the colon of its line.                      *)
Padded(x, v) ==
    /\ x \in Seq(Char) /\ Len(x) = Len(v) + 2 /\ x[1] = Space
    /\ x[Len(v) + 2] = CR /\ \A k \in 1..Len(v) : x[k + 1] = v[k]

KeptIn(v) == {i \in DOMAIN v : v[i] \notin Blank}

(* trim() takes the blank and the CR away, and the blanks of the value.    *)
LEMMA TrimStrips ==
    ASSUME NEW v \in Seq(Char), Len(v) + 2 < SizeRange, NEW x, Padded(x, v)
    PROVE  trim(x) = Strip(v)
<1>1. PICK L \in Nat : L = Len(v) /\ DOMAIN v = 1..L /\ L + 2 < SizeRange
  OBVIOUS
<1>2. /\ x \in Seq(Char) /\ Len(x) = L + 2 /\ x[1] = Space /\ x[L + 2] = CR
      /\ \A k \in 1..L : x[k + 1] = v[k]
  BY <1>1 DEF Padded
<1>3. PICK s \in 0..(L + 2), e \in -1..(L + 1) : s = start(x) /\ e = end(x)
  <2>1. start(x) \in 0..Len(x) /\ end(x) \in -1..(Len(x) - 1)
    BY <1>2, StartIs, EndIs
  <2>2. Len(x) - 1 = L + 1
    BY <1>2
  <2> QED BY <1>2, <2>1, <2>2
<1>4. /\ Byte(x, s) \notin Blank /\ \A j \in 0..(s - 1) : Byte(x, j) \in Blank
      /\ Byte(x, e) \notin Blank /\ \A j \in (e + 1)..(L + 1) : Byte(x, j) \in Blank
  <2>1. Len(x) - 1 = L + 1
    BY <1>2
  <2>2. /\ Byte(x, start(x)) \notin Blank
        /\ \A j \in 0..(start(x) - 1) : Byte(x, j) \in Blank
    BY <1>2, StartIs
  <2>3. /\ Byte(x, end(x)) \notin Blank
        /\ \A j \in (end(x) + 1)..(Len(x) - 1) : Byte(x, j) \in Blank
    BY <1>2, EndIs
  <2> QED BY <1>3, <2>1, <2>2, <2>3
<1>5. /\ Byte(x, 0) \in Blank /\ Byte(x, L + 1) \in Blank
      /\ \A k \in 1..L : Byte(x, k) = v[k]
  <2>1. \A i \in 0..(L + 1) : Byte(x, i) = x[i + 1]
    <3>1. Len(x) - 1 = L + 1
      BY <1>2
    <3>2. \A i \in 0..(Len(x) - 1) : Byte(x, i) = x[i + 1]
      BY <1>2, ByteIs
    <3> QED BY <3>1, <3>2
  <2>2. 0 \in 0..(L + 1) /\ 0 + 1 = 1 /\ L + 1 \in 0..(L + 1) /\ L + 1 + 1 = L + 2
        /\ \A k \in 1..L : k \in 0..(L + 1)
    OBVIOUS
  <2> QED BY <1>2, <2>1, <2>2, CharFacts
<1>6. KeptIn(v) = {i \in 1..L : v[i] \notin Blank}
  BY <1>1 DEF KeptIn
<1>7. \A i \in 0..(L + 2) : i = 0 \/ i \in 1..L \/ i = L + 1 \/ i = L + 2
  OBVIOUS
<1>8. \A i \in -1..(L + 1) : i = -1 \/ i = 0 \/ i \in 1..L \/ i = L + 1
  OBVIOUS
<1>9. PICK n \in Nat :
         /\ n = (e + 1 - s) % SizeRange
         /\ trim(x) = SubSeq(x, s + 1, IF s + n < L + 2 THEN s + n ELSE L + 2)
  <2>1. e + 1 - s \in Int
    OBVIOUS
  <2>2. PICK n \in Nat : n = (e + 1 - s) % SizeRange
    BY <2>1 DEF SizeRange
  <2>3. trim(x) = substr(x, s, n)
    BY <1>3, <2>2 DEF trim
  <2>4. substr(x, s, n) = SubSeq(x, s + 1, IF s + n < L + 2 THEN s + n ELSE L + 2)
    BY <1>2 DEF substr
  <2> QED BY <2>2, <2>3, <2>4
<1>10. CASE KeptIn(v) = {}
  <2>1. \A k \in 1..L : v[k] \in Blank
    BY <1>6, <1>10
  <2>2. s = L + 2
    BY <1>4, <1>5, <1>7, <2>1
  <2>3. ~(s + n < L + 2)
    BY <2>2
  <2>4. trim(x) = SubSeq(x, L + 2 + 1, L + 2)
    BY <1>9, <2>2, <2>3
  <2>5. SubSeq(x, L + 2 + 1, L + 2) = <<>>
    BY <1>2
  <2>6. Strip(v) = <<>>
    BY <1>10 DEF Strip, KeptIn
  <2> QED BY <2>4, <2>5, <2>6
<1>11. CASE KeptIn(v) # {}
  <2>1. PICK i \in 1..L : v[i] \notin Blank
    BY <1>6, <1>11
  <2>2. s # L + 1 /\ s # L + 2 /\ s # 0
    <3>1. s # L + 2
      <4>1. SUFFICES ASSUME s = L + 2 PROVE FALSE
        OBVIOUS
      <4>2. i \in 0..(s - 1)
        BY <4>1
      <4> QED BY <1>4, <1>5, <2>1, <4>2
    <3> QED BY <1>4, <1>5, <3>1
  <2>3. s \in 1..L
    BY <1>7, <2>2
  <2>4. e # -1 /\ e # 0 /\ e # L + 1
    <3>1. e # -1
      <4>1. SUFFICES ASSUME e = -1 PROVE FALSE
        OBVIOUS
      <4>2. i \in (e + 1)..(L + 1)
        BY <4>1
      <4> QED BY <1>4, <1>5, <2>1, <4>2
    <3> QED BY <1>4, <1>5, <3>1
  <2>5. e \in 1..L
    BY <1>8, <2>4
  <2>6. s \in KeptIn(v) /\ \A j \in KeptIn(v) : s <= j
    <3>1. s \in KeptIn(v)
      BY <1>4, <1>5, <1>6, <2>3
    <3>2. ASSUME NEW j \in KeptIn(v), ~(s <= j) PROVE FALSE
      <4>1. j \in 1..L /\ v[j] \notin Blank
        BY <1>6
      <4>2. j \in 0..(s - 1)
        BY <2>3, <3>2, <4>1
      <4> QED BY <1>4, <1>5, <4>1, <4>2
    <3> QED BY <3>1, <3>2
  <2>7. e \in KeptIn(v) /\ \A j \in KeptIn(v) : e >= j
    <3>1. e \in KeptIn(v)
      BY <1>4, <1>5, <1>6, <2>5
    <3>2. ASSUME NEW j \in KeptIn(v), ~(e >= j) PROVE FALSE
      <4>1. j \in 1..L /\ v[j] \notin Blank
        BY <1>6
      <4>2. j \in (e + 1)..(L + 1)
        BY <2>5, <3>2, <4>1
      <4> QED BY <1>4, <1>5, <4>1, <4>2
    <3> QED BY <3>1, <3>2
  <2>8. s <= e
    BY <2>6, <2>7
  <2>9. \A j, k \in KeptIn(v) : j <= k /\ k <= j => j = k
    BY <1>6
  <2> DEFINE FirstKept == CHOOSE j \in KeptIn(v) : \A k \in KeptIn(v) : j <= k
             LastKept == CHOOSE j \in KeptIn(v) : \A k \in KeptIn(v) : j >= k
  <2>10. FirstKept = s
    <3>1. FirstKept \in KeptIn(v) /\ \A k \in KeptIn(v) : FirstKept <= k
      <4>1. \E j \in KeptIn(v) : \A k \in KeptIn(v) : j <= k
        BY <2>6
      <4> QED BY <4>1, Zenon
    <3> HIDE DEF FirstKept
    <3> QED BY <2>6, <2>9, <3>1
  <2>11. LastKept = e
    <3>1. LastKept \in KeptIn(v) /\ \A k \in KeptIn(v) : LastKept >= k
      <4>1. \E j \in KeptIn(v) : \A k \in KeptIn(v) : j >= k
        BY <2>7
      <4> QED BY <4>1, Zenon
    <3> HIDE DEF LastKept
    <3>2. \A j, k \in KeptIn(v) : j >= k => k <= j
      BY <1>6
    <3> QED BY <2>7, <2>9, <3>1, <3>2
  <2>12. Strip(v) = SubSeq(v, s, e)
    <3>1. Strip(v) = SubSeq(v, FirstKept, LastKept)
      BY <1>11, Zenon DEF Strip, KeptIn
    <3> HIDE DEF FirstKept, LastKept
    <3> QED BY <2>10, <2>11, <3>1
  <2>13. n = e + 1 - s
    <3>1. PICK a \in Nat : a = e + 1 - s /\ a <= L
      BY <2>3, <2>5, <2>8
    <3>2. a < SizeRange
      BY <1>1, <3>1 DEF SizeRange
    <3>3. a % SizeRange = a
      BY <3>2 DEF SizeRange
    <3> QED BY <1>9, <3>1, <3>3
  <2>14. trim(x) = SubSeq(x, s + 1, e + 1)
    <3>1. s + n = e + 1 /\ e + 1 < L + 2
      BY <2>3, <2>5, <2>13
    <3> QED BY <1>9, <3>1
  <2>15. PICK f, g : f = SubSeq(x, s + 1, e + 1) /\ g = SubSeq(v, s, e)
    OBVIOUS
  <2>16. PICK d \in Nat : d = e - s + 1
    BY <2>3, <2>5, <2>8
  <2>17. /\ f \in Seq(Char) /\ Len(f) = d
         /\ \A k \in 1..d : f[k] = x[s + 1 + k - 1]
    <3>1. PICK a, b : a = s + 1 /\ b = e + 1
      OBVIOUS
    <3>2. a \in 1..(Len(x) + 1) /\ b \in 0..Len(x) /\ a <= b + 1 /\ b - a + 1 = d
      BY <1>2, <2>3, <2>5, <2>8, <2>16, <3>1
    <3>3. /\ f \in Seq(Char) /\ Len(f) = b - a + 1
          /\ \A k \in 1..(b - a + 1) : f[k] = x[a + k - 1]
      BY <1>2, <2>15, <3>1, <3>2, PieceIs
    <3> QED BY <3>1, <3>2, <3>3
  <2>18. /\ g \in Seq(Char) /\ Len(g) = d
         /\ \A k \in 1..d : g[k] = v[s + k - 1]
    <3>1. s \in 1..(Len(v) + 1) /\ e \in 0..Len(v) /\ s <= e + 1
      BY <1>1, <2>3, <2>5, <2>8
    <3>2. /\ g \in Seq(Char) /\ Len(g) = e - s + 1
          /\ \A k \in 1..(e - s + 1) : g[k] = v[s + k - 1]
      BY <2>15, <3>1, PieceIs
    <3> QED BY <2>16, <3>2
  <2>19. ASSUME NEW k \in 1..d PROVE f[k] = g[k]
    <3>1. PICK j \in 1..L : j = s + k - 1 /\ s + 1 + k - 1 = j + 1
      BY <2>3, <2>5, <2>16
    <3>2. x[j + 1] = v[j]
      BY <1>2
    <3> QED BY <2>17, <2>18, <3>1, <3>2
  <2>20. f = g
    BY <2>17, <2>18, <2>19, SameText
  <2> QED BY <2>12, <2>14, <2>15, <2>20
<1> QED BY <1>10, <1>11

(* What is left is blank only if the value is.                             *)
LEMMA StripIsBlank ==
    ASSUME NEW v \in Seq(Char)
    PROVE  is_whitespace(Strip(v)) <=> is_whitespace(v)
<1>1. PICK L \in Nat : L = Len(v) /\ DOMAIN v = 1..L
  OBVIOUS
<1>2. KeptIn(v) = {i \in 1..L : v[i] \notin Blank}
  BY <1>1 DEF KeptIn
<1>3. CASE KeptIn(v) = {}
  <2>1. Strip(v) = <<>>
    BY <1>3 DEF Strip, KeptIn
  <2>2. is_whitespace(v)
    BY <1>1, <1>2, <1>3 DEF is_whitespace
  <2>3. DOMAIN Strip(v) = {}
    BY <2>1
  <2> QED BY <2>2, <2>3 DEF is_whitespace
<1>4. CASE KeptIn(v) # {}
  <2> DEFINE FirstKept == CHOOSE j \in KeptIn(v) : \A k \in KeptIn(v) : j <= k
             LastKept == CHOOSE j \in KeptIn(v) : \A k \in KeptIn(v) : j >= k
  <2>1. FirstKept \in KeptIn(v) /\ \A k \in KeptIn(v) : FirstKept <= k
    <3>1. KeptIn(v) \subseteq Nat
      BY <1>2
    <3>2. \E j \in KeptIn(v) : \A k \in KeptIn(v) : j <= k
      BY <1>4, <3>1, LeastElement
    <3> QED BY <3>2, Zenon
  <2>2. LastKept \in KeptIn(v)
    <3>1. PICK W : W = {n \in 0..L : L - n \in KeptIn(v)}
      OBVIOUS
    <3>2. W \subseteq Nat /\ W # {}
      <4>1. PICK i \in 1..L : i \in KeptIn(v)
        BY <1>2, <1>4
      <4>2. PICK k \in 0..L : L - k = i
        <5>1. L - i \in 0..L /\ L - (L - i) = i
          OBVIOUS
        <5> QED BY <5>1
      <4>3. k \in W
        BY <3>1, <4>1, <4>2
      <4>4. W \subseteq 0..L /\ 0..L \subseteq Nat
        BY <3>1
      <4> QED BY <4>3, <4>4
    <3>3. PICK n \in W : \A k \in W : n <= k
      BY <3>2, LeastElement
    <3>4. PICK j \in 1..L : j = L - n /\ j \in KeptIn(v) /\ n \in 0..L
      BY <1>2, <3>1
    <3>5. ASSUME NEW k \in KeptIn(v) PROVE j >= k
      <4>1. k \in 1..L
        BY <1>2
      <4>2. L - k \in 0..L /\ L - (L - k) = k
        BY <4>1
      <4>3. L - k \in W
        BY <3>1, <4>2
      <4>4. n <= L - k
        BY <3>3, <4>3
      <4> QED BY <3>4, <4>1, <4>4
    <3>6. \E i \in KeptIn(v) : \A k \in KeptIn(v) : i >= k
      BY <3>4, <3>5
    <3> QED BY <3>6, Zenon
  <2>3. Strip(v) = SubSeq(v, FirstKept, LastKept)
    BY <1>4, Zenon DEF Strip, KeptIn
  <2>4. PICK s \in 1..L, e \in 1..L : s = FirstKept /\ e = LastKept
    <3> HIDE DEF FirstKept, LastKept
    <3> QED BY <1>2, <2>1, <2>2
  <2>5. v[s] \notin Blank /\ s <= e
    <3> HIDE DEF FirstKept, LastKept
    <3> QED BY <1>2, <2>1, <2>2, <2>4
  <2>6. PICK g : g = SubSeq(v, s, e)
    OBVIOUS
  <2>7. /\ g \in Seq(Char) /\ Len(g) = e - s + 1
        /\ \A k \in 1..(e - s + 1) : g[k] = v[s + k - 1]
    <3>1. s \in 1..(Len(v) + 1) /\ e \in 0..Len(v) /\ s <= e + 1
      BY <1>1, <2>5
    <3> QED BY <2>6, <3>1, PieceIs
  <2>8. 1 \in 1..(e - s + 1) /\ s + 1 - 1 = s
    BY <2>5
  <2>9. 1 \in DOMAIN g /\ g[1] \notin Blank
    <3>1. g[1] = v[s]
      BY <2>7, <2>8
    <3>2. DOMAIN g = 1..(e - s + 1)
      BY <2>7
    <3> QED BY <2>5, <2>8, <3>1, <3>2
  <2>10. ~is_whitespace(g) /\ ~is_whitespace(v)
    BY <1>1, <2>5, <2>9 DEF is_whitespace
  <2>11. Strip(v) = g
    <3> HIDE DEF FirstKept, LastKept
    <3> QED BY <2>3, <2>4, <2>6
  <2> QED BY <2>10, <2>11
<1> QED BY <1>3, <1>4

(* A line whose value has no colon is a header: split() finds the name and *)
(* the value.                                                              *)
NoColon(t) == \A k \in 1..Len(t) : t[k] # Colon

LEMMA PlainPair ==
    ASSUME NEW n \in Seq(Char), NEW v \in Seq(Char), NEW l, LineRead(l, n, v),
           NoColon(n), NoColon(v)
    PROVE  \E x : Padded(x, v) /\ split(l, Colon, NoLimit(l)) = <<n, x>>
<1>1. PICK X \in Nat, Y \in Nat, T \in Nat :
         X = Len(n) /\ Y = Len(v) /\ T = X + Y + 3
  OBVIOUS
<1>2. /\ l \in Seq(Char) /\ Len(l) = T
      /\ \A k \in 1..X : l[k] = n[k]
      /\ l[X + 1] = Colon /\ l[X + 2] = Space
      /\ \A k \in 1..Y : l[X + 2 + k] = v[k]
      /\ l[X + Y + 3] = CR
  BY <1>1 DEF LineRead
<1>3. PICK x : x = SubSeq(l, X + 1 + 1, Len(l))
  OBVIOUS
<1>4. /\ x \in Seq(Char) /\ Len(x) = Y + 2
      /\ \A i \in 1..(Y + 2) : x[i] = l[X + 1 + i]
  <2>1. PICK a : a = X + 1
    OBVIOUS
  <2>2. a \in 0..Len(l) /\ Len(l) - a = Y + 2
    BY <1>1, <1>2, <2>1
  <2>3. /\ x \in Seq(Char) /\ Len(x) = Len(l) - a
        /\ \A i \in 1..(Len(l) - a) : x[i] = l[a + i]
    BY <1>2, <1>3, <2>1, <2>2, RestIs
  <2> QED BY <2>1, <2>2, <2>3
<1>5. /\ x[1] = Space /\ x[Y + 2] = CR /\ \A k \in 1..Y : x[k + 1] = v[k]
  <2>1. 1 \in 1..(Y + 2) /\ X + 1 + 1 = X + 2
        /\ Y + 2 \in 1..(Y + 2) /\ X + 1 + (Y + 2) = X + Y + 3
    OBVIOUS
  <2>2. ASSUME NEW k \in 1..Y PROVE x[k + 1] = v[k]
    <3>1. k + 1 \in 1..(Y + 2) /\ X + 1 + (k + 1) = X + 2 + k
      OBVIOUS
    <3>2. x[k + 1] = l[X + 1 + (k + 1)]
      BY <1>4, <3>1
    <3> QED BY <1>2, <3>1, <3>2
  <2>3. x[1] = l[X + 1 + 1] /\ x[Y + 2] = l[X + 1 + (Y + 2)]
    BY <1>4, <2>1
  <2> QED BY <1>2, <2>1, <2>2, <2>3
<1>6. Padded(x, v)
  BY <1>1, <1>4, <1>5 DEF Padded
<1>7. \A i \in 1..(Y + 2) : x[i] # Colon
  <2>1. ASSUME NEW i \in 1..(Y + 2) PROVE x[i] # Colon
    <3>1. CASE i = 1 \/ i = Y + 2
      BY <1>5, <3>1, CharFacts
    <3>2. CASE i # 1 /\ i # Y + 2
      <4>1. PICK k \in 1..Y : k + 1 = i
        <5>1. i - 1 \in 1..Y /\ i - 1 + 1 = i
          BY <3>2
        <5> QED BY <5>1
      <4> QED BY <1>1, <1>5, <4>1 DEF NoColon
    <3> QED BY <3>1, <3>2
  <2> QED BY <2>1
<1>8. PICK q : q = <<n, x>>
  OBVIOUS
<1>9. q \in Seq(Seq(Char)) /\ Len(q) = 2 /\ q[1] = n /\ q[2] = x
  BY <1>4, <1>8
<1>10. PICK w : w = [k \in 0..2 |->
                       IF k = 0 THEN 0 ELSE IF k = 1 THEN X + 1 ELSE T + 1]
  OBVIOUS
<1>11. w \in [0..2 -> Nat] /\ w[0] = 0 /\ w[1] = X + 1 /\ w[2] = T + 1
  BY <1>10
<1>12. \A k \in 1..2 : k = 1 \/ k = 2
  OBVIOUS
<1>13. /\ w[1] = w[1 - 1] + Len(q[1]) + 1
       /\ \A i \in 1..Len(q[1]) : l[w[1 - 1] + i] = q[1][i]
       /\ w[1] <= T /\ w[1] <= T + 1 /\ l[w[1]] = Colon
  <2>1. 1 - 1 = 0 /\ X + 1 = 0 + X + 1 /\ X + 1 <= T /\ X + 1 <= T + 1
        /\ \A i \in 1..X : 0 + i = i
    BY <1>1
  <2>2. \A i \in 1..X : l[0 + i] = n[i]
    BY <1>2, <2>1
  <2> QED BY <1>1, <1>2, <1>9, <1>11, <2>1, <2>2
<1>14. /\ w[2] = w[2 - 1] + Len(q[2]) + 1
       /\ \A i \in 1..Len(q[2]) : l[w[2 - 1] + i] = q[2][i]
       /\ w[2] <= T + 1 /\ ~(w[2] <= T)
  <2>1. 2 - 1 = 1 /\ T + 1 = X + 1 + (Y + 2) + 1 /\ T + 1 <= T + 1 /\ ~(T + 1 <= T)
    BY <1>1
  <2>2. w[2 - 1] = X + 1 /\ q[2] = x /\ Len(q[2]) = Y + 2
    BY <1>4, <1>9, <1>11, <2>1
  <2>3. \A i \in 1..Len(q[2]) : l[w[2 - 1] + i] = q[2][i]
    BY <1>4, <2>2
  <2> QED BY <1>11, <2>1, <2>2, <2>3
<1>15. Laid(q, w, 2, l, Colon)
  <2>1. 2 \in Nat /\ w[2] \in {Len(l), Len(l) + 1} /\ ~(2 < 2)
    BY <1>2, <1>11
  <2>2. ASSUME NEW k \in 1..2
        PROVE  /\ w[k] = w[k - 1] + Len(q[k]) + 1
               /\ \A i \in 1..Len(q[k]) : l[w[k - 1] + i] = q[k][i]
               /\ w[k] <= Len(l) + 1
               /\ w[k] <= Len(l) => l[w[k]] = Colon
               /\ k < 2 => w[k] <= Len(l)
    <3>1. CASE k = 1
      BY <1>2, <1>13, <3>1
    <3>2. CASE k = 2
      BY <1>2, <1>14, <2>1, <3>2
    <3> QED BY <1>12, <3>1, <3>2
  <2> QED BY <1>9, <1>11, <2>1, <2>2 DEF Laid
<1>16. Unbroken(q, 2, Colon)
  <2>1. \A i \in 1..Len(q[1]) : q[1][i] # Colon
    BY <1>9 DEF NoColon
  <2>2. \A i \in 1..Len(q[2]) : q[2][i] # Colon
    BY <1>4, <1>7, <1>9
  <2> QED BY <1>12, <2>1, <2>2 DEF Unbroken
<1>17. Len(q[2]) # 0
  BY <1>4, <1>9
<1>18. split(l, Colon, NoLimit(l)) = q
  BY <1>2, <1>15, <1>16, <1>17, SplitOfLaid
<1> QED BY <1>6, <1>8, <1>18

(* One whose value has a colon is none: there are more pieces.             *)
LEMMA ColonLine ==
    ASSUME NEW n \in Seq(Char), NEW v \in Seq(Char), NEW l, LineRead(l, n, v),
           NEW j \in 1..Len(v), v[j] = Colon
    PROVE  Len(split(l, Colon, NoLimit(l))) # 2
<1>1. PICK X \in Nat, Y \in Nat, T \in Nat :
         X = Len(n) /\ Y = Len(v) /\ T = X + Y + 3
  OBVIOUS
<1>2. /\ l \in Seq(Char) /\ Len(l) = T /\ l[X + 1] = Colon
      /\ l[X + 2 + j] = Colon /\ l[T] = CR
  BY <1>1 DEF LineRead
<1>3. PICK q : q = split(l, Colon, NoLimit(l))
  OBVIOUS
<1>4. PICK w, N : Parted(q, w, N, l, Colon, NoLimit(l))
  <2>1. NoLimit(l) \in Nat /\ NoLimit(l) # 0
    BY <1>2 DEF NoLimit
  <2> QED BY <1>2, <1>3, <2>1, SplitIsLaid
<1>5. SUFFICES ASSUME Len(q) = 2 PROVE FALSE
  BY <1>3
<1>6. /\ N = 2 /\ q \in Seq(Seq(Char)) /\ w \in [0..2 -> Nat] /\ w[0] = 0
      /\ w[2] \in {T, T + 1}
      /\ \A k \in 1..2 :
            /\ w[k] = w[k - 1] + Len(q[k]) + 1
            /\ \A i \in 1..Len(q[k]) : l[w[k - 1] + i] = q[k][i]
            /\ w[k] <= T => l[w[k]] = Colon
            /\ \A i \in 1..Len(q[k]) : q[k][i] # Colon
  <2>1. Laid(q, w, N, l, Colon)
        /\ \A k \in 1..N : k < NoLimit(l) => \A i \in 1..Len(q[k]) : q[k][i] # Colon
    BY <1>4 DEF Parted
  <2>2. N = 2
    BY <1>5, <2>1 DEF Laid
  <2>3. \A k \in 1..2 : k < NoLimit(l)
    BY <1>1, <1>2 DEF NoLimit
  <2>4. \A k \in 1..2 : \A i \in 1..Len(q[k]) : q[k][i] # Colon
    BY <2>1, <2>2, <2>3
  <2> QED BY <1>2, <2>1, <2>2, <2>4 DEF Laid
<1>7. PICK a \in Nat, b \in Nat :
         /\ a = Len(q[1]) /\ b = Len(q[2]) /\ w[1] = a + 1 /\ w[2] = a + 1 + b + 1
  <2>1. 1 \in 1..2 /\ 2 \in 1..2 /\ 1 - 1 = 0 /\ 2 - 1 = 1
    OBVIOUS
  <2>2. q[1] \in Seq(Char) /\ q[2] \in Seq(Char)
    <3>1. q \in Seq(Seq(Char)) /\ 1 \in 1..Len(q) /\ 2 \in 1..Len(q)
      BY <1>5, <1>6
    <3> QED BY <3>1
  <2>3. Len(q[1]) \in Nat /\ Len(q[2]) \in Nat
    BY <2>2
  <2>4. w[1] = w[0] + Len(q[1]) + 1 /\ w[2] = w[1] + Len(q[2]) + 1
    <3>1. w[1] = w[1 - 1] + Len(q[1]) + 1 /\ w[2] = w[2 - 1] + Len(q[2]) + 1
      BY <1>6, <2>1
    <3> QED BY <2>1, <3>1
  <2>5. PICK a \in Nat, b \in Nat : a = Len(q[1]) /\ b = Len(q[2])
    BY <2>3
  <2>6. w[1] = 0 + a + 1 /\ w[2] = w[1] + b + 1
    BY <1>6, <2>4, <2>5
  <2>7. w[1] = a + 1 /\ w[2] = a + 1 + b + 1
    BY <2>6
  <2> QED BY <2>5, <2>7
<1>8. w[2] = T + 1
  <2>1. w[2] # T
    <3>1. SUFFICES ASSUME w[2] = T PROVE FALSE
      OBVIOUS
    <3>2. 2 \in 1..2 /\ w[2] <= T
      BY <3>1
    <3>3. l[w[2]] = Colon
      BY <1>6, <3>2
    <3> QED BY <1>2, <3>1, <3>3, CharFacts
  <2> QED BY <1>6, <2>1
<1>9. ASSUME NEW i \in 1..T, l[i] = Colon PROVE i = a + 1
  <2>1. CASE i < a + 1
    <3>1. i \in 1..a /\ 1 \in 1..2 /\ 1 - 1 = 0 /\ 0 + i = i
      BY <2>1
    <3>2. l[w[1 - 1] + i] = q[1][i] /\ q[1][i] # Colon
      BY <1>6, <1>7, <3>1
    <3> QED BY <1>6, <1>9, <3>1, <3>2
  <2>2. CASE i > a + 1
    <3>1. a + 1 + b + 1 = T + 1
      BY <1>7, <1>8
    <3>2. PICK k \in 1..b : a + 1 + k = i
      <4>1. i - (a + 1) \in 1..b /\ a + 1 + (i - (a + 1)) = i
        BY <2>2, <3>1
      <4> QED BY <4>1
    <3>3. 2 \in 1..2 /\ 2 - 1 = 1
      OBVIOUS
    <3>4. l[w[2 - 1] + k] = q[2][k] /\ q[2][k] # Colon
      BY <1>6, <1>7, <3>3
    <3> QED BY <1>7, <1>9, <3>2, <3>3, <3>4
  <2> QED BY <2>1, <2>2
<1>10. X + 1 \in 1..T /\ X + 2 + j \in 1..T /\ X + 1 # X + 2 + j
  BY <1>1
<1> QED BY <1>2, <1>9, <1>10

-----------------------------------------------------------------------------
(* How far the parser has come with a whole header: k of its lines are     *)
(* read, and the values of those before the last one are kept, unless they *)
(* have a colon.                                                           *)
PlainTo(m, k) ==
    {i \in 1..k : \A j \in 1..Len(m.values[i]) : m.values[i][j] # Colon}

ParsedTo(h, m, k) ==
    /\ DOMAIN h = {Names[i] : i \in PlainTo(m, k)}
    /\ \A i \in PlainTo(m, k) : h[Names[i]] = Strip(m.values[i])

WholeHeader(m, u, w) ==
    /\ u \in Seq(Char) /\ Laid(Lines(m), w, Len(Names) + 1, u, LF)
    /\ w[Len(Names) + 1] = Len(u) + 1

ReadTo(l, r, g, m, k, u, w) ==
    /\ l = Lines(m)[k] /\ (g <=> k < Len(Names) + 1)
    /\ g => Behind(r, u, w[k])

Parsing(m, h, l, r, g) ==
    \E k \in 1..(Len(Names) + 1) : \E u, w :
        WholeHeader(m, u, w) /\ ReadTo(l, r, g, m, k, u, w) /\ ParsedTo(h, m, k - 1)

VInv ==
    cut = Whole =>
        /\ pc = "headers" => Parsing(message, headers, line, rest, good)
        /\ pc = "done" => ParsedTo(headers, message, Len(Names))

LEMMA GetLineReads ==
    ASSUME NEW m \in Message, NEW u, NEW w, WholeHeader(m, u, w),
           NEW j \in 0..Len(Names), NEW text, Behind(text, u, w[j]),
           NEW old, GetLine(text, TRUE, old), TypeOK'
    PROVE  ReadTo(line', rest', good', m, j + 1, u, w)
<1>1. PICK N \in Nat : N = Len(Names)
  BY HeaderAssumption
<1>2. PICK q, k : q = Lines(m) /\ k = j + 1 /\ k \in 1..(N + 1) /\ j \in Nat
  <2>1. j + 1 \in 1..(N + 1) /\ j \in Nat
    BY <1>1
  <2> QED BY <2>1
<1>3. /\ u \in Seq(Char) /\ Laid(q, w, N + 1, u, LF) /\ w[N + 1] = Len(u) + 1
  BY <1>1, <1>2 DEF WholeHeader
<1>4. Unbroken(q, N + 1, LF)
  BY <1>1, <1>2, LinesAre DEF Unbroken
<1>5. NextRead(text, u, w[k], q[k], k < N + 1)
  BY <1>2, <1>3, <1>4, ReadLaid
<1>6. line' = LineOf(text) /\ rest' = After(text) /\ good' = (Ends(text) # {})
  BY DEF GetLine
<1> QED BY <1>1, <1>2, <1>5, <1>6 DEF ReadTo, NextRead

(* One more line is parsed.                                                *)
Parsed(h, pair) ==
    IF Len(pair) # 2 THEN h
    ELSE [n \in DOMAIN h \cup {pair[1]} |->
             IF n = pair[1] THEN trim(pair[2]) ELSE h[n]]

LEMMA OneMoreValue ==
    ASSUME NEW m \in Message, NEW k \in 1..Len(Names), NEW h, ParsedTo(h, m, k - 1),
           NEW l, l = LineText(m, k), NEW pair, pair = split(l, Colon, NoLimit(l)),
           NEW g, g = Parsed(h, pair)
    PROVE  ParsedTo(g, m, k)
<1>1. PICK n \in Seq(Char), v \in Seq(Char) :
         /\ n = Names[k] /\ v = m.values[k] /\ v \in Values
         /\ \A i \in 1..Len(n) : n[i] # Colon
  BY NameTyped, ValueTyped, CharFacts
<1>2. LineRead(l, n, v) /\ Len(v) + 2 < SizeRange
  BY <1>1, LineTextIs, HeaderAssumption
<1>3. k \in Nat /\ \A i \in 1..k : i = k \/ i \in 1..(k - 1)
  BY HeaderAssumption
<1>4. \A i \in 1..(k - 1) : i \in 1..k /\ i # k
  BY <1>3
<1>5. ASSUME NEW i \in 1..(k - 1) PROVE Names[i] # n
  <2>1. i \in DOMAIN Names /\ k \in DOMAIN Names /\ i # k
    BY <1>3, HeaderAssumption
  <2> QED BY <1>1, <2>1, HeaderAssumption
<1>6. CASE \A j \in 1..Len(v) : v[j] # Colon
  <2>1. PICK x : Padded(x, v) /\ pair = <<n, x>>
    <3>1. NoColon(n) /\ NoColon(v)
      BY <1>1, <1>6 DEF NoColon
    <3>2. \E x : Padded(x, v) /\ split(l, Colon, NoLimit(l)) = <<n, x>>
      BY <1>1, <1>2, <3>1, PlainPair
    <3> QED BY <3>2
  <2>2. trim(x) = Strip(v)
    BY <1>2, <2>1, TrimStrips
  <2>3. Len(pair) = 2 /\ pair[1] = n /\ pair[2] = x
    BY <2>1
  <2>4. g = [y \in DOMAIN h \cup {n} |-> IF y = n THEN Strip(v) ELSE h[y]]
    BY <2>2, <2>3 DEF Parsed
  <2>5. PlainTo(m, k) = PlainTo(m, k - 1) \cup {k}
    <3>1. k \in 1..k
      BY <1>3
    <3> QED BY <1>1, <1>3, <1>4, <1>6, <3>1 DEF PlainTo
  <2>6. DOMAIN g = {Names[i] : i \in PlainTo(m, k)}
    <3>1. DOMAIN g = DOMAIN h \cup {n}
      BY <2>4
    <3>2. DOMAIN h = {Names[i] : i \in PlainTo(m, k - 1)}
      BY DEF ParsedTo
    <3> QED BY <1>1, <2>5, <3>1, <3>2
  <2>7. ASSUME NEW i \in PlainTo(m, k) PROVE g[Names[i]] = Strip(m.values[i])
    <3>1. CASE i = k
      BY <1>1, <2>4, <3>1
    <3>2. CASE i # k
      <4>1. i \in PlainTo(m, k - 1) /\ i \in 1..(k - 1)
        BY <2>5, <3>2 DEF PlainTo
      <4>2. Names[i] \in DOMAIN h /\ h[Names[i]] = Strip(m.values[i])
        BY <4>1 DEF ParsedTo
      <4> QED BY <1>5, <2>4, <4>1, <4>2
    <3> QED BY <3>1, <3>2
  <2> QED BY <2>6, <2>7 DEF ParsedTo
<1>7. CASE ~(\A j \in 1..Len(v) : v[j] # Colon)
  <2>1. PICK j \in 1..Len(v) : v[j] = Colon
    BY <1>7
  <2>2. Len(pair) # 2
    BY <1>1, <1>2, <2>1, ColonLine
  <2>3. PlainTo(m, k) = PlainTo(m, k - 1)
    BY <1>1, <1>3, <1>4, <1>7 DEF PlainTo
  <2> QED BY <2>2, <2>3 DEF Parsed, ParsedTo
<1> QED BY <1>6, <1>7

LEMMA ArriveVInv == ASSUME HInv, VInv, Arrive PROVE VInv'
BY DEF Arrive, VInv

LEMMA ReadFirstLineVInv ==
    ASSUME HInv, VInv, ReadFirstLine, HInv' PROVE VInv'
<1>1. /\ pc = "first" /\ pc' = "headers" /\ UNCHANGED <<message, cut, headers>>
      /\ Arrived /\ rest = Raw(to_string(message), cut) /\ NoHeadersYet
      /\ GetLine(After(rest), Ends(rest) # {}, <<>>) /\ TypeOK'
  BY DEF ReadFirstLine, HInv, Fed
<1>2. SUFFICES ASSUME cut = Whole
               PROVE  Parsing(message, headers', line', rest', good')
  BY <1>1 DEF VInv, Whole
<1>3. PICK m, t, r, N : /\ m = message /\ t = to_string(m) /\ r = Raw(t, Len(t))
                        /\ N = Len(Names)
  OBVIOUS
<1>4. m \in Message /\ rest = r
  BY <1>1, <1>2, <1>3 DEF Arrived, Whole
<1>5. PICK x, y : TextAt(t, m, x, y)
  BY <1>3, <1>4, TextIs
<1>6. PICK u : u = After(r)
  OBVIOUS
<1>7. u \in Seq(Char) /\ Ends(r) # {} /\ \E w : WholeHeader(m, u, w)
  BY <1>3, <1>4, <1>5, <1>6, HeaderIsLaid DEF WholeHeader
<1>8. PICK w : WholeHeader(m, u, w)
  BY <1>7
<1>9. N \in Nat /\ 0 \in 0..N /\ 0 + 1 = 1 /\ 1 \in 1..(N + 1) /\ 1 - 1 = 0
  BY <1>3, HeaderAssumption
<1>10. Behind(u, u, w[0])
  <2>1. w[0] = 0
    BY <1>8 DEF WholeHeader, Laid
  <2>2. 0 + Len(u) = Len(u) /\ \A i \in 1..Len(u) : 0 + i = i
    BY <1>7
  <2> QED BY <1>7, <2>1, <2>2 DEF Behind
<1>11. GetLine(u, TRUE, <<>>)
  BY <1>1, <1>4, <1>6, <1>7
<1>12. ReadTo(line', rest', good', m, 1, u, w)
  <2>1. ReadTo(line', rest', good', m, 0 + 1, u, w)
    BY <1>1, <1>3, <1>4, <1>8, <1>9, <1>10, <1>11, GetLineReads
  <2> QED BY <1>9, <2>1
<1>13. ParsedTo(headers', m, 0)
  <2>1. PlainTo(m, 0) = {} /\ DOMAIN headers' = {}
    BY <1>1 DEF PlainTo, NoHeadersYet
  <2> QED BY <2>1 DEF ParsedTo
<1>14. Parsing(m, headers', line', rest', good')
  BY <1>3, <1>8, <1>9, <1>12, <1>13 DEF Parsing
<1> QED BY <1>3, <1>14

LEMMA ParseHeaderVInv ==
    ASSUME HInv, VInv, ParseHeader, HInv' PROVE VInv'
<1>1. /\ pc = "headers" /\ pc' = "headers" /\ IsHeader(line) /\ Arrived
      /\ UNCHANGED <<message, cut>> /\ GetLine(rest, good, line) /\ TypeOK'
  BY DEF ParseHeader, HInv
<1>2. SUFFICES ASSUME cut = Whole
               PROVE  Parsing(message, headers', line', rest', good')
  BY <1>1 DEF VInv, Whole
<1>3. PICK m, N, h, l : m = message /\ N = Len(Names) /\ h = headers /\ l = line
  OBVIOUS
<1>4. m \in Message
  BY <1>1, <1>3 DEF Arrived
<1>5. PICK k \in 1..(N + 1) : \E u, w :
         /\ WholeHeader(m, u, w) /\ ReadTo(l, rest, good, m, k, u, w)
         /\ ParsedTo(h, m, k - 1)
  BY <1>1, <1>2, <1>3 DEF VInv, Parsing
<1>6. PICK u, w : /\ WholeHeader(m, u, w) /\ ReadTo(l, rest, good, m, k, u, w)
                  /\ ParsedTo(h, m, k - 1)
  BY <1>5
<1>7. N \in Nat /\ l = Lines(m)[k]
  BY <1>3, <1>6, HeaderAssumption DEF ReadTo
<1>8. k \in 1..N
  <2>1. IsHeader(l)
    BY <1>1, <1>3
  <2>2. Lines(m)[N + 1] = <<CR>> /\ ~IsHeader(<<CR>>)
    BY <1>3, <1>4, LinesAre
  <2>3. k # N + 1
    BY <1>7, <2>1, <2>2
  <2> QED BY <1>7, <2>3
<1>9. l = LineText(m, k)
  BY <1>3, <1>4, <1>7, <1>8, LinesAre
<1>10. good /\ Behind(rest, u, w[k])
  <2>1. k < N + 1
    BY <1>7, <1>8
  <2> QED BY <1>3, <1>6, <2>1 DEF ReadTo
<1>11. k \in 0..N /\ k + 1 \in 1..(N + 1) /\ k + 1 - 1 = k
  BY <1>7, <1>8
<1>12. ReadTo(line', rest', good', m, k + 1, u, w)
  <2>1. PICK r : r = rest
    OBVIOUS
  <2>2. GetLine(r, TRUE, l)
    BY <1>1, <1>3, <1>10, <2>1 DEF GetLine
  <2>3. Behind(r, u, w[k])
    BY <1>10, <2>1
  <2> QED BY <1>1, <1>3, <1>4, <1>6, <1>11, <2>2, <2>3, GetLineReads
<1>13. ParsedTo(headers', m, k)
  <2>1. PICK pair : /\ pair = split(l, Colon, NoLimit(l))
                    /\ headers' = Parsed(h, pair)
    <3>1. PICK pair : /\ pair = split(line, Colon, NoLimit(line))
                      /\ headers' = IF Len(pair) # 2 THEN headers
                            ELSE [n \in DOMAIN headers \cup {pair[1]} |->
                                     IF n = pair[1] THEN trim(pair[2])
                                     ELSE headers[n]]
      BY DEF ParseHeader
    <3>2. headers' = Parsed(headers, pair)
      BY <3>1 DEF Parsed
    <3> QED BY <1>3, <3>1, <3>2
  <2>2. PICK g : g = headers'
    OBVIOUS
  <2>3. ParsedTo(g, m, k)
    BY <1>3, <1>4, <1>6, <1>8, <1>9, <2>1, <2>2, OneMoreValue
  <2> QED BY <2>2, <2>3
<1>14. Parsing(m, headers', line', rest', good')
  <2>1. PICK j \in 1..(N + 1) : j = k + 1 /\ j - 1 = k
    BY <1>11
  <2> QED BY <1>3, <1>6, <1>12, <1>13, <2>1 DEF Parsing
<1> QED BY <1>3, <1>14

LEMMA StopVInv == ASSUME HInv, VInv, Stop PROVE VInv'
<1>1. /\ pc = "headers" /\ pc' = "done" /\ ~IsHeader(line) /\ Arrived
      /\ UNCHANGED <<message, cut, headers>>
  BY DEF Stop, HInv
<1>2. SUFFICES ASSUME cut = Whole PROVE ParsedTo(headers, message, Len(Names))
  BY <1>1 DEF VInv, Whole
<1>3. PICK m, N, h, l : m = message /\ N = Len(Names) /\ h = headers /\ l = line
  OBVIOUS
<1>4. m \in Message /\ N \in Nat
  BY <1>1, <1>3, HeaderAssumption DEF Arrived
<1>5. PICK k \in 1..(N + 1) : \E u, w :
         /\ ReadTo(l, rest, good, m, k, u, w) /\ ParsedTo(h, m, k - 1)
  BY <1>1, <1>2, <1>3 DEF VInv, Parsing
<1>6. l = Lines(m)[k] /\ ParsedTo(h, m, k - 1)
  BY <1>5 DEF ReadTo
<1>7. k = N + 1
  <2>1. SUFFICES ASSUME k # N + 1 PROVE FALSE
    OBVIOUS
  <2>2. k \in 1..N
    BY <1>4, <2>1
  <2>3. l = LineText(m, k)
    BY <1>3, <1>4, <1>6, <2>2, LinesAre
  <2>4. IsHeader(LineText(m, k))
    BY <1>3, <1>4, <2>2, LineTextIs
  <2> QED BY <1>1, <1>3, <2>3, <2>4
<1>8. k - 1 = N
  BY <1>4, <1>7
<1> QED BY <1>3, <1>6, <1>8

LEMMA NextVInv == HInv /\ VInv /\ [Next]_vars => VInv'
<1> SUFFICES ASSUME HInv, VInv, [Next]_vars PROVE VInv'
  OBVIOUS
<1>1. HInv'
  BY NextHInv
<1>2. CASE Next
  BY <1>1, <1>2, ArriveVInv, ReadFirstLineVInv, ParseHeaderVInv, StopVInv
  DEF Next, Parse
<1>3. CASE UNCHANGED vars
  BY <1>3 DEF vars, VInv, Whole
<1> QED BY <1>2, <1>3

(* The values of a whole header arrive without the blanks around them;     *)
(* those with a colon do not arrive, and none is under another name.       *)
THEOREM ValuesAsSent == Spec => []ValuesArrive
<1>1. HInv /\ VInv /\ [Next]_vars => HInv' /\ VInv'
  BY NextHInv, NextVInv
<1>2. HInv /\ VInv => ValuesArrive
  <2> SUFFICES ASSUME HInv, VInv, pc = "done", cut = Whole
               PROVE  ValuesArrive
    BY DEF ValuesArrive
  <2>1. PICK m, N : m = message /\ N = Len(Names)
    OBVIOUS
  <2>2. m \in Message /\ DOMAIN Names = 1..N /\ ParsedTo(headers, m, N)
    BY <2>1, HeaderAssumption DEF HInv, VInv, Arrived
  <2> DEFINE Plain == {i \in DOMAIN Names : ~Contains(m.values[i], Colon)}
  <2>3. Plain = PlainTo(m, N)
    BY <2>2 DEF PlainTo, Contains
  <2>4. DOMAIN headers = {Names[i] : i \in Plain}
    BY <2>2, <2>3 DEF ParsedTo
  <2>5. ASSUME NEW i \in Plain
        PROVE  /\ headers[Names[i]] = Strip(m.values[i])
               /\ is_whitespace(headers[Names[i]]) <=> is_whitespace(m.values[i])
    <3>1. headers[Names[i]] = Strip(m.values[i])
      BY <2>2, <2>3 DEF ParsedTo
    <3>2. m.values[i] \in Seq(Char)
      BY <2>1, <2>2, ValueTyped
    <3> QED BY <3>1, <3>2, StripIsBlank
  <2> QED BY <2>1, <2>4, <2>5 DEF ValuesArrive
<1>3. Init => VInv
  BY DEF Init, VInv
<1> QED BY <1>1, <1>2, <1>3, InitHInv, PTL DEF Spec

-----------------------------------------------------------------------------
(* The status of a response.                                               *)

DigitFront(text, n) ==
    /\ n \in 0..Len(text) /\ \A i \in 1..n : IsDigit(text[i])
    /\ n < Len(text) => ~IsDigit(text[n + 1])

LEMMA DigitsOfIs ==
    ASSUME NEW text \in Seq(Char), NEW n, DigitFront(text, n)
    PROVE  DigitsOf(text) = n
<1> DEFINE OnlyFront(k) == /\ \A i \in 1..k : IsDigit(text[i])
                           /\ k < Len(text) => ~IsDigit(text[k + 1])
           D == CHOOSE k \in 0..Len(text) : OnlyFront(k)
<1>1. DigitsOf(text) = D
  BY DEF DigitsOf
<1>2. n \in 0..Len(text) /\ OnlyFront(n)
  BY DEF DigitFront
<1>3. D \in 0..Len(text) /\ OnlyFront(D)
  <2> HIDE DEF OnlyFront
  <2> QED BY <1>2, Zenon
<1>4. PICK d \in 0..Len(text) : d = D /\ OnlyFront(d)
  <2> HIDE DEF D, OnlyFront
  <2> QED BY <1>3
<1> HIDE DEF D
<1>5. Len(text) \in Nat
  OBVIOUS
<1>6. ~(d < n)
  <2>1. SUFFICES ASSUME d < n PROVE FALSE
    OBVIOUS
  <2>2. d + 1 \in 1..n /\ d < Len(text)
    BY <1>2, <1>5, <2>1
  <2> QED BY <1>2, <1>4, <2>2
<1>7. ~(n < d)
  <2>1. SUFFICES ASSUME n < d PROVE FALSE
    OBVIOUS
  <2>2. n + 1 \in 1..d /\ n < Len(text)
    BY <1>2, <1>5, <2>1
  <2> QED BY <1>2, <1>4, <2>2
<1>8. d = n
  BY <1>2, <1>5, <1>6, <1>7
<1> QED BY <1>1, <1>4, <1>8

LEMMA DigitTyped ==
    /\ ~IsDigit(NUL)
    /\ \A c : IsDigit(c) => DigitOf(c) \in 0..9
<1>1. ~IsDigit(NUL)
  <2>1. ASSUME NEW d \in 0..9 PROVE Digits[d + 1] # NUL
    BY DEF Digits, NUL
  <2> QED BY <2>1 DEF IsDigit
<1>2. ASSUME NEW c, IsDigit(c) PROVE DigitOf(c) \in 0..9
  <2>1. \E d \in 0..9 : Digits[d + 1] = c
    BY <1>2 DEF IsDigit
  <2> QED BY <2>1, Zenon DEF DigitOf
<1> QED BY <1>1, <1>2

(* The value of the first n digits, from the left.                         *)
Decimal(v, text, n) ==
    /\ v[0] = 0
    /\ \A i \in 1..n : v[i] = 10 * v[i - 1] + DigitOf(text[i])

LEMMA StoiIs ==
    ASSUME NEW text \in Seq(Char), NEW n \in Nat, DigitFront(text, n), n # 0
    PROVE  \E v : Decimal(v, text, n) /\ stoi(text) = v[n]
<1> DEFINE Good(v, m) == v = [i \in 0..m |->
                                 IF i = 0 THEN 0
                                 ELSE 10 * v[i - 1] + DigitOf(text[i])]
           step == [x \in Nat \X Nat |->
                       IF x[2] \in 1..n THEN 10 * x[1] + DigitOf(text[x[2]]) ELSE 0]
           Value(m) == CHOOSE v : Good(v, m)
           F == CHOOSE v : Good(v, n)
<1>1. \A i \in 1..n : DigitOf(text[i]) \in Nat
  <2>1. \A i \in 1..n : DigitOf(text[i]) \in 0..9
    BY DigitTyped DEF DigitFront
  <2> QED BY <2>1
<1>2. step \in [Nat \X Nat -> Nat]
  <2>1. ASSUME NEW x \in Nat \X Nat
        PROVE  (IF x[2] \in 1..n THEN 10 * x[1] + DigitOf(text[x[2]]) ELSE 0) \in Nat
    <3>1. CASE x[2] \in 1..n
      <4>1. PICK a \in Nat, d \in Nat : a = x[1] /\ d = DigitOf(text[x[2]])
        BY <1>1, <3>1
      <4> QED BY <3>1, <4>1
    <3>2. CASE x[2] \notin 1..n
      BY <3>2
    <3> QED BY <3>1, <3>2
  <2> QED BY <2>1
<1>3. PICK f : /\ f \in [0..n -> Nat] /\ f[0] = 0
               /\ \A i \in 1..n : f[i] = step[<<f[i - 1], i>>]
  <2>1. PICK S, b : S = Nat /\ b = 0
    OBVIOUS
  <2>2. step \in [S \X Nat -> S] /\ b \in S
    BY <1>2, <2>1
  <2> HIDE DEF step
  <2>3. \E f : Solves(f, S, b, step, n)
    BY <2>2, Recursion
  <2> QED BY <2>1, <2>3 DEF Solves
<1>4. ASSUME NEW i \in 1..n PROVE f[i] = 10 * f[i - 1] + DigitOf(text[i])
  <2>1. f[i - 1] \in Nat /\ i \in Nat
    BY <1>3
  <2>2. <<f[i - 1], i>> \in Nat \X Nat
    BY <2>1
  <2> QED BY <1>3, <2>2
<1> HIDE DEF step
<1>5. Good(f, n)
  <2> DEFINE h == [i \in 0..n |->
                      IF i = 0 THEN 0 ELSE 10 * f[i - 1] + DigitOf(text[i])]
  <2>1. \A i \in 0..n : h[i] = f[i]
    <3>1. ASSUME NEW i \in 0..n PROVE h[i] = f[i]
      <4>1. CASE i = 0
        BY <1>3, <4>1
      <4>2. CASE i # 0
        <5>1. i \in 1..n
          BY <4>2
        <5> QED BY <1>4, <4>2, <5>1
      <4> QED BY <4>1, <4>2
    <3> QED BY <3>1
  <2>2. h = [i \in 0..n |-> h[i]] /\ f = [i \in 0..n |-> f[i]]
    BY <1>3
  <2>3. h = f
    <3> HIDE DEF h
    <3> QED BY <2>1, <2>2
  <2> QED BY <2>3
<1>6. Good(F, n)
  <2> HIDE DEF Good
  <2> QED BY <1>5, Zenon
<1>7. PICK v : v = F /\ Good(v, n)
  <2> HIDE DEF F, Good
  <2> QED BY <1>6
<1>8. Decimal(v, text, n)
  <2> HIDE DEF F
  <2>1. v[0] = 0
    <3>1. 0 \in 0..n
      OBVIOUS
    <3> QED BY <1>7, <3>1
  <2>2. ASSUME NEW i \in 1..n PROVE v[i] = 10 * v[i - 1] + DigitOf(text[i])
    <3>1. i \in 0..n /\ i # 0
      OBVIOUS
    <3>2. v[i] = IF i = 0 THEN 0 ELSE 10 * v[i - 1] + DigitOf(text[i])
      BY <1>7, <3>1
    <3> QED BY <3>1, <3>2
  <2> QED BY <2>1, <2>2 DEF Decimal
<1>9. stoi(text) = F[n]
  <2>1. DigitsOf(text) = n
    BY DigitsOfIs
  <2>2. stoi(text) = IF DigitsOf(text) = 0 THEN -1
                     ELSE Value(DigitsOf(text))[DigitsOf(text)]
    BY Zenon DEF stoi
  <2>3. Value(n) = F
    OBVIOUS
  <2> HIDE DEF Value, F, Good
  <2> QED BY <2>1, <2>2, <2>3
<1> QED BY <1>7, <1>8, <1>9, Zenon

(* The first two blanks of a text, and the fields that split() makes.      *)
Blanks(text, a, b) ==
    /\ text \in Seq(Char) /\ a \in Nat /\ b \in Nat
    /\ 0 < a /\ a < b /\ b <= Len(text) /\ text[a] = Space /\ text[b] = Space
    /\ \A i \in 1..(b - 1) : i # a => text[i] # Space

FieldsAt(fs, text, a, b) ==
    /\ Len(fs) >= 2
    /\ fs[1] = SubSeq(text, 1, a - 1) /\ fs[2] = SubSeq(text, a + 1, b - 1)

LEMMA FirstPieces ==
    ASSUME NEW p \in Seq(Seq(Char)), NEW r \in Seq(Char)
    PROVE  /\ Len(WithRest(p, r)) \in {Len(p), Len(p) + 1}
           /\ \A k \in 1..Len(p) : WithRest(p, r)[k] = p[k]
           /\ r # <<>> => /\ Len(WithRest(p, r)) = Len(p) + 1
                          /\ WithRest(p, r)[Len(p) + 1] = r
<1>1. /\ WithRest(p, r) \in {p, Append(p, r)}
      /\ r # <<>> => WithRest(p, r) = Append(p, r)
  BY DEF WithRest
<1>2. PICK s, n : s = Append(p, r) /\ n = Len(p)
  OBVIOUS
<1>3. n \in Nat /\ Len(s) = n + 1 /\ (\A k \in 1..n : s[k] = p[k]) /\ s[n + 1] = r
  BY <1>2
<1> QED BY <1>1, <1>2, <1>3

LEMMA TwoFields ==
    ASSUME NEW text, NEW a, NEW b, Blanks(text, a, b)
    PROVE  FieldsAt(split(text, Space, 3), text, a, b)
<1>1. /\ text \in Seq(Char) /\ a \in Nat /\ b \in Nat
      /\ 0 < a /\ a < b /\ b <= Len(text) /\ text[a] = Space /\ text[b] = Space
      /\ \A i \in 1..(b - 1) : i # a => text[i] # Space
  BY DEF Blanks
<1>2. PICK T \in Nat : T = Len(text)
  BY <1>1
<1>3. PICK z, K : /\ Cuts(z, K, text, Space, 3)
                  /\ SplitAt(split(text, Space, 3), z, K, text)
  <2>1. 3 \in Nat /\ 3 # 0
    OBVIOUS
  <2> QED BY <1>1, <2>1, SplitIs
<1>4. /\ K \in 0..2 /\ z \in [0..K -> 0..T] /\ z[0] = 0
      /\ \A k \in 1..K :
            /\ z[k - 1] < z[k] /\ text[z[k]] = Space
            /\ \A i \in (z[k - 1] + 1)..(z[k] - 1) : text[i] # Space
      /\ K = 2 \/ \A i \in (z[K] + 1)..T : text[i] # Space
  <2>1. /\ K \in Nat /\ z \in [0..K -> 0..T] /\ z[0] = 0 /\ K < 3
        /\ K = 3 - 1 \/ \A i \in (z[K] + 1)..T : text[i] # Space
    BY <1>2, <1>3 DEF Cuts
  <2>2. \A k \in 1..K :
           /\ z[k - 1] < z[k] /\ text[z[k]] = Space
           /\ \A i \in (z[k - 1] + 1)..(z[k] - 1) : text[i] # Space
    BY <1>3 DEF Cuts
  <2> QED BY <2>1, <2>2
<1>5. K # 0
  <2>1. SUFFICES ASSUME K = 0 PROVE FALSE
    OBVIOUS
  <2>2. a \in (0 + 1)..T
    BY <1>1, <1>2
  <2>3. z[K] = 0 /\ K # 2
    BY <1>4, <2>1
  <2>4. \A i \in (0 + 1)..T : text[i] # Space
    BY <1>4, <2>3
  <2> QED BY <1>1, <2>2, <2>4
<1>6. z[1] = a
  <2>1. 1 \in 1..K /\ 1 \in 0..K /\ 1 - 1 = 0
    BY <1>4, <1>5
  <2>2. PICK y \in 0..T : y = z[1]
    BY <1>4, <2>1
  <2>3. z[1 - 1] = 0
    BY <1>4, <2>1
  <2>4. 0 < y /\ text[y] = Space /\ \A i \in (0 + 1)..(y - 1) : text[i] # Space
    BY <1>4, <2>1, <2>2, <2>3
  <2>5. ~(y < a)
    <3>1. SUFFICES ASSUME y < a PROVE FALSE
      OBVIOUS
    <3>2. y \in 1..(b - 1) /\ y # a
      BY <1>1, <2>4, <3>1
    <3> QED BY <1>1, <2>4, <3>2
  <2>6. ~(a < y)
    <3>1. SUFFICES ASSUME a < y PROVE FALSE
      OBVIOUS
    <3>2. a \in (0 + 1)..(y - 1)
      BY <1>1, <3>1
    <3> QED BY <1>1, <2>4, <3>2
  <2>7. y = a
    BY <1>1, <2>5, <2>6
  <2> QED BY <2>2, <2>7
<1>7. K = 2
  <2>1. SUFFICES ASSUME K # 2 PROVE FALSE
    OBVIOUS
  <2>2. K = 1
    BY <1>4, <1>5, <2>1
  <2>3. \A i \in (a + 1)..T : text[i] # Space
    BY <1>4, <1>6, <2>1, <2>2
  <2>4. b \in (a + 1)..T
    BY <1>1, <1>2
  <2> QED BY <1>1, <2>3, <2>4
<1>8. z[2] = b
  <2>1. 2 \in 1..K /\ 2 \in 0..K /\ 2 - 1 = 1
    BY <1>7
  <2>2. PICK y \in 0..T : y = z[2]
    BY <1>4, <2>1
  <2>3. z[2 - 1] = a
    BY <1>6, <2>1
  <2>4. a < y /\ text[y] = Space /\ \A i \in (a + 1)..(y - 1) : text[i] # Space
    BY <1>4, <2>1, <2>2, <2>3
  <2>5. ~(y < b)
    <3>1. SUFFICES ASSUME y < b PROVE FALSE
      OBVIOUS
    <3>2. y \in 1..(b - 1) /\ y # a
      BY <1>1, <2>4, <3>1
    <3> QED BY <1>1, <2>4, <3>2
  <2>6. ~(b < y)
    <3>1. SUFFICES ASSUME b < y PROVE FALSE
      OBVIOUS
    <3>2. b \in (a + 1)..(y - 1)
      BY <1>1, <3>1
    <3> QED BY <1>1, <2>4, <3>2
  <2>7. y = b
    BY <1>1, <2>5, <2>6
  <2> QED BY <2>2, <2>7
<1>9. PICK p, r : /\ p = [k \in 1..K |-> PieceAt(z, text, k)]
                  /\ r = SubSeq(text, z[K] + 1, Len(text))
  OBVIOUS
<1>10. split(text, Space, 3) = WithRest(p, r)
  BY <1>3, <1>9 DEF SplitAt
<1>11. p \in Seq(Seq(Char)) /\ Len(p) = 2 /\ p[1] = PieceAt(z, text, 1)
       /\ p[2] = PieceAt(z, text, 2)
  <2>1. \A k \in 1..K : PieceAt(z, text, k) \in Seq(Char)
    BY <1>1, <1>3, PieceTyped
  <2> QED BY <1>7, <1>9, <2>1
<1>12. r \in Seq(Char)
  <2>1. z[K] \in 0..Len(text)
    BY <1>2, <1>4, <1>7
  <2> QED BY <1>1, <1>9, <2>1, RestIs
<1>13. p[1] = SubSeq(text, 1, a - 1) /\ p[2] = SubSeq(text, a + 1, b - 1)
  <2>1. 1 - 1 = 0 /\ 2 - 1 = 1 /\ 0 + 1 = 1
    OBVIOUS
  <2>2. PieceAt(z, text, 1) = SubSeq(text, z[1 - 1] + 1, z[1] - 1)
        /\ PieceAt(z, text, 2) = SubSeq(text, z[2 - 1] + 1, z[2] - 1)
    BY DEF PieceAt
  <2>3. z[1 - 1] + 1 = 1 /\ z[2 - 1] = a
    BY <1>4, <1>6, <2>1
  <2> QED BY <1>6, <1>8, <1>11, <2>2, <2>3
<1>14. PICK s : s = WithRest(p, r)
  OBVIOUS
<1>15. /\ Len(s) \in {2, 2 + 1} /\ \A k \in 1..2 : s[k] = p[k]
  BY <1>11, <1>12, <1>14, FirstPieces
<1>16. Len(s) >= 2 /\ s[1] = p[1] /\ s[2] = p[2]
  BY <1>15
<1> QED BY <1>10, <1>13, <1>14, <1>16 DEF FieldsAt

(* Every first line has two blanks.                                        *)
LEMMA BlanksOf ==
    ASSUME NEW m \in Message PROVE \E a, b : Blanks(m.first, a, b)
<1>1. PICK f : f = m.first
  OBVIOUS
<1>2. f \in Seq(Char) /\ Cardinality({i \in DOMAIN f : f[i] = Space}) >= 2
  <2>1. f \in FirstLines
    BY <1>1 DEF Message
  <2> QED BY <1>1, <2>1, MessageTyped, HeaderAssumption
<1>3. PICK T \in Nat : T = Len(f) /\ DOMAIN f = 1..T
  BY <1>2
<1>4. PICK z, K : Cuts(z, K, f, Space, 3)
  <2>1. 3 \in Nat /\ 3 # 0
    OBVIOUS
  <2> QED BY <1>2, <2>1, SplitIs
<1>5. /\ K \in 0..2 /\ z \in [0..K -> 0..T] /\ z[0] = 0
      /\ K = 2 \/ \A i \in (z[K] + 1)..T : f[i] # Space
  BY <1>3, <1>4 DEF Cuts
<1>6. \A k \in 1..K :
         /\ z[k - 1] < z[k] /\ f[z[k]] = Space
         /\ \A i \in (z[k - 1] + 1)..(z[k] - 1) : f[i] # Space
  BY <1>4 DEF Cuts
<1>7. K # 0
  <2>1. SUFFICES ASSUME K = 0 PROVE FALSE
    OBVIOUS
  <2>2. \A i \in (0 + 1)..T : f[i] # Space
    <3>1. z[K] = 0 /\ K # 2
      BY <1>5, <2>1
    <3> QED BY <1>5, <3>1
  <2>3. {i \in DOMAIN f : f[i] = Space} = {}
    BY <1>3, <2>2
  <2>4. Cardinality({i \in DOMAIN f : f[i] = Space}) = 0
    BY <2>3, FS_EmptySet
  <2> QED BY <1>2, <2>4
<1>8. PICK a \in 0..T : a = z[1]
  <2>1. 1 \in 0..K
    BY <1>5, <1>7
  <2> QED BY <1>5, <2>1
<1>9. 0 < a /\ f[a] = Space /\ \A i \in 1..(a - 1) : f[i] # Space
  <2>1. 1 \in 1..K /\ 1 - 1 = 0 /\ 0 + 1 = 1
    BY <1>5, <1>7
  <2>2. z[1 - 1] = 0
    BY <1>5, <2>1
  <2> QED BY <1>6, <1>8, <2>1, <2>2
<1>10. K = 2
  <2>1. SUFFICES ASSUME K # 2 PROVE FALSE
    OBVIOUS
  <2>2. K = 1
    BY <1>5, <1>7, <2>1
  <2>3. \A i \in (a + 1)..T : f[i] # Space
    BY <1>5, <1>8, <2>1, <2>2
  <2>4. ASSUME NEW i \in 1..T, f[i] = Space PROVE i = a
    <3>1. i \notin 1..(a - 1) /\ i \notin (a + 1)..T
      BY <1>9, <2>3, <2>4
    <3> QED BY <1>8, <3>1
  <2>5. a \in 1..T
    BY <1>8, <1>9
  <2>6. {i \in DOMAIN f : f[i] = Space} = {a}
    BY <1>3, <1>9, <2>4, <2>5
  <2>7. Cardinality({i \in DOMAIN f : f[i] = Space}) = 1
    BY <2>6, FS_Singleton
  <2> QED BY <1>2, <2>7
<1>11. PICK b \in 0..T : b = z[2]
  BY <1>5, <1>10
<1>12. a < b /\ f[b] = Space /\ \A i \in (a + 1)..(b - 1) : f[i] # Space
  <2>1. 2 \in 1..K /\ 2 - 1 = 1
    BY <1>10
  <2> QED BY <1>6, <1>8, <1>11, <2>1
<1>13. ASSUME NEW i \in 1..(b - 1), i # a PROVE f[i] # Space
  <2>1. i \in 1..(a - 1) \/ i \in (a + 1)..(b - 1)
    BY <1>13
  <2> QED BY <1>9, <1>12, <2>1
<1>14. Blanks(f, a, b)
  <2>1. a \in Nat /\ b \in Nat /\ b <= Len(f)
    BY <1>3
  <2> QED BY <1>2, <1>9, <1>12, <1>13, <2>1 DEF Blanks
<1> QED BY <1>1, <1>14

(* What the parser reads as the first line of a message of which n         *)
(* characters arrive: the first line, or a part of it and the NUL.         *)
FirstLineRead(l, f, n) ==
    /\ l \in Seq(Char)
    /\ \A i \in 1..Len(f) : i <= n => i <= Len(l) /\ l[i] = f[i]
    /\ n < Len(f) => Len(l) = n + 1 /\ l[n + 1] = NUL

LEMMA FirstLineIs ==
    ASSUME NEW m \in Message, NEW t, NEW x, NEW y, TextAt(t, m, x, y),
           NEW n \in 0..Len(t)
    PROVE  FirstLineRead(LineOf(Raw(t, n)), m.first, n)
<1>1. /\ t \in Seq(Char) /\ x \in Nat /\ y \in Nat /\ Len(t) = x + y + 4
      /\ \A i \in 1..x : t[i] # LF
      /\ \A i \in 1..x : t[i] = m.first[i]
      /\ t[x + 1] = CR /\ t[x + 2] = LF /\ x = Len(m.first)
  BY DEF TextAt
<1>2. PICK r, l : r = Raw(t, n) /\ l = LineOf(r)
  OBVIOUS
<1>3. /\ r \in Seq(Char)
      /\ Len(r) = IF n = Len(t) THEN n - 1 ELSE n + 1
      /\ \A i \in 1..n : n # Len(t) => r[i] = t[i]
      /\ \A i \in 1..(n - 1) : n = Len(t) => r[i] = t[i]
      /\ n # Len(t) => r[n + 1] = NUL
  <2>1. Len(t) > 0
    BY <1>1
  <2> QED BY <1>1, <1>2, <2>1, RawIs
<1>4. PICK R \in Nat : R = Len(r)
  BY <1>3
<1>5. \A i \in 1..(x + 1) : t[i] # LF
  <2>1. \A i \in 1..(x + 1) : i \in 1..x \/ i = x + 1
    BY <1>1
  <2> QED BY <1>1, <2>1, CharFacts
<1>6. CASE x + 2 <= n
  <2>1. x + 2 <= R /\ \A i \in 1..(x + 2) : r[i] = t[i]
    <3>1. CASE n = Len(t)
      <4>1. R = n - 1 /\ \A i \in 1..(n - 1) : r[i] = t[i]
        BY <1>3, <1>4, <3>1
      <4>2. x + 2 <= n - 1
        BY <1>1, <3>1
      <4> QED BY <1>1, <4>1, <4>2
    <3>2. CASE n # Len(t)
      <4>1. R = n + 1 /\ \A i \in 1..n : r[i] = t[i]
        BY <1>3, <1>4, <3>2
      <4> QED BY <1>1, <1>6, <4>1
    <3> QED BY <3>1, <3>2
  <2>2. x + 2 \in 1..(x + 2) /\ x + 2 \in 1..R /\ DOMAIN r = 1..R
    <3>1. x \in Nat /\ x + 2 <= R
      BY <1>1, <2>1
    <3>2. x + 2 \in 1..(x + 2) /\ x + 2 \in 1..R
      BY <3>1
    <3> QED BY <1>3, <1>4, <3>2
  <2>3. Ends(r) # {}
    BY <1>1, <2>1, <2>2 DEF Ends
  <2>4. PICK e : /\ e = FirstEnd(r) /\ e \in 1..R /\ r[e] = LF
                 /\ \A j \in 1..(e - 1) : r[j] # LF
    BY <1>3, <1>4, <2>3, FirstEndIs
  <2>5. ~(e < x + 2)
    <3>1. SUFFICES ASSUME e < x + 2 PROVE FALSE
      OBVIOUS
    <3>2. e \in 1..(x + 1) /\ e \in 1..(x + 2)
      <4>1. e \in 1..R /\ x \in Nat
        BY <1>1, <2>4
      <4> QED BY <3>1, <4>1
    <3> QED BY <1>5, <2>1, <2>4, <3>2
  <2>6. ~(x + 2 < e)
    <3>1. SUFFICES ASSUME x + 2 < e PROVE FALSE
      OBVIOUS
    <3>2. x + 2 \in 1..(e - 1)
      <4>1. e \in 1..R /\ x \in Nat
        BY <1>1, <2>4
      <4> QED BY <3>1, <4>1
    <3> QED BY <1>1, <2>1, <2>2, <2>4, <3>2
  <2>7. e = x + 2
    BY <1>1, <2>4, <2>5, <2>6
  <2>8. CutAt(r, e)
    BY <1>3, <2>3, <2>4, GetLineCuts
  <2>9. l \in Seq(Char) /\ Len(l) = e - 1 /\ \A i \in 1..(e - 1) : l[i] = r[i]
    BY <1>2, <2>8 DEF CutAt
  <2>10. ASSUME NEW i \in 1..x PROVE i <= Len(l) /\ l[i] = m.first[i]
    <3>1. i \in 1..(e - 1) /\ i \in 1..(x + 2) /\ i <= e - 1
      BY <1>1, <2>7
    <3> QED BY <1>1, <2>1, <2>9, <3>1
  <2>11. ~(n < x)
    BY <1>1, <1>6
  <2> QED BY <1>1, <1>2, <2>9, <2>10, <2>11 DEF FirstLineRead
<1>7. CASE ~(x + 2 <= n)
  <2>1. n # Len(t) /\ n <= x + 1 /\ n \in Nat
    BY <1>1, <1>7
  <2>2. R = n + 1 /\ r[n + 1] = NUL /\ \A i \in 1..n : r[i] = t[i]
    BY <1>3, <1>4, <2>1
  <2>3. \A i \in 1..R : r[i] # LF
    <3>1. \A i \in 1..R : i = n + 1 \/ (i \in 1..n /\ i \in 1..(x + 1))
      BY <1>1, <2>1, <2>2
    <3> QED BY <1>5, <2>2, <3>1, CharFacts
  <2>4. Ends(r) = {}
    BY <1>3, <1>4, <2>3 DEF Ends
  <2>5. l = r
    BY <1>2, <2>4 DEF LineOf
  <2>6. ASSUME NEW i \in 1..x, i <= n PROVE i <= Len(l) /\ l[i] = m.first[i]
    <3>1. i \in 1..n /\ i <= n + 1
      BY <2>1, <2>6
    <3> QED BY <1>1, <1>4, <2>2, <2>5, <3>1
  <2> QED BY <1>1, <1>2, <1>3, <1>4, <2>2, <2>5, <2>6 DEF FirstLineRead
<1> QED BY <1>6, <1>7

(* What stoi() makes of three digits, of fewer, and of none.               *)
LEMMA FewDigits ==
    ASSUME NEW text \in Seq(Char), NEW n, n \in {1, 2}, DigitFront(text, n)
    PROVE  stoi(text) # 200
<1>1. n \in Nat /\ n # 0
  OBVIOUS
<1>2. PICK v : Decimal(v, text, n) /\ stoi(text) = v[n]
  BY <1>1, StoiIs
<1>3. \A i \in 1..n : DigitOf(text[i]) \in 0..9
  BY DigitTyped DEF DigitFront
<1>4. v[0] = 0 /\ \A i \in 1..n : v[i] = 10 * v[i - 1] + DigitOf(text[i])
  BY <1>2 DEF Decimal
<1>5. PICK d \in 0..9 : d = DigitOf(text[1]) /\ v[1] = d
  <2>1. 1 \in 1..n /\ 1 - 1 = 0
    OBVIOUS
  <2>2. PICK d \in 0..9 : d = DigitOf(text[1])
    BY <1>3, <2>1
  <2>3. v[1] = 10 * 0 + d
    BY <1>4, <2>1, <2>2
  <2> QED BY <2>2, <2>3
<1>6. CASE n = 1
  BY <1>2, <1>5, <1>6
<1>7. CASE n = 2
  <2>1. 2 \in 1..n /\ 2 - 1 = 1
    BY <1>7
  <2>2. PICK e \in 0..9 : e = DigitOf(text[2])
    BY <1>3, <2>1
  <2>3. v[2] = 10 * d + e
    BY <1>4, <1>5, <2>1, <2>2
  <2>4. 10 * d + e < 100
    OBVIOUS
  <2> QED BY <1>2, <1>7, <2>3, <2>4
<1> QED BY <1>6, <1>7

LEMMA ThreeDigits ==
    ASSUME NEW text \in Seq(Char), DigitFront(text, 3)
    PROVE  stoi(text) = 10 * (10 * DigitOf(text[1]) + DigitOf(text[2]))
                           + DigitOf(text[3])
<1>1. PICK n \in Nat : n = 3 /\ n # 0
  OBVIOUS
<1>2. PICK v : Decimal(v, text, n) /\ stoi(text) = v[n]
  BY <1>1, StoiIs
<1>3. PICK a \in 0..9, b \in 0..9, c \in 0..9 :
         a = DigitOf(text[1]) /\ b = DigitOf(text[2]) /\ c = DigitOf(text[3])
  <2>1. \A i \in 1..3 : DigitOf(text[i]) \in 0..9
    BY DigitTyped DEF DigitFront
  <2> QED BY <2>1
<1>4. v[0] = 0 /\ \A i \in 1..3 : v[i] = 10 * v[i - 1] + DigitOf(text[i])
  BY <1>1, <1>2 DEF Decimal
<1>5. /\ v[1] = 10 * v[1 - 1] + a /\ v[2] = 10 * v[2 - 1] + b
      /\ v[3] = 10 * v[3 - 1] + c
  BY <1>3, <1>4
<1>6. v[1 - 1] = 0 /\ v[2 - 1] = v[1] /\ v[3 - 1] = v[2]
  BY <1>4
<1>7. v[1] = a
  BY <1>5, <1>6
<1>8. v[2] = 10 * a + b
  BY <1>5, <1>6, <1>7
<1>9. v[3] = 10 * (10 * a + b) + c
  BY <1>5, <1>6, <1>8
<1> QED BY <1>1, <1>2, <1>3, <1>9

LEMMA NoDigits ==
    ASSUME NEW text \in Seq(Char), DigitFront(text, 0)
    PROVE  stoi(text) = -1
<1>1. DigitsOf(text) = 0
  BY DigitsOfIs
<1>2. stoi(text) = -1
  BY <1>1, Zenon DEF stoi
<1> QED BY <1>2

(* A status that is cut off is not the status 200, unless all of it is     *)
(* there.                                                                  *)
Status(s) == Len(s) = 3 /\ \A i \in 1..3 : IsDigit(s[i])

CutStatus(q, s, k) ==
    /\ q \in Seq(Char) /\ s \in Seq(Char)
    /\ k \in Nat /\ 0 < k /\ k <= Len(s) /\ Len(q) = k + 1
    /\ \A i \in 1..k : q[i] = s[i]
    /\ q[k + 1] = NUL

LEMMA CutStatusRead ==
    ASSUME NEW q, NEW s, NEW k, CutStatus(q, s, k),
           Status(s) \/ s = <<>> \/ ~IsDigit(s[1])
    PROVE  stoi(q) = 200 => stoi(s) = 200
<1>1. /\ q \in Seq(Char) /\ s \in Seq(Char)
      /\ k \in Nat /\ 0 < k /\ k <= Len(s) /\ Len(q) = k + 1
      /\ \A i \in 1..k : q[i] = s[i]
      /\ q[k + 1] = NUL
  BY DEF CutStatus
<1>2. s # <<>>
  BY <1>1
<1>3. CASE ~IsDigit(s[1])
  <2>1. 1 \in 1..k /\ 0 + 1 = 1 /\ 0 \in 0..Len(q)
    BY <1>1
  <2>2. q[0 + 1] = s[1]
    BY <1>1, <2>1
  <2>3. DigitFront(q, 0)
    BY <1>3, <2>1, <2>2 DEF DigitFront
  <2>4. stoi(q) = -1
    BY <1>1, <2>3, NoDigits
  <2> QED BY <2>4
<1>4. CASE Status(s)
  <2>1. Len(s) = 3 /\ \A i \in 1..3 : IsDigit(s[i])
    BY <1>4 DEF Status
  <2>2. k \in {1, 2, 3}
    BY <1>1, <2>1
  <2>3. DigitFront(q, k)
    <3>1. k \in 0..Len(q) /\ \A i \in 1..k : i \in 1..3
      BY <1>1, <2>2
    <3>2. \A i \in 1..k : IsDigit(q[i])
      BY <1>1, <2>1, <3>1
    <3>3. ~IsDigit(q[k + 1])
      BY <1>1, DigitTyped
    <3> QED BY <3>1, <3>2, <3>3 DEF DigitFront
  <2>4. CASE k \in {1, 2}
    BY <1>1, <2>3, <2>4, FewDigits
  <2>5. CASE k = 3
    <3>1. DigitFront(s, 3)
      BY <2>1 DEF DigitFront
    <3>2. DigitFront(q, 3)
      BY <2>3, <2>5
    <3>3. q[1] = s[1] /\ q[2] = s[2] /\ q[3] = s[3]
      BY <1>1, <2>5
    <3>4. stoi(q) = 10 * (10 * DigitOf(q[1]) + DigitOf(q[2])) + DigitOf(q[3])
      BY <1>1, <3>2, ThreeDigits
    <3>5. stoi(s) = 10 * (10 * DigitOf(s[1]) + DigitOf(s[2])) + DigitOf(s[3])
      BY <1>1, <3>1, ThreeDigits
    <3> QED BY <3>3, <3>4, <3>5
  <2> QED BY <2>2, <2>4, <2>5
<1> QED BY <1>2, <1>3, <1>4

(* The last field, if there is only one blank in front of it.              *)
OneBlank(text, a) ==
    /\ text \in Seq(Char) /\ a \in Nat
    /\ 0 < a /\ a < Len(text) /\ text[a] = Space
    /\ \A i \in 1..Len(text) : i # a => text[i] # Space

LEMMA LastOfTwo ==
    ASSUME NEW text, NEW a, OneBlank(text, a)
    PROVE  /\ Len(split(text, Space, 3)) = 2
           /\ split(text, Space, 3)[2] = SubSeq(text, a + 1, Len(text))
<1>1. /\ text \in Seq(Char) /\ a \in Nat
      /\ 0 < a /\ a < Len(text) /\ text[a] = Space
      /\ \A i \in 1..Len(text) : i # a => text[i] # Space
  BY DEF OneBlank
<1>2. PICK T \in Nat : T = Len(text)
  BY <1>1
<1>3. PICK z, K : /\ Cuts(z, K, text, Space, 3)
                  /\ SplitAt(split(text, Space, 3), z, K, text)
  <2>1. 3 \in Nat /\ 3 # 0
    OBVIOUS
  <2> QED BY <1>1, <2>1, SplitIs
<1>4. /\ K \in 0..2 /\ z \in [0..K -> 0..T] /\ z[0] = 0
      /\ K = 2 \/ \A i \in (z[K] + 1)..T : text[i] # Space
  BY <1>2, <1>3 DEF Cuts
<1>5. \A k \in 1..K : z[k - 1] < z[k] /\ text[z[k]] = Space
  BY <1>3 DEF Cuts
<1>6. K # 0
  <2>1. SUFFICES ASSUME K = 0 PROVE FALSE
    OBVIOUS
  <2>2. a \in (0 + 1)..T
    BY <1>1, <1>2
  <2>3. z[K] = 0 /\ K # 2
    BY <1>4, <2>1
  <2>4. \A i \in (0 + 1)..T : text[i] # Space
    BY <1>4, <2>3
  <2> QED BY <1>1, <2>2, <2>4
<1>7. ASSUME NEW k \in 1..K PROVE z[k] = a
  <2>1. k - 1 \in 0..K /\ k \in 0..K
    BY <1>4
  <2>2. z[k - 1] \in 0..T /\ z[k] \in 0..T /\ z[k - 1] < z[k] /\ text[z[k]] = Space
    BY <1>4, <1>5, <2>1
  <2>3. z[k] \in 1..Len(text)
    BY <1>2, <2>2
  <2> QED BY <1>1, <2>2, <2>3
<1>8. K = 1 /\ z[1] = a
  <2>1. K # 2
    <3>1. SUFFICES ASSUME K = 2 PROVE FALSE
      OBVIOUS
    <3>2. 1 \in 1..K /\ 2 \in 1..K /\ 2 - 1 = 1
      BY <3>1
    <3>3. z[1] = a /\ z[2] = a /\ z[2 - 1] < z[2]
      BY <1>5, <1>7, <3>2
    <3> QED BY <1>1, <3>2, <3>3
  <2>2. K = 1 /\ 1 \in 1..K
    BY <1>4, <1>6, <2>1
  <2> QED BY <1>7, <2>2
<1>9. PICK p, r : /\ p = [k \in 1..K |-> PieceAt(z, text, k)]
                  /\ r = SubSeq(text, z[K] + 1, Len(text))
  OBVIOUS
<1>10. split(text, Space, 3) = WithRest(p, r)
  BY <1>3, <1>9 DEF SplitAt
<1>11. p \in Seq(Seq(Char)) /\ Len(p) = 1
  <2>1. \A k \in 1..K : PieceAt(z, text, k) \in Seq(Char)
    BY <1>1, <1>3, PieceTyped
  <2> QED BY <1>8, <1>9, <2>1
<1>12. r \in Seq(Char) /\ r = SubSeq(text, a + 1, Len(text)) /\ r # <<>>
  <2>1. r = SubSeq(text, a + 1, Len(text)) /\ a \in 0..Len(text)
    BY <1>1, <1>8, <1>9
  <2>2. r \in Seq(Char) /\ Len(r) = Len(text) - a
    BY <1>1, <2>1, RestIs
  <2>3. Len(r) # 0
    BY <1>1, <1>2, <2>2
  <2> QED BY <2>1, <2>2, <2>3
<1>13. PICK s : s = WithRest(p, r)
  OBVIOUS
<1>14. Len(s) = 2 /\ s[2] = r
  <2>1. Len(s) = Len(p) + 1 /\ s[Len(p) + 1] = r
    BY <1>11, <1>12, <1>13, FirstPieces
  <2> QED BY <1>11, <2>1
<1> QED BY <1>10, <1>12, <1>13, <1>14

(* What the parser makes of the second field.                              *)
SentField(m) == split(m.first, Space, 3)[2]

StatusOf(fs) == IF Len(fs) < 2 THEN 200 ELSE stoi(fs[2])

LEMMA WholeStatus ==
    ASSUME NEW m, NEW a, NEW b, Blanks(m.first, a, b), NEW l, NEW n \in Nat,
           FirstLineRead(l, m.first, n), b <= n
    PROVE  StatusOf(split(l, Space, 3)) = stoi(SentField(m))
<1>1. PICK f : f = m.first
  OBVIOUS
<1>2. /\ f \in Seq(Char) /\ a \in Nat /\ b \in Nat
      /\ 0 < a /\ a < b /\ b <= Len(f) /\ f[a] = Space /\ f[b] = Space
      /\ \A i \in 1..(b - 1) : i # a => f[i] # Space
  BY <1>1 DEF Blanks
<1>3. l \in Seq(Char) /\ \A i \in 1..Len(f) : i <= n => i <= Len(l) /\ l[i] = f[i]
  BY <1>1 DEF FirstLineRead
<1>4. \A i \in 1..b : i \in 1..Len(f) /\ i <= n
  BY <1>2
<1>5. \A i \in 1..b : i <= Len(l) /\ l[i] = f[i]
  BY <1>3, <1>4
<1>6. a \in 1..b /\ b \in 1..b /\ \A i \in 1..(b - 1) : i \in 1..b
  BY <1>2
<1>7. Blanks(l, a, b)
  BY <1>2, <1>3, <1>5, <1>6 DEF Blanks
<1>8. PICK s, u : s = SubSeq(l, a + 1, b - 1) /\ u = SubSeq(f, a + 1, b - 1)
  OBVIOUS
<1>9. s = u
  <2>1. /\ a + 1 \in 1..(Len(f) + 1) /\ b - 1 \in 0..Len(f) /\ a + 1 <= b - 1 + 1
        /\ a + 1 \in 1..(Len(l) + 1) /\ b - 1 \in 0..Len(l)
    <3>1. b <= Len(l) /\ Len(l) \in Nat /\ Len(f) \in Nat
      BY <1>2, <1>3, <1>5, <1>6
    <3> QED BY <1>2, <3>1
  <2>2. PICK d \in Nat : d = b - 1 - (a + 1) + 1
    BY <1>2
  <2>3. s \in Seq(Char) /\ Len(s) = d /\ \A i \in 1..d : s[i] = l[a + 1 + i - 1]
    BY <1>3, <1>8, <2>1, <2>2, PieceIs
  <2>4. u \in Seq(Char) /\ Len(u) = d /\ \A i \in 1..d : u[i] = f[a + 1 + i - 1]
    BY <1>2, <1>8, <2>1, <2>2, PieceIs
  <2>5. \A i \in 1..d : a + 1 + i - 1 \in 1..b
    BY <1>2, <2>2
  <2>6. \A i \in 1..d : s[i] = u[i]
    BY <1>5, <2>3, <2>4, <2>5
  <2> QED BY <2>3, <2>4, <2>6, SameText
<1>10. FieldsAt(split(l, Space, 3), l, a, b) /\ FieldsAt(split(f, Space, 3), f, a, b)
  BY <1>1, <1>7, TwoFields
<1>11. PICK g, h : g = split(l, Space, 3) /\ h = split(f, Space, 3)
  OBVIOUS
<1>12. ~(Len(g) < 2) /\ g[2] = s /\ h[2] = u
  <2>1. Len(g) >= 2 /\ g[2] = s /\ h[2] = u
    BY <1>8, <1>10, <1>11 DEF FieldsAt
  <2>2. Len(g) \in Nat
    <3>1. 3 \in Nat /\ 3 # 0
      OBVIOUS
    <3> QED BY <1>3, <1>11, <3>1, SplitTyped
  <2> QED BY <2>1, <2>2
<1> QED BY <1>1, <1>9, <1>11, <1>12 DEF StatusOf, SentField

LEMMA PartOfStatus ==
    ASSUME NEW m \in Message, NEW a, NEW b, Blanks(m.first, a, b), NEW l,
           NEW n \in Nat, FirstLineRead(l, m.first, n), a < n, n < b
    PROVE  StatusOf(split(l, Space, 3)) = 200 => stoi(SentField(m)) = 200
<1>1. PICK f : f = m.first
  OBVIOUS
<1>2. /\ f \in Seq(Char) /\ a \in Nat /\ b \in Nat
      /\ 0 < a /\ a < b /\ b <= Len(f) /\ f[a] = Space /\ f[b] = Space
      /\ \A i \in 1..(b - 1) : i # a => f[i] # Space
  BY <1>1 DEF Blanks
<1>3. PICK F \in Nat : F = Len(f)
  BY <1>2
<1>4. n < F
  BY <1>2, <1>3
<1>5. /\ l \in Seq(Char) /\ Len(l) = n + 1 /\ l[n + 1] = NUL
      /\ \A i \in 1..n : l[i] = f[i]
  <2>1. \A i \in 1..n : i \in 1..F /\ i <= n
    BY <1>4
  <2> QED BY <1>1, <1>3, <1>4, <2>1 DEF FirstLineRead
<1>6. OneBlank(l, a)
  <2>1. a \in 1..n /\ a < n + 1
    BY <1>2
  <2>2. ASSUME NEW i \in 1..(n + 1), i # a PROVE l[i] # Space
    <3>1. CASE i = n + 1
      BY <1>5, <3>1, CharFacts
    <3>2. CASE i # n + 1
      <4>1. i \in 1..n /\ i \in 1..(b - 1)
        BY <1>2, <3>2
      <4> QED BY <1>2, <1>5, <2>2, <4>1
    <3> QED BY <3>1, <3>2
  <2> QED BY <1>2, <1>5, <2>1, <2>2 DEF OneBlank
<1>7. PICK q, s : q = SubSeq(l, a + 1, Len(l)) /\ s = SubSeq(f, a + 1, b - 1)
  OBVIOUS
<1>8. PICK k \in Nat : k = n - a
  BY <1>2
<1>9. q \in Seq(Char) /\ Len(q) = k + 1 /\ \A i \in 1..(k + 1) : q[i] = l[a + i]
  <2>1. a \in 0..Len(l) /\ Len(l) - a = k + 1
    BY <1>2, <1>5, <1>8
  <2> QED BY <1>5, <1>7, <2>1, RestIs
<1>10. /\ s \in Seq(Char) /\ k <= Len(s) /\ 0 < k
       /\ \A i \in 1..k : s[i] = f[a + i]
  <2>1. /\ a + 1 \in 1..(Len(f) + 1) /\ b - 1 \in 0..Len(f) /\ a + 1 <= b - 1 + 1
    BY <1>2, <1>3
  <2>2. PICK d \in Nat : d = b - 1 - (a + 1) + 1 /\ k <= d /\ 0 < k
    BY <1>2, <1>8
  <2>3. s \in Seq(Char) /\ Len(s) = d /\ \A i \in 1..d : s[i] = f[a + 1 + i - 1]
    BY <1>2, <1>7, <2>1, <2>2, PieceIs
  <2>4. \A i \in 1..k : i \in 1..d /\ a + 1 + i - 1 = a + i
    BY <1>2, <2>2
  <2> QED BY <2>2, <2>3, <2>4
<1>11. CutStatus(q, s, k)
  <2>1. \A i \in 1..k : i \in 1..(k + 1) /\ a + i \in 1..n
    BY <1>2, <1>8
  <2>2. \A i \in 1..k : q[i] = s[i]
    BY <1>5, <1>9, <1>10, <2>1
  <2>3. k + 1 \in 1..(k + 1) /\ a + (k + 1) = n + 1
    BY <1>2, <1>8
  <2>4. q[k + 1] = NUL
    BY <1>5, <1>9, <2>3
  <2> QED BY <1>9, <1>10, <2>2, <2>4 DEF CutStatus
<1>12. s = SentField(m)
  BY <1>1, <1>7, TwoFields DEF FieldsAt, SentField
<1>13. Status(s) \/ s = <<>> \/ ~IsDigit(s[1])
  <2>1. m.first \in FirstLines
    BY DEF Message
  <2> QED BY <1>12, <2>1, StatusAssumption DEF Status, SentField
<1>14. stoi(q) = 200 => stoi(s) = 200
  BY <1>11, <1>13, CutStatusRead
<1>15. Len(split(l, Space, 3)) = 2 /\ split(l, Space, 3)[2] = q
  BY <1>6, <1>7, LastOfTwo
<1>16. StatusOf(split(l, Space, 3)) = stoi(q)
  BY <1>15 DEF StatusOf
<1> QED BY <1>12, <1>14, <1>16

(* The fields are those of the first line that has arrived.                *)
SInv ==
    pc \in {"headers", "done"} =>
        fields = split(LineOf(Raw(to_string(message), cut)), Space, 3)

LEMMA NextSInv == HInv /\ SInv /\ [Next]_vars => SInv'
<1> SUFFICES ASSUME HInv, SInv, [Next]_vars PROVE SInv'
  OBVIOUS
<1>1. CASE Arrive
  BY <1>1 DEF Arrive, SInv
<1>2. CASE ReadFirstLine
  <2>1. /\ UNCHANGED <<message, cut>> /\ rest = Raw(to_string(message), cut)
        /\ fields' = split(LineOf(rest), Space, 3)
    BY <1>2 DEF ReadFirstLine, HInv, Fed
  <2> QED BY <2>1 DEF SInv
<1>3. CASE ParseHeader
  BY <1>3 DEF ParseHeader, SInv
<1>4. CASE Stop
  BY <1>4 DEF Stop, SInv
<1>5. CASE UNCHANGED vars
  BY <1>5 DEF vars, SInv
<1> QED BY <1>1, <1>2, <1>3, <1>4, <1>5 DEF Next, Parse

LEMMA StatusOfMessage ==
    ASSUME NEW m \in Message, NEW n \in 0..Len(to_string(m)), NEW fs,
           fs = split(LineOf(Raw(to_string(m), n)), Space, 3)
    PROVE  /\ n = Len(to_string(m)) => StatusOf(fs) = stoi(SentField(m))
           /\ StatusOf(fs) = 200 =>
                 \/ stoi(SentField(m)) = 200
                 \/ n <= Len(split(m.first, Space, 3)[1]) + 1
<1>1. PICK x, y : TextAt(to_string(m), m, x, y)
  BY TextIs
<1>2. PICK t : t = to_string(m) /\ TextAt(t, m, x, y) /\ n \in 0..Len(t)
  BY <1>1
<1>3. /\ t \in Seq(Char) /\ x \in Nat /\ y \in Nat /\ Len(t) = x + y + 4
      /\ x = Len(m.first)
  BY <1>2 DEF TextAt
<1>4. PICK l : /\ l = LineOf(Raw(t, n)) /\ FirstLineRead(l, m.first, n)
               /\ fs = split(l, Space, 3)
  BY <1>2, FirstLineIs
<1>5. PICK a, b : Blanks(m.first, a, b)
  BY BlanksOf
<1>6. a \in Nat /\ b \in Nat /\ 0 < a /\ a < b /\ b <= x
  BY <1>3, <1>5 DEF Blanks
<1>7. n \in Nat
  BY <1>2, <1>3
<1>8. CASE b <= n
  <2>1. StatusOf(fs) = stoi(SentField(m))
    BY <1>4, <1>5, <1>7, <1>8, WholeStatus
  <2> QED BY <2>1
<1>9. CASE a < n /\ n < b
  <2>1. StatusOf(fs) = 200 => stoi(SentField(m)) = 200
    BY <1>4, <1>5, <1>7, <1>9, PartOfStatus
  <2>2. n # Len(t)
    <3>1. n < b /\ b <= x /\ Len(t) = x + y + 4
      BY <1>3, <1>6, <1>9
    <3> QED BY <1>3, <1>6, <1>7, <3>1
  <2> QED BY <1>2, <2>1, <2>2
<1>10. CASE n <= a
  <2>1. n # Len(t)
    <3>1. n <= a /\ a < b /\ b <= x /\ Len(t) = x + y + 4
      BY <1>3, <1>6, <1>10
    <3> QED BY <1>3, <1>6, <1>7, <3>1
  <2>2. PICK p : p = split(m.first, Space, 3)[1] /\ p = SubSeq(m.first, 1, a - 1)
    BY <1>5, TwoFields DEF FieldsAt
  <2>3. Len(p) = a - 1
    <3>1. /\ 1 \in 1..(Len(m.first) + 1) /\ a - 1 \in 0..Len(m.first)
          /\ 1 <= a - 1 + 1 /\ a - 1 - 1 + 1 = a - 1
      BY <1>3, <1>6
    <3>2. m.first \in Seq(Char)
      BY MessageTyped
    <3>3. Len(p) = a - 1 - 1 + 1
      BY <2>2, <3>1, <3>2, PieceIs
    <3> QED BY <3>1, <3>3
  <2>4. n <= Len(p) + 1
    BY <1>6, <1>10, <2>3
  <2> QED BY <1>2, <2>1, <2>2, <2>4
<1>11. b <= n \/ (a < n /\ n < b) \/ n <= a
  BY <1>6, <1>7
<1> QED BY <1>8, <1>9, <1>10, <1>11

(* Of a whole header the status arrives.  One that is cut off is read as   *)
(* the status 200, which another was not, only if the end comes before the *)
(* status: that is what login() of httpClient.cpp takes for success.       *)
THEOREM StatusAsSent == Spec => []StatusArrives
<1>1. HInv /\ SInv /\ [Next]_vars => HInv' /\ SInv'
  BY NextHInv, NextSInv
<1>2. HInv /\ SInv => StatusArrives
  <2> SUFFICES ASSUME HInv, SInv, pc = "done" PROVE StatusArrives
    BY DEF StatusArrives
  <2>1. PICK m, n : m = message /\ n = cut
    OBVIOUS
  <2>2. m \in Message /\ n \in 0..Len(to_string(m)) /\ Whole = Len(to_string(m))
    BY <2>1 DEF HInv, Arrived, Whole
  <2>3. fields = split(LineOf(Raw(to_string(m), n)), Space, 3)
    BY <2>1 DEF SInv
  <2>4. /\ n = Len(to_string(m)) => StatusOf(fields) = stoi(SentField(m))
        /\ StatusOf(fields) = 200 =>
              \/ stoi(SentField(m)) = 200
              \/ n <= Len(split(m.first, Space, 3)[1]) + 1
    BY <2>2, <2>3, StatusOfMessage
  <2>5. statusCode = StatusOf(fields)
    BY DEF statusCode, StatusField, StatusOf
  <2> QED BY <2>1, <2>2, <2>4, <2>5 DEF StatusArrives, SentField
<1>3. Init => SInv
  BY DEF Init, SInv
<1> QED BY <1>1, <1>2, <1>3, InitHInv, PTL DEF Spec

-----------------------------------------------------------------------------
(* The loop over the headers comes to an end: the last line of a whole     *)
(* header is blank.                                                        *)
Dying(u) ==
    /\ u \in Seq(Char)
    /\ \E k \in 1..Len(u) :
          /\ u[k] = CR /\ (k # 1 => u[k - 1] = LF)
          /\ \A j \in k..Len(u) : u[j] # LF

LEMMA DyingStays ==
    ASSUME NEW u, Dying(u)
    PROVE  IF Ends(u) = {} THEN ~IsHeader(LineOf(u)) ELSE Dying(After(u))
<1>1. PICK k \in 1..Len(u) :
          /\ u[k] = CR /\ (k # 1 => u[k - 1] = LF)
          /\ \A j \in k..Len(u) : u[j] # LF
  BY DEF Dying
<1>2. u \in Seq(Char) /\ Len(u) \in Nat /\ k \in Nat /\ k >= 1 /\ k <= Len(u)
  BY <1>1 DEF Dying
<1>3. CASE Ends(u) = {}
  <2>1. k = 1
    <3>1. SUFFICES ASSUME k # 1 PROVE FALSE
      OBVIOUS
    <3>2. k - 1 \in DOMAIN u
      BY <1>2, <3>1
    <3> QED BY <1>1, <1>3, <3>1, <3>2 DEF Ends
  <2> QED BY <1>1, <1>3, <2>1 DEF LineOf, IsHeader, Blank
<1>4. CASE Ends(u) # {}
  <2>1. PICK e \in 1..Len(u) : e = FirstEnd(u)
    BY <1>2, <1>4, FirstEndIs
  <2>2. u[e] = LF /\ CutAt(u, e)
    BY <1>2, <1>4, <2>1, FirstEndIs, GetLineCuts
  <2>3. e < k
    <3>1. e \notin k..Len(u)
      BY <1>1, <2>2
    <3> QED BY <1>2, <2>1, <3>1
  <2>4. PICK n \in Nat, i \in Nat : n = Len(u) - e /\ i = k - e /\ 1 <= i /\ i <= n
    BY <1>2, <2>1, <2>3
  <2>5. PICK a : a = After(u)
    OBVIOUS
  <2>6. a \in Seq(Char) /\ Len(a) = n /\ \A j \in 1..n : a[j] = u[e + j]
    BY <2>2, <2>4, <2>5 DEF CutAt
  <2>7. a[i] = CR
    <3>1. e + i = k
      BY <1>2, <2>1, <2>4
    <3> QED BY <1>1, <2>4, <2>6, <3>1
  <2>8. ASSUME i # 1 PROVE a[i - 1] = LF
    <3>1. i - 1 \in 1..n /\ e + (i - 1) = k - 1 /\ k # 1
      BY <1>2, <2>1, <2>4, <2>8
    <3> QED BY <1>1, <2>6, <3>1
  <2>9. ASSUME NEW j \in i..n PROVE a[j] # LF
    <3>1. j \in 1..n /\ e + j \in k..Len(u)
      BY <1>2, <2>1, <2>4
    <3> QED BY <1>1, <2>6, <3>1
  <2>10. Dying(a)
    <3>1. a \in Seq(Char) /\ Len(a) = n
      BY <2>6
    <3>2. i \in 1..Len(a)
      BY <2>4, <3>1
    <3>3. \A j \in i..Len(a) : a[j] # LF
      BY <2>9, <3>1, Zenon
    <3>4. a[i] = CR /\ (i # 1 => a[i - 1] = LF)
      BY <2>7, <2>8, Zenon
    <3> QED BY <3>1, <3>2, <3>3, <3>4, Zenon DEF Dying
  <2> QED BY <1>4, <2>5, <2>10
<1> QED BY <1>3, <1>4

(* A header of which the last line has begun has such a text behind its    *)
(* first line.                                                             *)
LEMMA WholeTextDies ==
    ASSUME NEW m \in Message, NEW t, NEW x, NEW y, TextAt(t, m, x, y),
           NEW n \in Nat, x + y + 3 <= n, n <= x + y + 4
    PROVE  Ends(Raw(t, n)) # {} /\ Dying(After(Raw(t, n)))
<1>1. /\ t \in Seq(Char) /\ x \in Nat /\ y \in Nat /\ Len(t) = x + y + 4
      /\ t[x + 1] = CR /\ t[x + 2] = LF
      /\ \A i \in 1..y : t[x + 2 + i] = Block(m)[i]
      /\ y = Len(Block(m)) /\ t[x + y + 3] = CR
  BY DEF TextAt
<1>2. PICK k \in Nat : k = x + y + 3
  BY <1>1
<1>3. PICK r : r = Raw(t, n)
  OBVIOUS
<1>4. /\ r \in Seq(Char) /\ \A i \in 1..k : r[i] = t[i]
      /\ Len(r) = k \/ (Len(r) = k + 1 /\ r[k + 1] = NUL)
  <2>1. Len(t) > 0 /\ n \in 0..Len(t) /\ Len(t) = k + 1
    BY <1>1, <1>2
  <2>2. /\ r \in Seq(Char)
        /\ Len(r) = IF n = Len(t) THEN n - 1 ELSE n + 1
        /\ \A i \in 1..n : n # Len(t) => r[i] = t[i]
        /\ \A i \in 1..(n - 1) : n = Len(t) => r[i] = t[i]
        /\ n # Len(t) => r[n + 1] = NUL
    BY <1>1, <1>3, <2>1, RawIs
  <2>3. CASE n = Len(t)
    <3>1. n - 1 = k
      BY <2>1, <2>3
    <3> QED BY <2>2, <2>3, <3>1
  <2>4. CASE n # Len(t)
    <3>1. n = k
      BY <1>1, <1>2, <2>1, <2>4
    <3> QED BY <2>2, <2>4, <3>1
  <2> QED BY <2>3, <2>4
<1>5. r[k] = CR /\ k \in 1..Len(r) /\ x + 2 \in 1..Len(r) /\ r[x + 2] = LF
  <2>1. k \in 1..k /\ x + 2 \in 1..k
    BY <1>1, <1>2
  <2>2. k \in 1..Len(r) /\ x + 2 \in 1..Len(r)
    BY <1>1, <1>2, <1>4
  <2> QED BY <1>1, <1>2, <1>4, <2>1, <2>2
<1>6. r[k - 1] = LF
  <2>1. CASE y = 0
    <3>1. k - 1 = x + 2
      BY <1>1, <1>2, <2>1
    <3> QED BY <1>5, <3>1
  <2>2. CASE y # 0
    <3>1. y \in 1..y /\ k - 1 \in 1..k /\ k - 1 = x + 2 + y
      BY <1>1, <1>2, <2>2
    <3>2. Block(m)[y] = LF
      BY <1>1, <2>2, BlockIs DEF Framed
    <3> QED BY <1>1, <1>4, <3>1, <3>2
  <2> QED BY <2>1, <2>2
<1>7. ASSUME NEW j \in k..Len(r) PROVE r[j] # LF
  <2>1. j = k \/ (j = k + 1 /\ Len(r) = k + 1)
    BY <1>2, <1>4
  <2> QED BY <1>4, <1>5, <2>1, CharFacts
<1>8. Dying(r)
  BY <1>4, <1>5, <1>6, <1>7 DEF Dying
<1>9. Ends(r) # {}
  <2>1. x + 2 \in DOMAIN r
    BY <1>4, <1>5
  <2> QED BY <1>5, <2>1 DEF Ends
<1> QED BY <1>3, <1>8, <1>9, DyingStays

(* A first line that is cut off is all that there is.                      *)
LEMMA CutFirstLine ==
    ASSUME NEW m \in Message, NEW t, NEW x, NEW y, TextAt(t, m, x, y),
           NEW n \in Nat, n < x + 2
    PROVE  Ends(Raw(t, n)) = {}
<1>1. /\ t \in Seq(Char) /\ x \in Nat /\ y \in Nat /\ Len(t) = x + y + 4
      /\ (\A i \in 1..x : t[i] # LF) /\ t[x + 1] = CR
  BY DEF TextAt
<1>2. PICK r : r = Raw(t, n)
  OBVIOUS
<1>3. /\ r \in Seq(Char) /\ Len(r) = n + 1 /\ r[n + 1] = NUL
      /\ \A i \in 1..n : r[i] = t[i]
  <2>1. Len(t) > 0 /\ n \in 0..Len(t) /\ n # Len(t)
    BY <1>1
  <2> QED BY <1>1, <1>2, <2>1, RawIs
<1>4. ASSUME NEW i \in DOMAIN r PROVE r[i] # LF
  <2>1. i \in 1..(n + 1)
    BY <1>3
  <2>2. i = n + 1 \/ (i \in 1..n /\ (i \in 1..x \/ i = x + 1))
    BY <1>1, <2>1
  <2> QED BY <1>1, <1>3, <2>2, CharFacts
<1> QED BY <1>2, <1>4 DEF Ends

(* As long as a read succeeds the blank line is still to come; when none   *)
(* has succeeded the line at hand is no header.                            *)
Leaving == IF good THEN Dying(rest) ELSE ~IsHeader(line)

KInv == pc = "headers" /\ ~CutInHeaders => Leaving

LEMMA DyingGetLine ==
    ASSUME NEW text, NEW isGood \in BOOLEAN, NEW old, GetLine(text, isGood, old),
           IF isGood THEN Dying(text) ELSE ~IsHeader(old)
    PROVE  Leaving'
<1>1. CASE isGood
  <2>1. line' = LineOf(text) /\ rest' = After(text) /\ good' = (Ends(text) # {})
    BY <1>1 DEF GetLine
  <2>2. IF Ends(text) = {} THEN ~IsHeader(LineOf(text)) ELSE Dying(After(text))
    BY <1>1, DyingStays
  <2>3. IF good' THEN Dying(rest') ELSE ~IsHeader(line')
    BY <2>1, <2>2
  <2> QED BY <2>3 DEF Leaving, Dying, IsHeader
<1>2. CASE ~isGood
  <2>1. line' = old /\ ~good'
    BY <1>2 DEF GetLine, Unread
  <2> QED BY <1>2, <2>1 DEF Leaving, IsHeader
<1> QED BY <1>1, <1>2

LEMMA ReadFirstLineKInv == ASSUME HInv, ReadFirstLine PROVE KInv'
<1>1. /\ pc = "first" /\ UNCHANGED <<message, cut>> /\ Arrived
      /\ rest = Raw(to_string(message), cut)
      /\ GetLine(After(rest), Ends(rest) # {}, <<>>)
  BY DEF ReadFirstLine, HInv, Fed
<1>2. PICK m, t, n : m = message /\ t = to_string(m) /\ n = cut
  OBVIOUS
<1>3. m \in Message /\ n \in 0..Len(t) /\ rest = Raw(t, n)
  BY <1>1, <1>2 DEF Arrived, Whole
<1>4. PICK x, y : TextAt(t, m, x, y)
  BY <1>2, <1>3, TextIs
<1>5. x \in Nat /\ y \in Nat /\ Len(m.first) = x /\ Len(t) = x + y + 4
  BY <1>4 DEF TextAt
<1>6. SUFFICES ASSUME ~CutInHeaders PROVE Leaving'
  BY <1>1 DEF KInv, CutInHeaders, Whole
<1>7. ~(x + 2 <= n /\ n <= x + y + 4 - 2)
  BY <1>2, <1>5, <1>6 DEF CutInHeaders, Whole
<1>8. CASE n < x + 2
  <2>1. Ends(rest) = {}
    BY <1>3, <1>4, <1>8, CutFirstLine
  <2>2. GetLine(After(rest), FALSE, <<>>) /\ ~IsHeader(<<>>)
    BY <1>1, <2>1 DEF IsHeader
  <2> QED BY <2>2, DyingGetLine
<1>9. CASE x + y + 3 <= n
  <2>1. Ends(rest) # {} /\ Dying(After(rest))
    BY <1>3, <1>4, <1>5, <1>9, WholeTextDies
  <2>2. GetLine(After(rest), TRUE, <<>>)
    BY <1>1, <2>1
  <2> QED BY <2>1, <2>2, DyingGetLine
<1> QED BY <1>3, <1>5, <1>7, <1>8, <1>9

LEMMA ParseHeaderKInv == ASSUME HInv, KInv, ParseHeader PROVE KInv'
<1>1. /\ pc = "headers" /\ IsHeader(line) /\ GetLine(rest, good, line)
      /\ UNCHANGED <<message, cut>> /\ good \in BOOLEAN
  BY DEF ParseHeader, HInv, TypeOK
<1>2. SUFFICES ASSUME ~CutInHeaders PROVE Leaving'
  BY <1>1 DEF KInv, CutInHeaders, Whole
<1>3. PICK l, r, g : l = line /\ r = rest /\ g = good
  OBVIOUS
<1>4. g \in BOOLEAN /\ GetLine(r, g, l) /\ IF g THEN Dying(r) ELSE ~IsHeader(l)
  BY <1>1, <1>2, <1>3 DEF KInv, Leaving
<1> QED BY <1>4, DyingGetLine

LEMMA NextKInv == HInv /\ KInv /\ [Next]_vars => KInv'
<1> SUFFICES ASSUME HInv, KInv, [Next]_vars PROVE KInv'
  OBVIOUS
<1>1. CASE Arrive
  BY <1>1 DEF Arrive, KInv
<1>2. CASE Stop
  BY <1>2 DEF Stop, KInv
<1>3. CASE UNCHANGED vars
  BY <1>3 DEF vars, KInv, Leaving, CutInHeaders, Whole, IsHeader, Dying
<1> QED BY <1>1, <1>2, <1>3, ReadFirstLineKInv, ParseHeaderKInv DEF Next, Parse

(* As long as the loop over the headers goes on there is something to      *)
(* read, unless the header is cut off behind its first line.               *)
THEOREM LoopRunsDown == Spec => []EveryPassReads
<1>1. HInv /\ [Next]_vars => HInv'
  BY NextHInv
<1>2. HInv /\ KInv /\ [Next]_vars => KInv'
  BY NextKInv
<1>3. Init => KInv
  BY DEF Init, KInv
<1>4. KInv => EveryPassReads
  BY DEF KInv, Leaving, Dying, EveryPassReads
<1> QED BY <1>1, <1>2, <1>3, <1>4, InitHInv, PTL DEF Spec

LEMMA PassReads ==
    ASSUME HInv, KInv, ParseHeader, ~CutInHeaders
    PROVE  Len(rest') < Len(rest)
<1>1. PICK r : r = rest
  OBVIOUS
<1>2. good /\ Dying(r) /\ rest' = After(r)
  BY <1>1 DEF ParseHeader, KInv, Leaving, GetLine
<1>3. r \in Seq(Char) /\ Len(r) \in Nat /\ Len(r) > 0
  BY <1>2 DEF Dying
<1>4. CASE Ends(r) = {}
  BY <1>1, <1>2, <1>3, <1>4 DEF After
<1>5. CASE Ends(r) # {}
  <2>1. PICK e \in 1..Len(r) : e = FirstEnd(r)
    BY <1>3, <1>5, FirstEndIs
  <2>2. Len(After(r)) = Len(r) - e
    BY <1>3, <1>5, <2>1, GetLineCuts DEF CutAt
  <2> QED BY <1>1, <1>2, <1>3, <2>1, <2>2
<1> QED BY <1>4, <1>5

(* Every pass takes something off the stream: what is left of the text     *)
(* bounds the passes that init_from_raw_http_header() still makes.         *)
THEOREM PassesAreBounded ==
    Spec => [][ParseHeader /\ ~CutInHeaders => Len(rest') < Len(rest)]_vars
<1>1. HInv /\ [Next]_vars => HInv'
  BY NextHInv
<1>2. HInv /\ KInv /\ [Next]_vars => KInv'
  BY NextKInv
<1>3. Init => KInv
  BY DEF Init, KInv
<1>4. HInv /\ KInv /\ [Next]_vars
        => [ParseHeader /\ ~CutInHeaders => Len(rest') < Len(rest)]_vars
  BY PassReads
<1> QED BY <1>1, <1>2, <1>3, <1>4, InitHInv, PTL DEF Spec

-----------------------------------------------------------------------------
(* base64_encode() one character after the other.                          *)
Sextets == 0..63

State == [val : Nat, valb : {-6, -4, -2}, out : Seq(Sextets)]

Taken(s, c) == Emit(Emit(Shift(s, c)))

Begun == [val |-> 0, valb |-> -6, out |-> <<>>]

LEMMA PowersOfTwo ==
    TwoTo(0) = 1 /\ TwoTo(1) = 2 /\ TwoTo(2) = 4 /\ TwoTo(3) = 8
    /\ TwoTo(4) = 16 /\ TwoTo(5) = 32 /\ TwoTo(6) = 64 /\ TwoTo(7) = 128
BY DEF TwoTo

LEMMA SextetIs ==
    ASSUME NEW val \in Nat
    PROVE  /\ Sextet(val, -4) = (val * 16) % 64
           /\ Sextet(val, -2) = (val * 4) % 64
           /\ Sextet(val, 0) = val % 64
           /\ Sextet(val, 2) = (val \div 4) % 64
           /\ Sextet(val, 4) = (val \div 16) % 64
           /\ Sextet(val, 6) = (val \div 64) % 64
<1>1. Sextet(val, -4) = (val * 16) % 64
  BY PowersOfTwo, SMT DEF Sextet
<1>2. Sextet(val, -2) = (val * 4) % 64
  BY PowersOfTwo, SMT DEF Sextet
<1>3. Sextet(val, 0) = val % 64
  BY PowersOfTwo, SMT DEF Sextet
<1>4. Sextet(val, 2) = (val \div 4) % 64
  BY PowersOfTwo, SMT DEF Sextet
<1>5. Sextet(val, 4) = (val \div 16) % 64
  BY PowersOfTwo, SMT DEF Sextet
<1>6. Sextet(val, 6) = (val \div 64) % 64
  BY PowersOfTwo, SMT DEF Sextet
<1> QED BY <1>1, <1>2, <1>3, <1>4, <1>5, <1>6, Zenon

LEMMA SextetsHere ==
    /\ \A n \in Nat : n % 64 \in Sextets
    /\ \A n \in Nat : (n \div 4) % 64 \in Sextets
    /\ \A n \in Nat : (n \div 16) % 64 \in Sextets
    /\ \A n \in Nat : (n \div 64) % 64 \in Sextets
<1>1. \A n \in Nat : n % 64 \in Sextets
  BY SMT DEF Sextets
<1>2. \A n \in Nat : (n \div 4) % 64 \in Sextets
  BY SMT DEF Sextets
<1>3. \A n \in Nat : (n \div 16) % 64 \in Sextets
  BY SMT DEF Sextets
<1>4. \A n \in Nat : (n \div 64) % 64 \in Sextets
  BY SMT DEF Sextets
<1> QED BY <1>1, <1>2, <1>3, <1>4

LEMMA LastSextets ==
    ASSUME NEW val \in Nat
    PROVE  Sextet(val, -4) \in Sextets /\ Sextet(val, -2) \in Sextets
<1>1. PICK m, n : m = val * 16 /\ n = val * 4
  OBVIOUS
<1>2. m \in Nat /\ n \in Nat
  BY <1>1, SMT
<1>3. Sextet(val, -4) = m % 64 /\ Sextet(val, -2) = n % 64
  BY <1>1, SextetIs, Zenon
<1> QED BY <1>2, <1>3, SextetsHere, Zenon

(* What one character adds: one sextet, or two after every third one.      *)
Pushes(s, v, t) ==
    /\ v \in Nat
    /\ s.valb = -6 =>
          t = [val |-> v, valb |-> -4, out |-> Append(s.out, (v \div 4) % 64)]
    /\ s.valb = -4 =>
          t = [val |-> v, valb |-> -2, out |-> Append(s.out, (v \div 16) % 64)]
    /\ s.valb = -2 =>
          t = [val |-> v, valb |-> -6,
               out |-> Append(Append(s.out, (v \div 64) % 64), v % 64)]

LEMMA TakenIs ==
    ASSUME NEW s \in State, NEW c \in Char,
           NEW v, v = (s.val * 256 + Code[c]) % ValRange
    PROVE  Taken(s, c) \in State /\ Pushes(s, v, Taken(s, c))
<1>1. v \in Nat /\ s.val \in Nat /\ s.out \in Seq(Sextets)
  <2>1. Code[c] \in -128..127 /\ s.val \in Nat
    BY HeaderAssumption DEF State
  <2>2. s.val * 256 + Code[c] \in Int
    BY <2>1
  <2>3. \A i \in Int : i % ValRange \in Nat
    BY SMT DEF ValRange
  <2> QED BY <2>1, <2>2, <2>3 DEF State
<1>2. Shift(s, c) = [val |-> v, valb |-> s.valb + 8, out |-> s.out]
  BY DEF Shift, State
<1>3. ASSUME NEW b \in {-6, -4, -2}, NEW o
      PROVE  Emit([val |-> v, valb |-> b, out |-> o])
                = [val |-> v, valb |-> b, out |-> o]
  BY DEF Emit
<1>4. CASE s.valb = -6
  <2>1. PICK x : x = (v \div 4) % 64
    OBVIOUS
  <2>2. x \in Sextets
    BY <1>1, <2>1, SextetsHere, Zenon
  <2>3. PICK a : a = Append(s.out, x)
    OBVIOUS
  <2>4. a \in Seq(Sextets)
    BY <1>1, <2>2, <2>3
  <2>5. Shift(s, c) = [val |-> v, valb |-> 2, out |-> s.out]
    BY <1>2, <1>4
  <2>6. Emit(Shift(s, c)) = [val |-> v, valb |-> -4, out |-> a]
    <3>1. x = Sextet(v, 2)
      BY <1>1, <2>1, SextetIs
    <3>2. ~(2 < 0) /\ 2 - 6 = -4
      OBVIOUS
    <3> QED BY <2>3, <2>5, <3>1, <3>2 DEF Emit
  <2>7. Taken(s, c) = [val |-> v, valb |-> -4, out |-> a]
    BY <1>3, <2>6 DEF Taken
  <2>8. Taken(s, c) \in State
    BY <1>1, <2>4, <2>7 DEF State
  <2>9. s.valb # -4 /\ s.valb # -2
    BY <1>4
  <2>10. Pushes(s, v, Taken(s, c))
    BY <1>1, <2>1, <2>3, <2>7, <2>9, Zenon DEF Pushes
  <2> QED BY <2>8, <2>10
<1>5. CASE s.valb = -4
  <2>1. PICK x : x = (v \div 16) % 64
    OBVIOUS
  <2>2. x \in Sextets
    BY <1>1, <2>1, SextetsHere, Zenon
  <2>3. PICK a : a = Append(s.out, x)
    OBVIOUS
  <2>4. a \in Seq(Sextets)
    BY <1>1, <2>2, <2>3
  <2>5. Shift(s, c) = [val |-> v, valb |-> 4, out |-> s.out]
    BY <1>2, <1>5
  <2>6. Emit(Shift(s, c)) = [val |-> v, valb |-> -2, out |-> a]
    <3>1. x = Sextet(v, 4)
      BY <1>1, <2>1, SextetIs
    <3>2. ~(4 < 0) /\ 4 - 6 = -2
      OBVIOUS
    <3> QED BY <2>3, <2>5, <3>1, <3>2 DEF Emit
  <2>7. Taken(s, c) = [val |-> v, valb |-> -2, out |-> a]
    BY <1>3, <2>6 DEF Taken
  <2>8. Taken(s, c) \in State
    BY <1>1, <2>4, <2>7 DEF State
  <2>9. s.valb # -6 /\ s.valb # -2
    BY <1>5
  <2>10. Pushes(s, v, Taken(s, c))
    BY <1>1, <2>1, <2>3, <2>7, <2>9, Zenon DEF Pushes
  <2> QED BY <2>8, <2>10
<1>6. CASE s.valb = -2
  <2>1. PICK x, y : x = (v \div 64) % 64 /\ y = v % 64
    OBVIOUS
  <2>2. x \in Sextets /\ y \in Sextets
    <3>1. x \in Sextets
      BY <1>1, <2>1, SextetsHere, Zenon
    <3>2. y \in Sextets
      BY <1>1, <2>1, SextetsHere, Zenon
    <3> QED BY <3>1, <3>2
  <2>3. PICK a : a = Append(s.out, x)
    OBVIOUS
  <2>4. PICK d : d = Append(a, y)
    OBVIOUS
  <2>5. d \in Seq(Sextets)
    <3>1. a \in Seq(Sextets)
      BY <1>1, <2>2, <2>3
    <3> QED BY <2>2, <2>4, <3>1
  <2>6. Shift(s, c) = [val |-> v, valb |-> 6, out |-> s.out]
    BY <1>2, <1>6
  <2>7. Emit(Shift(s, c)) = [val |-> v, valb |-> 0, out |-> a]
    <3>1. x = Sextet(v, 6)
      BY <1>1, <2>1, SextetIs
    <3>2. ~(6 < 0) /\ 6 - 6 = 0
      OBVIOUS
    <3> QED BY <2>3, <2>6, <3>1, <3>2 DEF Emit
  <2>8. Taken(s, c) = [val |-> v, valb |-> -6, out |-> d]
    <3>1. y = Sextet(v, 0)
      BY <1>1, <2>1, SextetIs
    <3>2. ~(0 < 0) /\ 0 - 6 = -6
      OBVIOUS
    <3>3. Emit([val |-> v, valb |-> 0, out |-> a]) = [val |-> v, valb |-> -6, out |-> d]
      BY <2>4, <3>1, <3>2 DEF Emit
    <3> QED BY <2>7, <3>3, Zenon DEF Taken
  <2>9. Taken(s, c) \in State
    BY <1>1, <2>5, <2>8 DEF State
  <2>10. s.valb # -6 /\ s.valb # -4
    BY <1>6
  <2>11. Pushes(s, v, Taken(s, c))
    BY <1>1, <2>1, <2>3, <2>4, <2>8, <2>10, Zenon DEF Pushes
  <2> QED BY <2>9, <2>11
<1>7. s.valb \in {-6, -4, -2}
  BY DEF State
<1> QED BY <1>4, <1>5, <1>6, <1>7, Zenon

(* The states of the loop.                                                 *)
Encodes(f, text) ==
    /\ f \in [0..Len(text) -> State] /\ f[0] = Begun
    /\ \A n \in 1..Len(text) : f[n] = Taken(f[n - 1], text[n])

LEMMA EncodedIs ==
    ASSUME NEW text \in Seq(Char)
    PROVE  \E f : Encodes(f, text) /\ Encoded(text) = f[Len(text)]
<1> DEFINE Good(f, m) == f = [n \in 0..m |->
                            IF n = 0 THEN [val |-> 0, valb |-> -6, out |-> <<>>]
                            ELSE Emit(Emit(Shift(f[n - 1], text[n])))]
           step == [x \in State \X Nat |->
                       IF x[2] \in 1..Len(text) THEN Taken(x[1], text[x[2]])
                       ELSE x[1]]
<1>1. Len(text) \in Nat /\ Begun \in State
  BY DEF Begun, State
<1>2. step \in [State \X Nat -> State]
  <2>1. ASSUME NEW x \in State \X Nat, x[2] \in 1..Len(text)
        PROVE  Taken(x[1], text[x[2]]) \in State
    <3>1. x[1] \in State /\ text[x[2]] \in Char
      BY <2>1
    <3> QED BY <3>1, TakenIs, Zenon
  <2> QED BY <2>1
<1>3. PICK f : Solves(f, State, Begun, step, Len(text))
  <2> HIDE DEF step
  <2> QED BY <1>1, <1>2, Recursion
<1>4. f \in [0..Len(text) -> State] /\ f[0] = Begun
  BY <1>3 DEF Solves
<1>5. ASSUME NEW n \in 1..Len(text) PROVE f[n] = Taken(f[n - 1], text[n])
  <2>1. f[n - 1] \in State /\ n \in Nat
    BY <1>1, <1>4
  <2>2. f[n] = step[<<f[n - 1], n>>]
    BY <1>3, Zenon DEF Solves
  <2> HIDE DEF Solves
  <2> QED BY <2>1, <2>2
<1> HIDE DEF step
<1>6. Good(f, Len(text))
  <2> DEFINE h == [n \in 0..Len(text) |->
                      IF n = 0 THEN [val |-> 0, valb |-> -6, out |-> <<>>]
                      ELSE Emit(Emit(Shift(f[n - 1], text[n])))]
  <2>1. ASSUME NEW n \in 0..Len(text) PROVE h[n] = f[n]
    <3>1. CASE n = 0
      BY <1>4, <3>1 DEF Begun
    <3>2. CASE n # 0
      <4>1. n \in 1..Len(text)
        BY <1>1, <3>2
      <4> QED BY <1>5, <3>2, <4>1 DEF Taken
    <3> QED BY <3>1, <3>2
  <2>2. h = [n \in 0..Len(text) |-> h[n]] /\ f = [n \in 0..Len(text) |-> f[n]]
    BY <1>4
  <2>3. h = f
    <3> HIDE DEF h
    <3> QED BY <2>1, <2>2
  <2> QED BY <2>3
<1>7. ASSUME NEW g, Good(g, Len(text)) PROVE g = f
  <2> DEFINE I == {n \in Nat : n \in 0..Len(text) => g[n] = f[n]}
  <2>1. ASSUME NEW k \in 0..Len(text)
        PROVE  g[k] = IF k = 0 THEN Begun ELSE Taken(g[k - 1], text[k])
    BY <1>7 DEF Begun, Taken
  <2>2. 0 \in I
    BY <1>1, <1>4, <2>1
  <2>3. ASSUME NEW n \in Nat, n \in I PROVE n + 1 \in I
    <3>1. CASE n + 1 \in 0..Len(text)
      <4>1. n \in 0..Len(text) /\ n + 1 \in 1..Len(text) /\ n + 1 - 1 = n
            /\ n + 1 # 0
        BY <1>1, <3>1
      <4>2. g[n] = f[n]
        BY <2>3, <4>1
      <4>3. g[n + 1] = Taken(g[n + 1 - 1], text[n + 1])
        BY <2>1, <3>1, <4>1
      <4>4. f[n + 1] = Taken(f[n + 1 - 1], text[n + 1])
        BY <1>5, <4>1
      <4> QED BY <4>1, <4>2, <4>3, <4>4
    <3> QED BY <3>1
  <2>4. Nat \subseteq I
    <3> HIDE DEF I
    <3> QED BY <2>2, <2>3, NatInductionOnSet
  <2>5. \A n \in 0..Len(text) : g[n] = f[n]
    BY <1>1, <2>4
  <2>6. g = [n \in 0..Len(text) |-> g[n]] /\ f = [n \in 0..Len(text) |-> f[n]]
    BY <1>4, <1>7
  <2> QED
    <3> HIDE DEF I, Good
    <3> QED BY <2>5, <2>6
<1> DEFINE F == CHOOSE g : Good(g, Len(text))
<1>8. Good(F, Len(text))
  <2> HIDE DEF Good
  <2> QED BY <1>6, Zenon
<1>9. Encoded(text) = F[Len(text)]
  BY Zenon DEF Encoded
<1>10. F = f
  <2> HIDE DEF F, Good
  <2> QED BY <1>7, <1>8
<1>11. Encodes(f, text)
  BY <1>4, <1>5 DEF Encodes
<1> QED BY <1>9, <1>10, <1>11, Zenon

(* The bits of a byte, put together and taken apart.                       *)
Byte7 == 0..127

LEMMA Halves ==
    ASSUME NEW c \in Byte7
    PROVE  /\ c \div 128 = 0
           /\ c \div 64 = 2 * (c \div 128) + ((c \div 64) % 2)
           /\ c \div 32 = 2 * (c \div 64) + ((c \div 32) % 2)
           /\ c \div 16 = 2 * (c \div 32) + ((c \div 16) % 2)
           /\ c \div 8 = 2 * (c \div 16) + ((c \div 8) % 2)
           /\ c \div 4 = 2 * (c \div 8) + ((c \div 4) % 2)
           /\ c \div 2 = 2 * (c \div 4) + ((c \div 2) % 2)
           /\ c = 2 * (c \div 2) + (c % 2)
<1> USE DEF Byte7
<1>1. c \div 128 = 0
  BY SMT
<1>2. c \div 64 = 2 * (c \div 128) + ((c \div 64) % 2)
  BY SMT
<1>3. c \div 32 = 2 * (c \div 64) + ((c \div 32) % 2)
  BY SMT
<1>4. c \div 16 = 2 * (c \div 32) + ((c \div 16) % 2)
  BY SMT
<1>5. c \div 8 = 2 * (c \div 16) + ((c \div 8) % 2)
  BY SMT
<1>6. c \div 4 = 2 * (c \div 8) + ((c \div 4) % 2)
  BY SMT
<1>7. c \div 2 = 2 * (c \div 4) + ((c \div 2) % 2)
  BY SMT
<1>8. c = 2 * (c \div 2) + (c % 2)
  BY SMT
<1> QED BY <1>1, <1>2, <1>3, <1>4, <1>5, <1>6, <1>7, <1>8, Zenon

LEMMA BitsOfByte ==
    ASSUME NEW c \in Byte7
    PROVE  /\ c \div 4 = 32 * ((c \div 128) % 2) + 16 * ((c \div 64) % 2)
                         + 8 * ((c \div 32) % 2) + 4 * ((c \div 16) % 2)
                         + 2 * ((c \div 8) % 2) + ((c \div 4) % 2)
           /\ (c % 4) * 16 = 32 * ((c \div 2) % 2) + 16 * (c % 2)
           /\ c \div 16 = 8 * ((c \div 128) % 2) + 4 * ((c \div 64) % 2)
                          + 2 * ((c \div 32) % 2) + ((c \div 16) % 2)
           /\ (c % 16) * 4 = 32 * ((c \div 8) % 2) + 16 * ((c \div 4) % 2)
                             + 8 * ((c \div 2) % 2) + 4 * (c % 2)
           /\ c \div 64 = 2 * ((c \div 128) % 2) + ((c \div 64) % 2)
           /\ c % 64 = 32 * ((c \div 32) % 2) + 16 * ((c \div 16) % 2)
                       + 8 * ((c \div 8) % 2) + 4 * ((c \div 4) % 2)
                       + 2 * ((c \div 2) % 2) + (c % 2)
<1>1. c \div 4 = 32 * ((c \div 128) % 2) + 16 * ((c \div 64) % 2)
                 + 8 * ((c \div 32) % 2) + 4 * ((c \div 16) % 2)
                 + 2 * ((c \div 8) % 2) + ((c \div 4) % 2)
  BY Halves, SMT DEF Byte7
<1>2. (c % 4) * 16 = 32 * ((c \div 2) % 2) + 16 * (c % 2)
  BY SMT DEF Byte7
<1>3. c \div 16 = 8 * ((c \div 128) % 2) + 4 * ((c \div 64) % 2)
                  + 2 * ((c \div 32) % 2) + ((c \div 16) % 2)
  BY Halves, SMT DEF Byte7
<1>4. (c % 16) * 4 = 32 * ((c \div 8) % 2) + 16 * ((c \div 4) % 2)
                     + 8 * ((c \div 2) % 2) + 4 * (c % 2)
  BY Halves, SMT DEF Byte7
<1>5. c \div 64 = 2 * ((c \div 128) % 2) + ((c \div 64) % 2)
  BY SMT DEF Byte7
<1>6. c % 64 = 32 * ((c \div 32) % 2) + 16 * ((c \div 16) % 2)
               + 8 * ((c \div 8) % 2) + 4 * ((c \div 4) % 2)
               + 2 * ((c \div 2) % 2) + (c % 2)
  BY Halves, SMT DEF Byte7
<1> QED BY <1>1, <1>2, <1>3, <1>4, <1>5, <1>6, Zenon

(* What the loop pushes, of two bytes a and c that follow each other.      *)
LEMMA Shifted ==
    ASSUME NEW a \in Byte7, NEW c \in Byte7, NEW v, v = 256 * a + c
    PROVE  /\ (v \div 4) % 64 = c \div 4
           /\ (v \div 16) % 64 = (a % 4) * 16 + c \div 16
           /\ (v \div 64) % 64 = (a % 16) * 4 + c \div 64
           /\ v % 64 = c % 64
           /\ (v * 16) % 64 = (c % 4) * 16
           /\ (v * 4) % 64 = (c % 16) * 4
<1> USE DEF Byte7
<1>1. (v \div 4) % 64 = c \div 4
  BY SMT
<1>2. (v \div 16) % 64 = (a % 4) * 16 + c \div 16
  BY SMT
<1>3. (v \div 64) % 64 = (a % 16) * 4 + c \div 64
  BY SMT
<1>4. v % 64 = c % 64
  BY SMT
<1>5. (v * 16) % 64 = (c % 4) * 16
  BY SMT
<1>6. (v * 4) % 64 = (c % 16) * 4
  BY SMT
<1> QED BY <1>1, <1>2, <1>3, <1>4, <1>5, <1>6, Zenon

LEMMA Forgotten ==
    ASSUME NEW z \in Byte7, NEW a \in Byte7, NEW c \in Byte7
    PROVE  ((256 * z + a) * 256 + c) % ValRange = 256 * a + c
BY SMT DEF Byte7, ValRange

(* The codes of a text, and what stands behind it.                         *)
CodeAt(text, j) == IF j \in 1..Len(text) THEN Code[text[j]] ELSE 0

PlainText(text) == \A j \in DOMAIN text : Code[text[j]] >= 0

LEMMA CodeTyped ==
    ASSUME NEW text \in Seq(Char), NEW j \in Int
    PROVE  /\ CodeAt(text, j) \in -128..127
           /\ PlainText(text) => CodeAt(text, j) \in Byte7
<1>1. CASE j \in 1..Len(text)
  <2>1. text[j] \in Char
    BY <1>1
  <2>2. Code[text[j]] \in -128..127
    BY <2>1, HeaderAssumption
  <2>3. CodeAt(text, j) = Code[text[j]]
    BY <1>1, Zenon DEF CodeAt
  <2>4. PlainText(text) => Code[text[j]] >= 0
    <3>1. j \in DOMAIN text
      BY <1>1
    <3> QED BY <3>1, Zenon DEF PlainText
  <2>5. \A n \in -128..127 : n >= 0 => n \in Byte7
    BY SMT DEF Byte7
  <2> QED BY <2>2, <2>3, <2>4, <2>5, Zenon
<1>2. CASE j \notin 1..Len(text)
  <2>1. CodeAt(text, j) = 0
    BY <1>2, Zenon DEF CodeAt
  <2> QED BY <2>1 DEF Byte7
<1> QED BY <1>1, <1>2

(* The eight bits from e on are those of c.                                *)
BitsOf(text, e, c) ==
    /\ Bit(text, e) = (c \div 128) % 2
    /\ Bit(text, e + 1) = (c \div 64) % 2
    /\ Bit(text, e + 2) = (c \div 32) % 2
    /\ Bit(text, e + 3) = (c \div 16) % 2
    /\ Bit(text, e + 4) = (c \div 8) % 2
    /\ Bit(text, e + 5) = (c \div 4) % 2
    /\ Bit(text, e + 6) = (c \div 2) % 2
    /\ Bit(text, e + 7) = c % 2

LEMMA BitIs ==
    ASSUME NEW text \in Seq(Char), NEW q \in Nat
    PROVE  BitsOf(text, 8 * q, CodeAt(text, q + 1))
<1> DEFINE c == CodeAt(text, q + 1)
<1>1. c \in Int /\ Len(text) \in Nat
  <2>1. q + 1 \in Int
    OBVIOUS
  <2>2. CodeAt(text, q + 1) \in -128..127
    BY <2>1, CodeTyped, Zenon
  <2>3. \A n \in -128..127 : n \in Int
    BY SMT
  <2>4. Len(text) \in Nat
    OBVIOUS
  <2> QED BY <2>2, <2>3, <2>4, Zenon
<1>2. ASSUME NEW b \in Nat, b \div 8 = q, NEW d \in Nat \ {0},
             TwoTo(7 - (b % 8)) = d
      PROVE  Bit(text, b) = (c \div d) % 2
  <2>1. CASE q >= Len(text)
    <3>1. c = 0
      BY <1>1, <2>1 DEF CodeAt
    <3>2. (0 \div d) % 2 = 0
      BY <1>2, SMT
    <3>3. Bit(text, b) = 0
      BY <1>2, <2>1, Zenon DEF Bit
    <3> HIDE DEF c
    <3> QED BY <3>1, <3>2, <3>3, Zenon
  <2>2. CASE ~(q >= Len(text))
    <3>1. c = Code[text[q + 1]]
      BY <1>1, <2>2 DEF CodeAt
    <3>2. Bit(text, b) = (Code[text[q + 1]] \div d) % 2
      BY <1>2, <2>2, Zenon DEF Bit
    <3> HIDE DEF c
    <3> QED BY <3>1, <3>2, Zenon
  <2> QED BY <2>1, <2>2
<1> HIDE DEF c
<1>3. Bit(text, 8 * q) = (c \div 128) % 2
  <2>1. PICK b : b = 8 * q
    OBVIOUS
  <2>2. b \in Nat /\ b \div 8 = q
    BY <2>1, SMT
  <2>3. 7 - (b % 8) = 7
    BY <2>1, SMT
  <2>4. TwoTo(7 - (b % 8)) = 128 /\ 128 \in Nat \ {0}
    BY <2>3, PowersOfTwo
  <2>5. Bit(text, b) = (c \div 128) % 2
    BY <1>2, <2>2, <2>4, SMT
  <2> QED BY <2>1, <2>5, Zenon
<1>4. Bit(text, 8 * q + 1) = (c \div 64) % 2
  <2>1. PICK b : b = 8 * q + 1
    OBVIOUS
  <2>2. b \in Nat /\ b \div 8 = q
    BY <2>1, SMT
  <2>3. 7 - (b % 8) = 6
    BY <2>1, SMT
  <2>4. TwoTo(7 - (b % 8)) = 64 /\ 64 \in Nat \ {0}
    BY <2>3, PowersOfTwo
  <2>5. Bit(text, b) = (c \div 64) % 2
    BY <1>2, <2>2, <2>4, SMT
  <2> QED BY <2>1, <2>5, Zenon
<1>5. Bit(text, 8 * q + 2) = (c \div 32) % 2
  <2>1. PICK b : b = 8 * q + 2
    OBVIOUS
  <2>2. b \in Nat /\ b \div 8 = q
    BY <2>1, SMT
  <2>3. 7 - (b % 8) = 5
    BY <2>1, SMT
  <2>4. TwoTo(7 - (b % 8)) = 32 /\ 32 \in Nat \ {0}
    BY <2>3, PowersOfTwo
  <2>5. Bit(text, b) = (c \div 32) % 2
    BY <1>2, <2>2, <2>4, SMT
  <2> QED BY <2>1, <2>5, Zenon
<1>6. Bit(text, 8 * q + 3) = (c \div 16) % 2
  <2>1. PICK b : b = 8 * q + 3
    OBVIOUS
  <2>2. b \in Nat /\ b \div 8 = q
    BY <2>1, SMT
  <2>3. 7 - (b % 8) = 4
    BY <2>1, SMT
  <2>4. TwoTo(7 - (b % 8)) = 16 /\ 16 \in Nat \ {0}
    BY <2>3, PowersOfTwo
  <2>5. Bit(text, b) = (c \div 16) % 2
    BY <1>2, <2>2, <2>4, SMT
  <2> QED BY <2>1, <2>5, Zenon
<1>7. Bit(text, 8 * q + 4) = (c \div 8) % 2
  <2>1. PICK b : b = 8 * q + 4
    OBVIOUS
  <2>2. b \in Nat /\ b \div 8 = q
    BY <2>1, SMT
  <2>3. 7 - (b % 8) = 3
    BY <2>1, SMT
  <2>4. TwoTo(7 - (b % 8)) = 8 /\ 8 \in Nat \ {0}
    BY <2>3, PowersOfTwo
  <2>5. Bit(text, b) = (c \div 8) % 2
    BY <1>2, <2>2, <2>4, SMT
  <2> QED BY <2>1, <2>5, Zenon
<1>8. Bit(text, 8 * q + 5) = (c \div 4) % 2
  <2>1. PICK b : b = 8 * q + 5
    OBVIOUS
  <2>2. b \in Nat /\ b \div 8 = q
    BY <2>1, SMT
  <2>3. 7 - (b % 8) = 2
    BY <2>1, SMT
  <2>4. TwoTo(7 - (b % 8)) = 4 /\ 4 \in Nat \ {0}
    BY <2>3, PowersOfTwo
  <2>5. Bit(text, b) = (c \div 4) % 2
    BY <1>2, <2>2, <2>4, SMT
  <2> QED BY <2>1, <2>5, Zenon
<1>9. Bit(text, 8 * q + 6) = (c \div 2) % 2
  <2>1. PICK b : b = 8 * q + 6
    OBVIOUS
  <2>2. b \in Nat /\ b \div 8 = q
    BY <2>1, SMT
  <2>3. 7 - (b % 8) = 1
    BY <2>1, SMT
  <2>4. TwoTo(7 - (b % 8)) = 2 /\ 2 \in Nat \ {0}
    BY <2>3, PowersOfTwo
  <2>5. Bit(text, b) = (c \div 2) % 2
    BY <1>2, <2>2, <2>4, SMT
  <2> QED BY <2>1, <2>5, Zenon
<1>10. Bit(text, 8 * q + 7) = (c \div 1) % 2
  <2>1. PICK b : b = 8 * q + 7
    OBVIOUS
  <2>2. b \in Nat /\ b \div 8 = q
    BY <2>1, SMT
  <2>3. 7 - (b % 8) = 0
    BY <2>1, SMT
  <2>4. TwoTo(7 - (b % 8)) = 1 /\ 1 \in Nat \ {0}
    BY <2>3, PowersOfTwo
  <2>5. Bit(text, b) = (c \div 1) % 2
    BY <1>2, <2>2, <2>4, SMT
  <2> QED BY <2>1, <2>5, Zenon
<1>11. c \div 1 = c
  BY <1>1, SMT
<1> QED BY <1>3, <1>4, <1>5, <1>6, <1>7, <1>8, <1>9, <1>10, <1>11, Zenon
        DEF c, BitsOf

(* The sextets of a plain text, four for three characters.                 *)
SextetAt(text, k) ==
    LET b == 6 * (k - 1)
    IN  32 * Bit(text, b) + 16 * Bit(text, b + 1) + 8 * Bit(text, b + 2)
        + 4 * Bit(text, b + 3) + 2 * Bit(text, b + 4) + Bit(text, b + 5)

LEMMA SextetAtIs ==
    ASSUME NEW text \in Seq(Char), PlainText(text), NEW p \in Nat
    PROVE  /\ SextetAt(text, 4 * p + 1) = CodeAt(text, 3 * p + 1) \div 4
           /\ SextetAt(text, 4 * p + 2)
                 = (CodeAt(text, 3 * p + 1) % 4) * 16 + CodeAt(text, 3 * p + 2) \div 16
           /\ SextetAt(text, 4 * p + 3)
                 = (CodeAt(text, 3 * p + 2) % 16) * 4 + CodeAt(text, 3 * p + 3) \div 64
           /\ SextetAt(text, 4 * p + 4) = CodeAt(text, 3 * p + 3) % 64
<1>1. PICK x, y, z : x = CodeAt(text, 3 * p + 1) /\ y = CodeAt(text, 3 * p + 2)
                     /\ z = CodeAt(text, 3 * p + 3)
  OBVIOUS
<1>2. x \in Byte7 /\ y \in Byte7 /\ z \in Byte7
  BY <1>1, CodeTyped
<1>3. /\ 3 * p \in Nat /\ 3 * p + 1 \in Nat /\ 3 * p + 2 \in Nat
      /\ 3 * p + 1 + 1 = 3 * p + 2 /\ 3 * p + 2 + 1 = 3 * p + 3
  OBVIOUS
<1>4. BitsOf(text, 24 * p, x)
  <2>1. 8 * (3 * p) = 24 * p
    OBVIOUS
  <2>2. BitsOf(text, 8 * (3 * p), CodeAt(text, 3 * p + 1))
    BY <1>3, BitIs, Zenon
  <2>3. 3 * p + 1 = 3 * p + 1
    OBVIOUS
  <2> QED BY <1>1, <2>1, <2>2, <2>3, Zenon
<1>5. BitsOf(text, 24 * p + 8, y)
  <2>1. 8 * (3 * p + 1) = 24 * p + 8
    OBVIOUS
  <2>2. BitsOf(text, 8 * (3 * p + 1), CodeAt(text, 3 * p + 1 + 1))
    BY <1>3, BitIs, Zenon
  <2>3. 3 * p + 1 + 1 = 3 * p + 2
    OBVIOUS
  <2> QED BY <1>1, <2>1, <2>2, <2>3, Zenon
<1>6. BitsOf(text, 24 * p + 16, z)
  <2>1. 8 * (3 * p + 2) = 24 * p + 16
    OBVIOUS
  <2>2. BitsOf(text, 8 * (3 * p + 2), CodeAt(text, 3 * p + 2 + 1))
    BY <1>3, BitIs, Zenon
  <2>3. 3 * p + 2 + 1 = 3 * p + 3
    OBVIOUS
  <2> QED BY <1>1, <2>1, <2>2, <2>3, Zenon
<1>7. SextetAt(text, 4 * p + 1) = x \div 4
  <2>1. PICK b : b = 6 * (4 * p + 1 - 1)
    OBVIOUS
  <2>2. /\ b = 24 * p
        /\ b + 1 = 24 * p + 1
        /\ b + 2 = 24 * p + 2
        /\ b + 3 = 24 * p + 3
        /\ b + 4 = 24 * p + 4
        /\ b + 5 = 24 * p + 5
    BY <2>1
  <2>3. /\ Bit(text, b) = (x \div 128) % 2
        /\ Bit(text, b + 1) = (x \div 64) % 2
        /\ Bit(text, b + 2) = (x \div 32) % 2
        /\ Bit(text, b + 3) = (x \div 16) % 2
        /\ Bit(text, b + 4) = (x \div 8) % 2
        /\ Bit(text, b + 5) = (x \div 4) % 2
    BY <1>4, <1>5, <1>6, <2>2, SMT DEF BitsOf
  <2>4. SextetAt(text, 4 * p + 1)
           = 32 * Bit(text, b) + 16 * Bit(text, b + 1) + 8 * Bit(text, b + 2)
             + 4 * Bit(text, b + 3) + 2 * Bit(text, b + 4) + Bit(text, b + 5)
    BY <1>2, <2>1, <2>3, SMT DEF SextetAt, Byte7
  <2>5. x \div 4
           = 32 * ((x \div 128) % 2) + 16 * ((x \div 64) % 2) + 8 * ((x \div 32) % 2)
             + 4 * ((x \div 16) % 2) + 2 * ((x \div 8) % 2) + ((x \div 4) % 2)
    BY <1>2, BitsOfByte, SMT
  <2> QED BY <2>3, <2>4, <2>5, SMT
<1>8. SextetAt(text, 4 * p + 2) = (x % 4) * 16 + y \div 16
  <2>1. PICK b : b = 6 * (4 * p + 2 - 1)
    OBVIOUS
  <2>2. /\ b = 24 * p + 6
        /\ b + 1 = 24 * p + 7
        /\ b + 2 = 24 * p + 8
        /\ b + 3 = 24 * p + 9
        /\ b + 4 = 24 * p + 10
        /\ b + 5 = 24 * p + 11
    BY <2>1
  <2>3. /\ Bit(text, b) = (x \div 2) % 2
        /\ Bit(text, b + 1) = x % 2
        /\ Bit(text, b + 2) = (y \div 128) % 2
        /\ Bit(text, b + 3) = (y \div 64) % 2
        /\ Bit(text, b + 4) = (y \div 32) % 2
        /\ Bit(text, b + 5) = (y \div 16) % 2
    BY <1>4, <1>5, <1>6, <2>2, SMT DEF BitsOf
  <2>4. SextetAt(text, 4 * p + 2)
           = 32 * Bit(text, b) + 16 * Bit(text, b + 1) + 8 * Bit(text, b + 2)
             + 4 * Bit(text, b + 3) + 2 * Bit(text, b + 4) + Bit(text, b + 5)
    BY <1>2, <2>1, <2>3, SMT DEF SextetAt, Byte7
  <2>5. (x % 4) * 16 + y \div 16
           = 32 * ((x \div 2) % 2) + 16 * (x % 2) + 8 * ((y \div 128) % 2)
             + 4 * ((y \div 64) % 2) + 2 * ((y \div 32) % 2) + ((y \div 16) % 2)
    <3> DEFINE l == (x % 4) * 16
               r == y \div 16
               a == (x \div 2) % 2
               b1 == x % 2
               c == (y \div 128) % 2
               d == (y \div 64) % 2
               e == (y \div 32) % 2
               f == (y \div 16) % 2
    <3>1. l = 32 * a + 16 * b1
      BY <1>2, BitsOfByte, SMT
    <3>2. r = 8 * c + 4 * d + 2 * e + f
      BY <1>2, BitsOfByte, SMT
    <3>3. /\ a \in Int /\ b1 \in Int /\ c \in Int
          /\ d \in Int /\ e \in Int /\ f \in Int
      BY <1>2, SMT DEF Byte7
    <3> HIDE DEF l, r, a, b1, c, d, e, f
    <3>4. l + r = 32 * a + 16 * b1 + 8 * c + 4 * d + 2 * e + f
      BY <3>1, <3>2, <3>3, SMT
    <3> QED BY <3>4, SMT DEF l, r, a, b1, c, d, e, f
  <2> QED BY <2>3, <2>4, <2>5, SMT
<1>9. SextetAt(text, 4 * p + 3) = (y % 16) * 4 + z \div 64
  <2>1. PICK b : b = 6 * (4 * p + 3 - 1)
    OBVIOUS
  <2>2. /\ b = 24 * p + 12
        /\ b + 1 = 24 * p + 13
        /\ b + 2 = 24 * p + 14
        /\ b + 3 = 24 * p + 15
        /\ b + 4 = 24 * p + 16
        /\ b + 5 = 24 * p + 17
    BY <2>1
  <2>3. /\ Bit(text, b) = (y \div 8) % 2
        /\ Bit(text, b + 1) = (y \div 4) % 2
        /\ Bit(text, b + 2) = (y \div 2) % 2
        /\ Bit(text, b + 3) = y % 2
        /\ Bit(text, b + 4) = (z \div 128) % 2
        /\ Bit(text, b + 5) = (z \div 64) % 2
    BY <1>4, <1>5, <1>6, <2>2, SMT DEF BitsOf
  <2>4. SextetAt(text, 4 * p + 3)
           = 32 * Bit(text, b) + 16 * Bit(text, b + 1) + 8 * Bit(text, b + 2)
             + 4 * Bit(text, b + 3) + 2 * Bit(text, b + 4) + Bit(text, b + 5)
    BY <1>2, <2>1, <2>3, SMT DEF SextetAt, Byte7
  <2>5. (y % 16) * 4 + z \div 64
           = 32 * ((y \div 8) % 2) + 16 * ((y \div 4) % 2) + 8 * ((y \div 2) % 2)
             + 4 * (y % 2) + 2 * ((z \div 128) % 2) + ((z \div 64) % 2)
    <3> DEFINE l == (y % 16) * 4
               r == z \div 64
               a == (y \div 8) % 2
               b1 == (y \div 4) % 2
               c == (y \div 2) % 2
               d == y % 2
               e == (z \div 128) % 2
               f == (z \div 64) % 2
    <3>1. l = 32 * a + 16 * b1 + 8 * c + 4 * d
      BY <1>2, BitsOfByte, SMT
    <3>2. r = 2 * e + f
      BY <1>2, BitsOfByte, SMT
    <3>3. /\ a \in Int /\ b1 \in Int /\ c \in Int
          /\ d \in Int /\ e \in Int /\ f \in Int
      BY <1>2, SMT DEF Byte7
    <3> HIDE DEF l, r, a, b1, c, d, e, f
    <3>4. l + r = 32 * a + 16 * b1 + 8 * c + 4 * d + 2 * e + f
      BY <3>1, <3>2, <3>3, SMT
    <3> QED BY <3>4, SMT DEF l, r, a, b1, c, d, e, f
  <2> QED BY <2>3, <2>4, <2>5, SMT
<1>10. SextetAt(text, 4 * p + 4) = z % 64
  <2>1. PICK b : b = 6 * (4 * p + 4 - 1)
    OBVIOUS
  <2>2. /\ b = 24 * p + 18
        /\ b + 1 = 24 * p + 19
        /\ b + 2 = 24 * p + 20
        /\ b + 3 = 24 * p + 21
        /\ b + 4 = 24 * p + 22
        /\ b + 5 = 24 * p + 23
    BY <2>1
  <2>3. /\ Bit(text, b) = (z \div 32) % 2
        /\ Bit(text, b + 1) = (z \div 16) % 2
        /\ Bit(text, b + 2) = (z \div 8) % 2
        /\ Bit(text, b + 3) = (z \div 4) % 2
        /\ Bit(text, b + 4) = (z \div 2) % 2
        /\ Bit(text, b + 5) = z % 2
    BY <1>4, <1>5, <1>6, <2>2, SMT DEF BitsOf
  <2>4. SextetAt(text, 4 * p + 4)
           = 32 * Bit(text, b) + 16 * Bit(text, b + 1) + 8 * Bit(text, b + 2)
             + 4 * Bit(text, b + 3) + 2 * Bit(text, b + 4) + Bit(text, b + 5)
    BY <1>2, <2>1, <2>3, SMT DEF SextetAt, Byte7
  <2>5. z % 64
           = 32 * ((z \div 32) % 2) + 16 * ((z \div 16) % 2) + 8 * ((z \div 8) % 2)
             + 4 * ((z \div 4) % 2) + 2 * ((z \div 2) % 2) + (z % 2)
    BY <1>2, BitsOfByte, SMT
  <2> QED BY <2>3, <2>4, <2>5, SMT
<1> QED BY <1>1, <1>7, <1>8, <1>9, <1>10, Zenon

(* After p triples of characters and a rest of them, the loop has pushed 4 *)
(* sextets for each triple and one for each other character.               *)
Phase(s, n, p) ==
    \/ n = 3 * p /\ s.valb = -6 /\ Len(s.out) = 4 * p
    \/ n = 3 * p + 1 /\ s.valb = -4 /\ Len(s.out) = 4 * p + 1
    \/ n = 3 * p + 2 /\ s.valb = -2 /\ Len(s.out) = 4 * p + 2

(* Of a plain text it holds the last two characters, and has pushed what   *)
(* it should have.                                                         *)
Right(out, text) == \A k \in 1..Len(out) : out[k] = SextetAt(text, k)

Exact(s, text, n) ==
    s.val = 256 * CodeAt(text, n - 1) + CodeAt(text, n) /\ Right(s.out, text)

LEMMA RightAppend ==
    ASSUME NEW out \in Seq(Sextets), NEW text, Right(out, text),
           NEW k \in Nat, Len(out) = k, NEW x \in Sextets,
           x = SextetAt(text, k + 1)
    PROVE  /\ Right(Append(out, x), text) /\ Append(out, x) \in Seq(Sextets)
           /\ Len(Append(out, x)) = k + 1
<1>1. /\ Len(Append(out, x)) = k + 1 /\ Append(out, x) \in Seq(Sextets)
      /\ Append(out, x)[k + 1] = x
      /\ \A i \in 1..k : Append(out, x)[i] = out[i]
  OBVIOUS
<1>2. ASSUME NEW i \in 1..(k + 1) PROVE Append(out, x)[i] = SextetAt(text, i)
  <2>1. CASE i = k + 1
    BY <1>1, <2>1
  <2>2. CASE i # k + 1
    <3>1. i \in 1..k
      BY <2>2
    <3> QED BY <1>1, <3>1 DEF Right
  <2> QED BY <2>1, <2>2
<1> QED BY <1>1, <1>2 DEF Right

(* How many there are after the next character.                            *)
LEMMA NextPhase ==
    ASSUME NEW text \in Seq(Char), NEW n \in Nat, n + 1 \in 1..Len(text),
           NEW s \in State, NEW p \in Nat, Phase(s, n, p)
    PROVE  \E q \in Nat : Phase(Taken(s, text[n + 1]), n + 1, q)
<1>1. text[n + 1] \in Char /\ s.out \in Seq(Sextets)
  BY DEF State
<1>2. PICK v : v = (s.val * 256 + Code[text[n + 1]]) % ValRange
  OBVIOUS
<1>3. Pushes(s, v, Taken(s, text[n + 1])) /\ v \in Nat
  <2>1. Pushes(s, v, Taken(s, text[n + 1]))
    BY <1>1, <1>2, TakenIs
  <2> QED BY <2>1 DEF Pushes
<1>4. CASE n = 3 * p /\ s.valb = -6 /\ Len(s.out) = 4 * p
  <2>1. PICK x : x = (v \div 4) % 64
    OBVIOUS
  <2>2. Taken(s, text[n + 1]) = [val |-> v, valb |-> -4, out |-> Append(s.out, x)]
    BY <1>3, <1>4, <2>1, Zenon DEF Pushes
  <2>3. x \in Sextets
    BY <1>3, <2>1, SextetsHere, Zenon
  <2>4. Len(Append(s.out, x)) = 4 * p + 1
    BY <1>1, <1>4, <2>3
  <2> QED BY <1>4, <2>2, <2>4 DEF Phase
<1>5. CASE n = 3 * p + 1 /\ s.valb = -4 /\ Len(s.out) = 4 * p + 1
  <2>1. PICK x : x = (v \div 16) % 64
    OBVIOUS
  <2>2. Taken(s, text[n + 1]) = [val |-> v, valb |-> -2, out |-> Append(s.out, x)]
    BY <1>3, <1>5, <2>1, Zenon DEF Pushes
  <2>3. x \in Sextets
    BY <1>3, <2>1, SextetsHere, Zenon
  <2>4. Len(Append(s.out, x)) = 4 * p + 2
    BY <1>1, <1>5, <2>3
  <2> QED BY <1>5, <2>2, <2>4 DEF Phase
<1>6. CASE n = 3 * p + 2 /\ s.valb = -2 /\ Len(s.out) = 4 * p + 2
  <2>1. PICK x, y : x = (v \div 64) % 64 /\ y = v % 64
    OBVIOUS
  <2>2. Taken(s, text[n + 1])
           = [val |-> v, valb |-> -6, out |-> Append(Append(s.out, x), y)]
    BY <1>3, <1>6, <2>1, Zenon DEF Pushes
  <2>3. x \in Sextets /\ y \in Sextets
    BY <1>3, <2>1, SextetsHere, Zenon
  <2>4. Len(Append(Append(s.out, x), y)) = 4 * (p + 1) /\ n + 1 = 3 * (p + 1)
    <3>1. Append(s.out, x) \in Seq(Sextets) /\ Len(Append(s.out, x)) = 4 * p + 3
      BY <1>1, <1>6, <2>3
    <3>2. Len(Append(Append(s.out, x), y)) = 4 * p + 4
      BY <2>3, <3>1
    <3> QED BY <1>6, <3>2
  <2>5. Phase(Taken(s, text[n + 1]), n + 1, p + 1)
    BY <2>2, <2>4 DEF Phase
  <2> QED BY <2>5
<1> QED BY <1>4, <1>5, <1>6 DEF Phase

(* That they are the right ones.                                           *)
LEMMA NextExact ==
    ASSUME NEW text \in Seq(Char), PlainText(text),
           NEW n \in Nat, n + 1 \in 1..Len(text),
           NEW s \in State, NEW p \in Nat, Phase(s, n, p), Exact(s, text, n)
    PROVE  Exact(Taken(s, text[n + 1]), text, n + 1)
<1>1. text[n + 1] \in Char /\ s.out \in Seq(Sextets) /\ Right(s.out, text)
  BY DEF State, Exact
<1>2. PICK z, a, c : z = CodeAt(text, n - 1) /\ a = CodeAt(text, n)
                     /\ c = CodeAt(text, n + 1)
  OBVIOUS
<1>3. z \in Byte7 /\ a \in Byte7 /\ c \in Byte7
  BY <1>2, CodeTyped
<1>4. PICK v : v = (s.val * 256 + Code[text[n + 1]]) % ValRange
  OBVIOUS
<1>5. Pushes(s, v, Taken(s, text[n + 1])) /\ v \in Nat
  <2>1. Pushes(s, v, Taken(s, text[n + 1]))
    BY <1>1, <1>4, TakenIs
  <2> QED BY <2>1 DEF Pushes
<1>6. v = 256 * a + c
  <2>1. c = Code[text[n + 1]] /\ s.val = 256 * z + a
    BY <1>2 DEF CodeAt, Exact
  <2>2. ((256 * z + a) * 256 + c) % ValRange = 256 * a + c
    BY <1>3, Forgotten
  <2> QED BY <1>4, <2>1, <2>2
<1>7. /\ (v \div 4) % 64 = c \div 4
      /\ (v \div 16) % 64 = (a % 4) * 16 + c \div 16
      /\ (v \div 64) % 64 = (a % 16) * 4 + c \div 64
      /\ v % 64 = c % 64
  BY <1>3, <1>6, Shifted, SMT
<1>8. ASSUME NEW o, NEW b, Taken(s, text[n + 1]) = [val |-> v, valb |-> b, out |-> o],
             Right(o, text)
      PROVE  Exact(Taken(s, text[n + 1]), text, n + 1)
  <2>1. Taken(s, text[n + 1]).val = v /\ Taken(s, text[n + 1]).out = o
    BY <1>8
  <2>2. n + 1 - 1 = n
    OBVIOUS
  <2>3. v = 256 * CodeAt(text, n + 1 - 1) + CodeAt(text, n + 1)
    BY <1>2, <1>6, <2>2
  <2> QED BY <1>8, <2>1, <2>3 DEF Exact
<1>9. CASE n = 3 * p /\ s.valb = -6 /\ Len(s.out) = 4 * p
  <2>1. PICK x : x = (v \div 4) % 64
    OBVIOUS
  <2>2. Taken(s, text[n + 1]) = [val |-> v, valb |-> -4, out |-> Append(s.out, x)]
    BY <1>5, <1>9, <2>1, Zenon DEF Pushes
  <2>3. x \in Sextets
    BY <1>5, <2>1, SextetsHere, Zenon
  <2>4. x = SextetAt(text, 4 * p + 1)
    <3>1. x = c \div 4
      BY <1>7, <2>1, Zenon
    <3>2. CodeAt(text, 3 * p + 1) = c
      BY <1>2, <1>9, Zenon
    <3> QED BY <3>1, <3>2, SextetAtIs, Zenon
  <2>5. Right(Append(s.out, x), text)
    BY <1>1, <1>9, <2>3, <2>4, RightAppend
  <2> QED BY <1>8, <2>2, <2>5, Zenon
<1>10. CASE n = 3 * p + 1 /\ s.valb = -4 /\ Len(s.out) = 4 * p + 1
  <2>1. PICK x : x = (v \div 16) % 64
    OBVIOUS
  <2>2. Taken(s, text[n + 1]) = [val |-> v, valb |-> -2, out |-> Append(s.out, x)]
    BY <1>5, <1>10, <2>1, Zenon DEF Pushes
  <2>3. x \in Sextets
    BY <1>5, <2>1, SextetsHere, Zenon
  <2>4. x = SextetAt(text, 4 * p + 2)
    <3>1. x = (a % 4) * 16 + c \div 16
      BY <1>7, <2>1, Zenon
    <3>2. 3 * p + 1 + 1 = 3 * p + 2
      OBVIOUS
    <3>3. CodeAt(text, 3 * p + 1) = a /\ CodeAt(text, 3 * p + 2) = c
      BY <1>2, <1>10, <3>2, Zenon
    <3> QED BY <3>1, <3>3, SextetAtIs, Zenon
  <2>5. 4 * p + 1 \in Nat /\ 4 * p + 1 + 1 = 4 * p + 2
    OBVIOUS
  <2>6. Right(Append(s.out, x), text)
    BY <1>1, <1>10, <2>3, <2>4, <2>5, RightAppend
  <2> QED BY <1>8, <2>2, <2>6, Zenon
<1>11. CASE n = 3 * p + 2 /\ s.valb = -2 /\ Len(s.out) = 4 * p + 2
  <2>1. PICK x, y : x = (v \div 64) % 64 /\ y = v % 64
    OBVIOUS
  <2>2. Taken(s, text[n + 1])
           = [val |-> v, valb |-> -6, out |-> Append(Append(s.out, x), y)]
    BY <1>5, <1>11, <2>1, Zenon DEF Pushes
  <2>3. x \in Sextets /\ y \in Sextets
    BY <1>5, <2>1, SextetsHere, Zenon
  <2>4. x = SextetAt(text, 4 * p + 3) /\ y = SextetAt(text, 4 * p + 4)
    <3>1. x = (a % 16) * 4 + c \div 64 /\ y = c % 64
      BY <1>7, <2>1, Zenon
    <3>2. 3 * p + 2 + 1 = 3 * p + 3
      OBVIOUS
    <3>3. CodeAt(text, 3 * p + 2) = a /\ CodeAt(text, 3 * p + 3) = c
      BY <1>2, <1>11, <3>2, Zenon
    <3> QED BY <3>1, <3>3, SextetAtIs, Zenon
  <2>5. 4 * p + 2 \in Nat /\ 4 * p + 2 + 1 = 4 * p + 3
        /\ 4 * p + 3 \in Nat /\ 4 * p + 3 + 1 = 4 * p + 4
    OBVIOUS
  <2>6. /\ Right(Append(s.out, x), text) /\ Append(s.out, x) \in Seq(Sextets)
        /\ Len(Append(s.out, x)) = 4 * p + 3
    BY <1>1, <1>11, <2>3, <2>4, <2>5, RightAppend
  <2>7. Right(Append(Append(s.out, x), y), text)
    BY <2>3, <2>4, <2>5, <2>6, RightAppend
  <2> QED BY <1>8, <2>2, <2>7, Zenon
<1> QED BY <1>9, <1>10, <1>11 DEF Phase

(* So it is after the last character.                                      *)
LEMMA EncodedState ==
    ASSUME NEW text \in Seq(Char)
    PROVE  LET s == Encoded(text)
           IN  /\ s \in State
               /\ \E p \in Nat : Phase(s, Len(text), p)
               /\ PlainText(text) => Exact(s, text, Len(text))
<1>1. PICK f : Encodes(f, text) /\ Encoded(text) = f[Len(text)]
  BY EncodedIs
<1>2. Len(text) \in Nat
  OBVIOUS
<1> DEFINE Good(s, n) == /\ s \in State
                         /\ \E p \in Nat : Phase(s, n, p)
                         /\ PlainText(text) => Exact(s, text, n)
           I == {n \in Nat : n \in 0..Len(text) => Good(f[n], n)}
<1>3. 0 \in I
  <2>1. f[0] = Begun /\ Begun \in State
    BY <1>1, <1>2 DEF Encodes, Begun, State
  <2>2. Phase(Begun, 0, 0)
    BY DEF Phase, Begun
  <2>3. Exact(Begun, text, 0)
    <3>1. CodeAt(text, 0) = 0 /\ CodeAt(text, 0 - 1) = 0
      BY <1>2 DEF CodeAt
    <3> QED BY <3>1 DEF Exact, Begun, Right
  <2>4. Good(f[0], 0)
    BY <2>1, <2>2, <2>3
  <2> HIDE DEF Good
  <2> QED BY <2>4
<1>4. ASSUME NEW n \in Nat, n \in I PROVE n + 1 \in I
  <2>1. CASE n + 1 \in 0..Len(text)
    <3>1. n \in 0..Len(text) /\ n + 1 \in 1..Len(text) /\ n + 1 - 1 = n
      BY <1>2, <2>1
    <3>2. Good(f[n], n)
      <4> HIDE DEF Good
      <4> QED BY <1>4, <3>1
    <3>3. PICK p \in Nat : Phase(f[n], n, p)
      BY <3>2
    <3>4. f[n + 1] = Taken(f[n], text[n + 1])
      <4>1. f[n + 1] = Taken(f[n + 1 - 1], text[n + 1])
        <5>1. \A k \in 1..Len(text) : f[k] = Taken(f[k - 1], text[k])
          BY <1>1 DEF Encodes
        <5> QED BY <3>1, <5>1
      <4> QED BY <3>1, <4>1
    <3>5. f[n + 1] \in State
      BY <1>1, <3>1 DEF Encodes
    <3>6. \E q \in Nat : Phase(f[n + 1], n + 1, q)
      BY <3>1, <3>2, <3>3, <3>4, NextPhase
    <3>7. PlainText(text) => Exact(f[n + 1], text, n + 1)
      BY <3>1, <3>2, <3>3, <3>4, NextExact
    <3>8. Good(f[n + 1], n + 1)
      BY <3>5, <3>6, <3>7, Zenon
    <3> HIDE DEF Good
    <3> QED BY <3>8
  <2>2. CASE n + 1 \notin 0..Len(text)
    <3> HIDE DEF Good
    <3> QED BY <2>2
  <2> QED BY <2>1, <2>2
<1>5. Nat \subseteq I
  <2> HIDE DEF I
  <2> QED BY <1>3, <1>4, NatInductionOnSet
<1>6. Good(f[Len(text)], Len(text))
  <2> HIDE DEF Good
  <2> QED BY <1>2, <1>5
<1> QED BY <1>1, <1>6, Zenon

(* What is left of the bits is pushed, and the length is then the right    *)
(* one whatever the characters are.                                        *)
Unpadded(text) ==
    LET s == Encoded(text)
    IN  IF s.valb > -6 THEN Append(s.out, Sextet(s.val, s.valb)) ELSE s.out

LEMMA UnpaddedIs ==
    ASSUME NEW text \in Seq(Char)
    PROVE  /\ Unpadded(text) \in Seq(Sextets)
           /\ Len(Unpadded(text)) = (8 * Len(text) + 5) \div 6
           /\ PlainText(text) => Right(Unpadded(text), text)
<1>1. PICK s, n : s = Encoded(text) /\ n = Len(text)
  OBVIOUS
<1>2. s \in State /\ n \in Nat /\ s.out \in Seq(Sextets) /\ s.val \in Nat
  <2>1. s \in State /\ n \in Nat
    BY <1>1, EncodedState
  <2> QED BY <2>1 DEF State
<1>3. PICK p \in Nat : Phase(s, n, p)
  BY <1>1, EncodedState
<1>4. PlainText(text) => Exact(s, text, n)
  BY <1>1, EncodedState
<1>5. Sextet(s.val, -4) = (s.val * 16) % 64 /\ Sextet(s.val, -2) = (s.val * 4) % 64
  <2>1. PICK v \in Nat : v = s.val
    BY <1>2
  <2>2. Sextet(v, -4) = (v * 16) % 64
    BY SextetIs, Zenon
  <2>3. Sextet(v, -2) = (v * 4) % 64
    BY SextetIs, Zenon
  <2> QED BY <2>1, <2>2, <2>3
<1>6. Unpadded(text)
         = IF s.valb > -6 THEN Append(s.out, Sextet(s.val, s.valb)) ELSE s.out
  BY <1>1 DEF Unpadded
<1>7. CASE n = 3 * p /\ s.valb = -6 /\ Len(s.out) = 4 * p
  <2>1. Unpadded(text) = s.out
    <3>1. ~(s.valb > -6)
      BY <1>7
    <3> QED BY <1>6, <3>1
  <2>2. (8 * n + 5) \div 6 = 4 * p
    BY <1>7, SMT
  <2>3. PlainText(text) => Right(s.out, text)
    BY <1>4 DEF Exact
  <2> QED BY <1>1, <1>2, <1>7, <2>1, <2>2, <2>3, Zenon
<1>8. CASE n = 3 * p + 1 /\ s.valb = -4 /\ Len(s.out) = 4 * p + 1
  <2>1. PICK x : x = Sextet(s.val, -4)
    OBVIOUS
  <2>2. Unpadded(text) = Append(s.out, x)
    <3>1. s.valb > -6
      BY <1>8
    <3> QED BY <1>6, <1>8, <2>1, <3>1
  <2>3. x \in Sextets
    BY <1>2, <2>1, LastSextets
  <2>4. (8 * n + 5) \div 6 = 4 * p + 2
    BY <1>8, SMT
  <2>5. Append(s.out, x) \in Seq(Sextets) /\ Len(Append(s.out, x)) = 4 * p + 2
    BY <1>2, <1>8, <2>3
  <2>6. ASSUME PlainText(text) PROVE Right(Append(s.out, x), text)
    <3>1. PICK a, c, d : a = CodeAt(text, n - 1) /\ c = CodeAt(text, n)
                         /\ d = CodeAt(text, n + 1)
      OBVIOUS
    <3>2. a \in Byte7 /\ c \in Byte7 /\ d = 0
      <4>1. a \in Byte7 /\ c \in Byte7
        BY <1>2, <2>6, <3>1, CodeTyped
      <4>2. d = 0
        BY <1>1, <1>2, <3>1 DEF CodeAt
      <4> QED BY <4>1, <4>2
    <3>3. s.val = 256 * a + c
      BY <1>4, <2>6, <3>1 DEF Exact
    <3>4. (s.val * 16) % 64 = (c % 4) * 16
      BY <3>2, <3>3, Shifted, SMT
    <3>5. x = (c % 4) * 16
      BY <1>5, <2>1, <3>4
    <3>6. CodeAt(text, 3 * p + 1) = c /\ CodeAt(text, 3 * p + 2) = d
      <4>1. 3 * p + 1 + 1 = 3 * p + 2
        OBVIOUS
      <4> QED BY <1>8, <3>1, <4>1
    <3>7. SextetAt(text, 4 * p + 2) = (c % 4) * 16 + d \div 16
      BY <2>6, <3>6, SextetAtIs, SMT
    <3>8. (c % 4) * 16 + d \div 16 = (c % 4) * 16
      BY <3>2, SMT DEF Byte7
    <3>9. 4 * p + 1 \in Nat /\ 4 * p + 1 + 1 = 4 * p + 2
      OBVIOUS
    <3>10. Right(s.out, text)
      BY <1>4, <2>6 DEF Exact
    <3> QED BY <1>2, <1>8, <2>3, <3>5, <3>7, <3>8, <3>9, <3>10, RightAppend
  <2> QED BY <1>1, <2>2, <2>4, <2>5, <2>6, Zenon
<1>9. CASE n = 3 * p + 2 /\ s.valb = -2 /\ Len(s.out) = 4 * p + 2
  <2>1. PICK x : x = Sextet(s.val, -2)
    OBVIOUS
  <2>2. Unpadded(text) = Append(s.out, x)
    <3>1. s.valb > -6
      BY <1>9
    <3> QED BY <1>6, <1>9, <2>1, <3>1
  <2>3. x \in Sextets
    BY <1>2, <2>1, LastSextets
  <2>4. (8 * n + 5) \div 6 = 4 * p + 3
    BY <1>9, SMT
  <2>5. Append(s.out, x) \in Seq(Sextets) /\ Len(Append(s.out, x)) = 4 * p + 3
    BY <1>2, <1>9, <2>3
  <2>6. ASSUME PlainText(text) PROVE Right(Append(s.out, x), text)
    <3>1. PICK a, c, d : a = CodeAt(text, n - 1) /\ c = CodeAt(text, n)
                         /\ d = CodeAt(text, n + 1)
      OBVIOUS
    <3>2. a \in Byte7 /\ c \in Byte7 /\ d = 0
      <4>1. a \in Byte7 /\ c \in Byte7
        BY <1>2, <2>6, <3>1, CodeTyped
      <4>2. d = 0
        BY <1>1, <1>2, <3>1 DEF CodeAt
      <4> QED BY <4>1, <4>2
    <3>3. s.val = 256 * a + c
      BY <1>4, <2>6, <3>1 DEF Exact
    <3>4. (s.val * 4) % 64 = (c % 16) * 4
      BY <3>2, <3>3, Shifted, SMT
    <3>5. x = (c % 16) * 4
      BY <1>5, <2>1, <3>4
    <3>6. CodeAt(text, 3 * p + 2) = c /\ CodeAt(text, 3 * p + 3) = d
      <4>1. 3 * p + 2 + 1 = 3 * p + 3
        OBVIOUS
      <4> QED BY <1>9, <3>1, <4>1
    <3>7. SextetAt(text, 4 * p + 3) = (c % 16) * 4 + d \div 64
      BY <2>6, <3>6, SextetAtIs, SMT
    <3>8. (c % 16) * 4 + d \div 64 = (c % 16) * 4
      BY <3>2, SMT DEF Byte7
    <3>9. 4 * p + 2 \in Nat /\ 4 * p + 2 + 1 = 4 * p + 3
      OBVIOUS
    <3>10. Right(s.out, text)
      BY <1>4, <2>6 DEF Exact
    <3> QED BY <1>2, <1>9, <2>3, <3>5, <3>7, <3>8, <3>9, <3>10, RightAppend
  <2> QED BY <1>1, <2>2, <2>4, <2>5, <2>6, Zenon
<1> QED BY <1>3, <1>7, <1>8, <1>9 DEF Phase

(* "=" fills up the last four.                                             *)
LEMMA PadIs ==
    ASSUME NEW a \in Seq(Sextets), NEW T, NEW b \in Seq(T), Len(a) = Len(b)
    PROVE  /\ Len(Pad(a)) = Len(Pad(b))
           /\ \A j \in DOMAIN Pad(a) : Pad(a)[j] \in 0..64
           /\ (\A k \in 1..Len(a) : a[k] = b[k]) => Pad(a) = Pad(b)
<1>1. PICK n, w : n = (-Len(a)) % 4 /\ w = [i \in 1..n |-> 64]
  OBVIOUS
<1>2. n \in Nat
  <2>1. -Len(a) \in Int
    OBVIOUS
  <2>2. \A i \in Int : i % 4 \in Nat
    BY SMT
  <2> QED BY <1>1, <2>1, <2>2
<1>3. PICK S : S = 0..64
  OBVIOUS
<1>4. w \in Seq(S) /\ Len(w) = n
  <2>1. 64 \in S
    BY <1>3
  <2> QED BY <1>1, <1>2, <2>1
<1>5. a \in Seq(S)
  <2>1. \A i \in Sextets : i \in S
    BY <1>3, SMT DEF Sextets
  <2> QED BY <2>1
<1>6. Pad(a) = a \o w /\ Pad(b) = b \o w
  BY <1>1 DEF Pad
<1>7. a \o w \in Seq(S) /\ Len(a \o w) = Len(a) + n
  BY <1>4, <1>5
<1>8. Len(b \o w) = Len(b) + n
  BY <1>4
<1>9. \A j \in DOMAIN (a \o w) : (a \o w)[j] \in S
  BY <1>7
<1>10. (\A k \in 1..Len(a) : a[k] = b[k]) => a = b
  OBVIOUS
<1> QED BY <1>3, <1>6, <1>7, <1>8, <1>9, <1>10, Zenon

LEMMA EncodeIs ==
    ASSUME NEW text \in Seq(Char)
    PROVE  /\ PlainText(text) => base64_encode(text) = Base64(text)
           /\ Len(base64_encode(text)) = Len(Base64(text))
           /\ \A j \in DOMAIN base64_encode(text) : base64_encode(text)[j] \in 0..64
<1>1. PICK a, m : a = Unpadded(text) /\ m = (8 * Len(text) + 5) \div 6
  OBVIOUS
<1>2. a \in Seq(Sextets) /\ Len(a) = m /\ m \in Nat
  <2>1. a \in Seq(Sextets) /\ Len(a) = m
    BY <1>1, UnpaddedIs
  <2> QED BY <2>1
<1>3. PICK T, b : T = {SextetAt(text, k) : k \in 1..m}
                  /\ b = [k \in 1..m |-> SextetAt(text, k)]
  OBVIOUS
<1>4. b \in Seq(T) /\ Len(b) = m
  BY <1>2, <1>3
<1>5. base64_encode(text) = Pad(a)
  BY <1>1, Zenon DEF base64_encode, Unpadded
<1>6. Base64(text) = Pad(b)
  BY <1>1, <1>3, Zenon DEF Base64, SextetAt
<1>7. ASSUME PlainText(text), NEW k \in 1..Len(a) PROVE a[k] = b[k]
  <2>1. Right(a, text)
    BY <1>1, <1>7, UnpaddedIs
  <2> QED BY <1>2, <1>3, <2>1 DEF Right
<1> QED BY <1>2, <1>4, <1>5, <1>6, <1>7, PadIs

(* The token begins with the base64 form of the user's name, or with one   *)
(* of the same length and alphabet if the name is not plain ASCII: whatever *)
(* the names are, and of any length.                                       *)
THEOREM TokensEncodeNames == Spec => []TokensAreBase64
<1>1. HInv /\ [Next]_vars => HInv'
  BY NextHInv
<1>2. HInv => TokensAreBase64
  <2> SUFFICES ASSUME HInv, NewMessage, NEW i \in DOMAIN message.values
               PROVE  LET text == message.values[i]
                      IN  /\ (\A j \in DOMAIN text : Code[text[j]] >= 0)
                                => base64_encode(text) = Base64(text)
                          /\ Len(base64_encode(text)) = Len(Base64(text))
                          /\ \A j \in DOMAIN base64_encode(text) :
                                base64_encode(text)[j] \in 0..64
    BY DEF TokensAreBase64
  <2>1. message \in Message
    BY DEF HInv, NewMessage, Arrived
  <2>2. i \in 1..Len(Names)
    <3>1. DOMAIN message.values = DOMAIN Names
      BY <2>1 DEF Message
    <3> QED BY <3>1, HeaderAssumption
  <2>3. PICK text : text = message.values[i]
    OBVIOUS
  <2>4. text \in Seq(Char)
    BY <2>1, <2>2, <2>3, ValueTyped
  <2> QED BY <2>3, <2>4, EncodeIs, Zenon DEF PlainText
<1> QED BY <1>1, <1>2, InitHInv, PTL DEF Spec
=============================================================================

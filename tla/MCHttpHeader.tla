---------------------------- MODULE MCHttpHeader ----------------------------
(***************************************************************************)
(* A small instance of HttpHeader for TLC.                                 *)
(***************************************************************************)
EXTENDS HttpHeader

(* A letter, and half of a character that takes two bytes in UTF-8.        *)
Alphabet == {"a", "e2"}
MCLetters == Alphabet \cup {"0", "2", "4"}
MCCode ==
    [c \in Char |->
        CASE c = "a" -> 97 [] c = "e2" -> -61 [] c = Colon -> 58
          [] c = Space -> 32 [] c = CR -> 13 [] c = LF -> 10 [] c = NUL -> 0
          [] c = "0" -> 48 [] c = "2" -> 50 [] c = "4" -> 52]
MCNames == <<<<"a">>, <<"e2">>>>
MCValues ==
    BoundedSeq(Alphabet \cup {Colon, Space}, 2)
        \cup {<<"a", "a", "a">>, <<"a", "e2", "a">>}

(* "GET / HTTP/1.1", "HTTP/1.1 200 OK" and "HTTP/1.1 404 Not Found".       *)
MCFirstLines ==
    {<<"a", Space, "a", Space, "a">>,
     <<"a", Space, "2", "0", "0", Space, "a">>,
     <<"a", Space, "4", "0", "4", Space, "a", Space, "a">>}
=============================================================================

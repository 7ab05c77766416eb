----------------------------- MODULE UsersFile -----------------------------
(***************************************************************************)
(* Texts and lines of users.txt (src/helpers.cpp, string-helpers.cpp).     *)
(*                                                                         *)
(* The only character the file format gives a meaning to is the comma, so  *)
(* a text is the sequence of the comma-free fields it consists of: the     *)
(* text "a" is <<a>>, "a,b" is <<a, b>>, "," is <<Empty, Empty>> and the   *)
(* empty text is <<Empty>>.  Joining two texts with a comma is then        *)
(* concatenation, and splitting a text gives its fields back.              *)
(***************************************************************************)
EXTENDS Sequences, Naturals

CONSTANTS
    Field,      \* non-empty comma-free texts
    Empty,      \* the empty field
    Usernames,  \* texts that users choose as names
    Passwords   \* texts that users choose as passwords

Text == Seq(Field \cup {Empty})

(* A header value that is absent, empty or blank is refused by every       *)
(* handler, so no user ever chooses the empty text.                        *)
ASSUME TextAssumption ==
    /\ Empty \notin Field
    /\ Usernames \cup Passwords \subseteq Text \ {<<>>, <<Empty>>}

(* Names and passwords without a comma: one non-empty field each.          *)
CommaFree == \A x \in Usernames \cup Passwords : \E f \in Field : x = <<f>>

(* UserInfo.  Its member fd is written by authenticate() and never read,   *)
(* so it is left out.                                                      *)
UserInfo(Locations) ==
    [username : Text, password : Text, locations : Seq(Locations)]

(* A default-constructed UserInfo: empty texts, no locations.              *)
DefaultUserInfo ==
    [username |-> <<Empty>>, password |-> <<Empty>>, locations |-> <<>>]

(* UserInfo as sign_up(), log_in() and load_file() fill it in.             *)
NewUserInfo(u, p) == [DefaultUserInfo EXCEPT !.username = u, !.password = p]

(* The line save_file() writes for a user: name, comma, password.          *)
Line(user) == user.username \o user.password

(* strhelp::split(line, ','): every field a comma ends is pushed, the rest *)
(* of the text only if it is not empty.                                    *)
split(line) ==
    IF line[Len(line)] = Empty THEN SubSeq(line, 1, Len(line) - 1) ELSE line

(* load_file() skips a line of fewer than two fields and keeps the first   *)
(* two fields of any other.                                                *)
IsUserLine(line) == Len(split(line)) > 1

(* Faulty variant: the two fields are taken in the wrong order.            *)
ParseLineSwapped(line) == NewUserInfo(<<split(line)[2]>>, <<split(line)[1]>>)

(* The user load_file() makes of such a line.                              *)
ParseLine(line) == NewUserInfo(<<split(line)[1]>>, <<split(line)[2]>>)
=============================================================================

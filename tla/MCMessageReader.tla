-------------------------- MODULE MCMessageReader --------------------------
(***************************************************************************)
(* Small instances of MessageReader for TLC.                               *)
(***************************************************************************)
EXTENDS MessageReader

(* Messages of one connection: without a body, with one, with two header   *)
(* lines of which the first has a value that ends in a CR, with a body     *)
(* longer than the others and a CR in it, and one whose header ends in a   *)
(* CR.                                                                     *)
Mixed == <<[header |-> <<"a">>, body |-> <<>>],
           [header |-> <<"b">>, body |-> <<"b", "b">>],
           [header |-> <<"a", CR, CR, LF, "b">>, body |-> <<>>],
           [header |-> <<"a", "b">>, body |-> <<"a", CR, "b">>],
           [header |-> <<"a", CR>>, body |-> <<"b">>]>>

TwoLetters == {"a", "b"}
=============================================================================

---------------------------- MODULE MCHttpServer ----------------------------
(***************************************************************************)
(* Small instances of HttpServer for TLC.                                  *)
(***************************************************************************)
EXTENDS HttpServer, TLC

ConnSymmetry == Permutations(Conns)
=============================================================================

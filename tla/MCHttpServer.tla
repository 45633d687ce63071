---------------------------- MODULE MCHttpServer ----------------------------
(***************************************************************************)
(* HttpServer for TLC: one pattern matches every path, the other only one. *)
(* Before the first connection is accepted servlets are registered often   *)
(* enough to have each in every order, beside it often enough to take away *)
(* what a request is about to use.                                         *)
(***************************************************************************)
EXTENDS HttpServer

CONSTANTS p1, p2, g1, g2,
          MaxAddsServed     \* bound: registrations, when there are connections

MCMatches == {<<g1, p1>>, <<g1, p2>>, <<g2, p1>>}

Unserved == \A c \in Conns : fd[c] = None

MCNext == Next /\ (adds' <= MaxAddsServed \/ Unserved')

MCSpec == Init /\ [][MCNext]_vars /\ Fairness
==============================================================================

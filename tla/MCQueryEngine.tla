------------------------------ MODULE MCQueryEngine ------------------------------
(* A small instance of QueryEngine: two clients; the cfg bounds the turns and    *)
(* gives the channel one place.                                                   *)
EXTENDS QueryEngine

CONSTANTS c1, c2
MCClient == {c1, c2}
==================================================================================

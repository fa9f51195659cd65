----------------------------- MODULE MCSessionStore -----------------------------
(* Small instances of SessionStore: one process with its turn, its shutdown     *)
(* task and one background agent; two session ids.                              *)
EXTENDS SessionStore

CONSTANTS s1, s2, main, guard, agent
MCSession == {s1, s2}
MCBackground == {agent}
MCNoBackground == {}
=================================================================================

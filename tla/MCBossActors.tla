------------------------------ MODULE MCBossActors ------------------------------
(* A small instance of BossActors: two threads that advance the plan.            *)
EXTENDS BossActors

CONSTANTS d1, d2
MCDriver == {d1, d2}
================================================================================

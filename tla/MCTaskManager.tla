--------------------------- MODULE MCTaskManager ---------------------------
(***************************************************************************)
(* Small instances of TaskManager for TLC.                                 *)
(***************************************************************************)
EXTENDS TaskManager

CONSTANTS g1, s1

\* A background command, and a research worker with a turn limit or without.
Ask(ty, ro, g, li) == [type |-> ty, role |-> ro, group |-> g, session |-> s1,
                       child |-> FALSE, verify |-> FALSE, limited |-> li]

PlainRequests == {Ask("LocalBash", "None", NoGroup, TRUE),
                  Ask("LocalAgent", "Research", g1, TRUE),
                  Ask("LocalAgent", "Research", g1, FALSE)}
=============================================================================

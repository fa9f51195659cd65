----------------------------- MODULE PermitPool -----------------------------
(***************************************************************************)
(* What the subagent limiter promises to its callers at the least: however *)
(* its limit moves, permits are handed out of a pool of Max.               *)
(***************************************************************************)
EXTENDS Integers

CONSTANTS Agent, Max

VARIABLES holders, free

Init == holders = {} /\ free = Max

Grant(a) == /\ a \notin holders /\ free > 0
            /\ holders' = holders \cup {a}
            /\ free' = free - 1

Return(a) == /\ a \in holders
             /\ holders' = holders \ {a}
             /\ free' = free + 1

\* A permit that is given back while somebody waits changes hands at once.
HandOver(a, b) == /\ a \in holders /\ b \notin holders
                  /\ holders' = (holders \ {a}) \cup {b}
                  /\ UNCHANGED free

Next == \/ \E a \in Agent : Grant(a) \/ Return(a)
        \/ \E a, b \in Agent : HandOver(a, b)

Spec == Init /\ [][Next]_<<holders, free>>
=============================================================================

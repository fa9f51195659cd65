------------------------- MODULE MCCoordinatorTurn -------------------------
(***************************************************************************)
(* Small instance of CoordinatorTurn: one session and one group of workers *)
(* that implement and are to be verified, verify, or do research.          *)
(***************************************************************************)
EXTENDS CoordinatorTurn

CONSTANTS g1, s1

Ask(ro, ch, ve) == [type |-> "LocalAgent", role |-> ro, group |-> g1,
                    session |-> s1, child |-> ch, verify |-> ve, limited |-> FALSE]

TurnRequests == {Ask("Implement", FALSE, TRUE), Ask("Verify", TRUE, FALSE),
                 Ask("Research", FALSE, FALSE)}

Researches(t) == t \in 0 .. next - 1 /\ asked[t].role = "Research"

Others == {t \in 0 .. next - 1 : t \notin own}

\* Bounds: the group does research or it implements and verifies, not both; of two
\* researchers, who are alike, only the first is killed; and one task is made by others,
\* the later one.
OneKind == /\ \A t, u \in 0 .. next - 1 : Researches(t) => Researches(u)
           /\ \A k \in Killer : Researches(target[k]) => target[k] = 0
           /\ Others \subseteq {1}
=============================================================================

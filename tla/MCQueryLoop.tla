---------------------------- MODULE MCQueryLoop ----------------------------
(***************************************************************************)
(* Small instances of QueryLoop for TLC.                                   *)
(***************************************************************************)
EXTENDS QueryLoop

CONSTANTS n1, v1

Plain == [role |-> "main", history |-> TRUE, raised |-> FALSE,
          prompt |-> "allow", tool |-> "allow", stop |-> "allow"]

\* Every role with and without history, and every setting of each hook.
Setups ==
  {[Plain EXCEPT !.role = r, !.history = h] : r \in {"main", "coordinator", "worker"},
                                              h \in BOOLEAN}
  \cup {[Plain EXCEPT !.raised = TRUE]}
  \cup {[Plain EXCEPT !.prompt = p] : p \in {"says", "deny"}}
  \cup {[Plain EXCEPT !.tool = t] : t \in {"deny", "ask", "prevent"}}
  \cup {[Plain EXCEPT !.role = r, !.stop = x] : r \in {"main", "worker"},
                                                 x \in {"says", "prevent", "block"}}
=============================================================================

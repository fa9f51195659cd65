------------------------------- MODULE MCToolPhase -------------------------------
(* A small instance of ToolPhase: two reads that may run together, and three     *)
(* commands, one allowed, one to be approved and one denied.                     *)
EXTENDS ToolPhase

CONSTANTS read1, read2, list, remove, format, terminal

MCCall == {read1, read2, list, remove, format}
MCToolOf == [c \in MCCall |-> IF c \in {read1, read2} THEN "Read" ELSE "Bash"]
MCRuleOf == [c \in MCCall |-> CASE c = remove -> "Bash(remove)" [] c = format -> "none"
                                [] OTHER -> MCToolOf[c]]
MCSafe == {read1, read2}
MCPolicy == [c \in MCCall |-> CASE c = remove -> "ask" [] c = format -> "deny"
                                [] OTHER -> "allow"]
MCSurface == {terminal}
==================================================================================

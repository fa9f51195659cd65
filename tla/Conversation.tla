---------------------------- MODULE Conversation ----------------------------
(***************************************************************************)
(* What the owner of a conversation promises to its clients and to who     *)
(* resumes it later: turns have the floor one at a time; only the turn     *)
(* that has it adds messages, each of them after all that is stored; and a *)
(* client that stays hears its turn out only when the turn is over, once.  *)
(***************************************************************************)
EXTENDS Naturals, Sequences

CONSTANTS NoTurn,   \* nobody has the floor
          Number    \* the numbers a turn's messages may have

VARIABLES
  begun,    \* how many turns have begun
  floor,    \* the turn that has the floor
  store,    \* the messages, each with its turn and its number
  heard,    \* the turns whose client was given the whole answer
  left      \* the turns whose client went away before that

vars == <<begun, floor, store, heard, left>>

Init == /\ begun = 0 /\ floor = NoTurn /\ store = << >>
        /\ heard = {} /\ left = {}

Begin == /\ floor = NoTurn
         /\ begun' = begun + 1 /\ floor' = begun + 1
         /\ UNCHANGED <<store, heard, left>>

Say(n) == /\ floor # NoTurn
          /\ \A i \in DOMAIN store : \/ store[i][1] < floor
                                     \/ store[i][1] = floor /\ store[i][2] < n
          /\ store' = Append(store, <<floor, n>>)
          /\ UNCHANGED <<begun, floor, heard, left>>

End == /\ floor # NoTurn
       /\ floor' = NoTurn
       /\ UNCHANGED <<begun, store, heard, left>>

Attended(t) == t \in 1 .. begun /\ t \notin heard \cup left

HearOut(t) == /\ Attended(t) /\ t # floor
              /\ heard' = heard \cup {t}
              /\ UNCHANGED <<begun, floor, store, left>>

Leave(t) == /\ Attended(t)
            /\ left' = left \cup {t}
            /\ UNCHANGED <<begun, floor, store, heard>>

Next == \/ Begin \/ End
        \/ \E n \in Number : Say(n)
        \/ \E t \in 1 .. begun : HearOut(t) \/ Leave(t)

Spec == Init /\ [][Next]_vars
=============================================================================

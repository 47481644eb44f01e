------------------------------ MODULE OneTrial ------------------------------
(***************************************************************************)
(* What the Stage-7 prereg promises of a decision lineage: one selection,  *)
(* made before segment C is scored and never remade; one scoring of        *)
(* segment C, of the selected configuration; one conclusion.               *)
(***************************************************************************)
CONSTANTS
    Config,         \* configurations
    Halt,           \* selections that select nothing
    Nil

VARIABLES
    chosen,         \* the selected configuration, a Halt, or Nil
    scored,         \* segment C has been scored
    concluded       \* the final receipt is written

Init == chosen = Nil /\ ~scored /\ ~concluded

Select(c) == chosen = Nil /\ chosen' = c /\ UNCHANGED <<scored, concluded>>

SelectNone(h) == chosen = Nil /\ chosen' = h /\ concluded' /\ UNCHANGED scored

Score == /\ chosen \in Config /\ ~scored
         /\ scored'
         /\ UNCHANGED <<chosen, concluded>>

Conclude == /\ scored /\ ~concluded
            /\ concluded'
            /\ UNCHANGED <<chosen, scored>>

Next == \/ \E c \in Config : Select(c)
        \/ \E h \in Halt : SelectNone(h)
        \/ Score
        \/ Conclude

Spec == Init /\ [][Next]_<<chosen, scored, concluded>>
===============================================================================

------------------------------ MODULE OneAnswer ------------------------------
(***************************************************************************)
(* What an answering service promises its clients: a question that has     *)
(* been asked is answered once, and the answer never changes, however      *)
(* often the question is asked and however many servers work on it.        *)
(***************************************************************************)
CONSTANTS
    Key,            \* questions
    Result,         \* answers
    Nil             \* no answer yet

VARIABLES
    asked,          \* the questions asked
    answer          \* answer[k], or Nil

OneAnswerVars == <<asked, answer>>

Init == asked = {} /\ answer = [k \in Key |-> Nil]

Ask(k) == asked' = asked \cup {k} /\ UNCHANGED answer

Answer(k, r) == /\ k \in asked /\ answer[k] = Nil
                /\ answer' = [answer EXCEPT ![k] = r]
                /\ UNCHANGED asked

Next == \E k \in Key : Ask(k) \/ \E r \in Result : Answer(k, r)

Spec == Init /\ [][Next]_OneAnswerVars
===============================================================================

------------------------------ MODULE R1Journal ------------------------------
(***************************************************************************)
(* What the GitHub runtime ledger promises its callers: one history of     *)
(* ledger entries that is only ever extended, of which at most the last    *)
(* entry is not published yet.                                             *)
(***************************************************************************)
EXTENDS Naturals, Sequences

CONSTANT Entry

VARIABLES
    hist,           \* the entries, oldest first
    published       \* how many of them readers are given

Init == hist = <<>> /\ published = 0

(* An entry is decided by whoever extends the history first; nobody can    *)
(* before the previous entry is published.                                 *)
Extend == /\ published = Len(hist)
          /\ \E e \in Entry : hist' = Append(hist, e)
          /\ UNCHANGED published

Publish == /\ published < Len(hist)
           /\ published' = Len(hist)
           /\ UNCHANGED hist

Next == Extend \/ Publish

Spec == Init /\ [][Next]_<<hist, published>>
=============================================================================

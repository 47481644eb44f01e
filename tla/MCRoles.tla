------------------------------- MODULE MCRoles -------------------------------
(* The relay, the orchestrator, the policy stores and the core's tasks for *)
(* TLC.  They share no state: part says which of them a behaviour is of,   *)
(* and the others rest.  The core runs with requests that conflict, or     *)
(* with one content, faults and a switch.                                  *)
EXTENDS RoleRelay, Orchestrator, PolicyStores, CoreTasks, TLC

CONSTANTS d1, d2, b1, b2, m1, m2, x1, x2

VARIABLE part

MCToken == 1..5
MCClaim == 1..3

(* Two domains and two branches, of which three pairs occur; two policies, *)
(* two source documents (one narrower, on another main), and proposals     *)
(* that reorder, narrow, widen, substitute, repeat, rotate and move.       *)
AA == <<d1, b1>>
BB == <<d2, b2>>
AB == <<d1, b2>>
PairMC == {AA, BB, AB}
PolicyMC == {{AA, BB}, {AA}}
Wide == [bindings |-> <<AA, BB>>, main |-> m1, identity |-> "as_reviewed", guarded |-> TRUE]
Narrow == [Wide EXCEPT !.bindings = <<AA>>, !.main = m2]
SourceMC == {Wide, Narrow}
ProposalMC ==
    {[Wide EXCEPT !.bindings = s] : s \in {<<AA, BB>>, <<BB, AA>>, <<AA>>, <<AA, AB>>, <<AA, AA>>, <<>>}}
    \cup {[Wide EXCEPT !.identity = "rotated"], [Narrow EXCEPT !.guarded = FALSE], Narrow}

RolesInit ==
    /\ part \in {"relay", "orchestrator", "stores", "core", "faulty"}
    /\ RelayInit /\ OrchInit /\ StoresInit /\ CoreInit

Conflicting == faults' = 0 /\ \A i \in DOMAIN audit' : audit'[i].task # Null
Faulty == \A t \in CoreTask : tasks'[t].content # x2

(* The core may stop where it is; the others stop when all is done.        *)
RolesNext ==
    /\ UNCHANGED part
    /\ \/ /\ part = "relay" /\ (RelayNext \/ \E k \in Key : Enqueue(k))
          /\ UNCHANGED <<orchVars, storeVars, coreVars>>
       \/ /\ part = "orchestrator" /\ OrchNext
          /\ UNCHANGED <<relayVars, storeVars, coreVars>>
       \/ /\ part = "stores" /\ StoresNext
          /\ UNCHANGED <<relayVars, orchVars, coreVars>>
       \/ /\ \/ part = "core" /\ CoreNext /\ Conflicting
             \/ part = "faulty" /\ CoreNext /\ Faulty
             \/ part \in {"core", "faulty"} /\ UNCHANGED coreVars
          /\ UNCHANGED <<relayVars, orchVars, storeVars>>

RolesSpec == RolesInit /\ [][RolesNext]_<<part, relayVars, orchVars, storeVars, coreVars>>

(* What has been settled stays: a task that has ended as it ended, the pin *)
(* of a file, the job of a key, and a result that has been vouched for     *)
(* (run_until_terminal, _bind_policy, enqueue, apply_receipt).             *)
SettledForGood == TerminalFinal /\ PinFinal /\ ResultFixed
===============================================================================

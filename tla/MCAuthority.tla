----------------------------- MODULE MCAuthority -----------------------------
(* The activation of production and the provisioning of its writer key for *)
(* TLC.  part says what a behaviour is of: "one" production process, "two" *)
(* of them that issue nothing, under either of two receipts, or the        *)
(* provisioner's runs ("key").                                             *)
(*                                                                         *)
(* Three commits of main: a deny-all root, one whose manifest carries a    *)
(* bundle, and one that puts safe mode on again; and, of the receipts, one *)
(* in order, its replacement after the rules were edited twice with the    *)
(* same key and with another, one that outlasts the decisions, and one for *)
(* the deny-all root.                                                      *)
EXTENDS Activation, WriterKey, TLC

CONSTANTS p1, p2, e1, k1, k2

VARIABLE part

ManifestMC ==
    0 :> [bundles |-> {}, safe |-> TRUE, issued |-> 0, expires |-> 0]
    @@ 1 :> [bundles |-> {e1}, safe |-> FALSE, issued |-> 0, expires |-> 2]
    @@ 2 :> [bundles |-> {e1}, safe |-> TRUE, issued |-> 0, expires |-> 2]

ReceiptFor(m, x, v, k) == [main |-> m, activated |-> 0, expires |-> x, ruleset |-> v, key |-> k]

ReceiptsMC == {ReceiptFor(1, 2, 0, k1), ReceiptFor(1, 2, 2, k1), ReceiptFor(1, 2, 2, k2),
               ReceiptFor(1, 3, 0, k1), ReceiptFor(0, 2, 0, k1)}

Rivals == {Nil, ReceiptFor(1, 2, 0, k1), ReceiptFor(1, 2, 2, k1)}

AuthorityInit ==
    \/ part \in {"one", "two"} /\ Init /\ env = "absent" /\ repoSecret = FALSE /\ KeyInit
    \/ part = "key" /\ main = 0 /\ Init /\ KeyInit

AuthorityNext ==
    /\ UNCHANGED part
    /\ \/ /\ part = "one" /\ Next /\ UNCHANGED keyVars
          /\ pc'[p2] = pc[p2] /\ tag' # ReceiptFor(1, 2, 2, k1)
       \/ /\ part = "two" /\ Next /\ UNCHANGED keyVars
          /\ tag' \in Rivals /\ now' < MaxTime
          /\ \A p \in Process : key'[p] # k2 /\ purpose'[p] # "adapter"
       \/ part = "key" /\ KeyNext /\ UNCHANGED vars

AuthoritySpec == AuthorityInit /\ [][AuthorityNext]_<<part, vars, keyVars>>
===============================================================================

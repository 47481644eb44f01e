\* One process and both adapter classes; two processes; three runs of the provisioner.
CONSTANTS
    p1 = p1  p2 = p2  e1 = e1  k1 = k1  k2 = k2
    Process = {p1, p2}
    Envelope = {e1}
    Key = {k1, k2}
    Nil = Nil
    Manifest <- ManifestMC
    Receipts <- ReceiptsMC
    Adapter = {"v1", "v2"}
    MaxMain = 2
    MaxMoves = 2
    Unset = Unset
    MaxTime = 3
    MaxEdits = 2
    MaxHead = 1
    Run = {r1, r2, r3}
SPECIFICATION AuthoritySpec
INVARIANTS ActivationInvariant KeyInvariant
PROPERTIES NoTakeover
CHECK_DEADLOCK FALSE

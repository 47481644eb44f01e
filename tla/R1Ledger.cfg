\* Two invocations write the ledger: claim, persist, persist, release, and claim again.
CONSTANTS
    Writer = {w1, w2}
    Nil = Nil
    MaxSequence = 5
    MaxReceipts = 2
SPECIFICATION Spec
INVARIANTS LedgerInvariant
PROPERTIES LedgerStops ImplementsJournal
CHECK_DEADLOCK FALSE

\* The Stage 1 runtime with the adapter of the GitHub ledger.
CONSTANTS
    Parts = {"stage1"}
    Strict = TRUE
    Nil = Nil
    c1 = c1  d1 = d1  e1 = e1  i1 = i1  i2 = i2  k1 = k1  k2 = k2
    p1 = p1  p2 = p2  task1 = task1  o = o  fit1 = fit1  l1 = l1  l2 = l2
SPECIFICATION LiveSpec
PROPERTY ReceiptCounted
CHECK_DEADLOCK FALSE

SPECIFICATION Spec
CONSTANTS
    t1 = t1  t2 = t2  k1 = k1  k2 = k2  v1 = v1  v2 = v2
    Txs = {t1, t2}
    Keys = {k1, k2}
    Values = {v1, v2}
    NoRecord = noRecord
    Unstaged = unstaged
    MaxWrites = 2
SYMMETRY TxSymmetry
INVARIANTS ReadYourWrites ReadAllAgrees
 

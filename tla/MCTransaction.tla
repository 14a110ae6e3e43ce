---------------------------- MODULE MCTransaction ----------------------------
(* Transactions over interchangeable keys, values and transactions.        *)
EXTENDS Transaction, TLC

CONSTANTS t1, t2, k1, k2, v1, v2

TxSymmetry == Permutations(Txs) \union Permutations(Keys) \union Permutations(Values)
=============================================================================

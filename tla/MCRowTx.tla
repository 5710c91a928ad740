------------------------------- MODULE MCRowTx ------------------------------
EXTENDS RowTxProps, TLC

CONSTANTS w1, w2, w3

OneWrite == {w1}
ThreeWrites == {w1, w2, w3}
WriteSymmetry == Permutations(Writes)
=============================================================================

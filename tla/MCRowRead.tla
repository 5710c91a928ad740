----------------------------- MODULE MCRowRead ------------------------------
EXTENDS RowRead

CONSTANTS r1, r2

Two == {r1, r2}
=============================================================================

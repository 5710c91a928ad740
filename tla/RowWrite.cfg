SPECIFICATION Spec
CONSTANT Inputs <- Calls
INVARIANTS StatementsSplitValues WhatLands FilledFromOwnRow

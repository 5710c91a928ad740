----------------------------- MODULE MCRowRetry -----------------------------
EXTENDS RowRetry

CONSTANTS r1, r2

TwoRows == {r1, r2}

(* The default's shape (a cap reached after some doublings), one attempt asked
   for in two ways, no delay, no cap, with a cap or without as many attempts as it
   takes to overflow, and delays no wait can be drawn from: the longest Duration
   and a negative one. *)
Tried ==
  { [attempts |-> 5, base |-> 3, max |-> 10],
    [attempts |-> 0, base |-> 1, max |-> 0],
    [attempts |-> 1, base |-> 1, max |-> 2],
    [attempts |-> 3, base |-> 0, max |-> 0],
    [attempts |-> 4, base |-> 2, max |-> 0],
    [attempts |-> 9, base |-> 1, max |-> 0],
    [attempts |-> 9, base |-> 3, max |-> 10],
    [attempts |-> 2, base |-> 127, max |-> 0],
    [attempts |-> 2, base |-> -2, max |-> 10] }

(* Each code the adapters name, an internal error, an unsupported feature, and
   result codes next to the named ones: a trigger's constraint, a table locked in
   a shared cache or by a virtual table. *)
AllReports ==
  [postgres |-> {"23505", "23503", "23502", "23514", "40P01", "40001", "55P03", "57014",
                 "0A000", "XX000"},
   sqlite |-> {2067, 1555, 2579, 787, 1299, 275, 5, 261, 517, 6, 773, 9, 1, 1811, 262, 518}]
=============================================================================

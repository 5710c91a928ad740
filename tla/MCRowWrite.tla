----------------------------- MODULE MCRowWrite -----------------------------
EXTENDS RowWrite

(* Up to four values of two columns; limits that allow one, two or three rows
   exactly, two and a half, less than one, and any number. *)
Calls ==
  { i \in [n : 0..4, nils : SUBSET (0..3), cols : {0, 2}, limit : {0, 1, 2, 4, 5, 6},
           returning : BOOLEAN, supported : BOOLEAN, inTx : BOOLEAN] :
      i.nils \subseteq 0..(i.n - 1) /\ Cardinality(i.nils) <= 1 }
=============================================================================

------------------------------- MODULE Totals -------------------------------
(***************************************************************************)
(* The total of a finite family of token amounts.  The units of a family   *)
(* are its single coins, each tagged with the index it is booked under;    *)
(* the total is their number.  Counting coins instead of folding keeps the *)
(* definition within reach of the theorems about finite cardinalities.     *)
(***************************************************************************)
EXTENDS Naturals, FiniteSets

Cell(f, x) == {x} \X (1 .. f[x])
Units(f) == UNION {Cell(f, x) : x \in DOMAIN f}
Total(f) == Cardinality(Units(f))
=============================================================================

------------------------------- MODULE MCDesk ------------------------------
(***************************************************************************)
(* Model values and symmetry for model-checking StraddleSettlement.        *)
(***************************************************************************)
EXTENDS StraddleSettlement, TLC

\* Strikes are only compared for equality; so are books, when all are live.
StrikeSymmetry == Permutations(Strikes)
DeskSymmetry == Permutations(Strikes) \cup Permutations(Books)
=============================================================================

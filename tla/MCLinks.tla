------------------------------ MODULE MCLinks ------------------------------
(* Links for TLC: three phones for two entries of each kind, so that every  *)
(* table runs full and a freed entry goes to another phone.                 *)
EXTENDS Links, TLC

\* Phones and the tables are treated alike: the phones may be permuted.
Symmetry == Permutations(Phones)

=============================================================================

-------------------------- MODULE MCLinkbackQueue --------------------------
(* LinkbackQueue with small sets: one device more than the pool has items,  *)
(* so that the pool runs full while a device is refused.                    *)
EXTENDS LinkbackQueue, TLC

Symmetry == Permutations(Addr)

=============================================================================

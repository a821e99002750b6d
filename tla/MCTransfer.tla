----------------------------- MODULE MCTransfer -----------------------------
(* Transfer for TLC: one link of each transport, a ring of two slots and    *)
(* packets enough to wrap it, two of them alike for the phone.              *)
EXTENDS Transfer

=============================================================================

------------------------------ MODULE GuestLease ------------------------------
(***************************************************************************)
(* What the VM pool is promised by whoever borrows a guest from it:        *)
(* cowrie/src/cowrie/pool_interface/client.py, as the sessions of the SSH  *)
(* and the telnet proxy use it.  A guest is lent once, given back at most  *)
(* once, and called dirty just when it had been used by then; what a use   *)
(* is, each of the two says for itself.                                    *)
(***************************************************************************)

VARIABLES
  vm,   \* the guest, as the pool sees it
  used  \* the session used the guest

Lent == vm = "none" /\ vm' = "held" /\ UNCHANGED used

Used == used' = TRUE /\ UNCHANGED vm

GivenBack ==
  /\ vm = "held"
  /\ \/ used /\ vm' = "dirty"
     \/ ~used /\ vm' = "clean"
  /\ UNCHANGED used

LeaseInit == vm = "none" /\ used = FALSE
LeaseNext == Lent \/ Used \/ GivenBack

LeaseSpec == LeaseInit /\ [][LeaseNext]_<<vm, used>>
=============================================================================

-------------------------- MODULE ReliableTransfer --------------------------
(***************************************************************************)
(* What one direction of a signalling link promises its users (the "error- *)
(* free, in-sequence signalling link" of src/src/lib.rs): the MSUs are     *)
(* numbered as MTP3 hands them over, MTP3 at the far end gets 1, 2, 3, ... *)
(* and the sender lets go of an MSU only after it has been delivered.      *)
(***************************************************************************)
EXTENDS Integers, Sequences

VARIABLES
    submitted,    \* how many MSUs the sending user has handed over
    delivered,    \* the MSUs the receiving user has been given, oldest first
    released      \* how many MSUs the sender has stopped keeping

vars == <<submitted, delivered, released>>

Init == submitted = 0 /\ delivered = <<>> /\ released = 0

Submit ==
    /\ submitted' = submitted + 1
    /\ UNCHANGED <<delivered, released>>

Deliver ==
    /\ Len(delivered) < submitted
    /\ delivered' = Append(delivered, Len(delivered) + 1)
    /\ UNCHANGED <<submitted, released>>

Release ==
    /\ released' \in released + 1 .. Len(delivered)
    /\ UNCHANGED <<submitted, delivered>>

Next == Submit \/ Deliver \/ Release

Spec == Init /\ [][Next]_vars
=============================================================================

---------------------------- MODULE MCGuestMonitor ----------------------------
(* The instance of GuestMonitor for TLC: two streams, one block kept of two. *)
EXTENDS GuestMonitor

=============================================================================

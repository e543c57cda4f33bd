------------------------------ MODULE MCBridge ------------------------------
(***************************************************************************)
(* Instances of Bridge for TLC.                                            *)
(***************************************************************************)
EXTENDS BridgeBus, TLC

\* The reset changes away from the rising edge, as in tb.vhd, or at any time.
SyncWindow == {"0"}
FreeWindow == {"0", "1"}

\* Instances are interchangeable (safety runs only).
CoreSymmetry == Permutations(Cores)

=============================================================================

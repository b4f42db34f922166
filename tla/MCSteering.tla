----------------------------- MODULE MCSteering -----------------------------
(* Small instances of Plans and Steering for TLC. *)
EXTENDS WorkSteering
=============================================================================

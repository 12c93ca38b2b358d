----------------------------- MODULE MCSacSocket -----------------------------
(* Instances of SacSocket for TLC. *)
EXTENDS SacSocket

=============================================================================

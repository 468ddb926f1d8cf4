------------------------------ MODULE MCShmXfr ------------------------------
(* Small instances of ShmXfr for TLC.                                      *)
EXTENDS ShmXfr, TLC

=============================================================================

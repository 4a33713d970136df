--------------------------- MODULE MCRefundLedger ---------------------------
(* Small instances of RefundLedger for TLC. *)
EXTENDS RefundLedger

CONSTANTS first, second

MCDays == {{"repeat"}, {"reorder"}, {"timeout"}, {"again", "late failure"}}

=============================================================================

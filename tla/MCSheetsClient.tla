--------------------------- MODULE MCSheetsClient ---------------------------
(* Small instances of SheetsClient for TLC. *)
EXTENDS SheetsClient

CONSTANTS read, write
=============================================================================

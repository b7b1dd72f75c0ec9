---------------------------- MODULE MCPrintQueue ----------------------------
(***************************************************************************)
(* Bounds for TLC: two users and two printers compete for two slots, and   *)
(* the program is restarted once, anywhere.                                *)
(***************************************************************************)
EXTENDS PrintQueue

=============================================================================

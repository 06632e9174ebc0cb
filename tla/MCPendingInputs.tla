--------------------------- MODULE MCPendingInputs ---------------------------
(* Small instances of PendingInputs for TLC.                                *)
EXTENDS PendingInputs
==============================================================================

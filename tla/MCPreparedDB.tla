--------------------------- MODULE MCPreparedDB ----------------------------
(***************************************************************************)
(* PreparedDB for TLC, with the two connections that the documentation     *)
(* recommends as the least.                                                *)
(***************************************************************************)
EXTENDS PreparedDB
=============================================================================

----------------------------- MODULE MCPipeRing -----------------------------
(***************************************************************************)
(* PipeRing on small instances.  A capacity of 3 with calls of up to 4     *)
(* bytes and 6 bytes in all makes both positions wrap at every offset and  *)
(* every call partial in some state.                                       *)
(***************************************************************************)
EXTENDS PipeRing
=============================================================================

----------------------------- MODULE MCDumpRun ------------------------------
(***************************************************************************)
(* DumpRun on small inputs.                                                *)
(***************************************************************************)
EXTENDS DumpRun, MCPacketFramer
=============================================================================

--------------------------- MODULE MCProgramClock ---------------------------
(***************************************************************************)
(* ProgramClock under every sequence of calls.                             *)
(***************************************************************************)
EXTENDS ProgramClock

CONSTANTS p1, p2

MCPids == {p1, p2}
MCUnixTimes == 0..2
=============================================================================

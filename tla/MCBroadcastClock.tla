-------------------------- MODULE MCBroadcastClock --------------------------
(***************************************************************************)
(* BroadcastClock with a small wrap and every moment to splice, to send    *)
(* and to lose a PCR.                                                      *)
(***************************************************************************)
EXTENDS BroadcastClock

CONSTANT p1

MCPids == {p1}
MCUnixTimes == 0..(EndTime \div TicksPerMs)
\* Jumps that can pass for an advance or fail to, either way round, and one in between.
MCJumps ==
    1..(MaxSaneDelta + 1) \cup {Modulus \div 2}
      \cup (Modulus - PcrInterval * (ConfirmCount + MaxLost) - 1)..(Modulus - 1)
=============================================================================

---------------------------- MODULE FramedStream ----------------------------
(***************************************************************************)
(* What framing a TS input promises, said over the whole byte stream: no   *)
(* chunks, no reassembly buffer, no counters.  The stream is cut into      *)
(* packets from the first position at which SyncProbePackets consecutive   *)
(* packets all start with a sync byte, for as long as every packet starts  *)
(* with one; where that stops, the cutting resumes at the next such        *)
(* position.  PacketFramer implements this specification.                  *)
(***************************************************************************)
EXTENDS Naturals, Sequences

CONSTANTS PktSize,            \* ts::PKT_SIZE
          SyncProbePackets,   \* kSyncProbePackets
          Streams             \* the inputs: [len : Nat, sync : offsets holding 0x47]

VARIABLES stream,    \* the input being framed
          pos,       \* offset of the first byte not yet cut or skipped; 0 once decided
          phase,     \* "initial": never locked; "locked"; "lost": locked before
          out,       \* the packets handed to the handler, each a sequence of offsets
          verdict    \* "running", or the ReadFrameStatus

vars == <<stream, pos, phase, out, verdict>>

Packet(q) == [i \in 1..PktSize |-> q + i - 1]
Run(q, k) == [j \in 1..k |-> Packet(q + (j - 1) * PktSize)]

\* SyncProbePackets whole packets, each starting with a sync byte, start at q.
Aligned(q) ==
    /\ q + SyncProbePackets * PktSize <= stream.len
    /\ \A i \in 0..(SyncProbePackets - 1) : q + i * PktSize \in stream.sync

NothingAligned(from, to) == \A q \in from..(to - 1) : ~Aligned(q)

Init ==
    /\ stream \in Streams
    /\ pos = 0
    /\ phase = "initial"
    /\ out = << >>
    /\ verdict = "running"

Decide(v) == verdict' = v /\ pos' = 0

\* Pass over bytes at which no alignment starts.
Skip(q) ==
    /\ verdict = "running"
    /\ phase # "locked"
    /\ q \in (pos + 1)..stream.len
    /\ phase = "initial" => q < PktSize
    /\ NothingAligned(pos, q)
    /\ pos' = q
    /\ UNCHANGED <<stream, phase, out, verdict>>

\* Lock at the first alignment: its packets are delivered together.
Lock(q) ==
    /\ verdict = "running"
    /\ phase # "locked"
    /\ q \in pos..stream.len
    /\ NothingAligned(pos, q)
    /\ Aligned(q)
    /\ phase = "initial" => q < PktSize
    /\ \/ /\ out' = out \o Run(q, SyncProbePackets)
          /\ pos' = q + SyncProbePackets * PktSize
          /\ phase' = "locked"
          /\ UNCHANGED verdict
       \/ /\ \E k \in 1..SyncProbePackets : out' = out \o Run(q, k)
          /\ Decide("kFailed")
          /\ UNCHANGED phase
    /\ UNCHANGED stream

\* While locked, the next packet is delivered if it starts with a sync byte.
Deliver ==
    /\ verdict = "running"
    /\ phase = "locked"
    /\ pos \in stream.sync
    /\ pos + PktSize <= stream.len
    /\ out' = Append(out, Packet(pos))
    /\ \/ pos' = pos + PktSize /\ UNCHANGED verdict
       \/ Decide("kFailed")
    /\ UNCHANGED <<stream, phase>>

LoseSync ==
    /\ verdict = "running"
    /\ phase = "locked"
    /\ pos < stream.len
    /\ pos \notin stream.sync
    /\ phase' = "lost"
    /\ UNCHANGED <<stream, pos, out, verdict>>

\* No alignment starts in the first packet's length of the input.
NoSync ==
    /\ verdict = "running"
    /\ phase = "initial"
    /\ NothingAligned(pos, PktSize)
    /\ Decide("kNoSync")
    /\ UNCHANGED <<stream, phase, out>>

\* The input is used up: what is left is less than a packet, or holds no alignment.
Finish ==
    /\ verdict = "running"
    /\ \/ phase = "locked" /\ stream.len < pos + PktSize
       \/ phase = "lost" /\ NothingAligned(pos, stream.len)
    /\ Decide("kOk")
    /\ UNCHANGED <<stream, phase, out>>

\* Reading fails.
Fail ==
    /\ verdict = "running"
    /\ Decide("kFailed")
    /\ UNCHANGED <<stream, phase, out>>

Next ==
    \/ \E q \in 0..stream.len : Skip(q) \/ Lock(q)
    \/ Deliver
    \/ LoseSync
    \/ NoSync
    \/ Finish
    \/ Fail

Spec == Init /\ [][Next]_vars
=============================================================================

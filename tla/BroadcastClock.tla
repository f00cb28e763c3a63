--------------------------- MODULE BroadcastClock ---------------------------
(***************************************************************************)
(* ProgramClock at the end of a broadcast: how wrong can a caption's time  *)
(* be?  A broadcaster keeps a true clock, stamps PCRs and PTSs with it     *)
(* plus the offset of the current series, splices to another series with   *)
(* or without the discontinuity flag, and sends TOTs.  PCR packets can be  *)
(* lost on the way.  The service's PCR PID is known and does not change    *)
(* (ProgramClock and CaptionDumper have PID changes).                      *)
(*                                                                         *)
(* Only the clock is code; the broadcaster is the environment.             *)
(***************************************************************************)
EXTENDS ProgramClock

CONSTANTS PcrPid,        \* the service's PCR PID
          PcrInterval,   \* a PCR is sent at least every so many ticks
          Jumps,         \* by how much a splice can change the series' offset
          MaxSplices,    \* bound: splices in a behaviour
          MaxLost,       \* bound: PCRs lost in a behaviour
          EndTime,       \* bound: ticks in a behaviour
          Lead           \* how far ahead of its transmission a caption can be shown

ASSUME PcrIntervalAssumption == PcrInterval \in 1..MaxSaneDelta
ASSUME BroadcastAssumption ==
    /\ PcrPid \in Pids /\ Jumps \subseteq Int
    /\ EndTime \in Nat /\ Lead \in Nat
    /\ 0..(EndTime \div TicksPerMs) \subseteq UnixTimes    \* a TOT may come at any time

VARIABLES now,        \* the broadcaster's clock, in ticks
          offset,     \* PCR = now + offset in the current series
          flag,       \* the next PCR is the first of a flagged series
          since_pcr,  \* ticks since a PCR was sent
          splices,    \* splices so far
          lost        \* PCRs lost so far

sender == <<now, offset, flag, since_pcr, splices, lost>>

VARIABLES last_at,    \* history: when the last PCR that arrived was sent
          fresh,      \* history: that PCR is of the current series
          arrived,    \* history: PCRs of the current series arrived in a row
          unseen,     \* history: a splice since the last PCR that was accepted
          silent,     \* history: splices accepted as continuous since the reference
          anchor_age, \* history: how old the reference's PCR was when it was taken
          anchor_at,  \* history: when the reference was taken
          settled     \* history: a TOT came after the new series was established

history == <<last_at, fresh, arrived, unseen, silent, anchor_age, anchor_at, settled>>
allVars == <<vars, sender, history>>

StreamTime(at) == (at + offset) % Modulus

BInit ==
    /\ clock = SetPcrPid(NewClock, PcrPid)
    /\ reported = None /\ current = FALSE
    /\ now = 0 /\ offset = 0 /\ flag = FALSE
    /\ since_pcr = 0 /\ splices = 0 /\ lost = 0
    /\ last_at = 0 /\ fresh = FALSE /\ arrived = 0 /\ unseen = FALSE /\ silent = 0
    /\ anchor_age = 0 /\ anchor_at = 0 /\ settled = FALSE

Tick ==
    /\ now < EndTime
    /\ since_pcr < PcrInterval
    /\ now' = now + 1
    /\ since_pcr' = since_pcr + 1
    /\ UNCHANGED <<vars, offset, flag, splices, lost, history>>

\* The programme changes: PCRs and PTSs go on in another series.
Splice(jump, flagged) ==
    /\ splices < MaxSplices
    /\ offset' = (offset + jump) % Modulus
    /\ flag' = flagged
    /\ splices' = splices + 1
    /\ fresh' = FALSE /\ arrived' = 0 /\ unseen' = TRUE /\ settled' = FALSE
    /\ UNCHANGED <<vars, now, since_pcr, lost, last_at, silent, anchor_age, anchor_at>>

SendPcr ==
    LET packet == [pid |-> PcrPid, pcr |-> StreamTime(now), discontinuity_indicator |-> flag]
        accepted == clock.last_pcr_90k # None /\ ~flag /\ Continues(clock, packet)
    IN  /\ since_pcr > 0 \/ arrived = 0     \* one PCR of a series at a time
        /\ OnPacket(packet)
        /\ since_pcr' = 0 /\ flag' = FALSE
        /\ last_at' = now /\ fresh' = TRUE
        /\ arrived' = IF arrived < ConfirmCount THEN arrived + 1 ELSE arrived
        /\ unseen' = (unseen /\ clock'.suspect_pcr_count > 0)
        /\ silent' = IF accepted /\ unseen THEN silent + 1 ELSE silent
        /\ UNCHANGED <<now, offset, splices, lost, anchor_age, anchor_at, settled>>

LosePcr ==
    /\ lost < MaxLost
    /\ lost' = lost + 1
    /\ since_pcr' = 0 /\ flag' = FALSE
    /\ UNCHANGED <<vars, now, offset, splices, history>>

\* A TOT carries whole milliseconds.
SendTot ==
    /\ now % TicksPerMs = 0
    /\ OnTot(now \div TicksPerMs)
    /\ IF CanAnchor(clock)
       THEN /\ anchor_age' = now - last_at
            /\ anchor_at' = now
            /\ silent' = 0
       ELSE UNCHANGED <<anchor_age, anchor_at, silent>>
    /\ settled' = (settled \/ arrived = ConfirmCount)
    /\ UNCHANGED <<sender, last_at, fresh, arrived, unseen>>

BNext ==
    \/ Tick
    \/ \E jump \in Jumps, flagged \in BOOLEAN : Splice(jump, flagged)
    \/ SendPcr
    \/ LosePcr
    \/ SendTot

BSpec == BInit /\ [][BNext]_allVars

-----------------------------------------------------------------------------
\* How far a caption's converted time is from the time it is shown, in ticks, for a
\* caption of the current series shown `ahead` ticks from now.
Error(ahead) ==
    TicksPerMs * PtsToUnixMs(clock, StreamTime(now + ahead)) - (now + ahead)

\* The longest time between two PCRs that arrive.
MaxGap == PcrInterval * (1 + lost)

\* A series change can pass for an advance of MaxSaneDelta in no time at all, or for no
\* advance in the time since the last accepted PCR, suspect ones having come between.
SilentShift ==
    LET unaccepted == PcrInterval * (ConfirmCount + lost)
    IN  IF MaxSaneDelta >= unaccepted THEN MaxSaneDelta ELSE unaccepted

ErrorBound == MaxGap + silent * SilentShift + TicksPerMs

\* Once a PCR of the current series has arrived, a caption is either not timed at all or
\* timed to within the longest gap between PCRs (the age of the PCR a TOT is paired
\* with), plus what splices too small to notice have shifted, plus a millisecond of
\* truncation.  (Up to half a wrap after the TOT.)
ErrorIsBounded ==
    fresh /\ Converts(clock) =>
        \A ahead \in 0..Lead :
            (now + ahead) - anchor_at + ErrorBound < Modulus \div 2 =>
                Error(ahead) \in (-ErrorBound)..ErrorBound

\* However a series change is met, captions are timed again after ConfirmCount PCRs of
\* the new series and a TOT, and stay timed until the next change or loss.
TimedAgainAfterSplice == settled /\ lost = 0 => Converts(clock)

\* Without a splice or a loss no discontinuity is reported.
NoFalseAlarm == [][SendPcr /\ reported' # None /\ lost = 0 => unseen]_allVars

\* program_clock.cc:151-152: pairing the TOT's time with the most recent PCR offsets the
\* reference by "up to one PCR interval".  Violated when PCRs are lost: the last one can
\* be as old as the loss is long, and nothing bounds its age.
AnchorWithinPcrInterval == anchor_age <= PcrInterval
=============================================================================

---------------------------- MODULE PacingProofs ----------------------------
(***************************************************************************)
(* The bounds of Pacing, proved for every value of its times: no frame is  *)
(* held past its cap, and the reader sleeps through no notification.       *)
(***************************************************************************)
EXTENDS Pacing, TLAPS

\* What the hold's backstop and the throttle can still ask of a frame's wait.
BackstopLeft == Larger(held, Longest - elapsed)

SyncLeft == Larger(sync, 0)

HoldRest == HoldLeft(quiet, ceiling, held)

\* A frame that waits, between the change that began it and its release.
FrameWaits == dirty /\ ~announced /\ pc # "clear" /\ epc # "clear"

\* Nothing is counted before a frame begins or while its byte is in flight.
CountStarts == ~dirty \/ notified => waiting = 0

\* A frame that waits has its backstop armed; until it runs out the count fits
\* beneath it, and after that beneath the one synchronized frame left.
CountFits ==
  FrameWaits =>
    /\ held # None
    /\ BackstopLeft > 0 => waiting + BackstopLeft <= Larger(HoldCeiling, Longest)
    /\ BackstopLeft = 0 => waiting + SyncLeft < Cap

\* Between the flush of a turn and the adoption of a new deadline, a frame that
\* flush left behind has something of its own to wait for.
FlushMissed ==
  FrameWaits /\ pc \in {"read", "sync"} =>
    waiting = 0 \/ sync > 0 \/ BackstopLeft > 0

\* The reader naps on an announcement.
NapAnnounced == pc = "nap" /\ dirty => announced

\* The reader's sleep is no longer than what is left to wait for; retuning the
\* interval under it can only have shortened the throttle.
Unwoken ==
  pc = "poll" /\ epc = "idle" /\ ~input /\ ~interrupt /\ dirty /\ ~notified

SleepFits ==
  Unwoken =>
    LET rest == Larger(SyncLeft, HoldRest)
    IN  /\ sleep <= Larger(Longest - elapsed, rest)
        /\ ~retuned => sleep <= Larger(ThrottleLeft, rest)

IInv == /\ TypeOK
        /\ SyncNotStale
        /\ CountStarts
        /\ CountFits
        /\ FlushMissed
        /\ NapAnnounced
        /\ SleepFits
        /\ FrameHoldBounded
-----------------------------------------------------------------------------
(* The ranges *)

\* A timeout rounded down is no longer than what it was computed from.
LEMMA RoundedDown ==
  ASSUME NEW a \in Nat, NEW m \in Nat \ {0}
  PROVE  (a \div m) * m \in Nat /\ (a \div m) * m <= a
  OBVIOUS

\* What TimesAssumption says of each constant, one by one.
LEMMA TimeRanges ==
  /\ Quiescence \in Nat \ {0} /\ HoldCeiling \in Nat \ {0} /\ SyncTimeout \in Nat \ {0}
  /\ PollTimeout \in Nat \ {0} /\ Millisecond \in Nat \ {0} /\ Nap \in Nat \ {0}
  /\ Longest \in Nat /\ \A i \in Intervals : i \in 0..Longest
  BY TimesAssumption

USE DEF Larger, Smaller, Within, None, Cap

\* One synchronized frame by itself is below the cap.
LEMMA FrameFits == \A s \in 1..SyncTimeout : 0 + s < Cap
  BY TimeRanges

\* The sleep of poll is a length of time, and with a notification pending never
\* longer than what the notification waits for.
LEMMA PollSleepRange ==
  ASSUME RangesOK
  PROVE  /\ PollSleep \in Nat
         /\ dirty /\ ~notified =>
              PollSleep <= Larger(ThrottleLeft, Larger(SyncLeft, HoldRest))
<1>1. PollWait \in Nat
  BY TimeRanges DEF PollWait, ThrottleLeft, HoldLeft, HoldRest, RangesOK
<1>2. PollSleep \in Nat /\ PollSleep <= PollWait
  BY <1>1, RoundedDown, TimeRanges DEF PollSleep
<1>3. ASSUME dirty, ~notified
      PROVE  PollWait = Larger(ThrottleLeft, Larger(SyncLeft, HoldRest))
  BY <1>3, TimeRanges DEF PollWait, ThrottleLeft, HoldLeft, HoldRest, SyncLeft, RangesOK
<1> QED
  BY <1>2, <1>3
USE DEF deadlines, history, reader, ReaderLabels

\* A session starts with every flag a Boolean.
LEMMA FlagsInit == Init => FlagsOK
<1> SUFFICES ASSUME Init PROVE FlagsOK
  OBVIOUS
<1>1. dirty \in BOOLEAN /\ notified \in BOOLEAN /\ input \in BOOLEAN /\ interrupt \in BOOLEAN
  BY Zenon DEF Init
<1>2. drawable \in BOOLEAN /\ announced \in BOOLEAN /\ retuned \in BOOLEAN
  BY Zenon DEF Init
<1> QED
  BY <1>1, <1>2, Zenon DEF FlagsOK

\* Every step leaves the flags Boolean.
LEMMA FlagsStep == FlagsOK /\ [Next]_vars => FlagsOK'
<1> SUFFICES ASSUME FlagsOK, [Next]_vars PROVE FlagsOK'
  OBVIOUS
<1> USE DEF FlagsOK
<1>0. ASSUME UNCHANGED <<dirty, notified, input, interrupt, drawable, announced, retuned>>
      PROVE  FlagsOK'
  BY <1>0, Zenon
<1>1. ASSUME ReaderStep PROVE FlagsOK'
  <2>0. ASSUME NEW next, Announce(next) PROVE FlagsOK'
    BY <2>0, Zenon DEF Announce, Flush
  <2>1. CASE Wake
    BY <2>1, Zenon DEF Wake
  <2>2. CASE Sample
    <3>1. CASE Announce("tick")
      BY <3>1, <2>0
    <3>2. CASE ~Announce("tick")
      BY <2>2, <3>2, Zenon DEF Sample
    <3> QED
      BY <3>1, <3>2
  <2>3. CASE Tick
    BY <2>3, Zenon DEF Tick, FlushFrame, Flush
  <2>4. CASE Clear
    BY <2>4, Zenon DEF Clear
  <2>5. CASE NothingToRead \/ Backlog
    BY <1>0, <2>5 DEF NothingToRead, Backlog
  <2>6. CASE BacklogAnnounce
    BY <2>0, <2>6 DEF BacklogAnnounce
  <2>7. CASE Feed
    BY <2>7, Zenon DEF Feed
  <2>8. CASE SetSync
    BY <1>0, <2>8 DEF SetSync
  <2>9. CASE Fed
    BY <2>9, Zenon DEF Fed
  <2>10. CASE Resample
    <3>1. CASE Announce("sleep")
      BY <3>1, <2>0
    <3>2. CASE ~Announce("sleep")
      BY <2>10, <3>2, Zenon DEF Resample
    <3> QED
      BY <3>1, <3>2
  <2>11. CASE Sleep
    BY <2>11, Zenon DEF Sleep
  <2> QED
    BY <1>1, <2>1, <2>2, <2>3, <2>4, <2>5, <2>6, <2>7, <2>8, <2>9, <2>10, <2>11, Zenon
       DEF ReaderStep
<1>2. CASE Drain
  BY <1>2, Zenon DEF Drain
<1>3. CASE Ready
  <2>1. interrupt' \in BOOLEAN
    BY <1>3, Zenon DEF Ready
  <2>2. UNCHANGED <<notified, input, drawable, announced, retuned>> /\ dirty' = dirty
    BY <1>3 DEF Ready, Flush
  <2> QED
    BY <2>1, <2>2, Zenon
<1>4. CASE ReadyClear
  BY <1>4, Zenon DEF ReadyClear
<1>5. CASE SetPacing
  BY <1>5, Zenon DEF SetPacing
<1>6. CASE ChildWrites
  BY <1>6, Zenon DEF ChildWrites
<1>7. CASE Clock
  BY <1>0, <1>7 DEF Clock
<1>8. CASE UNCHANGED vars
  BY <1>0, <1>8 DEF vars
<1> QED
  BY <1>1, <1>2, <1>3, <1>4, <1>5, <1>6, <1>7, <1>8, Zenon DEF Next

\* Every step, the clock included, leaves each deadline and count in its range.
LEMMA RangesStep == RangesOK /\ [Next]_vars => RangesOK'
<1> SUFFICES ASSUME RangesOK, [Next]_vars PROVE RangesOK'
  OBVIOUS
<1> USE TimeRanges DEF RangesOK
<1>1. ASSUME ReaderStep PROVE RangesOK'
  <2>0. ASSUME NEW next \in ReaderLabels, Announce(next), sleep' \in Nat PROVE RangesOK'
    <3>1. pc' \in ReaderLabels /\ after' \in ReaderLabels
      BY <2>0 DEF Announce, Continue
    <3>2. /\ quiet' = -1 /\ ceiling' = -1 /\ held' = -1
          /\ elapsed' = 0 \/ elapsed' = elapsed
          /\ UNCHANGED <<sync, frame, interval, epc, waiting>>
      BY <2>0, Zenon DEF Announce, Flush
    <3> QED
      BY <2>0, <3>1, <3>2
  <2>1. CASE Wake
    BY <2>1 DEF Wake
  <2>2. CASE Sample
    BY <2>2, <2>0 DEF Sample
  <2>3. CASE Tick
    BY <2>3 DEF Tick, FlushFrame, Flush, Continue
  <2>4. CASE Clear \/ NothingToRead \/ Backlog
    BY <2>4 DEF Clear, NothingToRead, Backlog
  <2>5. CASE BacklogAnnounce
    BY <2>5, <2>0 DEF BacklogAnnounce
  <2>6. CASE Feed
    BY <2>6 DEF Feed
  <2>7. CASE SetSync
    BY <2>7 DEF SetSync
  <2>8. CASE Fed
    BY <2>8 DEF Fed
  <2>9. CASE Resample
    BY <2>9, <2>0 DEF Resample
  <2>10. CASE Sleep
    BY <2>10, PollSleepRange DEF Sleep
  <2> QED
    BY <1>1, <2>1, <2>2, <2>3, <2>4, <2>5, <2>6, <2>7, <2>8, <2>9, <2>10 DEF ReaderStep
<1>2. CASE Drain
  BY <1>2 DEF Drain
<1>3. CASE Ready
  BY <1>3 DEF Ready, Flush
<1>4. CASE ReadyClear
  BY <1>4 DEF ReadyClear
<1>5. CASE SetPacing
  BY <1>5 DEF SetPacing
<1>6. CASE ChildWrites
  BY <1>6 DEF ChildWrites
<1>7. CASE Clock
  BY <1>7 DEF Clock, Later
<1>8. CASE UNCHANGED vars
  BY <1>8 DEF vars
<1> QED
  BY <1>1, <1>2, <1>3, <1>4, <1>5, <1>6, <1>7, <1>8 DEF Next

\* No deadline is ever further off than the timeout it was set from.
THEOREM TypeCorrect == Spec => []TypeOK
<1>1. Init => TypeOK
  <2>1. Init => RangesOK
    BY TimeRanges DEF Init, RangesOK
  <2> QED
    BY <2>1, FlagsInit DEF TypeOK
<1>2. TypeOK /\ [Next]_vars => TypeOK'
  BY FlagsStep, RangesStep DEF TypeOK
<1> QED
  BY <1>1, <1>2, PTL DEF Spec
-----------------------------------------------------------------------------
(* The parts of the bound *)

\* What an announcement leaves behind, released or not.
LEMMA Announcing ==
  ASSUME NEW next, Announce(next)
  PROVE  /\ dirty' /\ announced'
         /\ \/ pc' = "clear" /\ after' = next
            \/ pc' = next /\ after' = after
         /\ UNCHANGED <<sync, frame, notified, interval, input, interrupt, epc, retuned, waiting>>
<1>1. dirty' /\ announced' /\ notified' = notified
  BY Zenon DEF Announce, Flush
<1>2. UNCHANGED <<sync, frame, interval, input, interrupt, epc, retuned, waiting>>
  BY Zenon DEF Announce, Flush
<1>3. \/ pc' = "clear" /\ after' = next
      \/ pc' = next /\ after' = after
  BY Zenon DEF Announce, Continue
<1> QED
  BY <1>1, <1>2, <1>3, Zenon

\* The notifier's copy is taken from the emulator, shortened, or dropped.
LEMMA SyncStep ==
  ASSUME TypeOK, SyncNotStale, [Next]_vars
  PROVE  SyncNotStale'
<1> USE DEF TypeOK, RangesOK, SyncNotStale
<1>1. ASSUME ReaderStep PROVE SyncNotStale'
  <2>1. CASE Wake \/ NothingToRead \/ Backlog \/ Sleep
    BY <2>1 DEF Wake, NothingToRead, Backlog, Sleep
  <2>2. CASE Sample
    BY <2>2, Announcing DEF Sample
  <2>3. CASE Resample
    BY <2>3, Announcing DEF Resample
  <2>4. CASE BacklogAnnounce
    BY <2>4, Announcing DEF BacklogAnnounce
  <2>5. CASE Clear
    BY <2>5 DEF Clear
  <2>6. CASE Feed
    BY <2>6 DEF Feed
  <2>7. CASE SetSync
    BY <2>7, TimeRanges DEF SetSync
  <2>8. CASE Tick
    BY <2>8 DEF Tick, FlushFrame, Flush, Continue
  <2>9. CASE Fed
    BY <2>9 DEF Fed
  <2> QED
    BY <1>1, <2>1, <2>2, <2>3, <2>4, <2>5, <2>6, <2>7, <2>8, <2>9 DEF ReaderStep
<1>2. CASE Drain \/ Ready \/ ReadyClear \/ SetPacing \/ ChildWrites
  BY <1>2 DEF Drain, Ready, Flush, ReadyClear, SetPacing, ChildWrites
<1>3. CASE Clock
  BY <1>3, TimeRanges DEF Clock, Later
<1>4. CASE UNCHANGED vars
  BY <1>4 DEF vars
<1> QED
  BY <1>1, <1>2, <1>3, <1>4 DEF Next

\* The count moves only while a frame is pending, and a release sets it back.
LEMMA CountStep ==
  ASSUME TypeOK, CountStarts, [Next]_vars
  PROVE  CountStarts'
<1> USE DEF TypeOK, FlagsOK, CountStarts
<1>1. ASSUME ReaderStep PROVE CountStarts'
  <2>1. CASE Wake \/ NothingToRead \/ Backlog \/ Feed \/ SetSync \/ Sleep
    BY <2>1 DEF Wake, NothingToRead, Backlog, Feed, SetSync, Sleep
  <2>2. CASE Sample
    BY <2>2, Announcing DEF Sample
  <2>3. CASE Resample
    BY <2>3, Announcing DEF Resample
  <2>4. CASE BacklogAnnounce
    BY <2>4, Announcing DEF BacklogAnnounce
  <2>5. CASE Tick
    BY <2>5 DEF Tick, FlushFrame, Flush
  <2>6. CASE Clear
    BY <2>6 DEF Clear
  <2>7. CASE Fed
    BY <2>7 DEF Fed
  <2> QED
    BY <1>1, <2>1, <2>2, <2>3, <2>4, <2>5, <2>6, <2>7 DEF ReaderStep
<1>2. CASE Drain
  BY <1>2 DEF Drain
<1>3. CASE Ready
  BY <1>3 DEF Ready, Flush
<1>4. CASE ReadyClear
  BY <1>4 DEF ReadyClear
<1>5. CASE SetPacing \/ ChildWrites
  BY <1>5 DEF SetPacing, ChildWrites
<1>6. CASE Clock
  BY <1>6 DEF Clock
<1>7. CASE UNCHANGED vars
  BY <1>7 DEF vars
<1> QED
  BY <1>1, <1>2, <1>3, <1>4, <1>5, <1>6, <1>7 DEF Next

\* The nap of a full backlog begins behind an announcement and keeps it pending.
LEMMA NapStep ==
  ASSUME TypeOK, NapAnnounced, [Next]_vars
  PROVE  NapAnnounced'
<1> USE DEF TypeOK, FlagsOK, NapAnnounced
<1>1. ASSUME ReaderStep PROVE NapAnnounced'
  <2>1. CASE Wake \/ NothingToRead \/ Backlog \/ Feed \/ SetSync \/ Fed \/ Sleep
    BY <2>1 DEF Wake, NothingToRead, Backlog, Feed, SetSync, Fed, Sleep
  <2>2. CASE Sample
    BY <2>2, Announcing DEF Sample
  <2>3. CASE Resample
    BY <2>3, Announcing DEF Resample
  <2>4. CASE BacklogAnnounce
    BY <2>4, Announcing DEF BacklogAnnounce
  <2>5. CASE Tick
    BY <2>5 DEF Tick, FlushFrame, Continue
  <2>6. CASE Clear
    BY <2>6 DEF Clear
  <2> QED
    BY <1>1, <2>1, <2>2, <2>3, <2>4, <2>5, <2>6 DEF ReaderStep
<1>2. CASE Drain
  BY <1>2 DEF Drain
<1>3. CASE Ready
  BY <1>3 DEF Ready, Flush
<1>4. CASE ReadyClear
  BY <1>4 DEF ReadyClear
<1>5. CASE SetPacing \/ ChildWrites
  BY <1>5 DEF SetPacing, ChildWrites
<1>6. CASE Clock
  BY <1>6 DEF Clock
<1>7. CASE UNCHANGED vars
  BY <1>7 DEF vars
<1> QED
  BY <1>1, <1>2, <1>3, <1>4, <1>5, <1>6, <1>7 DEF Next

\* What is within a bound stays within it when both lose at most a tick.
LEMMA TickWithin ==
  ASSUME NEW x \in Int, NEW x1 \in Int, x1 >= x - 1,
         NEW y \in Nat, NEW y1 \in Nat, y1 >= y - 1,
         NEW z \in Nat, NEW z1 \in Nat, z1 >= z - 1,
         NEW s \in Nat, NEW s1 \in Nat, s1 <= Larger(s - 1, 0),
         s <= Larger(x, Larger(y, z))
  PROVE  s1 <= Larger(x1, Larger(y1, z1))
  OBVIOUS

\* A tick takes no more than a tick off any wait.
LEMMA ClockTicks ==
  ASSUME TypeOK, Clock
  PROVE  /\ SyncLeft' >= SyncLeft - 1 /\ ThrottleLeft' >= ThrottleLeft - 1
         /\ HoldRest' >= HoldRest - 1
<1> USE TimeRanges DEF TypeOK, RangesOK, Clock, Later
<1>1. SyncLeft' >= SyncLeft - 1
  BY DEF SyncLeft
<1>2. ThrottleLeft' >= ThrottleLeft - 1
  BY DEF ThrottleLeft
<1>3. HoldRest' >= HoldRest - 1
  BY DEF HoldLeft, HoldRest
<1> QED
  BY <1>1, <1>2, <1>3

\* Only going to sleep begins one, and what shortens a wait during it raises the
\* interrupt or is a change of interval.
LEMMA SleepStep ==
  ASSUME TypeOK, SleepFits, [Next]_vars
  PROVE  SleepFits'
<1> USE DEF TypeOK, FlagsOK, RangesOK, SleepFits
<1>1. ASSUME ReaderStep PROVE SleepFits'
  <2>1. CASE Wake \/ NothingToRead \/ Backlog
    BY <2>1 DEF Wake, NothingToRead, Backlog, Unwoken
  <2>2. CASE Sample
    BY <2>2, Announcing DEF Sample, Unwoken
  <2>3. CASE Resample
    BY <2>3, Announcing DEF Resample, Unwoken
  <2>4. CASE BacklogAnnounce
    BY <2>4, Announcing DEF BacklogAnnounce, Unwoken
  <2>5. CASE Tick
    BY <2>5 DEF Tick, FlushFrame, Continue, Unwoken
  <2>6. CASE Clear
    BY <2>6 DEF Clear, Unwoken
  <2>7. CASE Feed \/ SetSync \/ Fed
    BY <2>7 DEF Feed, SetSync, Fed, Unwoken
  <2>8. CASE Sleep
    <3>1. CASE ~(dirty /\ ~notified)
      BY <2>8, <3>1 DEF Sleep, Unwoken
    <3>2. CASE dirty /\ ~notified
      <4>1. sleep' <= Larger(ThrottleLeft, Larger(SyncLeft, HoldRest))
        BY <2>8, <3>2, PollSleepRange DEF Sleep
      <4>2. ThrottleLeft <= Longest - elapsed \/ ThrottleLeft = 0
        BY TimeRanges DEF ThrottleLeft
      <4>3. UNCHANGED <<elapsed, interval, sync, quiet, ceiling, held>>
        BY <2>8 DEF Sleep
      <4>4. ThrottleLeft' = ThrottleLeft /\ HoldRest' = HoldRest /\ SyncLeft' = SyncLeft
        BY <4>3 DEF ThrottleLeft, HoldRest, SyncLeft
      <4>5. ThrottleLeft \in Nat /\ HoldRest \in Nat /\ SyncLeft \in Nat /\ sleep' \in Nat
        BY <2>8, PollSleepRange, TimeRanges DEF Sleep, ThrottleLeft, HoldLeft, HoldRest, SyncLeft
      <4> QED
        BY <4>1, <4>2, <4>3, <4>4, <4>5, TimeRanges
    <3> QED
      BY <3>1, <3>2
  <2> QED
    BY <1>1, <2>1, <2>2, <2>3, <2>4, <2>5, <2>6, <2>7, <2>8 DEF ReaderStep
<1>2. CASE Drain
  BY <1>2 DEF Drain, Unwoken
<1>3. CASE Ready
  <2>1. dirty' = dirty /\ notified' = notified
    BY <1>3, Zenon DEF Ready, Flush
  <2>2. epc' = "clear" \/ (dirty /\ ~notified => interrupt')
    BY <1>3, Zenon DEF Ready
  <2> QED
    BY <2>1, <2>2 DEF Unwoken
<1>4. CASE ReadyClear
  BY <1>4 DEF ReadyClear, Unwoken
<1>5. CASE SetPacing
  BY <1>5, TimeRanges DEF SetPacing, Unwoken, ThrottleLeft, SyncLeft, HoldLeft, HoldRest
<1>6. CASE ChildWrites
  BY <1>6 DEF ChildWrites, Unwoken
<1>7. CASE Clock
  <2>1. Unwoken' => Unwoken /\ sleep' <= Larger(sleep - 1, 0) /\ retuned' = retuned
    BY <1>7 DEF Clock, Unwoken, Later
  <2>2. Longest - elapsed' >= Longest - elapsed - 1
    BY <1>7, TimeRanges DEF Clock
  <2>3. /\ SyncLeft \in Nat /\ SyncLeft' \in Nat
        /\ ThrottleLeft \in Nat /\ ThrottleLeft' \in Nat
        /\ HoldRest \in Nat
        /\ HoldRest' \in Nat
    BY RangesStep, TimeRanges DEF SyncLeft, ThrottleLeft, HoldLeft, HoldRest
  <2>4. elapsed \in 0..Longest /\ elapsed' \in 0..Longest /\ sleep \in Nat /\ sleep' \in Nat
    BY RangesStep
  <2>5. /\ SyncLeft' >= SyncLeft - 1 /\ ThrottleLeft' >= ThrottleLeft - 1
        /\ HoldRest' >= HoldRest - 1
    BY <1>7, ClockTicks
  <2> SUFFICES ASSUME Unwoken' PROVE SleepFits'
    BY DEF SleepFits
  <2>6. /\ sleep <= Larger(Longest - elapsed, Larger(SyncLeft, HoldRest))
        /\ ~retuned => sleep <= Larger(ThrottleLeft, Larger(SyncLeft, HoldRest))
    BY <2>1
  <2>7. sleep' <= Larger(sleep - 1, 0)
    BY <2>1
  <2>8. sleep' <= Larger(Longest - elapsed', Larger(SyncLeft', HoldRest'))
    <3>1. sleep <= Larger(Longest - elapsed, Larger(SyncLeft, HoldRest))
      BY <2>6
    <3>2. Longest - elapsed \in Int /\ Longest - elapsed' \in Int
      BY <2>4, TimeRanges
    <3> HIDE DEF TypeOK, RangesOK, SleepFits, Larger
    <3> QED
      BY <2>2, <2>3, <2>4, <2>5, <2>7, <3>1, <3>2, TickWithin
  <2>9. ASSUME ~retuned
        PROVE  sleep' <= Larger(ThrottleLeft', Larger(SyncLeft', HoldRest'))
    <3>1. sleep <= Larger(ThrottleLeft, Larger(SyncLeft, HoldRest))
      BY <2>6, <2>9
    <3> HIDE DEF TypeOK, RangesOK, SleepFits
    <3> QED
      BY <2>3, <2>4, <2>5, <2>7, <3>1
  <2> QED
    BY <2>1, <2>8, <2>9
<1>8. CASE UNCHANGED vars
  BY <1>8 DEF vars, Unwoken, ThrottleLeft, SyncLeft, HoldLeft, HoldRest
<1> QED
  BY <1>1, <1>2, <1>3, <1>4, <1>5, <1>6, <1>7, <1>8 DEF Next

\* A flush that leaves a frame behind has found a reason to.
LEMMA NotDue ==
  ASSUME TypeOK, CountStarts, CountFits, FrameWaits, ~Due(dirty, quiet, ceiling, held)
  PROVE  waiting = 0 \/ sync > 0 \/ BackstopLeft > 0
<1> USE TimeRanges DEF TypeOK, RangesOK
<1>1. CASE notified
  BY <1>1 DEF CountStarts
<1>2. CASE ThrottleLeft > 0
  BY <1>2 DEF ThrottleLeft, BackstopLeft
<1>3. CASE HoldRest > 0
  BY <1>3 DEF HoldRest, HoldLeft, BackstopLeft, CountFits
<1>4. CASE ~notified /\ ThrottleLeft = 0 /\ HoldRest = 0
  BY <1>4 DEF Due, FrameWaits, HoldRest
<1>5. ThrottleLeft \in Nat /\ HoldRest \in Nat
  BY DEF ThrottleLeft, HoldRest, HoldLeft
<1> QED
  BY <1>1, <1>2, <1>3, <1>4, <1>5

\* A frame that stays pending across a turn of the reader has been held by its flush.
LEMMA MissStep ==
  ASSUME TypeOK, CountStarts, CountFits, FlushMissed, [Next]_vars
  PROVE  FlushMissed'
<1> USE DEF FlushMissed, FrameWaits
<1>1. ASSUME ReaderStep PROVE FlushMissed'
  <2>1. CASE Wake \/ NothingToRead \/ Backlog \/ SetSync \/ Fed \/ Sleep
    BY <2>1 DEF Wake, NothingToRead, Backlog, SetSync, Fed, Sleep
  <2>2. CASE Sample
    BY <2>2, Announcing DEF Sample
  <2>3. CASE Resample
    BY <2>3, Announcing DEF Resample
  <2>4. CASE BacklogAnnounce
    BY <2>4, Announcing DEF BacklogAnnounce
  <2>5. CASE Tick
    <3>1. CASE Due(dirty, quiet, ceiling, held)
      BY <2>5, <3>1 DEF Tick, FlushFrame, Continue
    <3>2. CASE ~Due(dirty, quiet, ceiling, held)
      <4>1. UNCHANGED <<dirty, announced, waiting, sync, held, elapsed, epc>> /\ pc = "tick"
        BY <2>5, <3>2, Zenon DEF Tick, FlushFrame, Flush, history
      <4> QED
        BY <3>2, <4>1, NotDue DEF BackstopLeft
    <3> QED
      BY <3>1, <3>2
  <2>6. CASE Clear
    BY <2>6 DEF Clear
  <2>7. CASE Feed
    BY <2>7 DEF Feed, BackstopLeft
  <2> QED
    BY <1>1, <2>1, <2>2, <2>3, <2>4, <2>5, <2>6, <2>7 DEF ReaderStep
<1>2. CASE Drain
  BY <1>2 DEF Drain, BackstopLeft
<1>3. CASE Ready
  <2>1. CASE Due(dirty, quiet, ceiling, held)
    BY <1>3, <2>1, Zenon DEF Ready
  <2>2. CASE ~Due(dirty, quiet, ceiling, held)
    <3>1. UNCHANGED <<dirty, announced, waiting, sync, held, elapsed, pc>> /\ epc # "clear"
      BY <1>3, <2>2 DEF Ready, Flush
    <3> QED
      BY <3>1 DEF BackstopLeft
  <2> QED
    BY <2>1, <2>2
<1>4. CASE ReadyClear
  BY <1>4 DEF ReadyClear
<1>5. CASE SetPacing \/ ChildWrites
  BY <1>5 DEF SetPacing, ChildWrites, BackstopLeft
<1>6. CASE Clock
  BY <1>6 DEF Clock, Asleep
<1>7. CASE UNCHANGED vars
  BY <1>7 DEF vars, BackstopLeft
<1> QED
  BY <1>1, <1>2, <1>3, <1>4, <1>5, <1>6, <1>7 DEF Next

\* While the count of a frame's wait goes up, something holds the frame.
LEMMA CountedIsHeld ==
  ASSUME TypeOK, CountFits, NapAnnounced, SleepFits,
         Clock, FrameWaits, ~notified, epc = "idle"
  PROVE  BackstopLeft > 0 \/ sync > 0
<1> USE TimeRanges DEF TypeOK, RangesOK
<1> SUFFICES ASSUME BackstopLeft <= 0, sync <= 0 PROVE FALSE
  BY DEF BackstopLeft
<1>1. held = 0 /\ elapsed = Longest
  BY DEF BackstopLeft, CountFits
<1>2. HoldRest = 0 /\ ThrottleLeft = 0 /\ SyncLeft = 0
  BY <1>1 DEF HoldRest, HoldLeft, ThrottleLeft, SyncLeft
<1>3. Due(dirty, quiet, ceiling, held)
  BY <1>2 DEF Due, HoldRest, FrameWaits
<1>4. pc = "poll" /\ ~input /\ ~interrupt /\ sleep > 0
  BY <1>3 DEF Clock, Asleep, NapAnnounced, FrameWaits
<1>5. Unwoken
  BY <1>4 DEF Unwoken, FrameWaits
<1>6. sleep <= 0
  BY <1>1, <1>2, <1>5 DEF SleepFits
<1> QED
  BY <1>4, <1>6

\* The count w beneath a backstop b of at most m, then beneath what is left y of
\* a synchronized frame of at most st, when a tick passes.
LEMMA FitTick ==
  ASSUME NEW m \in Nat, NEW st \in Nat,
         NEW b \in Nat, NEW b1 \in Nat, b > 0 => b1 = b - 1, b = 0 => b1 = 0,
         NEW y \in Nat, NEW y1 \in Nat, y1 <= st - 1, y1 <= y, y > 0 => y1 = y - 1,
         NEW w \in Nat, NEW w1 \in Nat, w1 <= w + 1, w1 > w => b > 0 \/ y > 0,
         b > 0 => w + b <= m, b = 0 => w + y < m + st
  PROVE  (b1 > 0 => w1 + b1 <= m) /\ (b1 = 0 => w1 + y1 < m + st)
<1>1. CASE b > 1
  BY <1>1
<1>2. CASE b = 1
  BY <1>2
<1>3. CASE b = 0
  BY <1>3
<1> QED
  BY <1>1, <1>2, <1>3

\* A tick of the clock leaves the count of a frame's wait beneath what holds it.
LEMMA FitClock ==
  ASSUME TypeOK, CountStarts, CountFits, NapAnnounced, SleepFits, Clock
  PROVE  CountFits'
<1> USE TimeRanges DEF TypeOK, RangesOK
<1> SUFFICES ASSUME FrameWaits'
             PROVE  /\ held' # None
                    /\ BackstopLeft' > 0 =>
                         waiting' + BackstopLeft' <= Larger(HoldCeiling, Longest)
                    /\ BackstopLeft' = 0 => waiting' + SyncLeft' < Cap
  BY DEF CountFits
<1>1. FrameWaits
  BY DEF Clock, FrameWaits
<1>2. held >= 0 /\ held' >= 0
  BY <1>1 DEF CountFits, Clock, Later
<1>3. /\ BackstopLeft \in Nat /\ BackstopLeft' \in Nat
      /\ BackstopLeft > 0 => BackstopLeft' = BackstopLeft - 1
      /\ BackstopLeft = 0 => BackstopLeft' = 0
  BY <1>2 DEF BackstopLeft, Clock, Later
<1>4. /\ SyncLeft \in Nat /\ SyncLeft' \in Nat /\ SyncLeft' <= SyncTimeout - 1
      /\ SyncLeft > 0 => SyncLeft' = SyncLeft - 1
      /\ SyncLeft' <= SyncLeft
  BY DEF SyncLeft, Clock, Later
<1>5. /\ waiting \in Nat /\ waiting' \in Nat /\ waiting' <= waiting + 1
      /\ waiting' > waiting => ~notified /\ epc = "idle"
  BY DEF Clock
<1>6. waiting' > waiting => BackstopLeft > 0 \/ SyncLeft > 0
  BY <1>1, <1>5, CountedIsHeld DEF SyncLeft
<1>7. /\ BackstopLeft > 0 => waiting + BackstopLeft <= Larger(HoldCeiling, Longest)
      /\ BackstopLeft = 0 => waiting + SyncLeft < Cap
  BY <1>1 DEF CountFits
<1>8. Larger(HoldCeiling, Longest) \in Nat /\ SyncTimeout \in Nat
  OBVIOUS
<1>9. held' # None
  BY <1>2
<1> HIDE DEF TypeOK, RangesOK, Larger, None
<1> QED
  BY <1>3, <1>4, <1>5, <1>6, <1>7, <1>8, <1>9, FitTick

\* So does every other step: no deadline the reader sets moves the backstop out.
LEMMA FitStep ==
  ASSUME TypeOK, CountStarts, CountFits, FlushMissed, NapAnnounced, SleepFits, [Next]_vars
  PROVE  CountFits'
<1> USE DEF TypeOK, RangesOK, CountFits, FrameWaits
<1>1. ASSUME ReaderStep PROVE CountFits'
  <2>1. CASE Wake \/ NothingToRead \/ Feed \/ Sleep
    BY <2>1 DEF Wake, NothingToRead, Feed, Sleep, BackstopLeft, SyncLeft
  <2>2. CASE Sample
    BY <2>2, Announcing DEF Sample, BackstopLeft, SyncLeft
  <2>3. CASE Resample
    BY <2>3, Announcing DEF Resample, BackstopLeft, SyncLeft
  <2>4. CASE BacklogAnnounce
    BY <2>4, Announcing DEF BacklogAnnounce
  <2>5. CASE Tick
    <3>1. CASE Due(dirty, quiet, ceiling, held)
      BY <2>5, <3>1 DEF Tick, FlushFrame, Continue
    <3>2. CASE ~Due(dirty, quiet, ceiling, held)
      <4>1. UNCHANGED <<dirty, announced, waiting, sync, held, elapsed, epc>> /\ pc = "tick"
        BY <2>5, <3>2, Zenon DEF Tick, FlushFrame, Flush, history
      <4> QED
        BY <4>1 DEF BackstopLeft, SyncLeft
    <3> QED
      BY <3>1, <3>2
  <2>6. CASE Clear
    BY <2>6 DEF Clear
  <2>7. CASE Backlog   \* a frame whose deadline is dropped waits the less
    BY <2>7, TimeRanges DEF Backlog, BackstopLeft, SyncLeft
  <2>8. CASE SetSync
    <3>1. CASE UNCHANGED sync \/ sync' = None
      BY <2>8, <3>1, TimeRanges DEF SetSync, BackstopLeft, SyncLeft
    <3>2. CASE sync' # None /\ sync' # sync /\ dirty   \* adopted: by a new frame
      <4>1. sync = None /\ sync' \in 1..SyncTimeout
        BY <2>8, <3>2 DEF SetSync
      <4>2. FrameWaits => waiting = 0 \/ BackstopLeft > 0
        BY <2>8, <4>1, TimeRanges DEF SetSync, FlushMissed
      <4>3. UNCHANGED <<dirty, announced, waiting, held, elapsed, epc>> /\ pc = "sync"
        BY <2>8 DEF SetSync, history
      <4>4. SyncLeft' \in 1..SyncTimeout
        BY <4>1 DEF SyncLeft
      <4>5. BackstopLeft' = BackstopLeft /\ (FrameWaits' => FrameWaits)
        BY <4>3 DEF BackstopLeft
      <4> HIDE DEF TypeOK, RangesOK, FrameWaits, Cap
      <4>6. FrameWaits' =>
              /\ held' # None
              /\ BackstopLeft' > 0 =>
                   waiting' + BackstopLeft' <= Larger(HoldCeiling, Longest)
        BY <4>3, <4>5
      <4>7. FrameWaits' /\ BackstopLeft' = 0 => waiting' = 0
        BY <4>2, <4>3, <4>5
      <4>8. FrameWaits' /\ BackstopLeft' = 0 => waiting' + SyncLeft' < Cap
        BY <4>4, <4>7, FrameFits
      <4> QED
        BY <4>6, <4>8
    <3>3. CASE ~dirty
      BY <2>8, <3>3 DEF SetSync
    <3> QED
      BY <3>1, <3>2, <3>3
  <2>9. CASE Fed
    <3>1. CASE dirty \/ ~drawable
      BY <2>9, <3>1, TimeRanges DEF Fed, BackstopLeft, SyncLeft
    <3>2. CASE ~dirty /\ drawable   \* the first change: nothing counted yet
      <4>1. waiting' = 0 /\ held' = HoldCeiling /\ elapsed' = elapsed
        BY <2>9, <3>2 DEF Fed, CountStarts, history
      <4> QED
        BY <4>1, TimeRanges DEF BackstopLeft
    <3> QED
      BY <3>1, <3>2
  <2> QED
    BY <1>1, <2>1, <2>2, <2>3, <2>4, <2>5, <2>6, <2>7, <2>8, <2>9 DEF ReaderStep
<1>2. CASE Drain
  BY <1>2 DEF Drain, BackstopLeft, SyncLeft
<1>3. CASE Ready
  <2>1. CASE Due(dirty, quiet, ceiling, held)
    BY <1>3, <2>1, Zenon DEF Ready
  <2>2. CASE ~Due(dirty, quiet, ceiling, held)
    <3>1. UNCHANGED <<dirty, announced, waiting, sync, held, elapsed, pc>> /\ epc # "clear"
      BY <1>3, <2>2 DEF Ready, Flush
    <3> QED
      BY <3>1 DEF BackstopLeft, SyncLeft
  <2> QED
    BY <2>1, <2>2
<1>4. CASE ReadyClear
  BY <1>4 DEF ReadyClear
<1>5. CASE SetPacing \/ ChildWrites
  BY <1>5 DEF SetPacing, ChildWrites, BackstopLeft, SyncLeft
<1>6. CASE Clock
  BY <1>6, FitClock
<1>7. CASE UNCHANGED vars
  BY <1>7 DEF vars, BackstopLeft, SyncLeft
<1> QED
  BY <1>1, <1>2, <1>3, <1>4, <1>5, <1>6, <1>7 DEF Next

\* What the count w fits beneath is below the cap.
LEMMA FitBounds ==
  ASSUME NEW b \in Nat, NEW y \in Nat, NEW w \in Nat,
         b > 0 => w + b <= Larger(HoldCeiling, Longest),
         b = 0 => w + y < Cap
  PROVE  w < Cap
<1>1. CASE b > 0
  BY <1>1, TimeRanges
<1>2. CASE b = 0
  BY <1>2, TimeRanges
<1> QED
  BY <1>1, <1>2

\* With the count beneath what holds the frame, no step takes it to the cap.
LEMMA BoundStep ==
  ASSUME TypeOK, CountStarts, CountFits, NapAnnounced, SleepFits, FrameHoldBounded,
         [Next]_vars
  PROVE  FrameHoldBounded'
<1> USE DEF FrameHoldBounded
<1>0. 0 < Cap
  BY TimeRanges
<1>1. ASSUME ReaderStep PROVE FrameHoldBounded'
  <2>1. CASE Wake \/ NothingToRead \/ Backlog \/ Feed \/ SetSync \/ Fed \/ Sleep
    BY <2>1 DEF Wake, NothingToRead, Backlog, Feed, SetSync, Fed, Sleep, history
  <2>2. CASE Sample
    BY <2>2, Announcing DEF Sample
  <2>3. CASE Resample
    BY <2>3, Announcing DEF Resample
  <2>4. CASE BacklogAnnounce
    BY <2>4, Announcing DEF BacklogAnnounce
  <2>5. CASE Tick
    BY <2>5 DEF Tick, history
  <2>6. CASE Clear
    BY <1>0, <2>6 DEF Clear
  <2> QED
    BY <1>1, <2>1, <2>2, <2>3, <2>4, <2>5, <2>6 DEF ReaderStep
<1>2. CASE Drain \/ Ready \/ SetPacing \/ ChildWrites
  BY <1>2 DEF Drain, Ready, SetPacing, ChildWrites, history
<1>3. CASE ReadyClear
  BY <1>0, <1>3 DEF ReadyClear
<1>4. CASE Clock
  <2>1. CASE waiting' = waiting
    BY <1>4, <2>1 DEF Clock
  <2>2. CASE waiting' # waiting /\ ~announced'
    <3>1. FrameWaits'
      BY <1>4, <2>2 DEF Clock, Asleep, FrameWaits
    <3>2. CountFits' /\ RangesOK'
      BY <1>4, FitClock, RangesStep DEF TypeOK
    <3>3. BackstopLeft' \in Nat /\ SyncLeft' \in Nat /\ waiting' \in Nat
      <4>1. elapsed' \in 0..Longest /\ sync' \in None..SyncTimeout /\ waiting' \in 0..Cap
        BY <3>2 DEF RangesOK
      <4>2. held' \in 0..HoldCeiling
        BY <3>1, <3>2, TimeRanges DEF RangesOK, CountFits
      <4>3. BackstopLeft' \in Nat
        <5>1. held' \in Nat /\ Longest - elapsed' \in Int
          BY <4>1, <4>2, TimeRanges
        <5> QED
          BY <5>1 DEF BackstopLeft
      <4>4. SyncLeft' \in Nat
        BY <4>1, TimeRanges DEF SyncLeft
      <4>5. waiting' \in Nat
        BY <4>1, TimeRanges
      <4> QED
        BY <4>3, <4>4, <4>5
    <3>4. /\ BackstopLeft' > 0 => waiting' + BackstopLeft' <= Larger(HoldCeiling, Longest)
          /\ BackstopLeft' = 0 => waiting' + SyncLeft' < Cap
      BY <3>1, <3>2 DEF CountFits
    <3> HIDE DEF Larger, Cap
    <3> QED
      BY <3>3, <3>4, FitBounds
  <2> QED
    BY <2>1, <2>2
<1>5. CASE UNCHANGED vars
  BY <1>5 DEF vars, history
<1> QED
  BY <1>1, <1>2, <1>3, <1>4, <1>5 DEF Next

-----------------------------------------------------------------------------
\* IInv is inductive: it holds first and every step keeps it.
LEMMA Invariance == Spec => []IInv
<1>1. Init => IInv
  <2> SUFFICES ASSUME Init PROVE IInv
    OBVIOUS
  <2>1. RangesOK /\ FlagsOK
    BY FlagsInit, TimeRanges DEF Init, RangesOK
  <2>2. SyncNotStale /\ CountStarts /\ CountFits /\ FlushMissed
    BY DEF Init, SyncNotStale, CountStarts, CountFits, FlushMissed, FrameWaits
  <2>3. NapAnnounced /\ SleepFits /\ FrameHoldBounded
    BY TimeRanges DEF Init, NapAnnounced, SleepFits, Unwoken, FrameHoldBounded
  <2> QED
    BY <2>1, <2>2, <2>3 DEF IInv, TypeOK
<1>2. IInv /\ [Next]_vars => IInv'
  <2> SUFFICES ASSUME IInv, [Next]_vars PROVE IInv'
    OBVIOUS
  <2> USE DEF IInv
  <2>1. TypeOK'
    BY FlagsStep, RangesStep DEF TypeOK
  <2>2. SyncNotStale' /\ CountStarts' /\ NapAnnounced'
    BY SyncStep, CountStep, NapStep
  <2>3. FlushMissed' /\ CountFits'
    BY MissStep, FitStep
  <2>4. SleepFits' /\ FrameHoldBounded'
    BY SleepStep, BoundStep
  <2> QED
    BY <2>1, <2>2, <2>3, <2>4
<1> QED
  BY <1>1, <1>2, PTL DEF Spec

\* From its first change no frame is held longer than the backstop, or a longer
\* redisplay interval, and one synchronized frame, whatever the times are.
THEOREM FramesAreDrawn == Spec => []FrameHoldBounded
  BY Invariance, PTL DEF IInv

\* The copy set_sync keeps never outlives the emulator's deadline.
THEOREM SyncIsFresh == Spec => []SyncNotStale
  BY Invariance, PTL DEF IInv

\* A notification never falls due while the reader sleeps on, whatever the times.
THEOREM ReaderIsAwake == Spec => []NoOversleep
<1>1. IInv => NoOversleep
  <2> SUFFICES ASSUME IInv, Unwoken, ~retuned, Due(dirty, quiet, ceiling, held)
               PROVE  sleep = 0
    BY DEF NoOversleep, Unwoken, Due
  <2>1. sleep <= Larger(ThrottleLeft, Larger(SyncLeft, HoldRest))
    BY DEF IInv, SleepFits
  <2>2. ThrottleLeft = 0 /\ SyncLeft = 0 /\ HoldRest = 0
    BY DEF IInv, TypeOK, RangesOK, Due, SyncLeft, HoldRest
  <2>3. sleep \in Nat
    BY DEF IInv, TypeOK, RangesOK
  <2> QED
    BY <2>1, <2>2, <2>3
<1> QED
  BY <1>1, Invariance, PTL

=============================================================================

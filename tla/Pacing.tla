------------------------------- MODULE Pacing -------------------------------
(***************************************************************************)
(* When src/session.rs draws: the deadlines of NotifyState, and the sleep  *)
(* the reader thread takes between two attempts to flush.                  *)
(*                                                                         *)
(* Wakeup leaves open whether a flush is held; here that is decided, by    *)
(* discrete time.  A deadline is kept as the time left to it, `None` when  *)
(* unset, 0 once passed.  The code counts the one instant equal to a       *)
(* deadline as before it; here it is after, which spares a poll of length  *)
(* zero at that instant.  Threads take no time, and only poll, the nap of  *)
(* a full backlog and Emacs' rendering let the clock tick.                 *)
(***************************************************************************)
EXTENDS Integers

CONSTANTS
  Intervals,     \* values cooked-min-redisplay-interval is set to
  Longest,       \* an upper bound of them
  Quiescence,    \* QUIESCENCE
  HoldCeiling,   \* HOLD_CEILING
  SyncTimeout,   \* SYNC_TIMEOUT
  PollTimeout,   \* POLL_TIMEOUT_MS, the longest sleep with nothing pending
  Millisecond,   \* the resolution of a poll timeout
  Nap,           \* the sleep of a full backlog
  Synchronizes   \* whether the child brackets its frames with DEC mode 2026

ASSUME TimesAssumption ==
  /\ Longest \in Nat /\ Intervals \subseteq 0..Longest /\ Intervals # {}
  /\ {Quiescence, HoldCeiling, SyncTimeout, PollTimeout, Millisecond, Nap}
       \subseteq Nat \ {0}
  /\ Synchronizes \in BOOLEAN

None == -1

Larger(a, b) == IF a < b THEN b ELSE a
Smaller(a, b) == IF a < b THEN a ELSE b

\* As long as no frame may be held: where the count of a frame's wait stops.
Cap == Larger(HoldCeiling, Longest) + SyncTimeout

VARIABLES
  dirty, notified,  \* as in Wakeup
  interval,         \* NotifyState.min_interval, and frame_ceiling with it
  elapsed,          \* time since NotifyState.last, no further than Longest
  sync,             \* sync_until
  quiet,            \* last_read + QUIESCENCE
  ceiling,          \* ceiling_at
  held,             \* held_since + HOLD_CEILING
  frame,            \* the emulator's own synchronized-output deadline
  input,            \* the pty has bytes for the reader
  interrupt,        \* the self-pipe is readable
  pc,               \* the reader's next step
  after,            \* where it continues once its flush is through
  drawable,         \* the reader's local: what Term::feed answered
  sleep,            \* what is left of the reader's poll timeout or nap
  epc,              \* Emacs: "idle", "draw" after a drain, "clear" inside ready
  announced,        \* history: the pending notification is not (only) a frame
  retuned,          \* history: the interval moved since the reader went to sleep
  waiting           \* history: how long a notification is pending, Emacs idle

deadlines == <<sync, quiet, ceiling, held, frame, elapsed>>
history == <<announced, retuned, waiting>>
reader == <<input, interrupt, pc, after, drawable, sleep>>
vars == <<dirty, notified, interval, deadlines, reader, epc, history>>

-----------------------------------------------------------------------------
\* A deadline that is not set cuts no wait short.
Within(wait, left) == IF left = None THEN wait ELSE Smaller(wait, left)

\* NotifyState::hold with the deadlines q, c and h: nothing to wait for if one has
\* passed or the read is forgotten, else the nearest of those that are set.
HoldLeft(q, c, h) == Within(Within(Larger(q, 0), c), h)

ThrottleLeft == Larger(interval - elapsed, 0)

\* The test inside flush, `d` and the deadlines as the caller left them.
Due(d, q, c, h) ==
  d /\ ~notified /\ sync <= 0 /\ ThrottleLeft = 0 /\ HoldLeft(q, c, h) = 0

\* Notifier::poll_wait, and the timeout poll is given: rounded down.
PollWait ==
  IF notified \/ ~dirty
    THEN PollTimeout
    ELSE Larger(Larger(ThrottleLeft, sync), HoldLeft(quiet, ceiling, held))

PollSleep == (PollWait \div Millisecond) * Millisecond

\* Notifier::flush up to the end of its lock section, after the caller stored d,
\* q, c and h.  A notification that is due still has `dirty` to clear.
Flush(d, q, c, h) ==
  /\ dirty' = d
  /\ quiet' = q
  /\ IF Due(d, q, c, h)
       THEN elapsed' = 0 /\ ceiling' = None /\ held' = None
       ELSE ceiling' = c /\ held' = h /\ UNCHANGED elapsed
  /\ UNCHANGED <<sync, frame, notified, interval>>

\* The reader goes on at `next`, by way of the rest of flush if it released.
Continue(released, next) ==
  IF released THEN pc' = "clear" /\ after' = next
              ELSE pc' = next /\ UNCHANGED after

FlushFrame(next) == /\ Flush(dirty, quiet, ceiling, held)
                    /\ Continue(Due(dirty, quiet, ceiling, held), next)

-----------------------------------------------------------------------------
(* The reader *)

\* Notifier::announce: what is not part of a frame waits for no frame to end.
Announce(next) ==
  /\ announced' = TRUE
  /\ Flush(TRUE, None, None, None)
  /\ Continue(Due(TRUE, None, None, None), next)
  /\ UNCHANGED <<input, interrupt, drawable, epc, retuned, waiting>>

\* poll returns: at its timeout, for input or an interrupt, or early.
Wake ==
  /\ pc = "poll" \/ (pc = "nap" /\ sleep = 0)
  /\ interrupt' = (pc = "nap" /\ interrupt)
  /\ pc' = IF pc = "nap" THEN "sleep" ELSE "sample"
  /\ UNCHANGED <<dirty, notified, interval, deadlines, input, after, drawable, sleep, epc, history>>

Sample ==
  /\ pc = "sample"
  /\ \/ Announce("tick")
     \/ pc' = "tick" /\ UNCHANGED <<dirty, notified, interval, deadlines, input,
                                    interrupt, drawable, after, epc, history>>
  /\ UNCHANGED sleep

Tick ==
  /\ pc = "tick"
  /\ FlushFrame("read")
  /\ UNCHANGED <<input, interrupt, drawable, sleep, epc, history>>

\* What follows flush's lock section: dirty.store(false) and notify.
Clear ==
  /\ pc = "clear"
  /\ pc' = after /\ after' = "poll"
  /\ dirty' = FALSE /\ notified' = TRUE /\ announced' = FALSE /\ waiting' = 0
  /\ UNCHANGED <<interval, deadlines, input, interrupt, drawable, sleep, epc, retuned>>

NothingToRead ==
  /\ pc = "read" /\ ~input
  /\ pc' = "sleep"
  /\ UNCHANGED <<dirty, notified, interval, deadlines, input, interrupt,
                 after, drawable, sleep, epc, history>>

\* A full backlog, which undrained output must have filled: set_sync(None), and
\* an announcement, before the nap.
Backlog ==
  /\ pc = "read" /\ input /\ (dirty \/ notified)
  /\ sync' = None
  /\ pc' = "full"
  /\ UNCHANGED <<dirty, notified, interval, quiet, ceiling, held, frame, elapsed,
                 input, interrupt, after, drawable, sleep, epc, history>>

BacklogAnnounce ==
  /\ pc = "full"
  /\ Announce("nap")
  /\ sleep' = Nap

\* Term::feed: the bytes may begin or end a synchronized frame, and may draw.
Feed ==
  /\ pc = "read" /\ input
  /\ input' = FALSE
  /\ frame' \in {frame} \cup IF Synchronizes THEN {SyncTimeout, None} ELSE {}
  /\ drawable' \in BOOLEAN
  /\ pc' = "sync"
  /\ UNCHANGED <<dirty, notified, interval, sync, quiet, ceiling, held, elapsed,
                 interrupt, after, sleep, epc, history>>

\* Broken: every marker renews the deadline of a frame already held.
SetSyncRenewing ==
  /\ pc = "sync"
  /\ sync' = IF frame <= 0 THEN None ELSE frame
  /\ pc' = "fed"
  /\ UNCHANGED <<dirty, notified, interval, quiet, ceiling, held, frame, elapsed,
                 input, interrupt, after, drawable, sleep, epc, history>>

\* Broken: a held frame keeps its deadline even after the end marker.
SetSyncSticking ==
  /\ pc = "sync"
  /\ sync' = IF dirty /\ sync # None THEN sync
             ELSE IF frame <= 0 THEN None ELSE frame
  /\ pc' = "fed"
  /\ UNCHANGED <<dirty, notified, interval, quiet, ceiling, held, frame, elapsed,
                 input, interrupt, after, drawable, sleep, epc, history>>

\* refresh_sync: the emulator's deadline, if it has not passed, is adopted
\* unless an earlier one is holding a frame.
SetSync ==
  /\ pc = "sync"
  /\ sync' = IF frame <= 0 THEN None
             ELSE IF dirty /\ sync # None THEN sync ELSE frame
  /\ pc' = "fed"
  /\ UNCHANGED <<dirty, notified, interval, quiet, ceiling, held, frame, elapsed,
                 input, interrupt, after, drawable, sleep, epc, history>>

\* Notifier::fed: every read is noise, a first change starts the hold's backstop,
\* a second one the ceiling.
Fed ==
  /\ pc = "fed"
  /\ quiet' = Quiescence
  /\ dirty' = (dirty \/ drawable)
  /\ ceiling' = IF drawable /\ dirty /\ ceiling = None THEN interval ELSE ceiling
  /\ held' = IF drawable /\ ~dirty THEN HoldCeiling ELSE held
  /\ drawable' = FALSE
  /\ pc' = "resample"
  /\ UNCHANGED <<notified, interval, sync, frame, elapsed, input, interrupt,
                 after, sleep, epc, history>>

Resample ==
  /\ pc = "resample"
  /\ \/ Announce("sleep")
     \/ pc' = "sleep" /\ UNCHANGED <<dirty, notified, interval, deadlines, input,
                                     interrupt, drawable, after, epc, history>>
  /\ UNCHANGED sleep

\* poll_timeout, and into poll.
Sleep ==
  /\ pc = "sleep"
  /\ sleep' = PollSleep
  /\ retuned' = FALSE
  /\ pc' = "poll"
  /\ UNCHANGED <<dirty, notified, interval, deadlines, input, interrupt,
                 after, drawable, epc, announced, waiting>>

ReaderStep ==
  Wake \/ Sample \/ Tick \/ Clear \/ NothingToRead \/ Backlog \/ BacklogAnnounce
    \/ Feed \/ SetSync \/ Fed \/ Resample \/ Sleep

-----------------------------------------------------------------------------
(* Emacs and the child *)

\* Session::drain, for a wake byte or unbidden.
Drain ==
  /\ epc = "idle"
  /\ notified' = FALSE
  /\ epc' = "draw"
  /\ UNCHANGED <<dirty, interval, deadlines, reader, history>>

\* Broken: the reader is left to its own timeout.
ReadyWithoutInterrupt ==
  /\ epc = "draw"
  /\ Flush(dirty, quiet, ceiling, held)
  /\ epc' = IF Due(dirty, quiet, ceiling, held) THEN "clear" ELSE "idle"
  /\ UNCHANGED <<input, interrupt, pc, after, drawable, sleep, history>>

\* Session::ready once the buffer is drawn: rearm flushes, and interrupts the
\* reader's poll if a notification stays behind.
Ready ==
  /\ epc = "draw"
  /\ Flush(dirty, quiet, ceiling, held)
  /\ IF Due(dirty, quiet, ceiling, held)
       THEN epc' = "clear" /\ UNCHANGED interrupt
       ELSE epc' = "idle" /\ interrupt' = (interrupt \/ (dirty /\ ~notified))
  /\ UNCHANGED <<input, pc, after, drawable, sleep, history>>

ReadyClear ==
  /\ epc = "clear"
  /\ dirty' = FALSE /\ notified' = TRUE /\ announced' = FALSE /\ waiting' = 0
  /\ epc' = "idle"
  /\ UNCHANGED <<interval, deadlines, reader, retuned>>

\* Notifier::set_pacing: the ceiling of a frame already held stays.
SetPacing ==
  /\ epc = "idle"
  /\ interval' \in Intervals \ {interval}
  /\ retuned' = TRUE
  /\ UNCHANGED <<dirty, notified, deadlines, reader, epc, announced, waiting>>

\* What arrives outside poll is seen by the next one, at the same instant.
ChildWrites ==
  /\ pc = "poll" /\ ~input
  /\ input' = TRUE
  /\ UNCHANGED <<dirty, notified, interval, deadlines, interrupt, pc, after, drawable,
                 sleep, epc, history>>

\* Time passes while the reader naps, or sleeps with nothing to wake it: a poll
\* of length zero comes back at once, but finds nothing due yet.
Asleep ==
  \/ pc = "nap" /\ sleep > 0
  \/ /\ pc = "poll" /\ ~input /\ ~interrupt
     /\ sleep > 0 \/ ~Due(dirty, quiet, ceiling, held)

\* Broken: a deadline already passed goes on counting.
LaterUnchecked(left) == IF left = None THEN left ELSE left - 1

Later(left) == IF left > 0 THEN left - 1 ELSE left

Clock ==
  /\ Asleep /\ epc # "clear"
  /\ elapsed' = Smaller(elapsed + 1, Longest)
  /\ sync' = Later(sync) /\ quiet' = Later(quiet) /\ ceiling' = Later(ceiling)
  /\ held' = Later(held) /\ frame' = Later(frame) /\ sleep' = Later(sleep)
  /\ waiting' = IF dirty /\ ~notified /\ epc = "idle"
                  THEN Smaller(waiting + 1, Cap) ELSE waiting
  /\ UNCHANGED <<dirty, notified, interval, input, interrupt, pc, after, drawable, epc,
                 announced, retuned>>

-----------------------------------------------------------------------------
Init ==
  /\ dirty = FALSE /\ notified = FALSE
  /\ interval \in Intervals /\ elapsed = Longest
  /\ sync = None /\ quiet = None /\ ceiling = None /\ held = None /\ frame = None
  /\ input = FALSE /\ interrupt = FALSE /\ drawable = FALSE
  /\ pc = "sleep" /\ after = "poll" /\ sleep = 0 /\ epc = "idle"
  /\ announced = FALSE /\ retuned = FALSE /\ waiting = 0

Next ==
  ReaderStep \/ Drain \/ Ready \/ ReadyClear \/ SetPacing \/ ChildWrites \/ Clock

Spec == Init /\ [][Next]_vars

-----------------------------------------------------------------------------
(* Properties *)

ReaderLabels ==
  {"poll", "sample", "tick", "read", "full", "sync", "fed", "resample", "sleep",
   "nap", "clear"}

FlagsOK ==
  /\ dirty \in BOOLEAN /\ notified \in BOOLEAN
  /\ input \in BOOLEAN /\ interrupt \in BOOLEAN /\ drawable \in BOOLEAN
  /\ announced \in BOOLEAN /\ retuned \in BOOLEAN

RangesOK ==
  /\ interval \in Intervals /\ elapsed \in 0..Longest
  /\ sync \in None..SyncTimeout /\ frame \in None..SyncTimeout
  /\ quiet \in None..Quiescence /\ ceiling \in None..Longest
  /\ held \in None..HoldCeiling
  /\ pc \in ReaderLabels /\ after \in ReaderLabels /\ epc \in {"idle", "draw", "clear"}
  /\ sleep \in Nat
  /\ waiting \in 0..Cap

\* Every variable stays in its range; no deadline is further off than its timeout.
TypeOK == FlagsOK /\ RangesOK

\* A frame is never held for ever: from its first change, whatever the child goes
\* on writing and however it renews its markers, the byte goes out within the
\* hold's own backstop plus one synchronized frame begun before it ran out.
\* This is what set_sync's adoption rule, ceiling_at and held_since are for.
FrameHoldBounded == ~announced => waiting < Cap

\* The same of everything that is announced, which waits on no frame at all.
HoldBounded == waiting < Cap

\* The reader never sleeps through the moment a notification falls due, however
\* its timeout was computed: poll_wait covers every hold, and ready interrupts a
\* sleep begun while the last byte was in flight.  A change of interval is the
\* one thing that wakes nobody.
NoOversleep ==
  pc = "poll" /\ epc = "idle" /\ ~input /\ ~interrupt /\ ~retuned
    /\ Due(dirty, quiet, ceiling, held)
  => sleep = 0

\* The notifier holds no frame the emulator has ended: its copy of the deadline,
\* taken under another lock, never outlives the original, but for the moment
\* between reading an end marker and refreshing the copy.
SyncNotStale == sync <= Larger(frame, 0) \/ (pc = "sync" /\ frame = None)

=============================================================================

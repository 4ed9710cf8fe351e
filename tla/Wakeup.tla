------------------------------- MODULE Wakeup -------------------------------
(***************************************************************************)
(* The wakeup protocol of src/session.rs: how the reader thread tells      *)
(* Emacs there is something to draw, and how Emacs answers.                *)
(*                                                                         *)
(* Two threads share the Notifier's two atomics, the wake pipe and the     *)
(* locked emulator.  The reader feeds bytes into Term and retries a flush  *)
(* on every turn of read_loop; Emacs reads the wake byte, drains, renders  *)
(* and calls ready, which flushes too.  Every atomic access and every lock *)
(* section is a step of its own, so all their interleavings are explored.  *)
(*                                                                         *)
(* Time is abstracted: whether a flush is held back (synchronized output,  *)
(* the throttle, quiescence) is a free choice here, made fair by           *)
(* FairPolicy; Pacing models those deadlines and bounds them.              *)
(***************************************************************************)
EXTENDS Naturals

CONSTANT PollErrors   \* whether poll itself may fail

Reader == "reader"
Emacs == "emacs"
Threads == {Reader, Emacs}

VARIABLES
  dirty,      \* Notifier.dirty: something has not been announced yet
  notified,   \* Notifier.notified: a wake byte is in flight
  wake,       \* the wake pipe: "open", "broken" (Emacs hung up), "closed"
  rung,       \* the wake pipe holds at least one unread byte
  shutdown,   \* Shared.shutdown
  interrupt,  \* the self-pipe of Interrupt is readable
  exited,     \* Shared.exited is Some
  term,       \* undrained content of Term: "clean", "fresh", or a "full" backlog
  data,       \* bytes wait in the pty for the reader
  open,       \* some process still holds the slave side of the pty
  pc,         \* what each thread does next
  ret,        \* where a thread continues after a flush (Emacs: after a drain)
  readable,   \* reader's local: poll reported the pty readable
  drawable,   \* reader's local: what Term::feed answered
  headless,   \* Emacs: the session feeds cooked-process, not a cooked buffer
  frozen,     \* Emacs: cooked--frozen-p
  timer,      \* Emacs: a zero-delay timer is to drain, the user having left
  saw         \* Emacs: the update in hand carries an exit status

notifier == <<dirty, notified, wake, rung>>
child == <<data, open>>
local == <<readable, drawable, headless, frozen, timer, saw>>
vars == <<notifier, shutdown, interrupt, exited, term, child, pc, ret, local>>

FlushLabels == {"claimed", "dirty", "policy", "clear", "swap", "write"}
ReaderLabels == FlushLabels \cup
  {"top", "poll", "sample", "tick", "ready", "read", "fed", "resample",
   "reap", "ack", "gone"}
StopLabels == {"kill", "raise", "close", "join", "dead"}
EmacsLabels == FlushLabels \cup StopLabels \cup
  {"idle", "ack", "take", "look", "apply", "report", "rearm"}

ReaderReturns == {"top", "tick", "ready", "gone"}

Go(t, label) == pc' = [pc EXCEPT ![t] = label]

\* Call the code at `label` on thread t, to continue at `next` when it returns.
Call(t, label, next) == /\ Go(t, label)
                        /\ ret' = [ret EXCEPT ![t] = next]

Return(t) == Call(t, ret[t], "none")

Flush(t, next) == Call(t, "claimed", next)

\* Session::drain builds its Update in one expression, so the term lock it takes
\* for the first field is let go only after the last one has been read.
TermFree == pc[Emacs] # "look"

-----------------------------------------------------------------------------
(* Notifier::flush and Notifier::notify, run by either thread *)

\* Both return early, to `ret`, when there is nothing to do.
LoadNotified(t) ==
  /\ pc[t] = "claimed"
  /\ IF notified THEN Return(t) ELSE Go(t, "dirty") /\ UNCHANGED ret
  /\ UNCHANGED <<notifier, shutdown, interrupt, exited, term, child, local>>

LoadDirty(t) ==
  /\ pc[t] = "dirty"
  /\ IF dirty THEN Go(t, "policy") /\ UNCHANGED ret ELSE Return(t)
  /\ UNCHANGED <<notifier, shutdown, interrupt, exited, term, child, local>>

\* One lock section: the frame is held back and stays dirty ...
Hold(t) ==
  /\ pc[t] = "policy"
  /\ Return(t)
  /\ UNCHANGED <<notifier, shutdown, interrupt, exited, term, child, local>>

\* ... or is due, and the section stamps `last` and lets the lock go.
Release(t) ==
  /\ pc[t] = "policy"
  /\ Go(t, "clear")
  /\ UNCHANGED <<notifier, shutdown, interrupt, exited, term, child, ret, local>>

ClearDirty(t) ==
  /\ pc[t] = "clear"
  /\ dirty' = FALSE
  /\ Go(t, "swap")
  /\ UNCHANGED <<notified, wake, rung, shutdown, interrupt, exited, term, child, ret, local>>

Claim(t) ==
  /\ pc[t] = "swap"
  /\ notified' = TRUE
  /\ IF notified THEN Return(t) ELSE Go(t, "write") /\ UNCHANGED ret
  /\ UNCHANGED <<dirty, wake, rung, shutdown, interrupt, exited, term, child, local>>

\* The byte, or a failure; a failure the reader sees ends the session.
Ring(t) ==
  /\ pc[t] = "write"
  /\ rung' = (rung \/ wake = "open")
  /\ shutdown' = (shutdown \/ (t = Reader /\ wake # "open"))
  /\ Return(t)
  /\ UNCHANGED <<dirty, notified, wake, interrupt, exited, term, child, local>>

FlushStep(t) ==
  LoadNotified(t) \/ LoadDirty(t) \/ Hold(t) \/ Release(t)
    \/ ClearDirty(t) \/ Claim(t) \/ Ring(t)

-----------------------------------------------------------------------------
(* The reader thread: Shared::read_loop and Shared::finish *)

\* The loop condition; falling out of the loop is finish(Aborted).
Top ==
  /\ pc[Reader] = "top"
  /\ Go(Reader, IF shutdown THEN "reap" ELSE "poll")
  /\ UNCHANGED <<notifier, shutdown, interrupt, exited, term, child, ret, local>>

\* poll returns for data, hang-up, an interrupt or its timeout.  Interrupted,
\* it empties the self-pipe and leaves at once if that was teardown.
Poll ==
  /\ pc[Reader] = "poll"
  /\ readable' = (data \/ ~open)
  /\ interrupt' = FALSE
  /\ Go(Reader, IF interrupt /\ shutdown THEN "gone" ELSE "sample")
  /\ UNCHANGED <<notifier, shutdown, exited, term, child, ret,
                 drawable, headless, frozen, timer, saw>>

\* poll itself failing breaks out of the loop.
PollFails ==
  /\ pc[Reader] = "poll" /\ PollErrors
  /\ Go(Reader, "reap")
  /\ UNCHANGED <<notifier, shutdown, interrupt, exited, term, child, ret, local>>

\* A termios sample: a change is announced, which marks dirty and flushes.
Sample(label, next) ==
  /\ pc[Reader] = label
  /\ \/ dirty' = TRUE /\ Flush(Reader, next)
     \/ Go(Reader, next) /\ UNCHANGED <<dirty, ret>>
  /\ UNCHANGED <<notified, wake, rung, shutdown, interrupt, exited, term, child, local>>

\* Broken: a turn flushes only what it announces itself.
TickWithoutFlush ==
  /\ pc[Reader] = "tick"
  /\ Go(Reader, "ready")
  /\ UNCHANGED <<notifier, shutdown, interrupt, exited, term, child, ret, local>>

\* The unconditional flush of every turn.
Tick ==
  /\ pc[Reader] = "tick"
  /\ Flush(Reader, "ready")
  /\ UNCHANGED <<notifier, shutdown, interrupt, exited, term, child, local>>

\* Broken: the nap of a full backlog goes round without the loop's own condition.
ReadyRetryingInPlace ==
  /\ pc[Reader] = "ready"
  /\ \/ ~readable /\ Go(Reader, "top") /\ UNCHANGED <<dirty, ret>>
     \/ readable /\ term = "full" /\ dirty' = TRUE /\ Flush(Reader, "ready")
     \/ readable /\ term # "full" /\ Go(Reader, "read") /\ UNCHANGED <<dirty, ret>>
  /\ TermFree \/ ~readable
  /\ readable' = (readable /\ term = "full")
  /\ UNCHANGED <<notified, wake, rung, shutdown, interrupt, exited, term, child,
                 drawable, headless, frozen, timer, saw>>

\* Nothing to read; or a full backlog, announced and left in the pty; or read.
Ready ==
  /\ pc[Reader] = "ready"
  /\ \/ ~readable /\ Go(Reader, "top") /\ UNCHANGED <<dirty, ret>>
     \/ readable /\ term = "full" /\ dirty' = TRUE /\ Flush(Reader, "top")
     \/ readable /\ term # "full" /\ Go(Reader, "read") /\ UNCHANGED <<dirty, ret>>
  /\ TermFree \/ ~readable
  /\ readable' = FALSE
  /\ UNCHANGED <<notified, wake, rung, shutdown, interrupt, exited, term, child,
                 drawable, headless, frozen, timer, saw>>

\* Broken: the emulator is fed while a drain is being put together.
FeedUnlocked ==
  /\ pc[Reader] = "read" /\ data
  /\ data' = FALSE
  /\ \/ drawable' = TRUE /\ term' \in {"fresh", "full"}
     \/ drawable' = FALSE /\ UNCHANGED term
  /\ Go(Reader, "fed")
  /\ UNCHANGED <<notifier, shutdown, interrupt, exited, open, ret,
                 readable, headless, frozen, timer, saw>>

\* Term::feed under the term lock: a drawable read changes what a drain returns.
Feed ==
  /\ pc[Reader] = "read" /\ data /\ TermFree
  /\ data' = FALSE
  /\ \/ drawable' = TRUE /\ term' \in {"fresh", "full"}
     \/ drawable' = FALSE /\ UNCHANGED term
  /\ Go(Reader, "fed")
  /\ UNCHANGED <<notifier, shutdown, interrupt, exited, open, ret,
                 readable, headless, frozen, timer, saw>>

\* An empty read or EIO: finish(ChildGone), as finish(Aborted) on any other error.
ReadEnds ==
  /\ pc[Reader] = "read" /\ ~data /\ ~open
  /\ Go(Reader, "reap")
  /\ UNCHANGED <<notifier, shutdown, interrupt, exited, term, child, ret, local>>

\* Broken: what the read drew replaces the flag instead of adding to it.
FedOverwriting ==
  /\ pc[Reader] = "fed"
  /\ dirty' = drawable
  /\ drawable' = FALSE
  /\ Go(Reader, "resample")
  /\ UNCHANGED <<notified, wake, rung, shutdown, interrupt, exited, term, child, ret,
                 readable, headless, frozen, timer, saw>>

\* Notifier::fed.
Fed ==
  /\ pc[Reader] = "fed"
  /\ dirty' = (dirty \/ drawable)
  /\ drawable' = FALSE
  /\ Go(Reader, "resample")
  /\ UNCHANGED <<notified, wake, rung, shutdown, interrupt, exited, term, child, ret,
                 readable, headless, frozen, timer, saw>>

\* Broken: the status is recorded and nobody is notified.
ReapInSilence ==
  /\ pc[Reader] = "reap"
  /\ exited' \in {exited, TRUE}
  /\ Go(Reader, "gone")
  /\ UNCHANGED <<notifier, shutdown, interrupt, term, child, ret, local>>

\* finish: a child that can be reaped in time is reported; one that has only let
\* go of its terminal, or that an abort leaves running, ends the thread in silence.
Reap ==
  /\ pc[Reader] = "reap"
  /\ \/ exited' = TRUE /\ Go(Reader, "ack")
     \/ Go(Reader, "gone") /\ UNCHANGED exited
  /\ UNCHANGED <<notifier, shutdown, interrupt, term, child, ret, local>>

\* Broken: the last word waits for the throttle and the frame, as any output would.
FinishThrottled ==
  /\ pc[Reader] = "ack"
  /\ notified' = FALSE
  /\ Flush(Reader, "gone")
  /\ UNCHANGED <<dirty, wake, rung, shutdown, interrupt, exited, term, child, local>>

\* finish acknowledges on Emacs' behalf, then notifies past every hold.
FinishAck ==
  /\ pc[Reader] = "ack"
  /\ notified' = FALSE
  /\ Call(Reader, "swap", "gone")
  /\ UNCHANGED <<dirty, wake, rung, shutdown, interrupt, exited, term, child, local>>

ReaderStep ==
  \/ FlushStep(Reader) \/ Top \/ Poll \/ PollFails
  \/ Sample("sample", "tick") \/ Sample("resample", "top")
  \/ Tick \/ Ready \/ Feed \/ ReadEnds \/ Fed \/ Reap \/ FinishAck

-----------------------------------------------------------------------------
(* Emacs: cooked--on-wake, cooked--drain-and-apply, cooked-process--pump *)

\* Session::drain, continuing at `next`.
Drain(next) == Call(Emacs, "ack", next)

\* The process filter takes every byte there is; a frozen buffer does no more.
Wake ==
  /\ pc[Emacs] = "idle" /\ rung
  /\ rung' = FALSE
  /\ IF frozen THEN UNCHANGED <<pc, ret>> ELSE Drain("apply")
  /\ UNCHANGED <<dirty, notified, wake, shutdown, interrupt, exited, term, child, local>>

\* A cooked buffer's render freezes while the user peeks ...
Freeze ==
  /\ pc[Emacs] = "idle" /\ ~headless /\ ~frozen
  /\ frozen' = TRUE
  /\ UNCHANGED <<notifier, shutdown, interrupt, exited, term, child, pc, ret,
                 readable, drawable, headless, timer, saw>>

\* Broken: lifting the freeze waits for the next wake byte.
ThawWithoutDrain ==
  /\ pc[Emacs] = "idle" /\ frozen
  /\ frozen' = FALSE
  /\ UNCHANGED <<notifier, shutdown, interrupt, exited, term, child, pc, ret,
                 readable, drawable, headless, timer, saw>>

\* ... and lifting the freeze owes one catch-up drain: there and then, or, where
\* it is the user's going elsewhere that lifts it, from a timer.
Thaw ==
  /\ pc[Emacs] = "idle" /\ frozen
  /\ frozen' = FALSE
  /\ \/ Drain("apply") /\ UNCHANGED timer
     \/ timer' = "set" /\ UNCHANGED <<pc, ret>>
  /\ UNCHANGED <<notifier, shutdown, interrupt, exited, term, child,
                 readable, drawable, headless, saw>>

\* That timer, whatever the buffer has become: frozen again, it drains all the same.
CatchUp ==
  /\ pc[Emacs] = "idle" /\ timer = "set"
  /\ timer' = "unset"
  /\ Drain("apply")
  /\ UNCHANGED <<notifier, shutdown, interrupt, exited, term, child,
                 readable, drawable, headless, frozen, saw>>

\* cooked-refresh, the resync and a resize: damage the grid and drain unbidden.
Refresh ==
  /\ pc[Emacs] = "idle" /\ ~headless
  /\ term' = IF term = "clean" THEN "fresh" ELSE term
  /\ Drain("apply")
  /\ UNCHANGED <<notifier, shutdown, interrupt, exited, child, local>>

\* Broken: a drain leaves the wakeup it answers claimed.
DrainWithoutAck ==
  /\ pc[Emacs] = "ack"
  /\ Go(Emacs, "take")
  /\ UNCHANGED <<notifier, shutdown, interrupt, exited, term, child, ret, local>>

\* Notifier::acknowledge.
Acknowledge ==
  /\ pc[Emacs] = "ack"
  /\ notified' = FALSE
  /\ Go(Emacs, "take")
  /\ UNCHANGED <<dirty, wake, rung, shutdown, interrupt, exited, term, child, ret, local>>

\* Term::drain, and then, the term lock still held, the exit status.
Take ==
  /\ pc[Emacs] = "take"
  /\ term' = "clean"
  /\ Go(Emacs, "look")
  /\ UNCHANGED <<notifier, shutdown, interrupt, exited, child, ret, local>>

Look ==
  /\ pc[Emacs] = "look"
  /\ saw' = exited
  /\ Return(Emacs)
  /\ UNCHANGED <<notifier, shutdown, interrupt, exited, term, child,
                 readable, drawable, headless, frozen, timer>>

\* cooked--apply of an update: the render, then ready; a drain folded into it
\* runs first.  cooked-process--pump renders and never calls ready.
Apply ==
  /\ pc[Emacs] = "apply" /\ ~saw
  /\ IF headless
       THEN Go(Emacs, "idle") /\ UNCHANGED ret
       ELSE Flush(Emacs, "rearm") \/ Drain("apply")
  /\ UNCHANGED <<notifier, shutdown, interrupt, exited, term, child, local>>

\* cooked--on-exit stops the session on the spot.
OnExit ==
  /\ pc[Emacs] = "apply" /\ saw /\ ~headless
  /\ Go(Emacs, "kill")
  /\ UNCHANGED <<notifier, shutdown, interrupt, exited, term, child, ret, local>>

\* Broken: the residue's drain re-arms, as a cooked buffer's would.
ResidueRearming ==
  /\ pc[Emacs] = "apply" /\ saw /\ headless
  /\ term' = IF term = "clean" THEN "fresh" ELSE term
  /\ Drain("rearm")
  /\ UNCHANGED <<notifier, shutdown, interrupt, exited, child, local>>

\* cooked-process--finish first drains the residue, shrinking the grid to retire it.
Residue ==
  /\ pc[Emacs] = "apply" /\ saw /\ headless
  /\ term' = IF term = "clean" THEN "fresh" ELSE term
  /\ Drain("report")
  /\ UNCHANGED <<notifier, shutdown, interrupt, exited, child, local>>

\* cooked-process--report and cooked-process-reap.
Report ==
  /\ pc[Emacs] = "report"
  /\ Go(Emacs, "kill")
  /\ UNCHANGED <<notifier, shutdown, interrupt, exited, term, child, ret, local>>

\* The end of rearm, and of ready: what was throttled interrupts the reader's poll.
Rearm ==
  /\ pc[Emacs] = "rearm"
  /\ interrupt' = (interrupt \/ (dirty /\ ~notified))
  /\ Go(Emacs, "idle")
  /\ UNCHANGED <<notifier, shutdown, exited, term, child, ret, local>>

-----------------------------------------------------------------------------
(* Session::shutdown, and the pipe going away *)

\* kill-buffer: cooked--cleanup stops the session.
KillBuffer ==
  /\ pc[Emacs] = "idle"
  /\ Go(Emacs, "kill")
  /\ UNCHANGED <<notifier, shutdown, interrupt, exited, term, child, ret, local>>

\* The swap that makes shutdown idempotent; a drain still on a timer will find no
\* session.
ShutdownSwap ==
  /\ pc[Emacs] = "kill"
  /\ shutdown' = TRUE /\ timer' = "unset"
  /\ Go(Emacs, IF shutdown THEN "dead" ELSE "raise")
  /\ UNCHANGED <<notifier, interrupt, exited, term, child, ret,
                 readable, drawable, headless, frozen, saw>>

RaiseInterrupt ==
  /\ pc[Emacs] = "raise"
  /\ interrupt' = TRUE
  /\ Go(Emacs, "close")
  /\ UNCHANGED <<notifier, shutdown, exited, term, child, ret, local>>

CloseWake ==
  /\ pc[Emacs] = "close"
  /\ wake' = "closed"
  /\ Go(Emacs, "join")
  /\ UNCHANGED <<dirty, notified, rung, shutdown, interrupt, exited, term, child, ret, local>>

\* Join the reader, then reap what it did not, which may still fail.
Join ==
  /\ pc[Emacs] = "join" /\ pc[Reader] = "gone"
  /\ exited' \in {exited, TRUE}
  /\ Go(Emacs, "dead")
  /\ UNCHANGED <<notifier, shutdown, interrupt, term, child, ret, local>>

EmacsStep ==
  \/ FlushStep(Emacs) \/ Wake \/ CatchUp
  \/ Acknowledge \/ Take \/ Look \/ Apply \/ OnExit \/ Residue \/ Report \/ Rearm
  \/ ShutdownSwap \/ RaiseInterrupt \/ CloseWake \/ Join

\* Emacs deletes the wake process under a live session.
HangUp ==
  /\ pc[Emacs] = "idle" /\ wake = "open"
  /\ wake' = "broken"
  /\ rung' = FALSE
  /\ UNCHANGED <<dirty, notified, shutdown, interrupt, exited, term, child, pc, ret, local>>

UserStep == Freeze \/ Thaw \/ Refresh \/ KillBuffer \/ HangUp

-----------------------------------------------------------------------------
(* The child, and whatever else holds its terminal *)

ChildWrites == open /\ ~data /\ data' = TRUE /\ UNCHANGED open
ChildCloses == open /\ open' = FALSE /\ UNCHANGED data

ChildStep ==
  /\ ChildWrites \/ ChildCloses
  /\ UNCHANGED <<notifier, shutdown, interrupt, exited, term, pc, ret, local>>

\* Both threads are through: the one way the system may stop.
Stopped ==
  /\ pc[Emacs] = "dead" /\ pc[Reader] = "gone"
  /\ UNCHANGED vars

-----------------------------------------------------------------------------
Init ==
  /\ dirty = FALSE /\ notified = FALSE /\ wake = "open" /\ rung = FALSE
  /\ shutdown = FALSE /\ interrupt = FALSE /\ exited = FALSE
  /\ term = "clean"
  /\ data = FALSE /\ open = TRUE
  /\ pc = [t \in Threads |-> IF t = Reader THEN "top" ELSE "idle"]
  /\ ret = [t \in Threads |-> "none"]
  /\ readable = FALSE /\ drawable = FALSE
  /\ headless \in BOOLEAN /\ frozen = FALSE /\ timer = "unset" /\ saw = FALSE

Next == ReaderStep \/ EmacsStep \/ UserStep \/ ChildStep \/ Stopped

\* Both threads are scheduled, and the reader, which can wait on the term lock, gets
\* it at last; nothing is asked of the user or the child.
FairThreads == SF_vars(ReaderStep) /\ WF_vars(EmacsStep)

\* Every hold has a deadline, so a flush retried for ever is not held for ever.
FairPolicy == SF_vars(Release(Reader))

\* Drains asked for during a drain run out: a freeze that has lifted stays lifted.
FairLeaving == SF_vars(pc[Emacs] = "apply" /\ Apply /\ pc'[Emacs] # "ack")

Spec == Init /\ [][Next]_vars
FairSpec == Spec /\ FairThreads /\ FairPolicy /\ FairLeaving

-----------------------------------------------------------------------------
(* Properties *)

FlagsOK ==
  /\ dirty \in BOOLEAN /\ notified \in BOOLEAN /\ rung \in BOOLEAN
  /\ shutdown \in BOOLEAN /\ interrupt \in BOOLEAN /\ exited \in BOOLEAN
  /\ data \in BOOLEAN /\ open \in BOOLEAN
  /\ readable \in BOOLEAN /\ drawable \in BOOLEAN
  /\ headless \in BOOLEAN /\ frozen \in BOOLEAN /\ saw \in BOOLEAN

LabelsOK ==
  /\ wake \in {"open", "broken", "closed"}
  /\ term \in {"clean", "fresh", "full"} /\ timer \in {"unset", "set"}
  /\ pc \in [Threads -> ReaderLabels \cup EmacsLabels]
  /\ pc[Reader] \in ReaderLabels /\ pc[Emacs] \in EmacsLabels
  /\ ret \in [Threads -> ReaderLabels \cup EmacsLabels \cup {"none"}]
  /\ ret[Reader] \in IF pc[Reader] \in FlushLabels THEN ReaderReturns ELSE {"none"}
  /\ ret[Emacs] \in IF pc[Emacs] \in FlushLabels THEN {"rearm"}
                    ELSE IF pc[Emacs] \in {"ack", "take", "look"} THEN {"apply", "report"}
                    ELSE {"none"}

\* Every variable stays in its range, each thread at a label of its own, and a
\* flush or a drain always under way for a caller it can go back to.
TypeOK == FlagsOK /\ LabelsOK

\* Emacs can still be told: the pipe is whole and the session not being stopped.
Listening == wake = "open" /\ pc[Emacs] \notin StopLabels

\* A drain that has not taken the emulator's content yet is certain: its byte is
\* in the pipe or about to be, Emacs is on its way, or a freeze, or the timer that
\* lifting one set, owes it.
DrainComing ==
  \/ rung
  \/ \E t \in Threads : pc[t] = "write"
  \/ pc[Emacs] \in {"ack", "take"}
  \/ frozen \/ timer = "set"

\* No lost wakeup: what Emacs has not drained is always marked dirty, about to
\* be, about to be announced, or covered by a drain that is coming.  This is the
\* order flush, fed and drain touch `dirty`, `notified` and Term in.
NoLostWakeup ==
  Listening /\ term # "clean" =>
    \/ dirty
    \/ pc[Reader] = "fed" /\ drawable
    \/ \E t \in Threads : pc[t] = "swap"
    \/ DrainComing

\* The claim `notified` makes is honest: a byte is really on its way to a drain
\* that has not acknowledged yet.  A claim nobody serves would mute the session.
ClaimHonest ==
  Listening /\ notified =>
    \/ rung
    \/ \E t \in Threads : pc[t] = "write"
    \/ pc[Emacs] = "ack"
    \/ frozen \/ timer = "set"

\* The last word: an exit status the reader recorded is on its way to Emacs,
\* whatever drains were under way while finish ran.
ExitOwed ==
  Listening /\ exited =>
    \/ pc[Reader] \in {"ack", "swap"}
    \/ DrainComing
    \/ pc[Emacs] = "look"
    \/ pc[Emacs] \in {"apply", "report"} /\ saw

\* An update is a snapshot: one that carries the exit status leaves nothing behind
\* in the emulator, of all that was read in the meantime.  cooked--on-exit depends
\* on it: it stops the session with what that one drain brought.
ExitIsSnapshot == pc[Emacs] = "apply" /\ saw => term = "clean"

\* The reader gave up on a child that is still running.
Unreaped == pc[Reader] = "gone" /\ ~exited

\* What the child drew reaches Emacs, by way of read_loop's retried flush.
Drawn ==
  term # "clean" ~> (term = "clean" \/ frozen \/ ~Listening \/ Unreaped)

\* The same without the exception for a child that let go of its terminal.
DrawnRegardless == term # "clean" ~> (term = "clean" \/ frozen \/ ~Listening)

\* Backpressure ends: the pty is read again once Emacs has drained the backlog.
BacklogDrains ==
  data ~> (~data \/ frozen \/ ~Listening \/ pc[Reader] = "gone")

\* An exit the reader recorded stops the session.
ExitStops == exited ~> (pc[Emacs] \in StopLabels \/ frozen \/ wake # "open")

\* Stopping a session comes to an end: the reader leaves and the join returns.
KillReturns == pc[Emacs] = "kill" ~> pc[Emacs] = "dead"

=============================================================================

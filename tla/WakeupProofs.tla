---------------------------- MODULE WakeupProofs ----------------------------
(***************************************************************************)
(* The safety of the wakeup protocol, proved.  Wakeup's state is finite,   *)
(* so the proofs add to TLC's run less other instances than the argument:  *)
(* the inductive invariant IInv says why no order of steps loses a wakeup. *)
(***************************************************************************)
EXTENDS Wakeup, TLAPS

\* Once the status is recorded the reader only reports it; it never feeds again.
ReaderFinishing ==
  exited => \/ pc[Reader] \in {"ack", "gone"}
            \/ pc[Reader] \in {"swap", "write"} /\ ret[Reader] = "gone"

\* What Emacs knows of an exit is true, and the drain it learnt it from emptied Term.
EmacsReporting ==
  /\ saw \/ ret[Emacs] = "report" \/ pc[Emacs] = "report" => exited
  /\ pc[Emacs] = "look" => term = "clean"
  /\ ExitIsSnapshot

\* What is known of an exit, on either thread, and of the update that carries it.
ExitInv == ExitOwed /\ ReaderFinishing /\ EmacsReporting

IInv == TypeOK /\ NoLostWakeup /\ ClaimHonest /\ ExitInv

USE DEF Reader, Emacs, Threads, FlushLabels, ReaderLabels, StopLabels,
        EmacsLabels, ReaderReturns, Go, Call, Return, Flush, Drain,
        notifier, child, local

-----------------------------------------------------------------------------
(* TypeOK: each step assigns its flags Booleans and moves along the labels.  *)

\* Every step of either thread, the user or the child leaves the flags Boolean.
LEMMA FlagsStep == FlagsOK /\ [Next]_vars => FlagsOK'
<1> SUFFICES ASSUME FlagsOK, [Next]_vars PROVE FlagsOK'
  OBVIOUS
<1> USE DEF FlagsOK
<1>0. ASSUME UNCHANGED <<dirty, notified, rung, shutdown, interrupt, exited, child, local>>
      PROVE  FlagsOK'
  BY <1>0, Zenon
<1>1. ASSUME NEW t \in Threads, FlushStep(t) PROVE FlagsOK'
  <2>1. CASE LoadNotified(t) \/ LoadDirty(t) \/ Hold(t) \/ Release(t)
    BY <1>0, <2>1 DEF LoadNotified, LoadDirty, Hold, Release
  <2>2. CASE ClearDirty(t)
    BY <2>2, Zenon DEF ClearDirty
  <2>3. CASE Claim(t)
    BY <2>3, Zenon DEF Claim
  <2>4. CASE Ring(t)
    BY <2>4, Zenon DEF Ring
  <2> QED
    BY <1>1, <2>1, <2>2, <2>3, <2>4, Zenon DEF FlushStep
<1>2. ASSUME ReaderStep PROVE FlagsOK'
  <2>1. CASE Top \/ PollFails \/ Tick \/ ReadEnds
    BY <1>0, <2>1 DEF Top, PollFails, Tick, ReadEnds
  <2>2. CASE Poll
    BY <2>2, Zenon DEF Poll
  <2>3. ASSUME NEW label, NEW next, Sample(label, next) PROVE FlagsOK'
    <3>1. dirty' \in BOOLEAN
      BY <2>3, Zenon DEF Sample
    <3> QED
      BY <2>3, <3>1, Zenon DEF Sample
  <2>4. CASE Ready
    <3>1. dirty' \in BOOLEAN
      BY <2>4, Zenon DEF Ready
    <3> QED
      BY <2>4, <3>1, Zenon DEF Ready
  <2>5. CASE Feed
    BY <2>5, Zenon DEF Feed
  <2>6. CASE Fed
    BY <2>6, Zenon DEF Fed
  <2>7. CASE Reap
    <3>1. exited' \in BOOLEAN
      BY <2>7, Zenon DEF Reap
    <3> QED
      BY <2>7, <3>1, Zenon DEF Reap
  <2>8. CASE FinishAck
    BY <2>8, Zenon DEF FinishAck
  <2> QED
    BY <1>1, <1>2, <2>1, <2>2, <2>3, <2>4, <2>5, <2>6, <2>7, <2>8, Zenon DEF ReaderStep
<1>3. ASSUME EmacsStep PROVE FlagsOK'
  <2>1. CASE Apply \/ OnExit \/ Residue \/ Report \/ Take \/ CloseWake
    BY <1>0, <2>1 DEF Apply, OnExit, Residue, Report, Take, CloseWake
  <2>2. CASE Wake \/ CatchUp
    <3>1. CASE Wake
      BY <3>1, Zenon DEF Wake
    <3>2. CASE CatchUp
      BY <3>2, Zenon DEF CatchUp
    <3> QED
      BY <2>2, <3>1, <3>2, Zenon
  <2>3. CASE Acknowledge
    BY <2>3, Zenon DEF Acknowledge
  <2>4. CASE Look
    BY <2>4, Zenon DEF Look
  <2>5. CASE Rearm
    BY <2>5, Zenon DEF Rearm
  <2>6. CASE ShutdownSwap
    BY <2>6, Zenon DEF ShutdownSwap
  <2>7. CASE RaiseInterrupt
    BY <2>7, Zenon DEF RaiseInterrupt
  <2>8. CASE Join
    <3>1. exited' \in BOOLEAN
      BY <2>8, Zenon DEF Join
    <3> QED
      BY <2>8, <3>1, Zenon DEF Join
  <2> QED
    BY <1>1, <1>3, <2>1, <2>2, <2>3, <2>4, <2>5, <2>6, <2>7, <2>8, Zenon DEF EmacsStep
<1>4. CASE UserStep
  <2>1. CASE Refresh \/ KillBuffer
    BY <1>0, <2>1 DEF Refresh, KillBuffer
  <2>2. CASE Freeze
    BY <2>2, Zenon DEF Freeze
  <2>3. CASE Thaw
    BY <2>3, Zenon DEF Thaw
  <2>4. CASE HangUp
    BY <2>4, Zenon DEF HangUp
  <2> QED
    BY <1>4, <2>1, <2>2, <2>3, <2>4, Zenon DEF UserStep
<1>5. CASE ChildStep
  BY <1>5, Zenon DEF ChildStep, ChildWrites, ChildCloses
<1>6. CASE UNCHANGED vars
  BY <1>0, <1>6 DEF vars
<1> QED
  BY <1>2, <1>3, <1>4, <1>5, <1>6, Zenon DEF Next, Stopped

\* Every step leaves each thread at a label of its own, with somewhere to return to.
LEMMA LabelsStep == LabelsOK /\ [Next]_vars => LabelsOK'
<1> SUFFICES ASSUME LabelsOK, [Next]_vars PROVE LabelsOK'
  OBVIOUS
<1> USE DEF LabelsOK
<1>1. ASSUME NEW t \in Threads, FlushStep(t) PROVE LabelsOK'
  <2>1. CASE LoadNotified(t)
    BY <2>1 DEF LoadNotified
  <2>2. CASE LoadDirty(t)
    BY <2>2 DEF LoadDirty
  <2>3. CASE Hold(t) \/ Release(t) \/ ClearDirty(t)
    BY <2>3 DEF Hold, Release, ClearDirty
  <2>4. CASE Claim(t)
    BY <2>4 DEF Claim
  <2>5. CASE Ring(t)
    BY <2>5 DEF Ring
  <2> QED
    BY <1>1, <2>1, <2>2, <2>3, <2>4, <2>5 DEF FlushStep
<1>2. ASSUME ReaderStep PROVE LabelsOK'
  <2>1. CASE Top \/ Poll \/ PollFails
    BY <2>1 DEF Top, Poll, PollFails
  <2>2. CASE Sample("sample", "tick") \/ Sample("resample", "top")
    BY <2>2 DEF Sample
  <2>3. CASE Tick \/ Ready
    BY <2>3 DEF Tick, Ready
  <2>4. CASE Feed \/ ReadEnds \/ Fed
    BY <2>4 DEF Feed, ReadEnds, Fed
  <2>5. CASE Reap \/ FinishAck
    BY <2>5 DEF Reap, FinishAck
  <2> QED
    BY <1>1, <1>2, <2>1, <2>2, <2>3, <2>4, <2>5 DEF ReaderStep
<1>3. ASSUME EmacsStep PROVE LabelsOK'
  <2>1. CASE Wake \/ CatchUp \/ Acknowledge \/ Take \/ Look
    BY <2>1 DEF Wake, CatchUp, Acknowledge, Take, Look
  <2>2. CASE Apply \/ OnExit \/ Residue \/ Report \/ Rearm
    BY <2>2 DEF Apply, OnExit, Residue, Report, Rearm
  <2>3. CASE ShutdownSwap \/ RaiseInterrupt \/ CloseWake
    BY <2>3 DEF ShutdownSwap, RaiseInterrupt, CloseWake
  <2>4. CASE Join
    BY <2>4 DEF Join
  <2> QED
    BY <1>1, <1>3, <2>1, <2>2, <2>3, <2>4 DEF EmacsStep
<1>4. CASE UserStep
  BY <1>4 DEF UserStep, Freeze, Thaw, Refresh, KillBuffer, HangUp
<1>5. CASE ChildStep
  BY <1>5 DEF ChildStep
<1>6. CASE UNCHANGED vars
  BY <1>6 DEF vars
<1> QED
  BY <1>2, <1>3, <1>4, <1>5, <1>6 DEF Next, Stopped

\* A session starts with every variable in its range.
LEMMA TypeInit == Init => TypeOK
<1> SUFFICES ASSUME Init PROVE FlagsOK /\ LabelsOK
  BY DEF TypeOK
<1>1. /\ dirty \in BOOLEAN /\ notified \in BOOLEAN /\ rung \in BOOLEAN
      /\ shutdown \in BOOLEAN /\ interrupt \in BOOLEAN /\ exited \in BOOLEAN
  BY Zenon DEF Init
<1>2. /\ data \in BOOLEAN /\ open \in BOOLEAN /\ readable \in BOOLEAN
      /\ drawable \in BOOLEAN
  BY Zenon DEF Init
<1>3. headless \in BOOLEAN /\ frozen \in BOOLEAN /\ saw \in BOOLEAN
  BY Zenon DEF Init
<1>4. FlagsOK
  BY <1>1, <1>2, <1>3, Zenon DEF FlagsOK
<1>5. LabelsOK
  BY DEF Init, LabelsOK
<1> QED
  BY <1>4, <1>5

\* Every variable keeps to its range, in every behaviour of the two threads.
THEOREM TypeCorrect == Spec => []TypeOK
<1>1. Init => TypeOK
  BY TypeInit
<1>2. TypeOK /\ [Next]_vars => TypeOK'
  BY FlagsStep, LabelsStep DEF TypeOK
<1> QED
  BY <1>1, <1>2, PTL DEF Spec
-----------------------------------------------------------------------------
(* ClaimHonest: who sets `notified` goes on to write the byte, who empties   *)
(* the pipe goes on to acknowledge, and only Emacs makes the pipe go away.   *)

\* No step leaves a claim with nobody to serve it.
LEMMA ClaimStep ==
  ASSUME LabelsOK, ClaimHonest, [Next]_vars
  PROVE  ClaimHonest'
<1> USE DEF LabelsOK, ClaimHonest, Listening
<1>1. ASSUME NEW t \in Threads, FlushStep(t) PROVE ClaimHonest'
  <2>1. CASE LoadNotified(t) \/ LoadDirty(t) \/ Hold(t) \/ Release(t) \/ ClearDirty(t)
    BY <2>1 DEF LoadNotified, LoadDirty, Hold, Release, ClearDirty
  <2>2. CASE Claim(t)  \* claimed just now: about to write; before: as it was
    BY <2>2 DEF Claim
  <2>3. CASE Ring(t)   \* written, and the pipe is whole: rung
    BY <2>3 DEF Ring
  <2> QED
    BY <1>1, <2>1, <2>2, <2>3 DEF FlushStep
<1>2. ASSUME ReaderStep PROVE ClaimHonest'
  <2>1. CASE Top \/ Poll \/ PollFails
    BY <2>1 DEF Top, Poll, PollFails
  <2>2. CASE Sample("sample", "tick") \/ Sample("resample", "top")
    BY <2>2 DEF Sample
  <2>3. CASE Tick \/ Ready \/ Feed \/ ReadEnds \/ Fed
    BY <2>3 DEF Tick, Ready, Feed, ReadEnds, Fed
  <2>4. CASE Reap \/ FinishAck
    BY <2>4 DEF Reap, FinishAck
  <2> QED
    BY <1>1, <1>2, <2>1, <2>2, <2>3, <2>4 DEF ReaderStep
<1>3. ASSUME EmacsStep PROVE ClaimHonest'
  <2>1. CASE Wake      \* the byte is gone, and Emacs about to acknowledge
    BY <2>1 DEF Wake
  <2>2. CASE CatchUp \/ Acknowledge \/ Take \/ Look
    BY <2>2 DEF CatchUp, Acknowledge, Take, Look
  <2>3. CASE Apply \/ OnExit \/ Residue \/ Report \/ Rearm
    BY <2>3 DEF Apply, OnExit, Residue, Report, Rearm
  <2>4. CASE ShutdownSwap \/ RaiseInterrupt \/ CloseWake
    BY <2>4 DEF ShutdownSwap, RaiseInterrupt, CloseWake
  <2>5. CASE Join
    BY <2>5 DEF Join
  <2> QED
    BY <1>1, <1>3, <2>1, <2>2, <2>3, <2>4, <2>5 DEF EmacsStep
<1>4. CASE UserStep
  BY <1>4 DEF UserStep, Freeze, Thaw, Refresh, KillBuffer, HangUp
<1>5. CASE ChildStep
  BY <1>5 DEF ChildStep
<1>6. CASE UNCHANGED vars
  BY <1>6 DEF vars
<1> QED
  BY <1>2, <1>3, <1>4, <1>5, <1>6 DEF Next, Stopped

-----------------------------------------------------------------------------
(* NoLostWakeup: `dirty` is cleared only on the way to the swap, the swap    *)
(* either writes or finds a claim, and an honest claim is a drain to come.   *)

\* No step leaves undrained output unmarked, given that claims are honest.
LEMMA NoLostStep ==
  ASSUME TypeOK, NoLostWakeup, ClaimHonest, [Next]_vars
  PROVE  NoLostWakeup'
<1> USE DEF TypeOK, FlagsOK, LabelsOK, NoLostWakeup, Listening, DrainComing
<1>1. ASSUME NEW t \in Threads, FlushStep(t) PROVE NoLostWakeup'
  <2>1. CASE LoadNotified(t) \/ LoadDirty(t) \/ Hold(t) \/ Release(t)
    BY <2>1 DEF LoadNotified, LoadDirty, Hold, Release
  <2>2. CASE ClearDirty(t)  \* from here to the swap
    BY <2>2 DEF ClearDirty
  <2>3. CASE Claim(t)
    <3>1. CASE notified     \* somebody else's claim, and it is honest
      BY <2>3, <3>1 DEF Claim, ClaimHonest
    <3>2. CASE ~notified    \* the byte is this thread's to write
      BY <2>3, <3>2 DEF Claim
    <3> QED
      BY <3>1, <3>2
  <2>4. CASE Ring(t)
    BY <2>4 DEF Ring
  <2> QED
    BY <1>1, <2>1, <2>2, <2>3, <2>4 DEF FlushStep
<1>2. ASSUME ReaderStep PROVE NoLostWakeup'
  <2>1. CASE Top \/ Poll \/ PollFails
    BY <2>1 DEF Top, Poll, PollFails
  <2>2. CASE Sample("sample", "tick") \/ Sample("resample", "top")
    BY <2>2 DEF Sample
  <2>3. CASE Tick \/ Ready \/ ReadEnds
    BY <2>3 DEF Tick, Ready, ReadEnds
  <2>4. CASE Feed           \* what was drawn is carried to `fed`
    BY <2>4 DEF Feed
  <2>5. CASE Fed            \* which marks it
    BY <2>5 DEF Fed
  <2>6. CASE Reap
    BY <2>6 DEF Reap
  <2>7. CASE FinishAck
    BY <2>7 DEF FinishAck
  <2> QED
    BY <1>1, <1>2, <2>1, <2>2, <2>3, <2>4, <2>5, <2>6, <2>7 DEF ReaderStep
<1>3. ASSUME EmacsStep PROVE NoLostWakeup'
  <2>1. CASE Wake
    BY <2>1 DEF Wake
  <2>2. CASE CatchUp \/ Acknowledge
    BY <2>2 DEF CatchUp, Acknowledge
  <2>3. CASE Take           \* nothing is left to lose
    BY <2>3 DEF Take
  <2>4. CASE Look \/ Apply \/ OnExit \/ Report \/ Rearm
    BY <2>4 DEF Look, Apply, OnExit, Report, Rearm
  <2>5. CASE Residue        \* the damage it does is for the drain it starts
    BY <2>5 DEF Residue
  <2>6. CASE ShutdownSwap \/ RaiseInterrupt \/ CloseWake
    BY <2>6 DEF ShutdownSwap, RaiseInterrupt, CloseWake
  <2>7. CASE Join
    BY <2>7 DEF Join
  <2> QED
    BY <1>1, <1>3, <2>1, <2>2, <2>3, <2>4, <2>5, <2>6, <2>7 DEF EmacsStep
<1>4. CASE UserStep
  BY <1>4 DEF UserStep, Freeze, Thaw, Refresh, KillBuffer, HangUp
<1>5. CASE ChildStep
  BY <1>5 DEF ChildStep
<1>6. CASE UNCHANGED vars
  BY <1>6 DEF vars
<1> QED
  BY <1>2, <1>3, <1>4, <1>5, <1>6 DEF Next, Stopped
-----------------------------------------------------------------------------
(* ExitInv: finish records the status, clears the claim and swaps it back,   *)
(* so that either its own byte or an honest claim brings a drain that looks  *)
(* at the status afterwards; and from the record on, nothing feeds Term.     *)

\* No step strands the exit status, or separates it from the last of the output.
LEMMA ExitStep ==
  ASSUME TypeOK, ClaimHonest, ExitInv, [Next]_vars
  PROVE  ExitInv'
<1> USE DEF TypeOK, FlagsOK, LabelsOK, ExitInv, ExitOwed, ReaderFinishing,
            EmacsReporting, ExitIsSnapshot, Listening, DrainComing
<1>1. ASSUME NEW t \in Threads, FlushStep(t) PROVE ExitInv'
  <2>1. CASE LoadNotified(t) \/ LoadDirty(t) \/ Hold(t) \/ Release(t)
    BY <2>1 DEF LoadNotified, LoadDirty, Hold, Release
  <2>2. CASE ClearDirty(t)
    BY <2>2 DEF ClearDirty
  <2>3. CASE Claim(t)
    <3>1. ExitOwed'
      BY <2>3 DEF Claim, ClaimHonest
    <3>2. ReaderFinishing' /\ EmacsReporting'
      BY <2>3 DEF Claim
    <3> QED
      BY <3>1, <3>2
  <2>4. CASE Ring(t)
    BY <2>4 DEF Ring
  <2> QED
    BY <1>1, <2>1, <2>2, <2>3, <2>4 DEF FlushStep
<1>2. ASSUME ReaderStep PROVE ExitInv'
  <2>1. CASE Top \/ Poll \/ PollFails
    BY <2>1 DEF Top, Poll, PollFails
  <2>2. CASE Sample("sample", "tick") \/ Sample("resample", "top")
    BY <2>2 DEF Sample
  <2>3. CASE Tick \/ Ready \/ ReadEnds
    BY <2>3 DEF Tick, Ready, ReadEnds
  <2>4. CASE Feed \/ Fed    \* not during a drain, nor with a status on record
    BY <2>4 DEF Feed, Fed, TermFree
  <2>5. CASE Reap
    BY <2>5 DEF Reap
  <2>6. CASE FinishAck
    BY <2>6 DEF FinishAck
  <2> QED
    BY <1>1, <1>2, <2>1, <2>2, <2>3, <2>4, <2>5, <2>6 DEF ReaderStep
<1>3. ASSUME EmacsStep PROVE ExitInv'
  <2>1. CASE Wake
    BY <2>1 DEF Wake
  <2>2. CASE CatchUp \/ Acknowledge
    BY <2>2 DEF CatchUp, Acknowledge
  <2>3. CASE Take
    BY <2>3 DEF Take
  <2>4. CASE Look           \* the status is read after it is recorded
    BY <2>4 DEF Look
  <2>5. CASE Apply \/ OnExit \/ Residue \/ Report
    BY <2>5 DEF Apply, OnExit, Residue, Report
  <2>6. CASE Rearm
    BY <2>6 DEF Rearm
  <2>7. CASE ShutdownSwap \/ RaiseInterrupt \/ CloseWake
    BY <2>7 DEF ShutdownSwap, RaiseInterrupt, CloseWake
  <2>8. CASE Join           \* Emacs is past listening
    BY <2>8 DEF Join
  <2> QED
    BY <1>1, <1>3, <2>1, <2>2, <2>3, <2>4, <2>5, <2>6, <2>7, <2>8 DEF EmacsStep
<1>4. CASE UserStep
  BY <1>4 DEF UserStep, Freeze, Thaw, Refresh, KillBuffer, HangUp
<1>5. CASE ChildStep
  BY <1>5 DEF ChildStep
<1>6. CASE UNCHANGED vars
  BY <1>6 DEF vars
<1> QED
  BY <1>2, <1>3, <1>4, <1>5, <1>6 DEF Next, Stopped

-----------------------------------------------------------------------------
\* IInv is inductive: it holds first and every step keeps it.
LEMMA Invariance == Spec => []IInv
<1>1. Init => IInv
  BY TypeInit DEF Init, IInv, NoLostWakeup, ClaimHonest, ExitInv, ExitOwed,
                  ReaderFinishing, EmacsReporting, ExitIsSnapshot,
                  LabelsOK
<1>2. IInv /\ [Next]_vars => IInv'
  BY FlagsStep, LabelsStep, NoLostStep, ClaimStep, ExitStep DEF IInv, TypeOK
<1> QED
  BY <1>1, <1>2, PTL DEF Spec

\* What Emacs has not drained is marked, being announced, or about to be drained:
\* no order of the two threads' loads, stores and swaps loses a wakeup.
THEOREM WakeupsAreKept == Spec => []NoLostWakeup
  BY Invariance, PTL DEF IInv

\* While `notified` is set a byte is on its way to a drain, so a flush that
\* returns early because of it leaves the frame to somebody.
THEOREM ClaimsAreHonest == Spec => []ClaimHonest
  BY Invariance, PTL DEF IInv

\* An exit status the reader recorded reaches Emacs: finish cannot race a drain
\* into leaving the status behind with nothing to announce it.
THEOREM ExitsAreReported == Spec => []ExitOwed
  BY Invariance, PTL DEF IInv, ExitInv

\* The update that carries the exit status carries the last of the output: the term
\* lock keeps the reader out between the content and the status.
THEOREM ExitsAreSnapshots == Spec => []ExitIsSnapshot
  BY Invariance, PTL DEF IInv, ExitInv, EmacsReporting

=============================================================================

----------------------------- MODULE ChildProofs -----------------------------
(***************************************************************************)
(* The end of a session, proved for every number of signals the user       *)
(* sends: no signal to a process id that was given up, no child left       *)
(* behind, no status lost between the two threads.  The size the terminal  *)
(* settles at, proved for any windows, however often they change.  And     *)
(* that the behaviours MCChild puts side by side are behaviours of the two *)
(* modules these theorems are about.                                       *)
(***************************************************************************)
EXTENDS MCChild, TLAPS

-----------------------------------------------------------------------------
(* The end of a session *)

Signalling == {"signal", "foreground", "killpg", "signalled"}
Reaping == {"wait", "collect", "record", "missed", "waiting", "status"}
Dropping == {"dropkill", "dropwait", "gone"}

Shape ==
  /\ child \in {"alive", "dying", "zombie", "reaped"} /\ job \in {"none", "alive", "dying"}
  /\ lock \in Threads \cup {"none"} /\ target \in {"child", "job"}
  /\ pc \in [Threads -> Steps] /\ then \in [Threads -> Steps]
  /\ pc["reader"] \in {"reading", "done"} \cup Reaping
  /\ pc["emacs"] \in Signalling => then["emacs"] \in {"idle", "join", "lastwait"}
  /\ pc["emacs"] \in Reaping => then["emacs"] \in {"escalate", "torn"}
  /\ pc["emacs"] = "dropwait" => then["emacs"] \in {"dropkill", "gone"}
  /\ pc["emacs"] \notin {"reading", "done"}

\* Whoever is between a check of the child and what it does about it has the lock.
Locked ==
  /\ \A t \in Threads : pc[t] \in {"collect", "record", "missed"} => lock = t
  /\ pc["emacs"] \in {"foreground", "killpg"} => lock = "emacs" /\ ~reaped

\* The flag and the kernel agree but for the step between the reap and the flag.
Agreed ==
  /\ reaped => child = "reaped"
  /\ child = "reaped" => reaped \/ \E t \in Threads : pc[t] = "record"
  /\ reused => child = "reaped"
  /\ \A t \in Threads : pc[t] = "record" => child = "reaped"

\* Emacs reaps only behind the reader, and drops the terminal behind both.
AfterReader ==
  /\ \/ killed
     \/ pc["emacs"] \in {"escalate", "lastwait", "torn"} \cup Reaping \cup Dropping
     \/ pc["emacs"] \in Signalling /\ then["emacs"] = "lastwait"
     => pc["reader"] = "done"
  /\ pc["emacs"] \in {"dropkill", "dropwait"} => ~reaped
  /\ pc["emacs"] = "dropwait" /\ then["emacs"] = "gone" => child # "alive"
  /\ pc["emacs"] = "gone" => child = "reaped"

\* A status collected is stored, or about to be, or nobody is left to ask for it.
Status == reaped => exited \/ (\E t \in Threads : pc[t] = "status") \/ pc["emacs"] = "gone"

Flags ==
  /\ reused \in BOOLEAN /\ stray \in BOOLEAN /\ reaped \in BOOLEAN
  /\ exited \in BOOLEAN /\ shutdown \in BOOLEAN /\ killed \in BOOLEAN

IInv == Shape /\ Locked /\ Agreed /\ AfterReader /\ Status /\ ~stray
-----------------------------------------------------------------------------
\* A session begins with its child alive, its lock free and nobody killing it.
LEMMA InitIInv == Init => IInv
  BY DEF Init, IInv, Shape, Locked, Agreed, AfterReader, Status, Threads, Steps, Signalling, Reaping, Dropping

\* Pty::signal takes the lock and looks at `reaped'.
LEMMA SignalCheckStep ==
  ASSUME IInv, SignalCheck
  PROVE  IInv'
<1> USE DEF IInv, Threads, SignalCheck, Goto, TakeLock, LockFree, processes
<1>1. Shape'
  BY DEF Shape, Steps, Signalling, Reaping
<1>2. Locked'
  BY DEF Locked
<1>3. Agreed'
  BY DEF Agreed
<1>4. AfterReader'
  BY DEF AfterReader, Signalling, Reaping, Dropping
<1>5. Status'
  BY DEF Status
<1>6. ~stray'
  OBVIOUS
<1> QED BY <1>1, <1>2, <1>3, <1>4, <1>5, <1>6

\* It asks the terminal who is in the foreground.
LEMMA SignalTargetStep ==
  ASSUME IInv, SignalTarget
  PROVE  IInv'
<1> USE DEF IInv, Threads, SignalTarget, Goto, processes
<1>1. Shape'
  BY DEF Shape, Steps, Signalling, Reaping
<1>2. Locked'
  BY DEF Locked
<1>3. Agreed'
  BY DEF Agreed
<1>4. AfterReader'
  BY DEF AfterReader, Signalling, Reaping, Dropping
<1>5. Status'
  BY DEF Status
<1>6. ~stray'
  OBVIOUS
<1> QED BY <1>1, <1>2, <1>3, <1>4, <1>5, <1>6

\* It signals them: under the lock, so nobody has reaped the child since the look.
LEMMA SignalSendStep ==
  ASSUME IInv, SignalSend
  PROVE  IInv'
<1> USE DEF IInv, Threads, SignalSend, Goto, Strike
<1>1. Shape'
  BY DEF Shape, Steps, Signalling, Reaping
<1>2. Locked'
  BY DEF Locked
<1>3. Agreed'
  BY DEF Agreed
<1>4. AfterReader'
  BY DEF AfterReader, Signalling, Reaping, Dropping
<1>5. Status'
  BY DEF Status
<1>6. ~stray'
  BY DEF Locked, Agreed
<1> QED BY <1>1, <1>2, <1>3, <1>4, <1>5, <1>6

\* It lets the lock go.
LEMMA SignalReturnStep ==
  ASSUME IInv, SignalReturn
  PROVE  IInv'
<1> USE DEF IInv, Threads, SignalReturn, Goto, processes
<1>1. Shape'
  BY DEF Shape, Steps, Signalling, Reaping
<1>2. Locked'
  BY DEF Locked, Shape, Steps, Signalling, Reaping
<1>3. Agreed'
  BY DEF Agreed, Shape, Steps, Signalling, Reaping
<1>4. AfterReader'
  BY DEF AfterReader, Shape, Signalling, Reaping, Dropping, Steps
<1>5. Status'
  BY DEF Status
<1>6. ~stray'
  OBVIOUS
<1> QED BY <1>1, <1>2, <1>3, <1>4, <1>5, <1>6

\* Pty::reap takes the lock.
LEMMA WaitLockStep ==
  ASSUME IInv, NEW t \in Threads, WaitLock(t)
  PROVE  IInv'
<1> USE DEF IInv, Threads, WaitLock, Goto, TakeLock, LockFree, processes
<1>1. Shape'
  BY DEF Shape, Steps, Signalling, Reaping
<1>2. Locked'
  BY DEF Locked
<1>3. Agreed'
  BY DEF Agreed
<1>4. AfterReader'
  BY DEF AfterReader, Signalling, Reaping, Dropping
<1>5. Status'
  BY DEF Status
<1>6. ~stray'
  OBVIOUS
<1> QED BY <1>1, <1>2, <1>3, <1>4, <1>5, <1>6

\* It asks the kernel: this gives the process id away.
LEMMA CollectStep ==
  ASSUME IInv, NEW t \in Threads, Collect(t)
  PROVE  IInv'
<1> USE DEF IInv, Threads, Collect, Goto
<1>1. Shape'
  BY DEF Shape, Steps, Signalling, Reaping
<1>2. Locked'
  BY DEF Locked
<1>3. Agreed'
  BY DEF Agreed, Shape, Steps, Signalling, Reaping
<1>4. AfterReader'
  BY DEF AfterReader, Signalling, Reaping, Dropping
<1>5. Status'
  BY DEF Status
<1>6. ~stray'
  OBVIOUS
<1> QED BY <1>1, <1>2, <1>3, <1>4, <1>5, <1>6

\* It sets `reaped' before it lets the lock go.
LEMMA RecordStep ==
  ASSUME IInv, NEW t \in Threads, Record(t)
  PROVE  IInv'
<1> USE DEF IInv, Threads, Record, Goto, processes
<1>1. Shape'
  BY DEF Shape, Steps, Signalling, Reaping
<1>2. Locked'
  BY DEF Locked, Shape, Steps, Signalling, Reaping
<1>3. Agreed'
  BY DEF Agreed
<1>4. AfterReader'
  BY DEF AfterReader, Signalling, Reaping, Dropping
<1>5. Status'
  BY DEF Status, Shape, Steps, Signalling, Reaping
<1>6. ~stray'
  OBVIOUS
<1> QED BY <1>1, <1>2, <1>3, <1>4, <1>5, <1>6

\* Not dead yet: it lets the lock go.
LEMMA MissedStep ==
  ASSUME IInv, NEW t \in Threads, Missed(t)
  PROVE  IInv'
<1> USE DEF IInv, Threads, Missed, Goto, processes
<1>1. Shape'
  BY DEF Shape, Steps, Signalling, Reaping
<1>2. Locked'
  BY DEF Locked, Shape, Steps, Signalling, Reaping
<1>3. Agreed'
  BY DEF Agreed
<1>4. AfterReader'
  BY DEF AfterReader, Signalling, Reaping, Dropping
<1>5. Status'
  BY DEF Status
<1>6. ~stray'
  OBVIOUS
<1> QED BY <1>1, <1>2, <1>3, <1>4, <1>5, <1>6

\* It tries again.
LEMMA AgainStep ==
  ASSUME IInv, NEW t \in Threads, Again(t)
  PROVE  IInv'
<1> USE DEF IInv, Threads, Again, Goto, processes
<1>1. Shape'
  BY DEF Shape, Steps, Signalling, Reaping
<1>2. Locked'
  BY DEF Locked
<1>3. Agreed'
  BY DEF Agreed
<1>4. AfterReader'
  BY DEF AfterReader, Signalling, Reaping, Dropping
<1>5. Status'
  BY DEF Status
<1>6. ~stray'
  OBVIOUS
<1> QED BY <1>1, <1>2, <1>3, <1>4, <1>5, <1>6

\* Its patience is out.
LEMMA GiveUpStep ==
  ASSUME IInv, NEW t \in Threads, GiveUp(t)
  PROVE  IInv'
<1> USE DEF IInv, Threads, GiveUp, Goto, PatienceOut, processes
<1>1. Shape'
  BY DEF Shape, Steps, Signalling, Reaping
<1>2. Locked'
  BY DEF Locked, Shape, Steps, Signalling, Reaping
<1>3. Agreed'
  BY DEF Agreed, Shape, Steps, Signalling, Reaping
<1>4. AfterReader'
  BY DEF AfterReader, Shape, Signalling, Reaping, Dropping, Steps
<1>5. Status'
  BY DEF Status
<1>6. ~stray'
  OBVIOUS
<1> QED BY <1>1, <1>2, <1>3, <1>4, <1>5, <1>6

\* The status is stored.
LEMMA GotStatusStep ==
  ASSUME IInv, NEW t \in Threads, GotStatus(t)
  PROVE  IInv'
<1> USE DEF IInv, Threads, GotStatus, Goto, processes
<1>1. Shape'
  BY DEF Shape, Steps, Signalling, Reaping
<1>2. Locked'
  BY DEF Locked
<1>3. Agreed'
  BY DEF Agreed
<1>4. AfterReader'
  BY DEF AfterReader, Signalling, Reaping, Dropping
<1>5. Status'
  BY DEF Status
<1>6. ~stray'
  OBVIOUS
<1> QED BY <1>1, <1>2, <1>3, <1>4, <1>5, <1>6

\* Emacs goes on once the reader's thread has ended.
LEMMA JoinStep ==
  ASSUME IInv, Join
  PROVE  IInv'
<1> USE DEF IInv, Threads, Join, Goto, Call, Joined, processes
<1>1. Shape'
  BY DEF Shape, Steps, Signalling, Reaping
<1>2. Locked'
  BY DEF Locked, Shape, Steps, Signalling, Reaping
<1>3. Agreed'
  BY DEF Agreed, Shape, Steps, Signalling, Reaping
<1>4. AfterReader'
  BY DEF AfterReader, Shape, Signalling, Reaping, Dropping, Steps
<1>5. Status'
  BY DEF Status
<1>6. ~stray'
  OBVIOUS
<1> QED BY <1>1, <1>2, <1>3, <1>4, <1>5, <1>6

\* SIGKILL after the grace.
LEMMA EscalateStep ==
  ASSUME IInv, Escalate
  PROVE  IInv'
<1> USE DEF IInv, Threads, Escalate, Call, processes
<1>1. Shape'
  BY DEF Shape, Steps, Signalling, Reaping
<1>2. Locked'
  BY DEF Locked
<1>3. Agreed'
  BY DEF Agreed
<1>4. AfterReader'
  BY DEF AfterReader, Signalling, Reaping, Dropping
<1>5. Status'
  BY DEF Status
<1>6. ~stray'
  OBVIOUS
<1> QED BY <1>1, <1>2, <1>3, <1>4, <1>5, <1>6

\* The wait for that.
LEMMA LastWaitStep ==
  ASSUME IInv, LastWait
  PROVE  IInv'
<1> USE DEF IInv, Threads, LastWait, Call, processes
<1>1. Shape'
  BY DEF Shape, Steps, Signalling, Reaping
<1>2. Locked'
  BY DEF Locked
<1>3. Agreed'
  BY DEF Agreed
<1>4. AfterReader'
  BY DEF AfterReader, Signalling, Reaping, Dropping
<1>5. Status'
  BY DEF Status
<1>6. ~stray'
  OBVIOUS
<1> QED BY <1>1, <1>2, <1>3, <1>4, <1>5, <1>6

\* cooked--kill returns.
LEMMA TornStep ==
  ASSUME IInv, Torn
  PROVE  IInv'
<1> USE DEF IInv, Threads, Torn, Goto, processes
<1>1. Shape'
  BY DEF Shape, Steps, Signalling, Reaping
<1>2. Locked'
  BY DEF Locked
<1>3. Agreed'
  BY DEF Agreed
<1>4. AfterReader'
  BY DEF AfterReader, Signalling, Reaping, Dropping
<1>5. Status'
  BY DEF Status
<1>6. ~stray'
  OBVIOUS
<1> QED BY <1>1, <1>2, <1>3, <1>4, <1>5, <1>6

\* Pty::drop, once neither thread uses it.
LEMMA DropStep ==
  ASSUME IInv, Drop
  PROVE  IInv'
<1> USE DEF IInv, Threads, Drop, Goto, Call, Strike
<1>1. Shape'
  BY DEF Shape, Steps, Signalling, Reaping
<1>2. Locked'
  BY DEF Locked, Shape, Steps, Signalling, Reaping
<1>3. Agreed'
  BY DEF Agreed, Shape, Steps, Signalling, Reaping
<1>4. AfterReader'
  BY DEF AfterReader, Shape, Agreed, Signalling, Reaping, Dropping, Steps
<1>5. Status'
  BY DEF Status
<1>6. ~stray'
  BY DEF Agreed
<1> QED BY <1>1, <1>2, <1>3, <1>4, <1>5, <1>6

\* It escalates too.
LEMMA DropKillStep ==
  ASSUME IInv, DropKill
  PROVE  IInv'
<1> USE DEF IInv, Threads, DropKill, Call, Strike, Escalates
<1>1. Shape'
  BY DEF Shape, Steps, Signalling, Reaping
<1>2. Locked'
  BY DEF Locked
<1>3. Agreed'
  BY DEF Agreed
<1>4. AfterReader'
  BY DEF AfterReader, Signalling, Reaping, Dropping
<1>5. Status'
  BY DEF Status
<1>6. ~stray'
  BY DEF Agreed, AfterReader, Signalling, Reaping, Dropping
<1> QED BY <1>1, <1>2, <1>3, <1>4, <1>5, <1>6

\* It waits for either.
LEMMA DropWaitStep ==
  ASSUME IInv, DropWait
  PROVE  IInv'
<1> USE DEF IInv, Threads, DropWait, Goto
<1>1. Shape'
  BY DEF Shape, Steps, Signalling, Reaping
<1>2. Locked'
  BY DEF Locked, Shape, Steps, Signalling, Reaping
<1>3. Agreed'
  BY DEF Agreed, Shape, Steps, Signalling, Reaping
<1>4. AfterReader'
  BY DEF AfterReader, Shape, Signalling, Reaping, Dropping, Steps
<1>5. Status'
  BY DEF Status, Shape, Steps, Signalling, Reaping
<1>6. ~stray'
  OBVIOUS
<1> QED BY <1>1, <1>2, <1>3, <1>4, <1>5, <1>6

\* The reader is told to stop.
LEMMA InterruptedStep ==
  ASSUME IInv, Interrupted
  PROVE  IInv'
<1> USE DEF IInv, Threads, Interrupted, Goto, processes
<1>1. Shape'
  BY DEF Shape, Steps, Signalling, Reaping
<1>2. Locked'
  BY DEF Locked, Shape, Steps, Signalling, Reaping
<1>3. Agreed'
  BY DEF Agreed, Shape, Steps, Signalling, Reaping
<1>4. AfterReader'
  BY DEF AfterReader, Shape, Signalling, Reaping, Dropping, Steps
<1>5. Status'
  BY DEF Status, Shape, Steps, Signalling, Reaping
<1>6. ~stray'
  OBVIOUS
<1> QED BY <1>1, <1>2, <1>3, <1>4, <1>5, <1>6

\* The terminal reports its end.
LEMMA HangupStep ==
  ASSUME IInv, Hangup
  PROVE  IInv'
<1> USE DEF IInv, Threads, Hangup, Goto, processes
<1>1. Shape'
  BY DEF Shape, Steps, Signalling, Reaping
<1>2. Locked'
  BY DEF Locked
<1>3. Agreed'
  BY DEF Agreed
<1>4. AfterReader'
  BY DEF AfterReader, Signalling, Reaping, Dropping
<1>5. Status'
  BY DEF Status
<1>6. ~stray'
  OBVIOUS
<1> QED BY <1>1, <1>2, <1>3, <1>4, <1>5, <1>6

\* Emacs' end of the wake pipe is closed.
LEMMA WakeBrokenStep ==
  ASSUME IInv, WakeBroken
  PROVE  IInv'
<1> USE DEF IInv, Threads, WakeBroken, processes
<1>1. Shape'
  BY DEF Shape, Steps, Signalling, Reaping
<1>2. Locked'
  BY DEF Locked
<1>3. Agreed'
  BY DEF Agreed
<1>4. AfterReader'
  BY DEF AfterReader, Signalling, Reaping, Dropping
<1>5. Status'
  BY DEF Status
<1>6. ~stray'
  OBVIOUS
<1> QED BY <1>1, <1>2, <1>3, <1>4, <1>5, <1>6

\* cooked--kill, once.
LEMMA ShutdownStep ==
  ASSUME IInv, Shutdown
  PROVE  IInv'
<1> USE DEF IInv, Threads, Shutdown, Goto, Call, processes
<1>1. Shape'
  BY DEF Shape, Steps, Signalling, Reaping
<1>2. Locked'
  BY DEF Locked, Shape, Steps, Signalling, Reaping
<1>3. Agreed'
  BY DEF Agreed, Shape, Steps, Signalling, Reaping
<1>4. AfterReader'
  BY DEF AfterReader, Shape, Signalling, Reaping, Dropping, Steps
<1>5. Status'
  BY DEF Status, Shape, Steps, Signalling, Reaping
<1>6. ~stray'
  OBVIOUS
<1> QED BY <1>1, <1>2, <1>3, <1>4, <1>5, <1>6

\* The child dies.
LEMMA DieStep ==
  ASSUME IInv, Die
  PROVE  IInv'
<1> USE DEF IInv, Threads, Die
<1>1. Shape'
  BY DEF Shape, Steps, Signalling, Reaping
<1>2. Locked'
  BY DEF Locked
<1>3. Agreed'
  BY DEF Agreed
<1>4. AfterReader'
  BY DEF AfterReader, Signalling, Reaping, Dropping
<1>5. Status'
  BY DEF Status
<1>6. ~stray'
  OBVIOUS
<1> QED BY <1>1, <1>2, <1>3, <1>4, <1>5, <1>6

\* The job in the foreground ends.
LEMMA JobEndsStep ==
  ASSUME IInv, JobEnds
  PROVE  IInv'
<1> USE DEF IInv, Threads, JobEnds
<1>1. Shape'
  BY DEF Shape, Steps, Signalling, Reaping
<1>2. Locked'
  BY DEF Locked
<1>3. Agreed'
  BY DEF Agreed
<1>4. AfterReader'
  BY DEF AfterReader, Signalling, Reaping, Dropping
<1>5. Status'
  BY DEF Status
<1>6. ~stray'
  OBVIOUS
<1> QED BY <1>1, <1>2, <1>3, <1>4, <1>5, <1>6

\* The kernel gives the child's process id to somebody else.
LEMMA ReuseStep ==
  ASSUME IInv, Reuse
  PROVE  IInv'
<1> USE DEF IInv, Threads, Reuse
<1>1. Shape'
  BY DEF Shape, Steps, Signalling, Reaping
<1>2. Locked'
  BY DEF Locked
<1>3. Agreed'
  BY DEF Agreed
<1>4. AfterReader'
  BY DEF AfterReader, Signalling, Reaping, Dropping
<1>5. Status'
  BY DEF Status
<1>6. ~stray'
  OBVIOUS
<1> QED BY <1>1, <1>2, <1>3, <1>4, <1>5, <1>6

\* A signal the user sends.
LEMMA UserSignalsStep ==
  ASSUME IInv, NEW s \in {"HUP", "KILL"}, UserSignals(s)
  PROVE  IInv'
<1> USE DEF IInv, Threads, UserSignals, Call, processes
<1>1. Shape'
  BY DEF Shape, Steps, Signalling, Reaping
<1>2. Locked'
  BY DEF Locked
<1>3. Agreed'
  BY DEF Agreed
<1>4. AfterReader'
  BY DEF AfterReader, Shape, Signalling, Reaping, Dropping, Steps
<1>5. Status'
  BY DEF Status
<1>6. ~stray'
  OBVIOUS
<1> QED BY <1>1, <1>2, <1>3, <1>4, <1>5, <1>6

\* Every step of either thread, of the processes and of the kernel keeps the invariant.
LEMMA NextIInv == IInv /\ [Next]_vars => IInv'
<1> SUFFICES ASSUME IInv, [Next]_vars PROVE IInv'
  OBVIOUS
<1>1. ASSUME EmacsStep PROVE IInv'
  BY <1>1, SignalCheckStep, SignalTargetStep, SignalSendStep, SignalReturnStep, WaitLockStep, CollectStep,
     RecordStep, MissedStep, AgainStep, GiveUpStep, GotStatusStep, JoinStep, EscalateStep, LastWaitStep,
     TornStep, DropStep, DropKillStep, DropWaitStep DEF EmacsStep, Threads
<1>2. ASSUME ReaderStep PROVE IInv'
  BY <1>2, WaitLockStep, CollectStep, RecordStep, MissedStep, AgainStep, GiveUpStep, GotStatusStep,
     InterruptedStep DEF ReaderStep, Threads
<1>3. ASSUME NEW s \in {"HUP", "KILL"}, UserSignals(s) PROVE IInv'
  BY <1>3, UserSignalsStep
<1>4. ASSUME Hangup \/ WakeBroken \/ Shutdown \/ Die \/ JobEnds \/ Reuse PROVE IInv'
  BY <1>4, HangupStep, WakeBrokenStep, ShutdownStep, DieStep, JobEndsStep, ReuseStep
<1>5. ASSUME UNCHANGED vars PROVE IInv'
  BY <1>5 DEF vars, IInv, Shape, Locked, Agreed, AfterReader, Status
<1> QED BY <1>1, <1>2, <1>3, <1>4, <1>5 DEF Next

\* The flags stay flags; apart, since they need another prover than the steps above.
LEMMA FlagsStep ==
  ASSUME Flags, Next  PROVE Flags'
<1> USE DEF Flags, Goto, Call, processes
<1>1. ASSUME SignalCheck PROVE Flags'
  BY <1>1, Zenon DEF SignalCheck
<1>2. ASSUME SignalTarget PROVE Flags'
  BY <1>2, Zenon DEF SignalTarget
<1>3. ASSUME SignalSend PROVE Flags'
  BY <1>3, Zenon DEF SignalSend, Strike
<1>4. ASSUME SignalReturn PROVE Flags'
  BY <1>4, Zenon DEF SignalReturn
<1>5. ASSUME NEW t \in Threads, WaitLock(t) PROVE Flags'
  BY <1>5, Zenon DEF WaitLock
<1>6. ASSUME NEW t \in Threads, Collect(t) PROVE Flags'
  BY <1>6, Zenon DEF Collect
<1>7. ASSUME NEW t \in Threads, Record(t) PROVE Flags'
  BY <1>7, Zenon DEF Record
<1>8. ASSUME NEW t \in Threads, Missed(t) PROVE Flags'
  BY <1>8, Zenon DEF Missed
<1>9. ASSUME NEW t \in Threads, Again(t) PROVE Flags'
  BY <1>9, Zenon DEF Again
<1>10. ASSUME NEW t \in Threads, GiveUp(t) PROVE Flags'
  BY <1>10, Zenon DEF GiveUp
<1>11. ASSUME NEW t \in Threads, GotStatus(t) PROVE Flags'
  BY <1>11, Zenon DEF GotStatus
<1>12. ASSUME Join PROVE Flags'
  BY <1>12, Zenon DEF Join
<1>13. ASSUME Escalate PROVE Flags'
  BY <1>13, Zenon DEF Escalate
<1>14. ASSUME LastWait PROVE Flags'
  BY <1>14, Zenon DEF LastWait
<1>15. ASSUME Torn PROVE Flags'
  BY <1>15, Zenon DEF Torn
<1>16. ASSUME Drop PROVE Flags'
  BY <1>16, Zenon DEF Drop, Strike
<1>17. ASSUME DropKill PROVE Flags'
  BY <1>17, Zenon DEF DropKill, Strike
<1>18. ASSUME DropWait PROVE Flags'
  BY <1>18, Zenon DEF DropWait
<1>19. ASSUME Interrupted PROVE Flags'
  BY <1>19, Zenon DEF Interrupted
<1>20. ASSUME Hangup PROVE Flags'
  BY <1>20, Zenon DEF Hangup
<1>21. ASSUME WakeBroken PROVE Flags'
  BY <1>21, Zenon DEF WakeBroken
<1>22. ASSUME Shutdown PROVE Flags'
  BY <1>22, Zenon DEF Shutdown
<1>23. ASSUME Die PROVE Flags'
  BY <1>23, Zenon DEF Die
<1>24. ASSUME JobEnds PROVE Flags'
  BY <1>24, Zenon DEF JobEnds
<1>25. ASSUME Reuse PROVE Flags'
  BY <1>25, Zenon DEF Reuse
<1>26. ASSUME NEW s \in {"HUP", "KILL"}, UserSignals(s) PROVE Flags'
  BY <1>26, Zenon DEF UserSignals
<1> QED BY <1>1, <1>2, <1>3, <1>4, <1>5, <1>6, <1>7, <1>8, <1>9, <1>10, <1>11, <1>12, <1>13,
           <1>14, <1>15, <1>16, <1>17, <1>18, <1>19, <1>20, <1>21, <1>22, <1>23, <1>24, <1>25, <1>26
        DEF Next, EmacsStep, ReaderStep, Threads

\* The lock discipline holds in every reachable state.
THEOREM TeardownInvariant == Spec => []IInv
<1>1. Init => IInv
  BY InitIInv
<1>2. IInv /\ [Next]_vars => IInv'
  BY NextIInv
<1> QED BY <1>1, <1>2, PTL DEF Spec

\* Each thread is at a step of the code it runs, and the flags are flags.
THEOREM TeardownTypes == Spec => []TypeOK
<1>1. Init => Flags
  BY Zenon DEF Init, Flags
<1>2. Flags /\ [Next]_vars => Flags'
  <2>1. ASSUME Flags, UNCHANGED vars PROVE Flags'
    BY <2>1 DEF vars, Flags
  <2> QED BY <2>1, FlagsStep
<1>3. IInv /\ Flags => TypeOK
  BY Zenon DEF IInv, Shape, Flags, TypeOK
<1> QED BY <1>1, <1>2, <1>3, TeardownInvariant, PTL DEF Spec

\* Between Pty::signal's look at `reaped' and its kill, no reap of the other
\* thread gives the process id away.
THEOREM SignalsAreTimely == Spec => []NoStraySignal
<1>1. IInv => NoStraySignal
  BY DEF IInv, NoStraySignal
<1> QED BY <1>1, TeardownInvariant, PTL

\* When cooked--kill has returned, a child that was reaped has its status in
\* `exited', whichever thread reaped it.
THEOREM StatusSurvives == Spec => []StatusKept
<1>1. IInv => StatusKept
  BY DEF IInv, AfterReader, Status, Shape, StatusKept, Threads
<1> QED BY <1>1, TeardownInvariant, PTL

\* Once Pty::drop is through there is no child, whatever it makes of a hangup.
THEOREM ChildIsReaped == Spec => []NothingSurvives
<1>1. IInv => NothingSurvives
  BY DEF IInv, AfterReader, NothingSurvives
<1> QED BY <1>1, TeardownInvariant, PTL

-----------------------------------------------------------------------------
(* The size of the terminal *)

\* The reader retries what Emacs asked for last, and is in a retry only while it does.
RetriesTheLast ==
  /\ pending = None \/ pending = asked
  /\ reader = "set" => pending # None

\* The master may answer ENOTTY only before the child opens its slave, and breaks only
\* under a program.
AnswersOnceOpened ==
  /\ answers = "no" => started = "forked"
  /\ answers = "refused" => started = "running"

\* Retrying stopped because the size matched: before the child had set its first, which
\* `early` remembers, or after.
MatchedLate == asked # None /\ pending = None /\ ~early /\ answers # "refused" => started = "running"

\* Once the child runs, two parties have set the tty's size: the child before exec, and
\* whoever set what Emacs asked for.
SetByTwo ==
  started = "running" /\ asked # None /\ lisp = "idle" /\ ~own /\ answers = "yes" =>
    tty \in {ToKernel(asked), ToKernel(Initial)}

SizeInv ==
  RetriesTheLast /\ AnswersOnceOpened /\ MatchedLate /\ SetByTwo /\ ResizeKept

-----------------------------------------------------------------------------
(* The conversions *)

\* The size the session is spawned with survives the way into the kernel and back: it
\* reports no pixels, so none are saturated or rounded.
LEMMA InitialReadsBack == FromKernel(ToKernel(Initial)) = Initial
<1>1. /\ Initial = [rows |-> Initial.rows, cols |-> Initial.cols, width |-> 0, height |-> 0]
      /\ Initial.rows \in Nat /\ Initial.cols \in Nat
  BY SizesAssumption DEF Winsize
<1>2. Initial.cols * 0 = 0 /\ Initial.rows * 0 = 0 /\ Saturated(0) = 0
  BY <1>1, SizesAssumption DEF Saturated
<1>3. ToKernel(Initial) = [rows |-> Initial.rows, cols |-> Initial.cols, across |-> 0, down |-> 0]
  BY <1>2, SizesAssumption DEF ToKernel
<1>4. 0 \div AtLeastOne(Initial.cols) = 0 /\ 0 \div AtLeastOne(Initial.rows) = 0
  BY <1>1 DEF AtLeastOne
<1> QED
  BY <1>1, <1>3, <1>4 DEF FromKernel

\* What a match says once the child runs: the tty was set to what reads back.
LEMMA MatchIsExact ==
  ASSUME SetByTwo, RetriesTheLast, Matches, pending # None,
         started = "running", lisp = "idle", ~own
  PROVE  tty = ToKernel(asked)
<1>1. asked # None /\ pending = asked /\ answers = "yes" /\ FromKernel(tty) = asked
  BY DEF RetriesTheLast, Matches
<1>2. tty \in {ToKernel(asked), ToKernel(Initial)}
  BY <1>1 DEF SetByTwo
<1> QED
  BY <1>1, <1>2, InitialReadsBack

\* A whole number of cells divides into them: what Pty::winsize undoes of the way in.
LEMMA DivUndoesTimes ==
  ASSUME NEW n \in Nat \ {0}, NEW w \in Nat
  PROVE  (n * w) \div n = w
  OBVIOUS

\* A total cut down to less is of smaller cells.
LEMMA DivOfLess ==
  ASSUME NEW n \in Nat \ {0}, NEW w \in Nat, NEW m \in Nat, m < n * w
  PROVE  m \div n # w
  OBVIOUS

\* One side of the text area: it reads back if and only if the winsize holds it.
LEMMA SideReadsBack ==
  ASSUME NEW n \in Nat \ {0}, NEW w \in Nat
  PROVE  Saturated(n * w) \div AtLeastOne(n) = w <=> n * w <= MaxPixel
<1>1. AtLeastOne(n) = n /\ n * w \in Nat /\ MaxPixel \in Nat
  BY SizesAssumption DEF AtLeastOne
<1>2. CASE n * w <= MaxPixel
  <2>1. Saturated(n * w) = n * w
    BY <1>1, <1>2 DEF Saturated
  <2> QED
    BY <1>1, <1>2, <2>1, DivUndoesTimes
<1>3. CASE ~(n * w <= MaxPixel)
  <2>1. Saturated(n * w) = MaxPixel /\ MaxPixel < n * w
    BY <1>1, <1>3 DEF Saturated
  <2>2. MaxPixel \div n # w
    BY <1>1, <2>1, DivOfLess
  <2> QED
    BY <1>1, <1>3, <2>1, <2>2
<1> QED
  BY <1>2, <1>3

-----------------------------------------------------------------------------
(* Every step keeps the invariant *)

\* Each step of the three parties, and of the tty, keeps it.
LEMMA SizeInvStep == SizeInv /\ [SizeNext]_sizeVars => SizeInv'
<1> SUFFICES ASSUME SizeInv, [SizeNext]_sizeVars PROVE SizeInv'
  OBVIOUS
<1> USE DEF SizeInv, RetriesTheLast, AnswersOnceOpened, MatchedLate, SetByTwo,
            ResizeKept, Settled
<1>1. ASSUME NEW s \in Sizes, Ask(s) PROVE SizeInv'
  BY <1>1, SizesAssumption DEF Ask
<1>2. ASSUME NEW s \in Sizes, SetOwn(s) PROVE SizeInv'
  BY <1>2, SizesAssumption DEF SetOwn
<1>3. CASE AskMaster
  <2>1. answers = "yes" => tty' = ToKernel(asked)
    BY <1>3 DEF AskMaster, SetMaster
  <2> QED
    BY <1>3, <2>1 DEF AskMaster
<1>4. CASE ReadBack
  <2>1. CASE Matches
    <3>1. started = "running" /\ lisp = "idle" /\ ~own => tty = ToKernel(asked)
      BY <1>4, <2>1, MatchIsExact DEF ReadBack
    <3>2. /\ pending' = None /\ reader' = "idle" /\ early' = (early \/ started # "running")
          /\ UNCHANGED <<answers, started, tty, lisp, asked, own, resizes, owns>>
      BY <1>4, <2>1 DEF ReadBack
    <3> QED
      BY <3>1, <3>2
  <2>2. CASE ~Matches
    <3>1. /\ pending # None /\ reader' = "set" /\ (early' <=> early)
          /\ UNCHANGED <<answers, started, tty, pending, lisp, asked, own, resizes, owns>>
      BY <1>4, <2>2 DEF ReadBack
    <3> QED
      BY <3>1
  <2> QED
    BY <2>1, <2>2
<1>5. CASE Retry
  <2>1. answers = "yes" => tty' = ToKernel(asked)
    BY <1>5 DEF Retry, SetMaster
  <2> QED
    BY <1>5, <2>1 DEF Retry, GivesUp
<1>6. CASE OpenSlave
  BY <1>6 DEF OpenSlave
<1>7. CASE SetInitial
  <2>1. /\ started = "opened" /\ started' = "running" /\ tty' = ToKernel(Initial)
        /\ UNCHANGED <<answers, pending, lisp, reader, asked, own, early>>
    BY <1>7 DEF SetInitial
  <2>2. ~(asked # None /\ pending = None /\ ~early /\ answers # "refused")
    BY <2>1
  <2> QED
    BY <2>1, <2>2
<1>8. CASE Break
  BY <1>8 DEF Break
<1>9. CASE UNCHANGED sizeVars
  BY <1>9 DEF sizeVars
<1> QED
  BY <1>1, <1>2, <1>3, <1>4, <1>5, <1>6, <1>7, <1>8, <1>9 DEF SizeNext

\* The invariant holds to begin with and whatever the three do.
LEMMA SizeInvariant == SizeSpec => []SizeInv
<1>1. SizeInit => SizeInv
  BY SizesAssumption DEF SizeInit, SizeInv, RetriesTheLast, AnswersOnceOpened,
     MatchedLate, SetByTwo, ResizeKept, Settled
<1> QED
  BY <1>1, SizeInvStep, PTL DEF SizeSpec

-----------------------------------------------------------------------------
(* The theorems *)

\* Where the terminal settles: at the size Emacs asked for last; at one the program set
\* since; or, where the reader saw a match and stopped before the child had set the size it
\* was spawned with, at that one.  Never at an earlier resize (Session::resize,
\* apply_pending_resize, child_exec).
THEOREM ResizesKept == SizeSpec => []ResizeKept
<1>1. SizeInv => ResizeKept
  BY DEF SizeInv
<1> QED
  BY <1>1, SizeInvariant, PTL

\* Which sizes the reader's retries can end on: what is set reads back as it was asked for
\* exactly when neither side of the text area is cut down to 16 bits (From<Winsize>,
\* Pty::winsize).  Any other is set again on every tick.
THEOREM ReadsBackIffFits ==
  ASSUME NEW s \in Winsize
  PROVE  FromKernel(ToKernel(s)) = s <=> Fits(s)
<1> DEFINE across == Saturated(s.cols * s.width)
           down == Saturated(s.rows * s.height)
<1>1. /\ s = [rows |-> s.rows, cols |-> s.cols, width |-> s.width, height |-> s.height]
      /\ s.rows \in Nat \ {0} /\ s.cols \in Nat \ {0} /\ s.width \in Nat /\ s.height \in Nat
  BY DEF Winsize
<1>2. FromKernel(ToKernel(s)) =
        [rows |-> s.rows, cols |-> s.cols,
         width |-> across \div AtLeastOne(s.cols), height |-> down \div AtLeastOne(s.rows)]
  BY DEF FromKernel, ToKernel
<1>3. FromKernel(ToKernel(s)) = s <=>
        across \div AtLeastOne(s.cols) = s.width /\ down \div AtLeastOne(s.rows) = s.height
  <2> HIDE DEF across, down
  <2> QED
    BY <1>1, <1>2
<1>4. across \div AtLeastOne(s.cols) = s.width <=> s.cols * s.width <= MaxPixel
  BY <1>1, SideReadsBack
<1>5. down \div AtLeastOne(s.rows) = s.height <=> s.rows * s.height <= MaxPixel
  BY <1>1, SideReadsBack
<1> QED
  BY <1>3, <1>4, <1>5 DEF Fits

\* A behaviour of the two side by side is one of each: what is proved of Resize and of
\* Teardown holds of what MCChild runs.
THEOREM SideBySide == ChildSpec => SizeSpec /\ Spec
<1>1. ChildInit => SizeInit /\ Init
  BY DEF ChildInit
<1>2. [ChildNext]_<<part, sizeVars, vars>> => [SizeNext]_sizeVars /\ [Next]_vars
  BY DEF ChildNext
<1> QED
  BY <1>1, <1>2, PTL DEF ChildSpec, SizeSpec, Spec

=============================================================================

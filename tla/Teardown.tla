------------------------------ MODULE Teardown ------------------------------
(***************************************************************************)
(* Killing a session and reaping its child: Session::shutdown and the      *)
(* reader's finish (src/session.rs), Pty::signal, waitpid and Drop         *)
(* (src/pty.rs).                                                           *)
(*                                                                         *)
(* The child leads the terminal's session; a job of its may be in the      *)
(* foreground in its place, and the terminal's signals then go to the job. *)
(* Two threads touch the child, Emacs' and the reader's, each a sequence   *)
(* of steps; reapLock serialises a signal against a reap.  A wait for the  *)
(* child gives up after a grace long enough for a process to die of a      *)
(* signal it does not survive.                                             *)
(***************************************************************************)
EXTENDS Naturals

CONSTANTS MaxSignals  \* bound on the signals the user sends

Threads == {"emacs", "reader"}

VARIABLES
  child,    \* "alive", "dying" of a signal, "zombie", "reaped"
  job,      \* the job in the foreground: "none", "alive", "dying"
  traps,    \* who survives a SIGHUP: a subset of {"child", "job"}
  reused,   \* the child's process id belongs to somebody else
  stray,    \* history: a signal went to whoever that is
  reaped,   \* Pty.reaped
  lock,     \* Pty.reap_lock's holder
  exited,   \* Shared.exited holds a status
  shutdown, \* Shared.shutdown
  pc,       \* each thread's next step
  then,     \* where each thread goes after the call it is in
  sig, target,  \* Emacs' call to signal: what it sends, and to whom
  killed,   \* history: cooked--kill has torn the session down and returned
  signals   \* signals the user has sent
vars == <<child, job, traps, reused, stray, reaped, lock, exited, shutdown, pc, then, sig, target, killed, signals>>
processes == <<child, job, traps, reused>>

(* A thread's next step, and where the call it starts is to return to.     *)
Goto(t, step) == pc' = [pc EXCEPT ![t] = step] /\ UNCHANGED then
Call(t, step, back) == pc' = [pc EXCEPT ![t] = step] /\ then' = [then EXCEPT ![t] = back]

(* What a signal to a process group does; a SIGKILL nobody survives.       *)
Strike(who, s) ==
  /\ job' = IF who = "job" /\ job = "alive" /\ ~(s = "HUP" /\ "job" \in traps) THEN "dying" ELSE job
  /\ child' = IF who = "child" /\ child = "alive" /\ ~(s = "HUP" /\ "child" \in traps) THEN "dying" ELSE child
  /\ stray' = (stray \/ (who = "child" /\ reused))

Init ==
  /\ child = "alive" /\ job \in {"none", "alive"} /\ traps \in SUBSET {"child", "job"}
  /\ reused = FALSE /\ stray = FALSE /\ reaped = FALSE /\ lock = "none"
  /\ exited = FALSE /\ shutdown = FALSE
  /\ pc = [t \in Threads |-> IF t = "emacs" THEN "idle" ELSE "reading"]
  /\ then = [t \in Threads |-> "idle"]
  /\ sig = "HUP" /\ target = "child" /\ killed = FALSE /\ signals = 0

----------------------------------------------------------------------------
(* Broken: a signal or a reap goes ahead whoever is inside.                 *)
LockUnguarded(t) == lock' = lock
LockFree(t) == lock = "none" /\ lock' = t
TakeLock(t) == LockFree(t)

(* Pty::signal: under the lock, refuse once reaped, else find the          *)
(* foreground and signal it.                                               *)
SignalCheck ==
  /\ pc["emacs"] = "signal" /\ TakeLock("emacs")
  /\ Goto("emacs", IF reaped THEN "signalled" ELSE "foreground")
  /\ UNCHANGED <<processes, stray, reaped, exited, shutdown, sig, target, killed, signals>>
SignalTarget ==
  /\ pc["emacs"] = "foreground"
  /\ target' = IF job = "none" THEN "child" ELSE "job"
  /\ Goto("emacs", "killpg")
  /\ UNCHANGED <<processes, stray, reaped, lock, exited, shutdown, sig, killed, signals>>
SignalSend ==
  /\ pc["emacs"] = "killpg"
  /\ Strike(target, sig) /\ Goto("emacs", "signalled")
  /\ UNCHANGED <<traps, reused, reaped, lock, exited, shutdown, sig, target, killed, signals>>
SignalReturn ==
  /\ pc["emacs"] = "signalled"
  /\ lock' = (IF lock = "emacs" THEN "none" ELSE lock)
  /\ Goto("emacs", then["emacs"])
  /\ UNCHANGED <<processes, stray, reaped, exited, shutdown, sig, target, killed, signals>>

(* Pty::reap: waitpid under the lock until the child is collected or the   *)
(* patience is out; the status is whoever's call collected it.             *)
WaitLock(t) ==
  /\ pc[t] = "wait" /\ TakeLock(t) /\ Goto(t, "collect")
  /\ UNCHANGED <<processes, stray, reaped, exited, shutdown, sig, target, killed, signals>>
Collect(t) ==
  /\ pc[t] = "collect"
  /\ child' = IF ~reaped /\ child = "zombie" THEN "reaped" ELSE child
  /\ Goto(t, IF ~reaped /\ child = "zombie" THEN "record" ELSE "missed")
  /\ UNCHANGED <<job, traps, reused, stray, reaped, lock, exited, shutdown, sig, target, killed, signals>>
Record(t) ==
  /\ pc[t] = "record" /\ reaped' = TRUE
  /\ lock' = (IF lock = t THEN "none" ELSE lock)
  /\ Goto(t, "status")
  /\ UNCHANGED <<processes, stray, exited, shutdown, sig, target, killed, signals>>
Missed(t) ==
  /\ pc[t] = "missed"
  /\ lock' = (IF lock = t THEN "none" ELSE lock)
  /\ Goto(t, "waiting")
  /\ UNCHANGED <<processes, stray, reaped, exited, shutdown, sig, target, killed, signals>>
Again(t) ==
  /\ pc[t] = "waiting" /\ child \in {"dying", "zombie"} /\ Goto(t, "wait")
  /\ UNCHANGED <<processes, stray, reaped, lock, exited, shutdown, sig, target, killed, signals>>
(* Broken: a wait that never gives up.                                      *)
NoPatience(t) == FALSE
PatienceOut(t) == job # "dying" /\ (t = "emacs" => child \notin {"dying", "zombie"})
GiveUp(t) ==
  /\ pc[t] = "waiting" /\ PatienceOut(t)
  /\ Goto(t, IF t = "reader" THEN "done" ELSE then[t])
  /\ UNCHANGED <<processes, stray, reaped, lock, exited, shutdown, sig, target, killed, signals>>
GotStatus(t) ==
  /\ pc[t] = "status" /\ exited' = TRUE
  /\ Goto(t, IF t = "reader" THEN "done" ELSE "torn")
  /\ UNCHANGED <<processes, stray, reaped, lock, shutdown, sig, target, killed, signals>>

----------------------------------------------------------------------------
(* The reader: the terminal reports its end, which a child that closes it  *)
(* brings about alive; it is told to stop; the wake pipe breaks.           *)
Hangup ==
  /\ pc["reader"] = "reading"
  /\ Goto("reader", "wait")
  /\ UNCHANGED <<processes, stray, reaped, lock, exited, shutdown, sig, target, killed, signals>>
Interrupted ==
  /\ pc["reader"] = "reading" /\ shutdown
  /\ \/ Goto("reader", "done")   \* woken by the interrupt: return at once
     \/ Goto("reader", "wait")   \* at the loop's own test: finish with no patience
  /\ UNCHANGED <<processes, stray, reaped, lock, exited, shutdown, sig, target, killed, signals>>
WakeBroken ==
  /\ pc["reader"] = "reading" /\ ~shutdown /\ shutdown' = TRUE
  /\ UNCHANGED <<processes, stray, reaped, lock, exited, pc, then, sig, target, killed, signals>>

(* Emacs: a signal the user sends; cooked--kill; the handle collected.     *)
UserSignals(s) ==
  /\ pc["emacs"] = "idle" /\ signals < MaxSignals
  /\ sig' = s /\ signals' = signals + 1 /\ Call("emacs", "signal", "idle")
  /\ UNCHANGED <<processes, stray, reaped, lock, exited, shutdown, target, killed>>
Shutdown ==
  /\ pc["emacs"] = "idle" /\ ~killed
  /\ shutdown' = TRUE /\ sig' = "HUP"
  /\ IF shutdown THEN Goto("emacs", "drop") ELSE Call("emacs", "signal", "join")
  /\ UNCHANGED <<processes, stray, reaped, lock, exited, target, killed, signals>>
(* Broken: Emacs does not wait for the reader.                              *)
JoinAnyway == pc["emacs"] = "join"
Joined == pc["emacs"] = "join" /\ pc["reader"] = "done"
Join ==
  /\ Joined
  /\ IF exited THEN Goto("emacs", "torn") ELSE Call("emacs", "wait", "escalate")
  /\ UNCHANGED <<processes, stray, reaped, lock, exited, shutdown, sig, target, killed, signals>>
Escalate ==
  /\ pc["emacs"] = "escalate" /\ sig' = "KILL" /\ Call("emacs", "signal", "lastwait")
  /\ UNCHANGED <<processes, stray, reaped, lock, exited, shutdown, target, killed, signals>>
LastWait ==
  /\ pc["emacs"] = "lastwait" /\ Call("emacs", "wait", "torn")
  /\ UNCHANGED <<processes, stray, reaped, lock, exited, shutdown, sig, target, killed, signals>>
Torn ==
  /\ pc["emacs"] = "torn" /\ killed' = TRUE /\ Goto("emacs", "drop")
  /\ UNCHANGED <<processes, stray, reaped, lock, exited, shutdown, sig, target, signals>>

(* Pty::drop, once both threads have let go: SIGHUP to the child's own     *)
(* group, a grace, then SIGKILL.                                           *)
(* Broken: the last handle hangs up and leaves it at that.                  *)
HangupOnly(s) == s = "HUP"
Escalates(s) == s \in {"HUP", "KILL"}
Drop ==
  /\ pc["emacs"] = "drop" /\ pc["reader"] = "done"
  /\ IF reaped THEN UNCHANGED <<child, job, stray>> /\ Goto("emacs", "gone")
     ELSE Strike("child", "HUP") /\ Call("emacs", "dropwait", "dropkill")
  /\ UNCHANGED <<traps, reused, reaped, lock, exited, shutdown, sig, target, killed, signals>>
DropKill ==
  /\ pc["emacs"] = "dropkill"
  /\ IF Escalates("KILL") THEN Strike("child", "KILL") ELSE UNCHANGED <<child, job, stray>>
  /\ Call("emacs", "dropwait", "gone")
  /\ UNCHANGED <<traps, reused, reaped, lock, exited, shutdown, sig, target, killed, signals>>
DropWait ==
  /\ pc["emacs"] = "dropwait" /\ child # "dying"
  /\ child' = (IF child = "zombie" THEN "reaped" ELSE child)
  /\ reaped' = (reaped \/ child = "zombie")
  /\ Goto("emacs", IF child = "zombie" THEN "gone" ELSE then["emacs"])
  /\ UNCHANGED <<job, traps, reused, stray, lock, exited, shutdown, sig, target, killed, signals>>

(* The kernel and the processes: death, an exit, a job's end, a new owner  *)
(* for a process id nobody holds any more.                                 *)
Die ==
  /\ child \in {"alive", "dying"} /\ child' = "zombie"
  /\ job' = IF job = "none" THEN "none" ELSE "dying"
  /\ UNCHANGED <<traps, reused, stray, reaped, lock, exited, shutdown, pc, then, sig, target, killed, signals>>
JobEnds ==
  /\ job \in {"alive", "dying"} /\ job' = "none"
  /\ UNCHANGED <<child, traps, reused, stray, reaped, lock, exited, shutdown, pc, then, sig, target, killed, signals>>
Reuse ==
  /\ child = "reaped" /\ ~reused /\ reused' = TRUE
  /\ UNCHANGED <<child, job, traps, stray, reaped, lock, exited, shutdown, pc, then, sig, target, killed, signals>>

EmacsStep ==
  \/ SignalCheck \/ SignalTarget \/ SignalSend \/ SignalReturn
  \/ WaitLock("emacs") \/ Collect("emacs") \/ Record("emacs") \/ Missed("emacs")
  \/ Again("emacs") \/ GiveUp("emacs") \/ GotStatus("emacs")
  \/ Join \/ Escalate \/ LastWait \/ Torn \/ Drop \/ DropKill \/ DropWait
ReaderStep ==
  \/ WaitLock("reader") \/ Collect("reader") \/ Record("reader") \/ Missed("reader")
  \/ Again("reader") \/ GiveUp("reader") \/ GotStatus("reader") \/ Interrupted
Next ==
  \/ EmacsStep \/ ReaderStep \/ Hangup \/ WakeBroken
  \/ \E s \in {"HUP", "KILL"} : UserSignals(s)
  \/ Shutdown \/ Die \/ JobEnds \/ Reuse
Spec == Init /\ [][Next]_vars

(* The threads run, a signalled process dies, and a wait runs out.         *)
Fairness ==
  /\ WF_vars(EmacsStep) /\ WF_vars(ReaderStep)
  /\ WF_vars(child = "dying" /\ Die) /\ WF_vars(job = "dying" /\ JobEnds)
FairSpec == Spec /\ Fairness

----------------------------------------------------------------------------
Steps ==
  {"reading", "done", "idle", "signal", "foreground", "killpg", "signalled",
   "wait", "collect", "record", "missed", "waiting", "status", "join", "escalate",
   "lastwait", "torn", "drop", "dropkill", "dropwait", "gone"}
TypeOK ==
  /\ child \in {"alive", "dying", "zombie", "reaped"} /\ job \in {"none", "alive", "dying"}
  /\ {reused, stray, reaped, exited, shutdown, killed} \subseteq BOOLEAN
  /\ lock \in Threads \cup {"none"} /\ target \in {"child", "job"}
  /\ pc \in [Threads -> Steps] /\ then \in [Threads -> Steps]

(* No signal goes to a process id the kernel may have given away: the lock *)
(* keeps the check and the kill together against the other thread's reap.  *)
NoStraySignal == ~stray

(* A status collected is a status recorded: whichever thread reaps the     *)
(* child, its exit is not lost between the two.                            *)
StatusKept == killed /\ reaped /\ pc["emacs"] = "drop" => exited

(* Once the session's last handle is gone so is the child, however it      *)
(* treats a hangup, whoever was in the foreground, whatever broke first.   *)
NothingSurvives == pc["emacs"] = "gone" => child = "reaped"

(* cooked--kill reaps the child before it returns.                         *)
KillReaps == killed => child = "reaped"

(* A kill returns: nobody waits for the child, or the reader, for ever.    *)
KillEnds == pc["emacs"] = "join" ~> killed
=============================================================================

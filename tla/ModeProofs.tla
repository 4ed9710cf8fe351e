----------------------------- MODULE ModeProofs -----------------------------
(***************************************************************************)
(* Whose keyboard it is, proved: what Lisp knows of the child's mode, and  *)
(* where the answer to a password prompt goes, for any number of nested    *)
(* reads and either kind of asking.                                        *)
(***************************************************************************)
EXTENDS Mode, TLAPS

-----------------------------------------------------------------------------
(* The inductive invariants *)

\* A command that began with echo off runs with what that means known.  Its own sample
\* has read it, or is still to: nothing else it reads can say otherwise.
Hushed ==
  /\ hushed => tty = "secret"
  /\ hushed /\ epc \in {"store", "adopt"} => seen = "secret"

\* What a sample is about to make Lisp believe is the cache, or an announcement says
\* that the reader stored something else since.
SampleTold == epc = "adopt" /\ ~unsaid /\ seen # cache => told \/ rpc = "announce"

KnowsMode == Hushed /\ NoLeak /\ Heard /\ SampleTold

\* The reads in progress.
Read == [current : BOOLEAN, stands : BOOLEAN, via : {"function", "minibuffer", "fallback"}]
ReadsOK == reads \in Seq(Read) /\ timer \in BOOLEAN

\* A read that would be sent is the innermost, and no other prompt is on its way.
CurrentInnermost ==
  \A i \in DOMAIN reads : reads[i].current => ~timer /\ i = Len(reads)

\* A read that would be sent is of a session that lives, and whose child was last heard of
\* reading with echo off.
CurrentHeard ==
  \A i \in DOMAIN reads : reads[i].current => session /\ mode = "secret"

\* Neither a prompt on its way nor a command in progress outlives the session.
WhileAlive == timer \/ epc # "idle" => session

\* A question that still stands and is put in the minibuffer is put in the one Lisp has
\* on record: this is what keeps cooked--resume-secret from putting it again.
StandingOnRecord ==
  \A i \in DOMAIN reads :
    reads[i].stands /\ reads[i].via = "minibuffer" => reads[i].current /\ shown = i

Asking == ReadsOK /\ CurrentInnermost /\ CurrentHeard /\ WhileAlive /\ StandingOnRecord

ModeInv == KnowsMode /\ Asking

-----------------------------------------------------------------------------
(* KnowsMode: only a sample tells Lisp of a mode nobody announced.           *)

\* Each step keeps what Lisp knows of the child's mode: a drain and a sample bring
\* Lisp up to date, and a store the reader does behind its back is announced.
LEMMA KnowsModeStep == KnowsMode /\ [Next]_vars => KnowsMode'
<1> SUFFICES ASSUME KnowsMode, [Next]_vars PROVE KnowsMode'
  OBVIOUS
<1> USE DEF KnowsMode, Hushed, NoLeak, Heard, OnItsWay, SampleTold, MayOwn, readerVars, commandVars
<1>0. ASSUME UNCHANGED <<tty, cache, readerVars, told, session, mode, commandVars, unsaid>>
      PROVE  KnowsMode'
  BY <1>0
<1>1. CASE ReaderStep
  <2>1. CASE Sample
    BY <2>1 DEF Sample
  <2>2. CASE Compare
    BY <2>2 DEF Compare
  <2>3. CASE Store
    BY <2>3 DEF Store
  <2>4. CASE Announce
    BY <2>4 DEF Announce
  <2> QED
    BY <1>1, <2>1, <2>2, <2>3, <2>4 DEF ReaderStep
<1>2. CASE CommandStep
  <2>1. CASE ReadTty
    BY <2>1 DEF ReadTty
  <2>2. CASE StoreMode
    BY <2>2 DEF StoreMode
  <2>3. CASE Adopt
    <3>1. mode' = seen
      BY <2>3 DEF Adopt, SetMode
    <3> QED
      BY <2>3, <3>1 DEF Adopt
  <2>4. CASE RunCommand
    BY <2>4 DEF RunCommand
  <2>5. CASE Resume
    BY <2>5 DEF Resume
  <2> QED
    BY <1>2, <2>1, <2>2, <2>3, <2>4, <2>5 DEF CommandStep
<1>3. CASE LispStep
  <2>1. CASE Drain
    <3>1. mode' = cache
      BY <2>1 DEF Drain, SetMode
    <3> QED
      BY <2>1, <3>1 DEF Drain
  <2>2. CASE End
    BY <2>2 DEF End
  <2>3. CASE Insert
    BY <2>3 DEF Insert
  <2>4. CASE Leave
    BY <2>4 DEF Leave
  <2>5. CASE ComeBack
    BY <2>5 DEF ComeBack
  <2>6. CASE PromptSecret \/ ReadPasswd \/ UserEndsRead
    BY <1>0, <2>6 DEF PromptSecret, ReadPasswd, UserEndsRead, EndRead
  <2>7. ASSUME NEW d \in dismissals, Dismiss(d) PROVE KnowsMode'
    BY <1>0, <2>7 DEF Dismiss, EndRead
  <2> QED
    BY <1>2, <1>3, <2>1, <2>2, <2>3, <2>4, <2>5, <2>6, <2>7 DEF LispStep
<1>4. CASE ChildStep
  BY <1>4 DEF ChildStep
<1>5. CASE Stopped \/ UNCHANGED vars
  BY <1>0, <1>5 DEF Stopped, vars
<1> QED
  BY <1>1, <1>3, <1>4, <1>5 DEF Next

-----------------------------------------------------------------------------
(* Asking: a prompt is raised by the timer alone, and what arms the timer    *)
(* makes every read in progress stale.                                       *)

\* The reads in progress, taken one by one.
LEMMA ReadsTyped ==
  ASSUME ReadsOK
  PROVE  /\ DOMAIN reads = 1..Len(reads) /\ Len(reads) \in Nat
         /\ \A i \in DOMAIN reads : reads[i] \in Read
  BY DEF ReadsOK

\* Cancelling leaves no read that would be sent, and so nothing to say of any.
LEMMA CancelKeepsAsking ==
  ASSUME Asking, NEW rearmed \in BOOLEAN, NEW asking \in BOOLEAN, CancelSecret(rearmed, asking),
         asking => shown = 0, rearmed \/ epc' # "idle" => session'
  PROVE  Asking'
<1> USE DEF Asking
<1>1. /\ DOMAIN reads' = DOMAIN reads /\ timer' \in BOOLEAN
      /\ \A i \in DOMAIN reads :
           /\ reads'[i] = [reads[i] EXCEPT !.current = FALSE, !.stands = @ /\ asking]
           /\ reads[i] \in Read
  BY ReadsTyped DEF CancelSecret
<1>2. \A i \in DOMAIN reads :
        /\ reads'[i] \in Read /\ ~reads'[i].current
        /\ reads'[i].stands => reads[i].stands /\ asking
        /\ reads'[i].via = reads[i].via
  BY <1>1 DEF Read
<1>3. ReadsOK'
  <2> DEFINE new == reads'
  <2>1. new = [i \in DOMAIN reads |-> new[i]]
    BY DEF CancelSecret
  <2>2. new \in [1..Len(reads) -> Read] /\ Len(reads) \in Nat
    BY <1>2, <2>1, ReadsTyped
  <2>3. new \in Seq(Read)
    <3> HIDE DEF new
    <3> QED
      BY <2>2
  <2> QED
    BY <1>1, <2>3 DEF ReadsOK
<1>4. CurrentInnermost'
  BY <1>1, <1>2 DEF CurrentInnermost
<1>5. StandingOnRecord'
  <2>1. ASSUME NEW i \in DOMAIN reads, reads[i].stands, reads[i].via = "minibuffer", asking
        PROVE  FALSE
    <3>1. shown = i /\ shown = 0
      BY <2>1 DEF StandingOnRecord
    <3> QED
      BY <3>1, ReadsTyped
  <2> QED
    BY <1>1, <1>2, <2>1 DEF StandingOnRecord
<1>6. CurrentHeard'
  BY <1>1, <1>2 DEF CurrentHeard
<1>7. WhileAlive'
  BY DEF CancelSecret, WhileAlive
<1> QED
  BY <1>3, <1>4, <1>5, <1>6, <1>7

\* A mode is adopted: the same one changes nothing, another cancels what was asked.
LEMMA SetModeKeepsAsking ==
  ASSUME Asking, NEW m, SetMode(m), session, UNCHANGED session
  PROVE  Asking'
<1>1. CASE m = mode
  BY <1>1 DEF SetMode, secretVars, Asking, ReadsOK, CurrentInnermost, StandingOnRecord, CurrentHeard, WhileAlive
<1>2. CASE m # mode
  <2>1. (attention = "here") \in BOOLEAN /\ FALSE \in BOOLEAN
    OBVIOUS
  <2> QED
    BY <1>2, <2>1, CancelKeepsAsking DEF SetMode, ScheduleSecret
<1> QED
  BY <1>1, <1>2

\* A prompt comes up, over reads none of which would be sent: the timer was set.
LEMMA PromptKeepsAsking == Asking /\ PromptSecret => Asking'
<1> SUFFICES ASSUME Asking, PromptSecret PROVE Asking'
  OBVIOUS
<1> USE DEF Asking, Raise
<1>1. timer /\ timer' = FALSE /\ session /\ UNCHANGED <<session, mode, epc>>
  BY DEF PromptSecret, WhileAlive, commandVars
<1>2. \A i \in DOMAIN reads : ~reads[i].current
  BY <1>1 DEF CurrentInnermost
<1>3. CASE UNCHANGED <<reads, shown>>
  BY <1>1, <1>2, <1>3, ReadsTyped
     DEF ReadsOK, CurrentInnermost, StandingOnRecord, CurrentHeard, WhileAlive
<1>4. ASSUME NEW by \in {"function", "minibuffer"}, Raise(by),
             by = "minibuffer" => shown' = Len(reads) + 1, mode = "secret"
      PROVE  Asking'
  <2> DEFINE new == [current |-> TRUE, stands |-> TRUE, via |-> by]
  <2>1. new \in Read /\ reads \in Seq(Read)
    BY DEF Read, ReadsOK
  <2>2. /\ reads' \in Seq(Read) /\ Len(reads') = Len(reads) + 1
        /\ \A i \in 1..Len(reads) : reads'[i] = reads[i]
        /\ reads'[Len(reads) + 1] = new
    BY <1>4, <2>1
  <2>3. DOMAIN reads' = 1..(Len(reads) + 1) /\ DOMAIN reads = 1..Len(reads) /\ Len(reads) \in Nat
    BY <2>1, <2>2
  <2>4. \A i \in DOMAIN reads' : i \in DOMAIN reads \/ i = Len(reads')
    BY <2>2, <2>3
  <2>5. \A i \in DOMAIN reads : ~(reads[i].stands /\ reads[i].via = "minibuffer")
    BY <1>2 DEF StandingOnRecord
  <2>6. CurrentInnermost'
    BY <1>1, <1>2, <2>2, <2>3, <2>4 DEF CurrentInnermost
  <2>7. StandingOnRecord'
    BY <1>4, <2>2, <2>3, <2>4, <2>5 DEF StandingOnRecord
  <2>8. CurrentHeard'
    BY <1>1, <1>4 DEF CurrentHeard
  <2>9. WhileAlive'
    BY <1>1 DEF WhileAlive
  <2> QED
    BY <1>1, <2>2, <2>6, <2>7, <2>8, <2>9 DEF ReadsOK
<1> QED
  BY <1>3, <1>4 DEF PromptSecret

\* The innermost read ends.  It was sent only if its question still stood.
LEMMA EndKeepsAsking == Asking /\ EndRead => Asking'
<1> SUFFICES ASSUME Asking, EndRead PROVE Asking'
  OBVIOUS
<1> USE DEF Asking
<1> DEFINE n == Len(reads)
<1>1. /\ reads \in Seq(Read) /\ n \in Nat /\ n > 0 /\ DOMAIN reads = 1..n
      /\ reads' = SubSeq(reads, 1, n - 1) /\ UNCHANGED timer
  BY DEF EndRead, ReadsOK, Front
<1>2. /\ reads' \in Seq(Read) /\ Len(reads') = n - 1 /\ DOMAIN reads' = 1..(n - 1)
      /\ \A i \in 1..(n - 1) : reads'[i] = reads[i]
  BY <1>1
<1>3. \A i \in DOMAIN reads' : i \in DOMAIN reads /\ i # n /\ reads'[i] = reads[i]
  BY <1>1, <1>2
<1>4. \A i \in DOMAIN reads' : ~reads'[i].current
  BY <1>3 DEF CurrentInnermost
<1>5. CurrentInnermost'
  BY <1>4 DEF CurrentInnermost
<1>6. StandingOnRecord'
  BY <1>3, <1>4 DEF StandingOnRecord
<1>7. CurrentHeard' /\ WhileAlive'
  BY <1>1, <1>4 DEF CurrentHeard, WhileAlive, EndRead, commandVars
<1> QED
  BY <1>1, <1>2, <1>5, <1>6, <1>7 DEF ReadsOK

\* A password function gives up: its read goes on in a minibuffer of its own, which no
\* question put in the minibuffer was waiting behind.
LEMMA FallBackKeepsAsking == Asking /\ ReadPasswd => Asking'
<1> SUFFICES ASSUME Asking, ReadPasswd PROVE Asking'
  OBVIOUS
<1> USE DEF Asking
<1> DEFINE n == Len(reads)
<1>1. /\ reads \in Seq(Read) /\ n \in Nat /\ n \in DOMAIN reads /\ DOMAIN reads = 1..n
      /\ reads[n] \in Read /\ reads[n].via = "function"
      /\ reads' = [reads EXCEPT ![n].via = "fallback"] /\ UNCHANGED timer
  BY DEF ReadPasswd, ReadsOK, Last, InMinibuffer
<1>2. /\ reads' \in Seq(Read) /\ DOMAIN reads' = 1..n /\ Len(reads') = n
      /\ \A i \in 1..n : i # n => reads'[i] = reads[i]
      /\ reads'[n] = [reads[n] EXCEPT !.via = "fallback"]
  <2> DEFINE after == [reads[n] EXCEPT !.via = "fallback"]
  <2>1. after \in Read
    BY <1>1 DEF Read
  <2>2. reads' = [reads EXCEPT ![n] = after]
    BY <1>1
  <2> HIDE DEF after
  <2>3. reads' \in Seq(Read) /\ Len(reads') = n
    BY <1>1, <2>1, <2>2
  <2>4. DOMAIN reads' = 1..n /\ reads'[n] = after /\ \A i \in 1..n : i # n => reads'[i] = reads[i]
    BY <1>1, <2>2
  <2> QED
    BY <2>3, <2>4 DEF after
<1>3. /\ reads'[n].current = reads[n].current /\ reads'[n].stands = reads[n].stands
      /\ reads'[n].via = "fallback"
  BY <1>1, <1>2 DEF Read
<1>4. CurrentInnermost'
  BY <1>1, <1>2, <1>3 DEF CurrentInnermost
<1>5. \A i \in 1..n : i # n => ~(reads[i].stands /\ reads[i].via = "minibuffer")
  BY <1>1 DEF CurrentInnermost, StandingOnRecord
<1>6. StandingOnRecord'
  BY <1>2, <1>3, <1>5 DEF StandingOnRecord
<1>7. CurrentHeard' /\ WhileAlive'
  BY <1>1, <1>2, <1>3 DEF CurrentHeard, WhileAlive, ReadPasswd, commandVars
<1> QED
  BY <1>1, <1>2, <1>4, <1>6, <1>7 DEF ReadsOK

\* Each step keeps the reads in progress in order.
LEMMA AskingStep == Asking /\ [Next]_vars => Asking'
<1> SUFFICES ASSUME Asking, [Next]_vars PROVE Asking'
  OBVIOUS
<1>0. ASSUME UNCHANGED <<secretVars, session, mode>>, epc' # "idle" => session' PROVE Asking'
  BY <1>0 DEF secretVars, Asking, ReadsOK, CurrentInnermost, StandingOnRecord, CurrentHeard, WhileAlive
<1>a. timer \/ epc # "idle" => session
  BY DEF Asking, WhileAlive
<1>1. CASE ReaderStep \/ ChildStep \/ Stopped \/ UNCHANGED vars
  BY <1>0, <1>a, <1>1
     DEF ReaderStep, Sample, Compare, Store, Announce, ChildStep, Stopped, vars, commandVars
<1>2. CASE CommandStep
  <2>1. CASE ReadTty \/ StoreMode \/ RunCommand
    BY <1>0, <1>a, <2>1 DEF ReadTty, StoreMode, RunCommand
  <2>2. CASE Adopt
    BY <1>a, <2>2, SetModeKeepsAsking DEF Adopt
  <2>3. CASE Resume
    <3>1. CASE mode = "secret" /\ ~timer /\ shown = 0
      <4>1. CancelSecret(attention = "here", TRUE) /\ session'
        BY <1>a, <2>3, <3>1 DEF Resume, ScheduleSecret
      <4>2. (attention = "here") \in BOOLEAN /\ TRUE \in BOOLEAN
        OBVIOUS
      <4> QED
        BY <3>1, <4>1, <4>2, CancelKeepsAsking
    <3>2. CASE ~(mode = "secret" /\ ~timer /\ shown = 0)
      BY <1>0, <2>3, <3>2 DEF Resume
    <3> QED
      BY <3>1, <3>2
  <2> QED
    BY <1>2, <2>1, <2>2, <2>3 DEF CommandStep
<1>3. CASE LispStep
  <2>1. CASE Drain
    BY <2>1, SetModeKeepsAsking DEF Drain
  <2>2. CASE End
    <3>1. CancelSecret(FALSE, FALSE) /\ epc' = "idle" /\ FALSE \in BOOLEAN
      BY <2>2 DEF End, commandVars
    <3> QED
      BY <3>1, CancelKeepsAsking
  <2>3. CASE Insert \/ Leave \/ ComeBack
    BY <1>0, <1>a, <2>3 DEF Insert, Leave, ComeBack, commandVars
  <2>4. CASE UserEndsRead
    BY <2>4, EndKeepsAsking DEF UserEndsRead
  <2>5. ASSUME NEW d \in dismissals, Dismiss(d) PROVE Asking'
    <3>1. CASE EndRead
      BY <3>1, EndKeepsAsking
    <3>2. CASE ~EndRead
      <4>1. UNCHANGED <<timer, reads, shown, session, mode, epc>>
        BY <2>5, <3>2 DEF Dismiss, commandVars
      <4> QED
        BY <4>1 DEF Asking, ReadsOK, CurrentInnermost, StandingOnRecord, CurrentHeard, WhileAlive
    <3> QED
      BY <3>1, <3>2
  <2> QED
    BY <1>2, <1>3, <2>1, <2>2, <2>3, <2>4, <2>5, PromptKeepsAsking, FallBackKeepsAsking
       DEF LispStep
<1> QED
  BY <1>1, <1>2, <1>3 DEF Next

-----------------------------------------------------------------------------
(* The theorems *)

\* The invariant holds to begin with and whatever the threads, the user and the child do.
LEMMA ModeInvariant == Spec => []ModeInv
<1>1. Init => KnowsMode
  BY DEF Init, KnowsMode, Hushed, NoLeak, Heard, SampleTold, MayOwn
<1>2. Init => Asking
  <2> SUFFICES ASSUME Init PROVE Asking
    OBVIOUS
  <2>1. reads = <<>> /\ timer = FALSE
    BY DEF Init
  <2>2. DOMAIN reads = {} /\ reads \in Seq(Read)
    BY <2>1
  <2>3. CurrentInnermost /\ CurrentHeard /\ StandingOnRecord
    BY <2>2, Zenon DEF CurrentInnermost, CurrentHeard, StandingOnRecord
  <2>4. WhileAlive
    BY DEF Init, WhileAlive
  <2> QED
    BY <2>1, <2>2, <2>3, <2>4 DEF Asking, ReadsOK
<1>3. Init => ModeInv
  BY <1>1, <1>2 DEF ModeInv
<1>4. ModeInv /\ [Next]_vars => ModeInv'
  BY KnowsModeStep, AskingStep DEF ModeInv
<1> QED
  BY <1>3, <1>4, PTL DEF Spec

\* A command that Emacs runs on the buffer was not begun while the child read with
\* echo off, however the reader's stores fall (Session::sample_mode, cooked--guard-insertion).
THEOREM NeverLeaks == Spec => []NoLeak
<1>1. ModeInv => NoLeak
  BY DEF ModeInv, KnowsMode
<1> QED
  BY <1>1, ModeInvariant, PTL

\* Where Lisp and the cache disagree an announcement is made, about to be made, or Emacs
\* is in the middle of a sample of its own (Shared::sample_mode and announce).
THEOREM AlwaysHeard == Spec => []Heard
<1>1. ModeInv => Heard
  BY DEF ModeInv, KnowsMode
<1> QED
  BY <1>1, ModeInvariant, PTL

\* A prompt that would be answered is of a session that lives, and, once the cache has what
\* the child's termios says and Lisp has drained, of a child that reads with echo off: the
\* epoch moves with every change Lisp hears of, and it hears of every one that is announced
\* (cooked--prompt-secret, cooked--cancel-secret, Shared::sample_mode).
THEOREM AnswersReachTheAsker == Spec => []SecretForAsker
<1>1. ModeInv => SecretForAsker
  BY DEF ModeInv, KnowsMode, Heard, Asking, CurrentHeard, SecretForAsker, Sends
<1> QED
  BY <1>1, ModeInvariant, PTL

\* A question that still stands keeps the prompt that is up for it (cooked--resume-secret).
THEOREM PromptsKept == Spec => []PromptKept
<1>1. ModeInv => PromptKept
  BY DEF ModeInv, Asking, StandingOnRecord, PromptKept
<1> QED
  BY <1>1, ModeInvariant, PTL

\* One question, one prompt, however reads nest (cooked--schedule-secret).
THEOREM OnePromptEach == Spec => []OnePrompt
<1>1. ModeInv => OnePrompt
  BY DEF ModeInv, Asking, CurrentInnermost, OnePrompt
<1> QED
  BY <1>1, ModeInvariant, PTL
=============================================================================

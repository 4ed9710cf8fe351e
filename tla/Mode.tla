-------------------------------- MODULE Mode --------------------------------
(***************************************************************************)
(* Whose keyboard it is: the child's termios, sampled by two threads       *)
(* (src/session.rs, src/pty.rs), what Lisp makes of it                     *)
(* (lisp/cooked-mode.el), and the password prompt it raises for a child    *)
(* reading with echo off (lisp/cooked-secret.el).                          *)
(*                                                                         *)
(* The reader and Emacs each read the tty and store what they read in one  *)
(* cache, in steps of their own.  Lisp runs only on Emacs' thread, so a    *)
(* run of Lisp with no native call in it is one step; a password read is   *)
(* a recursive edit, so everything else Lisp does can happen inside one.   *)
(***************************************************************************)
EXTENDS Naturals, Sequences, SequencesExt

CONSTANTS
  MaxReads,          \* bound: how many password reads may be on the stack
  PasswordFunction   \* cooked-password-function is set, and may itself wait in Emacs

ASSUME ReadsAssumption == MaxReads \in Nat \ {0} /\ PasswordFunction \in BOOLEAN

Modes == {"cooked", "raw", "secret"}

VARIABLES
  tty,        \* the child's line discipline, or "gone" when tcgetattr fails
  cache,      \* Shared.mode
  rpc,        \* the reader's next step in sample_mode and announce
  got,        \* the reader's local: the mode it read
  changed,    \* the reader's local: it differed from the cache
  told,       \* a drain is owed: what Wakeup makes of an announcement
  session,    \* cooked--session is live
  mode,       \* cooked--mode
  attention,  \* cooked--attention: "here" or "away"
  epc,        \* Emacs: "idle", inside a sample, or what the sample was for
  purpose,    \* Emacs: what follows the sample, "insert" or "resume"
  seen,       \* Emacs: the mode its own sample read
  timer,      \* cooked--secret-timer
  reads,      \* the password reads in progress, innermost last
  shown,      \* cooked--secret-read: the depth of its minibuffer, 0 for nil
  dismissals, \* depths of the minibuffers a zero-delay timer will dismiss
  hushed,     \* history: the tty was secret throughout this command
  asked,      \* history: the question now being asked was put to the user
  unsaid      \* history: the cache moved with no announcement

readerVars == <<rpc, got, changed>>
commandVars == <<epc, purpose, seen, hushed>>
secretVars == <<timer, reads, shown, dismissals>>
vars == <<tty, cache, readerVars, told, session, mode, attention,
          commandVars, secretVars, asked, unsaid>>

\* When cooked--policy may answer `cooked`: the rest is up to the alternate screen
\* and the OSC 133 marks, which are free here.
MayOwn == mode # "secret"

-----------------------------------------------------------------------------
(* The reader: Shared::sample_mode, at each turn of read_loop and after a read *)

Sample ==
  /\ rpc = "idle" /\ session /\ tty # "gone"
  /\ got' = tty
  /\ rpc' = "compare"
  /\ UNCHANGED <<tty, cache, changed, told, session, mode, attention,
                 commandVars, secretVars, asked, unsaid>>

Compare ==
  /\ rpc = "compare"
  /\ changed' = (got # cache)
  /\ rpc' = "store"
  /\ UNCHANGED <<tty, cache, got, told, session, mode, attention,
                 commandVars, secretVars, asked, unsaid>>

\* Broken: one of the two samples of read_loop forgets what it was told.
StoreWithoutAnnounce ==
  /\ rpc = "store"
  /\ cache' = got
  /\ rpc' \in IF changed THEN {"announce", "idle"} ELSE {"idle"}
  /\ unsaid' = (unsaid \/ (got # cache /\ ~changed))
  /\ got' = "cooked" /\ changed' = FALSE
  /\ UNCHANGED <<tty, told, session, mode, attention,
                 commandVars, secretVars, asked>>

Store ==
  /\ rpc = "store"
  /\ cache' = got
  /\ rpc' = IF changed THEN "announce" ELSE "idle"
  /\ unsaid' = (unsaid \/ (got # cache /\ ~changed))
  /\ got' = "cooked" /\ changed' = FALSE
  /\ UNCHANGED <<tty, told, session, mode, attention,
                 commandVars, secretVars, asked>>

Announce ==
  /\ rpc = "announce"
  /\ told' = TRUE
  /\ rpc' = "idle"
  /\ UNCHANGED <<tty, cache, got, changed, session, mode, attention,
                 commandVars, secretVars, asked, unsaid>>

ReaderStep == Sample \/ Compare \/ Store \/ Announce

-----------------------------------------------------------------------------
(* Lisp: cooked--set-mode and the password prompt it schedules *)

\* Broken: only the read whose minibuffer is recorded goes stale.
CancelShownOnly(rearmed, asking) ==
  /\ timer' = rearmed
  /\ reads' = [i \in DOMAIN reads |->
                 [reads[i] EXCEPT !.current = @ /\ i # shown, !.stands = @ /\ asking]]
  /\ shown' = 0
  /\ dismissals' = dismissals \cup ({shown} \ {0})

\* cooked--cancel-secret, and the timer left behind.  The epoch is kept as what
\* comparing it says: bumping it makes every read in progress stale.  `asking`
\* says whether, as far as Lisp has heard, the child still asks what those reads
\* asked: history, kept in `stands`, that nothing in the code looks at.
CancelSecret(rearmed, asking) ==
  /\ timer' = rearmed
  /\ reads' = [i \in DOMAIN reads |->
                 [reads[i] EXCEPT !.current = FALSE, !.stands = @ /\ asking]]
  /\ shown' = 0
  /\ dismissals' = dismissals \cup ({shown} \ {0})

\* cooked--schedule-secret: away from the buffer there is only a message.
ScheduleSecret(asking) == CancelSecret(attention = "here", asking)

\* Broken: a drain that says `secret` again asks again.
SetModeAlways(m) ==
  /\ mode' = m
  /\ asked' = FALSE
  /\ IF m = "secret" THEN ScheduleSecret(mode = "secret") ELSE CancelSecret(FALSE, FALSE)

\* Broken: only a child that cooks its own line again is taken to have stopped asking.
SetModeCookedCancels(m) ==
  /\ mode' = m
  /\ IF m \in {mode, "raw"} THEN UNCHANGED <<secretVars, asked>>
     ELSE /\ asked' = FALSE
          /\ IF m = "secret" THEN ScheduleSecret(FALSE) ELSE CancelSecret(FALSE, FALSE)

SetMode(m) ==
  /\ mode' = m
  /\ IF m = mode THEN UNCHANGED <<secretVars, asked>>
     ELSE /\ asked' = FALSE
          /\ IF m = "secret" THEN ScheduleSecret(FALSE) ELSE CancelSecret(FALSE, FALSE)

\* A drain and its update's levels.
Drain ==
  /\ epc = "idle" /\ session
  /\ told' = FALSE
  /\ SetMode(cache)
  /\ unsaid' = FALSE
  /\ UNCHANGED <<tty, cache, readerVars, session, attention, commandVars>>

\* cooked--on-exit at the end of such an update, or cooked--cleanup.
End ==
  /\ epc = "idle" /\ session
  /\ session' = FALSE
  /\ CancelSecret(FALSE, FALSE)
  /\ mode' \in {mode, cache}
  /\ UNCHANGED <<tty, cache, readerVars, told, attention, commandVars,
                 asked, unsaid>>

\* A command of cooked-snap-commands while Emacs owns the line:
\* cooked--guard-insertion asks the tty before it runs.
Insert ==
  /\ epc = "idle" /\ session /\ MayOwn
  /\ epc' = "read" /\ purpose' = "insert"
  /\ hushed' = (tty = "secret")
  /\ UNCHANGED <<tty, cache, readerVars, told, session, mode, attention,
                 seen, secretVars, asked, unsaid>>

\* cooked--update-attention.  Coming back asks the tty too.
Leave ==
  /\ epc = "idle" /\ session /\ attention = "here"
  /\ attention' = "away"
  /\ UNCHANGED <<tty, cache, readerVars, told, session, mode,
                 commandVars, secretVars, asked, unsaid>>

ComeBack ==
  /\ epc = "idle" /\ session /\ attention = "away"
  /\ attention' = "here"
  /\ epc' = "read" /\ purpose' = "resume"
  /\ UNCHANGED <<tty, cache, readerVars, told, session, mode,
                 seen, hushed, secretVars, asked, unsaid>>

\* Session::sample_mode: tcgetattr, or the last known mode if it fails ...
ReadTty ==
  /\ epc = "read"
  /\ IF tty = "gone" THEN seen' = cache /\ epc' = "adopt"
                     ELSE seen' = tty /\ epc' = "store"
  /\ UNCHANGED <<tty, cache, readerVars, told, session, mode, attention,
                 purpose, hushed, secretVars, asked, unsaid>>

StoreMode ==
  /\ epc = "store"
  /\ cache' = seen
  /\ epc' = "adopt"
  /\ UNCHANGED <<tty, readerVars, told, session, mode, attention,
                 purpose, seen, hushed, secretVars, asked, unsaid>>

\* Broken: the cache is loaded again after the store.
AdoptCache ==
  /\ epc = "adopt"
  /\ SetMode(cache)
  /\ epc' = purpose
  /\ UNCHANGED <<tty, cache, readerVars, told, session, attention,
                 purpose, seen, hushed, unsaid>>

\* ... and the mode this call read, not the cache, is what Lisp adopts.
Adopt ==
  /\ epc = "adopt"
  /\ SetMode(seen)
  /\ epc' = purpose
  /\ UNCHANGED <<tty, cache, readerVars, told, session, attention,
                 purpose, seen, hushed, unsaid>>

\* The command runs: on the buffer if Emacs owns the line, else by way of
\* cooked--child-equivalents on the child.
RunCommand ==
  /\ epc = "insert"
  /\ epc' = "idle" /\ seen' = "cooked" /\ hushed' = FALSE
  /\ UNCHANGED <<tty, cache, readerVars, told, session, mode, attention,
                 purpose, secretVars, asked, unsaid>>

\* Broken: coming back does not raise what was held back.
ResumeNothing ==
  /\ epc = "resume"
  /\ epc' = "idle" /\ seen' = "cooked" /\ purpose' = "insert"
  /\ UNCHANGED <<tty, cache, readerVars, told, session, mode, attention,
                 secretVars, hushed, asked, unsaid>>

\* cooked--resume-secret.
Resume ==
  /\ epc = "resume"
  /\ epc' = "idle" /\ seen' = "cooked" /\ purpose' = "insert"
  /\ IF mode = "secret" /\ ~timer /\ shown = 0
       THEN ScheduleSecret(TRUE) ELSE UNCHANGED secretVars
  /\ UNCHANGED <<tty, cache, readerVars, told, session, mode, attention,
                 hushed, asked, unsaid>>

-----------------------------------------------------------------------------
(* Lisp: a password read *)

Raise(by) == reads' = Append(reads, [current |-> TRUE, stands |-> TRUE, via |-> by])

\* Whether a read waits in a minibuffer cooked--read-passwd recorded.
InMinibuffer(r) == r.via # "function"

\* cooked--prompt-secret, from the timer, up to where it first waits: in a
\* password function, or in the minibuffer if there is none or it has no answer.
PromptSecret ==
  /\ timer /\ epc = "idle" /\ dismissals = {} /\ Len(reads) < MaxReads
  /\ timer' = FALSE
  /\ IF mode # "secret" THEN UNCHANGED <<reads, shown, asked>>
     ELSE /\ \/ PasswordFunction /\ Raise("function") /\ UNCHANGED shown
             \/ Raise("minibuffer") /\ shown' = Len(reads) + 1
          /\ asked' = TRUE
  /\ UNCHANGED <<tty, cache, readerVars, told, session, mode, attention,
                 commandVars, dismissals, unsaid>>

\* A password function gives up, and cooked--read-passwd takes over.
ReadPasswd ==
  /\ epc = "idle" /\ reads # <<>> /\ ~InMinibuffer(Last(reads))
  /\ reads' = [reads EXCEPT ![Len(reads)].via = "fallback"]
  /\ shown' = Len(reads)
  /\ UNCHANGED <<tty, cache, readerVars, told, session, mode, attention,
                 commandVars, timer, dismissals, asked, unsaid>>

\* Whether the read will write to the child when it ends, answered or quit: the epoch
\* as it was before the read, compared after it.
Sends(r) == r.current

\* The innermost read ends, answered or quit.  cooked--read-passwd forgets its
\* minibuffer on the way out; what the child is sent is no state here.
EndRead ==
  /\ reads # <<>>
  /\ reads' = Front(reads)
  /\ shown' = IF InMinibuffer(Last(reads)) THEN 0 ELSE shown
  /\ UNCHANGED <<tty, cache, readerVars, told, session, mode, attention,
                 commandVars, timer, asked, unsaid>>

UserEndsRead == epc = "idle" /\ EndRead /\ UNCHANGED dismissals

\* cooked--dismiss-secret, from its timer: nothing happens if the minibuffer has
\* gone, or if the user has opened one of their own on top of it.
Dismiss(d) ==
  /\ epc = "idle" /\ d \in dismissals
  /\ dismissals' = dismissals \ {d}
  /\ \/ d = Len(reads) /\ InMinibuffer(Last(reads)) /\ EndRead
     \/ UNCHANGED <<tty, cache, readerVars, told, session, mode, attention,
                    commandVars, timer, reads, shown, asked, unsaid>>

CommandStep == ReadTty \/ StoreMode \/ Adopt \/ RunCommand \/ Resume

LispStep ==
  \/ Drain \/ End \/ Insert \/ Leave \/ ComeBack \/ CommandStep
  \/ PromptSecret \/ ReadPasswd \/ UserEndsRead \/ \E d \in dismissals : Dismiss(d)

\* The child sets its termios, or lets go of the terminal.
ChildStep ==
  /\ session /\ tty # "gone"
  /\ tty' \in (Modes \cup {"gone"}) \ {tty}
  /\ hushed' = FALSE
  /\ UNCHANGED <<cache, readerVars, told, session, mode, attention,
                 epc, purpose, seen, secretVars, asked, unsaid>>

\* The session is over and nothing is left on screen: the one place to stop.
Stopped == ~session /\ rpc = "idle" /\ reads = <<>> /\ dismissals = {} /\ UNCHANGED vars

-----------------------------------------------------------------------------
\* spawn's own sample is the first; a buffer starts out `cooked`.
Init ==
  /\ tty \in Modes /\ cache = tty /\ mode = "cooked"
  /\ rpc = "idle" /\ got = "cooked" /\ changed = FALSE /\ told = FALSE
  /\ session = TRUE /\ attention = "here"
  /\ epc = "idle" /\ purpose = "insert" /\ seen = "cooked" /\ hushed = FALSE
  /\ timer = FALSE /\ reads = <<>> /\ shown = 0 /\ dismissals = {}
  /\ asked = FALSE /\ unsaid = (cache # mode)

Next == ReaderStep \/ LispStep \/ ChildStep \/ Stopped

\* The threads run; a due timer runs whenever Emacs is back in its command loop.
FairTimers == SF_vars(PromptSecret) /\ SF_vars(\E d \in dismissals : Dismiss(d))
FairThreads == WF_vars(ReaderStep) /\ WF_vars(CommandStep) /\ SF_vars(told /\ Drain)

Spec == Init /\ [][Next]_vars
FairSpec == Spec /\ FairThreads /\ FairTimers

-----------------------------------------------------------------------------
(* Properties *)

\* A character typed while the child reads with echo off is never put in the
\* buffer, however silently the child turned echo off and whatever the reader
\* stored meanwhile: Session::sample_mode answers with what it read itself.
NoLeak == epc = "insert" /\ hushed => ~MayOwn

\* Lisp is about to look at the cache, or at what a sample of its own read.
OnItsWay == told \/ rpc = "announce" \/ epc = "adopt"

\* Where an answer can go astray.  Lisp compares an epoch that moves when it hears of
\* a change, so a child that stops asking can still be sent what was typed, until a
\* sample has stored its new mode in the cache and Lisp has drained; never after, and
\* never once the session is over, whatever prompts are nested or being dismissed.
SecretForAsker ==
  \A i \in DOMAIN reads : Sends(reads[i]) =>
    /\ session
    /\ cache = tty /\ ~OnItsWay /\ ~unsaid => tty = "secret"

\* ...and that ends: a prompt does not outlast a child that goes on to something else.
Withdrawn ==
  session /\ tty \in {"cooked", "raw"} /\ (\E i \in DOMAIN reads : Sends(reads[i]))
    ~> \/ \A i \in DOMAIN reads : ~Sends(reads[i])
       \/ tty \in {"secret", "gone"} \/ unsaid \/ ~session

\* A question that still stands keeps its prompt: nothing on the way, the user's
\* leaving and coming back least of all, makes the minibuffer on screen refuse
\* its answer.  This is what cooked--resume-secret tests before it asks again.
PromptKept ==
  \A i \in DOMAIN reads : reads[i].stands /\ reads[i].via = "minibuffer" => reads[i].current

\* One question, one prompt: none is pending while one that would be sent is up.
OnePrompt ==
  /\ timer => \A i \in DOMAIN reads : ~reads[i].current
  /\ \A i, j \in DOMAIN reads : reads[i].current /\ reads[j].current => i = j

\* Lisp hears of every change: where it disagrees with the cache an announcement
\* is made or about to be, or Emacs is in the middle of a sample.  `unsaid` is
\* the exception: the reader's late store put an older sample back in silence.
Heard ==
  session /\ ~unsaid /\ mode # cache => OnItsWay

\* A child that goes on asking is answered for: with the user here, the prompt
\* comes up, short of MaxReads dead prompts stacked on screen.
Prompted ==
  session /\ mode = "secret" /\ ~asked
    ~> asked \/ mode # "secret" \/ attention = "away" \/ ~session
         \/ Len(reads) = MaxReads

\* A prompt never comes up over another buffer than the one being looked at.
RaisedInView == [][Len(reads') > Len(reads) => attention = "here"]_vars

=============================================================================

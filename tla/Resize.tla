------------------------------- MODULE Resize -------------------------------
(***************************************************************************)
(* The terminal's size, which three parties set: Emacs through             *)
(* Session::resize, the reader retrying what Emacs asked until the tty     *)
(* reads back with it (src/session.rs), and the child, which sets the size *)
(* it was spawned with between fork and exec and may set its own later     *)
(* (src/pty.rs).                                                           *)
(***************************************************************************)
EXTENDS Naturals, FiniteSets

CONSTANTS
  Sizes,      \* the sizes asked for: cells, and a cell in pixels
  Initial,    \* the size the session is spawned with, pixels unreported
  MaxPixel,   \* the largest pixel count a winsize holds, 2^16 - 1
  MaxResizes, \* bound on the window's changes
  MaxOwn      \* bound on the sizes the child sets for itself

Winsize == [rows : Nat \ {0}, cols : Nat \ {0}, width : Nat, height : Nat]

(* cooked--spawn and cooked--resize ask for a row and a column at least;   *)
(* the session is spawned with no more than those (CellMetrics::default()).*)
ASSUME SizesAssumption ==
  /\ MaxPixel \in Nat /\ MaxResizes \in Nat /\ MaxOwn \in Nat
  /\ Sizes \subseteq Winsize
  /\ Initial \in Winsize /\ Initial.width = 0 /\ Initial.height = 0

VARIABLES
  answers,  \* what the master says to a size: "no" (ENOTTY), "yes", "refused"
  started,  \* "forked", "opened" its slave, "running" its program
  tty,      \* the kernel's winsize: cells and the text area in pixels
  pending,  \* Shared.pending_resize, None when there is nothing to retry
  lisp,     \* Emacs: "idle", or "set" with the master's size still to set
  reader,   \* the reader's tick: "idle", or "set" after a size that did not match
  asked,    \* history: the size Emacs asked for last, None before the first
  own,      \* history: the child has set a size of its own since
  early,    \* history: the size matched before the child had set its first
  resizes, owns  \* how often each happened
sizeVars == <<answers, started, tty, pending, lisp, reader, asked, own, early, resizes, owns>>

None == [rows |-> 0, cols |-> 0, width |-> 0, height |-> 0]
Saturated(n) == IF n > MaxPixel THEN MaxPixel ELSE n

(* libc::winsize::from, and Pty::winsize reading it back.                  *)
ToKernel(s) == [rows |-> s.rows, cols |-> s.cols,
                across |-> Saturated(s.cols * s.width), down |-> Saturated(s.rows * s.height)]
AtLeastOne(n) == IF n = 0 THEN 1 ELSE n

(* Broken: the width of a cell is taken from the height.                   *)
FromKernelSwapped(k) ==
  [rows |-> k.rows, cols |-> k.cols,
   width |-> k.across \div AtLeastOne(k.rows), height |-> k.down \div AtLeastOne(k.cols)]

(* Pty::winsize and Size::from: pixels back to a cell's, rounded down.     *)
FromKernel(k) ==
  [rows |-> k.rows, cols |-> k.cols,
   width |-> k.across \div AtLeastOne(k.cols), height |-> k.down \div AtLeastOne(k.rows)]

SizeInit ==
  /\ answers \in {"no", "yes"} /\ started = "forked" /\ tty = ToKernel(None)
  /\ pending = None /\ lisp = "idle" /\ reader = "idle"
  /\ asked = None /\ own = FALSE /\ early = FALSE /\ resizes = 0 /\ owns = 0

(* Set a size on the master: nothing changes while it answers ENOTTY.      *)
SetMaster(s) == tty' = IF answers = "yes" THEN ToKernel(s) ELSE tty

(* Session::resize, up to the ioctl it makes outside the lock; the reader  *)
(* holds that lock for the whole of a tick.                                *)
Ask(s) ==
  /\ lisp = "idle" /\ reader = "idle" /\ resizes < MaxResizes
  /\ pending' = s /\ asked' = s /\ own' = FALSE /\ early' = FALSE
  /\ lisp' = "set" /\ resizes' = resizes + 1
  /\ UNCHANGED <<answers, started, tty, reader, owns>>
AskMaster ==
  /\ lisp = "set"
  /\ SetMaster(asked) /\ lisp' = "idle"
  /\ UNCHANGED <<answers, started, pending, reader, asked, own, early, resizes, owns>>

(* apply_pending_resize: read the size back, then set it where it differs, *)
(* giving up only on an error that will not pass.                          *)
Matches == answers = "yes" /\ FromKernel(tty) = pending
ReadBack ==
  /\ reader = "idle" /\ pending # None
  /\ pending' = IF Matches THEN None ELSE pending
  /\ reader' = IF Matches THEN "idle" ELSE "set"
  /\ early' = (early \/ (Matches /\ started # "running"))
  /\ UNCHANGED <<answers, started, tty, lisp, asked, own, resizes, owns>>
(* Broken: a terminal nobody has opened yet is given up on.                *)
GivesUpOnAny == answers # "yes"
GivesUp == answers = "refused"
Retry ==
  /\ reader = "set"
  /\ SetMaster(pending)
  /\ pending' = IF GivesUp THEN None ELSE pending
  /\ reader' = "idle"
  /\ UNCHANGED <<answers, started, lisp, asked, own, early, resizes, owns>>

(* child_exec: open the slave, after which the master answers; set the     *)
(* size the session was spawned with; run the program.                     *)
OpenSlave ==
  /\ started = "forked" /\ started' = "opened" /\ answers' = "yes"
  /\ UNCHANGED <<tty, pending, lisp, reader, asked, own, early, resizes, owns>>
SetInitial ==
  /\ started = "opened" /\ started' = "running" /\ tty' = ToKernel(Initial)
  /\ UNCHANGED <<answers, pending, lisp, reader, asked, own, early, resizes, owns>>

(* The program sets a size; the terminal breaks for good.                  *)
SetOwn(s) ==
  /\ started = "running" /\ answers = "yes" /\ owns < MaxOwn
  /\ tty' = ToKernel(s) /\ own' = TRUE /\ owns' = owns + 1
  /\ UNCHANGED <<answers, started, pending, lisp, reader, asked, early, resizes>>
Break ==
  /\ started = "running" /\ answers = "yes" /\ answers' = "refused"
  /\ UNCHANGED <<started, tty, pending, lisp, reader, asked, own, early, resizes, owns>>

SizeNext ==
  \/ \E s \in Sizes : Ask(s) \/ SetOwn(s)
  \/ AskMaster \/ ReadBack \/ Retry \/ OpenSlave \/ SetInitial \/ Break
SizeSpec == SizeInit /\ [][SizeNext]_sizeVars

(* The child runs, the reader ticks, and Emacs finishes the call it is in. *)
SizeFairness == WF_sizeVars(OpenSlave) /\ WF_sizeVars(SetInitial) /\ WF_sizeVars(AskMaster)
                /\ WF_sizeVars(ReadBack) /\ WF_sizeVars(Retry)
FairSizeSpec == SizeSpec /\ SizeFairness

----------------------------------------------------------------------------
SizesOK ==
  /\ answers \in {"no", "yes", "refused"} /\ started \in {"forked", "opened", "running"}
  /\ {pending, asked} \subseteq Sizes \cup {None}
  /\ {lisp, reader} \subseteq {"idle", "set"} /\ {own, early} \subseteq BOOLEAN
  /\ resizes \in 0..MaxResizes /\ owns \in 0..MaxOwn

(* "Keep asking until the child agrees": once the child has started and    *)
(* there is nothing left to retry, the terminal has the size Emacs asked   *)
(* for, or one the program set later.                                      *)
Settled == started = "running" /\ asked # None /\ pending = None /\ lisp = "idle"
ResizeReaches == Settled /\ answers = "yes" => tty = ToKernel(asked) \/ own

(* What the code does: the above, or the size the session was spawned with *)
(* where the reader saw a match, and stopped, before the child had set that*)
(* one.  Nothing else is ever left standing, an earlier resize least of all.*)
ResizeKept ==
  Settled /\ answers = "yes" =>
    \/ tty = ToKernel(asked)
    \/ own
    \/ early /\ tty = ToKernel(Initial)

(* The text area, in pixels, is within what a winsize holds.               *)
Fits(s) == s.cols * s.width <= MaxPixel /\ s.rows * s.height <= MaxPixel
RetriesFitting == pending # None /\ Fits(pending)

(* Retrying a size that fits ends: it reads back, setting it fails, or     *)
(* Emacs asks for another.  One that does not fit never reads back and is  *)
(* set again on every tick; the terminal is left at it all the same.       *)
RetriesEnd ==
  /\ RetriesFitting ~> ~RetriesFitting
  /\ <>[](pending = None \/ tty = ToKernel(pending))

(* The comment in apply_pending_resize: no size is asked for again on every*)
(* poll for the rest of the session.                                       *)
RetriesEndRegardless == pending # None ~> pending = None
=============================================================================

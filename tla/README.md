# A TLA+ model of cooked

`cooked` is a terminal emulator for Emacs. A Rust dynamic module runs the child on a pty, reads it
on a thread of its own and keeps the screen; Emacs is told by a byte on a pipe that there is
something to draw, drains what changed and edits a buffer to match. What is hard about it is that
seam: two threads, one lock, two atomics and a pipe on one side, and on the other a single-threaded
Lisp machine whose handlers nest (timers and process filters run inside a minibuffer read).

This directory holds the TLA+ modules that model it, the TLC configurations that check them on small
instances, and the TLAPS proofs of their main invariants for every value of the constants.

## The system and its parts

| part | state | operations | where |
| --- | --- | --- | --- |
| wake-up protocol | `dirty`, `notified`, the wake pipe, `Shared.shutdown`, `Shared.exited`, the self-pipe of `Interrupt` | `read_loop`, `finish`, `flush`, `notify`, `announce`, `fed`, `drain`, `ready`, `shutdown` | `session.rs`, `cooked-render.el`, `cooked-process.el` |
| redisplay pacing | `NotifyState`: `sync_until`, `last`, `last_read`, `ceiling_at`, `held_since`, the two intervals | `hold`, `flush`, `set_sync`, `fed`, `announce`, `poll_wait`, `set_pacing` | `session.rs` |
| mode and ownership | the tty's termios, `Shared.mode`, `cooked--mode`, `cooked--attention` | `sample_mode` (twice: the reader's and Emacs'), `cooked--set-mode`, `cooked--guard-insertion`, `cooked--update-attention` | `session.rs`, `pty.rs`, `cooked-mode.el` |
| password prompt | `cooked--secret-timer`, `cooked--secret-read`, `cooked--secret-epoch` | schedule, cancel, prompt, resume, dismiss | `cooked-secret.el` |
| teardown and reaping | `reaped`, `reap_lock`, `Shared.exited`, the child's pid, the foreground job | `signal`, `reap`, `waitpid`, `shutdown`, `Drop` | `session.rs`, `pty.rs` |
| resize | `pending_resize`, the tty's window size | `resize`, `apply_pending_resize`, `child_exec` | `session.rs`, `pty.rs` |
| writes | none between calls | `Pty::write` | `pty.rs`, `session.rs` |
| grid and its seam | `Screen`: rows, cursor, region, `carried`; `State`: `pending_scrollback`, `prompt_start`, `on_alt`; `cooked--grid`, `cooked--screen-start`, the buffer above it | feed, `archive`, `resize`, `drain`, `cooked--apply`, trim, clear, delete | `emu/screen.rs`, `emu/term/state.rs`, `cooked-render.el`, `cooked-scrollback.el` |
| cells and printing | a row's cells and its `Extras`, the pen, the cluster under way, damage | `print`, `print_str`, `join`, ICH, DCH, erase, `runs` | `emu/cell.rs`, `emu/text.rs`, `emu/screen.rs`, `emu/term/perform.rs` |
| parser | state, parameters, intermediates, string buffers, `partial_utf8` | `advance` | `emu/parser/` |
| kitty graphics | the chunked transmission under way, the client's names | `feed`, `bind`, `forget` | `emu/kitty.rs` |
| images | `ImageStore`, `pending_images`, placements; `cooked--image-data`, `cooked--image-order` | intern, place, shed, evict, drain; install, evict, release, forget | `emu/image.rs`, `emu/term/graphics.rs`, `emu/term/state.rs`, `cooked-deco.el` |
| intern ledger | hash buckets, an intrusive recency list | `insert`, `find`, `touch`, `remove`, `evict_oldest` | `emu/intern.rs`, `emu/link.rs` |
| Lisp front end | the buffer, its text properties, keymaps, completion | render, keys, mouse, OSC, commands | `lisp/` |

They interact so. The reader thread polls the pty and its interrupt pipe, feeds bytes into `Term`
under the term lock, marks the notifier dirty and retries `flush` on every turn of its loop. `flush`
decides by the pacing deadlines whether the moment has come, and writes one byte. Emacs' process
filter reads it and drains: `acknowledge`, then everything an update holds under one term lock, the
mode and the exit status among it. Lisp applies the update, and `ready` at its end flushes once more
and interrupts the reader's poll if something stays pending. The mode in the update drives the
keymap and the password prompt, and Lisp asks the tty itself before it edits a line the child might
be reading with echo off. `shutdown` raises the interrupt, closes the wake pipe and joins the reader.

What makes each part correct:

* *Wake-up*: undrained output is never left without someone to announce it; a claimed byte is a byte
  somebody will serve; the exit reaches Emacs, after the output it ends; teardown returns.
* *Pacing*: a frame is held for a bounded time, however the child writes; the reader wakes when
  something falls due.
* *Mode and prompt*: no key goes to the buffer under a stale mode; once Lisp has heard that the child
  stopped asking nothing typed for it is sent any more, and it does hear; a question that stands is
  asked, once.
* *Teardown*: signals only to a child not yet reaped; no status lost; nothing survives the session.
* *Resize*: no size asked for earlier comes back once a later one is settled, and retrying stops for
  every size the kernel can hold. (That the last one asked for is always the one the child ends up with,
  and that retrying always stops, are not so: see the other disagreements.)
* *Grid and seam*: scrollback and screen are, line for line, what the child printed, whatever sizes
  the window goes through; both ends agree on how much of the line at the seam Emacs has; nothing is
  shown twice; clearing never cuts into the prompt.
* *Cells*: what is attached to a cell stays with it; a fast path does what the slow one does; a row
  that changed is reported.
* *Parser*: where the reads cut the child's output shows in nothing; a sequence too long is dropped
  whole.
* *Images and links*: an image is tracked exactly while Emacs has its bytes; a transmission that ends is
  answered; the recency list is the table in order of use.

The hard behaviours are in `PROJECT.json` under `hazards`, each at its line.

## The modules

### Wakeup: who tells Emacs, and who answers

One step per atomic access or lock section, for two threads. `pc[Reader]` walks `read_loop`
(`top`, `poll`, `sample`, `tick`, `ready`, `read`, `fed`, `resample`) and `finish` (`reap`, `ack`,
`gone`); `pc[Emacs]` is `idle` in the command loop, `ack`/`take`/`look` inside `Session::drain`,
`apply` in `cooked--apply`, `rearm` in the tail of `ready`, `kill`..`dead` in `Session::shutdown`.
Both threads run `flush` (`claimed`, `dirty`, `policy`, `clear`, `swap`, `write`), with `ret` the
label they go back to. `term` keeps of the emulator what the protocol can tell apart: nothing to
drain, something, or a backlog at its limit, which makes the reader leave bytes in the pty. The
lock on `Term` is held from `take` to `look`, because `drain` builds its `Update` in one expression.

Left out: what is in an update; whether a flush is held is a free choice (`Hold`/`Release`), decided
in Pacing; `poll` cut short by a signal, where the code re-tests its condition and polls again; an
update whose application signals (the hazard list has it); the signals of teardown (Teardown).

`Thaw` has the two ways a freeze is lifted: a change of the buffer's state drains there and then, the
user's leaving from a zero-delay timer (`timer`, `CatchUp`), before which the buffer may freeze again or the
session end. `poll` may return at any moment, since no poll is without a timeout and the longest is a
second; so an interrupt that is lost costs a tick here as in the code, and no property of Wakeup or Teardown
would tell. That the reader is woken in time for what falls due is Pacing's `NoOversleep`.

`headless` is chosen once: a session fed to `cooked-process` has no freeze, never calls `ready`, and
drains a residue before it reports its exit.

### Pacing: when a flush is due

The deadlines are kept as the time left to them, `None` when unset, and `Clock` counts them down; the
threads' own steps take no time, and time passes only while the reader polls or naps. `Due` is the
test in `flush`; `PollWait` is `poll_wait`, `PollSleep` its rounding to the resolution of poll.
`interval` stands for both tunables, which Lisp sets together. `announced`, `retuned` and `waiting`
are history: whether what is pending came from `announce`, whether the interval was changed under a
sleeping reader (nothing wakes it), and how long something has been pending.

Left out: the shorter ticks that attention and interaction ask for (poll may return early at any
moment, which covers them), and the emulator's own expiry of a synchronized update beyond its
deadline being in the past.

### Mode: whose keyboard it is, and the password prompt

`tty` is the child's line discipline as `Mode::from` sees it; the reader samples it in three steps
(`Sample`, `Compare`, `Store`) and Emacs in two (`ReadTty`, `StoreMode`), into one `cache`. A run of
Lisp with no native call in it is one step. A password read is a recursive edit, so `reads` is a
stack, and every Lisp action may happen while it is not empty. The epoch is kept as what comparing it
says: a read is `current` until something bumps the counter. `stands` is history, for `PromptKept`: as far
as Lisp has heard, the child still asks what that read asked. `dismissals` holds the minibuffers a zero-delay timer is about to dismiss;
`PromptSecret` waits for it to be empty, because such a timer is due before any debounce timer.

An answer can go astray, and the model has the steps for it. Lisp does not look at the terminal before it
sends: it compares an epoch that moves when it hears of a change. So a child that turns echo back on is
still sent what was being typed until a sample has stored the new mode and Lisp has drained, and a child
that stops asking and asks again between two samples is sent the answer to the first question.
`SecretForAsker` draws that line in terms of `tty`, the child's own mode: a prompt that would be answered is
of a live session, and once the cache has the child's mode and nothing is on its way to Lisp, the child is
reading with echo off. `Withdrawn` says the time before that ends. Both except `unsaid`, the reader's late
store of a sample older than the cache's, which announces nothing (`Heard` is about it): a prompt it leaves
behind stays until the next drain.

Left out: the keymap (derived from `mode`), the alternate screen and the OSC 133 marks (free, in
`MayOwn`), an update whose application signals.

### Screen, Seam and Transcript: where a row is

`Screen` is the grid as operators on a record, one per method of `Screen`, `Row` and `Logical`: an
operation that can push rows off the top returns the screen after it and the rows that left, and
`carried` counts the rows of the top line that Emacs already has. `Seam` is its state machine.
The child's actions are what `Term::feed` does for one character or sequence, with `Show` for
`State::archive`; Emacs' are `Resize`, `Drain` and `Apply`, kept apart because the reader may feed
between the two, and the commands that delete from the transcript. `lines` is the buffer down to
`cooked--screen-start`, `head` Emacs' copy of the emulator's count. `Apply` is the whole of
`cooked--apply` as far as these go: the batch inserted, the `CSI 3 J` event, `cooked--split-seam`,
what `cooked--check-seam` compares (kept in `checked`), the narrowing, the trim. `session` chooses once
what the child and the user ever do.

`Transcript` is what they promise: a character is put at the end of the last line, or a line is
opened, and nothing else ever happens. `Seam` implements it under the mapping `Told`: the buffer, the
batch on its way, the backlog and the rows in use, joined as `Apply` joins them. Every drain and
eviction is a stutter, and so is a resize, but for one that hands Emacs the whole of the line the cursor
is on: that line is ended, as `Screen::reflow` does. The mapping drops blanks, because where a line's trailing blanks go is
layout; how many there are at the seam is what `CheckSeam` counts. With `cooked-rejoin-wrapped-lines`
off a line is not to be told from its rows any more, and the mapping makes one line of all the text.

Left out: wide and combining characters, pens (and so `bce`), insert mode and what is attached to cells
(Line has them, on one row), tab stops and the saved cursor, the alternate grid's contents (only the
switch is kept). `cooked-delete-output` is modelled for output that starts and ends with a buffer line.

### Row, Runs, Printing and Line: what a cell carries

`Row` is one row of `cell.rs` as operators on a record: the cells, and the side table of marks, links,
underline colours and pictures by column. `Runs` is `Row::runs_to`: `PlainRuns` and `BuiltRuns` are its
two paths, `RunsReference` the per-cell statement. `Printing` is the segmenter of `text.rs`, the
writers of `screen.rs` and the batched and single paths of `perform.rs` on a terminal of one row, where
an autowrapped character starts the row anew. A character stands for its class: ASCII, CJK, emoji,
regional indicator, box glyph, combining mark, joiner, the two selectors. `Line` is the state machine: a
session prints its texts and uses its operations, and drains. Each session has its own repertoire, so
that attachments meet insertion, clusters meet wide cells, and damage meets everything that edits.

Left out: the Unicode tables behind the classes, colours (a style is a number), and the rows above and
below (Screen); with them the mark that a row wraps, which is never set on the one row of Line, so that the
branches on it in `Row` and `Line` are there but not exercised.

### Parser and Stream: where a read ends

`Parser` has one operator per function of `parser/mod.rs`, on a parser record; a byte is one of twenty
representatives, one or two to each range the state machine tells apart. The bulk paths are there,
because they are where a cut could show: text up to the next ESC, string payloads, the character a read
has torn. `Stream` writes bytes, reads them in chunks that end anywhere, and feeds the same bytes one at a
time to a second parser, `each`, whose text is decoded by `GroundByte` without any buffer to tear.
`advance_until_terminated` has no caller in the program and is left out.

### Kitty and Pictures: who holds a picture

`Kitty` is `Kitty::feed` as an operator: a command whose control data has been parsed in, an outcome, an
answer and the new state out. `Pictures` is the life of a picture through `ImageStore`, `State` and
`cooked-deco.el`: transmitted or drawn inline (Sixel, OSC 1337), interned by what it holds, placed, drawn
over, scrolled away, shed at a drain, sent, installed by Emacs, shown, dropped by Emacs' cap or with the
scrollback it stood in, forgotten by the module. `Drain` and `Apply` are apart: the child may go on
between them, and name a picture Emacs is about to drop. Emacs itself does nothing else in between.
`lagging` holds the ids whose specs the collector has yet to take, which count as displayed.

Kitty's formats are two, PNG and not, since an empty payload is refused in the one case only. Left out: cell
geometry (a picture takes one slot), decoding (a payload decodes or is `Garbled`), sizes
(the cap counts pictures), the 32 bits of an id.

### Ledger and Lru: what is given up first

`Ledger` is `intern.rs` as it is written: buckets, and a list threaded through the entries by id, whose
`unlink` and `link_newest` have the cases of an intrusive list. `used` and `clock` are history. `Lru`
has no list: it keeps when a thing was last used and gives up a least recent one. `LeastRecentlyUsed`
is that the ledger implements it.

### Resize: the size the child ends up with

Three parties set the tty's size: Emacs through `Session::resize`, the reader retrying `pending_resize`
on its tick, and the child, which sets the size it was spawned with between fork and exec, and may set
its own later. `answers` is what the master says before the child has opened its slave (it may answer
already or not), and after; `FromKernel` and `ToKernel` are the conversions, saturation included.

### Teardown: the end of the child

One step per system call or lock section, for Emacs' thread and the reader's, on one child with perhaps
a job in the foreground. `traps` chooses who survives a hangup. `then` is where a call returns to.
`Reuse` gives the child's process id to somebody else once it is reaped, and `stray` remembers a signal
sent there. The user may send signals, a pipe may break, and the terminal may hang up at any time.

### MCTerminal and MCChild: side by side

The properties of Stream, Line, Pictures and Ledger are each about its own state, so `MCTerminal` composes
them as alternatives: `part` says which one works in a behaviour, the others stay as they start. One run
then checks them all, and each property speaks of its part. What happens between them is not checked.
`MCChild` does the same with Resize and Teardown. The parts with theorems (Ledger, Pictures, Stream, Resize,
Teardown) are extended rather than instantiated, so that the properties checked are the very definitions
the theorems state; `SideBySide` proves that MCChild's behaviours are those of its parts.

## The runs

| run | configuration | checks | shows |
| --- | --- | --- | --- |
| `wakeup` | `PollErrors = TRUE`, fair | five invariants, four liveness properties | no lost wakeup, honest claims, exits reported after all output, draws, teardown returns |
| `wakeup_unreaped` | `PollErrors = FALSE`, fair | `DrawnRegardless`, violated | a frame held when the reader leaves an unreaped child is never drawn |
| `pacing` | times 2, 3, 4, 5 half-milliseconds | four invariants | hold bounded, no oversleep, no stale deadline |
| `mode` | two reads deep, no password function, fair | two invariants, two liveness properties | no key leaks, a change is heard, every question is asked, a prompt does not outlast it |
| `mode_password_function` | two reads deep, with one | two invariants | once its mode is heard only a child that asks is answered, no prompt displaced, also where a function waits before the minibuffer |
| `mode_away` | two reads deep | `RaisedInView`, violated | leaving within the debounce |
| `seam` | six kinds of session | three invariants, two action properties, one of them a refinement | the seam agreed on, rewraps undone, nothing twice, a resize loses nothing, the abstract transcript implemented |
| `seam_trimmed` | four sizes, a cap of one line | `CheckSeam`, violated | a trim makes the emulator forget a head the buffer holds |
| `terminal` | the emulator's parts side by side | seven invariants, two action properties, a refinement | cuts do not show, attachments ride, fast paths agree, damage is reported, pictures agree, the ledger is an LRU store |
| `stream_split` | `a`, C2 and A9 in reads of four bytes | `EveryCharacterPrinted`, violated | a torn character swallows the one behind it |
| `picture_hole` | a cap of one picture | `NoHole`, violated | a picture placed again in the drain that evicts it |
| `child` | size and end side by side, fair | four invariants, two liveness properties | sizes settle, retries end where the size fits, signals are timely, statuses kept, nothing survives |

`InRange` is the type invariant of the parts of `terminal`, with the ledger's buckets and threading.
`PrintedSeam` is `CheckSeam` for the sessions it holds of (see the other disagreements below).

Bounds. Wakeup has none: its state is finite. Pacing's times are scaled so that their order is that
of the code: quiescence (2) below the resolution of poll (3), not above the interval (3 or 4), not
above the two 150 ms timeouts (4), below `POLL_TIMEOUT_MS` (5); each hold expires before, at and
after each other one. Its theorems hold for all values. Mode bounds the reads on the stack by
`MaxReads = 2`: a current read under which one goes stale, and a stale one over a current one, both
occur; a third adds no pair the properties speak of.

Seam bounds what the child prints by `MaxText`, or less in a session of its own, and the lines and rows
handed to Emacs by the session's `rows`; a row that joins an open line does not count, so a head of
several rows occurs, and the bound holds for that head too (blank rows that wrap could otherwise lengthen
it for ever). For the child that only prints, windows of one or two rows and two or three columns make
four characters enough for a line that wraps twice, straddles the seam, is completed by a fragment at the
other width, and ends inside that fragment, with both settings of rejoining. In a window of three rows
three characters, spaces among them, are enough for a wrapped line above the cursor that ends in a row of
blanks, the one layout a rewrap does not bring back (`TailsDrawn`). The other four sessions
share out the operations, because together they are too many: one edits the screen and is resized, one
scrolls inside margins, one divides the screen and is resized, one opens prompts, switches screens, and
has a user who clears and deletes. A window of three rows by one column is the smallest with a region
that is not the whole screen (DECSTBM refuses one row) and rows between the seam and the cursor; two by
two is the other. Two characters are enough to be duplicated, lost or put out of order. A pair of
operations from different sessions is not checked.

`terminal` scales the code's limits down so that they are all reached: `MaxIntermediates = 1`,
`MaxParams = 3` (a full table with a subparameter in it, and one too many), `MaxOscParams = 2`,
`MaxRaw = 3` below `MaxBody = 4`, so that strings outgrow their buffers, `MaxValue = 5` so that a
parameter saturates; reads of one to four bytes, four being more than the three a torn character
copies. A row has three or four columns, the smallest with a wide character and something on each side of it;
`MarksPerRow = 2` and `MaxCluster = 3` are exceeded by one; `MaxOps = 4` operations are enough to print,
move, change and drain. Pictures has two slots, `MaxTracked = 2` (three pictures overflow the table),
`MaxPayload = 2` chunks (a third is refused) and `MaxSteps = 6`. The ledger hands out four ids over two
hashes and counts seven uses: lists of four, every entry used again in any order, evictions in between.

`child` has three window sizes: one without pixels, and two of cells of 2 by 3 pixels. At `MaxPixel = 6`,
for the 65535 of the code, two rows and three columns of those just fit and three rows and two columns do not: their
height saturates and reads back as a smaller cell (`Fits`). `RetriesEnd` is that a size that fits stops
being retried, and that, whether it fits or not, the reader in the end leaves the terminal at the size it
is still retrying; with the other size it never stops, the first disagreement below. `ResizeKept` holds of both. Two resizes and one of the
child's own are enough for each to come between any two steps of the other. `MaxSignals = 2` user signals
besides those of teardown. The proofs hold for every bound.

Fairness. `FairThreads` is that the operating system runs both threads and that the term lock is
granted at last (strong fairness of the reader, who can be kept waiting while Emacs drains);
`FairPolicy` is that a flush retried forever is not held forever, which Pacing bounds for frames (so Wakeup's
own `BacklogDrains` would hold if the reader did not clear the synchronized update of a full backlog,
`session.rs:1276`: the frame would be held to its deadline and no longer), its
one exception being `HoldBounded`'s below, where the child has to keep writing; `FairLeaving` is what
`cooked-render.el` says of its own loop, that the flag of a drain asked for during a drain is set by a
freeze lifting, not by the drain. In Mode, `FairTimers` is that a due timer runs when Emacs is back in
its command loop, and `FairThreads` that the reader and a command in progress go on, and that an
announcement is drained (Wakeup). In Resize the child goes on to run its program, the reader ticks and
Emacs finishes the call it is in. In Teardown both threads run, a process that does not trap its signal
dies, and a grace is longer than that dying takes: the model lets a wait give up only when no signalled
process is on its way out (the reader's, which may have no patience at all, gives up on the child
whenever). Nothing else is asked of the user or the child.

## What is proved

`WakeupProofs` (for both values of `PollErrors`): `TypeOK`, `NoLostWakeup`, `ClaimHonest`, `ExitOwed`
and `ExitIsSnapshot` as `Spec => []...`. They need each other: that `dirty` may be cleared rests on the
thread that clears it being at `swap` next, and that a failed swap may be forgotten rests on the claim
being honest, so the two are proved of one inductive invariant.

`PacingProofs` (for every value of the times that `TimesAssumption` allows): `TypeOK`,
`FrameHoldBounded`, `SyncNotStale` and `NoOversleep`. `FrameHoldBounded` is not inductive; its
strengthening says that a waiting frame always has its backstop armed, that the time waited plus the
time left on the backstop fits the ceiling, and that once the backstop has run out only one
synchronized update can still hold it (`CountFits`), which in turn needs that a flush which left a
frame behind left it something to wait for (`FlushMissed`). `NoOversleep` follows from a bound on the
reader's sleep by what it waits for (`SleepFits`).

`TerminalProofs`, of the ledger (for any set of hashes and any number of ids and uses): `TypeOK`, `Filed`, `Threaded`, and
that the ledger implements `Lru`. The list operations are reasoned about as functions of a set of
entries, times of use and a list: `Chain` says that each entry's neighbours are its nearest in time, and
one lemma each shows that unlinking any entry and pushing one used later than all keep it. `Threaded`,
which says the same as an equivalence, follows, and so does that the oldest end is a least recent entry,
which is what the step of an eviction needs to be a step of `Lru`.

`ChildProofs`, of the end of a session (for any number of signals): `TypeOK`, `NoStraySignal`,
`StatusKept`, `NothingSurvives`. The argument is the discipline of the lock: a thread between a check of the child and what it does about
it holds `reap_lock` (`Locked`); the flag and the kernel agree except between a reap and its record
(`Agreed`); and a status collected is on its way to `exited` in the thread that collected it. `Drop` runs
only once both threads have let go, so it needs no lock, and its second signal is one nobody survives.

`ModeProofs` (for any depth of nested reads and either kind of asking): `NoLeak`, `Heard`,
`SecretForAsker`, `PromptKept`, and `OnePrompt`, which no run lists. There are two invariants. What Lisp knows of the mode
(`KnowsMode`): a command that began with echo off runs with that known, its own sample having read it or
being still to (`Hushed`), and what a sample is about to adopt is the cache or is announced
(`SampleTold`). Where answers go (`Asking`): a read
that would be sent is the innermost one, with no other prompt on its way (`CurrentInnermost`), of a live
session and a child last heard of as asking (`CurrentHeard`), since no timer or command outlives the session
(`WhileAlive`); a standing question in the minibuffer is the one on record (`StandingOnRecord`), which is
what keeps `cooked--resume-secret` from asking twice. `SecretForAsker` needs both: the second says that Lisp
believes the child to be asking, the first (`Heard`) that what Lisp believes is the cache, and so the
child's own mode, unless word is on its way.

`ChildProofs`, of its window (for any set of sizes and any number of resizes): `ResizeKept`. The reader retries
only what Emacs asked for last (`RetriesTheLast`); it stops because the size matched, before the child
set its own first size or after (`MatchedLate`); once the child runs only two parties can have set the
size (`SetByTwo`). So a settled terminal has the size asked for last, as the kernel holds it, or one a
program set since, or, after a match that came too early, the one the child was spawned with; an earlier
resize never comes back. That the session is spawned without pixels, so that its size survives the conversion
both ways, is an assumption the code justifies (`cooked--spawn` hands over `CellMetrics::default()`), and so
is that a window has a row and a column (`lib.rs` clamps it). `ReadsBackIffFits`: a size reads back as it
was asked exactly if its pixel totals fit, for every size and limit; dividing undoes multiplying
(`DivUndoesTimes`), and a total cut down to the limit gives a smaller cell (`DivOfLess`). It is the
condition under which `RetriesEnd` says that retrying stops.

`TerminalProofs`, of pictures (for any number of slots, pictures and steps): `PicturesAgree` and `AnswersOwed`. The
invariant speaks of the two sides at once: the store names each picture once; an id is given once, to
one content, below the next (`GivenOnce`); a tracked id is one Emacs has the bytes of, or has taken, or is
queued; the client's names are of tracked pictures (`Sound`); what Emacs shows it has the bytes of
(`EmacsOK`); and in a session that drops nothing all that is on its way can be drawn too
(`Undropped`). The assumption is that no payload is what Emacs draws for want of one.

`TerminalProofs`, of the parser (for any bytes, any chunks and any limits): `CutsInvisible`. The invariant
`InStep` says that the bytes not yet read lead, one at a time, from the parser the reader has to `each`;
a read is then compared with them turn by turn of the loop in `Parser::advance`. A turn *meets* its bytes
(`Meets`) if it ends as they end, or leaves a parser no next byte can tell from the one they leave: that is
what happens at a broken character, which the bulk scan has replaced already and the bytes have yet to. Each
of the three scans is walked a byte at a time: a run of DCS puts, a run stored of an APC string up to its
limit (`Stored`), and text. For text, `Decode` is the function of positions its definition chooses; what it
decodes from any position is what the bytes from there amount to (`DecodeWalk`), and what is left of it is
nothing, a character cut short or one broken (`GroundOutcomes`), for each of which the arm the code takes is
compared with the byte that comes next. That a turn takes at least a byte, so that a read is finished in as
many turns as it has bytes, is `OnceTurn`. The hypothesis that no read ended inside a character is the
code's own: `EveryCharacterPrinted` fails without it. What the proof does need of a read that did end so is
that it leaves a parser that can go on (`PartialTurn`).

`SeamProofs` (for windows of any sizes and both settings of rejoining): `PrintedSeam`. The line at the
seam is in four places, the buffer, the update Emacs is applying, the backlog and the emulator's count
of it. `Counted` says that with the batch and the backlog appended, the buffer's last line is
`carried * cols` long, and that the update says what the buffer will hold; where rows are not rejoined,
the buffer ends at the start of a line (`Rowwise`). An operation of the screen keeps that if it *tells*
(`Tells`): whatever rows it hands over, a buffer whose last line was as long as the count before has one as long
as the count after. Scrolling and a change of height hand over whole rows where rows wrap, and
`Screen::carry` counts those (`CarryMeasures`); a rewrap first tops the head up to whole rows of the new
width, or ends its line (`RealignFacts`), and then is like them. The assumption is that a window has a
row and a column, as `lib.rs` clamps it.

`TranscriptProofs` (under the same assumptions, for any text): `TranscriptKept`, that Seam implements
Transcript for a child that only prints in a buffer that is not trimmed. Rows are *read*: their
characters without blanks, and a mark where a line ends (nothing where rows are not rejoined), so that
the buffer, the batch, the backlog and the screen are one stream of ink (`Stream`), and what the user is
told is the lines of that stream (`ToldStream`). A drain and an application move rows between places
and leave the stream alone. The strengthening is that the screen is `Tidy`: nothing below the cursor or
to its right, and its row does not wrap, which is what makes printing an addition at the end
(`PlaceTidy`, `NewlineTidy`) and puts the cursor of a rewrap at the end of the last line again
(`LandingEnd`, `FitTidy`). That a rewrap reads as before takes one lemma each for gathering rows into
lines (`LogicalRead`), topping up the head (`RealignRead`), cutting at the new width (`RelaidRead`) and
rows leaving at the top (`CutRead`). So a step adds nothing, a character or the end of a line
(`NextKept`), which are the steps of Transcript.

`TextProofs` (for every session: windows of any sizes, any cap of the scrollback, a child that edits,
scrolls, sets margins and erases, a user that clears and deletes): `NoDuplicate` and `ResizeKeepsText`.
The text of a session is the characters of the screen, the backlog, the update under way and the buffer,
one after another (`AllText`). A text is *part* of another if each of its characters has a place of its
own there (`Part`). Every operation but printing leaves part of the text: rows that move, leave or are
overwritten keep their place or lose it (`RowsThin`, `Thins`), and a row of the screen, of the backlog, of
the update or of the buffer goes to the next of these whole (`ShowLoses`, `DrainLoses`, `AppendPoured`).
Printing puts in one character more, a fresh one (`PrintPrints`, `ShowPrints`). So nothing is there twice
as long as the next character has not been printed yet: the invariant (`TextInv`) is that the text has each
character at most once and each is one of the first `typed`, without which the character about to be
printed could already be there. It needs the types of the whole session (`SeamOK`, the theorem
`SessionShaped`), which no run lists: that margins stay within a screen and rows within its width whatever
is deleted and resized. `ResizeKeepsText` says more than parts can, that the text is the same and in the same
order: `RelaidRead` and `CutRead` of `TranscriptProofs` gave that for a cursor at the end of the text, and
here the cursor is anywhere, and what a rewrap drops is below the last row with anything on it
(`UsedBare`, `ReflowReads`). The assumptions are that a window has a row and a column and that the cap is a number.

`RoundTrip`, also there, of a child that only prints: a change of width that sends nothing to Emacs is
undone, every cell, wrap and the cursor, by changing back. `ResizeKeepsText` is about the characters and
cannot give it. The argument goes through lines. Above the cursor the rows of such a screen are lines cut
up at its width, ending where the cursor is (`Spread`, `Decompose`); there is one way to cut a line up
(`ChunkOnly`), and the cursor tells how long the last line is (`CursorMeasures`), so there is one screen of a
size that has given lines (`OneScreen`). A rewrap gathers those lines (`SpreadLines`), and if no row leaves,
the head in Emacs is whole rows at the new width and the new screen has the same lines (`RelaysWhole`); so
has the one that comes back, and it is the one there was (`RewrapUndone`). The strengthening is `TripInv`: the
screen is `Tidy`, and where a line runs on to the cursor's row it has something there (`Started`), because a
row is only wrapped for the character that needs the next, and a rewrap cuts off no row with nothing in it
(`PlaceStarts`, `LandingStarts`). Without `Started`, a full row that had wrapped too early would come back
as a full row with a wrap pending. `TailsDrawn` is a hypothesis of the property and not of the proof
alone: see `SeamLayout.cfg` below.

Recursion in the modules proved about is by functions (`AppendTo`, `Bare`, `Excluding`, `Decode`, `Advance`); induction
over them is over sets of naturals (`SetInduction`), which needs no operator parameter.

Only model-checked: the liveness properties (TLAPS has no rule for fairness and ENABLED here); `InRange`,
the bounds of the four parts' data; the properties of Line (`RidesItsCell`, `RunsFaithful`,
`DamageReported`, `BatchIsPerCharacter`), which compare the outcome of folds over a program's whole text,
and whose row operations pick cells with `SelectSeq`, which the prover does not expand; and
`SequencesWhole`, whose reference picks a sequence's fields apart by sorting and folding.

## Findings

1. `wakeup_unreaped`: the comment in `Notifier::flush` says a held frame stays dirty for the retry
   machinery to draw. When the child closes its terminal and lives on, `finish` returns without a
   notification and the machinery, the reader's tick, is gone.
2. `mode_away`: the prompt is not to be raised over another buffer; attention is tested when the
   debounce timer is set and not when it fires.
3. `seam_trimmed`: `cooked--check-seam` asserts that both ends agree on the head of the line at the
   seam. `cooked--trim-scrollback` cuts lines from the top and leaves that one, but goes through
   `cooked--discard-scrollback`, which makes the emulator forget it;
   `cooked--discard-scrollback-region` makes the distinction.
4. `stream_split`: `advance_partial_utf8` is to use the first character and ignore the rest, which will be
   parsed again. When what was copied is a whole character, more whole characters and the start of
   another, it reports all the whole ones as consumed and prints the first: `C2` then `A9 a C2` loses the
   `a`.
5. `picture_hole`: eviction is to cost a retransmission rather than a hole. The pass exempts what is
   displayed and what has just arrived, not a picture Emacs holds that this drain's rows place again.

### Other disagreements met

These are within reach of the modules and are not runs of the list.

* `PacingAnnounced.cfg` (MCPacing) violates `HoldBounded`. `HOLD_CEILING` promises one bound on how long
  anything holds the buffer. An announcement clears the deadlines, is withheld by the throttle, and
  output that draws nothing then holds it by quiescence alone.
* `SeamPrompt.cfg` (MCSeam) violates `PromptStays`. `prompt_start`'s comment knows two ways for row 0 to
  change its meaning. A rewrap is a third: the anchor keeps its row, the prompt moves, and
  `clear_to_prompt` cuts inside it.
* `SeamLayout.cfg` (MCSeam) violates `LayoutReturns`. `Screen::reflow`'s comment has it that "narrowing and
  widening back returns the original layout, because the wrap provenance is preserved"
  (`screen.rs:1206`). When the last row of a wrapped line is all blanks, `Logical::push_row` keeps none of
  it: the row above stays marked as wrapped only until the rewrap, the blank row is gone, and what is below
  it, the cursor too, has moved up when the window is wide or narrow again. `RoundTrip` is the same without
  such lines.
* `CheckSeam` fails of sessions that do more than print: `CSI 2 J` after a wrapped row with nothing below
  it hands over a row that leaves its line open and sets `carried` to 0, and so does `CSI 2 J` after the
  tail of a wrapped line was erased; `forget_history` zeroes the count for rows the reader archived after
  the drain Emacs is acting on.
* `ChildRetries.cfg` (MCChild) violates `RetriesEndRegardless`. An error of the ioctl is made to end the
  retries "rather than spinning an ioctl on every poll for the rest of the session"
  (`apply_pending_resize`), and that is what a size does whose pixel total is past 16 bits: `winsize` saturates it
  (`pty.rs:173`), it reads back as another size, and it is set again on every tick until the next resize. It
  takes a window of more than 65535 pixels, and what the terminal is left with is right.
* `Resize`'s `ResizeReaches` is `ResizeKept` without its last exception: the reader reads back the size
  Emacs asked for before the child has set the size it was spawned with, and stops retrying; the child's
  own set lands after it, and the program runs in a window of the size it was spawned with.
* `Teardown`'s `KillReaps` fails when a job that survives a hangup is in the foreground: both signals of
  `shutdown` go to the job, and the child is left for `Drop`.
* With a `cooked-password-function`, `Prompted` fails: a stale call of the function that falls back to the
  minibuffer records itself in `cooked--secret-read`; on coming back, `cooked--resume-secret` sees a prompt
  up and does not ask the new question, and when the stale prompt ends nothing raises it.

## Not modelled

* `Pty::write`: a loop of poll and write with a deadline and no state between calls. Whether a write after
  a successful poll blocks is the kernel's doing.
* What a sequence reports, sets or colours: DSR and its kin, SGR beyond a pen, titles, key and mouse
  modes, RIS. Each is an assignment to a field nothing else here reads.
* The alternate grid's contents, tab stops and the saved cursor.
* The ids of images and links wrapping at 32 bits, and the Unicode tables.
* Decoders (`png.rs`, `sixel.rs`, base64, zlib) and shapes (`glyph.rs`): functions over byte strings.
* `env.rs`, `error.rs` and most of `lib.rs`: the module's calling convention and the conversion of values.
* Rendering, keys, mouse, commands, completion, links and faces in Lisp: sequential functions of a
  buffer; an update whose application signals half way depends on them, so `Apply` completes here.
* The build, the shell integration, the terminal description, and the platform's shims.

------------------------------ MODULE Pictures ------------------------------
(***************************************************************************)
(* The life of a transmitted picture: the emulator names it by what it     *)
(* holds (src/emu/image.rs, src/emu/term/graphics.rs), sends its bytes to  *)
(* Emacs at the next drain unless nothing shows it any more                *)
(* (src/emu/term/state.rs), and Emacs keeps the only copy, dropping it by  *)
(* its own rules and saying so (lisp/cooked-deco.el).                      *)
(*                                                                         *)
(* A picture's bytes are its sequence of chunks.  The screen is a column   *)
(* of Slots, each the place of at most one picture; a scroll sends the top *)
(* one to the scrollback.                                                  *)
(***************************************************************************)
EXTENDS Kitty

CONSTANTS
  Slots,      \* pictures the screen has room for, one above the other
  MaxTracked, \* MAX_TRACKED_IMAGES
  MaxSteps,   \* bound on what the child and Emacs do
  Sessions    \* what each child transmits, and what its Emacs may drop

(* A picture's bytes, none of them what Emacs draws for want of any.       *)
Bytes == Seq(STRING \ {"hole"})

ASSUME PicturesAssumption ==
  /\ Slots \in Nat \ {0} /\ MaxTracked \in Nat \ {0} /\ MaxSteps \in Nat /\ MaxPayload \in Nat
  /\ \A s \in Sessions :
       /\ \A cmd \in s.commands : cmd.body \in Bytes
       /\ s.inline \subseteq Bytes /\ s.cap \in Nat

VARIABLES
  session,  \* [commands, inline, cap, drops, restarts]
  kitty,    \* the protocol's state
  store,    \* tracked pictures [id, content], least recently used first
  nextImage,\* the next id
  queue,    \* pending_images: bytes yet to cross
  grid,     \* the picture at each slot of the screen, 0 for none
  scrolled, \* pictures in pending_scrollback
  damage,   \* slots drawn since the last drain
  answers,  \* what the last command was answered
  batch,    \* the update Emacs has taken and not applied: bytes, drawn slots, lines
  data,     \* cooked--image-data, in cooked--image-order
  shown,    \* what Emacs shows in each slot: [id, content], content Hole if it had no bytes
  history,  \* what Emacs' scrollback shows
  lagging,  \* ids whose specs the collector has yet to take
  left      \* steps left
emulator == <<kitty, store, nextImage, queue, grid, scrolled, damage>>
emacs == <<batch, data, shown, history, lagging>>
pictureVars == <<session, emulator, answers, emacs, left>>

Hole == <<"hole">>
Nowhere == [id |-> 0, content |-> << >>]
Place == 1..Slots
Applied == [taken |-> FALSE, images |-> << >>, scrolled |-> {}, rows |-> << >>]
Ids(pictures) == {p.id : p \in ToSet(pictures)}
Excluding(pictures, ids) ==
  LET kept[n \in 0..Len(pictures)] ==
        IF n = 0 THEN << >>
        ELSE IF pictures[n].id \in ids THEN kept[n - 1] ELSE Append(kept[n - 1], pictures[n])
  IN  kept[Len(pictures)]

NewTerm == [kitty |-> NewKitty, store |-> << >>, next |-> 1, queue |-> << >>,
            grid |-> [s \in Place |-> 0], scrolled |-> {}, damage |-> {}]
Term == [kitty |-> kitty, store |-> store, next |-> nextImage, queue |-> queue,
         grid |-> grid, scrolled |-> scrolled, damage |-> damage]
TermBecomes(t) ==
  /\ kitty' = t.kitty /\ store' = t.store /\ nextImage' = t.next /\ queue' = t.queue
  /\ grid' = t.grid /\ scrolled' = t.scrolled /\ damage' = t.damage

ForgetImages(t, ids) ==
  [t EXCEPT !.store = Excluding(@, ids),
            !.kitty = Unname(@, {n \in DOMAIN @.named : @.named[n] \in ids})]

(* A picture is worth its bytes while a cell, a line on its way to Emacs   *)
(* or a client's name can still show it.                                   *)
Live(t) == BoundImages(t.kitty) \cup ToSet([s \in Place |-> t.grid[s]]) \cup t.scrolled

(* Broken: the bytes go, and the picture is still called known.            *)
ShedQuietly(t) == [t EXCEPT !.queue = SelectSeq(@, LAMBDA p: p.id \in Live(t))]

(* Bytes nothing can show any more are forgotten with their picture.       *)
Shed(t) ==
  LET shed == Ids(t.queue) \ Live(t) IN
  ForgetImages([t EXCEPT !.queue = Excluding(@, shed)], shed)

(* Take bytes in: known ones are refreshed, new ones get an id, retire     *)
(* what the count cap drops, and wait for the drain.                       *)
Retired(tracked) ==
  IF Len(tracked) <= MaxTracked THEN {} ELSE Ids(SubSeq(tracked, 1, Len(tracked) - MaxTracked))
Known(t, content) == {p \in ToSet(t.store) : p.content = content}
Intern(t, content) ==
  LET old == Known(t, content)
      p == IF old = {} THEN [id |-> t.next, content |-> content] ELSE CHOOSE o \in old : TRUE
      tracked == Append(Excluding(t.store, {p.id}), p)
      named == ForgetImages([t EXCEPT !.store = tracked], Retired(tracked))
      roomy == IF Len(t.queue) >= 2 THEN Shed(named) ELSE named IN
  [id |-> p.id,
   term |-> IF old # {} THEN named
            ELSE [roomy EXCEPT !.next = @ + 1, !.queue = Append(@, p)]]

(* A row of the picture where the cursor is, if the store can still        *)
(* describe it.                                                            *)
Lay(t, id, s) ==
  IF id \notin Ids(t.store) THEN t
  ELSE [t EXCEPT !.grid[s] = id, !.damage = @ \cup {s}]

Apc(t, cmd, s) ==
  LET fed == Feed(t.kitty, cmd)
      t1 == [t EXCEPT !.kitty = fed.kitty] IN
  CASE fed.outcome.does = "image" ->
         LET in == Intern(t1, fed.outcome.content)
             t2 == [in.term EXCEPT !.kitty = Bind(@, fed.outcome.name, in.id)] IN
         IF fed.outcome.display THEN Lay(t2, in.id, s) ELSE t2
    [] fed.outcome.does = "place" -> Lay(t1, fed.outcome.id, s)
    [] OTHER -> t1

Inline(t, content, s) == LET in == Intern(t, content) IN Lay(in.term, in.id, s)

ScrollUp(t) ==
  [t EXCEPT !.scrolled = @ \cup ({t.grid[1]} \ {0}),
            !.grid = [s \in Place |-> IF s = Slots THEN 0 ELSE @[s + 1]],
            !.damage = Place]
Erase(t, s) == [t EXCEPT !.grid[s] = 0, !.damage = @ \cup {s}]

----------------------------------------------------------------------------
(* Emacs' half. *)

Displayed == ({shown[s].id : s \in {s \in Place : shown[s].content # Hole}}
             \cup {p.id : p \in {p \in history : p.content # Hole}} \cup lagging) \ {0}
InText(screen, past) == {screen[s].id : s \in Place} \cup {p.id : p \in past}

Install(images) == data \o Excluding(images, Ids(data))

(* Spend the oldest pictures nothing displays until the rest fit the cap;  *)
(* what this drain brought is exempt.                                      *)
Overrun(pictures) == IF session.cap = 0 \/ Len(pictures) < session.cap THEN 0 ELSE Len(pictures) - session.cap
Oldest(pictures, n) == Ids(SubSeq(pictures, 1, IF n < Len(pictures) THEN n ELSE Len(pictures)))
Spent(pictures, arriving) == Oldest(Excluding(pictures, arriving \cup Displayed), Overrun(pictures))

(* What Emacs draws for a picture, from the bytes it holds.                *)
Drawn(pictures, id) ==
  IF id = 0 THEN Nowhere
  ELSE [id |-> id,
        content |-> IF id \notin Ids(pictures) THEN Hole
                    ELSE (CHOOSE p \in ToSet(pictures) : p.id = id).content]

----------------------------------------------------------------------------
PicturesInit ==
  /\ session \in Sessions
  /\ kitty = NewTerm.kitty /\ store = NewTerm.store /\ nextImage = NewTerm.next
  /\ queue = NewTerm.queue /\ grid = NewTerm.grid /\ scrolled = NewTerm.scrolled
  /\ damage = NewTerm.damage /\ answers = << >>
  /\ batch = Applied /\ data = << >> /\ shown = [s \in Place |-> Nowhere] /\ history = {} /\ lagging = {}
  /\ left = MaxSteps

Spends == left > 0 /\ left' = left - 1 /\ UNCHANGED session
Child(t) == Spends /\ TermBecomes(t) /\ UNCHANGED emacs

Command(cmd, s) ==
  /\ Child(Apc(Term, cmd, s))
  /\ answers' = Feed(kitty, cmd).answers
InlineImage(content, s) == Child(Inline(Term, content, s)) /\ answers' = << >>
EraseSlot(s) == grid[s] # 0 /\ Child(Erase(Term, s)) /\ answers' = << >>
Scroll == grid # NewTerm.grid /\ Child(ScrollUp(Term)) /\ answers' = << >>

(* Emacs takes what is pending; the child may go on before it is applied.  *)
Drain ==
  LET shed == Shed(Term) IN
  /\ ~batch.taken /\ Spends
  /\ TermBecomes([shed EXCEPT !.queue = << >>, !.scrolled = {}, !.damage = {}])
  /\ batch' = [taken |-> TRUE, images |-> shed.queue, scrolled |-> scrolled,
               rows |-> [s \in damage |-> shed.grid[s]]]
  /\ answers' = << >>
  /\ UNCHANGED <<data, shown, history, lagging>>

(* Emacs renders: the bytes in first, over the cap the oldest out, then    *)
(* the lines scrolled off and the slots drawn.                             *)
Apply ==
  LET held == Install(batch.images)
      spent == Spent(held, Ids(batch.images))
      kept == Excluding(held, spent) IN
  /\ batch.taken /\ batch' = Applied
  /\ TermBecomes(ForgetImages(Term, spent))
  /\ data' = kept
  /\ shown' = [s \in Place |-> IF s \in DOMAIN batch.rows THEN Drawn(kept, batch.rows[s])
                              ELSE shown[s]]
  /\ history' = history \cup {Drawn(kept, id) : id \in batch.scrolled}
  /\ lagging' = Displayed
  /\ answers' = << >>
  /\ UNCHANGED <<session, left>>

(* The collector takes the specs no text holds.                            *)
CollectGarbage ==
  /\ lagging # {}
  /\ lagging' = {} /\ answers' = << >>
  /\ UNCHANGED <<session, emulator, batch, data, shown, history, left>>

(* The user deletes the scrollback: the pictures no other text shows go.   *)
Clear ==
  LET gone == {p.id : p \in history} \ InText(shown, {}) IN
  /\ session.drops /\ history # {} /\ ~batch.taken
  /\ Spends
  /\ TermBecomes(ForgetImages(Term, gone \cap Ids(data)))
  /\ data' = Excluding(data, gone)
  /\ lagging' = lagging \cup {p.id : p \in history}
  /\ history' = {} /\ answers' = << >>
  /\ UNCHANGED <<batch, shown>>

(* A new session in the same buffer: ids begin again and so must the bytes.*)
ResetImages == data' = << >> /\ lagging' = {}
Restart ==
  /\ session.restarts /\ ~batch.taken
  /\ Spends
  /\ TermBecomes(NewTerm)
  /\ ResetImages
  /\ shown' = [s \in Place |-> Nowhere] /\ history' = {} /\ answers' = << >>
  /\ UNCHANGED batch

PicturesNext ==
  \/ \E cmd \in session.commands, s \in Place : Command(cmd, s)
  \/ \E content \in session.inline, s \in Place : InlineImage(content, s)
  \/ \E s \in Place : EraseSlot(s)
  \/ Scroll \/ Drain \/ Apply \/ CollectGarbage \/ Clear \/ Restart
PicturesSpec == PicturesInit /\ [][PicturesNext]_pictureVars

----------------------------------------------------------------------------
PicturesOK ==
  /\ session \in Sessions /\ left \in 0..MaxSteps /\ nextImage \in 1..MaxSteps + 1
  /\ Len(store) <= MaxTracked /\ Cardinality(Ids(store)) = Len(store)
  /\ grid \in [Place -> 0..MaxSteps] /\ scrolled \subseteq 1..MaxSteps /\ damage \subseteq Place
  /\ lagging \subseteq 1..MaxSteps

(* A picture the emulator answers "you already have it" about is one Emacs *)
(* holds the bytes of, or will at the next drain: image.rs' one invariant. *)
TrackedReaches == Ids(store) \subseteq Ids(data) \cup Ids(batch.images) \cup Ids(queue)

(* Every name a client can place by names a picture still tracked, so a=p  *)
(* draws it or is told ENOENT.                                             *)
NamesLive == BoundImages(kitty) \subseteq Ids(store)

(* An id means the same bytes on both sides, a session after another too.  *)
SameBytes ==
  \A p \in ToSet(store) \cup ToSet(queue) \cup ToSet(batch.images), q \in ToSet(data) \cup history \cup {shown[s] : s \in Place} :
    p.id = q.id /\ q.content # Hole => p.content = q.content

(* Everything on the screen and in the scrollback is drawn.                *)
NoHole == \A p \in {shown[s] : s \in Place} \cup history : p.content # Hole

(* What Emacs shows it can show again, at another size say: the bytes of a *)
(* picture on the screen or in the scrollback outlive every eviction.      *)
ShownRebuildable == Displayed \ lagging \subseteq Ids(data)

(* ...while Emacs has dropped nothing of what it was sent.                 *)
NoHoleUndropped == session.cap = 0 /\ ~session.drops => NoHole

(* Emulator and Emacs agree on pictures.                                   *)
PicturesAgree == TrackedReaches /\ NamesLive /\ SameBytes /\ ShownRebuildable /\ NoHoleUndropped

(* A transfer that ends, finished, refused or displaced, is answered.      *)
Owed == /\ InFlight(kitty) /\ kitty'.pending # kitty.pending
        /\ kitty.pending.quiet = 0 /\ ClientId(kitty.pending) # 0
AnswersOwed ==
  [][Owed /\ ~Restart => \E a \in ToSet(answers') : a.id = ClientId(kitty.pending)]_pictureVars
=============================================================================

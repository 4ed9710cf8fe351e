------------------------------- MODULE Kitty -------------------------------
(***************************************************************************)
(* The kitty graphics protocol of src/emu/kitty.rs: one APC command at a   *)
(* time in, an outcome and the answers owed to the child out.              *)
(*                                                                         *)
(* A command is its parsed control data and a body of payload chunks: act  *)
(* is the action the child named ("none" when it named none), id the       *)
(* number it named (Absent when it named none), png whether it is of a     *)
(* file and not of raw pixels.  A payload is a sequence of chunks,         *)
(* MaxPayload of them at most, and Garbled stands for one that no decoder  *)
(* accepts: bad base64, a bad stream, wrong dimensions.                    *)
(***************************************************************************)
EXTENDS Integers, Sequences, SequencesExt, FiniteSets

CONSTANT MaxPayload  \* MAX_PAYLOAD, in chunks

Absent == -1
Idle == [act |-> "idle"]
Garbled == "garbled"

ClientId(cmd) == IF cmd.id = Absent THEN 0 ELSE cmd.id
Action(cmd) == IF cmd.act = "none" THEN "t" ELSE cmd.act

(* What the terminal then does: nothing, take a picture in, or place one.  *)
NothingToDo == [does |-> "nothing"]
Taken(opened, body) == [does |-> "image", content |-> body, name |-> ClientId(opened),
                        display |-> Action(opened) = "T"]
Placed(id) == [does |-> "place", id |-> id]

(* q=1 keeps successes quiet, q=2 everything; no id, no address to answer. *)
Response(cmd, ok) ==
  IF cmd.quiet >= 2 \/ (cmd.quiet = 1 /\ ok) \/ ClientId(cmd) = 0 THEN << >>
  ELSE << [id |-> ClientId(cmd), ok |-> ok] >>

Result(k, outcome, answers) == [kitty |-> k, outcome |-> outcome, answers |-> answers]
Refused(k, cmd) == Result(k, NothingToDo, Response(cmd, FALSE))

NewKitty == [pending |-> Idle, body |-> << >>, named |-> << >>]
InFlight(k) == k.pending # Idle

Named(k, client) == client \in DOMAIN k.named
Bind(k, client, ours) ==
  IF client = 0 THEN k
  ELSE [k EXCEPT !.named = [n \in DOMAIN @ \cup {client} |-> IF n = client THEN ours ELSE @[n]]]
BoundImages(k) == {k.named[n] : n \in DOMAIN k.named}
Unname(k, names) == [k EXCEPT !.named = [n \in DOMAIN @ \ names |-> @[n]]]

(* a=q, a=d and a=p carry no payload and are answered where they stand.    *)
Standalone(k, cmd) ==
  IF cmd.refused THEN Refused(k, cmd)
  ELSE CASE Action(cmd) = "q" -> Result(k, NothingToDo, Response(cmd, TRUE))
         [] Action(cmd) = "d" -> Result(Unname(k, {ClientId(cmd)}), NothingToDo, Response(cmd, TRUE))
         [] Action(cmd) = "p" /\ Named(k, ClientId(cmd)) ->
              Result(k, Placed(k.named[ClientId(cmd)]), Response(cmd, TRUE))
         [] Action(cmd) = "p" -> Refused(k, cmd)
         [] OTHER -> Result(k, NothingToDo, << >>)

(* The payload decodes: nothing in it but what was sent, and the terminal's *)
(* own echo, which is lifted out.                                          *)
Decodes(body) == Garbled \notin ToSet(body)

(* A payload that does not is refused, and so are raw pixels too few for    *)
(* their dimensions; a file carries its own, and is not looked into.        *)
Finish(k, opened, body) ==
  IF ~Decodes(body) \/ (body = << >> /\ ~opened.png) THEN Refused(k, opened)
  ELSE Result(k, Taken(opened, body), Response(opened, TRUE))

(* More of the picture opened by a command: too much of it is refused, and *)
(* more to come waits.                                                     *)
Gather(k, opened, body, more) ==
  LET whole == k.body \o body
      free == [k EXCEPT !.pending = Idle, !.body = << >>] IN
  IF Len(whole) > MaxPayload THEN Refused(free, opened)
  ELSE IF more THEN Result([k EXCEPT !.pending = opened, !.body = whole], NothingToDo, << >>)
  ELSE Finish(free, opened, whole)

Begin(k, cmd) ==
  IF cmd.refused THEN Refused(k, cmd)
  ELSE IF Action(cmd) \in {"t", "T"} THEN Gather(k, cmd, cmd.body, cmd.more)
  ELSE Standalone(k, cmd)

(* Broken: a transfer displaced by another is dropped without a word.      *)
FeedDisplacing(k, cmd) ==
  IF ~InFlight(k) THEN Begin(k, cmd)
  ELSE IF cmd.id \notin {Absent, ClientId(k.pending)}
    THEN Begin([k EXCEPT !.pending = Idle, !.body = << >>], cmd)
    ELSE Gather(k, k.pending, cmd.body, cmd.more)

(* What a command means while a chunked transfer is in flight.             *)
Feed(k, cmd) ==
  IF ~InFlight(k) THEN Begin(k, cmd)
  ELSE IF cmd.act \in {"q", "d", "p"} THEN Standalone(k, cmd)
  ELSE IF cmd.id \notin {Absent, ClientId(k.pending)} THEN
    LET begun == Begin([k EXCEPT !.pending = Idle, !.body = << >>], cmd) IN
    [begun EXCEPT !.answers = Response(k.pending, FALSE) \o @]
  ELSE Gather(k, k.pending, cmd.body, cmd.more)
=============================================================================

------------------------------- MODULE Parser -------------------------------
(***************************************************************************)
(* The escape sequence parser of src/emu/parser, as operators on one       *)
(* parser record.  A byte is a member of a small set that holds one or two *)
(* representatives of every range the state machine tells apart; a         *)
(* character is the sequence of its bytes.  `out` collects what the parser *)
(* told its performer, text and string payloads one character or byte at a *)
(* time: where a run is cut is nobody's business (Perform::print_str, put).*)
(***************************************************************************)
EXTENDS Integers, Sequences, SequencesExt, FiniteSetsExt

CONSTANTS
  MaxIntermediates,   \* MAX_INTERMEDIATES
  MaxParams,          \* MAX_PARAMS, parameters and subparameters together
  MaxOscParams,       \* MAX_OSC_PARAMS
  MaxRaw,             \* MAX_OSC_RAW and MAX_APC_RAW
  MaxValue            \* where a parameter's u16 saturates

ASSUME ParserAssumption ==
  {MaxIntermediates, MaxParams, MaxOscParams, MaxRaw, MaxValue} \subseteq Nat

C0 == {"LF", "BEL"}                  \* 00-17, 19, 1C-1F
Intermediate == {"sp"}               \* 20-2F
Digit == {"1"}                       \* 30-39
Private == {"?"}                     \* 3C-3F
Introducer == {"P", "X", "[", "]", "_"}
Final == {"a"} \cup Introducer       \* 40-7E
Low == {"9C"}                        \* 80-9F: C1 alone, else a continuation byte
High == {"A9"}                       \* A0-BF: a continuation byte
Continuation == Low \cup High
Lead2 == {"C2"}
Lead3 == {"E2"}
ByteClasses == C0 \cup Intermediate \cup Digit \cup {":", ";"} \cup Private \cup Final
               \cup Continuation \cup Lead2 \cup Lead3 \cup {"CAN", "ESC", "DEL"}

Replacement == <<"U+FFFD">>

-----------------------------------------------------------------------------
(* Parameters *)

NoParams == [sub |-> [i \in 1..MaxParams |-> 0], val |-> [i \in 1..MaxParams |-> 0],
             cur |-> 0, len |-> 0]

Full(q) == q.len = MaxParams
\* Params::clear leaves the arrays as they are.
Cleared(q) == [q EXCEPT !.cur = 0, !.len = 0]

\* Broken: a parameter that follows subparameters is counted into their group.
PutRunningOn(q, item, subparam) ==
  [q EXCEPT !.sub[q.len - q.cur + 1] = q.cur + 1, !.val[q.len + 1] = item,
            !.cur = q.cur + 1, !.len = @ + 1]

Put(q, item, subparam) ==
  [q EXCEPT !.sub[q.len - q.cur + 1] = q.cur + 1, !.val[q.len + 1] = item,
            !.cur = IF subparam THEN q.cur + 1 ELSE 0, !.len = @ + 1]

\* ParamsIter: the groups, from the subparameter count at each group's first index.
Groups(q) ==
  LET from[i \in 1..(2 * MaxParams + 1)] ==
        IF i > q.len THEN <<>>
        ELSE <<SubSeq(q.val, i, i + q.sub[i] - 1)>> \o from[i + q.sub[i]]
  IN  from[1]

-----------------------------------------------------------------------------
(* The parser *)

NewParser ==
  [state |-> "Ground", intermediates |-> <<>>, params |-> NoParams, param |-> 0,
   ignoring |-> FALSE, osc |-> <<>>, cuts |-> <<>>, oscOverflow |-> FALSE,
   apc |-> <<>>, apcOverflow |-> FALSE, partial |-> <<>>, out |-> <<>>]

To(p, s) == [p EXCEPT !.state = s]
Emit(p, e) == [p EXCEPT !.out = Append(@, e)]
Draw(p, c) == Emit(p, <<"print", c>>)
Execute(p, c) == Emit(p, <<"execute", c>>)

ResetParams(p) ==
  [p EXCEPT !.intermediates = <<>>, !.ignoring = FALSE, !.param = 0, !.params = Cleared(@)]

Escape(p) == To(ResetParams(p), "Escape")

\* Parser::anywhere
Anywhere(p, b) ==
  CASE b = "CAN" -> To(Execute(p, <<b>>), "Ground")
    [] b = "ESC" -> Escape(p)
    [] OTHER -> p

Collect(p, b) ==
  IF Len(p.intermediates) = MaxIntermediates THEN [p EXCEPT !.ignoring = TRUE]
  ELSE [p EXCEPT !.intermediates = Append(@, b)]

\* action_subparam and action_param: close the value being collected.
Separate(p, subparam) ==
  IF Full(p.params) THEN [p EXCEPT !.ignoring = TRUE]
  ELSE [p EXCEPT !.params = Put(@, p.param, subparam), !.param = 0]

\* action_paramnext, for the one digit there is: saturating arithmetic.
ParamNext(p) ==
  IF Full(p.params) THEN [p EXCEPT !.ignoring = TRUE]
  ELSE [p EXCEPT !.param = Min({@ * 10 + 1, MaxValue})]

\* action_csi_dispatch and action_hook push the last value and keep `param`.
LastParam(p) ==
  IF Full(p.params) THEN [p EXCEPT !.ignoring = TRUE]
  ELSE [p EXCEPT !.params = Put(@, p.param, FALSE)]
Announce(p, kind, b) ==
  LET q == LastParam(p)
  IN  Emit(q, <<kind, Groups(q.params), q.intermediates, q.ignoring, b>>)

CsiDispatch(p, b) == To(Announce(p, "csi", b), "Ground")
Hook(p, b) == To(Announce(p, "hook", b), "DcsPassthrough")
EscDispatch(p, b) == To(Emit(p, <<"esc", p.intermediates, p.ignoring, b>>), "Ground")

\* action_osc_put_param: each parameter begins where the last one ended.
OscPutParam(p) ==
  IF Len(p.cuts) = MaxOscParams THEN p
  ELSE [p EXCEPT !.cuts =
          Append(@, <<IF @ = <<>> THEN 0 ELSE Last(@)[2], Len(p.osc)>>)]

OscPut(p, b) ==
  IF Len(p.osc) >= MaxRaw THEN [p EXCEPT !.oscOverflow = TRUE]
  ELSE [p EXCEPT !.osc = Append(@, b)]

OscEnd(p, b) ==
  LET q == OscPutParam(p)
      slices == [i \in DOMAIN q.cuts |-> SubSeq(q.osc, q.cuts[i][1] + 1, q.cuts[i][2])]
      told == IF q.oscOverflow THEN q ELSE Emit(q, <<"osc", slices, b = "BEL">>)
  IN  [told EXCEPT !.osc = <<>>, !.cuts = <<>>, !.oscOverflow = FALSE]

ApcPut(p, b) ==
  IF Len(p.apc) >= MaxRaw THEN [p EXCEPT !.apcOverflow = TRUE]
  ELSE [p EXCEPT !.apc = Append(@, b)]

ApcEnd(p) ==
  LET told == IF p.apcOverflow THEN p ELSE Emit(p, <<"apc", p.apc>>)
  IN  [told EXCEPT !.apc = <<>>, !.apcOverflow = FALSE]

-----------------------------------------------------------------------------
(* One byte away from Ground: Parser::change_state *)

\* What CsiEntry, CsiParam and their DCS counterparts share: the bytes of a parameter.
Parameter(p, b, s) ==
  To(CASE b \in Digit -> ParamNext(p) [] b = ":" -> Separate(p, TRUE)
       [] b = ";" -> Separate(p, FALSE), s)
IsParameter(b) == b \in Digit \cup {":", ";"}

AdvanceCsiEntry(p, b) ==
  CASE b \in C0 -> Execute(p, <<b>>)
    [] b \in Intermediate -> To(Collect(p, b), "CsiIntermediate")
    [] IsParameter(b) -> Parameter(p, b, "CsiParam")
    [] b \in Private -> To(Collect(p, b), "CsiParam")
    [] b \in Final -> CsiDispatch(p, b)
    [] OTHER -> Anywhere(p, b)

AdvanceCsiIgnore(p, b) ==
  CASE b \in C0 -> Execute(p, <<b>>)
    [] b \in Final -> To(p, "Ground")
    [] OTHER -> Anywhere(p, b)

AdvanceCsiIntermediate(p, b) ==
  CASE b \in C0 -> Execute(p, <<b>>)
    [] b \in Intermediate -> Collect(p, b)
    [] IsParameter(b) \/ b \in Private -> To(p, "CsiIgnore")
    [] b \in Final -> CsiDispatch(p, b)
    [] OTHER -> Anywhere(p, b)

AdvanceCsiParam(p, b) ==
  CASE b \in C0 -> Execute(p, <<b>>)
    [] b \in Intermediate -> To(Collect(p, b), "CsiIntermediate")
    [] IsParameter(b) -> Parameter(p, b, "CsiParam")
    [] b \in Private -> To(p, "CsiIgnore")
    [] b \in Final -> CsiDispatch(p, b)
    [] OTHER -> Anywhere(p, b)

\* The device control states ignore C0 where the others execute it.
AdvanceDcsEntry(p, b) ==
  CASE b \in Intermediate -> To(Collect(p, b), "DcsIntermediate")
    [] IsParameter(b) -> Parameter(p, b, "DcsParam")
    [] b \in Private -> To(Collect(p, b), "DcsParam")
    [] b \in Final -> Hook(p, b)
    [] OTHER -> Anywhere(p, b)

AdvanceDcsIntermediate(p, b) ==
  CASE b \in Intermediate -> Collect(p, b)
    [] IsParameter(b) \/ b \in Private -> To(p, "DcsIgnore")
    [] b \in Final -> Hook(p, b)
    [] OTHER -> Anywhere(p, b)

AdvanceDcsParam(p, b) ==
  CASE b \in Intermediate -> To(Collect(p, b), "DcsIntermediate")
    [] IsParameter(b) -> Parameter(p, b, "DcsParam")
    [] b \in Private -> To(p, "DcsIgnore")
    [] b \in Final -> Hook(p, b)
    [] OTHER -> Anywhere(p, b)

\* All but 00-17, 19 and 1C-7E, which pass through to the handler.
Stops == {"CAN", "ESC", "DEL"} \cup Continuation \cup Lead2 \cup Lead3

Unhook(p) == Emit(p, <<"unhook">>)

AdvanceDcsPassthrough(p, b) ==
  CASE b \notin Stops -> Emit(p, <<"put", b>>)
    [] b = "CAN" -> To(Execute(Unhook(p), <<b>>), "Ground")
    [] b = "ESC" -> Escape(Unhook(p))
    [] b = "9C" -> To(Unhook(p), "Ground")
    [] OTHER -> p

\* ESC on ESC stays in Escape and resets nothing: nothing has been collected there.
AdvanceEsc(p, b) ==
  CASE b \in C0 -> Execute(p, <<b>>)
    [] b \in Intermediate -> To(Collect(p, b), "EscapeIntermediate")
    [] b = "P" -> To(ResetParams(p), "DcsEntry")
    [] b = "X" -> To(p, "SosPmApcString")
    [] b = "[" -> To(ResetParams(p), "CsiEntry")
    [] b = "]" -> To([p EXCEPT !.osc = <<>>, !.cuts = <<>>, !.oscOverflow = FALSE], "OscString")
    [] b = "_" -> To([p EXCEPT !.apc = <<>>, !.apcOverflow = FALSE], "ApcString")
    [] IsParameter(b) \/ b \in Private \cup (Final \ Introducer) -> EscDispatch(p, b)
    [] b = "CAN" -> To(Execute(p, <<b>>), "Ground")
    [] OTHER -> p

AdvanceEscIntermediate(p, b) ==
  CASE b \in C0 -> Execute(p, <<b>>)
    [] b \in Intermediate -> Collect(p, b)
    [] IsParameter(b) \/ b \in Private \cup Final -> EscDispatch(p, b)
    [] OTHER -> Anywhere(p, b)

AdvanceOscString(p, b) ==
  CASE b = "BEL" -> To(OscEnd(p, b), "Ground")
    [] b \in C0 \ {"BEL"} -> p
    [] b = "CAN" -> To(Execute(OscEnd(p, b), <<b>>), "Ground")
    [] b = "ESC" -> Escape(OscEnd(p, b))
    [] b = ";" -> OscPutParam(p)
    [] OTHER -> OscPut(p, b)

\* A BEL is payload here, and a cancel dispatches nothing.
AdvanceApcString(p, b) ==
  CASE b = "CAN" -> To(Execute([p EXCEPT !.apc = <<>>], <<b>>), "Ground")
    [] b = "ESC" -> Escape(ApcEnd(p))
    [] b = "9C" -> To(ApcEnd(p), "Ground")
    [] OTHER -> ApcPut(p, b)

ChangeState(p, b) ==
  CASE p.state = "CsiEntry" -> AdvanceCsiEntry(p, b)
    [] p.state = "CsiIgnore" -> AdvanceCsiIgnore(p, b)
    [] p.state = "CsiIntermediate" -> AdvanceCsiIntermediate(p, b)
    [] p.state = "CsiParam" -> AdvanceCsiParam(p, b)
    [] p.state = "DcsEntry" -> AdvanceDcsEntry(p, b)
    [] p.state = "DcsIntermediate" -> AdvanceDcsIntermediate(p, b)
    [] p.state = "DcsParam" -> AdvanceDcsParam(p, b)
    [] p.state = "DcsPassthrough" -> AdvanceDcsPassthrough(p, b)
    [] p.state = "Escape" -> AdvanceEsc(p, b)
    [] p.state = "EscapeIntermediate" -> AdvanceEscIntermediate(p, b)
    [] p.state = "OscString" -> AdvanceOscString(p, b)
    [] p.state = "ApcString" -> AdvanceApcString(p, b)
    [] p.state \in {"DcsIgnore", "SosPmApcString"} -> Anywhere(p, b)

-----------------------------------------------------------------------------
(* UTF-8, as core::str::from_utf8 reports it *)

Size(b) ==
  CASE b \in Lead2 -> 2 [] b \in Lead3 -> 3 [] b \in Continuation -> 0 [] OTHER -> 1

\* The bytes of s that its first byte accounts for: as many continuations as follow, of
\* those it asks for.
Matched(s) ==
  LET want == Size(Head(s))
      ok == {n \in 1..Min({want, Len(s)}) : \A i \in 2..n : s[i] \in Continuation}
  IN  IF want = 0 THEN 0 ELSE Max(ok)

Whole(s) == s # <<>> /\ Matched(s) = Size(Head(s)) /\ Matched(s) > 0
\* error_len: NONE when the text only ends too soon.
CutShort(s) == s # <<>> /\ ~Whole(s) /\ Matched(s) = Len(s)
ErrorLen(s) == Max({1, Matched(s)})

\* The characters at the front of s that are whole, and what is left from the first that is not.
Decode(s) ==
  LET at[i \in 1..(Len(s) + 1)] ==
        LET rest == SubSeq(s, i, Len(s))
        IN  IF Whole(rest)
            THEN LET n == Matched(rest)
                 IN  [chars |-> <<SubSeq(rest, 1, n)>> \o at[i + n].chars, rest |-> at[i + n].rest]
            ELSE [chars |-> <<>>, rest |-> rest]
  IN  at[1]

\* Controls: C0 and DEL's neighbours as one byte, C1 as two.
IsControl(c) == Head(c) \in C0 \cup {"CAN"} \/ (Len(c) = 2 /\ c[2] \in Low)

\* ground_dispatch
GroundDispatch(p, chars) ==
  [p EXCEPT !.out = @ \o [i \in DOMAIN chars |->
     <<IF IsControl(chars[i]) THEN "execute" ELSE "print", chars[i]>>]]

-----------------------------------------------------------------------------
(* Bytes in bulk: each operator returns the parser and how many bytes it took *)

\* The bytes before the first of `stops`.
Run(s, stops) == Min({i \in DOMAIN s : s[i] \in stops} \cup {Len(s) + 1}) - 1

\* Parser::advance_partial_utf8: the bytes of a character a chunk ended inside, joined
\* by the next chunk's first bytes.  Valid text beyond the first character is counted
\* as taken, up to the first byte that is not part of a whole character.
AdvancePartial(p, s) ==
  LET old == Len(p.partial)
      taken == SubSeq(s, 1, Min({Len(s), 4 - old}))
      text == p.partial \o taken
      decoded == Decode(text)
      valid == Len(text) - Len(decoded.rest)
      Done(c, n) == [p |-> Draw([p EXCEPT !.partial = <<>>], c), n |-> n - old]
  IN  CASE decoded.rest = <<>> -> Done(decoded.chars[1], Len(decoded.chars[1]))
        [] decoded.rest # <<>> /\ valid > 0 -> Done(decoded.chars[1], valid)
        [] valid = 0 /\ ~CutShort(text) -> Done(Replacement, ErrorLen(text))
        [] valid = 0 /\ CutShort(text) -> [p |-> [p EXCEPT !.partial = text], n |-> Len(taken)]

\* Parser::advance_ground, up to and with the next ESC.
AdvanceGround(p, s) ==
  LET plain == Run(s, {"ESC"})
      decoded == Decode(SubSeq(s, 1, plain))
      valid == plain - Len(decoded.rest)
      told == GroundDispatch(p, decoded.chars)
      AtEscape(q) == [p |-> Escape(q), n |-> plain + 1]
      bad == decoded.rest[1]
  IN  CASE decoded.rest = <<>> /\ plain < Len(s) -> AtEscape(told)
        [] decoded.rest = <<>> /\ plain = Len(s) -> [p |-> told, n |-> plain]
        [] decoded.rest # <<>> /\ ~CutShort(decoded.rest) ->
             [p |-> IF ErrorLen(decoded.rest) = 1 /\ bad \in Low THEN Execute(told, <<bad>>)
                    ELSE Draw(told, Replacement),
              n |-> valid + ErrorLen(decoded.rest)]
        [] decoded.rest # <<>> /\ CutShort(decoded.rest) /\ plain < Len(s) ->
             AtEscape(Draw(told, Replacement))
        [] decoded.rest # <<>> /\ CutShort(decoded.rest) /\ plain = Len(s) ->
             [p |-> [told EXCEPT !.partial = decoded.rest], n |-> Len(s)]

\* What follows a run: the byte that stopped it goes through the state machine.
AfterRun(p, s, end) ==
  IF end = Len(s) THEN [p |-> p, n |-> end]
  ELSE [p |-> ChangeState(p, s[end + 1]), n |-> end + 1]

\* Broken: DEL is handed to the performer with the run it is in.
DcsBulkWithDelete(p, s) ==
  LET end == Run(s, Stops \ {"DEL"})
  IN  AfterRun([p EXCEPT !.out = @ \o [i \in 1..end |-> <<"put", s[i]>>]], s, end)

AdvanceDcsBulk(p, s) ==
  LET end == Run(s, Stops)
  IN  AfterRun([p EXCEPT !.out = @ \o [i \in 1..end |-> <<"put", s[i]>>]], s, end)

AdvanceApcBulk(p, s) ==
  LET end == Run(s, {"CAN", "ESC", "9C"})
      room == MaxRaw - Len(p.apc)
  IN  AfterRun([p EXCEPT !.apcOverflow = @ \/ end > room,
                         !.apc = @ \o SubSeq(s, 1, Min({end, room}))], s, end)

AdvanceOnce(p, s) ==
  CASE p.state = "Ground" -> AdvanceGround(p, s)
    [] p.state = "DcsPassthrough" -> AdvanceDcsBulk(p, s)
    [] p.state = "ApcString" -> AdvanceApcBulk(p, s)
    [] OTHER -> [p |-> ChangeState(p, s[1]), n |-> 1]

\* Parser::advance: at most one turn of the loop for each byte.
Advance(p, s) ==
  LET first == IF p.partial # <<>> THEN AdvancePartial(p, s) ELSE [p |-> p, n |-> 0]
      after[i \in 0..Len(s)] ==
        IF i = 0 THEN first
        ELSE LET done == after[i - 1]
                 next == AdvanceOnce(done.p, SubSeq(s, done.n + 1, Len(s)))
             IN  IF done.n = Len(s) THEN done ELSE [p |-> next.p, n |-> done.n + next.n]
  IN  after[Len(s)].p

=============================================================================

------------------------------- MODULE Stream -------------------------------
(***************************************************************************)
(* A child writes bytes and the reader reads whatever has arrived, so its  *)
(* chunks end anywhere: inside a character, a sequence or a payload.       *)
(* `parser` is the parser as the reader feeds it.  `each` is the reference *)
(* it is held against: the same parser told of every byte as it is         *)
(* written, its text decoded one byte at a time.                           *)
(*                                                                         *)
(* `unread` is at most one read long; `body` holds what the sequence or    *)
(* string under way carries, and a child ends it within MaxBody bytes.     *)
(***************************************************************************)
EXTENDS Parser

CONSTANTS
  Repertoires,   \* what a child writes: the bytes and the longest read of each session
  MaxBody        \* bound: bytes of one sequence's parameters or one string's payload

VARIABLES
  repertoire,    \* the session's repertoire
  parser,        \* the parser as of the last read
  each,          \* the parser as of the last byte written, one byte at a time
  unread,        \* the bytes written and not read
  torn,          \* the last read but one ended inside a character
  body           \* ghost: the bytes since the introducer of the sequence under way

streamVars == <<repertoire, parser, each, unread, torn, body>>

\* The reference for text: a byte ends, extends or breaks the character under way.
GroundByte(p, b) ==
  LET text == Append(p.partial, b)
      fresh == [p EXCEPT !.partial = <<>>]
      broken == IF p.partial = <<>> THEN p ELSE Draw(fresh, Replacement)
  IN  CASE b = "ESC" -> Escape(broken)
        [] b # "ESC" /\ Whole(text) -> GroundDispatch(fresh, <<text>>)
        [] b # "ESC" /\ CutShort(text) -> [p EXCEPT !.partial = text]
        [] b # "ESC" /\ ~Whole(text) /\ ~CutShort(text) ->
             CASE Size(b) = 1 -> GroundDispatch(broken, <<<<b>>>>)
               [] Size(b) > 1 -> [broken EXCEPT !.partial = <<b>>]
               [] b \in Low -> Execute(broken, <<b>>)
               [] b \in High -> Draw(broken, Replacement)

Byte(p, b) == IF p.state = "Ground" THEN GroundByte(p, b) ELSE ChangeState(p, b)

\* A read starts the two from the same parser, with nothing told yet.
Silent(p) == [p EXCEPT !.out = <<>>]
Base == IF unread = <<>> THEN Silent(parser) ELSE each

-----------------------------------------------------------------------------
Carries == {"CsiEntry", "CsiParam", "CsiIntermediate", "DcsEntry", "DcsParam",
            "DcsIntermediate", "OscString", "ApcString"}

\* The bytes a sequence is made of, as opposed to those that introduce, end or are ignored.
IsBody(state, b) ==
  CASE state = "OscString" -> b \notin C0
    [] state = "ApcString" -> TRUE
    [] OTHER -> IsParameter(b)

StreamInit ==
  /\ repertoire \in Repertoires
  /\ parser = NewParser
  /\ each = NewParser
  /\ unread = <<>>
  /\ torn = FALSE
  /\ body = <<>>

Write(b) ==
  /\ Len(unread) < repertoire.read
  /\ each' = Byte(Base, b)
  /\ parser' = IF unread = <<>> THEN Silent(parser) ELSE parser
  /\ unread' = Append(unread, b)
  /\ torn' = FALSE
  /\ body' = CASE each'.state \notin Carries \/ Base.state \notin Carries -> <<>>
               [] IsBody(Base.state, b) -> Append(body, b)
               [] OTHER -> body
  /\ Len(body') <= MaxBody
  /\ UNCHANGED repertoire

\* Shared::read_loop reads into a buffer and feeds the whole of it.
Read ==
  /\ unread # <<>>
  /\ parser' = Advance(parser, unread)
  /\ unread' = <<>>
  /\ torn' = (parser.partial # <<>>)
  /\ UNCHANGED <<repertoire, each, body>>

StreamNext == (\E b \in repertoire.bytes : Write(b)) \/ Read

StreamSpec == StreamInit /\ [][StreamNext]_streamVars

-----------------------------------------------------------------------------
(* What a sequence says *)

\* The runs of s between the bytes that are `at`.
Fields(s, at) ==
  LET cuts == <<0>> \o SetToSortSeq({i \in DOMAIN s : s[i] = at}, <) \o <<Len(s) + 1>>
  IN  [i \in 1..(Len(cuts) - 1) |-> SubSeq(s, cuts[i] + 1, cuts[i + 1] - 1)]

Value(digits) == FoldLeft(LAMBDA n, d : Min({n * 10 + 1, MaxValue}), 0, digits)

Said(s) ==
  LET params == Fields(s, ";")
  IN  [i \in DOMAIN params |->
        LET subs == Fields(params[i], ":") IN [j \in DOMAIN subs |-> Value(subs[j])]]

Flat(s) == Cardinality({i \in DOMAIN s : s[i] \in {";", ":"}}) + 1
Fits(s) == Len(SelectSeq(s, LAMBDA b : b # ";")) <= MaxRaw

\* What `each` told of the byte just written.
Told == SubSeq(each'.out, Len(Base.out) + 1, Len(each'.out))
Tells(kind) == \E i \in DOMAIN Told : Told[i][1] = kind

AsWritten(e) ==
  CASE e[1] \in {"csi", "hook"} ->
         IF Flat(body) <= MaxParams THEN e[2] = Said(body) ELSE e[4]
    [] e[1] = "osc" ->
         LET fields == Fields(body, ";")
         IN  e[2] = SubSeq(fields, 1, Min({MaxOscParams, Len(fields)}))
    [] e[1] = "apc" -> e[2] = body
    [] OTHER -> TRUE

-----------------------------------------------------------------------------
(* Properties *)

StreamOK ==
  /\ repertoire \in Repertoires
  /\ \A p \in {parser, each} :
       /\ Len(p.intermediates) <= MaxIntermediates
       /\ p.params.len \in 0..MaxParams /\ p.params.cur \in 0..p.params.len
       /\ p.param \in 0..MaxValue
       /\ Len(p.osc) <= MaxRaw /\ Len(p.apc) <= MaxRaw
       /\ Len(p.cuts) <= MaxOscParams
       /\ p.partial # <<>> => CutShort(p.partial)
  /\ torn \in BOOLEAN

\* Where the reader's chunks end shows in nothing: unless a read ended inside a
\* character, the performer is told what it would be told byte by byte, and the parser
\* is left as it would be (the bulk scans of Parser::advance against change_state).
CutsInvisible == (unread = <<>> /\ ~torn) => parser = each

\* The same of the characters alone, wherever a read ends: every character of well-formed
\* text is printed (advance_partial_utf8's "we just ignore the rest").
Printed(p) == SelectSeq(p.out, LAMBDA e : e[1] = "print" /\ ~IsControl(e[2]))
WellFormed == \A i \in DOMAIN each.out : each.out[i] # <<"print", Replacement>>
EveryCharacterPrinted == unread = <<>> /\ WellFormed => Printed(parser) = Printed(each)

\* A sequence is dispatched as it was written: its parameters in their groups, or marked
\* as ignored when they are too many; a string whole, or not at all when it outgrew the
\* buffer, and then the next one is none the worse (action_param and its kin, osc_end,
\* apc_end).
SequencesWhole ==
  [][ each' # each /\ unread' # <<>> =>
        /\ \A i \in DOMAIN Told : AsWritten(Told[i])
        /\ Base.state = "OscString" /\ each'.state # "OscString" => (Tells("osc") <=> Fits(body))
        /\ Base.state = "ApcString" /\ each'.state = "Escape" =>
             (Tells("apc") <=> Len(body) <= MaxRaw) ]_streamVars

=============================================================================

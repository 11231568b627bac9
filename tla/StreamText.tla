------------------------------- MODULE StreamText -------------------------------
(***************************************************************************)
(* ResponseTextStreamExtractor (response/streaming.py): the model's JSON   *)
(* arrives in deltas cut anywhere, and what belongs to the value of        *)
(* "response_text" is passed on as it arrives, still escaped.              *)
(*                                                                         *)
(* A text is a sequence of symbols; "k1" "k2" are the two halves of the    *)
(* marker, so that a cut may fall between them.                            *)
(***************************************************************************)
EXTENDS Naturals, Sequences, SequencesExt

CONSTANTS
  Preambles,  \* what may precede the marker
  Values,     \* bodies the value may have
  MaxDelta    \* bound: symbols in one delta

ASSUME StreamTextAssumption == Preambles \cup Values \subseteq Seq(STRING) /\ MaxDelta \in Nat

VARIABLES
  text,       \* what the model will have sent
  fed,        \* how much of it has been fed
  extractor,  \* the extractor's four fields
  emitted     \* what it has passed on

streamTextVars == <<text, fed, extractor, emitted>>

Marker == <<"k1", "k2">>
NewExtractor == [buffer |-> <<>>, inValue |-> FALSE, done |-> FALSE, escaped |-> FALSE]

StreamTextInit ==
  text = <<>> /\ fed = 0 /\ extractor = NewExtractor /\ emitted = <<>>

\* One response: a preamble, the key, a colon, the quoted value, the rest.
BeginText(pre, body, spaced) ==
  /\ text = <<>>
  /\ text' = pre \o Marker \o (IF spaced THEN <<"x", ":", "x">> ELSE <<":">>)
               \o <<"q">> \o body \o <<"q", "x", "q">>
  /\ UNCHANGED <<fed, extractor, emitted>>

LastOf(q, n) == IF Len(q) <= n THEN q ELSE SubSeq(q, Len(q) - n + 1, Len(q))
From(q, n) == SubSeq(q, n, Len(q))

\* str.find: the first position from `start` on, 0 if there is none.
Find(q, part, start) ==
  LET hits == {i \in start..(Len(q) - Len(part) + 1) : SubSeq(q, i, i + Len(part) - 1) = part}
  IN IF hits = {} THEN 0 ELSE CHOOSE i \in hits : \A j \in hits : i <= j

\* The fields with what a call passes on.
Passing(state, out) ==
  [field \in DOMAIN state \cup {"out"} |-> IF field = "out" THEN out ELSE state[field]]

\* The loop over the symbols of the value.
ScanSymbol(x, char) ==
  IF x.done THEN x
  ELSE IF x.escaped THEN [x EXCEPT !.out = Append(@, char), !.escaped = FALSE]
  ELSE IF char = "b" THEN [x EXCEPT !.out = Append(@, char), !.escaped = TRUE]
  ELSE IF char = "q" THEN [x EXCEPT !.done = TRUE, !.inValue = FALSE]
  ELSE [x EXCEPT !.out = Append(@, char)]

Scan(state, chunk) ==
  FoldLeft(ScanSymbol, [buffer |-> <<>>, inValue |-> TRUE, done |-> FALSE,
                        escaped |-> state.escaped, out |-> <<>>], chunk)

\* Fault: a delta without the marker is thrown away.
SeekForgetful(state, chunk) ==
  LET buffer == chunk
      key == Find(buffer, Marker, 1)
      colon == IF key = 0 THEN 0 ELSE Find(buffer, <<":">>, key + Len(Marker))
      quote == IF colon = 0 THEN 0 ELSE Find(buffer, <<"q">>, colon)
  IN IF key = 0 THEN Passing([state EXCEPT !.buffer = <<>>], <<>>)
     ELSE IF quote = 0 THEN Passing([state EXCEPT !.buffer = From(buffer, key)], <<>>)
     ELSE Scan(state, From(buffer, quote + 1))

\* Before the value: the marker, its colon and the opening quote may each still
\* be missing; then only what may be the beginning of them is kept.
Seek(state, chunk) ==
  LET buffer == state.buffer \o chunk
      key == Find(buffer, Marker, 1)
      colon == IF key = 0 THEN 0 ELSE Find(buffer, <<":">>, key + Len(Marker))
      quote == IF colon = 0 THEN 0 ELSE Find(buffer, <<"q">>, colon)
  IN IF key = 0 THEN Passing([state EXCEPT !.buffer = LastOf(buffer, Len(Marker))], <<>>)
     ELSE IF quote = 0 THEN Passing([state EXCEPT !.buffer = From(buffer, key)], <<>>)
     ELSE Scan(state, From(buffer, quote + 1))

\* feed
Feed(n) ==
  /\ fed + n <= Len(text)
  /\ fed' = fed + n
  /\ LET chunk == SubSeq(text, fed + 1, fed + n)
         x == IF extractor.done THEN Passing(extractor, <<>>)
              ELSE IF extractor.inValue THEN Scan(extractor, chunk)
              ELSE Seek(extractor, chunk)
     IN /\ emitted' = emitted \o x.out
        /\ extractor' = [f \in DOMAIN extractor |-> x[f]]
  /\ UNCHANGED text

StreamTextNext ==
  \/ \E pre \in Preambles, body \in Values, spaced \in BOOLEAN : BeginText(pre, body, spaced)
  \/ \E n \in 1..MaxDelta : Feed(n)

StreamTextSpec == StreamTextInit /\ [][StreamTextNext]_streamTextVars

\* An escape is passed on with the symbol it escapes: the value ends at the
\* first quote with an even number of backslashes before it.
Backslashes(q, i) ==
  Cardinality({j \in 1..(i - 1) : \A k \in j..(i - 1) : q[k] = "b"})

TrueValue ==
  LET start == Find(text, <<"q">>, Find(text, <<":">>, Find(text, Marker, 1) + Len(Marker))) + 1
      end == CHOOSE i \in start..Len(text) :
               /\ text[i] = "q" /\ Backslashes(From(text, start), i - start + 1) % 2 = 0
               /\ \A j \in start..(i - 1) :
                    text[j] = "q" => Backslashes(From(text, start), j - start + 1) % 2 = 1
  IN SubSeq(text, start, end - 1)

\* However the provider cuts its stream, what has been passed on is the value so
\* far and nothing else, and at the end it is the whole value.
ValueAsStreamed ==
  text # <<>> =>
    /\ IsPrefix(emitted, TrueValue)
    /\ fed = Len(text) => emitted = TrueValue
=============================================================================

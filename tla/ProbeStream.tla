----------------------------- MODULE ProbeStream -----------------------------
(***************************************************************************)
(* What a probe hears (readProbeStream() and probe() of                    *)
(* src/src/probe-isolation.ts, parseMathProbeAnswer() of                   *)
(* src/src/probe-math.ts): the upstream answers a sum over a stream of     *)
(* events, as Responses or as Chat Completions, or in one JSON body.  The  *)
(* events are folded one by one; the result is classified when the stream  *)
(* ends.                                                                   *)
(*                                                                         *)
(* An answer is a sequence of tokens; "x" is any text that is no digit.    *)
(***************************************************************************)
EXTENDS Integers, Sequences

CONSTANTS
  Answers,     \* what an upstream may mean to say
  Expected,    \* the sum
  Statuses     \* HTTP statuses

Protocols == {"responses", "chat"}

VARIABLES
  protocol,
  meant,       \* the whole answer of the upstream
  said,        \* how many tokens of it were sent
  upstream,    \* "answers", "done" (it said it has finished), "failed", "over"
  doneFailing, \* it called a failed answer done
  heard,       \* what the fold has of the stream
  status,      \* of the HTTP response
  verdict

streamVars == <<protocol, meant, said, upstream, doneFailing, heard, status, verdict>>

Silence == [text |-> <<>>, terminal |-> "none", finish |-> "none", refused |-> FALSE]
NoVerdict == [class |-> "none", answer |-> "none", quality |-> FALSE]

Init ==
  /\ protocol \in Protocols
  /\ meant \in Answers
  /\ said = 0
  /\ upstream = "answers"
  /\ doneFailing = FALSE
  /\ heard = Silence
  /\ status \in Statuses
  /\ verdict = NoVerdict

-----------------------------------------------------------------------------
(* The fold *)

Event == [delta |-> <<>>, whole |-> <<>>, finish |-> "none", refused |-> FALSE, terminal |-> "none"]

\* Faulty: the text of the closing events is added to what was heard.
AppendsAlways(text, event) == text \o event.delta \o event.whole

\* Deltas are added; the whole text, in the closing events, counts if nothing was heard.
Appends(text, event) ==
  LET added == text \o event.delta IN IF added = <<>> THEN event.whole ELSE added

\* consumePayload(): the last finish reason and terminal status count, the first refusal stays.
Consume(event) ==
  [text |-> Appends(heard.text, event),
   finish |-> IF event.finish = "none" THEN heard.finish ELSE event.finish,
   refused |-> heard.refused \/ event.refused,
   terminal |-> IF event.terminal = "none" THEN heard.terminal ELSE event.terminal]

-----------------------------------------------------------------------------
(* parseMathProbeAnswer() *)

Digits == {"0", "1", "2", "4"}

Trimmed(text) ==
  LET solid == {i \in 1 .. Len(text) : text[i] # " "} IN
  IF solid = {} THEN <<>>
  ELSE LET first == CHOOSE i \in solid : \A j \in solid : i <= j
           last == CHOOSE i \in solid : \A j \in solid : i >= j
       IN SubSeq(text, first, last)

StrictInteger(text) ==
  /\ \A i \in 1 .. Len(text) : text[i] \in Digits
  /\ text[1] = "0" => Len(text) = 1

Parsed(text) ==
  LET number == Trimmed(text) IN
  IF number = <<>> THEN "empty"
  ELSE IF ~ StrictInteger(number) THEN "format_invalid"
  ELSE IF number = Expected THEN "correct" ELSE "wrong_number"

-----------------------------------------------------------------------------
(* probe() *)

\* Faulty: an answer cut off by its length is parsed.
AnswersCut ==
  IF heard.refused THEN "refused"
  ELSE IF heard.terminal = "failed" THEN "failed"
  ELSE IF heard.terminal \in {"incomplete", "none"} THEN "incomplete"
  ELSE Parsed(heard.text)

AnswerClassification ==
  IF heard.refused THEN "refused"
  ELSE IF heard.finish = "length" THEN "truncated"
  ELSE IF heard.terminal = "failed" THEN "failed"
  ELSE IF heard.terminal \in {"incomplete", "none"} THEN "incomplete"
  ELSE Parsed(heard.text)

Classification ==
  IF status \in 200 .. 299 THEN "alive"
  ELSE IF status \in {401, 403} THEN "dead"
  ELSE IF status = 429 THEN "rate-limited" ELSE "error"

Over == upstream = "over"

\* The stream ends, after or before the upstream has finished.
StreamEnds ==
  /\ ~ Over
  /\ upstream' = "over"
  /\ verdict' = LET alive == Classification = "alive"
                IN [class |-> Classification,
                    answer |-> IF alive THEN AnswerClassification ELSE "not_assessed",
                    quality |-> alive /\ AnswerClassification = "correct"]
  /\ UNCHANGED <<protocol, meant, said, doneFailing, heard, status>>

\* The request times out or the connection breaks.
StreamBreaks ==
  /\ ~ Over
  /\ upstream' = "over"
  /\ verdict' = [class |-> "error", answer |-> "not_assessed", quality |-> FALSE]
  /\ UNCHANGED <<protocol, meant, said, doneFailing, heard, status>>

-----------------------------------------------------------------------------
(* The upstream *)

Sent == SubSeq(meant, 1, said)
Whole == said = Len(meant)
Keeps == UNCHANGED <<protocol, meant, doneFailing, status, verdict>>

Delta ==
  /\ upstream = "answers" /\ ~ Whole
  /\ said' = said + 1
  /\ heard' = Consume([Event EXCEPT !.delta = <<meant[said + 1]>>])
  /\ Keeps /\ UNCHANGED upstream

\* response.output_text.done, of an upstream that sends deltas or not.
TextDone ==
  /\ protocol = "responses" /\ upstream = "answers" /\ (Whole \/ said = 0)
  /\ said' = Len(meant)
  /\ heard' = Consume([Event EXCEPT !.whole = meant])
  /\ Keeps /\ UNCHANGED upstream

\* response.completed, or the JSON body, with the output or without.
Completed ==
  /\ protocol = "responses" /\ upstream = "answers"
  /\ \E whole \in {meant, <<>>} :
       /\ whole = <<>> => Whole
       /\ whole # <<>> => (Whole \/ said = 0)
       /\ said' = Len(meant)
       /\ heard' = Consume([Event EXCEPT !.whole = whole, !.terminal = "completed"])
  /\ upstream' = "done"
  /\ Keeps

\* response.incomplete, and a chat that is cut off.
CutOff ==
  /\ upstream = "answers"
  /\ upstream' = "done"
  /\ heard' = IF protocol = "responses"
              THEN Consume([Event EXCEPT !.whole = Sent, !.terminal = "incomplete"])
              ELSE Consume([Event EXCEPT !.finish = "length"])
  /\ Keeps /\ UNCHANGED said

\* A chat ends with a reason; one that is no stream brings the message with it.
Finish ==
  /\ protocol = "chat" /\ upstream = "answers"
  /\ \/ Whole /\ heard' = Consume([Event EXCEPT !.finish = "stop"])
     \/ /\ said = 0
        /\ heard' = Consume([Event EXCEPT !.delta = meant, !.finish = "stop", !.terminal = "completed"])
  /\ said' = Len(meant)
  /\ upstream' = "done"
  /\ Keeps

Refuse ==
  /\ upstream = "answers" /\ ~ heard.refused
  /\ heard' = Consume([Event EXCEPT !.refused = TRUE])
  /\ Keeps /\ UNCHANGED <<said, upstream>>

\* An error event; the one of a chat may be a payload without a type, which says nothing.
UpstreamFails ==
  /\ upstream = "answers"
  /\ upstream' = "failed"
  /\ heard' \in {Consume([Event EXCEPT !.terminal = "failed"])}
                  \cup (IF protocol = "chat" THEN {Consume(Event)} ELSE {})
  /\ Keeps /\ UNCHANGED said

\* [DONE] completes whatever came before.
Done ==
  /\ upstream \in {"done", "failed"}
  /\ heard' = [heard EXCEPT !.terminal = "completed"]
  /\ doneFailing' = (doneFailing \/ upstream = "failed" \/ heard.terminal = "incomplete")
  /\ UNCHANGED <<protocol, meant, said, upstream, status, verdict>>

Next ==
  \/ Delta \/ TextDone \/ Completed \/ CutOff \/ Finish \/ Refuse \/ UpstreamFails \/ Done
  \/ StreamEnds \/ StreamBreaks

-----------------------------------------------------------------------------
(* Properties *)

\* readProbeStream() and probe(): a probe is of quality only when the upstream meant
\* the sum and nothing else, unless the upstream itself called a broken answer done;
\* and an answer sent completely was heard once, however its events repeat it.
QualityMeansTheSum ==
  /\ verdict.quality => Trimmed(meant) = Expected \/ doneFailing
  /\ Over /\ verdict.answer \in {"correct", "wrong_number", "format_invalid", "empty"} /\ Whole
       => heard.text = meant

-----------------------------------------------------------------------------
(* Why it holds *)

\* While the upstream answers nothing is concluded.  Once it said that it has finished,
\* everything was sent, or it was cut off and that was heard; what it called done
\* nevertheless is remembered.
EndInv ==
  /\ upstream = "answers" => heard.terminal = "none" /\ heard.finish = "none"
  /\ upstream = "done" => Whole \/ doneFailing \/ heard.finish = "length" \/ heard.terminal = "incomplete"
  /\ upstream = "failed" => heard.terminal # "completed" \/ doneFailing
  /\ ~ Over => verdict = NoVerdict

\* What was heard is what was sent.
StreamInv ==
  /\ meant \in Answers /\ said \in 0 .. Len(meant)
  /\ heard \in [text : {Sent}, terminal : {"none", "completed", "incomplete", "failed"},
                finish : {"none", "stop", "length"}, refused : BOOLEAN]
  /\ upstream \in {"answers", "done", "failed", "over"} /\ doneFailing \in BOOLEAN
  /\ EndInv /\ QualityMeansTheSum
=============================================================================

----------------------------- MODULE SSEUnredactor ------------------------------
(***************************************************************************)
(* createSSEUnredactor between the provider and the client: the provider's *)
(* event stream arrives in chunks that end anywhere, is cut into lines,    *)
(* and every text delta passes through one StreamUnredactor.  The raw      *)
(* stream is also kept, to store the assistant's redacted reply.           *)
(***************************************************************************)
EXTENDS StreamUnredactor

CONSTANTS DeltaText,   \* the texts a delta may carry
          MaxLines,    \* bound: lines the provider sends
          LongLine     \* bound: the line, by number, that may exceed MAX_SSE_LINE_BYTES

ASSUME DeltasAreText == DeltaText \subseteq Seq(Char)
ASSUME LongLineNat == LongLine \in Nat
ASSUME MaxLinesNat == MaxLines \in Nat

\* A line of the stream.  "other": a comment, a blank line, an event without a
\* text delta; "piece": part of a line, which no client can parse.
Line == [kind : {"delta"}, text : DeltaText]
          \cup [kind : {"other", "done"}, text : {<< >>}]
Piece == [kind |-> "piece", text |-> << >>]

NoLine == [kind |-> "none", text |-> << >>]

VARIABLES
  sent,     \* number of lines the provider has begun
  buf,      \* the line in the buffer, or NoLine
  whole,    \* has all of it but its newline arrived?
  cut,      \* has what there was of it been forced out?
  sse,      \* the transform: un-redactor, terminator seen, lines in and out
  stored,   \* the assistant's text in the raw stream, to be stored
  closed    \* the provider's stream has ended

vars == <<sent, buf, whole, cut, sse, stored, closed>>

Init ==
  /\ sent = 0
  /\ buf = NoLine
  /\ whole = FALSE
  /\ cut = FALSE
  /\ sse = [u |-> Fresh, done |-> FALSE, input |-> << >>, client |-> << >>]
  /\ stored = << >>
  /\ closed = FALSE
--------------------------------------------------------------------------------
(* processLine, as a function of the transform; input is history. *)

\* A line without a text delta passes through as it is.
Pass(s, line) == [s EXCEPT !.client = Append(@, line)]

\* A delta leaves with the text that is safe by now.
Delta(s, line) ==
  LET u == Push(s.u, line.text)
  IN  [s EXCEPT !.u = u, !.client = Append(@, [line EXCEPT !.text = u.out])]

\* The un-redactor is flushed; a leftover becomes an event of its own.
FlushEvent(s) ==
  LET u == Flush(s.u)
      event == [kind |-> "flush", text |-> u.out]
  IN  [s EXCEPT !.u = u, !.client = IF u.out = << >> THEN @ ELSE Append(@, event)]

\* Fault: the terminator overtakes the flush event.
TerminatorFirst(s, line) == FlushEvent(Pass([s EXCEPT !.done = TRUE], line))

\* The terminator is preceded by what was held back.
Terminator(s, line) == Pass(FlushEvent([s EXCEPT !.done = TRUE]), line)

ProcessLine(s, line) ==
  LET now == [s EXCEPT !.input = Append(@, line)]
  IN  CASE line.kind = "delta" -> Delta(now, line)
        [] line.kind = "done" -> Terminator(now, line)
        [] OTHER -> Pass(now, line)

\* Fault: the end of the stream does not flush.
EndUnflushed(s, rest) == IF rest = NoLine THEN s ELSE ProcessLine(s, rest)

\* flush: an unfinished line is processed; then, unless the terminator has
\* been seen, what is held back is sent.
End(s, rest) ==
  LET last == IF rest = NoLine THEN s ELSE ProcessLine(s, rest)
  IN  IF last.done THEN last ELSE FlushEvent(last)

\* extractAssistantFromSSE: a whole line adds the text of its delta.
Extracted(line) == stored \o line.text
--------------------------------------------------------------------------------
(* transform: a chunk extends the buffer and completes lines. *)

\* What processLine may get of the buffer before its newline: a line that is
\* not whole is no data line; of one that was cut, more may have come or not.
Buffered ==
  IF buf = NoLine THEN {NoLine} ELSE IF cut THEN {NoLine, Piece} ELSE IF whole THEN {buf} ELSE {Piece}

\* A line begins to arrive; its newline is not there yet.
Begin(line) ==
  /\ ~ closed
  /\ buf = NoLine
  /\ sent < MaxLines
  /\ sent' = sent + 1
  /\ buf' = line
  /\ whole' \in BOOLEAN
  /\ UNCHANGED <<cut, sse, stored, closed>>

\* The rest of the line has arrived with its newline.
Newline ==
  /\ ~ closed
  /\ buf # NoLine
  /\ sse' = ProcessLine(sse, IF cut THEN Piece ELSE buf)
  /\ stored' = Extracted(buf)
  /\ buf' = NoLine
  /\ whole' = FALSE
  /\ cut' = FALSE
  /\ UNCHANGED <<sent, closed>>

\* The buffer is over the limit and is processed as a line; what follows up to
\* the newline will be a line of its own.
Overflow ==
  /\ sent = LongLine
  /\ ~ closed
  /\ buf # NoLine
  /\ ~ cut
  /\ \E line \in Buffered : sse' = ProcessLine(sse, line)
  /\ cut' = TRUE
  /\ UNCHANGED <<sent, buf, whole, stored, closed>>

\* The provider's stream ends or breaks off, perhaps within a line.
Close ==
  /\ ~ closed
  /\ closed' = TRUE
  /\ \E rest \in Buffered : sse' = End(sse, rest)
  /\ stored' = IF whole THEN Extracted(buf) ELSE stored
  /\ buf' = NoLine
  /\ whole' = FALSE
  /\ cut' = FALSE
  /\ UNCHANGED sent

Next ==
  \/ \E line \in Line : Begin(line)
  \/ Newline
  \/ Overflow
  \/ Close

Spec == Init /\ [][Next]_vars
--------------------------------------------------------------------------------
(* Properties. *)

\* The text that a sequence of lines carries.
TextOf(lines) == FlattenSeq([i \in DOMAIN lines |-> lines[i].text])

\* The lines up to and including the first terminator.
UpToDone(lines) ==
  LET ends == {i \in DOMAIN lines : lines[i].kind = "done"}
  IN  IF ends = {} THEN lines
      ELSE SubSeq(lines, 1, CHOOSE i \in ends : \A j \in ends : i <= j)

\* Has a delta come after the terminator, which no provider does?
Late == \E i, j \in DOMAIN sse.input :
          i < j /\ sse.input[i].kind = "done" /\ sse.input[j].kind = "delta"

\* Has a line been forced out in pieces?  (A stream that breaks off within a
\* line leaves a piece too, but as its last line.)
Broken == \E i \in DOMAIN sse.input : sse.input[i].kind = "piece" /\ i # Len(sse.input)

\* Every variable has its type, and the un-redactor never holds back more than
\* an unfinished placeholder (the bound MAX_PLACEHOLDER_LENGTH stands for).
TypeOK ==
  /\ sent \in 0..MaxLines
  /\ buf \in Line \cup {NoLine}
  /\ {whole, cut, closed, sse.done} \subseteq BOOLEAN
  /\ stored \in Seq(Char)
  /\ sse.u \in Unredactor
  /\ sse.u.held \in Partial \cup {<< >>}
  /\ \A i \in DOMAIN sse.input : sse.input[i].kind \in {"delta", "other", "done", "piece"}
  /\ \A i \in DOMAIN sse.client : sse.client[i].text \in Seq(Char)

\* However the deltas split the placeholders, what the client has so far and
\* what is held back are the un-redaction of what the provider has sent so far:
\* nothing that might still belong to a placeholder has been let out, and
\* nothing is lost, doubled or resolved twice.
EmittedIsFinal ==
  ~ Late => TextOf(sse.client) \o Resolved(sse.u.held) = Resolved(TextOf(sse.input))

\* A client that stops at the terminator has the whole answer.
CompleteAtDone ==
  sse.done => TextOf(UpToDone(sse.client)) = Resolved(TextOf(UpToDone(sse.input)))

\* A stream that ends without a terminator, even within a line, still gives
\* its client everything, in agreement with the whole-body un-redaction; and a
\* reload of the stored reply shows what the client was streamed, unless a line
\* over the limit was broken up.
StreamedAsReloaded ==
  closed /\ ~ Late =>
    /\ TextOf(sse.client) = UnredactBody(TextOf(sse.input))
    /\ ~ Broken => TextOf(sse.client) = UnredactBody(stored)

\* The counters of the audit event: each placeholder of the answer is counted
\* once, as replaced or as unknown, wherever the deltas split it.
CountedOnce ==
  closed /\ ~ Late =>
    /\ sse.u.replaced = Occurrences(TextOf(sse.input), DOMAIN ValueOf)
    /\ sse.u.unknown = Occurrences(TextOf(sse.input), Complete \ DOMAIN ValueOf)
================================================================================

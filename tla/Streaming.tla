----------------------------- MODULE Streaming -----------------------------
(***************************************************************************)
(* The streaming part of runtime/qq_restapi_event.py: an answer that the   *)
(* model generates piece by piece is posted in segments.  The text waits   *)
(* in a buffer until _find_safe_streaming_split_index finds the end of a   *)
(* sentence outside every markdown construct; media go out at once.        *)
(*                                                                         *)
(* A text is a sequence of characters, one of them standing for each class *)
(* that the code tells apart; a component of the generated answer is a     *)
(* record of its kind and its text.                                        *)
(***************************************************************************)
EXTENDS Integers, Sequences, SequencesExt

\* The full stop, question mark, exclamation mark and ellipsis of Chinese.
SplitChars == {".", "?", "!", "..."}
Blank == {" "}
Tick == "tick"             \* the backquote
Backslash == "backslash"
Markup == {"*", "_", "~", Tick, "[", "]", "(", ")", Backslash}
NoChar == "none"          \* before the text, or after it
Alnum(ch) == ch \notin SplitChars \cup Blank \cup Markup \cup {NoChar}

At(text, i) == IF i \in DOMAIN text THEN text[i] ELSE NoChar

\* How long the run of characters in set that starts at i is.
RunIn(text, i, set) ==
    CHOOSE n \in 1 .. Len(text) - i + 1 :
        /\ \A k \in 0 .. n - 1 : text[i + k] \in set
        /\ At(text, i + n) \notin set

Run(text, i) == RunIn(text, i, {text[i]})

-----------------------------------------------------------------------------
(* _find_safe_streaming_split_index: one pass over the text.  skip is how   *)
(* many characters of a run are already accounted for, found the answer.    *)

Spans == {"strike", "strong*", "em*", "strong_", "em_"}

Scanner ==
    [found |-> 0, skip |-> 0, escaped |-> FALSE, fence |-> 0, code |-> 0,
     pending |-> FALSE, dest |-> 0, label |-> 0, open |-> [span \in Spans |-> FALSE]]

Flanked(prev, next, marker) == marker = "_" /\ Alnum(prev) /\ Alnum(next)

CanOpen(text, i, run) ==
    LET prev == At(text, i - 1)
        next == At(text, i + run)
    IN  ~Flanked(prev, next, text[i]) /\ next \notin Blank \cup {NoChar}

CanClose(text, i, run) ==
    LET prev == At(text, i - 1)
        next == At(text, i + run)
    IN  ~Flanked(prev, next, text[i]) /\ prev \notin Blank \cup {NoChar}

\* _advance_markdown_span_state, times over: what can both open and close
\* toggles, what can do one of them does it once.
Advanced(open, times, canOpen, canClose) ==
    IF canOpen /\ canClose THEN open # (times % 2 = 1)
    ELSE IF times = 0 THEN open
    ELSE (open /\ ~canClose) \/ (~open /\ canOpen)

\* A run of markers: pairs count as strong (or strike), the odd one as emphasis.
Marked(text, s, i) ==
    LET run == Run(text, i)
        moved(span, times) ==
            Advanced(s.open[span], times, CanOpen(text, i, run), CanClose(text, i, run))
        strong == CASE text[i] = "~" -> "strike"
                    [] text[i] = "*" -> "strong*"
                    [] text[i] = "_" -> "strong_"
        em == IF text[i] = "*" THEN "em*" ELSE "em_"
        doubled == [s.open EXCEPT ![strong] = moved(strong, run \div 2)]
    IN  [s EXCEPT !.skip = run - 1,
                  !.open = IF text[i] = "~" THEN doubled
                           ELSE [doubled EXCEPT ![em] = moved(em, run % 2)]]

\* Outside code: links, markers and the end of a sentence.
Prose(text, s, i) ==
    LET ch == text[i]
    IN  IF s.dest > 0
        THEN [s EXCEPT !.dest = @ + (IF ch = "(" THEN 1 ELSE IF ch = ")" THEN -1 ELSE 0)]
        ELSE IF ch = "[" THEN [s EXCEPT !.label = @ + 1]
        ELSE IF ch = "]" /\ s.label > 0
             THEN [s EXCEPT !.label = @ - 1, !.pending = s.label = 1]
        ELSE IF s.label > 0 THEN s
        ELSE IF ch \in {"*", "_", "~"} THEN Marked(text, s, i)
        ELSE IF ch \in SplitChars /\ \A span \in Spans : ~s.open[span]
             THEN [s EXCEPT !.found = i + RunIn(text, i, SplitChars) - 1]
        ELSE s

\* Backticks end the code they opened when there are enough of them.
InCode(text, s, i, kind) ==
    IF text[i] = Tick /\ Run(text, i) >= s[kind]
    THEN [s EXCEPT ![kind] = 0, !.skip = s[kind] - 1]
    ELSE s

Scan(text, s, i) ==
    LET ch == text[i]
    IN  IF s.found > 0 THEN s
        ELSE IF s.skip > 0 THEN [s EXCEPT !.skip = @ - 1]
        ELSE IF s.escaped THEN [s EXCEPT !.escaped = FALSE]
        ELSE IF ch = Backslash THEN [s EXCEPT !.escaped = TRUE]
        ELSE IF s.fence > 0 THEN InCode(text, s, i, "fence")
        ELSE IF s.code > 0 THEN InCode(text, s, i, "code")
        ELSE IF ch = Tick
             THEN [s EXCEPT ![IF Run(text, i) >= 3 THEN "fence" ELSE "code"] = Run(text, i),
                            !.skip = Run(text, i) - 1]
        ELSE IF s.pending /\ ch \in Blank THEN s
        ELSE IF s.pending /\ ch = "(" THEN [s EXCEPT !.pending = FALSE, !.dest = 1]
        ELSE Prose(text, [s EXCEPT !.pending = FALSE], i)

\* The position after which the text may be cut; 0 if nowhere.
SplitIndex(text) ==
    LET scan[i \in 0 .. Len(text)] ==
            IF i = 0 THEN Scanner ELSE Scan(text, scan[i - 1], i)
    IN  scan[Len(text)].found

-----------------------------------------------------------------------------
(* send_streaming with use_fallback.                                        *)

VARIABLES
    answer,         \* what the model will have generated: a sequence of components
    stream          \* where send_streaming is

streamVars == << answer, stream >>

Text(chars) == [kind |-> "text", text |-> chars]
Media(kind) == [kind |-> kind, text |-> << >>]
MediaKinds == {"image", "voice"}
Components == [kind : {"text"}, text : Seq(STRING)] \cup [kind : MediaKinds, text : {<< >>}]

\* rest: not yet generated; buffer: generated, not posted; out: posted, in this
\* order; cuts: the positions of the whole text after which it was cut.
NewStream(components) ==
    [stage |-> "read", rest |-> components, buffer |-> << >>, out |-> << >>, cuts |-> {}]

NoStream == [NewStream(<< >>) EXCEPT !.stage = "none"]

Over == {"none", "done", "aborted"}

\* The characters of a sequence of components, one after the other.
Joined(components) == FlattenSeq([i \in DOMAIN components |-> components[i].text])

\* A text without its spaces; the media among components.
Solid(text) ==
    FlattenSeq([i \in DOMAIN text |-> IF text[i] \in Blank THEN << >> ELSE << text[i] >>])

MediaOf(components) ==
    FlattenSeq([i \in DOMAIN components |->
        IF components[i].kind \in MediaKinds THEN << components[i] >> ELSE << >>])

\* send() strips the text that it posts.
Strip(text) ==
    LET solid == {i \in DOMAIN text : text[i] \notin Blank}
    IN  IF solid = {} THEN << >>
        ELSE SubSeq(text, CHOOSE i \in solid : \A j \in solid : i <= j,
                          CHOOSE i \in solid : \A j \in solid : i >= j)

\* What has been generated and is no longer in the buffer.
Behind(s) == Len(Joined(answer)) - Len(Joined(s.rest)) - Len(s.buffer)

\* Mutant: only the new text is looked through.
ReadsNewText ==
    /\ stream.stage = "read" /\ stream.rest # << >> /\ Head(stream.rest).kind = "text"
    /\ LET new == Head(stream.rest).text
           index == SplitIndex(new)
           buffer == stream.buffer \o new
           length == Len(stream.buffer) + index
       IN  stream' = IF index = 0
                     THEN [stream EXCEPT !.rest = Tail(@), !.buffer = buffer]
                     ELSE [stream EXCEPT
                         !.rest = Tail(@), !.buffer = SubSeq(buffer, length + 1, Len(buffer)),
                         !.out = Append(@, Text(Strip(SubSeq(buffer, 1, length)))),
                         !.cuts = @ \cup {Behind(stream) + length}]
    /\ UNCHANGED answer

\* The next text is generated; only a buffer with the end of a sentence is
\* looked through.
ReadsText ==
    /\ stream.stage = "read" /\ stream.rest # << >> /\ Head(stream.rest).kind = "text"
    /\ LET buffer == stream.buffer \o Head(stream.rest).text
       IN  stream' = [stream EXCEPT
               !.rest = Tail(@), !.buffer = buffer,
               !.stage = IF \E i \in DOMAIN buffer : buffer[i] \in SplitChars
                         THEN "split" ELSE "read"]
    /\ UNCHANGED answer

\* An image or a voice is posted at once, before the text in the buffer.
PostsMedia ==
    /\ stream.stage = "read" /\ stream.rest # << >> /\ Head(stream.rest).kind \in MediaKinds
    /\ stream' = [stream EXCEPT !.rest = Tail(@), !.out = Append(@, Head(stream.rest))]
    /\ UNCHANGED answer

\* Mutant: the buffer goes on one character too late.
SkipsOne ==
    LET index == SplitIndex(stream.buffer)
    IN  /\ stream.stage = "split" /\ index > 0
        /\ stream' = [stream EXCEPT
               !.out = Append(@, Text(Strip(SubSeq(stream.buffer, 1, index)))),
               !.cuts = @ \cup {Behind(stream) + index},
               !.buffer = SubSeq(@, index + 2, Len(@))]
        /\ UNCHANGED answer

\* _process_streaming_buffer: one segment, and a pause.
PostsSegment ==
    LET index == SplitIndex(stream.buffer)
    IN  /\ stream.stage = "split" /\ index > 0
        /\ stream' = [stream EXCEPT
               !.out = Append(@, Text(Strip(SubSeq(stream.buffer, 1, index)))),
               !.cuts = @ \cup {Behind(stream) + index},
               !.buffer = SubSeq(@, index + 1, Len(@))]
        /\ UNCHANGED answer

ReadsOn ==
    /\ stream.stage = "split" /\ SplitIndex(stream.buffer) = 0
    /\ stream' = [stream EXCEPT !.stage = "read"]
    /\ UNCHANGED answer

\* The answer is complete: what is left goes out unless it is blank.
PostsRest ==
    /\ stream.stage = "read" /\ stream.rest = << >>
    /\ stream' = [stream EXCEPT
           !.stage = "done", !.buffer = << >>,
           !.out = IF Strip(stream.buffer) = << >> THEN @
                   ELSE Append(@, Text(Strip(stream.buffer)))]
    /\ UNCHANGED answer

\* The generator or a post raises (a file that cannot be read, cancellation):
\* nothing more is sent.
Aborts ==
    /\ stream.stage \notin Over
    /\ stream' = [stream EXCEPT !.stage = "aborted"]
    /\ UNCHANGED answer

Streams == ReadsText \/ PostsMedia \/ PostsSegment \/ ReadsOn \/ PostsRest \/ Aborts

-----------------------------------------------------------------------------

\* At every moment the text that was posted, the buffer and what is still to
\* come are the answer: no character is lost, posted twice or out of order,
\* spaces aside, and neither are media, among themselves.  (Media do overtake
\* the text that waits in the buffer.)
StreamIsWhole ==
    stream.stage \notin {"none", "aborted"} =>
        /\ Solid(Joined(stream.out)) \o Solid(stream.buffer) \o Solid(Joined(stream.rest))
               = Solid(Joined(answer))
        /\ MediaOf(stream.out) \o MediaOf(stream.rest) = MediaOf(answer)

\* The cuts of a text that arrives in one piece.
WholeCuts(text) ==
    LET cuts[n \in 0 .. Len(text)] ==
            LET index == SplitIndex(SubSeq(text, n + 1, Len(text)))
            IN  IF index = 0 THEN {} ELSE {n + index} \cup cuts[n + index]
    IN  cuts[0]

\* Where an answer is cut does not depend on how the model happens to chop it
\* up: a marker, a fence or a link that arrives in two pieces is never cut
\* open.  Only a run of ends of sentences may be cut within, when its second
\* part is generated later.
CutsIgnoreChunks ==
    stream.stage = "done" =>
        LET text == Joined(answer)
            whole == WholeCuts(text)
        IN  /\ whole \subseteq stream.cuts
            /\ \A cut \in stream.cuts \ whole : At(text, cut + 1) \in SplitChars

=============================================================================

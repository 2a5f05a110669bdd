-------------------------------- MODULE SSE --------------------------------
(***************************************************************************)
(* The server-sent-event tap of src/internal/provider/sse.go: an upstream  *)
(* stream is passed on as it is read, in reads of any size, while sseTee   *)
(* cuts the bytes into frames and hands each frame's fields to a callback. *)
(*                                                                         *)
(* Bytes are symbols: CR and LF, the field names "data:" and "event:", and *)
(* other letters.  A field name counts as one byte; nothing in the parser  *)
(* looks inside it before the frame is complete.  Exchange opens the tap   *)
(* on an answer and runs it.                                               *)
(***************************************************************************)
EXTENDS Integers, Sequences

CONSTANTS
    Byte,           \* the symbols of a stream
    maxEventBytes   \* limit of the parse buffer

CR == "CR"
LF == "LF"
SP == "SP"

ASSUME SSEAssumption == maxEventBytes \in Nat \ {0}

VARIABLES
    stream,      \* what the upstream sends
    pos,         \* how much of it has been read
    buf,         \* the parse buffer
    events,      \* the calls of onEvent
    overflows,   \* times the buffer was dropped
    closes,      \* calls of onClose
    once,        \* the sync.Once around onClose
    open,        \* Close has not been called
    base, past   \* history: pos and events at the last overflow

tap == <<stream, pos, buf, events, overflows, closes, once, open, base, past>>

-----------------------------------------------------------------------------
(***************************************************************************)
(* The parser's functions                                                  *)
(***************************************************************************)
Terminators == << <<CR, LF, CR, LF>>, <<LF, LF>>, <<CR, CR>> >>

(* bytes.Index, counted from 1; 0 when sep does not occur *)
Index(raw, sep) ==
    LET at == {i \in 1..(Len(raw) - Len(sep) + 1) :
                  SubSeq(raw, i, i + Len(sep) - 1) = sep}
    IN IF at = {} THEN 0 ELSE CHOOSE i \in at : \A j \in at : i <= j

findFrameBoundary(raw) ==
    LET found == {k \in DOMAIN Terminators : Index(raw, Terminators[k]) > 0}
        k == CHOOSE i \in found : \A j \in found :
                 Index(raw, Terminators[i]) <= Index(raw, Terminators[j])
    IN IF found = {} THEN [idx |-> 0, sep |-> 0]
       ELSE [idx |-> Index(raw, Terminators[k]), sep |-> Len(Terminators[k])]

(* Breaks AgreesWithEventSource: lines end at LF only. *)
splitSSELines_LFOnly(msg) ==
    LET at[i \in 0..Len(msg)] ==
            IF i = 0 THEN [lines |-> <<>>, start |-> 1]
            ELSE IF msg[i] # LF THEN at[i - 1]
            ELSE [lines |-> Append(at[i - 1].lines, SubSeq(msg, at[i - 1].start, i - 1)),
                  start |-> i + 1]
    IN Append(at[Len(msg)].lines, SubSeq(msg, at[Len(msg)].start, Len(msg)))

(* What the loop makes of byte i: CR LF, LF and CR each end a line; an LF right
   after a CR belongs to it *)
SplitAt(msg, i, s) ==
    CASE msg[i] \notin {CR, LF} -> s
      [] msg[i] = LF /\ i > 1 /\ msg[i - 1] = CR -> [s EXCEPT !.start = i + 1]
      [] OTHER -> [lines |-> Append(s.lines, SubSeq(msg, s.start, i - 1)), start |-> i + 1]

(* The lines of a frame; a last line without an end counts when not empty *)
splitSSELines(msg) ==
    LET at[i \in 0..Len(msg)] ==
            IF i = 0 THEN [lines |-> <<>>, start |-> 1] ELSE SplitAt(msg, i, at[i - 1])
        end == at[Len(msg)]
    IN IF end.start <= Len(msg) THEN Append(end.lines, SubSeq(msg, end.start, Len(msg)))
       ELSE end.lines

TrimSpace(s) ==
    LET kept == {i \in DOMAIN s : s[i] # SP}
    IN IF kept = {} THEN <<>>
       ELSE SubSeq(s, CHOOSE i \in kept : \A j \in kept : i <= j,
                      CHOOSE i \in kept : \A j \in kept : j <= i)

(* The fields of a frame: the last event: line and all data: lines *)
NoFields == [event |-> <<>>, data |-> <<>>]

Field(f, line) ==
    CASE line # <<>> /\ line[1] = "event:" -> [f EXCEPT !.event = TrimSpace(Tail(line))]
      [] line # <<>> /\ line[1] = "data:" -> [f EXCEPT !.data = @ \o TrimSpace(Tail(line))]
      [] OTHER -> f

Fields(msg) ==
    LET lines == splitSSELines(msg)
        upto[k \in 0..Len(lines)] ==
            IF k = 0 THEN NoFields ELSE Field(upto[k - 1], lines[k])
    IN upto[Len(lines)]

dispatch(out, msg) ==
    IF Fields(msg) = NoFields THEN out ELSE Append(out, Fields(msg))

(* One round of drain's loop on the buffer and the calls of onEvent: the first
   complete frame is cut off; nothing is left to do when there is none *)
Cut(s) ==
    LET at == findFrameBoundary(s.buf)
    IN IF at.idx = 0 THEN s
       ELSE [buf |-> SubSeq(s.buf, at.idx + at.sep, Len(s.buf)),
             out |-> dispatch(s.out, SubSeq(s.buf, 1, at.idx - 1))]

(* The frames that are complete.  Every cut shortens the buffer: the loop has
   ended after as many rounds as there are bytes. *)
Drained(b, out) ==
    LET round[i \in 0..Len(b)] ==
            IF i = 0 THEN [buf |-> b, out |-> out] ELSE Cut(round[i - 1])
    IN round[Len(b)]

(* Breaks ChunkingInvisible: one frame is taken for each Read. *)
drain_FirstFrame(b, out, eof) ==
    LET s == Cut([buf |-> b, out |-> out])
    IN IF eof /\ s.buf # <<>> THEN [buf |-> <<>>, out |-> dispatch(s.out, s.buf)] ELSE s

(* drain: every complete frame of b, and at the end of the stream the rest *)
drain(b, out, eof) ==
    LET s == Drained(b, out)
    IN IF eof /\ s.buf # <<>> THEN [buf |-> <<>>, out |-> dispatch(s.out, s.buf)] ELSE s

-----------------------------------------------------------------------------
newSSETee(body) ==
    /\ stream = body
    /\ pos = 0 /\ buf = <<>> /\ events = <<>>
    /\ overflows = 0 /\ closes = 0 /\ once = FALSE /\ open = TRUE
    /\ base = 0 /\ past = <<>>

(* once.Do(onClose) *)
CloseOnce ==
    /\ once' = TRUE
    /\ closes' = IF once THEN closes ELSE closes + 1

(* Breaks BufferBounded: the limit is checked before the write. *)
Read_ChecksFirst(n) ==
    /\ open /\ ~ once /\ pos + n <= Len(stream)
    /\ pos' = pos + n
    /\ LET b == buf \o SubSeq(stream, pos + 1, pos + n)
       IN IF Len(buf) > maxEventBytes
          THEN /\ buf' = <<>>
               /\ overflows' = overflows + 1
               /\ base' = pos + n /\ past' = events
               /\ UNCHANGED events
          ELSE /\ buf' = drain(b, events, FALSE).buf
               /\ events' = drain(b, events, FALSE).out
               /\ UNCHANGED <<overflows, base, past>>
    /\ UNCHANGED <<stream, closes, once, open>>

(* A Read of n > 0 bytes; one that also returns an error is followed by ReadErr *)
Read(n) ==
    /\ open /\ ~ once /\ pos + n <= Len(stream)
    /\ pos' = pos + n
    /\ LET b == buf \o SubSeq(stream, pos + 1, pos + n)
       IN IF Len(b) > maxEventBytes
          THEN /\ buf' = <<>>
               /\ overflows' = overflows + 1
               /\ base' = pos + n /\ past' = events
               /\ UNCHANGED events
          ELSE /\ buf' = drain(b, events, FALSE).buf
               /\ events' = drain(b, events, FALSE).out
               /\ UNCHANGED <<overflows, base, past>>
    /\ UNCHANGED <<stream, closes, once, open>>

(* A Read that ends the stream, at EOF or before it by a transport error;
   the error is sticky, so a caller that reads on gets it again *)
ReadErr ==
    /\ open
    /\ pos' = pos
    /\ buf' = drain(buf, events, TRUE).buf
    /\ events' = drain(buf, events, TRUE).out
    /\ CloseOnce
    /\ UNCHANGED <<stream, overflows, open, base, past>>

Close ==
    /\ open
    /\ open' = FALSE
    /\ CloseOnce
    /\ UNCHANGED <<stream, pos, buf, events, overflows, base, past>>

-----------------------------------------------------------------------------
(* What has been read since the last overflow *)
SinceOverflow == SubSeq(stream, base + 1, pos)

(* The parse buffer never keeps more than maxEventBytes, whatever the upstream
   sends and however it is read (sseTee.Read). *)
BufferBounded == Len(buf) <= maxEventBytes

(***************************************************************************)
(* The EventSource reading of a stream: its lines, gathered into an event  *)
(* at each blank line; the tap also gathers what is left at the end.       *)
(***************************************************************************)
(* Streams that end every line in the same one of the three ways *)
Uniform ==
    \/ \A i \in DOMAIN stream : stream[i] # CR
    \/ \A i \in DOMAIN stream : stream[i] # LF
    \/ \A i \in 1..(Len(stream) + 1) :
           (i <= Len(stream) /\ stream[i] = CR)
               <=> (i < Len(stream) /\ stream[i + 1] = LF)

(* The lines that have ended before byte i + 1, and the line it is on *)
Lines(s) ==
    LET read[i \in 0..Len(s)] ==
            IF i = 0 THEN << <<>> >>
            ELSE LET before == read[i - 1]
                     n == Len(before)
                 IN IF s[i] = CR \/ (s[i] = LF /\ (i = 1 \/ s[i - 1] # CR))
                    THEN Append(before, <<>>)
                    ELSE IF s[i] = LF THEN before
                    ELSE [before EXCEPT ![n] = Append(@, s[i])]
    IN read[Len(s)]

(* Frames end at blank lines.  The fields of a frame are read as the tap reads
   them, where the EventSource rules join data lines with LF, trim at most a space
   and discard a frame that the end of the stream cuts off *)
Gathered(lines) ==
    LET upto[k \in 0..Len(lines)] ==
            IF k = 0 THEN [frame |-> <<>>, out |-> <<>>]
            ELSE IF lines[k] = <<>>
                 THEN [frame |-> <<>>, out |-> dispatch(upto[k - 1].out, upto[k - 1].frame)]
                 ELSE [upto[k - 1] EXCEPT !.frame = @ \o lines[k] \o <<LF>>]
    IN dispatch(upto[Len(lines)].out, upto[Len(lines)].frame)
=============================================================================

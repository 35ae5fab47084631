----------------------------- MODULE LineTransport -----------------------------
(***************************************************************************)
(* The transports of transport/ws.rs and transport/http.rs behind the port *)
(* of transport/mod.rs, down to the octets: which calls read, buffer, give *)
(* and forget what, however the network splits what the server wrote and   *)
(* wherever the connection is cut.                                         *)
(*                                                                         *)
(* A transcript is all that arrives on one connection: its octets, each    *)
(* marked as payload or framing, and how it ends.  The transport sees the  *)
(* octets, never the marks; the marks say what it should make of them.     *)
(*                                                                         *)
(* The session driver's part is kept to the order of its calls: it opens   *)
(* when it is not bound, reads until an end, an error or LOOP, and closes  *)
(* the transport unless the end was one it can go on from.                 *)
(***************************************************************************)
EXTENDS HttpBody

CONSTANTS
    Kinds,         \* of AnyTransport: "ws", "streaming", "polling"
    Payloads,      \* what a server writes on a stream connection
    ControlBodies, \* and in answer to a control request
    MaxBody,       \* MAX_CONTROL_BODY_BYTES
    MaxAnswers     \* bound on the control lines queued at one time

ASSUME LineTransportAssumption ==
    /\ Kinds \subseteq {"ws", "streaming", "polling"}
    /\ MaxBody \in Nat /\ MaxAnswers \in Nat

VARIABLES
    kind,     \* which transport this is
    stream,   \* the socket, with the state of its body on HTTP
    lines,    \* the LineBuffer
    last,     \* pending_final or truncated: given after the complete lines
    answers,  \* control_lines
    gave,     \* what the last call gave
    driver,   \* free to open, opening, bound to the stream, looped, or failed
    script,   \* the transcript of the current connection
    at,       \* how many of its octets have been delivered
    given     \* how many of its items next_line has given

vars == <<kind, stream, lines, last, answers, gave, driver, script, at, given>>

Http == kind # "ws"

(* TransportProperties *)
IsPolling == kind = "polling"

NoStream == [is |-> "none"]
Socket   == [is |-> "socket"]
Body(framing, pending) == [is |-> "body", framing |-> framing, pending |-> pending]
Nothing  == [is |-> "nothing"]

Loop == <<"L">>   \* the line after which the server rebinds

-----------------------------------------------------------------------------
(* Transcripts.  The server's side: what it may have written.              *)

Payload(octets) == [k \in DOMAIN octets |-> [o |-> octets[k], data |-> TRUE]]
Framing(octets) == [k \in DOMAIN octets |-> [o |-> octets[k], data |-> FALSE]]

Chunk(octets) ==
    IF octets = << >> THEN << >>
    ELSE Framing(<<HexDigits[Len(octets) + 1], ";", "x", CR, LF>>)
         \o Payload(octets) \o Framing(<<CR, LF>>)

(* Two chunks, cut anywhere, and a trailer line.                           *)
ChunkedBody(octets, cut) ==
    Chunk(SubSeq(octets, 1, cut)) \o Chunk(Beyond(octets, cut))
    \o Framing(<<"0", CR, LF, "x", CR, LF, CR, LF>>)

Header(name, value) == [name |-> name, value |-> value]

Responses(octets) ==
    {[headers |-> <<Header("content-length", Len(octets))>>, wire |-> Payload(octets)],
     [headers |-> << >>, wire |-> Payload(octets)],
     [headers |-> <<Header("content-length", BadSize)>>, wire |-> Payload(octets)],
     [headers |-> <<Header("transfer-encoding", {"chunked"})>>,
      wire |-> Chunk(octets) \o Framing(<<"x", CR, LF>>)]}
    \cup {[headers |-> <<Header("transfer-encoding", {"chunked"}), Header("content-length", 1)>>,
           wire |-> ChunkedBody(octets, cut)] : cut \in 0 .. Len(octets)}

(* Cut anywhere, and ended by a FIN, a reset, or not at all.               *)
Cuts(over, headers, wire) ==
    {[over |-> over, headers |-> headers, full |-> Len(wire), wire |-> SubSeq(wire, 1, n),
      ending |-> ending] : n \in 0 .. Len(wire), ending \in {"fin", "reset", "silence"}}

Replies(payloads) ==
    UNION {Cuts("http", r.headers, r.wire) : r \in UNION {Responses(p) : p \in payloads}}
Messages(payloads) == UNION {Cuts("ws", << >>, Payload(p)) : p \in payloads}

Octets(wire) == [k \in DOMAIN wire |-> wire[k].o]

-----------------------------------------------------------------------------
(* What a transcript promises, taken as a whole.                           *)

Content(t) == LET data == SelectSeq(t.wire, LAMBDA b : b.data) IN Octets(data)

Breaks(text) == SetToSortSeq({k \in DOMAIN text : text[k] = LF}, LAMBDA a, b : a < b)

CompleteLines(text) ==
    LET ends == Breaks(text)
        line(j) == StripCr(SubSeq(text, IF j = 1 THEN 1 ELSE ends[j - 1] + 1, ends[j] - 1))
    IN  SelectSeq([j \in DOMAIN ends |-> line(j)], LAMBDA l : l # << >>)

LeftOver(text) == LET ends == Breaks(text)
                  IN  IF ends = << >> THEN text ELSE Beyond(text, Last(ends))

Framed(t) == t.headers # << >>

(* The body is all there: an HTTP client knows by its framing, or by the   *)
(* FIN when there is none.                                                 *)
Whole(t) == t.over = "http" /\ IF Framed(t) THEN Len(t.wire) = t.full ELSE t.ending = "fin"

Promise(t) ==
    LET text  == Content(t)
        final == IF Whole(t) THEN Kept(LeftOver(text)) ELSE << >>
        all   == CompleteLines(text) \o final
    IN  [k \in DOMAIN all |-> Decoded(all[k])]

(* A framing the client refuses: no chunk size where one belongs, or a     *)
(* line too long to hold.                                                  *)
Garbled(t) ==
    \/ Framed(t) /\ t.headers[1].name = "transfer-encoding" /\ Len(t.headers) = 1
    \/ LET text == Content(t)
       IN  \E a, b \in 0 .. Len(text) : b - a > MaxLineBytes /\ \A k \in a + 1 .. b : text[k] # LF

EndsOf(t) ==
    CASE Garbled(t) -> "garbled"
      [] ~Garbled(t) /\ Whole(t) -> "clean"
      [] ~Garbled(t) /\ ~Whole(t) /\ t.ending = "severed" -> "severed"
      [] ~Garbled(t) /\ ~Whole(t) /\ t.ending = "silence" -> "never"
      [] ~Garbled(t) /\ ~Whole(t) /\ t.ending = "reset" -> "broken"
      [] OTHER -> IF t.over = "http" THEN "broken"
                  ELSE IF LeftOver(Content(t)) = << >> THEN "clean" ELSE "torn"

(* What a connection has in store: a transcript, with what it promises.    *)
Script(t) == [over |-> t.over, headers |-> t.headers, full |-> t.full, wire |-> t.wire,
              ending |-> t.ending, promise |-> Promise(t), ends |-> EndsOf(t)]

BodyScripts    == {Script(t) : t \in {u \in Replies(Payloads) :
                                        FramingFromHeaders(u.headers) # NoFraming}}
MessageScripts == {Script(t) : t \in Messages(Payloads)}
NoScript == Script([over |-> "none", headers |-> << >>, full |-> 0, wire |-> << >>,
                    ending |-> "silence"])

-----------------------------------------------------------------------------
Init ==
    /\ kind \in Kinds
    /\ stream = NoStream /\ lines = EmptyBuffer /\ last = << >> /\ answers = << >>
    /\ gave = Nothing /\ driver = "free"
    /\ script = NoScript /\ at = 0 /\ given = 0

(* The transport with its stream side replaced by t.                       *)
Becomes(t) == stream' = t.stream /\ lines' = t.lines /\ last' = t.last /\ gave' = t.gave

Current == [stream |-> stream, lines |-> lines, last |-> last, gave |-> Nothing]
\* The line buffer goes on into the next connection.
DroppedKeepingLines == [stream |-> NoStream, lines |-> lines, last |-> << >>, gave |-> Nothing]
Dropped == [stream |-> NoStream, lines |-> EmptyBuffer, last |-> << >>, gave |-> Nothing]
Broken(error) == [Dropped EXCEPT !.gave = Failure(error)]

-----------------------------------------------------------------------------
(* How many octets of n one read may bring: some of them, or all.          *)
Portions(n) == {1, 2, n} \cap 1 .. n

(* open_stream.  HTTP posts anew each time and drops what the connection   *)
(* before held; a WebSocket rebinds on the connection it has, if it has    *)
(* one, and dials for a session.                                           *)
Open ==
    /\ driver \in {"free", "looped"}
    /\ Becomes(IF stream = Socket THEN Current ELSE Dropped)
    /\ driver' = "opening" /\ script' = NoScript /\ at' = 0 /\ given' = 0
    /\ UNCHANGED <<kind, answers>>

(* The octets that come with the response head wait in the body.           *)
OpenHttp ==
    /\ Http /\ driver = "opening"
    /\ script' \in BodyScripts
    /\ at' \in {0} \cup Portions(Len(script'.wire))
    /\ Becomes([Dropped EXCEPT !.stream =
          Body(FramingFromHeaders(script'.headers), SubSeq(Octets(script'.wire), 1, at'))])
    /\ driver' = "bound"
    /\ UNCHANGED <<kind, answers, given>>

OpenWebSocket ==
    /\ ~Http /\ driver = "opening"
    /\ script' \in MessageScripts
    /\ Becomes([Current EXCEPT !.stream = Socket])
    /\ driver' = "bound"
    /\ UNCHANGED <<kind, answers, at, given>>

(* No connection, no head, no success, or a write or a wait that failed.   *)
OpenFails ==
    /\ driver = "opening"
    /\ Becomes(Current) \/ Becomes(Dropped)
    /\ driver' = "failed"
    /\ UNCHANGED <<kind, answers, script, at, given>>

-----------------------------------------------------------------------------
(* next_line, one turn of its loop.                                        *)

(* What is buffered goes first: the complete lines, then what was held for *)
(* after them, then the end of a stream that is no more.                   *)
Handed(t) ==
    CASE t.gave # Nothing -> t
      [] t.gave = Nothing /\ t.lines.ready # << >> ->
            [t EXCEPT !.lines = PopLine(t.lines).buffer, !.gave = PopLine(t.lines).item]
      [] t.gave = Nothing /\ t.lines.ready = << >> /\ t.last # << >> ->
            [t EXCEPT !.last = << >>, !.gave = Head(t.last)]
      [] t.gave = Nothing /\ t.lines.ready = << >> /\ t.last = << >> /\ t.stream = NoStream ->
            [t EXCEPT !.gave = End]
      [] OTHER -> t

(* What the session driver makes of it: after LOOP it may rebind on the    *)
(* connection it has, and the end of a polling cycle is one.               *)
Driven(item) ==
    CASE item = Nothing -> "bound"
      [] item = Line(Loop) -> "looped"
      [] item.is = "line" /\ item # Line(Loop) -> "bound"
      [] item = End -> IF IsPolling THEN "looped" ELSE "failed"
      [] item.is = "error" -> "failed"

Counted(item) == IF item \in {Nothing, End} THEN given ELSE Min({given + 1, Len(script.promise)})

GiveAnswer ==
    /\ driver = "bound" /\ answers # << >>
    /\ gave' = Line(Head(answers)) /\ answers' = Tail(answers)
    /\ UNCHANGED <<kind, stream, lines, last, driver, script, at, given>>

GiveBuffered ==
    /\ driver = "bound" /\ answers = << >>
    /\ Handed(Current).gave # Nothing
    /\ Becomes(Handed(Current))
    /\ driver' = Driven(gave') /\ given' = Counted(gave')
    /\ UNCHANGED <<kind, answers, script, at>>

(* Nothing buffered: the stream is read, which gives t and brings n octets. *)
Reads(t, n) ==
    /\ driver = "bound" /\ answers = << >>
    /\ Handed(Current).gave = Nothing
    /\ Becomes(Handed(t))
    /\ at' = at + n
    /\ driver' = Driven(gave')
    /\ given' = IF t.gave = Nothing THEN Counted(gave') ELSE Len(script.promise)
    /\ UNCHANGED <<kind, answers, script>>

NextOctets(n) == Octets(SubSeq(script.wire, at + 1, at + n))
Remaining == Len(script.wire) - at

(* The octets a decoding step yielded go to the line buffer; with the last *)
(* of them the fragment left over is the last line.                        *)
Ended(final) == [Current EXCEPT !.stream = NoStream, !.lines = final.buffer, !.last = final.items]
Pushed(body, pushed) ==
    CASE ~pushed.ok -> Broken("capacity")
      [] pushed.ok /\ body.done -> Ended(FlushPartial(pushed.buffer))
      [] OTHER -> [Current EXCEPT !.stream = Body(body.framing, body.pending),
                                  !.lines = pushed.buffer]
Absorbed(body) ==
    IF body.ok THEN Pushed(body, PushBytes(lines, body.out)) ELSE Broken("malformed")

(* read_chunk decodes what it has before it turns to the socket.           *)
\* Octets in hand wait for more of them.
YieldsAtEnd(body) == ~body.ok \/ body.done
InHand == DecodeBody(stream.framing, stream.pending)
Yields(body) == ~body.ok \/ body.done \/ body.out # << >>

TakesInHand(body) == Yields(body) /\ Reads(Absorbed(body), 0)
ReadInHand == stream.is = "body" /\ TakesInHand(InHand)

TakesMore(body) ==
    /\ ~Yields(body)
    /\ \/ \E n \in Portions(Remaining) :
             Reads(Absorbed(DecodeBody(body.framing, body.pending \o NextOctets(n))), n)
       \/ /\ Remaining = 0 /\ script.ending = "fin"
          /\ Reads(IF CompleteAtEof(body.framing)
                   THEN Absorbed([body EXCEPT !.done = TRUE]) ELSE Broken("lost"), 0)
       \/ Remaining = 0 /\ script.ending = "reset" /\ Reads(Broken("lost"), 0)
ReadBody == stream.is = "body" /\ TakesMore(InHand)

(* A text message; it is a text, so no character is split over two.        *)
Message(n) ==
    LET pushed == PushBytes(lines, NextOctets(n))
    IN  IF pushed.ok THEN [Current EXCEPT !.lines = pushed.buffer] ELSE Broken("capacity")

ReadSocket ==
    /\ stream = Socket
    /\ \/ \E n \in Portions(Remaining) : IsUtf8(NextOctets(n)) /\ Reads(Message(n), n)
       \/ Remaining = 0 /\ script.ending = "reset" /\ Reads(Broken("lost"), 0)

(* acknowledge_peer_close, and what is left of a line is reported.         *)
PeerCloses ==
    /\ stream = Socket /\ Remaining = 0 /\ script.ending = "fin"
    /\ LET torn == DiscardPartial(lines)
       IN  Reads([Current EXCEPT !.stream = NoStream, !.lines = torn.buffer,
                  !.last = IF torn.held THEN <<Failure("malformed")>> ELSE << >>], 0)

(* The same, given up by the driver while the close frame is being sent.   *)
PeerClosesInterrupted ==
    /\ stream = Socket /\ Remaining = 0 /\ script.ending = "fin"
    /\ driver = "bound" /\ answers = << >> /\ Handed(Current).gave = Nothing
    /\ Becomes([Current EXCEPT !.stream = NoStream])
    /\ UNCHANGED <<kind, answers, driver, script, at, given>>

Read == ReadInHand \/ ReadBody \/ ReadSocket \/ PeerCloses

NextLine == GiveAnswer \/ GiveBuffered \/ Read \/ PeerClosesInterrupted

-----------------------------------------------------------------------------
(* send_control *)

(* control_round_trip: the body, read in the given pieces, as far as it    *)
(* comes.  An end of the connection ends the body, complete or not.        *)
RoundTrip(t, pieces) ==
    LET read(run, piece) ==
            LET body == DecodeBody(run.framing, run.pending \o piece)
                all  == run.body \o body.out
            IN  IF ~run.ok \/ run.done THEN run
                ELSE [ok |-> body.ok /\ Len(all) <= MaxBody, done |-> body.done, body |-> all,
                      framing |-> body.framing, pending |-> body.pending]
        end == FoldLeft(read, [ok |-> TRUE, done |-> FALSE, body |-> << >>, pending |-> << >>,
                               framing |-> FramingFromHeaders(t.headers)], pieces)
    IN  IF end.ok /\ (end.done \/ t.ending = "fin") THEN SplitBodyLines(end.body) ELSE << >>

(* In one read, or in two, cut anywhere.                                   *)
Splits(octets) == {<<SubSeq(octets, 1, c), Beyond(octets, c)>> : c \in 0 .. Len(octets)}

(* What may come of it, none for a request that fails.                     *)
ControlAnswers ==
    UNION {{RoundTrip(t, pieces) : pieces \in Splits(Octets(t.wire))} :
             t \in {u \in Replies(ControlBodies) : FramingFromHeaders(u.headers) # NoFraming}}
    \cup {<< >>}

(* The answer comes on a connection of its own, and is read before         *)
(* send_control returns.                                                   *)
SendControlHttp ==
    /\ Http /\ driver = "bound"
    /\ \E answer \in ControlAnswers :
          /\ Len(answers) + Len(answer) <= MaxAnswers
          /\ \A k \in DOMAIN answer : IsUtf8(answer[k])
          /\ answers' = answers \o answer
    /\ gave' = Nothing
    /\ UNCHANGED <<kind, stream, lines, last, driver, script, at, given>>

(* On a WebSocket it is one message on the socket there is; a write that   *)
(* fails for good takes the socket with it and keeps the lines.            *)
SendControlSevers ==
    /\ stream = Socket /\ driver = "bound"
    /\ stream' = NoStream /\ gave' = Nothing
    /\ script' = Script([script EXCEPT !.wire = SubSeq(@, 1, at), !.ending = "severed"])
    /\ UNCHANGED <<kind, lines, last, answers, driver, at, given>>

(* close: by the driver, after a failure, a stall, or an order to stop.    *)
Close ==
    /\ Becomes(Dropped) /\ answers' = << >>
    /\ driver' = "free" /\ script' = NoScript /\ at' = 0 /\ given' = 0
    /\ UNCHANGED kind

Next == Open \/ OpenHttp \/ OpenWebSocket \/ OpenFails \/ NextLine
        \/ SendControlHttp \/ SendControlSevers \/ Close

Spec == Init /\ [][Next]_vars
-----------------------------------------------------------------------------
(* Every octet run is where it belongs. *)
TypeOK ==
    /\ kind \in Kinds
    /\ stream \in {NoStream, Socket} \/ (Http /\ stream.is = "body")
    /\ lines.partial \in Seq(STRING) /\ Len(lines.partial) <= MaxLineBytes
    /\ Len(last) <= 1
    /\ Len(answers) <= MaxAnswers
    /\ driver \in {"free", "opening", "bound", "looped", "failed"}
    /\ at \in 0 .. Len(script.wire)
    /\ given \in 0 .. Len(script.promise)

Texts == UNION {{SubSeq(p, a, b) : a \in 1 .. Len(p), b \in 1 .. Len(p)} : p \in Payloads \cup ControlBodies}

Items == {Line(text) : text \in Texts} \cup {Failure("malformed")}

Channel == INSTANCE LineChannel WITH
    due <- Beyond(script.promise, given), ends <- script.ends,
    answers <- [k \in DOMAIN answers |-> Line(answers[k])]

(* Whatever the reads and wherever the cut, the session is given the lines *)
(* of one connection in their order, none left out, none cut short, none   *)
(* of a connection before; an end is clean only when all were given.       *)
KeepsChannel == Channel!Spec

(* The socket is read only when every line that has arrived was given: no  *)
(* line waits, in some buffer, for octets that may never come.             *)
Arrived == [script EXCEPT !.wire = SubSeq(@, 1, at), !.ending = "silence"]
NoLineWaits ==
    [][driver = "bound" /\ at' > at => given = Len(Promise(Arrived))]_vars

(* Whatever is given as an answer to a control request, the server wrote   *)
(* as a line.                                                              *)
NoHalfAnswer ==
    \A k \in DOMAIN answers :
        \E body \in ControlBodies : answers[k] \in Range(SplitBodyLines(body))
=============================================================================

------------------------------ MODULE ClientCalls ------------------------------
(***************************************************************************)
(* What a caller asks, put into words, and the server's answers read back: *)
(* settings and builders, the session driver's requests, the encoding of   *)
(* each transport, and the parser.  The server is external: it reads a     *)
(* request the way TLCP lays it down and answers under its own ledger.     *)
(*                                                                         *)
(* SessionDriver says when a request may go out and what becomes of it;    *)
(* here a caller asks only while a session is bound.                       *)
(***************************************************************************)
EXTENDS Settings, Addresses, Builders, Responses

CONSTANTS Callers,     \* each sets an address (and what it names), settings and a
                       \* user, password and adapter set, and makes its asks
          Sessions,    \* what a server may answer an opening with: the text of an
                       \* identifier, a link, and the host and port the link names
          Remarks,     \* the texts a server may put in an answer
          MaxOpens     \* stream connections opened in a behaviour

VARIABLES caller,
          phase,        \* "configured", "unbound", "opening", "bound" or "refused"
          intent,       \* the request the next stream is opened with
          session,      \* the driver's session identifier
          link,         \* the address the next connection goes to instead
          progressive,  \* data notifications handed on
          nextRequest, nextSub,
          pending,      \* request identifier -> the ask it carries
          subs,         \* subscription identifier -> the ask it answers
          asked,        \* how many of the caller's asks it has made
          withheld,     \* accepted asks the encoder would not write
          opens,
          dialled,      \* the connections made for streams
          wire,         \* requests on their way
          issued,       \* the server's own name for the session
          heard,        \* what the server understood, and what was meant
          decided,      \* what the server decided of each ask
          lines,        \* answers on their way
          reports,      \* what the caller was told of its asks
          outcomes,     \* and of its messages, by their sequence and number
          unread        \* lines that told the driver nothing

client == <<caller, phase, intent, session, link, progressive, nextRequest, nextSub, pending,
            subs, asked, withheld, opens>>
server == <<issued, heard, decided>>
vars == <<client, dialled, wire, server, lines, reports, outcomes, unread>>

Kind == ControlKind(caller.settings)
None == 0   \* a stream-opening request or a heartbeat: no ask of the caller

-----------------------------------------------------------------------------
(* The server: external.  Lines, then parameters, then a name and a value; *)
(* a plus is a space.                                                      *)

PartedAt(separator, text) ==
    LET part(state, octet) ==
            IF octet = separator THEN Append(state, << >>)
            ELSE [state EXCEPT ![Len(state)] = Append(@, octet)]
    IN  Scan(part, << << >> >>, text)
LinesOf(body) == PartedAt(LF, SelectSeq(body, LAMBDA octet : octet # CR))

ValueOf(text) ==
    LET spaced  == [k \in DOMAIN text |-> IF text[k] = "+" THEN " " ELSE text[k]]
        decoded == PercentDecode(spaced)
    IN  IF decoded.ok THEN decoded.text ELSE <<"garbled">>

(* What a parameter left out stands for.                                   *)
Defaults ==
    "LS_snapshot" :> Word("false") @@ "LS_requested_max_frequency" :> Unlimited
    @@ "LS_outcome" :> Word("true") @@ "LS_send_sync" :> Word("true")
    @@ "LS_polling" :> Word("false")

Understood(request) ==
    LET body  == LinesOf(request.octets)
        told  == IF request.target = << >> THEN Tail(body) ELSE body
        parts == PartedAt("&", told[1])
        at(name) == CHOOSE k \in DOMAIN parts : parts[k][1] = name
    IN  [name   |-> IF request.target = << >> THEN body[1] ELSE <<request.target[1]>>,
         single |-> Len(told) = 1 /\ IsInjective([k \in DOMAIN parts |-> parts[k][1]]),
         says   |-> [name \in {parts[k][1] : k \in DOMAIN parts} |->
                        ValueOf(SubSeq(parts[at(name)], 3, Len(parts[at(name)])))]]

(* A text of the server's, encoded as little as its place in a line        *)
(* allows: the last of a line keeps its commas.                            *)
Encoded(text, octets) ==
    FlattenSeq([k \in DOMAIN text |->
        IF text[k] \in octets THEN <<"%">> \o Codes[text[k]] ELSE <<text[k]>>])
Written(text) == Encoded(text, {"%", CR, LF, ","})
WrittenLast(text) == Encoded(text, {"%", CR, LF})
LineOf(tag, arguments) ==
    Word(tag) \o FlattenSeq([k \in DOMAIN arguments |-> <<",">> \o arguments[k]])

-----------------------------------------------------------------------------
(* What the caller's words mean to a server, parameter by parameter.       *)

Optional(name, option) == IF option = Absent THEN << >> ELSE name :> option[1]

MeantByConnection ==
    "LS_send_sync" :> Word(IF caller.settings.sendSync \/ caller.settings.transport = "HttpPolling"
                           THEN "true" ELSE "false")
    @@ "LS_polling" :> Word(IF caller.settings.transport = "HttpPolling" THEN "true" ELSE "false")
    @@ Optional("LS_content_length", [k \in DOMAIN caller.settings.contentLength |->
                                        Numeral(caller.settings.contentLength[k])])

MeantByOpening ==
    IF intent.is = "create"
    THEN Optional("LS_user", caller.user) @@ Optional("LS_password", caller.password)
         @@ Optional("LS_adapter_set", caller.adapterSet) @@ MeantByConnection
    ELSE Optional("LS_recovery_from",
                  IF intent.is = "rebind" THEN Absent ELSE Given(Numeral(progressive)))
         @@ MeantByConnection

MeantBy(ask) ==
    CASE ask.kind = "subscribe" ->
            "LS_op" :> Word("add") @@ "LS_mode" :> Word(ask.want.mode)
            @@ "LS_snapshot" :> (CASE ask.want.snapshot = Word("on") -> Word("true")
                                   [] ask.want.snapshot = Word("off") -> Word("false")
                                   [] OTHER -> ask.want.snapshot)
            @@ "LS_requested_max_frequency" :> ask.want.frequency
            @@ Optional("LS_requested_buffer_size",
                        IF ask.want.buffer = Word("server") THEN Absent ELSE Given(ask.want.buffer))
            @@ Optional("LS_data_adapter", ask.want.adapter)
            @@ Optional("LS_selector", ask.want.selector)
      [] ask.kind = "unsubscribe" -> "LS_op" :> Word("delete")
      [] ask.kind = "reconfigure" ->
            "LS_op" :> Word("reconf") @@ "LS_requested_max_frequency" :> ask.frequency
      [] ask.kind = "rebind" ->
            "LS_op" :> Word("force_rebind")
            @@ Optional("LS_close_socket", [k \in DOMAIN ask.closeSocket |->
                                              Word(IF ask.closeSocket[k] THEN "true" ELSE "false")])
      [] ask.kind = "destroy" -> "LS_op" :> Word("destroy")
      [] ask.kind = "heartbeat" -> << >>
      [] OTHER ->
            "LS_message" :> ask.want.text @@ Optional("LS_sequence", ask.want.sequence)
            @@ Optional("LS_msg_prog",
                        [k \in DOMAIN ask.want.progressive |-> Numeral(ask.want.progressive[k])])
            @@ Optional("LS_max_wait",
                        [k \in DOMAIN ask.want.maxWait |-> Numeral(ask.want.maxWait[k])])
            @@ "LS_outcome" :> Word(IF ask.want.progressive = Absent THEN "false" ELSE "true")

-----------------------------------------------------------------------------
(* Client::connect, SessionDriver::build_open and Transport::open_stream.  *)

Init ==
    /\ caller \in Callers
    /\ phase = "configured" /\ intent = [is |-> "create"] /\ session = Absent
    /\ link = Absent /\ dialled = {}
    /\ progressive = 0 /\ nextRequest = 1 /\ nextSub = 1
    /\ pending = << >> /\ subs = << >> /\ asked = 0 /\ withheld = {} /\ opens = 0
    /\ wire = << >> /\ issued = << >> /\ heard = << >> /\ decided = {}
    /\ lines = {} /\ reports = {} /\ outcomes = {} /\ unread = {}

Configure ==
    /\ phase = "configured"
    /\ phase' = IF TryNew(caller.address).ok /\ TimingsAreChecked(caller.settings)
                   /\ \A k \in DOMAIN caller.adapterSet : NameIsChecked(caller.adapterSet[k])
                THEN "unbound" ELSE "refused"
    /\ UNCHANGED <<caller, intent, session, link, progressive, nextRequest, nextSub, pending, subs,
                   asked, withheld, opens, dialled, wire, server, lines, reports, outcomes, unread>>

Outgoing(op, line, of, meant) ==
    [target |-> IF Kind = "ws" THEN << >> ELSE HttpRequest(op, line).target,
     octets |-> IF Kind = "ws" THEN WsMessage(op, line) ELSE HttpRequest(op, line).body,
     of |-> of, meant |-> meant @@ Defaults]

(* Put the request on the wire, or hold it back when it does not encode.   *)
Dispatch(op, request, of, meant) ==
    LET encoded == EncodeParameters(op, request, Kind)
    IN  IF encoded.ok
        THEN wire' = Append(wire, Outgoing(op, encoded.line, of, meant)) /\ UNCHANGED withheld
        ELSE withheld' = withheld \cup {of} /\ UNCHANGED wire

Credentials ==
    [user |-> caller.user, password |-> caller.password, adapterSet |-> caller.adapterSet,
     contentLength |-> caller.settings.contentLength, connection |-> Connection(caller.settings)]
Rebinding ==
    [session |-> session, contentLength |-> caller.settings.contentLength,
     recoveryFrom |-> IF intent.is = "recover" THEN Given(progressive) ELSE Absent,
     connection |-> Connection(caller.settings)]

(* A connection that cannot be made is a failed opening.                   *)
OpenStream ==
    /\ phase = "unbound" /\ opens < MaxOpens
    /\ LET endpoint == Dialled(Kind, TryNew(caller.address).text, link)
       IN  endpoint.ok /\ dialled' = dialled \cup {[at |-> endpoint, link |-> link]}
    /\ LET creates == intent.is = "create"
       IN  Dispatch(IF creates THEN "create_session" ELSE "bind_session",
                    IF creates THEN Credentials ELSE Rebinding, None, MeantByOpening)
    /\ phase' = "opening" /\ opens' = opens + 1
    /\ UNCHANGED <<caller, intent, session, link, progressive, nextRequest, nextSub, pending, subs,
                   asked, server, lines, reports, outcomes, unread>>

(* The stream breaks: what was on it is lost, and the session is sought    *)
(* where it was left.                                                      *)
LoseStream ==
    /\ phase = "bound"
    /\ phase' = "unbound" /\ intent' = [is |-> "recover"]
    /\ wire' = << >> /\ lines' = {}
    /\ UNCHANGED <<caller, session, link, progressive, nextRequest, nextSub, pending, subs, asked,
                   withheld, opens, dialled, server, reports, outcomes, unread>>

-----------------------------------------------------------------------------
(* The caller's asks, in its order, while a session is bound.              *)

Control(fields) == fields @@ [session |-> session, requestId |-> nextRequest, ack |-> Absent]
SubsOf(k) == {id \in DOMAIN subs : subs[id] = k}

Operation ==
    "subscribe" :> "add" @@ "send" :> "msg" @@ "unsubscribe" :> "delete"
    @@ "reconfigure" :> "reconf" @@ "rebind" :> "force_rebind" @@ "destroy" :> "destroy"
    @@ "heartbeat" :> "heartbeat"

(* The request, for the subscription identifier it is about.               *)
RequestFor(ask, id) ==
    CASE ask.kind = "subscribe" -> SubscribeRequest(ask.want, session[1], nextRequest, id)
      [] ask.kind = "send" -> MessageRequest(ask.want, session[1], nextRequest)
      [] ask.kind = "unsubscribe" -> Control([subId |-> id])
      [] ask.kind = "reconfigure" ->
            Control([subId |-> id, maxFrequency |-> Given(ask.frequency)])
      [] ask.kind = "rebind" ->
            Control([pollingMillis |-> Absent, closeSocket |-> ask.closeSocket])
      [] ask.kind = "destroy" -> Control([cause |-> Absent, closeSocket |-> Absent])
      [] OTHER -> [session |-> session]

IsAbout(ask) ==
    IF ask.kind \in {"unsubscribe", "reconfigure"} THEN SubsOf(ask.of) ELSE {nextSub}

(* What the builders refuse is not asked, and a delete of what is not      *)
(* there asks nothing.                                                     *)
IsAccepted(ask) ==
    CASE ask.kind = "subscribe" -> SubscriptionIsAccepted(ask.want)
      [] ask.kind = "send" -> MessageIsAccepted(ask.want)
      [] ask.kind \in {"unsubscribe", "reconfigure"} -> SubsOf(ask.of) # {}
      [] OTHER -> TRUE

Ask ==
    /\ phase = "bound" /\ asked < Len(caller.asks)
    /\ asked' = asked + 1
    /\ LET ask == caller.asks[asked + 1]
           answered == ask.kind # "heartbeat"
       IN  IF IsAccepted(ask)
           THEN /\ \E id \in IsAbout(ask) :
                      Dispatch(Operation[ask.kind], RequestFor(ask, id), asked + 1, MeantBy(ask))
                /\ pending' = IF answered THEN pending @@ Numeral(nextRequest) :> asked + 1
                              ELSE pending
                /\ nextRequest' = IF answered THEN nextRequest + 1 ELSE nextRequest
                /\ IF ask.kind = "subscribe"
                   THEN subs' = subs @@ nextSub :> asked + 1 /\ nextSub' = nextSub + 1
                   ELSE UNCHANGED <<subs, nextSub>>
           ELSE UNCHANGED <<wire, withheld, pending, nextRequest, subs, nextSub>>
    /\ UNCHANGED <<caller, phase, intent, session, link, progressive, opens, dialled, server, lines,
                   reports, outcomes, unread>>

-----------------------------------------------------------------------------
(* The server hears a request and answers it: external.                    *)

ConOk(answer) ==
    LineOf("CONOK", <<Written(answer.id), Numeral(50), Numeral(5), answer.link>>)
Refusal == <<"-", "5">>
Decision(of, outcome, text) == [of |-> of, outcome |-> outcome, text |-> text]

Answers(u, of, remark) ==
    LET id == u.says["LS_reqId"]
        accepts(more, decision) ==
            [lines |-> {LineOf("REQOK", <<id>>)} \cup more,
             decided |-> {Decision(of, "accepted", << >>)} \cup decision]
        message == <<IF "LS_sequence" \in DOMAIN u.says THEN u.says["LS_sequence"] ELSE <<"*">>>>
                   \o (IF "LS_msg_prog" \in DOMAIN u.says THEN <<u.says["LS_msg_prog"]>> ELSE << >>)
    IN  {[lines |-> {LineOf("REQERR", <<id, Refusal, WrittenLast(remark)>>)},
          decided |-> {Decision(of, "refused", remark)}]}
        \cup (CASE u.name = Word("msg") /\ Len(message) = 2 ->
                     {accepts({LineOf("MSGDONE", message \o <<WrittenLast(remark)>>)},
                              {Decision(of, "done", remark)}),
                      accepts({LineOf("MSGFAIL", message \o <<Refusal, WrittenLast(remark)>>)},
                              {Decision(of, "failed", remark)})}
                [] u.name = Word("control") /\ u.says["LS_op"] = Word("add") ->
                     {accepts({LineOf("SUBOK", <<u.says["LS_subId"], Numeral(1), Numeral(1)>>)},
                              {Decision(of, "activated", << >>)})}
                [] OTHER -> {accepts({}, {})})

AnswersTo(request, u) ==
    /\ heard' = Append(heard, [of |-> request.of, name |-> u.name, single |-> u.single,
                               says |-> u.says @@ Defaults, meant |-> request.meant])
    /\ CASE u.name \in {Word("create_session"), Word("bind_session")} ->
              /\ \E answer \in Sessions :
                    /\ issued \in {<< >>, answer.id} /\ issued' = answer.id
                    /\ lines' = lines \cup {ConOk(answer)}
              /\ UNCHANGED decided
         [] u.name = Word("heartbeat") ->
              lines' = lines \cup {Word("REQOK")} /\ UNCHANGED <<issued, decided>>
         [] OTHER ->
              \E remark \in Remarks : \E answer \in Answers(u, request.of, remark) :
                  /\ lines' = lines \cup answer.lines
                  /\ decided' = decided \cup answer.decided
                  /\ UNCHANGED issued

ServerHears ==
    /\ wire # << >> /\ wire' = Tail(wire)
    /\ AnswersTo(Head(wire), Understood(Head(wire)))
    /\ UNCHANGED <<client, dialled, reports, outcomes, unread>>

(* The server unbinds the session from its stream for the client to bind.  *)
ServerLoops ==
    /\ phase = "bound" /\ opens < MaxOpens /\ LineOf("LOOP", <<Numeral(0)>>) \notin lines
    /\ lines' = lines \cup {LineOf("LOOP", <<Numeral(0)>>)}
    /\ UNCHANGED <<client, dialled, wire, server, reports, outcomes, unread>>

-----------------------------------------------------------------------------
(* on_line and on_notification, with take_pending and resolve_subscription *)

OnAnswer(id, outcome, text) ==
    /\ reports' = reports \cup {Decision(pending[id], outcome, text)}
    /\ pending' = [other \in DOMAIN pending \ {id} |-> pending[other]]
    /\ subs' = IF outcome = "refused" /\ caller.asks[pending[id]].kind = "subscribe"
               THEN [other \in {k \in DOMAIN subs : subs[k] # pending[id]} |-> subs[other]]
               ELSE subs
    /\ UNCHANGED <<phase, intent, session, link, progressive, outcomes, unread>>

OnSubOk(id) ==
    /\ reports' = reports \cup {Decision(subs[id], "activated", << >>)}
    /\ progressive' = progressive + 1
    /\ UNCHANGED <<phase, intent, session, link, pending, subs, outcomes, unread>>

OnMessage(identity, outcome, text) ==
    /\ outcomes' = outcomes \cup {[identity |-> identity, outcome |-> outcome, text |-> text]}
    /\ progressive' = progressive + 1
    /\ UNCHANGED <<phase, intent, session, link, pending, subs, reports, unread>>

OnUnparsed(line) ==
    /\ unread' = unread \cup {line}
    /\ UNCHANGED <<phase, intent, session, link, progressive, pending, subs, reports, outcomes>>

OnLine(line, p) ==
    IF ~p.ok THEN OnUnparsed(line) ELSE
    CASE p.tag = "CONOK" ->
           /\ session' = Given(p.arguments[1]) /\ phase' = "bound" /\ link' = p.arguments[4]
           /\ UNCHANGED <<intent, progressive, pending, subs, reports, outcomes, unread>>
      [] p.tag = "LOOP" ->
           /\ phase' = "unbound" /\ intent' = [is |-> "rebind"]
           /\ UNCHANGED <<session, link, progressive, pending, subs, reports, outcomes, unread>>
      [] p.tag = "REQOK" /\ Len(p.arguments) = 1 /\ p.arguments[1] \in DOMAIN pending ->
           OnAnswer(p.arguments[1], "accepted", << >>)
      [] p.tag = "REQERR" /\ p.arguments[1] \in DOMAIN pending ->
           OnAnswer(p.arguments[1], "refused", p.arguments[3])
      [] p.tag = "SUBOK" /\ p.arguments[1] \in DOMAIN subs -> OnSubOk(p.arguments[1])
      [] p.tag = "MSGDONE" ->
           OnMessage(<<p.arguments[1], Given(p.arguments[2])>>, "done", p.arguments[3])
      [] p.tag = "MSGFAIL" ->
           OnMessage(<<p.arguments[1], Given(p.arguments[2])>>, "failed", p.arguments[4])
      [] p.tag = "REQOK" /\ p.arguments = << >> ->
           UNCHANGED <<phase, intent, session, link, progressive, pending, subs, reports, outcomes,
                       unread>>
      [] OTHER -> OnUnparsed(line)

ReadLine(line) ==
    /\ phase \in {"opening", "bound"} /\ lines' = lines \ {line}
    /\ OnLine(line, ParseLine(line))
    /\ UNCHANGED <<caller, nextRequest, nextSub, asked, withheld, opens, dialled, wire, server>>

Next ==
    \/ Configure \/ OpenStream \/ LoseStream \/ Ask
    \/ ServerHears \/ ServerLoops
    \/ \E line \in lines : ReadLine(line)

Spec == Init /\ [][Next]_vars

-----------------------------------------------------------------------------
(* The session driver's books agree with what was asked and issued: the    *)
(* session it names is the server's, every identifier it handed out is one *)
(* of its own, and only asks already made are pending.                     *)
TypeOK ==
    /\ phase \in {"configured", "unbound", "opening", "bound", "refused"}
    /\ session \in {Absent, Given(issued)}
    /\ phase = "bound" => session # Absent
    /\ \A id \in DOMAIN pending : pending[id] \in 1 .. asked
    /\ \A id \in DOMAIN subs : id \in 1 .. nextSub - 1 /\ subs[id] \in 1 .. asked
    /\ withheld \subseteq 0 .. asked /\ opens \in 0 .. MaxOpens

(* A server that reads a request by the rules of TLCP understands exactly  *)
(* what the caller asked: one request, no parameter but those meant, each  *)
(* value octet for octet, for the session it issued; a list of names falls *)
(* apart into the names given, in their order, for the server and for the  *)
(* caller (request.rs, escaping.rs, subscription.rs).                      *)
Bookkeeping == {"LS_session", "LS_reqId", "LS_subId", "LS_cid", "LS_supported_diffs", "LS_group",
                "LS_schema", "LS_polling_millis", "LS_idle_millis", "LS_inactivity_millis",
                "LS_keepalive_millis"}
Matters(says) == [p \in DOMAIN says \ Bookkeeping |-> says[p]]
NamesTheSession(h) ==
    IF h.name = Word("create_session") THEN "LS_session" \notin DOMAIN h.says
    ELSE h.says["LS_session"] = issued
GroupIsHeard(want, text) ==
    IF want.listed THEN PartedAt(" ", text) = want.names /\ Names(want) = want.names
    ELSE text = want.text
HeardAsAsked ==
    \A j \in DOMAIN heard :
        LET h == heard[j]
            ask == caller.asks[h.of]
        IN  /\ h.single /\ NamesTheSession(h)
            /\ Matters(h.says) = h.meant
            /\ h.of # None /\ ask.kind = "subscribe" =>
                  GroupIsHeard(ask.want.items, h.says["LS_group"])
                  /\ GroupIsHeard(ask.want.fields, h.says["LS_schema"])
            /\ h.of # None /\ ask.kind \in {"unsubscribe", "reconfigure"} =>
                  \A i \in 1 .. j : heard[i].of = ask.of => h.says["LS_subId"] = heard[i].says["LS_subId"]

(* What the builders accept the encoder writes, on each transport: nobody  *)
(* is refused by request.rs what subscription.rs or message.rs let through.*)
ValidIsWritten == withheld = {}

(* Wherever a connection goes, it is encrypted exactly when the caller's   *)
(* address is, to the host and port it names or to those of the server's   *)
(* control link, on either transport; an address with a user, a query or   *)
(* a step upwards goes nowhere (address.rs, http.rs, ws.rs).               *)
AddressIsKept ==
    \A made \in dialled :
        /\ Marks(caller.address, {"@", "?", "#", ".."}) = {}
        /\ made.at.tls = caller.named.tls
        /\ IF made.link = Absent
           THEN made.at.host = caller.named.host /\ made.at.port = caller.named.port
           ELSE \E answer \in Sessions :
                    /\ answer.link = made.link[1] /\ made.at.host = answer.host
                    /\ made.at.port = (IF answer.port = << >> THEN DefaultPort(made.at.tls)
                                       ELSE answer.port[1])

(* The fixed path is appended to the base path of the address, "for a      *)
(* server published behind a reverse proxy": https://example.com/push      *)
(* reaches /push/lightstreamer (address.rs:57-62).                         *)
BasePathReached ==
    \A made \in dialled :
        made.link = Absent => IsPrefix(caller.named.base, made.at.path)

(* Every answer is understood and reaches the ask it answers, with the     *)
(* outcome and the words the server gave it; a message's carries the       *)
(* sequence and the number the caller gave (response.rs, take_pending,     *)
(* OutgoingMessage::identity).                                             *)
AnswerFindsItsCall ==
    /\ unread = {}
    /\ reports \subseteq decided
    /\ \A told \in outcomes : \E d \in decided :
          /\ told.outcome = d.outcome /\ told.text = d.text
          /\ told.identity = Identity(caller.asks[d.of].want)
=============================================================================

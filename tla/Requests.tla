------------------------------- MODULE Requests -------------------------------
(***************************************************************************)
(* protocol/request.rs: what each request asks, which requests it refuses  *)
(* to write, and how it is laid out on each transport.                     *)
(*                                                                         *)
(* An optional value is a sequence of at most one.  A parameter is a pair  *)
(* of its name and its value as written; names and fixed words are single  *)
(* octets here, texts are spelled out.                                     *)
(***************************************************************************)
EXTENDS TextCoding, Integers

Absent == << >>
Given(value) == <<value>>
Word(word) == <<word>>

(* Http needs a session in every request; HttpBatched and WebSocket may   *)
(* leave it out.                                                           *)
RequiresSession(transport) == transport = "http"
HonorsAck(transport) == transport = "ws"

(* ParameterLine *)
Verbatim(name, option) == [k \in DOMAIN option |-> <<name, option[k]>>]
EncodedText(name, option) == [k \in DOMAIN option |-> <<name, EncodeFormValue(option[k])>>]
Numeral(n) ==
    LET width == CHOOSE w \in 1 .. 9 : n < 10 ^ w /\ (w = 1 \/ n >= 10 ^ (w - 1))
    IN  [k \in 1 .. width |-> ToString((n \div 10 ^ (width - k)) % 10)]
Decimal(name, option) == [k \in DOMAIN option |-> <<name, Numeral(option[k])>>]
Boolean(name, option) ==
    [k \in DOMAIN option |-> <<name, Word(IF option[k] THEN "true" ELSE "false")>>]
Finished(parameters) ==
    FlattenSeq([k \in DOMAIN parameters |->
        (IF k = 1 THEN << >> ELSE <<"&">>) \o <<parameters[k][1], "=">> \o parameters[k][2]])

-----------------------------------------------------------------------------
(* Validated values *)

AllDigits(text) == text # << >> /\ \A k \in DOMAIN text : text[k] \in Digits
IsDecimalNumber(text) ==
    \/ AllDigits(text)
    \/ \E k \in DOMAIN text : /\ text[k] = "." /\ AllDigits(SubSeq(text, 1, k - 1))
                              /\ AllDigits(SubSeq(text, k + 1, Len(text)))

ReservedSequence == Word("UNORDERED_MESSAGES")
IsSequenceName(text) ==
    /\ text # << >> /\ text # ReservedSequence
    /\ \A k \in DOMAIN text : text[k] \notin DOMAIN Codes \cup {"-", ".", "~"}

(* A frequency or a bandwidth: a word, or a decimal number.                *)
Unlimited == Word("unlimited")
Unfiltered == Word("unfiltered")

IsFiltered(mode) == mode # "RAW"

-----------------------------------------------------------------------------
(* The requests.  Each operator gives the parameters in wire order.        *)

ConnectionMode(mode) ==
    IF mode.polling
    THEN Boolean("LS_polling", Given(TRUE)) \o Decimal("LS_polling_millis", Given(mode.millis))
         \o Decimal("LS_idle_millis", mode.idle)
    ELSE Decimal("LS_inactivity_millis", mode.inactivity)
         \o Decimal("LS_keepalive_millis", mode.keepalive)
         \o Boolean("LS_send_sync", mode.sendSync)

SupportedDiffs == Word("T")   \* supported_diffs, without the json-patch feature

CreateSession(r) ==
    EncodedText("LS_user", r.user) \o EncodedText("LS_password", r.password)
    \o EncodedText("LS_adapter_set", r.adapterSet)
    \o Verbatim("LS_cid", Given(Word("cid")))
    \o Decimal("LS_content_length", r.contentLength)
    \o Verbatim("LS_supported_diffs", Given(SupportedDiffs))
    \o ConnectionMode(r.connection)

BindSession(r) ==
    EncodedText("LS_session", r.session)
    \o Decimal("LS_recovery_from", r.recoveryFrom)
    \o Decimal("LS_content_length", r.contentLength)
    \o ConnectionMode(r.connection)

ControlHeader(r, operation) ==
    EncodedText("LS_session", r.session)
    \o Decimal("LS_reqId", Given(r.requestId))
    \o Verbatim("LS_op", Given(Word(operation)))

Ack(option, transport) == IF HonorsAck(transport) THEN Boolean("LS_ack", option) ELSE << >>

Subscribe(r, transport) ==
    ControlHeader(r, "add")
    \o Decimal("LS_subId", Given(r.subId))
    \o EncodedText("LS_group", Given(r.group))
    \o EncodedText("LS_schema", Given(r.schema))
    \o EncodedText("LS_data_adapter", r.dataAdapter)
    \o Verbatim("LS_mode", Given(Word(r.mode)))
    \o EncodedText("LS_selector", r.selector)
    \o Verbatim("LS_requested_buffer_size", r.bufferSize)
    \o Verbatim("LS_requested_max_frequency", r.maxFrequency)
    \o Verbatim("LS_snapshot", r.snapshot)
    \o Ack(r.ack, transport)

(* What the server would accept and then ignore is refused.                *)
IsLength(option) == \E k \in DOMAIN option : AllDigits(option[k])
SubscribeRefused(r) ==
    \/ IsLength(r.snapshot) /\ r.mode # "DISTINCT"
    \/ r.snapshot = Given(Word("true")) /\ ~IsFiltered(r.mode)
    \/ /\ r.maxFrequency \notin {Absent, Given(Unlimited)}
       /\ ~IsFiltered(r.mode)
    \/ /\ r.bufferSize # Absent
       /\ \/ r.mode \notin {"MERGE", "DISTINCT"}
          \/ r.maxFrequency = Given(Unfiltered)

Unsubscribe(r, transport) ==
    ControlHeader(r, "delete") \o Decimal("LS_subId", Given(r.subId)) \o Ack(r.ack, transport)

Reconfigure(r) ==
    ControlHeader(r, "reconf") \o Decimal("LS_subId", Given(r.subId))
    \o Verbatim("LS_requested_max_frequency", r.maxFrequency)

ForceRebind(r) ==
    ControlHeader(r, "force_rebind") \o Decimal("LS_polling_millis", r.pollingMillis)
    \o Boolean("LS_close_socket", r.closeSocket)

Destroy(r) ==
    ControlHeader(r, "destroy")
    \o FlattenSeq([k \in DOMAIN r.cause |->
            Verbatim("LS_cause_code", Given(r.cause[k].code))
            \o EncodedText("LS_cause_message", r.cause[k].message)])
    \o Boolean("LS_close_socket", r.closeSocket)

MessageSend(r, transport) ==
    EncodedText("LS_session", r.session)
    \o Decimal("LS_reqId", Given(r.requestId))
    \o Verbatim("LS_sequence", r.sequence)
    \o Decimal("LS_msg_prog", r.prog)
    \o Decimal("LS_max_wait", r.maxWait)
    \o Ack(r.ack, transport)
    \o Boolean("LS_outcome", r.outcome)
    \o EncodedText("LS_message", Given(r.message))

(* The number is mandatory unless no outcome is wanted.                    *)
MessageRefused(r) ==
    \/ r.prog = Absent /\ (r.sequence # Absent \/ r.outcome # Given(FALSE))
    \/ r.maxWait # Absent /\ r.sequence = Absent

Heartbeat(r) == EncodedText("LS_session", r.session)

-----------------------------------------------------------------------------
(* encode_parameters: the line, or the refusal of an invalid request.      *)

NameOf(op) == CASE op \in {"create_session", "bind_session", "msg", "heartbeat"} -> op
                [] OTHER -> "control"

Parameters(op, r, transport) ==
    CASE op = "create_session" -> CreateSession(r)
      [] op = "bind_session" -> BindSession(r)
      [] op = "add" -> Subscribe(r, transport)
      [] op = "delete" -> Unsubscribe(r, transport)
      [] op = "reconf" -> Reconfigure(r)
      [] op = "force_rebind" -> ForceRebind(r)
      [] op = "destroy" -> Destroy(r)
      [] op = "msg" -> MessageSend(r, transport)
      [] op = "heartbeat" -> Heartbeat(r)

LacksSession(op, r, transport) ==
    /\ op # "create_session" /\ r.session = Absent
    /\ \/ RequiresSession(transport)
       \/ op = "bind_session" /\ transport = "batched"

Refuses(op, r, transport) ==
    \/ LacksSession(op, r, transport)
    \/ op = "add" /\ SubscribeRefused(r)
    \/ op = "msg" /\ MessageRefused(r)

Invalid == [ok |-> FALSE]
EncodeParameters(op, r, transport) ==
    IF Refuses(op, r, transport) THEN Invalid
    ELSE [ok |-> TRUE, line |-> Finished(Parameters(op, r, transport))]

(* One WebSocket message: the name, then the line, with no line end.       *)
WsMessage(op, line) == <<NameOf(op), CR, LF>> \o line
(* An HTTP request: the target names it, the body is the line.             *)
HttpRequest(op, line) == [target |-> <<NameOf(op), ".txt", "?", "LS_protocol", "=", "TLCP-2.5.0">>,
                          body |-> line]
=============================================================================

------------------------------- MODULE Builders -------------------------------
(***************************************************************************)
(* client/subscription.rs and client/message.rs: what a caller may ask     *)
(* for, how it is checked before anything is sent, and the request it      *)
(* becomes (SessionDriver::issue_subscription, send_message).              *)
(*                                                                         *)
(* A want is what the caller wrote.  Its texts are sequences of octets, an *)
(* optional value is a sequence of at most one, a choice is a word.        *)
(***************************************************************************)
EXTENDS Requests

IsControl(octet) == octet \in {CR, LF, Nul}
IsWhitespace(octet) == octet \in {" ", CR, LF}

Blank(text) == \A k \in DOMAIN text : IsWhitespace(text[k])
HasControl(text) == \E k \in DOMAIN text : IsControl(text[k])

(* A list of names, or a name the server resolves: ItemGroup, FieldSchema. *)
ListIsChecked(names) ==
    /\ names # << >>
    /\ \A k \in DOMAIN names :
          names[k] # << >> /\ \A j \in DOMAIN names[k] :
              ~IsWhitespace(names[k][j]) /\ ~IsControl(names[k][j])
NameIsChecked(text) == ~Blank(text) /\ ~HasControl(text)

GroupIsChecked(want) ==
    IF want.listed THEN ListIsChecked(want.names) ELSE NameIsChecked(want.text)

JoinedBySpaces(names) ==
    FlattenSeq([k \in DOMAIN names |-> (IF k = 1 THEN << >> ELSE <<" ">>) \o names[k]])
GroupText(want) == IF want.listed THEN JoinedBySpaces(want.names) ELSE want.text

(* split_whitespace: the runs between whitespace, none of them empty.      *)
Names(want) ==
    LET part(state, octet) ==
            IF IsWhitespace(octet) THEN Append(state, << >>)
            ELSE [state EXCEPT ![Len(state)] = Append(@, octet)]
    IN  IF want.listed
        THEN SelectSeq(Scan(part, << << >> >>, GroupText(want)), LAMBDA name : name # << >>)
        ELSE << >>

-----------------------------------------------------------------------------
(* Subscription: snapshot is off, on or a length; frequency is unlimited,  *)
(* unfiltered or a limit; buffer is server, unlimited or a size.           *)
FrequencyIsChecked(frequency) ==
    frequency \in {Unlimited, Unfiltered} \/ IsDecimalNumber(frequency)

\* A buffer is not held against the frequency.
ValidWithAnyFrequency(want) ==
    /\ AllDigits(want.snapshot) => want.mode = "DISTINCT"
    /\ want.snapshot # Word("off") \/ want.frequency # Unlimited => IsFiltered(want.mode)
    /\ want.buffer # Word("server") => want.mode \in {"MERGE", "DISTINCT"}

SubscriptionIsValid(want) ==
    /\ AllDigits(want.snapshot) => want.mode = "DISTINCT"
    /\ want.snapshot # Word("off") \/ want.frequency # Unlimited => IsFiltered(want.mode)
    /\ want.buffer # Word("server") =>
          want.mode \in {"MERGE", "DISTINCT"} /\ want.frequency # Unfiltered

(* into_spec: what the server does anyway is left out.                     *)
SnapshotToWire(snapshot) ==
    CASE snapshot = Word("off") -> Absent
      [] snapshot = Word("on") -> Given(Word("true"))
      [] OTHER -> Given(snapshot)
FrequencyToWire(frequency) == IF frequency = Unlimited THEN Absent ELSE Given(frequency)
BufferToWire(buffer) == IF buffer = Word("server") THEN Absent ELSE Given(buffer)

SubscribeRequest(want, session, requestId, subId) ==
    [session |-> Given(session), requestId |-> requestId, subId |-> subId,
     group |-> GroupText(want.items), schema |-> GroupText(want.fields), mode |-> want.mode,
     dataAdapter |-> want.adapter, selector |-> want.selector,
     bufferSize |-> BufferToWire(want.buffer),
     maxFrequency |-> FrequencyToWire(want.frequency),
     snapshot |-> SnapshotToWire(want.snapshot), ack |-> Absent]

SubscriptionIsAccepted(want) ==
    GroupIsChecked(want.items) /\ GroupIsChecked(want.fields)
    /\ FrequencyIsChecked(want.frequency) /\ SubscriptionIsValid(want)

-----------------------------------------------------------------------------
(* Message: numbered or fire-and-forget, in a sequence or not.             *)
MessageIsValid(want) ==
    /\ want.sequence # Absent => want.progressive # Absent
    /\ want.maxWait # Absent => want.sequence # Absent

MessageIsAccepted(want) ==
    /\ \A k \in DOMAIN want.sequence : IsSequenceName(want.sequence[k])
    /\ MessageIsValid(want)

MessageRequest(want, session, requestId) ==
    [session |-> Given(session), requestId |-> requestId, message |-> want.text,
     sequence |-> want.sequence, prog |-> want.progressive, maxWait |-> want.maxWait,
     ack |-> Absent, outcome |-> IF want.progressive = Absent THEN Given(FALSE) ELSE Absent]

(* What an outcome of it will carry.                                       *)
Identity(want) == <<want.sequence, want.progressive>>
=============================================================================

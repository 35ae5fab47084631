-------------------------- MODULE SubscriptionFeed --------------------------
(***************************************************************************)
(* One subscription from the server's values to the caller's: the client's *)
(* SubscriptionManager (subscription/manager.rs) fed, line by line, by a   *)
(* server that encodes each update against the values it last sent.        *)
(*                                                                         *)
(* The manager has one action per notification.  The server is external:   *)
(* it sends what docs/spec/04-notifications.md lets it send, chooses       *)
(* freely between the encodings of one value, may be replaced by a new     *)
(* session that restarts the subscription, and may send a line that        *)
(* contradicts what it said (a stray).  Every line carries what the server *)
(* meant by it; the client never reads that part.                          *)
(***************************************************************************)
EXTENDS ItemUpdates

CONSTANTS
    NumItems,       \* items of the subscription
    Modes,          \* subscription modes looked at
    Values,         \* texts an ordinary field takes, in the server's spelling
    RowKeys,        \* texts of the key field, in COMMAND mode
    PastRefusal,    \* bound: is an item still updated after the client refused a list?
    HeedsAdvice,    \* does the caller delete rows only on a carried command?
    WireBound       \* bound: lines on their way to the manager

ASSUME ModesAssumption == Modes \subseteq {"RAW", "MERGE", "DISTINCT", "COMMAND"}
ASSUME ChoiceAssumption == HeedsAdvice \in BOOLEAN /\ PastRefusal \in BOOLEAN
(* Texts are no longer than a usize can say, a command has the spellings of  *)
(* one word only, and a position does not read as a name that was declared.  *)
ASSUME TextsAssumption == \A v \in Values : v \in Seq(Range(v)) /\ Len(v) <= MaxUsize
ASSUME LiteralsAssumption ==
    /\ DOMAIN Literals = {"ADD", "UPDATE", "DELETE"}
    /\ \A a, b \in DOMAIN Literals : a # b => Literals[a] \cap Literals[b] = {}
ASSUME NumeralAssumption == \A p \in 1 .. 3 : ToString(p) \notin {"v", "key", "command"}
ASSUME BoundAssumption == NumItems \in Nat \ {0} /\ WireBound \in Nat \ {0}

VARIABLES
    mode, snapshotRequested,     \* the subscription's parameters
    activation,                  \* "pending", "active" or "ended"
    schema,                      \* the shape announced, once active
    items,                       \* per item: fields, seenUpdate, endOfSnapshot
    srv,                         \* "off", "on" or "over", on the server
    srvFields, srvSent, srvEos,  \* per item: values last sent, any sent?, snapshot over?
    srvRows,                     \* per item, in COMMAND mode: the rows
    wire,                        \* lines sent and not handled
    heard,                       \* the event the last step gave to the caller, if any
    meant,                       \* what the server meant by its line
    refused,                     \* items with an update refused since the activation
    rows                         \* per item, the rows a COMMAND caller keeps

manager == <<mode, snapshotRequested, activation, schema, items>>
server == <<srv, srvFields, srvSent, srvEos, srvRows>>
caller == <<refused, rows>>
vars == <<manager, server, wire, heard, meant, caller>>

(* Bound: one item in COMMAND mode, whose rows are items of their own.       *)
ItemCount == IF mode = "COMMAND" THEN 1 ELSE NumItems
Items == 1 .. ItemCount

-----------------------------------------------------------------------------
(* The shape of the subscription, and the names the caller declared.        *)

FieldCount == IF mode = "COMMAND" THEN 3 ELSE 2
CommandFields == IF mode = "COMMAND" THEN [key |-> 1, command |-> 2] ELSE NoCommandFields
DeclaredFields == IF mode = "COMMAND" THEN <<"key", "command">> ELSE <<"v", "v">>
DeclaredItems == <<"first">>

Absent == [is |-> "absent"]
NoRows == [k \in RowKeys |-> Absent]
NoMeaning == [is |-> "nothing"]
Silence == [is |-> "silence"]

NewTracker(fieldCount) ==
    [fields |-> NewItem(fieldCount), seenUpdate |-> FALSE, endOfSnapshot |-> FALSE]

Init ==
    /\ mode \in Modes
    /\ snapshotRequested \in (IF mode = "RAW" THEN {FALSE} ELSE BOOLEAN)
    /\ activation = "pending" /\ schema = << >> /\ items = << >>
    /\ srv = "off" /\ srvFields = << >> /\ srvSent = << >> /\ srvEos = << >> /\ srvRows = << >>
    /\ wire = << >>
    /\ heard = Silence /\ meant = NoMeaning /\ refused = {}
    /\ rows = [i \in Items |-> NoRows]

-----------------------------------------------------------------------------
(* The server *)

ClientRests == heard' = Silence /\ meant' = NoMeaning /\ UNCHANGED <<manager, caller>>

Send(line) == Len(wire) < WireBound /\ wire' = Append(wire, line)

(* The subscription is set up; COMMAND mode announces it with SUBCMD.       *)
ServerActivates ==
    /\ srv = "off"
    /\ srv' = "on"
    /\ srvFields' = [i \in Items |-> NewItem(FieldCount)]
    /\ srvSent' = [i \in Items |-> FALSE]
    /\ srvEos' = [i \in Items |-> FALSE]
    /\ srvRows' = [i \in Items |-> NoRows]
    /\ Send([tag |-> "SUB", items |-> ItemCount, fields |-> FieldCount,
             commandFields |-> CommandFields, stray |-> FALSE])
    /\ ClientRests

(* The session was replaced: lines not handled are lost, and the            *)
(* subscription is asked for again.                                         *)
ServerReplaced ==
    /\ srv = "on"
    /\ srv' = "off"
    /\ srvFields' = << >> /\ srvSent' = << >> /\ srvEos' = << >> /\ srvRows' = << >>
    /\ wire' = << >>
    /\ ClientRests

(* An update is snapshot content by the mode's own notion of a snapshot.    *)
ServerKind(i) ==
    IF ~snapshotRequested THEN "RealTime"
    ELSE CASE mode = "MERGE" -> IF srvSent[i] THEN "RealTime" ELSE "Snapshot"
           [] mode \in {"DISTINCT", "COMMAND"} -> IF srvEos[i] THEN "RealTime" ELSE "Snapshot"
           [] OTHER          -> "RealTime"

CommonPrefix(a, b) ==
    CHOOSE n \in 0 .. Len(a) :
        /\ n <= Len(b) /\ SubSeq(a, 1, n) = SubSeq(b, 1, n)
        /\ n = Len(a) \/ n = Len(b) \/ a[n + 1] # b[n + 1]

(* A count in letters, as the server writes it.                             *)
Capitals[n \in 0 .. MaxUsize] ==
    IF n = 0 THEN << >>
    ELSE Append(Capitals[(n - 1) \div Radix], [capital |-> TRUE, place |-> (n - 1) % Radix])
EncodedInteger(n) == Append(Capitals[n \div Radix], [capital |-> FALSE, place |-> n % Radix])

(* A payload that turns one text into another: keep the common start, add   *)
(* the new rest, drop the old rest.                                         *)
Payload(from, to) ==
    LET kept == CommonPrefix(from, to)
        added == SubSeq(to, kept + 1, Len(to))
    IN  <<[count |-> EncodedInteger(kept), text |-> << >>],
          [count |-> EncodedInteger(Len(added)), text |-> added],
          [count |-> EncodedInteger(Len(from) - kept), text |-> << >>]>>

(* The tokens that say `new` to a client believed to hold `old`.            *)
Encodings(old, new) ==
    (IF new.is = "null" THEN {NullMark}
     ELSE IF new.text = << >> THEN {EmptyMark} ELSE {Content(new.text)})
    \union (IF old = new THEN {Same} ELSE {})
    \union (IF old.is = "text" /\ new.is = "text" /\ ~HasAstral(old.text) /\ ~HasAstral(new.text)
            THEN {Diff("T", Payload(old.text, new.text))} ELSE {})
    \union (IF /\ "P" \in SupportedDiffs
               /\ old.is = "text" /\ new.is = "text"
               /\ Document(old.text) # << >> /\ Document(new.text) # << >>
            THEN {Diff("P", Payload(Document(old.text), Document(new.text)))} ELSE {})

(* A trailing run of unchanged fields may be written as one token.          *)
Packed(tokens) ==
    LET kept == CHOOSE n \in 0 .. Len(tokens) :
                  /\ \A k \in n + 1 .. Len(tokens) : tokens[k] = Same
                  /\ n = 0 \/ tokens[n] # Same
    IN  {tokens} \union
        (IF kept < Len(tokens)
         THEN {SubSeq(tokens, 1, kept) \o <<UnchangedRun(Len(tokens) - kept)>>} ELSE {})

(* Bound: the fields of a row are never sent as a diff.                     *)
Spellings(old, new) ==
    LET all(f) == Encodings(old[f], new[f])
        plain(f) == {token \in all(f) : token.is # "diff"}
    IN  UNION {Packed(list) :
                 list \in (IF FieldCount = 2 THEN all(1) \X all(2)
                           ELSE plain(1) \X plain(2) \X plain(3))}

SendUpdate(i, new, newRows) ==
    /\ srv = "on"
    /\ PastRefusal \/ i \notin refused
    /\ \E list \in Spellings(srvFields[i], new) :
          Send([tag |-> "U", item |-> i, tokens |-> list, stray |-> FALSE,
                meaning |-> [is |-> "update", values |-> new, rows |-> newRows,
                             kind |-> ServerKind(i)]])
    /\ srvFields' = [srvFields EXCEPT ![i] = new]
    /\ srvSent' = [srvSent EXCEPT ![i] = TRUE]
    /\ srvRows' = [srvRows EXCEPT ![i] = newRows]
    /\ ClientRests /\ UNCHANGED <<srv, srvEos>>

(* Bound: only the first item takes every value, the others one.            *)
Few(i, set) == IF i = 1 THEN set ELSE {CHOOSE v \in set : TRUE}

(* One step of the item: new values for its fields, one row in COMMAND mode.*)
ServerUpdates(i) ==
    \/ /\ mode # "COMMAND"
       /\ \E new \in Few(i, [1 .. FieldCount -> {Null} \union
                                {[is |-> "text", text |-> v] : v \in Values}]) :
             SendUpdate(i, new, NoRows)
    \/ /\ mode = "COMMAND" /\ srv = "on"
       /\ \E k \in Few(i, RowKeys), v \in Few(i, Values) :
          \E command \in (IF srvRows[i][k] = Absent THEN {"ADD"} ELSE {"UPDATE", "DELETE"}) :
          \E literal \in Literals[command] :
          LET field(text) == [is |-> "text", text |-> text]
              value == IF command = "DELETE" THEN Null ELSE field(v)
          IN  SendUpdate(i, <<field(k), field(literal), value>>,
                         [srvRows[i] EXCEPT ![k] = IF command = "DELETE" THEN Absent ELSE value])

(* The snapshot of an item is over.                                         *)
ServerEndsSnapshot(i) ==
    /\ srv = "on" /\ snapshotRequested /\ mode \in {"DISTINCT", "COMMAND"} /\ ~srvEos[i]
    /\ srvEos' = [srvEos EXCEPT ![i] = TRUE]
    /\ Send([tag |-> "EOS", item |-> i, stray |-> FALSE])
    /\ ClientRests /\ UNCHANGED <<srv, srvFields, srvSent, srvRows>>

(* The snapshot is cleared: the rows are gone, what was sent stays the base *)
(* of the next update.                                                      *)
ServerClears(i) ==
    /\ srv = "on" /\ mode \in {"DISTINCT", "COMMAND"}
    /\ srvRows' = [srvRows EXCEPT ![i] = NoRows]
    /\ Send([tag |-> "CS", item |-> i, stray |-> FALSE])
    /\ ClientRests /\ UNCHANGED <<srv, srvFields, srvSent, srvEos>>

(* Updates were dropped before they were encoded; the frequency changed.    *)
ServerNotes(i) ==
    /\ srv = "on"
    /\ Send([tag |-> "OV", item |-> i, stray |-> FALSE]) \/ Send([tag |-> "CONF", stray |-> FALSE])
    /\ ClientRests /\ UNCHANGED server

ServerEnds ==
    /\ srv = "on"
    /\ srv' = "over"
    /\ Send([tag |-> "UNSUB", stray |-> FALSE])
    /\ ClientRests /\ UNCHANGED <<srvFields, srvSent, srvEos, srvRows>>

(* Lines that contradict the subscription: an item outside it, a list that  *)
(* is not as wide as the schema or has a token the decoder refuses, a key   *)
(* outside the fields, any notification before or after its time.           *)
StrayLists ==
    LET x == Content(CHOOSE v \in Values : TRUE)
    IN  {<<x, Malformed>>, <<x, x, x, x>>, <<x, UnchangedRun(9)>>,
         <<x, Diff("X", <<[count |-> EncodedInteger(0), text |-> << >>]>>)>>}
StrayLines ==
    {[tag |-> "U", item |-> 1, tokens |-> list, stray |-> TRUE, meaning |-> NoMeaning] :
        list \in StrayLists}
    \union {[tag |-> tag, item |-> i, tokens |-> <<NullMark>>, stray |-> TRUE,
              meaning |-> NoMeaning] : tag \in {"U", "EOS", "CS", "OV"}, i \in {0, ItemCount + 1}}
    \union {[tag |-> "SUB", items |-> ItemCount, fields |-> 1,
             commandFields |-> [key |-> 1, command |-> 2], stray |-> TRUE]}
    \union (IF srv = "over" THEN {[tag |-> "CONF", stray |-> TRUE]} ELSE {})
ServerStrays ==
    /\ \E line \in StrayLines : Send(line)
    /\ ClientRests /\ UNCHANGED server

-----------------------------------------------------------------------------
(* The manager *)

Line(tag) == wire # << >> /\ Head(wire).tag = tag

\* A snapshot that was not asked for.
ClassifyAsAsked(eosReceived, firstNotification) ==
    CASE mode = "RAW"   -> "RealTime"
      [] mode = "MERGE" -> IF firstNotification THEN "Snapshot" ELSE "RealTime"
      [] OTHER          -> IF eosReceived THEN "RealTime" ELSE "Snapshot"
(* The §2.4 decision table.                                                 *)
ClassifyUpdate(eosReceived, firstNotification) ==
    IF ~snapshotRequested THEN "RealTime"
    ELSE CASE mode = "RAW"   -> "RealTime"
           [] mode = "MERGE" -> IF firstNotification THEN "Snapshot" ELSE "RealTime"
           [] OTHER          -> IF eosReceived THEN "RealTime" ELSE "Snapshot"

(* An item argument names an item of the active subscription.               *)
ItemPosition(i) == activation = "active" /\ i \in 1 .. Len(items)

(* The event goes to the caller's stream; a refusal goes there as           *)
(* Undecodable (client/router.rs route).                                    *)
Tell(event, meaning) ==
    /\ heard' = event /\ meant' = meaning
    /\ wire' = Tail(wire)
    /\ UNCHANGED <<mode, snapshotRequested, server>>

Refuse(reason) ==
    /\ Tell([is |-> "Undecodable", reason |-> reason], NoMeaning)
    /\ UNCHANGED <<activation, schema, items, rows>>

(* The key and command positions name fields the same line declared.        *)
CommandFieldPosition(line) ==
    \/ line.commandFields = NoCommandFields
    \/ /\ line.commandFields.key \in 1 .. line.fields
       /\ line.commandFields.command \in 1 .. line.fields

(* SUBOK or SUBCMD: everything held is rebuilt from nothing.                *)
Activate ==
    /\ Line("SUB")
    /\ LET line == Head(wire) IN
       IF CommandFieldPosition(line)
       THEN /\ activation' = "active"
            /\ schema' = Schema(line.items, line.fields, DeclaredItems, DeclaredFields,
                                line.commandFields)
            /\ items' = [i \in 1 .. line.items |-> NewTracker(line.fields)]
            /\ refused' = {}
            /\ rows' = [i \in Items |-> NoRows]
            /\ Tell([is |-> "Activated"], NoMeaning)
       ELSE Refuse("CommandFieldOutOfRange") /\ UNCHANGED refused

(* The caller applies a COMMAND update to its own rows.  One that heeds the *)
(* advice on command() ignores a DELETE the update did not carry.           *)
ActOn(table, update) ==
    IF Command(update) # "DELETE" THEN [table EXCEPT ![Key(update).text] = Field(update, 3)]
    ELSE IF HeedsAdvice /\ ~IsCommandChanged(update) THEN table
    ELSE [table EXCEPT ![Key(update).text] = Absent]

(* U: the list is decoded whole or refused whole.                           *)
ApplyUpdate ==
    /\ Line("U")
    /\ LET line == Head(wire)
           i == line.item
           decoded == IF ItemPosition(i) THEN Decode(items[i].fields, line.tokens) ELSE Refused
       IN  IF decoded.ok
           THEN LET kind == ClassifyUpdate(items[i].endOfSnapshot, ~items[i].seenUpdate)
                    update == ItemUpdate(schema, i, kind, decoded.fields, decoded.changed)
                IN  /\ items' = [items EXCEPT ![i].fields = decoded.fields,
                                              ![i].seenUpdate = TRUE]
                    /\ Tell([is |-> "Update", update |-> update], line.meaning)
                    /\ IF IsCommandMode(schema)
                       THEN rows' = [rows EXCEPT ![i] = ActOn(@, update)]
                       ELSE UNCHANGED rows
                    /\ UNCHANGED <<activation, schema, refused>>
           ELSE /\ Refuse(CASE activation = "pending" -> "NotActivated"
                            [] activation = "ended"   -> "Ended"
                            [] OTHER -> IF ItemPosition(i) THEN "Value" ELSE "ItemOutOfRange")
                /\ refused' = IF line.stray THEN refused ELSE refused \union {i}

EndOfSnapshot ==
    /\ Line("EOS")
    /\ LET i == Head(wire).item IN
       IF ItemPosition(i)
       THEN /\ items' = [items EXCEPT ![i].endOfSnapshot = TRUE]
            /\ Tell([is |-> "EndOfSnapshot", item |-> i], NoMeaning)
            /\ UNCHANGED <<activation, schema, refused, rows>>
       ELSE Refuse("ItemOutOfRange") /\ UNCHANGED refused

(* CS leaves the baseline alone; the caller drops what it accumulated.      *)
ClearSnapshot ==
    /\ Line("CS")
    /\ LET i == Head(wire).item IN
       IF ItemPosition(i)
       THEN /\ rows' = [rows EXCEPT ![i] = NoRows]
            /\ Tell([is |-> "SnapshotCleared", item |-> i], NoMeaning)
            /\ UNCHANGED <<activation, schema, items, refused>>
       ELSE Refuse("ItemOutOfRange") /\ UNCHANGED refused

Overflow ==
    /\ Line("OV")
    /\ LET i == Head(wire).item IN
       IF ItemPosition(i)
       THEN /\ Tell([is |-> "Overflow", item |-> i], NoMeaning)
            /\ UNCHANGED <<activation, schema, items, refused, rows>>
       ELSE Refuse("ItemOutOfRange") /\ UNCHANGED refused

(* CONF may come before the activation, not after the end.                  *)
Reconfigured ==
    /\ Line("CONF")
    /\ IF activation = "ended" THEN Refuse("Ended")
       ELSE /\ Tell([is |-> "Reconfigured"], NoMeaning)
            /\ UNCHANGED <<activation, schema, items, rows>>
    /\ UNCHANGED refused

\* The trackers outlive the subscription.
UnsubscribedKeepingItems ==
    /\ Line("UNSUB")
    /\ activation' = "ended"
    /\ Tell([is |-> "Unsubscribed"], NoMeaning)
    /\ UNCHANGED <<schema, items, refused, rows>>
Unsubscribed ==
    /\ Line("UNSUB")
    /\ activation' = "ended" /\ schema' = << >> /\ items' = << >>
    /\ Tell([is |-> "Unsubscribed"], NoMeaning)
    /\ UNCHANGED <<refused, rows>>

Handle == Activate \/ ApplyUpdate \/ EndOfSnapshot \/ ClearSnapshot \/ Overflow
          \/ Reconfigured \/ Unsubscribed

Next ==
    \/ ServerActivates \/ ServerReplaced \/ ServerEnds \/ ServerStrays
    \/ \E i \in Items : ServerUpdates(i) \/ ServerEndsSnapshot(i) \/ ServerClears(i)
                        \/ ServerNotes(i)
    \/ Handle

Spec == Init /\ [][Next]_vars

-----------------------------------------------------------------------------
(* Properties *)

IsSlot(slot) == \/ slot.is \in {"unset", "null"}
                \/ /\ slot.is = "text"
                   /\ slot.form \in {"AsSent", "ClientDerived"}

(* The manager's state is well formed: trackers exist exactly while active, *)
(* one per announced item, each as wide as the schema.                      *)
TypeOK ==
    /\ activation \in {"pending", "active", "ended"}
    /\ activation = "active" =>
          /\ Len(items) = Len(schema.items)
          /\ \A i \in DOMAIN items :
                /\ Len(items[i].fields) = Len(schema.fields)
                /\ \A f \in DOMAIN items[i].fields : IsSlot(items[i].fields[f])
                /\ items[i].seenUpdate \in BOOLEAN /\ items[i].endOfSnapshot \in BOOLEAN
    /\ activation # "active" => items = << >>
    /\ refused \subseteq Items
    /\ Len(wire) <= WireBound

(* Two texts a reader of the value takes for the same: the server's own     *)
(* characters, or the same document where the client had to respell it.     *)
Equivalent(slot, value) ==
    \/ slot.is = "null" /\ value.is = "null"
    \/ /\ slot.is = "text" /\ value.is = "text"
       /\ IF slot.form = "AsSent" THEN slot.text = value.text
          ELSE Document(slot.text) = Document(value.text)

UpdateHeard == heard.is = "Update"

(* As long as no update of the item was refused since the subscription was  *)
(* activated, every update shows the server's values in all its fields,     *)
(* carried or not, by position and by declared name, under the item's name: *)
(* whatever mixture of unchanged marks, runs and the two diff formats       *)
(* (manager.rs apply_update, update.rs apply, diff.rs).                     *)
ValuesAreServers ==
    UpdateHeard /\ heard.update.item \notin refused =>
        LET update == heard.update
        IN  /\ \A p \in 1 .. FieldCount :
                  /\ Equivalent(items[update.item].fields[p], meant.values[p])
                  /\ Field(update, p) = Shown(items[update.item].fields[p])
            /\ FieldByName(update, DeclaredFields[1]) = Field(update, 1)
            /\ \A p \in 1 .. FieldCount :
                  FieldByName(update, ToString(p)) = NoField
            /\ ItemName(update) = (IF update.item = 1 THEN DeclaredItems[1]
                                   ELSE ToString(update.item))

(* As long as no update of the item was refused, snapshot content and live  *)
(* changes are told apart the way the server meant them, also on the        *)
(* session that replaced a lost one (manager.rs classify_update).           *)
KindIsServers ==
    UpdateHeard /\ heard.update.item \notin refused => heard.update.kind = meant.kind

(* A COMMAND caller that acts on command() and key() of every update holds  *)
(* the server's rows: one baseline per item is enough (item_update.rs key). *)
SameRow(row, truth) ==
    IF truth.is = "text" THEN row.is = "text" /\ Document(row.text) = Document(truth.text)
    ELSE row = truth
RowsAreServers ==
    UpdateHeard /\ IsCommandMode(schema) /\ heard.update.item \notin refused =>
        \A k \in RowKeys : SameRow(rows[heard.update.item][k], meant.rows[k])

(* What diff.rs says of a diff that fails: the client must not fall out of  *)
(* step with the server's view of a field silently.  So an update shows the *)
(* server's values also after a refusal.                                    *)
StaysInStep ==
    UpdateHeard => \A p \in 1 .. FieldCount :
        Equivalent(items[heard.update.item].fields[p], meant.values[p])

(* What item_update.rs advises (command): require that this update carried  *)
(* the command before deleting.  A caller that does so holds the server's   *)
(* rows (checked with HeedsAdvice).                                         *)
AdviceKeepsRows == HeedsAdvice => RowsAreServers
=============================================================================

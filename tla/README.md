# A TLA+ model of lightstreamer-rs

`lightstreamer-rs` is a client of Lightstreamer's text protocol (TLCP): it opens a
*session* on a server over WebSocket or HTTP, subscribes to items, receives their
updates as lines on a *stream connection*, and sends *control requests*
(subscribe, unsubscribe, reconfigure, message, destroy, force rebind) beside it.
Connections drop, are rebound and recovered, and sessions are replaced; the client
promises to carry the caller's subscriptions and the sequence of data across all of
that, or to say where it could not.

This directory holds the specifications, their TLC configurations and the TLAPS
proofs. It models what is hard to test in that promise: the order of lines, commands, timers
and failures; how octets become lines and lines become values, whatever the network
splits; and whether a server understands what the caller asked.

1. [Inventory](#1-inventory)
2. [Modules and how they correspond to the code](#2-modules-and-how-they-correspond-to-the-code)
3. [Runs](#3-runs)
4. [What the violations show](#4-what-the-violations-show)
5. [Fairness](#5-fairness)
6. [Proofs](#6-proofs)
7. [What is not modelled](#7-what-is-not-modelled)
8. [Plan](#8-plan)

## 1. Inventory

A client is three tasks of one runtime.

    caller ──► Client ──(commands, bounded)────────────► SessionDriver ──► Transport
                 │                                            │   (opens, lines, control)
                 └─(registrations, unbounded)─► Router ◄──────┘
                                                  │   (events, bounded)
                     per-subscription streams ◄───┤
                     session event stream     ◄───┘
                 issue_unsubscriptions: Router ──► bounded command channel

| Component | Source | State | Operations |
|---|---|---|---|
| Session driver | `session/mod.rs` | session and previous session, stream state, intent of the next open, progressive and duplicates to skip, registry and its index of sub ids, pending requests with the session generation, counters of ids, retry counters, two flags | `drive` (open, pump, plan), `on_line` and its handlers, `on_command`, `on_timer`, `on_stream_end` |
| Backoff | `session/backoff.rs` | attempts, base of the next delay | `next_delay`, `reset` |
| Liveness clocks | `session/liveness.rs` | last line, last request, what either may wait | opened, bound, closed, inbound, outbound, due |
| Router | `client/router.rs` | streams by key, what each caller has been told | register, unregister, stream dropped, route an event, stop |
| Client facade | `client/mod.rs` | key counter, staging buffer, handles of the tasks | connect, subscribe, unsubscribe, send_message, disconnect, drop |
| WebSocket transport | `transport/ws.rs` | one socket, line buffer | open (create opens a socket, bind reuses it), send_control, next_line, close |
| HTTP transport | `transport/http.rs` | the response being read, queued control lines | open, send_control (a connection of its own), next_line, close |
| Framing | `transport/framing.rs` and the chunked decoder | partial line | push bytes, take line |
| Subscription manager | `subscription/manager.rs` | activation, item baselines, snapshot phase | subok, update, end of snapshot, clear, unsub |
| Diff and field decoding | `protocol/` | none | decode an update against a baseline |
| Codecs | `protocol/` | none | format a request, parse a line, `classify` a code |
| Builders and configuration | `client/subscription.rs`, `client/message.rs`, `config/` | none | check what a caller wrote, derive addresses, timings and requests from it |

Interactions that are hard:

- *Several sources, one task.* The driver selects between commands, lines, two timers
  and the stop lane. Each handler runs to completion, so handlers are atomic, but any
  order of them is possible, and state read in one (`stream_state`, `session`,
  `pending`) is used in a later one.
- *Connections lose what is in flight*, in both directions. Data notifications are
  counted (`progressive`) and can be recovered; answers to requests are not.
- *Sessions are replaced*, by refusal, by END, or by a server that answers a bind with
  another id. The registry survives, sub ids and requests in flight must not.
- *Back-pressure.* Both channels between driver and router are bounded. A third task
  exists so that the router never waits for the command channel.
- *Bounded retry.* Each kind of failure has to count, only a bind may reset the count.
- *Octets arrive in pieces.* A line may be split over chunks, frames and reads, several may
  come in one, and a connection may be cut inside any of them.
- *Values are differences.* An update says what changed against the value held before, in
  one of several encodings; one misread token makes every later value of the field wrong.
- *One task serves lines, commands and timers.* A slow caller or a control request over HTTP
  keeps the driver from its clocks.

What makes each component correct:

- driver: the index is the inverse of the bindings; the desired set survives; requests
  never outlive their session; every request and every message is answered once; data
  is handed on consecutively or the break is reported; stop always stops; retry ends.
- router and facade: a stream is registered before its first event and ends with a
  terminal event; no cycle of waits; a failed subscribe leaves nothing behind.
- transports: no byte of one stream is read in the next; a control response is seen or
  the request fails.
- manager and decoding: the decoded value equals the one the server holds, or the caller
  is told.
- codecs, builders and configuration: a server that reads by the rules of the protocol
  understands what was asked; an answer reaches the call it answers.
- clocks: a stream is given up only for a silence that lasted; a commitment is kept.

`PROJECT.json` lists the hazards one by one, at the line where each bites.

## 2. Modules and how they correspond to the code

| Module | What it is |
|---|---|
| `SessionDriver` | The driver task, against an unconstrained server and caller. |
| `SessionLifecycle` | The same with a server that opens a stream by CONOK or CONERR, and with fairness. |
| `ReliableFeed` | What the caller is promised about data notifications (abstract). |
| `RecoveryLink` | The driver, a conforming server and a lossy link, for data notifications. |
| `MessageLink` | The driver, a conforming server and a dropping socket, for messages. |
| `SessionPort` | What the client layer relies on of the driver (abstract). |
| `DriverContract` | `SessionDriver` seen through the port: the refinement `KeepsContract`. |
| `SubscriptionStream` | What the caller is promised about a stream of updates (abstract). |
| `ClientSystem` | Caller, facade, router, third task and channels, with `SessionPort` as the driver. |
| `FieldDecoding` | The value list of an update and the two diff formats, as functions. |
| `ItemUpdates` | What the caller reads of an update: fields by position and name, key, command. |
| `SubscriptionFeed` | The subscription manager against a server that encodes its updates. |
| `LineChannel` | What the driver may rely on of a transport (abstract). |
| `LineFraming` | `LineBuffer`: octets to lines. |
| `HttpBody` | Body framing and chunked decoding. |
| `LineTransport` | The three transports, octet by octet: the refinement `KeepsChannel`. |
| `TextCoding` | Percent-encoding, both ways. |
| `Requests`, `Responses` | The requests and their layouts; the parser of lines. |
| `Builders` | What `client/subscription.rs` and `client/message.rs` check and make. |
| `Settings` | Timings and options: what is checked, what a session makes of them. |
| `Addresses` | `ServerAddress`, and the endpoint each transport dials. |
| `ClientCalls` | A caller's asks to a server that reads by the protocol, and back. |
| `Clocks` | `Liveness` and `Backoff`, as functions on records. |
| `ClientTiming` | The driver as time goes by: openings, waits, clocks and what holds it up. |
| `MC*` | Alphabets and model values of the runs. |
| `SessionDriverProofs` | Of the driver: issuing, types, the inductive invariant (registry, requests, session), the action properties, and that it keeps the contract of `SessionPort`. |
| `RecoveryProofs` | The inductive invariant of `RecoveryLink`, and that it implements `ReliableFeed`. |
| `MessageProofs` | The inductive invariant of `MessageLink`, and its theorems. |
| `ClientProofs` | The inductive invariant of `ClientSystem`, its theorems, and that it implements `SubscriptionStream`. |
| `TimingProofs` | The inductive invariant of `ClientTiming`, and its theorems. |
| `FoldFacts` | The fold of the community modules, for every operator: its two equations. |
| `FeedProofs` | The decoder of updates reads back what a server encodes; the inductive invariant of `SubscriptionFeed`, and its theorems. |

The modules describe the same driver at different distances. `SessionDriver` lets every
deadline fall due at any time and leaves payloads out; `ClientTiming` has the time and
leaves out what lines say; `ClientCalls` has the words and lets nothing go wrong but the
connection; `SubscriptionFeed` is one subscription behind the driver, `LineTransport` what
is in front of it.

### SessionDriver

One action per handler, run to completion as the single task runs it.

| Variable | Field |
|---|---|
| `phase` | where `drive` is: before a delay (`waiting`), in `open_stream`, in `pump`, or returned |
| `intent` | `Reopen` and the intent handed to `build_open` |
| `session`, `previousSession`, `streamState`, `progressive`, `skipRemaining`, `progHonoured`, `forceRebindOutstanding`, `destroyRequested` | the fields of those names |
| `reg` | `Registry::entries`: a key without entry is `unused` before and `gone` after |
| `bySubId`, `nextSubId` | `Registry::by_sub_id`, `next_sub_id` |
| `pending`, `generation`, `nextRequestId` | pending requests, each with the session generation it was made in |
| `attempts`, `refreshStreak`, `heartbeatFailures` | the retry counters |
| `wanted`, `out` | history: what the caller still expects; the events of the last step |

`Reopens`, `RetriesAfter`, `PlanRebind`, `PlanRecovery`, `PlanCreate` and `PlanRefresh`
are `plan_after` by unbind reason, with the part of the next turn of `drive` that runs
before the open. `IssueSubscriptions` is `issue_subscription` folded over the keys that
need it in key order: the key at rank `r` of the set gets the sub id and the request id
`r` steps after the next ones, sends fail for any subset, ids once taken are not reused,
and a counter at its maximum hands out nothing.

Abstractions: the server may send any line of the alphabet at any time in `pump`; a
delay is zero or positive (full jitter can draw zero); a deadline may fall due at any
moment it is armed; lines that change nothing (`ERROR`, `SYNC`, `PROBE`, ...) are one
action with lines that do not parse; the payload of an update and the manager's state
are left out; a subscription's parameters are its key.

### RecoveryLink and ReliableFeed

The server numbers data notifications, sends them in order, may end the stream by LOOP,
END or closing, and answers a recovery at, before or after the point asked for, or
refuses. Whatever tears the connection down empties what is in flight. `ReliableFeed`
says: one step delivers the next notification, or reports a gap, or reports a new
session, or delivers nothing. `ImplementsReliableFeed` is the refinement, with
`told <- Told` as the mapping from the events of a step.

### MessageLink

The server takes requests in order, answers each REQOK or REQERR on the same socket,
and puts one MSGDONE per accepted message in the log of its session, which a recovery
replays. The answers are not replayed. `reports` counts what the caller was told.

### SessionPort and DriverContract

The client layer is checked against a contract and the driver is shown to keep it, so
neither model has to carry the other. The contract knows for each subscription key
whether it is unused, wanted, being removed or gone, whether the driver is closed, and
which events one step may produce. `KeepsContract == Port!Spec` maps the registry and
`out` of `SessionDriver` to it; it is checked by `Lifecycle`. It allows more than the
driver does: what it leaves out is what the client layer may not rely on.

### ClientSystem

One action per step between two awaits of a task; a task that waits for room on a
channel is in a state whose next step is not enabled.

| Variable | Code |
|---|---|
| `client`, `call` | where the caller is in `connect`, `subscribe` and `disconnect`, and what it does with each `Updates` |
| `listener`, `staged`, `ready` | `SessionEvents`, the events `connect` set aside, the oneshot it waits on |
| `stop` | the watch channel behind `SessionHandle::stop` |
| `cmds`, `events`, `stream`, `sessionQ` | the bounded channels |
| `routerQ`, `unsubQ` | the unbounded ones |
| `router`, `subs`, `sessionOut`, `delivering` | the router's select, its two fields, and the send `deliver` is awaiting |
| `third`, `issuing` | `issue_unsubscriptions` and the send it is awaiting |
| `life`, `closed`, `said`, `driverDone` | the port, the events not yet emitted, and whether `run` has returned |

The select of the router is biased; `PassesCommands`, `AtEvents` and `RouterStops` are its
three branches in their order. A biased select still polls one branch after another, and
on a runtime with several threads the other tasks run in between: `RouterLooks` is the router
past its first two branches, and what arrives on them then is not seen before the next poll.

Abstractions: an event is an `"event"` or the `"last"` one of its stream; a step of the
driver is atomic but for the events it emits, which leave it one at a time and in any
order; the driver may still hear a line after it abandoned an event to a stop, although
the code then closes at once; the caller is live or has started `disconnect`, calls what
it likes, and may at any time stop reading a stream, or drop it.

`SubscriptionStream` promises of each stream that it takes events in order, closes once,
and is cut without a terminal event only if a stop was ordered, the client is gone, or
the router has ended with the session. `KeepsStreams` is the refinement.

### SubscriptionFeed, ItemUpdates and FieldDecoding

`SubscriptionManager::handle` is one action per notification: `Activate`, `ApplyUpdate`,
`EndOfSnapshot`, `ClearSnapshot`, `Overflow`, `Reconfigured`, `Unsubscribed`.

| Variable | Code |
|---|---|
| `activation`, `schema`, `items` | the manager's `Activation` and the `ItemState` of each item: its field slots, whether an update was seen, whether the snapshot has ended |
| `heard` | the event of the last step; a refusal is `Undecodable`, as the router delivers it |
| `srv...`, `wire`, `meant` | the server (external): values last sent, rows, lines on their way with what it meant by them |
| `refused`, `rows` | history: items with a refused update; the rows a caller keeps by `command()` and `key()` |

The server chooses freely between all encodings of a change: content, the empty and the null
mark, unchanged, a run of unchanged fields, a character diff, and a JSON patch when the
values are documents and the feature is compiled in. `StrayLines` are those that contradict
the subscription; each of the manager's refusals is reached by one.

`FieldDecoding` takes tokens as the classes the decoder sorts them into. A diff is computed,
with its counts in the letters of the code, its bounds, checked addition, and its refusal of
characters the server counts as two.
JSON is reduced to a text with characters that mean nothing, which is what separates a
character diff (which counts them) from a patch (which does not keep them).

### LineTransport, HttpBody, LineFraming and LineChannel

A *transcript* is what arrives on one connection: octets, each marked as payload or framing
for the properties only, and how it ends. `Portions` says how much one read brings.

| Variable | Code |
|---|---|
| `stream` | `WsTransport::socket`; of `HttpTransport`, the body with its framing and the octets not yet decoded |
| `lines` | `LineBuffer`: the complete lines and the partial one |
| `last` | HTTP's `pending_final`, the WebSocket's `truncated` |
| `answers` | `control_lines` |
| `script`, `at`, `given` | the transcript, octets delivered, items handed on |
| `driver` | the order in which the session driver calls: open, read, close |

`next_line` is one action per turn of its loop: a queued answer, a buffered line, the last
line, or a read of the stream. `SendControlHttp` reads a whole answer on a connection of its
own, cut anywhere, up to the cap on its size. The UTF-8 alphabet has a two-octet character,
so that lines end in half of one.

`LineChannel` is the port: `due` lines in order, how the connection ends, and `answers`.
`KeepsChannel` is the refinement, with what the transcript promises as a whole
(`Promise`, `EndsOf`, both written without reading it piece by piece) as the mapping.

### ClientCalls and the codecs

A caller has settings, an address, credentials and a list of asks. `Configure` checks as the
builders do, `OpenStream` is `build_open` with the endpoint dialled, `Ask` is one call on
the session's handle up to the request on the wire, `ReadLine` is `on_line` for answers,
outcomes and rebinds.

| Variable | Code |
|---|---|
| `session`, `link`, `progressive`, `nextRequest`, `nextSub`, `pending`, `subs` | the driver's fields; `link` is the control link the transport was told of |
| `withheld` | accepted asks the encoder refused |
| `dialled` | endpoints connected to, with the link in force |
| `wire`, `lines`, `issued`, `heard`, `decided` | the server (external): what it reads, understands, decides and answers |
| `reports`, `outcomes`, `unread` | what the caller was told; lines that told the driver nothing |

Texts are sequences of octets where an encoding could go wrong, names of parameters and
fixed words are single octets. `Understood` is a reader of TLCP written from the protocol,
not from the encoder: it splits at line ends, ampersands and equals signs, takes plus for a
space and decodes.

### ClientTiming and Clocks

Instants are kept as ages, so that the state stays finite: `Clocks` has the operations of
`Liveness` and `Backoff` on records with the fields of those names. A tick passes only when
the driver has nothing to do (`NothingIsDue`), unless it is held up: by an event the caller
leaves waiting, or by a control request or heartbeat over HTTP, which the driver awaits.

| Variable | Code |
|---|---|
| `settings` | what the builder accepted |
| `driver` | where `drive` is, the time left of an opening or a wait, what holds it up, `Liveness`, `Backoff`, `heartbeatFailures`, lines read since the turn was inverted, the reason of the last unbind |
| `unread` | items that have arrived and were not read |
| `past` | history: the time since something arrived, since the driver has listened without hearing, and since a request got through, with the heartbeats lost since |

`MayReadLine`, `MayServeCommand` and `MayServeTimer` are the branches of the biased select
in `pump`, with the turn on which the order is inverted.

## 3. Runs

| Run | Asks | Bounds, and why they are enough |
|---|---|---|
| `RegistrySafety` | do registry, index and requests stay consistent through refusals, activations, unsubscriptions and replaced sessions; is the contract of `SessionPort` kept | two keys and two usable sub ids (one id exhausted by a reissue), three request ids, so that a delete is in flight beside the add it crosses; two sessions, one replacing the other: a subscription is activated, refused, given up and removed by the server in any order, and one key's answer can arrive while the other's entry is re-issued on the next session |
| `Lifecycle` | every kind of line and every command, with fairness: stop, give up, truthful binds, answers, the same contract | one of each datum and one request at a time (`RegistrySafety` has more); every class of `classify`; one replaced session; two attempts, so that the second refusal and the give-up differ; every width at its smallest, so that each counter reaches it |
| `Recovery` | do data notifications reach the caller consecutively | four notifications, three in flight: a duplicated replay of several, cut again by a drop |
| `Messages` | at most one outcome per message, none forgotten | two messages, two drops' worth of attempts |
| `Streams` | does each stream close once, is the end of the session reported, however the router's select is interleaved | one key, every channel of capacity one, the events the router tells apart (`Distinct`). Every wait for room occurs; the session's own stream is the second stream the router may be held up by |
| `Shutdown` | does a stop end every task, does `disconnect` return, is `connect` told, is a dropped stream unsubscribed | the same sizes with the events that fill channels (`Filling`); a caller that subscribes, stops reading, drops and disconnects at any point |
| `Feed` | are the values, their kind and the rows of a COMMAND subscription at the caller those of the server | two items (one in COMMAND mode, whose two rows play that part) of two or three fields; values that are absent, empty, and two documents that differ behind a character that means nothing, so that a position in one spelling is not one in the other; a radix of 2, so that counts need two letters; one line on its way, for the manager sees them one at a time |
| `Transport` | are the lines of each connection handed on whole, in order, with the right end | payloads of three to five octets with every kind of line end, an empty line, a character cut in two, LOOP behind a line, and a line too long; every framing, every cut, reads of one, two or all octets; one queued answer |
| `Calls` | does the server understand what was asked, and do its answers find their call | one caller per way of asking: each choice with each mode, texts of every octet that means something to an encoding, series of asks over a rebind and a recovery, settings at and beyond what is accepted, addresses with every part present, absent or malformed, three control links; two openings |
| `Timing` | is a stream given up only for silence, is the commitment kept | commitments of two and three ticks (three is not a whole number of heartbeats), promises of one or two, calls that hold the driver up for two; lines up to the inverted turn; heartbeats up to the limit |
| `GivenUpReissued`, `OutrunsRegistration` | section 4 | the smallest in which the case arises |

`CHECK_DEADLOCK FALSE` is there because the driver does stop: `closed` is final, and a
link whose server has produced all its bound allows has nothing left to do. A client
whose caller is gone and whose tasks have ended has nothing left to do either. In `Timing`
a session that has spent its attempts has ended, and in `Calls` a client whose asks and
openings are spent, or whose configuration was refused, is done.

Bounds that are not of the code: `MaxGeneration` (no session is created beyond it, in
the guard of `OnConOk`), `MaxProduced` and `MaxInFlight` of the server in
`RecoveryLink`, `WireBound` in `SubscriptionFeed`, `MaxAnswers` in `LineTransport`,
`MaxOpens` in `ClientCalls`, and `MaxUnread` and `MaxEmit` in `ClientTiming`. `MaxAge` is
where ages stop counting; it exceeds every commitment and every promise of the instance,
slack included, without which a silence could not be seen to last. `MaxLineBytes`,
`MaxHeaderBytes`, `MaxBody`, `MaxUsize`, `MaxU32`, `MaxU64`, `MaxI64`, `Radix` and
`MaxLinesPerTurn` are the code's limits made small. In `Feed` two choices are fixed:
`PastRefusal = FALSE` (the server does not go on with an item after a list that
contradicted the protocol, the only kind that is refused) and `HeedsAdvice = FALSE`;
section 4 says what happens otherwise. The widths `SubIdMax`, `RequestIdMax` and
`ProgressiveMax` are the code's `u32::MAX` and `u64::MAX` made small, with the code's
behaviour at the limit.
`RegistrySafety` uses symmetry in the session ids, which safety alone allows; no
temporal property of the run depends on which id it is.

Properties checked:

- `IndexMatchesRegistry`, `OneAddInFlight`, `NoStaleRequest`, `NothingLostSilently`,
  `BoundHasSession`: the consistency of the driver's state; also proved (section 6).
- `ReissuedAtBind`: a bind leaves each wanted subscription bound, or tells the caller
  its add was not sent. A spent sub id space is the exception: the code gives up there
  in silence.
- `IdsAreFresh`: no sub id twice in a session, no request id twice at all.
- `StopCloses`, `GivesUpEventually`: liveness.
- `ContinuityIsTrue`: a bind reported as the same session keeps id, count and bindings.
- `NoRequestForgotten`: a request stops being in flight only with its answer.
- `ProgressiveIsPosition`, `SkipMatchesReplay`, `ImplementsReliableFeed`: recovery.
- `AtMostOneOutcome`, `NoMessageForgotten`: messages. `Messages` lets the server keep
  its session; section 4 says what happens otherwise.
- `KeepsContract`: the driver refines `SessionPort`, activations, refusals, deletes and
  the ends the server decides included.
- `KeepsStreams`: the router refines `SubscriptionStream`, cancelled calls included.
- `ClosedIsReported`: unless a stop was ordered, the stream of the session ends with the
  closing event.
- `ShutdownFinishes`, `ConnectIsTold`, `DroppedIsUnsubscribed`: there is
  no cycle of waits among the three tasks, `connect` and `disconnect`, whoever stopped
  reading; only a dropped stream's unsubscription may be held up by a caller that stopped
  reading another stream, as the code documents. `ShutdownFinishes` assumes nothing
  about `Abort`: the stop is enough.

- `ValuesAreServers`, `KindIsServers`, `RowsAreServers`: through any mixture of encodings,
  unchanged marks and sessions replaced, the caller sees the server's values in every field,
  snapshot and live changes told apart as the server meant it, and the server's rows.
- `KeepsChannel`: every transport refines `LineChannel`.
- `NoLineWaits`: the network is not read while a line that has arrived is still held, so
  that no line waits for octets that may never come.
- `HeardAsAsked`: a server understands exactly what was asked, no parameter more, each value
  octet for octet. `ValidIsWritten`: what the builders accept the encoder does not refuse.
- `AnswerFindsItsCall`: every answer reaches the ask it answers, with the server's words.
- `AddressIsKept`: connections go to the host and port named, by the address or a control
  link, and are encrypted exactly when the address is.
- `SilenceIsJudged`, `CommitmentKept`: the two clocks; also proved (section 6).

Each property of a passing run has a mutant of the model that violates it, a bug of the
kind the code could have: an index entry left behind by a refusal, a retry counter reset
by a connection instead of a bind, a duplicate that is counted, a line buffer that survives
its connection, a deadline that goes on from the stream before.

## 4. What the violations show

Two runs state what the code's comments and documentation say and find that the code
does otherwise. `PROJECT.json` quotes the lines. Two more divergences from the documentation
follow; they are stated in the modules and are no runs.

- `GivenUpReissued`: a SUBOK that crosses the caller's unsubscription makes the entry
  active again, and it is subscribed anew on the next session.
- `OutrunsRegistration`: `RegistrationComesFirst` says that an event is thrown away only if
  its stream has ended or the caller no longer holds it. The router's comments give the bias of
  its select as the reason. But a registration and the first event of its subscription may both
  arrive between the polls of two branches, and the event is then routed first. The shortest case
  needs no server: a request that cannot be sent is reported at once. An activation, an update
  or a deferral is lost that way, and a refusal goes to the session's stream while the
  subscription's stays open. It takes a preemption of the router in the middle of a poll.
- `ClientTiming.StallIsSilence`, violated on the instance of `Timing`: `updates.rs:353-359` says
  that a caller that stops consuming for longer than the keepalive plus the slack sees, "the moment
  you start reading again", that "the client will conclude the connection went silent, tear it
  down, and recover"; `events.rs:867` repeats it. The driver does so only if nothing has arrived
  meanwhile, or on the turn that serves the timer first: otherwise `pump`
  (`session/mod.rs:2325`) reads the line that waits before it looks at the time, `on_line`
  restarts the clock, and the connection goes on. `SilenceIsJudged` states what the code does; it
  is the milder of the two, for no connection is given up that was alive.
- `ClientCalls.BasePathReached`, violated on the instance of `Calls`: `address.rs:55-58` says "A
  base path is accepted too, for a server published behind a reverse proxy, and the fixed path is
  appended to it". The WebSocket transport does so; the HTTP transport keeps the authority only
  (`http.rs:222`) and posts to the fixed path.

### Divergences

The promises of section 3 hold under conditions, most of which are constants. With the
value given here TLC refutes the property named, which is kept in its module for this purpose.

| Property | With | What happens |
|---|---|---|
| `RecoveryLink.NothingHandedOnTwice` | `LoopsInReplay = TRUE` | a stream that ends by LOOP before a replay caught up makes the driver forget what it still had to discard; duplicates reach the caller |
| `MessageLink.AtMostOneOutcome` | `KeepsSessions = FALSE`, `MaxGeneration = 3` | a message whose REQOK was lost stays pending; its MSGDONE is reported, and `NotSent` as well when the session is replaced |
| `SessionLifecycle.GivesUpEventually` | `IsPolling = TRUE` | a response that ends before CONOK counts as a poll cycle and resets the retry bound |
| `ClientSystem.UnsubscribeIsAnswered` | `Calls = {"unsubscribe"}` | a subscription given up while it is not bound is forgotten without an event, and its stream never ends |
| `SubscriptionFeed.StaysInStep` | `PastRefusal = TRUE` | a refused list leaves the fields as they were, and a later difference is taken against a value the server no longer holds; the caller was told of the refusal, not of this |
| `SubscriptionFeed.AdviceKeepsRows` | `HeedsAdvice = TRUE` | the documentation of `command()` advises to require that the update carried the command before deleting; a second DELETE in a row may be sent as unchanged, and its row stays |
| `LineTransport.NoHalfAnswer` | as in `Transport` | the end of a control connection ends its answer, also one without framing cut in the middle of a line |

Seen while modelling, and in no property:

- a data line that does not parse is handed on as an event and not counted, so that a
  recovery delivers it again (`session/mod.rs:2430`);
- a server that answers every fresh session with END 48 resets the schedule with each CONOK;
  only the refresh streak ends that (`session/mod.rs:2248`);
- `force_rebind_outstanding` is raised before the request is sent and not lowered when it
  could not be (`session/mod.rs:3261`);
- `destroy_requested` survives a connection error: the driver then recovers, or creates, a
  session it was told to destroy, and only the END or the end of that stream closes it
  (`session/mod.rs:3297`);
- a second refusal in a row takes the session id already taken, and the report of the
  session lost has none (`session/mod.rs:2484`);
- any line before CONOK re-arms the deadline of the opening (`session/mod.rs:2421`);
- heartbeat failures are carried over from one connection to the next;
- a commitment below a millisecond becomes zero, a heartbeat on every turn
  (`session/options.rs:237`);
- the server's limit on the length of a request is noted and never applied
  (`session/mod.rs:2603`);
- `wss://[::1]x` is accepted as an address, and so is the port `+80`;
- on a WebSocket a connection to a control link leaves out the base path of the address.

## 5. Fairness

`LifecycleSpec` assumes weak fairness of four things.

- `DelayElapses`: the delay is a timer of the runtime. The select favours commands, so a
  caller that never lets the channel run dry could starve it; the assumption is that
  it pauses. (The bounded channel and the inverted turn every 32 lines limit this in
  `pump`, not while waiting.)
- `Established \/ OpenFails`: an open is raced against its timeout.
- `HandshakeEnds`: before CONOK a stream ends in an answer or at the deadline armed with
  the open. Only a line re-arms that deadline, and `OrderlyLine` lets none but CONOK and
  CONERR through there. A server that keeps sending other lines before CONOK postpones
  the deadline without end; that case is outside `LifecycleSpec`.
- `StopObserved`: the stop lane is part of every select. (A control request being sent
  is not raced against it; sending is one step here.)

Nothing is assumed of the server or of the network, so `GivesUpEventually` holds also
when every open fails or hangs. It is stated for streams that are never bound again: a
server that binds each session only to refresh it is limited by the refresh streak,
which has no property yet.

`ClientSystem` assumes weak fairness of the router, of the third task, of
`connect` and of `disconnect` (tasks of the runtime, and timers for the budgets), and of
reading for a stream whose caller has not stopped reading it. `DriverServes` and
`DriverStops` get strong fairness: the driver's select favours lines, and a server that
never pauses disables and enables the two again and again, but every 32 lines the order
is inverted for one turn. Nothing is assumed of the caller's calls, of the server
(`DriverHears`), of `DestroyQueued` or of `Abort`.

`SubscriptionFeed`, `LineTransport`, `ClientCalls` and `ClientTiming` assume no fairness:
what is said of them is safety. In `ClientTiming` that the driver comes to a timer in time
is in the guard of `Tick`, which lets no time pass while there is something to do; a caller
that never lets the command channel run dry is thereby excluded.

## 6. Proofs

For all values of the constants that satisfy the named assumptions (keys are positive
naturals and finitely many, the widths are positive, `NoSession` is not a session, the
alphabets are within the protocol; what a server of the links may send is bounded by the
width of the counter; for `ClientTiming`, `TimingAssumption`, `AgeAssumption` and
`DurationsAssumption`: durations are natural numbers of ticks and configurations have the
shape of a configuration, no more; for `SubscriptionFeed`, a text is a sequence no longer than
a `usize` can count, the spellings of the three commands share nothing, and the numeral of a
position is not the name of a field):

| Theorem | Statement |
|---|---|
| `TypeCorrect` | `Spec => []TypeOK` |
| `Consistent` | `Spec => []IInv`, the inductive invariant of `SessionDriver` |
| `IndexCorrect` | `Spec => []IndexMatchesRegistry` |
| `DesiredSetKept` | `Spec => []NothingLostSilently` |
| `RequestsOfThisSession` | `Spec => []NoStaleRequest` |
| `AddsUnique` | `Spec => []OneAddInFlight` |
| `SessionKnown` | `Spec => []BoundHasSession` |
| `IdsNeverReused` | `Spec => IdsAreFresh` |
| `RequestsAnswered` | `Spec => NoRequestForgotten` |
| `BindsReissue` | `Spec => ReissuedAtBind` |
| `BindsTellTheTruth` | `~IsPolling => (LifecycleSpec => ContinuityIsTrue)` |
| `DriverKeepsContract` | `Spec => KeepsContract`, the refinement of `SessionPort` |
| `CountIsPosition` | `WellBehaved => (LinkSpec => []ProgressiveIsPosition)` of `RecoveryLink` |
| `SkipIsReplay` | `WellBehaved => (LinkSpec => []SkipMatchesReplay)` |
| `DriverImplementsFeed` | `WellBehaved => (LinkSpec => ImplementsReliableFeed)`, the refinement of `ReliableFeed` |
| `OutcomeOnce` | `ServerKeeps => (LinkSpec => []AtMostOneOutcome)` of `MessageLink` |
| `MessageKept` | `ServerKeeps => (LinkSpec => []NoMessageForgotten)` |
| `ClientWellTyped` | `Spec => []TypeOK` of `ClientSystem` |
| `EndIsReported` | `Spec => []ClosedIsReported` |
| `ClientKeepsStreams` | `Spec => KeepsStreams`, the refinement of `SubscriptionStream` |
| `ClocksConsistent` | `Spec => []IInv`, the inductive invariant of `ClientTiming` |
| `TimingTypes` | `Spec => []TypeOK` of `ClientTiming` |
| `CommitmentIsKept` | `Spec => []CommitmentKept` |
| `SilenceIsJudgedRightly` | `Spec => SilenceIsJudged` |
| `FoldAppend` (with `FoldEmpty`) | a fold of one element more is one application more of its operator |
| `CountIsRead` | the count of a diff is read as it was written, up to `MaxUsize`, in any radix |
| `DiffIsRead` | `ApplyTlcpDiff(from, Payload(from, to)) = Text(to)`, for any two texts of one-unit characters |
| `PatchIsRead` | the same of a JSON patch, on whatever text is held for the old document |
| `ListAgrees` | a list of encoded fields that is accepted leaves in every field what the server meant |
| `FeedTypeOK` | `Spec => []TypeOK` of `SubscriptionFeed` |
| `FeedShowsTheServersValues` | `Spec => []ValuesAreServers` |
| `FeedTellsSnapshotsApart` | `Spec => []KindIsServers` |
| `FeedKeepsTheRows` | `~HeedsAdvice => (Spec => []RowsAreServers)` |

Some of those about a specification have a hypothesis on the environment, one of four. Each
is the weakest that TLC leaves standing: drop a part of it and TLC has a counterexample, given
in section 4 or here.

- `WellBehaved`: every notification parses, and no stream ends by LOOP before a replay
  caught up. With `Unparsable = {2}` a line that is handed on without being counted takes
  the count off the position (`ProgressiveIsPosition` fails); with `LoopsInReplay = TRUE`
  the driver forgets what it had to discard (`SkipMatchesReplay` fails).
- `ServerKeeps`: the server never loses a session it gave, and there are at most as many
  messages as `progressive`, a `u64`, can count. Without the first a message may be reported
  twice (section 4); without the second the counter sticks at its width.
- `~IsPolling`: a poll cycle that ends before CONOK, after a CONERR took the session away,
  makes the driver plan a rebind with no session to name. What then goes out is a create,
  and if the server answers with the very id it had before, the driver takes the new session
  for the old one. The server of the protocol does not reuse ids; nothing in the driver keeps
  it from believing one that does.
- `~HeedsAdvice`: the caller acts on `command()` of every update. One that deletes a row only
  on a command that the update itself carried may keep a row the server deleted (section 4).

The texts of `DiffIsRead` have no character that the server counts as two. That is a limit
of the decoder and not of the proof: `apply_tlcp_diff` refuses a base or an insertion that has
one. In `FeedShowsTheServersValues` no such hypothesis is left, because a refusal is seen
(`refused`).

*Types.* `TypeOK` alone is not inductive: `OnProg` sets `skipRemaining` to what was asked
minus what is offered, so the width of `intent.requested` is needed
(`RequestedInRange`). The work is in issuing: `Rank` orders the keys of a finite set
injectively below its cardinality, hence every id handed out is within its width
(`Issued`).

*The invariant.* `IInv` adds to the properties what they need to be inductive:

- `SubIdsConsumed`: bindings are below the next sub id. Without it a new binding might
  coincide with an old one and the index lose it.
- `UnregisteredUnbound`: what left the registry holds no sub id. Without it a key whose
  entry is gone might still answer to an id in the index.
- `AddsWereMade`: an add in flight is for a key the caller used. Without it a first
  subscribe could meet an add for its own key.

A new session clears the index and, by `NoStaleRequest`, all requests, for all of them
are of the generation it ends. A rebind issues only unbound entries, which by
`OneAddInFlight` have no add in flight. These two facts are the heart of the argument;
`ReadyToIssue` and `ReadyToRequest` name what issuing needs, and each caller of
`IssueSubscriptions` establishes them.

`Steps` reduces the next-state relation to what it may do to registry and requests, so
that every other action is dealt with once. `IInv` was model-checked in the instance of
`RegistrySafety` before it was proved.

*The action properties* follow from `IInv` handler by handler. `RegistryStep` lists what a
step may do to ids and bindings, and every handler is put in one of its classes;
`NoRequestForgotten` rests on `NoStaleRequest` (an answer finds the request it names, for
there is none of another session), `ReissuedAtBind` on `UnregisteredUnbound` and on the
ranks: a wanted key without a binding after the bind had no sub id left, no request id left,
or a send that failed. `ContinuityIsTrue` needs besides `IInv` that a rebind or a
recovery is planned only with a session to name (`IntentNamesSession`), which is where
polling is excluded.

*The contract.* `KeepsContract` is a refinement under a mapping that loses much: ids, requests
and connections go, the fate of each key and the events remain. One lemma per handler
gives the step of `SessionPort` it is. One fact is needed beyond `IInv`: requests in flight
are about keys the caller used (`RequestsWereMade`), or an answer could speak of a subscription
the client layer has never seen.

*Recovery.* `ProgressiveIsPosition` is about two ends of a link, so its invariant has to say
what is between them. `LineShape` numbers the lines in flight: a line of data at place *i* is
the notification *Offset + i*, with *Offset* computed from the server's cursor. `Positions`
then says for each stage of a bind (asked, answered by CONOK, positioned by PROG, flowing)
where the first line of data stands against the count; in the last stage it is
`last - skipRemaining = Offset`, which is `SkipMatchesReplay`. An end of stream is always
the last line, and by then the server has sent everything (`cursor = produced`), so a rebind
starts where the driver stopped. The refinement adds what each line tells (`Told`) and is
proved for each step that reports something; all others stutter. The invariant was model-checked
in the instance of `Recovery` before it was proved.

*Messages.* The invariant follows a message from hand to hand. `InboxInv`: on its way to
the server its request is in flight, no line answers it and the server does not have it.
`LineInv`: an answer in flight is to a request in flight, a REQERR only for a message the
server did not take; the MSGDONEs in flight are, in order, exactly the outcomes between the
driver's count and the server's cursor. `OutcomesInv`: of what the server took, an outcome is
reported exactly when it is counted; what it did not take and is still in flight was not
reported. From these a message whose REQOK was lost stays pending without harm, because it
is in the log and its MSGDONE is the only report left; and a MSGDONE sent again after a
recovery lies at or before the count and never reaches the line, because a recovery asks for
`progressive`. That the log is never longer than the counter's width is a pigeonhole
(`LogIsShort`). It was model-checked in the instance of `Messages` and in one with three messages
before it was proved.

*The client.* `TypeInv` says what may be in each channel, which `TypeOK` leaves open: a task is
well typed only if what it takes out is. The other two parts follow something from task to
task. `ClosingInv` follows the closing event: when the driver has closed it is still to be
emitted, in the router's channel, being delivered, or the last on the session's stream
(`ClosingOnItsWay`), unless a stop was seen or the router is done; a stop that was seen stays
seen, and a router that is done holds nothing. `StreamsInv` follows a registration. Before a call queues it there is
nothing of its key anywhere (`Untold`): no command, no event, no stream. From then on it is
queued once or registered or spent, every sender of the stream is one of those, and `"last"`
is only ever the last event of a stream (`Registered`). Each of the two is shown to survive
the steps of each task in turn, with `SessionPort` as the driver: it tells of a subscription
only what it was told of (`PortStep`). For `KeepsStreams` the state of a stream is mapped by
`Sink`, and the one delicate step is the end of the router, which cuts all open streams at
once: `SubscriptionStream` allows that only when the client is ending, and a client that is
ending never flows again (`FlowEnds`). The three were model-checked in the instance of
`Streams` before they were proved.

*The clocks.* `CommitmentKept` speaks of time since a request got through, the code of time
since it last tried. `HeartbeatInTime` relates them: with *E* the interval of heartbeats
and no heartbeat lost, that time is at most the clock and at most *E*; with one lost it is
at most *E* more than each. `HeartbeatSetting` gives twice *E* within the commitment, because
the code halves a number of whole milliseconds. `SilenceIsJudged` needs that the deadline armed is
the promise in force (`DeadlineIsPromise`: the budget of the opening, or what CONOK promised
with the slack) and that the clock never runs ahead of the silence (`SilenceIsMeasured`:
while nothing is unread its age is at most the time since something arrived). The second is
what a clock that is not restarted with the stream would break. `IInv` was
model-checked in the instance of `Timing` before it was proved.

*The decoder.* Everything it does is a fold: over the letters of a count, the steps of a diff,
the characters of a document, the tokens of a list. The induction theorems of the library
take the operator as a parameter, which the provers cannot instantiate; `FoldFacts` has the
operator as a CONSTANT of the module instead, does its induction over sets of naturals, and is
instantiated once per fold. Each lemma then follows its fold from the left. A count: the
capitals written so far weigh what they are worth. A diff: after each step the text built is
the prefix of the new value (`PayloadIsRead`). A list: after *j* fields the reader stands
at field *j + 1*, has left what was meant in those before it (`ReadTo`) and everything as it was in
those behind, and has marked as changed only what a token spoke of.

*The feed.* The client holds what it was sent, the server what it sent, and between them are
lines whose meaning depends on the state in which they will be read. So the invariant is not
about a line but about the whole of what is on its way: `WirePath` says that there is a
sequence of states of the server (`Path`), the last one its present state, each reached from the one
before by what the line between them says (`Says`), the first one the one the client agrees
with (`Reflects`: slot by slot, whether an update was seen, whether the snapshot is over,
row by row). A step of the server makes the path longer at its end, a step of the manager
takes its first line away, and the heart of the proof is that the client then agrees
with the second state (`ListAgrees` for the values). The item of a refused update is left out
of this agreement, until its baseline is replaced. `FeedInv` adds the shapes
(`WireShape`, `ManagerShape`, `CallerShape`) and what the last event told (`Told`), which
holds the three properties. It was model-checked with two lines on their way, in MERGE mode,
before it was proved. For the proofs the CASE expressions of the decoder whose arms overlapped were
written as chains of conditions in the order of the code: which arm a CASE takes when two hold
is not determined.

*Only model-checked:* `LineTransport` (its types, `NoLineWaits` and the refinement
`KeepsChannel`) and the properties of `ClientCalls`. They are about folds within folds (a chunked
body whose octets are lines whose fields are percent-encoded), where each level needs an
invariant of its own; and liveness, which the prover does not do: `StopCloses`,
`GivesUpEventually`, `ShutdownFinishes`, `ConnectIsTold`, `DroppedIsUnsubscribed`.

## 7. What is not modelled

- Sockets, TLS, the WebSocket handshake and its pings: left to the libraries, whose failures
  are outcomes of a call. The head of an HTTP response is given as its parsed headers.
- In `SessionDriver` and `ClientSystem`, the time a control request and the closing of the
  transport take. The driver awaits both without racing the stop, so `ShutdownFinishes`
  assumes that they end; `ClientTiming` has the control requests' time.
- The composition of the transports and the manager with the whole driver. `LineChannel`
  and `SessionPort` are the seams; a product of the modules is out of TLC's reach.
- What nothing in the crate sends: the constrain request and the two batch layouts of
  `protocol/request.rs`. MPN is not in the crate.
- The structure of JSON. A patch is a difference of documents; what the optional
  `json-patch` library computes from RFC 6902 operations is external.
- `error.rs`, the wording of events and of log lines, `LineBuffer::redact`, the generator
  behind the jitter.
- A caller that floods the command channel without pause, and a client shared through an
  `Arc` with calls in progress while it is dropped, which the language excludes.
- `max_attempts = None` in `SessionLifecycle`: `GivesUpEventually` is about a cap.
  `ClientTiming` admits the lack of one, and its theorems hold for it.
- Tests and examples.

## 8. Plan

Done: the driver with its life, its two links, its contract and the client on top of it; the
subscription manager and the decoding of updates; transports, framing and their port; the
words of requests and answers, with builders, settings and addresses; the clocks and the
schedule. Proved: types and the consistency of the driver's registry and requests, its action
properties and its contract with the client layer, the feed it gives over a lossy link, the fate
of messages, the safety of the client layer with the promise of its streams, the clocks, and
the manager with its decoder: types, values, kinds and rows.

Left:

1. Proofs: the types of `LineTransport` and `ClientCalls`, then `KeepsChannel`, for which the
   framing of a body has to be shown the inverse of its decoding, and `HeardAsAsked`, for which
   percent-encoding has to be.
2. `ClientSystem` with two subscriptions at a time, and `Reconfigure`.
3. Liveness of `Destroy`: what a server has to do for a session ordered to end to end, when
   a connection error comes between.

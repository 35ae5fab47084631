----------------------------- MODULE ClientTiming -----------------------------
(***************************************************************************)
(* What the session driver does as time goes by: the openings under their  *)
(* budget, the waits between them, the two liveness clocks of an open      *)
(* stream, and the calls that keep the driver from looking at any of them. *)
(*                                                                         *)
(* Time passes one tick at a time, and only when the driver has nothing to *)
(* do: a timer that is due is served before the next tick, unless the      *)
(* driver is held up in a call.  SessionDriver and SessionLifecycle model  *)
(* what the lines carry; here a line is what it does to the clocks.        *)
(***************************************************************************)
EXTENDS Settings, Clocks

CONSTANTS Configurations,        \* the settings a client may be built with
          KeepAlives,            \* what a CONOK may promise, in ticks
          LoopDelays,            \* what a LOOP may ask for, in ticks
          ControlTimeout,        \* the longest round trip of a control request
          MaxEmit,               \* bound: the longest a caller leaves an event waiting
          MaxLinesPerTurn, MaxHeartbeatFailures,
          MaxUnread              \* bound: items arrived and not read

ClientConfigs ==
    [transport : {"WebSocket", "HttpStreaming", "HttpPolling"},
     hint : Optional(Nat), commitment : Optional(Nat), slack : Nat, openTimeout : Nat,
     retryInitial : Nat, retryMax : Nat, retryAttempts : Optional(Nat), sendSync : BOOLEAN]

ASSUME DurationsAssumption ==
    /\ Configurations \subseteq ClientConfigs
    /\ KeepAlives \subseteq Nat /\ LoopDelays \subseteq Nat
    /\ ControlTimeout \in Nat /\ MaxEmit \in Nat
    /\ MaxLinesPerTurn \in Nat \ {0} /\ MaxHeartbeatFailures \in Nat \ {0}

VARIABLES settings,              \* as built
          driver,                \* SessionDriver
          unread,                \* what has reached this end of the stream
          past                   \* for the properties: see Fresh

vars == <<settings, driver, unread, past>>

Policy == [initial |-> settings.retryInitial, max |-> settings.retryMax,
           maxAttempts |-> settings.retryAttempts]

(* Only a WebSocket carries control requests on the stream's own socket.   *)
SharesStream == ControlKind(settings) = "ws"

-----------------------------------------------------------------------------
(* The driver's state *)

Budget(d) == EstablishmentBudget(settings, d.negotiated)

Dialling(d) == [d EXCEPT !.mode = "Dialling", !.left = Budget(d)]

(* wait_before_reopen returns at once when there is no delay.              *)
Reopening(d, delay) ==
    IF delay = 0 THEN Dialling(d) ELSE [d EXCEPT !.mode = "Waiting", !.left = delay]

(* SessionDriver::connect: the first stream is opened without delay.       *)
Init ==
    /\ settings \in {s \in Configurations : TimingsAreChecked(s)}
    /\ driver = Dialling([mode |-> "Dialling", left |-> 0, held |-> "no", spent |-> 0,
                          bound |-> FALSE, session |-> FALSE, negotiated |-> << >>,
                          live |-> NewLiveness(settings.slack, HeartbeatEvery(settings)),
                          backoff |-> NewBackoff(Policy), failures |-> 0, turn |-> 0,
                          unbound |-> "never"])
    /\ unread = << >>
    /\ past = [heard |-> 0, idle |-> 0, quiet |-> 0, missed |-> 0]

(* The driver after the stream ended for a reason: drive and plan_after.   *)
(* A clean loop starts the schedule again; a failure takes the next delay, *)
(* or there is none left.                                                  *)
Unbound(d, reason, loopDelay) ==
    LET ended == [d EXCEPT !.live = OnStreamClosed(@), !.bound = FALSE, !.turn = 0,
                           !.unbound = reason, !.held = "no", !.spent = 0]
        next  == NextDelay(Policy, d.backoff)
    IN  CASE reason \in {"Looped", "PollCycleExpired"} ->
               {Reopening([ended EXCEPT !.backoff = NewBackoff(Policy)], loopDelay)}
          [] OTHER ->
               LET counted == [ended EXCEPT !.backoff = next.backoff]
               IN  IF next.delays = {} THEN {[counted EXCEPT !.mode = "Closed", !.left = 0]}
                   ELSE {Reopening(counted, delay) : delay \in next.delays}

(* What the properties remember of the present stream: the time since      *)
(* something arrived; the part of it the driver was waiting; the time it   *)
(* was waiting since a request got through, and the heartbeats lost since. *)
Fresh == [heard |-> 0, idle |-> 0, quiet |-> 0, missed |-> 0]

Unbind(d, reason, loopDelay) ==
    /\ driver' \in Unbound(d, reason, loopDelay)
    /\ unread' = << >>
    /\ past' = Fresh

Free == driver.held = "no"
Listening == driver.mode = "Pumping" /\ Free

-----------------------------------------------------------------------------
(* Waiting and dialling *)

WaitOver ==
    /\ driver.mode = "Waiting" /\ Free /\ driver.left = 0
    /\ driver' = Dialling(driver)
    /\ UNCHANGED <<settings, unread, past>>

Established ==
    /\ driver.mode = "Dialling"
    /\ driver' = [driver EXCEPT !.mode = "Pumping", !.left = 0, !.turn = 0,
                                !.live = OnStreamOpened(@, Budget(driver))]
    /\ unread' = << >> /\ past' = Fresh
    /\ UNCHANGED settings

(* Refused, or out of time.                                                *)
DialFails ==
    /\ driver.mode = "Dialling"
    /\ Unbind(driver, "ConnectionFailed", 0)
    /\ UNCHANGED settings

-----------------------------------------------------------------------------
(* The server, and the link (external) *)

IsLast(item) == item.kind \in {"Loop", "Ends", "Fails"}

Items == [kind : {"ConOk"}, keepAlive : KeepAlives] \cup [kind : {"Line", "Ends", "Fails"}]
            \cup [kind : {"Loop"}, delay : LoopDelays]

IsBoundAtServer == driver.bound \/ \E k \in DOMAIN unread : unread[k].kind = "ConOk"

Arrives(item) ==
    /\ driver.mode = "Pumping" /\ Len(unread) < MaxUnread
    /\ \A k \in DOMAIN unread : ~IsLast(unread[k])
    /\ item.kind = "ConOk" => ~IsBoundAtServer
    /\ item.kind = "Loop" => IsBoundAtServer
    /\ unread' = Append(unread, item)
    /\ past' = [past EXCEPT !.heard = 0, !.idle = 0]
    /\ UNCHANGED <<settings, driver>>

-----------------------------------------------------------------------------
(* pump *)

(* Every MaxLinesPerTurn lines, commands and timer come before the line.   *)
IsInverted == driver.turn = MaxLinesPerTurn
MayReadLine == Listening /\ unread # << >> /\ ~(IsInverted /\ DeadlineIsPast(driver.live))
MayServeCommand ==
    \/ driver.mode = "Waiting"
    \/ driver.mode = "Pumping" /\ (unread = << >> \/ IsInverted)
MayServeTimer == Listening /\ DeadlineIsPast(driver.live) /\ (unread = << >> \/ IsInverted)

Counted(d) == [d EXCEPT !.turn = IF @ = MaxLinesPerTurn THEN 1 ELSE @ + 1]

Bound(d, keepAlive) ==
    [d EXCEPT !.live = OnBound(@, keepAlive), !.bound = TRUE, !.session = TRUE,
              !.negotiated = <<keepAlive>>, !.backoff = NewBackoff(Policy)]

(* on_line: the line is published, and a slow caller holds the driver up.  *)
ReadLine ==
    /\ MayReadLine /\ Head(unread).kind \in {"ConOk", "Line"}
    /\ LET heard == [Counted(driver) EXCEPT !.live = OnInbound(@)]
           read  == IF Head(unread).kind = "ConOk" THEN Bound(heard, Head(unread).keepAlive)
                    ELSE heard
       IN  \E held \in {"no", "emit"} : driver' = [read EXCEPT !.held = held]
    /\ unread' = Tail(unread)
    /\ UNCHANGED <<settings, past>>

ReadLoop ==
    /\ MayReadLine /\ Head(unread).kind = "Loop"
    /\ Unbind([driver EXCEPT !.live = OnInbound(@)], "Looped", Head(unread).delay)
    /\ UNCHANGED settings

(* on_stream_end: the end of a poll is a clean one.                        *)
ReadEnd ==
    /\ MayReadLine /\ Head(unread).kind \in {"Ends", "Fails"}
    /\ LET cycle == Head(unread).kind = "Ends" /\ Connection(settings).polling
       IN  Unbind(driver, IF cycle THEN "PollCycleExpired" ELSE "ConnectionFailed", 0)
    /\ UNCHANGED settings

(* A request gets through, or not.                                         *)
GotThrough == past' = [past EXCEPT !.quiet = 0, !.missed = 0]
Missed == past' = [past EXCEPT !.missed = @ + 1]

HoldUp(call) ==
    /\ driver' = [driver EXCEPT !.held = call, !.spent = 0, !.turn = 0]
    /\ UNCHANGED <<unread, past>>

(* dispatch on the socket: at once, or not at all.                         *)
CommandOnSocket ==
    /\ Free /\ MayServeCommand /\ SharesStream
    /\ \/ /\ driver.mode = "Pumping"
          /\ driver' = [driver EXCEPT !.live = OnOutbound(@), !.turn = 0]
          /\ GotThrough
       \/ /\ driver' = [driver EXCEPT !.turn = 0]
          /\ UNCHANGED past
    /\ UNCHANGED <<settings, unread>>

(* dispatch on a connection of its own: the driver awaits the answer.      *)
CommandOverHttp ==
    /\ Free /\ MayServeCommand /\ ~SharesStream /\ driver.session
    /\ HoldUp("command")
    /\ UNCHANGED settings

CommandAnswered ==
    /\ driver.held = "command"
    /\ \/ /\ driver' = [driver EXCEPT !.held = "no", !.spent = 0, !.live = OnOutbound(@)]
          /\ GotThrough
       \/ /\ driver' = [driver EXCEPT !.held = "no", !.spent = 0]
          /\ UNCHANGED past
    /\ UNCHANGED <<settings, unread>>

(* The caller takes the event.                                             *)
Emitted ==
    /\ driver.held = "emit"
    /\ driver' = [driver EXCEPT !.held = "no", !.spent = 0]
    /\ UNCHANGED <<settings, unread, past>>

-----------------------------------------------------------------------------
(* on_timer *)

(* InboundStalled, before the binding and after.                           *)
Stalls ==
    /\ MayServeTimer /\ Due(driver.live) = "InboundStalled"
    /\ Unbind(driver, IF driver.bound THEN "KeepaliveExpired" ELSE "NoAnswer", 0)
    /\ UNCHANGED settings

(* send_heartbeat, once it is known whether it was sent: the clock moves   *)
(* either way.                                                             *)
HeartbeatSent ==
    /\ driver' = [driver EXCEPT !.held = "no", !.spent = 0, !.turn = 0, !.failures = 0,
                                !.live = OnOutbound(@)]
    /\ GotThrough
    /\ UNCHANGED unread

HeartbeatFailed ==
    LET d == [driver EXCEPT !.held = "no", !.spent = 0, !.turn = 0, !.failures = @ + 1,
                            !.live = OnOutbound(@)]
    IN  IF d.failures >= MaxHeartbeatFailures
        THEN Unbind([d EXCEPT !.failures = 0], "ConnectionFailed", 0)
        ELSE driver' = d /\ Missed /\ UNCHANGED unread

HeartbeatDue == MayServeTimer /\ Due(driver.live) = "SendHeartbeat"

HeartbeatOnSocket ==
    /\ HeartbeatDue /\ SharesStream
    /\ HeartbeatSent \/ HeartbeatFailed
    /\ UNCHANGED settings

HeartbeatOverHttp ==
    /\ HeartbeatDue /\ ~SharesStream /\ driver.session
    /\ HoldUp("heartbeat")
    /\ UNCHANGED settings

(* Over HTTP a heartbeat names its session, and cannot be encoded without. *)
HeartbeatRefused ==
    /\ HeartbeatDue /\ ~SharesStream /\ ~driver.session
    /\ HeartbeatFailed
    /\ UNCHANGED settings

HeartbeatAnswered ==
    /\ driver.held = "heartbeat"
    /\ HeartbeatSent \/ HeartbeatFailed
    /\ UNCHANGED settings

-----------------------------------------------------------------------------
(* The passing of time *)

HeldAtMost == IF driver.held = "emit" THEN MaxEmit ELSE ControlTimeout

NothingIsDue ==
    CASE ~Free                                   -> driver.spent < HeldAtMost
      [] Free /\ driver.mode = "Pumping"         -> unread = << >> /\ ~DeadlineIsPast(driver.live)
      [] Free /\ driver.mode \in {"Waiting", "Dialling"} -> driver.left > 0
      [] OTHER                                   -> FALSE

Tick ==
    /\ NothingIsDue
    /\ driver' = [driver EXCEPT !.live = Aged(@), !.spent = IF Free THEN @ ELSE @ + 1,
                                !.left = IF @ = 0 THEN 0 ELSE @ - 1]
    /\ past' = IF driver.mode # "Pumping" THEN past
               ELSE [past EXCEPT !.heard = Older(@),
                                 !.idle  = IF Free THEN Older(@) ELSE @,
                                 !.quiet = IF Free THEN Older(@) ELSE @]
    /\ UNCHANGED <<settings, unread>>

Next ==
    \/ WaitOver \/ Established \/ DialFails
    \/ \E item \in Items : Arrives(item)
    \/ ReadLine \/ ReadLoop \/ ReadEnd
    \/ CommandOnSocket \/ CommandOverHttp \/ CommandAnswered \/ Emitted
    \/ Stalls \/ HeartbeatOnSocket \/ HeartbeatOverHttp \/ HeartbeatRefused \/ HeartbeatAnswered
    \/ Tick

Spec == Init /\ [][Next]_vars

-----------------------------------------------------------------------------
Ages == 0 .. MaxAge
LiveStates == [slack : Nat, budget : Optional(Nat), inbound : Ages,
               every : Optional(Nat), outbound : Ages]
BackoffStates == [attempts : Nat, base : 0 .. settings.retryMax]
DriverStates ==
    [mode : {"Dialling", "Waiting", "Pumping", "Closed"}, left : Nat,
     held : {"no", "emit", "command", "heartbeat"}, spent : Nat,
     bound : BOOLEAN, session : BOOLEAN, negotiated : Optional(Nat),
     live : LiveStates, backoff : BackoffStates,
     failures : 0 .. MaxHeartbeatFailures - 1, turn : 0 .. MaxLinesPerTurn,
     unbound : {"never", "Looped", "PollCycleExpired", "ConnectionFailed",
                "KeepaliveExpired", "NoAnswer"}]

(* The state, with the limits the code keeps: the schedule of backoff.rs   *)
(* never rises above its maximum, the lines of a turn and the heartbeats   *)
(* lost in a row are counted up to a limit, and only an open stream is     *)
(* bound or has a deadline for its silence.                                *)
TypeOK ==
    /\ settings \in ClientConfigs
    /\ driver \in DriverStates
    /\ unread \in Seq(Items)
    /\ past \in [heard : Ages, idle : Ages, quiet : Ages, missed : Nat]
    /\ driver.mode # "Pumping" => ~driver.bound /\ driver.live.budget = << >>

(* What the silence of a stream may amount to: the time an opening is      *)
(* given, and what CONOK promised with the slack.                          *)
Promised(d) == IF d.bound THEN d.negotiated[1] + settings.slack ELSE Budget(d)

GivesUpForSilence ==
    driver.mode = "Pumping" /\ driver'.mode # "Pumping"
        /\ driver'.unbound \in {"KeepaliveExpired", "NoAnswer"}

(* session/liveness.rs, next_deadline and due, as pump serves them.  A     *)
(* stream is given up for silence only when nothing has arrived for as     *)
(* long as was promised, whatever held the driver up meanwhile; the one    *)
(* exception is the turn on which the timer comes before the lines, when a *)
(* caller kept the driver from the line that waits for longer than that.   *)
(* And while it listens, a driver never waits for more than was promised.  *)
SilenceIsJudged ==
    [][ /\ GivesUpForSilence =>
              IF unread = << >> THEN past.heard >= Promised(driver)
              ELSE IsInverted /\ driver.live.inbound >= Promised(driver)
        /\ Listening' => past'.idle <= Promised(driver') ]_vars

(* Updates, "What a long stall actually does": a caller that stops reading *)
(* for longer than was promised finds, "the moment you start reading       *)
(* again", that "the client will conclude the connection went silent, tear *)
(* it down, and recover".  On a socket only a caller holds the driver up:  *)
(* one that listens again after that long takes nothing that waits for a   *)
(* sign of life.  (pump reads a line that waits before it looks at the     *)
(* time, and on_line starts the clock again.)                              *)
BackFromLongStall ==
    SharesStream /\ driver.bound /\ Listening /\ driver.live.inbound > Promised(driver)
StallIsSilence ==
    [][ BackFromLongStall /\ driver'.mode = "Pumping" =>
          driver'.live.inbound >= driver.live.inbound ]_vars

(* SessionOptions::heartbeat_interval: a client that made a commitment     *)
(* keeps it, one lost heartbeat included, for as long as nothing holds the *)
(* driver up.                                                              *)
CommitmentKept ==
    Listening /\ past.missed <= 1 /\ ~Connection(settings).polling =>
        \A k \in DOMAIN settings.commitment : past.quiet <= settings.commitment[k]
=============================================================================

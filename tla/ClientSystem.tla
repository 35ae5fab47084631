----------------------------- MODULE ClientSystem -----------------------------
(***************************************************************************)
(* The client of src/client: the facade the caller holds, the router that  *)
(* fans the events of the session out to the caller's streams, the task    *)
(* that issues the unsubscriptions of dropped streams, and the channels    *)
(* between them.  The session driver is its port (SessionPort).            *)
(*                                                                         *)
(* caller --cmds--> driver --events--> router --stream[k], sessionQ--> caller *)
(*    \--routerQ--> router --unsubQ--> third task --cmds--> driver         *)
(*                                                                         *)
(* cmds, events, stream[k] and sessionQ are bounded and a send to them     *)
(* waits for room; routerQ and unsubQ are not.  A wait is a state in which *)
(* the step after it is not enabled.  The stop lane is stop.  The driver   *)
(* emits what one of its steps said in any order, the closing event last.  *)
(***************************************************************************)
EXTENDS Naturals, Sequences, FiniteSets

CONSTANTS
  Keys,           (* The subscriptions the caller makes.                         *)
  CommandCap,     (* Capacity of the session's command channel.                  *)
  EventCap,       (* Capacity of the session's event channel.                    *)
  UpdateCap,      (* ConnectionOptions::with_update_capacity.                    *)
  SessionCap,     (* ConnectionOptions::with_session_event_capacity.             *)
  Says,           (* The events the driver may produce, of those its port has.   *)
  Calls           (* What the caller does besides subscribing, of OptionalCalls. *)

NoKey == 0
ASSUME KeysAssumption == Keys \subseteq Nat \ {NoKey} /\ IsFiniteSet(Keys)
ASSUME CapacityAssumption ==
  {CommandCap, EventCap, UpdateCap, SessionCap} \subseteq Nat \ {0}
OptionalCalls == {"unsubscribe", "send", "cancel"}
ASSUME CallsAssumption == Calls \subseteq OptionalCalls

VARIABLES
  (* the caller *)
  client,    (* connecting | live | asking, joining, forcing: disconnect | gone  *)
  call,      (* For each key: none | queuing: in subscribe | open | stalled: no  *)
             (* longer read | over: read to its terminal event | cut: read to    *)
             (* its end without one | dropped | failed: no stream was returned   *)
  asked,     (* Keys given to Client::unsubscribe.                               *)
  listener,  (* SessionEvents: reads | stalled | over | dropped                  *)
  staged,    (* How many session events connect has set aside, not yet read.     *)
  ready,     (* The oneshot connect waits on: pending | ok | failed              *)
  stop,
  (* the channels *)
  cmds, events, routerQ, unsubQ, stream, sessionQ,
  (* the router *)
  router,      (* running | looking: past its commands and the stop | done       *)
  subs,        (* Router::subscriptions                                          *)
  sessionOut,  (* session_out is Some                                            *)
  delivering,  (* The send towards the caller it is awaiting.                    *)
  (* the third task *)
  third,       (* running | done                                                 *)
  issuing,     (* The key whose unsubscription it is queuing.                    *)
  (* the driver *)
  life, closed, said,
  driverDone   (* Its run has returned and its channels are gone.                *)

Driver == INSTANCE SessionPort

callerVars == <<client, call, asked, listener, staged>>
queueVars  == <<cmds, events, routerQ, unsubQ, stream, sessionQ>>
routerVars == <<router, subs, sessionOut, delivering>>
thirdVars  == <<third, issuing>>
driverVars == <<life, closed, said, driverDone>>
vars == <<callerVars, ready, stop, queueVars, routerVars, thirdVars, driverVars>>

NoDelivery == [to |-> NoKey, what |-> "nothing"]
Session    == NoKey  \* delivering.to, for the session's stream

\* Mutant: one more than the capacity fits.
HasRoomAtCapacity(q, cap) == Len(q) <= cap
HasRoom(q, cap) == Len(q) < cap
InQueue(x, q) == \E i \in DOMAIN q : q[i] = x
Streaming(k) == call[k] \in {"open", "stalled"}
HasStream(k) == Streaming(k) \/ call[k] \in {"over", "cut"}  \* the caller holds an Updates
Unbusy == \A k \in Keys : call[k] # "queuing"

\* A session handle is left, so that the command channel and the stop lane have
\* a sender.  disconnect keeps a clone until it returns.
HandleAlive == client # "gone" \/ third # "done"
StopSeen    == stop \/ ~HandleAlive

Init ==
  /\ client = "connecting" /\ call = [k \in Keys |-> "none"] /\ asked = {}
  /\ listener = "reads" /\ staged = 0 /\ ready = "pending" /\ stop = FALSE
  /\ cmds = <<>> /\ events = <<>> /\ routerQ = <<>> /\ unsubQ = <<>>
  /\ stream = [k \in Keys |-> <<>>] /\ sessionQ = <<>>
  /\ router = "running" /\ subs = {} /\ sessionOut = TRUE /\ delivering = NoDelivery
  /\ third = "running" /\ issuing = NoKey
  /\ Driver!Init /\ driverDone = FALSE

-----------------------------------------------------------------------------
(* Connecting: assemble *)

\* Mutant: past the capacity it stops draining instead of discarding.
ConnectDrainsToCapacity ==
  /\ client = "connecting" /\ ready = "pending" /\ sessionQ # <<>> /\ staged < SessionCap
  /\ sessionQ' = Tail(sessionQ)
  /\ staged' = staged + 1
  /\ UNCHANGED <<client, call, asked, listener, ready, stop, cmds, events, routerQ,
                 unsubQ, stream, routerVars, thirdVars, driverVars>>

\* assemble: while it waits it takes session events out of the channel; past the
\* capacity the caller asked for they are discarded (stage).
ConnectDrains ==
  /\ client = "connecting" /\ ready = "pending" /\ sessionQ # <<>>
  /\ sessionQ' = Tail(sessionQ)
  /\ staged' = IF staged < SessionCap THEN staged + 1 ELSE staged
  /\ UNCHANGED <<client, call, asked, listener, ready, stop, cmds, events, routerQ,
                 unsubQ, stream, routerVars, thirdVars, driverVars>>

\* Everything assemble made is dropped, without a stop.
GivesUpClient ==
  /\ client' = "gone" /\ listener' = "dropped" /\ staged' = 0 /\ sessionQ' = <<>>
  /\ UNCHANGED <<call, asked, ready, stop, cmds, events, routerQ, unsubQ, stream,
                 routerVars, thirdVars, driverVars>>

ConnectReturns ==
  /\ client = "connecting"
  /\ \/ /\ ready = "ok"
        /\ client' = "live"
        /\ UNCHANGED <<call, asked, listener, staged, ready, stop, queueVars,
                       routerVars, thirdVars, driverVars>>
     \/ ready = "failed" /\ GivesUpClient

\* The caller drops the future of connect.
ConnectCancelled == client = "connecting" /\ GivesUpClient

-----------------------------------------------------------------------------
(* The caller *)

\* A command for the router is lost once the router is done.
TellsRouter(c) == routerQ' = IF router = "done" THEN routerQ ELSE Append(routerQ, c)
ForRouter(t, k) == [t |-> t, key |-> k]

\* subscribe, to its await: the stream is registered before anything is asked for.
CallSubscribe(k) ==
  /\ client = "live" /\ call[k] = "none"
  /\ call' = [call EXCEPT ![k] = IF router = "done" THEN "failed" ELSE "queuing"]
  /\ TellsRouter(ForRouter("register", k))
  /\ UNCHANGED <<client, asked, listener, staged, ready, stop, cmds, events, unsubQ,
                 stream, sessionQ, routerVars, thirdVars, driverVars>>

\* The command is queued and Updates returned.
SubscribeQueued(k) ==
  /\ call[k] = "queuing" /\ ~driverDone /\ HasRoom(cmds, CommandCap)
  /\ cmds' = Append(cmds, [t |-> "subscribe", key |-> k])
  /\ call' = [call EXCEPT ![k] = "open"]
  /\ UNCHANGED <<client, asked, listener, staged, ready, stop, events, routerQ, unsubQ,
                 stream, sessionQ, routerVars, thirdVars, driverVars>>

\* The driver is gone: the registration is rolled back.
SubscribeFails(k) ==
  /\ call[k] = "queuing" /\ driverDone
  /\ call' = [call EXCEPT ![k] = "failed"]
  /\ TellsRouter(ForRouter("unregister", k))
  /\ UNCHANGED <<client, asked, listener, staged, ready, stop, cmds, events, unsubQ,
                 stream, sessionQ, routerVars, thirdVars, driverVars>>

\* The caller drops the future of subscribe: nothing rolls the registration back.
SubscribeCancelled(k) ==
  /\ call[k] = "queuing" /\ "cancel" \in Calls
  /\ call' = [call EXCEPT ![k] = "failed"]
  /\ UNCHANGED <<client, asked, listener, staged, ready, stop, queueVars, routerVars,
                 thirdVars, driverVars>>

\* unsubscribe
CallUnsubscribe(k) ==
  /\ client = "live" /\ HasStream(k) /\ k \notin asked /\ "unsubscribe" \in Calls
  /\ ~driverDone /\ HasRoom(cmds, CommandCap)
  /\ cmds' = Append(cmds, [t |-> "unsubscribe", key |-> k])
  /\ asked' = asked \cup {k}
  /\ UNCHANGED <<client, call, listener, staged, ready, stop, events, routerQ, unsubQ,
                 stream, sessionQ, routerVars, thirdVars, driverVars>>

\* send_message
CallSend ==
  /\ client = "live" /\ ~driverDone /\ HasRoom(cmds, CommandCap) /\ "send" \in Calls
  /\ cmds' = Append(cmds, [t |-> "message", key |-> NoKey])
  /\ UNCHANGED <<callerVars, ready, stop, events, routerQ, unsubQ, stream, sessionQ,
                 routerVars, thirdVars, driverVars>>

\* Client::drop; no call can be in progress.
DropClient ==
  /\ client = "live" /\ Unbusy
  /\ client' = "gone" /\ stop' = TRUE
  /\ UNCHANGED <<call, asked, listener, staged, ready, queueVars, routerVars, thirdVars,
                 driverVars>>

-----------------------------------------------------------------------------
(* disconnect *)

AllDone == driverDone /\ router = "done" /\ third = "done"

Moves(from, to) ==
  /\ client = from /\ client' = to
  /\ UNCHANGED <<call, asked, listener, staged, ready, events, routerQ, unsubQ, stream,
                 sessionQ, routerVars, thirdVars, driverVars>>

Disconnect == Unbusy /\ Moves("live", "asking") /\ UNCHANGED <<cmds, stop>>

DestroyQueued ==
  /\ ~driverDone /\ HasRoom(cmds, CommandCap)
  /\ Moves("asking", "joining")
  /\ cmds' = Append(cmds, [t |-> "destroy", key |-> NoKey])
  /\ UNCHANGED stop

\* The channel is closed, or had no room within the budget; either way the client
\* itself is dropped and its tasks are waited for.
DestroyNotQueued == Moves("asking", "joining") /\ UNCHANGED <<cmds, stop>>

JoinTimesOut == Moves("joining", "forcing") /\ stop' = TRUE /\ UNCHANGED cmds

DisconnectReturns ==
  /\ AllDone
  /\ Moves("joining", "gone") \/ Moves("forcing", "gone")
  /\ UNCHANGED <<cmds, stop>>

-----------------------------------------------------------------------------
(* The caller's streams *)

\* A sender of the stream is left: in the registration, before it, or in a send.
SenderAlive(k) ==
  \/ k \in subs
  \/ InQueue(ForRouter("register", k), routerQ)
  \/ delivering.to = k

ReadUpdate(k) ==
  /\ call[k] = "open" /\ stream[k] # <<>>
  /\ stream' = [stream EXCEPT ![k] = Tail(@)]
  /\ call' = [call EXCEPT ![k] = IF Head(stream[k]) = "last" THEN "over" ELSE @]
  /\ UNCHANGED <<client, asked, listener, staged, ready, stop, cmds, events, routerQ,
                 unsubQ, sessionQ, routerVars, thirdVars, driverVars>>

\* The stream yields None.
ReadEnd(k) ==
  /\ call[k] = "open" /\ stream[k] = <<>> /\ ~SenderAlive(k)
  /\ call' = [call EXCEPT ![k] = "cut"]
  /\ UNCHANGED <<client, asked, listener, staged, ready, stop, queueVars, routerVars,
                 thirdVars, driverVars>>

StopReading(k) ==
  /\ call[k] = "open"
  /\ call' = [call EXCEPT ![k] = "stalled"]
  /\ UNCHANGED <<client, asked, listener, staged, ready, stop, queueVars, routerVars,
                 thirdVars, driverVars>>

\* Updates::drop
DropUpdates(k) ==
  /\ HasStream(k)
  /\ call' = [call EXCEPT ![k] = "dropped"]
  /\ stream' = [stream EXCEPT ![k] = <<>>]
  /\ TellsRouter(ForRouter("streamDropped", k))
  /\ UNCHANGED <<client, asked, listener, staged, ready, stop, cmds, events, unsubQ,
                 sessionQ, routerVars, thirdVars, driverVars>>

\* SessionEvents::poll_next: what connect set aside comes first.
ReadSessionEvent ==
  /\ client # "connecting" /\ listener = "reads"
  /\ \/ /\ staged > 0
        /\ staged' = staged - 1 /\ UNCHANGED <<sessionQ, listener>>
     \/ /\ staged = 0 /\ sessionQ # <<>>
        /\ sessionQ' = Tail(sessionQ)
        /\ listener' = IF Head(sessionQ) = "last" THEN "over" ELSE listener
        /\ UNCHANGED staged
  /\ UNCHANGED <<client, call, asked, ready, stop, cmds, events, routerQ, unsubQ, stream,
                 routerVars, thirdVars, driverVars>>

StopListening ==
  /\ client # "connecting" /\ listener = "reads"
  /\ listener' = "stalled"
  /\ UNCHANGED <<client, call, asked, staged, ready, stop, queueVars, routerVars,
                 thirdVars, driverVars>>

DropSessionEvents ==
  /\ client # "connecting" /\ listener # "dropped"
  /\ listener' = "dropped" /\ sessionQ' = <<>> /\ staged' = 0
  /\ UNCHANGED <<client, call, asked, ready, stop, cmds, events, routerQ, unsubQ, stream,
                 routerVars, thirdVars, driverVars>>

-----------------------------------------------------------------------------
(* The router *)

\* Mutant: the router queues the unsubscription itself, and awaits it.
AtSelectUnlessIssuing == router = "running" /\ delivering = NoDelivery /\ issuing = NoKey
AtSelect == router = "running" /\ delivering = NoDelivery

\* run, after its loop: every sender the router holds is dropped, and every
\* receiver.
RouterEnds ==
  /\ router' = "done" /\ subs' = {} /\ sessionOut' = FALSE /\ delivering' = NoDelivery
  /\ routerQ' = <<>> /\ events' = <<>>
  /\ ready' = IF ready = "pending" THEN "failed" ELSE ready

\* on_command.  A dropped stream is unsubscribed even if the router no longer
\* has it.
TakesCommand ==
  /\ AtSelect /\ routerQ # <<>>
  /\ routerQ' = Tail(routerQ)
  /\ LET c == Head(routerQ)
     IN /\ subs' = IF c.t = "register" THEN subs \cup {c.key} ELSE subs \ {c.key}
        /\ unsubQ' = IF c.t = "streamDropped" /\ third # "done"
                     THEN Append(unsubQ, c.key) ELSE unsubQ
  /\ UNCHANGED <<callerVars, ready, stop, cmds, events, stream, sessionQ, router,
                 sessionOut, delivering, thirdVars, driverVars>>

\* The select polls its branches in order: commands, the stop lane, events.  The
\* other tasks run meanwhile, so something may arrive on a branch it has passed.
PassesCommands == AtSelect /\ routerQ = <<>>
RouterLooks ==
  /\ PassesCommands /\ ~StopSeen
  /\ router' = "looking"
  /\ UNCHANGED <<callerVars, ready, stop, queueVars, subs, sessionOut, delivering,
                 thirdVars, driverVars>>
AtEvents == router = "looking"
RouterSleeps ==
  /\ AtEvents /\ events = <<>> /\ ~driverDone
  /\ router' = "running"
  /\ UNCHANGED <<callerVars, ready, stop, queueVars, subs, sessionOut, delivering,
                 thirdVars, driverVars>>

\* Mutant: it ends with the driver, whatever is left in the channel.
RouterStopsWithDriver ==
  /\ PassesCommands /\ (StopSeen \/ driverDone)
  /\ RouterEnds
  /\ UNCHANGED <<callerVars, stop, cmds, unsubQ, stream, sessionQ, thirdVars, driverVars>>

RouterStops ==
  /\ \/ PassesCommands /\ StopSeen
     \/ AtEvents /\ events = <<>> /\ driverDone
  /\ RouterEnds
  /\ UNCHANGED <<callerVars, stop, cmds, unsubQ, stream, sessionQ, thirdVars, driverVars>>

\* What route, notify and on_control_response make of an event: the send towards
\* the caller it leads to, if any.
Sends(to, what) == [to |-> to, what |-> what]
Emitted(what) == IF sessionOut THEN Sends(Session, what) ELSE NoDelivery
Delivery(e) ==
  CASE e.ev \in {"bound", "news"} -> Emitted("event")
    [] e.ev = "closed" -> Emitted("last")
    [] e.ev = "quiet" -> NoDelivery
    [] e.ev = "subscription" ->
         IF e.key \notin subs THEN NoDelivery
         ELSE Sends(e.key, IF e.what = "unsubscribed" THEN "last" ELSE "event")
    [] e.ev = "response" /\ e.kind = "unsubscribe" -> Emitted("event")
    [] e.ev = "response" /\ e.kind = "subscribe" /\ e.outcome = "rejected" ->
         IF e.key \in subs THEN Sends(e.key, "last") ELSE Emitted("event")
    [] e.ev = "response" /\ e.kind = "subscribe" /\ e.outcome = "notSent" ->
         IF e.key \in subs THEN Sends(e.key, "event") ELSE NoDelivery

\* A refused add is deregistered before it is told, an ended one after.
DeregisteredBy(e) ==
  IF e.ev = "response" /\ e.kind = "subscribe" /\ e.outcome = "rejected" THEN {e.key} ELSE {}

\* on_session_event, up to its await.
TakesEvent ==
  /\ AtEvents /\ events # <<>>
  /\ LET e == Head(events)
     IN \/ /\ e.ev = "closed" /\ ~sessionOut
           /\ RouterEnds
        \/ /\ e.ev # "closed" \/ sessionOut
           /\ events' = Tail(events)
           /\ delivering' = Delivery(e)
           /\ subs' = subs \ DeregisteredBy(e)
           /\ router' = "running"
           /\ ready' = CASE ready = "pending" /\ e.ev = "bound"  -> "ok"
                         [] ready = "pending" /\ e.ev = "closed" -> "failed"
                         [] OTHER -> ready
           /\ UNCHANGED <<routerQ, sessionOut>>
  /\ UNCHANGED <<callerVars, stop, cmds, unsubQ, stream, sessionQ, thirdVars, driverVars>>

ReceiverHeld(to) ==
  IF to = Session THEN listener # "dropped" ELSE call[to] \notin {"failed", "dropped"}
RoomFor(to) ==
  IF to = Session THEN HasRoom(sessionQ, SessionCap) ELSE HasRoom(stream[to], UpdateCap)

\* deliver: the event arrives, or its receiver is gone, or a stop ends the wait.
\* Room comes first.
Arrives ==
  LET d == delivering
  IN /\ ReceiverHeld(d.to) /\ RoomFor(d.to)
     /\ sessionQ' = IF d.to = Session THEN Append(sessionQ, d.what) ELSE sessionQ
     /\ stream' = [k \in Keys |-> IF k = d.to THEN Append(stream[k], d.what) ELSE stream[k]]
\* Mutant: the wait for room does not race the stop.
DoesNotArriveUnlessGone ==
  /\ ~ReceiverHeld(delivering.to)
  /\ UNCHANGED <<sessionQ, stream>>
DoesNotArrive ==
  /\ \/ ~ReceiverHeld(delivering.to)
     \/ ~RoomFor(delivering.to) /\ StopSeen
  /\ UNCHANGED <<sessionQ, stream>>

\* Mutant: an ended subscription stays registered.
AfterDeliveryKeeping ==
  LET d == delivering
  IN \/ /\ d.to = Session /\ d.what = "last"
        /\ RouterEnds
     \/ /\ d.to # Session \/ d.what # "last"
        /\ delivering' = NoDelivery
        /\ sessionOut' = (sessionOut /\ (d.to = Session => ReceiverHeld(Session)))
        /\ UNCHANGED <<router, ready, subs, events, routerQ>>

\* What follows the await: an ended subscription is deregistered, a session stream
\* nobody holds is given up, and the closing event ends the router.
AfterDelivery ==
  LET d == delivering
  IN \/ /\ d.to = Session /\ d.what = "last"
        /\ RouterEnds
     \/ /\ d.to # Session \/ d.what # "last"
        /\ delivering' = NoDelivery
        /\ subs' = IF d.what = "last" THEN subs \ {d.to} ELSE subs
        /\ sessionOut' = (sessionOut /\ (d.to = Session => ReceiverHeld(Session)))
        /\ UNCHANGED <<router, ready, events, routerQ>>

Delivers ==
  /\ delivering # NoDelivery
  /\ Arrives \/ DoesNotArrive
  /\ AfterDelivery
  /\ UNCHANGED <<callerVars, stop, cmds, unsubQ, thirdVars, driverVars>>

-----------------------------------------------------------------------------
(* The third task: issue_unsubscriptions *)

ClientAlive == client \in {"connecting", "live", "asking"}  \* the alive token

IssuerEnds ==
  /\ third' = "done" /\ issuing' = NoKey /\ unsubQ' = <<>>
  /\ UNCHANGED cmds

\* Its first select has no bias.
IssuerTakes ==
  /\ third = "running" /\ issuing = NoKey
  /\ \/ /\ unsubQ # <<>>
        /\ issuing' = Head(unsubQ) /\ unsubQ' = Tail(unsubQ)
        /\ UNCHANGED <<third, cmds>>
     \/ /\ ~ClientAlive \/ StopSeen \/ (unsubQ = <<>> /\ router = "done")
        /\ IssuerEnds
  /\ UNCHANGED <<callerVars, ready, stop, events, routerQ, stream, sessionQ, routerVars,
                 driverVars>>

IssuerQueues ==
  /\ third = "running" /\ issuing # NoKey
  /\ \/ /\ ~driverDone /\ HasRoom(cmds, CommandCap)
        /\ cmds' = Append(cmds, [t |-> "unsubscribe", key |-> issuing])
        /\ issuing' = NoKey
        /\ UNCHANGED <<third, unsubQ>>
     \/ /\ driverDone \/ (StopSeen /\ ~HasRoom(cmds, CommandCap))
        /\ IssuerEnds
  /\ UNCHANGED <<callerVars, ready, stop, events, routerQ, stream, sessionQ, routerVars,
                 driverVars>>

-----------------------------------------------------------------------------
(* The driver *)

\* It is at one of its selects: what its last step said has been emitted.
DriverReady == ~closed /\ said = {}
SaysOnly == said' \subseteq Says

DriverServes ==
  /\ DriverReady /\ cmds # <<>>
  /\ cmds' = Tail(cmds)
  /\ LET c == Head(cmds)
     IN \/ c.t = "subscribe" /\ Driver!Subscribe(c.key)
        \/ c.t = "unsubscribe" /\ Driver!Unsubscribe(c.key)
        \/ c.t \in {"message", "destroy"} /\ Driver!Speaks
        \/ c.t = "destroy" /\ Driver!Closes
  /\ SaysOnly
  /\ UNCHANGED <<callerVars, ready, stop, events, routerQ, unsubQ, stream, sessionQ,
                 routerVars, thirdVars, driverDone>>

\* Lines, ends of connections, binds, and the end of the session.
DriverHears ==
  /\ DriverReady
  /\ \/ \E k \in Keys : Driver!Delivers(k) \/ Driver!Refuses(k)
     \/ Driver!Binds \/ Driver!Speaks \/ Driver!Closes
  /\ SaysOnly
  /\ UNCHANGED <<callerVars, ready, stop, queueVars, routerVars, thirdVars, driverDone>>

DriverStops ==
  /\ DriverReady
  /\ StopSeen
  /\ Driver!Closes
  /\ UNCHANGED <<callerVars, ready, stop, queueVars, routerVars, thirdVars, driverDone>>

\* emit: waits for room, unless nobody receives or a stop ends the wait.
DriverEmits ==
  /\ \E e \in said :
       /\ e = Driver!Closed => said = {e}
       /\ said' = said \ {e}
       /\ \/ /\ router # "done" /\ HasRoom(events, EventCap)
             /\ events' = Append(events, e)
          \/ /\ router = "done" \/ (StopSeen /\ ~HasRoom(events, EventCap))
             /\ UNCHANGED events
  /\ UNCHANGED <<callerVars, ready, stop, cmds, routerQ, unsubQ, stream, sessionQ,
                 routerVars, thirdVars, life, closed, driverDone>>

DriverReturns ==
  /\ closed /\ said = {} /\ ~driverDone
  /\ driverDone' = TRUE /\ cmds' = <<>>
  /\ UNCHANGED <<callerVars, ready, stop, events, routerQ, unsubQ, stream, sessionQ,
                 routerVars, thirdVars, life, closed, said>>

-----------------------------------------------------------------------------
\* disconnect's last resort: what has not ended within the second budget is
\* aborted where it stands.
Abort ==
  /\ client = "forcing" /\ client' = "gone"
  /\ RouterEnds
  /\ third' = "done" /\ issuing' = NoKey /\ unsubQ' = <<>>
  /\ driverDone' = TRUE /\ cmds' = <<>> /\ closed' = TRUE /\ said' = {}
  /\ UNCHANGED <<call, asked, listener, staged, stop, stream, sessionQ, life>>

CallerNext ==
  \/ ConnectDrains \/ ConnectReturns \/ ConnectCancelled
  \/ CallSend \/ DropClient
  \/ Disconnect \/ DestroyQueued \/ DestroyNotQueued \/ JoinTimesOut
  \/ DisconnectReturns \/ Abort
  \/ ReadSessionEvent \/ StopListening \/ DropSessionEvents
  \/ \E k \in Keys :
       \/ CallSubscribe(k) \/ SubscribeQueued(k) \/ SubscribeFails(k)
       \/ SubscribeCancelled(k) \/ CallUnsubscribe(k)
       \/ ReadUpdate(k) \/ ReadEnd(k) \/ StopReading(k) \/ DropUpdates(k)

RouterNext ==
  TakesCommand \/ RouterLooks \/ RouterSleeps \/ RouterStops \/ TakesEvent \/ Delivers
IssuerNext == IssuerTakes \/ IssuerQueues
DriverNext == DriverServes \/ DriverHears \/ DriverStops \/ DriverEmits \/ DriverReturns

Next == CallerNext \/ RouterNext \/ IssuerNext \/ DriverNext

\* The tasks run whenever they can; the driver serves its commands and its stop
\* lane in turns however many lines come in; connect is polled, and so is a stream
\* its caller has not walked away from; the waits of disconnect time out.
Fairness ==
  /\ WF_vars(RouterNext) /\ WF_vars(IssuerNext) /\ WF_vars(DriverEmits \/ DriverReturns)
  /\ SF_vars(DriverServes) /\ SF_vars(DriverStops)
  /\ WF_vars(ConnectDrains \/ ConnectReturns)
  /\ WF_vars(DestroyNotQueued \/ JoinTimesOut \/ DisconnectReturns)
  /\ WF_vars(ReadSessionEvent)
  /\ \A k \in Keys : /\ WF_vars(ReadUpdate(k) \/ ReadEnd(k))
                      /\ WF_vars(SubscribeQueued(k) \/ SubscribeFails(k))

Spec == Init /\ [][Next]_vars /\ Fairness

-----------------------------------------------------------------------------
(* Properties *)

TypeOK ==
  /\ client \in {"connecting", "live", "asking", "joining", "forcing", "gone"}
  /\ call \in [Keys -> {"none", "queuing", "open", "stalled", "over", "cut", "dropped",
                        "failed"}]
  /\ asked \subseteq Keys /\ subs \subseteq Keys
  /\ listener \in {"reads", "stalled", "over", "dropped"}
  /\ staged \in 0 .. SessionCap /\ ready \in {"pending", "ok", "failed"}
  /\ Len(cmds) <= CommandCap /\ Len(events) <= EventCap
  /\ \A k \in Keys : Len(stream[k]) <= UpdateCap
  /\ Len(sessionQ) <= SessionCap
  /\ router \in {"running", "looking", "done"} /\ third \in {"running", "done"}
  /\ issuing \in Keys \cup {NoKey}

\* Router::run: "A registration must be in place before the first notification for
\* its subscription is routed".  An event is turned away only when its stream has
\* ended or the caller no longer holds it.  The bias of the select does not give
\* this: the registration and the event may both arrive between two of its polls.
Ended(k) == stream[k] # <<>> /\ stream[k][Len(stream[k])] = "last"
OfSubscription(e) == e.ev = "subscription" \/ (e.ev = "response" /\ e.kind = "subscribe")
RegistrationComesFirst ==
  [][events # <<>> /\ events' = Tail(events) /\ router' # "done" =>
       LET e == Head(events)
       IN OfSubscription(e) /\ e.key \notin subs =>
            Ended(e.key) \/ ~Streaming(e.key)]_vars

\* Each stream of updates keeps the promise of SubscriptionStream.
Sink(k) ==
  CASE call[k] = "none" -> "none"
    [] call[k] \in {"failed", "dropped"} -> "gone"
    [] call[k] = "over" \/ Ended(k) -> "ended"
    [] call[k] \in {"queuing", "open", "stalled", "cut"} /\ ~Ended(k) ->
         IF SenderAlive(k) THEN "open" ELSE "cut"
Stream == INSTANCE SubscriptionStream WITH
  running <- (router # "done" /\ ~StopSeen), sink <- [k \in Keys |-> Sink(k)], queue <- stream
KeepsStreams == Stream!Spec

\* Once disconnect is called, a stop ordered or the client lost in whatever way,
\* every task ends and disconnect returns: none is held up by a stream nobody reads
\* or by another task, and nothing has to be aborted for it.
ShutdownFinishes ==
  stop \/ client \in {"asking", "gone"} ~> AllDone /\ client = "gone"

\* What the session does first reaches connect, however little room there is and
\* however much it reported before.
ConnectIsTold ==
  (\E e \in said : e.ev \in {"bound", "closed"}) ~> client # "connecting"

\* A stream that is dropped is unsubscribed, unless the client ends or the caller
\* no longer reads another.
SomeoneStalls == listener = "stalled" \/ \E k \in Keys : call[k] = "stalled"
DroppedIsUnsubscribed ==
  \A k \in Keys : InQueue(ForRouter("streamDropped", k), routerQ) ~>
    life[k] \in {"removing", "gone"} \/ closed \/ StopSeen \/ SomeoneStalls

\* A session that ends by itself, or by a destroy, says so on its own stream
\* before that stream ends.
ClosedIsReported ==
  router = "done" /\ ~StopSeen /\ listener \in {"reads", "stalled"} =>
    sessionQ # <<>> /\ sessionQ[Len(sessionQ)] = "last"

\* "keep reading the stream until Unsubscribed arrives": the stream of a
\* subscription the caller gave up, and the session no longer has, ends.
UnsubscribeIsAnswered ==
  \A k \in Keys : k \in asked /\ life[k] = "gone" ~> ~(call[k] = "open")
=============================================================================

------------------------------ MODULE ClientProofs ------------------------------
(***************************************************************************)
(* The client facade, for every set of subscriptions, every capacity of    *)
(* its channels and every set of events the driver may produce: its state  *)
(* is well typed, a session that ends says so, and the streams of updates  *)
(* keep the promise of SubscriptionStream.                                 *)
(***************************************************************************)
EXTENDS ClientSystem, TLAPS, SequenceTheorems

-----------------------------------------------------------------------------
(* What the channels carry *)

Commands ==
  [t : {"subscribe", "unsubscribe"}, key : Keys] \cup [t : {"message", "destroy"}, key : {NoKey}]
RouterCommands == [t : {"register", "unregister", "streamDropped"}, key : Keys]
Notes == {"event", "last"}
PortEvents ==
       [ev : {"bound", "closed", "news", "quiet"}]
  \cup [ev : {"subscription"}, key : Keys, what : {"data", "activated", "unsubscribed"}]
  \cup [ev : {"response"}, kind : {"subscribe", "unsubscribe"}, key : Keys,
        outcome : {"rejected", "notSent"}]

TypeInv ==
  /\ TypeOK
  /\ cmds \in Seq(Commands) /\ routerQ \in Seq(RouterCommands) /\ unsubQ \in Seq(Keys)
  /\ events \in Seq(PortEvents)
  /\ stream \in [Keys -> Seq(Notes)] /\ sessionQ \in Seq(Notes)
  /\ delivering \in {NoDelivery} \cup [to : Keys \cup {Session}, what : Notes]
  /\ life \in [Keys -> {"unused", "wanted", "removing", "gone"}]
  /\ said \in SUBSET PortEvents
  /\ closed \in BOOLEAN /\ driverDone \in BOOLEAN
  /\ stop \in BOOLEAN /\ sessionOut \in BOOLEAN

-----------------------------------------------------------------------------
(* The way of the closing event: said, queued, being delivered, the last on the stream. *)

ClosingOnItsWay ==
  \/ Driver!Closed \in said
  \/ InQueue(Driver!Closed, events)
  \/ delivering = Sends(Session, "last")

ClosingInv ==
  /\ stop => client \in {"forcing", "gone"}
  /\ client = "forcing" => stop
  /\ router # "running" => delivering = NoDelivery
  /\ router = "done" => ready # "pending" /\ routerQ = <<>> /\ subs = {}
  /\ sessionOut \/ router = "done" \/ listener = "dropped"
  /\ driverDone => closed /\ said = {}
  /\ closed => ClosingOnItsWay \/ router = "done" \/ StopSeen
  /\ ClosedIsReported

-----------------------------------------------------------------------------
(* The way of a registration *)

Registration(k) == ForRouter("register", k)
AboutKey(e, k) == e.ev \in {"subscription", "response"} /\ e.key = k

\* Nothing of a subscription exists before the call that makes it has queued it.
Untold(k) ==
  /\ life[k] = "unused" /\ delivering.to # k /\ stream[k] = <<>>
  /\ \A i \in 1 .. Len(cmds) : ~(cmds[i].t = "subscribe" /\ cmds[i].key = k)
  /\ \A e \in said : ~AboutKey(e, k)
  /\ \A i \in 1 .. Len(events) : ~AboutKey(events[i], k)

\* A stream has a sender until it has ended, is registered once, and says "last" last.
Registered(k) ==
  /\ call[k] = "none" => ~SenderAlive(k)
  /\ \A i \in 1 .. Len(routerQ) : routerQ[i] = Registration(k) =>
       /\ k \notin subs /\ delivering.to # k
       /\ \A j \in 1 .. Len(routerQ) : routerQ[j] = Registration(k) => j = i
  /\ \A i \in 1 .. Len(routerQ) : routerQ[i].key = k =>
       /\ routerQ[i].t = "unregister" => call[k] = "failed"
       /\ routerQ[i].t = "streamDropped" => call[k] = "dropped"
  /\ delivering = Sends(k, "event") => k \in subs
  /\ \A i \in 1 .. Len(stream[k]) : stream[k][i] = "last" => i = Len(stream[k])
  /\ Ended(k) \/ call[k] \in {"over", "cut"} => ~SenderAlive(k)
  /\ call[k] \in {"over", "cut", "failed", "dropped"} => stream[k] = <<>>
  /\ call[k] \in {"queuing", "open", "stalled"} /\ router # "done" /\ ~StopSeen =>
       SenderAlive(k) \/ Ended(k)

StreamsInv ==
  \A k \in Keys : /\ call[k] \in {"none", "queuing"} => Untold(k)
                 /\ Registered(k)

ClientInv == TypeInv /\ ClosingInv /\ StreamsInv

-----------------------------------------------------------------------------
(* Queues *)

\* What is left of a queue when its head is taken.
LEMMA HeadTaken ==
  ASSUME NEW S, NEW q \in Seq(S), q # <<>>
  PROVE  /\ Len(q) \in Nat /\ Len(q) >= 1
         /\ Head(q) = q[1] /\ Head(q) \in S
         /\ Tail(q) \in Seq(S) /\ Len(Tail(q)) = Len(q) - 1
         /\ \A i \in 1 .. Len(q) - 1 : Tail(q)[i] = q[i + 1]
         /\ \A i \in 1 .. Len(q) : q[i] \in S
  BY HeadTailProperties, ElementOfSeq

\* A queue and what is added to it.
LEMMA Added ==
  ASSUME NEW S, NEW q \in Seq(S), NEW x \in S
  PROVE  /\ Append(q, x) \in Seq(S) /\ Len(q) \in Nat
         /\ Append(q, x) # <<>> /\ Len(Append(q, x)) = Len(q) + 1
         /\ \A i \in 1 .. Len(q) : Append(q, x)[i] = q[i] /\ q[i] \in S
         /\ Append(q, x)[Len(q) + 1] = x
  BY AppendProperties, ElementOfSeq

LEMMA Queue ==
  ASSUME NEW S, NEW q \in Seq(S)
  PROVE  /\ Len(q) \in Nat /\ DOMAIN q = 1 .. Len(q)
         /\ \A i \in 1 .. Len(q) : q[i] \in S
         /\ q = <<>> <=> Len(q) = 0
         /\ \A x : InQueue(x, q) <=> \E i \in 1 .. Len(q) : q[i] = x
<1>1. Len(q) \in Nat /\ DOMAIN q = 1 .. Len(q) /\ \A i \in 1 .. Len(q) : q[i] \in S
  BY ElementOfSeq, LenProperties
<1>2. q = <<>> <=> Len(q) = 0
  BY EmptySeq
<1>. QED BY <1>1, <1>2 DEF InQueue

LEMMA NoQueue ==
  ASSUME NEW S
  PROVE  <<>> \in Seq(S) /\ Len(<<>>) = 0 /\ \A x : ~InQueue(x, <<>>)
  BY EmptySeq DEF InQueue

-----------------------------------------------------------------------------
(* The driver's port *)

PortOthers ==
  \/ \E k \in Keys : Driver!Unsubscribe(k) \/ Driver!Delivers(k) \/ Driver!Refuses(k)
  \/ Driver!Binds \/ Driver!Speaks \/ Driver!Closes
PortMoves == PortOthers \/ \E k \in Keys : Driver!Subscribe(k)

\* Its steps are well typed, tell of a subscription only what it was told of, and close
\* the session by saying so.
LEMMA PortStep ==
  ASSUME TypeInv, PortMoves
  PROVE  /\ life' \in [Keys -> {"unused", "wanted", "removing", "gone"}]
         /\ said' \in SUBSET PortEvents
         /\ closed' \in BOOLEAN
         /\ closed' => Driver!Closed \in said'
         /\ \A k \in Keys :
              life[k] = "unused" /\ (PortOthers \/ \E j \in Keys \ {k} : Driver!Subscribe(j)) =>
                life'[k] = "unused" /\ \A e \in said' : ~AboutKey(e, k)
<1>. life \in [Keys -> {"unused", "wanted", "removing", "gone"}] /\ closed \in BOOLEAN
  BY DEF TypeInv
<1>1. ASSUME NEW j \in Keys, Driver!Subscribe(j)
      PROVE  /\ life' = [life EXCEPT ![j] = "wanted"] /\ closed' = closed /\ ~closed
             /\ \A e \in said' : e = Driver!Unsent("subscribe", j)
  BY <1>1 DEF Driver!Subscribe
<1>2. ASSUME NEW j \in Keys, Driver!Unsubscribe(j)
      PROVE  /\ \E l \in {"unused", "wanted", "removing", "gone"} :
                  life' = [life EXCEPT ![j] = l] /\ (life[j] = "unused" => l = "unused")
             /\ closed' = closed /\ ~closed
             /\ \A e \in said' : e = Driver!Unsent("unsubscribe", j) /\ life[j] # "unused"
  BY <1>2 DEF Driver!Unsubscribe, Driver!Holds
<1>3. ASSUME NEW j \in Keys, Driver!Delivers(j)
      PROVE  /\ \E l \in {"unused", "wanted", "removing", "gone"} :
                  life' = [life EXCEPT ![j] = l] /\ (life[j] = "unused" => l = "unused")
             /\ closed' = closed /\ ~closed
             /\ \A e \in said' : /\ \E what \in {"data", "activated", "unsubscribed"} :
                                      e = Driver!Subscription(j, what)
                                 /\ life[j] # "unused"
  BY <1>3 DEF Driver!Delivers, Driver!Holds
<1>4. ASSUME NEW j \in Keys, Driver!Refuses(j)
      PROVE  /\ \E l \in {"unused", "wanted", "removing", "gone"} :
                  life' = [life EXCEPT ![j] = l] /\ (life[j] = "unused" => l = "unused")
             /\ closed' = closed /\ ~closed
             /\ \A e \in said' : /\ \E kind \in {"subscribe", "unsubscribe"} :
                                      e = Driver!Answer(kind, j, "rejected")
                                 /\ life[j] # "unused"
  BY <1>4 DEF Driver!Refuses, Driver!Holds, Driver!Known
<1>5. ASSUME Driver!Binds
      PROVE  /\ life' \in [Keys -> {"unused", "wanted", "removing", "gone"}]
             /\ \A k \in Keys : life[k] = "unused" => life'[k] = "unused"
             /\ closed' = closed /\ ~closed
             /\ \A e \in said' : \/ e \in {Driver!Bound, Driver!News}
                                 \/ \E kind \in {"subscribe", "unsubscribe"}, k \in Keys :
                                      e = Driver!Unsent(kind, k) /\ life[k] # "unused"
  <2>1. life' \in [Keys -> {"unused", "wanted", "removing", "gone"}]
        /\ \A k \in Keys : life[k] = "unused" => life'[k] = "unused"
    BY <1>5 DEF Driver!Binds
  <2>2. PICK unsent \in SUBSET Driver!UnsentAnswers, news \in SUBSET {Driver!News} :
               said' = {Driver!Bound} \cup news \cup unsent
    BY <1>5 DEF Driver!Binds
  <2>3. ASSUME NEW e \in unsent
        PROVE  \E kind \in {"subscribe", "unsubscribe"}, k \in Keys :
                 e = Driver!Unsent(kind, k) /\ life[k] # "unused"
    BY <2>2, <2>3 DEF Driver!UnsentAnswers, Driver!Known
  <2>. QED BY <1>5, <2>1, <2>2, <2>3 DEF Driver!Binds
<1>6. ASSUME Driver!Speaks \/ Driver!Closes
      PROVE  /\ life' = life /\ closed' \in BOOLEAN
             /\ \A e \in said' : e \in {Driver!News, Driver!Quiet, Driver!Closed}
             /\ closed' => Driver!Closed \in said'
  <2>1. CASE Driver!Speaks
    <3>1. ~closed /\ closed' = closed /\ life' = life
      BY <2>1 DEF Driver!Speaks
    <3>2. said' \in SUBSET {Driver!News, Driver!Quiet}
      BY <2>1 DEF Driver!Speaks
    <3>. QED BY <3>1, <3>2
  <2>2. CASE Driver!Closes
    <3>1. closed' = TRUE /\ life' = life
      BY <2>2 DEF Driver!Closes
    <3>2. said' = {Driver!Closed} \/ said' = {Driver!News, Driver!Closed}
      BY <2>2 DEF Driver!Closes
    <3>. QED BY <3>1, <3>2
  <2>. QED BY <1>6, <2>1, <2>2
<1>7. /\ \A j \in Keys, kind \in {"subscribe", "unsubscribe"}, o \in {"rejected", "notSent"} :
           /\ Driver!Answer(kind, j, o) \in PortEvents
           /\ \A k \in Keys : AboutKey(Driver!Answer(kind, j, o), k) => k = j
      /\ \A j \in Keys, what \in {"data", "activated", "unsubscribed"} :
           /\ Driver!Subscription(j, what) \in PortEvents
           /\ \A k \in Keys : AboutKey(Driver!Subscription(j, what), k) => k = j
      /\ \A e \in {Driver!Bound, Driver!News, Driver!Quiet, Driver!Closed} :
           e \in PortEvents /\ \A k \in Keys : ~AboutKey(e, k)
  BY DEF Driver!Answer, Driver!Subscription, Driver!Bound, Driver!News, Driver!Quiet,
         Driver!Closed, PortEvents, AboutKey
<1>8. ASSUME NEW j \in Keys, Driver!Subscribe(j)
      PROVE  /\ life' \in [Keys -> {"unused", "wanted", "removing", "gone"}]
             /\ \A e \in said' : e \in PortEvents /\ \A k \in Keys : AboutKey(e, k) => k = j
             /\ \A k \in Keys : k # j => life'[k] = life[k]
  BY <1>1, <1>7, <1>8 DEF Driver!Unsent
<1>9. ASSUME NEW j \in Keys, Driver!Unsubscribe(j) \/ Driver!Delivers(j) \/ Driver!Refuses(j)
      PROVE  /\ life' \in [Keys -> {"unused", "wanted", "removing", "gone"}]
             /\ closed' = closed /\ ~closed
             /\ \A e \in said' : /\ e \in PortEvents
                                 /\ \A k \in Keys : AboutKey(e, k) => life[k] # "unused"
             /\ \A k \in Keys : life[k] = "unused" => life'[k] = "unused"
  <2>1. PICK l \in {"unused", "wanted", "removing", "gone"} :
          life' = [life EXCEPT ![j] = l] /\ (life[j] = "unused" => l = "unused")
    BY <1>2, <1>3, <1>4, <1>9
  <2>2. \A e \in said' : /\ e \in PortEvents
                         /\ \A k \in Keys : AboutKey(e, k) => life[k] # "unused"
    BY <1>2, <1>3, <1>4, <1>7, <1>9 DEF Driver!Unsent
  <2>. QED BY <1>2, <1>3, <1>4, <1>9, <2>1, <2>2
<1>10. ASSUME Driver!Binds
       PROVE  \A e \in said' : /\ e \in PortEvents
                               /\ \A k \in Keys : AboutKey(e, k) => life[k] # "unused"
  BY <1>5, <1>7, <1>10 DEF Driver!Unsent
<1>11. ASSUME PortOthers
       PROVE  /\ life' \in [Keys -> {"unused", "wanted", "removing", "gone"}]
              /\ said' \in SUBSET PortEvents
              /\ closed' \in BOOLEAN
              /\ closed' => Driver!Closed \in said'
              /\ \A k \in Keys : life[k] = "unused" =>
                   life'[k] = "unused" /\ \A e \in said' : ~AboutKey(e, k)
  <2>1. CASE \E j \in Keys : Driver!Unsubscribe(j) \/ Driver!Delivers(j) \/ Driver!Refuses(j)
    BY <1>9, <2>1
  <2>2. CASE Driver!Binds
    BY <1>5, <1>10, <2>2
  <2>3. CASE Driver!Speaks \/ Driver!Closes
    BY <1>6, <1>7, <2>3
  <2>. QED BY <1>11, <2>1, <2>2, <2>3 DEF PortOthers
<1>12. ASSUME NEW j \in Keys, Driver!Subscribe(j)
       PROVE  /\ life' \in [Keys -> {"unused", "wanted", "removing", "gone"}]
              /\ said' \in SUBSET PortEvents
              /\ closed' \in BOOLEAN
              /\ closed' => Driver!Closed \in said'
              /\ \A k \in Keys \ {j} : life[k] = "unused" =>
                   life'[k] = "unused" /\ \A e \in said' : ~AboutKey(e, k)
  BY <1>1, <1>8, <1>12
<1>13. ASSUME NEW k \in Keys, life[k] = "unused",
              PortOthers \/ \E j \in Keys \ {k} : Driver!Subscribe(j)
       PROVE  life'[k] = "unused" /\ \A e \in said' : ~AboutKey(e, k)
  BY <1>11, <1>12, <1>13
<1>14. /\ life' \in [Keys -> {"unused", "wanted", "removing", "gone"}]
       /\ said' \in SUBSET PortEvents
       /\ closed' \in BOOLEAN
       /\ closed' => Driver!Closed \in said'
  BY <1>11, <1>12 DEF PortMoves
<1>. QED BY <1>13, <1>14

-----------------------------------------------------------------------------
(* What the router makes of an event *)

LEMMA DeliveryOf ==
  ASSUME TypeInv, NEW e \in PortEvents
  PROVE  /\ Delivery(e) \in {NoDelivery} \cup [to : Keys \cup {Session}, what : Notes]
         /\ e.ev = "closed" => e = Driver!Closed /\ Delivery(e) = Emitted("last")
         /\ \A k \in Keys : Delivery(e).to = k => AboutKey(e, k) /\ k \in subs
         /\ \A k \in Keys : k \in DeregisteredBy(e) /\ k \in subs => Delivery(e) = Sends(k, "last")
         /\ DeregisteredBy(e) \subseteq Keys
<1>. \A k \in Keys : k # NoKey
  BY KeysAssumption
<1>1. Emitted("event") \in {NoDelivery, Sends(Session, "event")}
      /\ Emitted("last") \in {NoDelivery, Sends(Session, "last")}
  BY DEF Emitted
<1>2. /\ \A k \in Keys : \A what : Sends(k, what).to = k /\ Sends(k, what).what = what
      /\ \A what : Sends(Session, what).to \notin Keys
      /\ NoDelivery.to \notin Keys
  BY DEF Sends, NoDelivery, Session
<1>3. \A k \in Keys \cup {Session}, what \in Notes :
        Sends(k, what) \in [to : Keys \cup {Session}, what : Notes]
  BY DEF Sends
<1>4. CASE e.ev \in {"bound", "closed", "news", "quiet"}
  <2>1. DeregisteredBy(e) = {}
    BY <1>4 DEF DeregisteredBy
  <2>2. Delivery(e) = CASE e.ev \in {"bound", "news"} -> Emitted("event")
                        [] e.ev = "closed" -> Emitted("last")
                        [] e.ev = "quiet" -> NoDelivery
    BY <1>4 DEF Delivery
  <2>3. Delivery(e) \in {NoDelivery, Sends(Session, "event"), Sends(Session, "last")}
        /\ (e.ev = "closed" => Delivery(e) = Emitted("last"))
    BY <1>1, <1>4, <2>2
  <2>4. e.ev = "closed" => e = Driver!Closed
    BY DEF PortEvents, Driver!Closed
  <2>. QED BY <1>2, <1>3, <2>1, <2>3, <2>4 DEF Notes
<1>5. CASE e.ev = "subscription"
  <2>1. e.key \in Keys /\ DeregisteredBy(e) = {}
    BY <1>5 DEF PortEvents, DeregisteredBy
  <2>2. Delivery(e) = IF e.key \notin subs THEN NoDelivery
                      ELSE Sends(e.key, IF e.what = "unsubscribed" THEN "last" ELSE "event")
    BY <1>5 DEF Delivery
  <2>. QED BY <1>2, <1>3, <1>5, <2>1, <2>2 DEF Notes, AboutKey
<1>6. CASE e.ev = "response" /\ e.kind = "unsubscribe"
  <2>1. DeregisteredBy(e) = {} /\ Delivery(e) = Emitted("event")
    BY <1>6 DEF DeregisteredBy, Delivery
  <2>. QED BY <1>1, <1>2, <1>3, <1>6, <2>1 DEF Notes
<1>7. CASE e.ev = "response" /\ e.kind = "subscribe" /\ e.outcome = "rejected"
  <2>1. e.key \in Keys /\ DeregisteredBy(e) = {e.key}
    BY <1>7 DEF PortEvents, DeregisteredBy
  <2>2. Delivery(e) = IF e.key \in subs THEN Sends(e.key, "last") ELSE Emitted("event")
    BY <1>7 DEF Delivery
  <2>. QED BY <1>1, <1>2, <1>3, <1>7, <2>1, <2>2 DEF Notes, AboutKey
<1>8. CASE e.ev = "response" /\ e.kind = "subscribe" /\ e.outcome = "notSent"
  <2>1. e.key \in Keys /\ DeregisteredBy(e) = {}
    BY <1>8 DEF PortEvents, DeregisteredBy
  <2>2. Delivery(e) = IF e.key \in subs THEN Sends(e.key, "event") ELSE NoDelivery
    BY <1>8 DEF Delivery
  <2>. QED BY <1>2, <1>3, <1>8, <2>1, <2>2 DEF Notes, AboutKey
<1>9. \/ e.ev \in {"bound", "closed", "news", "quiet", "subscription"}
      \/ e.ev = "response" /\ e.kind \in {"subscribe", "unsubscribe"}
         /\ e.outcome \in {"rejected", "notSent"}
  BY DEF PortEvents
<1>. QED BY <1>4, <1>5, <1>6, <1>7, <1>8, <1>9

-----------------------------------------------------------------------------
(* Types *)

\* A queue with room takes one more.
LEMMA RoomForOne ==
  ASSUME NEW S, NEW q \in Seq(S), NEW x \in S, NEW cap \in Nat, HasRoom(q, cap)
  PROVE  Append(q, x) \in Seq(S) /\ Len(Append(q, x)) <= cap
  BY Added DEF HasRoom

LEMMA TellingTyped ==
  ASSUME TypeInv, NEW c \in RouterCommands, TellsRouter(c)
  PROVE  routerQ' \in Seq(RouterCommands)
  BY Added DEF TypeInv, TellsRouter

LEMMA EndsTyped ==
  ASSUME TypeInv, RouterEnds
  PROVE  /\ router' \in {"running", "looking", "done"} /\ subs' \subseteq Keys
         /\ sessionOut' \in BOOLEAN /\ delivering' = NoDelivery
         /\ routerQ' \in Seq(RouterCommands) /\ events' \in Seq(PortEvents)
         /\ Len(events') <= EventCap /\ ready' \in {"pending", "ok", "failed"}
<1>1. events' = <<>> /\ routerQ' = <<>> /\ EventCap \in Nat
  BY CapacityAssumption DEF RouterEnds
<1>2. /\ routerQ' \in Seq(RouterCommands) /\ events' \in Seq(PortEvents)
      /\ Len(events') <= EventCap
  BY <1>1, NoQueue
<1>3. ready' \in {"pending", "ok", "failed"}
  BY DEF RouterEnds, TypeInv, TypeOK
<1>. QED BY <1>2, <1>3 DEF RouterEnds

LEMMA CallerTypes ==
  ASSUME TypeInv, CallerNext
  PROVE  TypeInv'
<1>. USE DEF TypeInv
<1>0. CommandCap \in Nat /\ EventCap \in Nat /\ UpdateCap \in Nat /\ SessionCap \in Nat
  BY CapacityAssumption
<1>00. /\ \A k \in Keys, t \in {"subscribe", "unsubscribe"} : [t |-> t, key |-> k] \in Commands
       /\ \A t \in {"message", "destroy"} : [t |-> t, key |-> NoKey] \in Commands
       /\ \A k \in Keys, t \in {"register", "unregister", "streamDropped"} :
            ForRouter(t, k) \in RouterCommands
  BY DEF Commands, RouterCommands, ForRouter
<1>1. CASE ConnectDrains
  <2>1. sessionQ' \in Seq(Notes) /\ Len(sessionQ') <= SessionCap
    BY <1>0, <1>1, HeadTaken DEF ConnectDrains, TypeOK
  <2>2. staged' \in 0 .. SessionCap
    BY <1>0, <1>1 DEF ConnectDrains, TypeOK
  <2>. QED BY <1>1, <2>1, <2>2 DEF ConnectDrains, TypeOK, routerVars, thirdVars, driverVars
<1>2. CASE GivesUpClient
  <2>1. sessionQ' \in Seq(Notes) /\ Len(sessionQ') <= SessionCap
    BY <1>0, <1>2, NoQueue DEF GivesUpClient
  <2>. QED BY <1>0, <1>2, <2>1 DEF GivesUpClient, TypeOK, routerVars, thirdVars, driverVars
<1>3. CASE ConnectReturns \/ ConnectCancelled
  BY <1>2, <1>3
  DEF ConnectReturns, ConnectCancelled, TypeOK, queueVars, routerVars, thirdVars, driverVars
<1>4. CASE CallSend
  <2>1. cmds' \in Seq(Commands) /\ Len(cmds') <= CommandCap
    BY <1>0, <1>00, <1>4, RoomForOne DEF CallSend
  <2>. QED BY <1>4, <2>1 DEF CallSend, TypeOK, callerVars, routerVars, thirdVars, driverVars
<1>5. CASE DropClient
  BY <1>5 DEF DropClient, TypeOK, queueVars, routerVars, thirdVars, driverVars
<1>6. ASSUME NEW from, NEW to \in {"asking", "joining", "forcing", "gone"}, Moves(from, to),
             cmds' \in Seq(Commands), Len(cmds') <= CommandCap, stop' \in BOOLEAN
      PROVE  TypeInv'
  BY <1>6 DEF Moves, TypeOK, routerVars, thirdVars, driverVars
<1>7. CASE Disconnect \/ DestroyNotQueued \/ JoinTimesOut \/ DisconnectReturns
  BY <1>6, <1>7 DEF Disconnect, DestroyNotQueued, JoinTimesOut, DisconnectReturns, TypeOK
<1>8. CASE DestroyQueued
  <2>1. cmds' \in Seq(Commands) /\ Len(cmds') <= CommandCap
    BY <1>0, <1>00, <1>8, RoomForOne DEF DestroyQueued
  <2>. QED BY <1>6, <1>8, <2>1 DEF DestroyQueued
<1>9. CASE Abort
  <2>1. /\ cmds' \in Seq(Commands) /\ Len(cmds') <= CommandCap
        /\ unsubQ' \in Seq(Keys)
    BY <1>0, <1>9, NoQueue DEF Abort
  <2>2. RouterEnds
    BY <1>9 DEF Abort
  <2>. QED BY <1>9, <2>1, <2>2, EndsTyped DEF Abort, TypeOK
<1>10. CASE ReadSessionEvent
  <2>1. CASE staged > 0 /\ staged' = staged - 1 /\ UNCHANGED <<sessionQ, listener>>
    <3>1. staged' \in 0 .. SessionCap
      BY <1>0, <2>1 DEF TypeOK
    <3>. QED BY <1>10, <2>1, <3>1 DEF ReadSessionEvent, TypeOK, routerVars, thirdVars, driverVars
  <2>2. CASE /\ staged = 0 /\ sessionQ # <<>>
             /\ sessionQ' = Tail(sessionQ)
             /\ listener' = IF Head(sessionQ) = "last" THEN "over" ELSE listener
             /\ UNCHANGED staged
    <3>1. sessionQ' \in Seq(Notes) /\ Len(sessionQ') <= SessionCap
      BY <1>0, <2>2, HeadTaken DEF TypeOK
    <3>. QED BY <1>10, <2>2, <3>1 DEF ReadSessionEvent, TypeOK, routerVars, thirdVars, driverVars
  <2>. QED BY <1>10, <2>1, <2>2 DEF ReadSessionEvent
<1>11. CASE StopListening
  BY <1>11 DEF StopListening, TypeOK, queueVars, routerVars, thirdVars, driverVars
<1>12. CASE DropSessionEvents
  <2>1. sessionQ' \in Seq(Notes) /\ Len(sessionQ') <= SessionCap
    BY <1>0, <1>12, NoQueue DEF DropSessionEvents
  <2>. QED BY <1>0, <1>12, <2>1 DEF DropSessionEvents, TypeOK, routerVars, thirdVars, driverVars
<1>13. ASSUME NEW k \in Keys, CallSubscribe(k) PROVE TypeInv'
  <2>1. routerQ' \in Seq(RouterCommands)
    BY <1>00, <1>13, TellingTyped DEF CallSubscribe
  <2>. QED BY <1>13, <2>1 DEF CallSubscribe, TypeOK, routerVars, thirdVars, driverVars
<1>14. ASSUME NEW k \in Keys, SubscribeQueued(k) PROVE TypeInv'
  <2>1. cmds' \in Seq(Commands) /\ Len(cmds') <= CommandCap
    BY <1>0, <1>00, <1>14, RoomForOne DEF SubscribeQueued
  <2>. QED BY <1>14, <2>1 DEF SubscribeQueued, TypeOK, routerVars, thirdVars, driverVars
<1>15. ASSUME NEW k \in Keys, SubscribeFails(k) PROVE TypeInv'
  <2>1. routerQ' \in Seq(RouterCommands)
    BY <1>00, <1>15, TellingTyped DEF SubscribeFails
  <2>. QED BY <1>15, <2>1 DEF SubscribeFails, TypeOK, routerVars, thirdVars, driverVars
<1>16. ASSUME NEW k \in Keys, SubscribeCancelled(k) \/ ReadEnd(k) \/ StopReading(k) PROVE TypeInv'
  <2>1. PICK c \in {"failed", "cut", "stalled"} : call' = [call EXCEPT ![k] = c]
    BY <1>16 DEF SubscribeCancelled, ReadEnd, StopReading
  <2>2. UNCHANGED <<client, asked, listener, staged, ready, stop, queueVars, routerVars,
                    thirdVars, driverVars>>
    BY <1>16 DEF SubscribeCancelled, ReadEnd, StopReading
  <2>. QED BY <2>1, <2>2 DEF TypeOK, queueVars, routerVars, thirdVars, driverVars
<1>17. ASSUME NEW k \in Keys, CallUnsubscribe(k) PROVE TypeInv'
  <2>1. cmds' \in Seq(Commands) /\ Len(cmds') <= CommandCap
    BY <1>0, <1>00, <1>17, RoomForOne DEF CallUnsubscribe
  <2>. QED BY <1>17, <2>1 DEF CallUnsubscribe, TypeOK, routerVars, thirdVars, driverVars
<1>18. ASSUME NEW k \in Keys, ReadUpdate(k) PROVE TypeInv'
  <2>1. /\ stream' \in [Keys -> Seq(Notes)]
        /\ \A j \in Keys : Len(stream'[j]) <= UpdateCap
    BY <1>0, <1>18, HeadTaken DEF ReadUpdate, TypeOK
  <2>. QED BY <1>18, <2>1 DEF ReadUpdate, TypeOK, routerVars, thirdVars, driverVars
<1>19. ASSUME NEW k \in Keys, DropUpdates(k) PROVE TypeInv'
  <2>1. routerQ' \in Seq(RouterCommands)
    BY <1>00, <1>19, TellingTyped DEF DropUpdates
  <2>2. /\ stream' \in [Keys -> Seq(Notes)]
        /\ \A j \in Keys : Len(stream'[j]) <= UpdateCap
    BY <1>0, <1>19, NoQueue DEF DropUpdates, TypeOK
  <2>. QED BY <1>19, <2>1, <2>2 DEF DropUpdates, TypeOK, routerVars, thirdVars, driverVars
<1>. QED
  BY <1>1, <1>3, <1>4, <1>5, <1>7, <1>8, <1>9, <1>10, <1>11, <1>12, <1>13, <1>14, <1>15, <1>16,
     <1>17, <1>18, <1>19 DEF CallerNext

\* A delivery is to the session's stream or to a subscription's, and says what it says.
LEMMA DeliveryTyped ==
  ASSUME TypeInv, delivering # NoDelivery
  PROVE  /\ delivering.to \in Keys \cup {Session} /\ delivering.what \in Notes
         /\ delivering = Sends(delivering.to, delivering.what)
  BY DEF TypeInv, Sends

LEMMA DeliversTypes ==
  ASSUME TypeInv, Delivers
  PROVE  TypeInv'
<1>. USE DEF TypeInv
<1>. DEFINE d == delivering
<1>1. d.to \in Keys \cup {Session} /\ d.what \in Notes
  BY DeliveryTyped DEF Delivers
<1>2. UpdateCap \in Nat /\ SessionCap \in Nat
  BY CapacityAssumption
<1>3. /\ sessionQ' \in Seq(Notes) /\ Len(sessionQ') <= SessionCap
      /\ stream' \in [Keys -> Seq(Notes)]
      /\ \A k \in Keys : Len(stream'[k]) <= UpdateCap
  <2>1. CASE Arrives
    <3>1. sessionQ' \in Seq(Notes) /\ Len(sessionQ') <= SessionCap
      <4>1. CASE d.to = Session
        BY <1>1, <1>2, <2>1, <4>1, RoomForOne DEF Arrives, RoomFor
      <4>2. CASE d.to # Session
        BY <2>1, <4>2 DEF Arrives, TypeOK
      <4>. QED BY <4>1, <4>2
    <3>2. ASSUME NEW k \in Keys PROVE stream'[k] \in Seq(Notes) /\ Len(stream'[k]) <= UpdateCap
      <4>1. stream[k] \in Seq(Notes) /\ k # Session
        BY KeysAssumption DEF Session
      <4>2. CASE d.to = k
        <5>1. HasRoom(stream[k], UpdateCap) /\ stream'[k] = Append(stream[k], d.what)
          BY <2>1, <4>1, <4>2 DEF Arrives, RoomFor
        <5>. QED BY <1>1, <1>2, <4>1, <5>1, RoomForOne
      <4>3. CASE d.to # k
        BY <2>1, <4>1, <4>3 DEF Arrives, TypeOK
      <4>. QED BY <4>2, <4>3
    <3>3. stream' = [k \in Keys |-> stream'[k]]
      BY <2>1 DEF Arrives
    <3>. QED BY <3>1, <3>2, <3>3
  <2>2. CASE DoesNotArrive
    BY <2>2 DEF DoesNotArrive, TypeOK
  <2>. QED BY <2>1, <2>2 DEF Delivers
<1>4. CASE RouterEnds
  BY <1>3, <1>4, EndsTyped DEF Delivers, TypeOK, callerVars, thirdVars, driverVars
<1>5. CASE /\ d.to # Session \/ d.what # "last"
           /\ delivering' = NoDelivery
           /\ subs' = IF d.what = "last" THEN subs \ {d.to} ELSE subs
           /\ sessionOut' = (sessionOut /\ (d.to = Session => ReceiverHeld(Session)))
           /\ UNCHANGED <<router, ready, events, routerQ>>
  <2>1. subs' \subseteq Keys /\ sessionOut' \in BOOLEAN
    BY <1>5 DEF TypeOK
  <2>. QED BY <1>3, <1>5, <2>1 DEF Delivers, TypeOK, callerVars, thirdVars, driverVars
<1>. QED BY <1>4, <1>5 DEF Delivers, AfterDelivery

LEMMA RouterTypes ==
  ASSUME TypeInv, RouterNext
  PROVE  TypeInv'
<1>. USE DEF TypeInv
<1>1. CASE TakesCommand
  <2>1. /\ Head(routerQ) \in RouterCommands /\ routerQ' \in Seq(RouterCommands)
    BY <1>1, HeadTaken DEF TakesCommand
  <2>2. subs' \subseteq Keys /\ Head(routerQ).key \in Keys
    BY <1>1, <2>1 DEF TakesCommand, TypeOK, RouterCommands
  <2>3. unsubQ' \in Seq(Keys)
    BY <1>1, <2>2, Added DEF TakesCommand
  <2>. QED
    BY <1>1, <2>1, <2>2, <2>3 DEF TakesCommand, TypeOK, callerVars, thirdVars, driverVars
<1>2. CASE RouterLooks \/ RouterSleeps
  BY <1>2 DEF RouterLooks, RouterSleeps, TypeOK, callerVars, queueVars, thirdVars, driverVars
<1>3. CASE RouterStops
  BY <1>3, EndsTyped DEF RouterStops, TypeOK, callerVars, thirdVars, driverVars
<1>4. CASE TakesEvent
  <2>. DEFINE e == Head(events)
  <2>1. /\ e \in PortEvents /\ Tail(events) \in Seq(PortEvents)
        /\ Len(Tail(events)) <= EventCap
    <3>1. events \in Seq(PortEvents) /\ events # <<>> /\ Len(events) <= EventCap /\ EventCap \in Nat
      BY <1>4, CapacityAssumption DEF TakesEvent, TypeOK
    <3>. QED BY <3>1, HeadTaken
  <2>2. CASE RouterEnds
    BY <1>4, <2>2, EndsTyped DEF TakesEvent, TypeOK, callerVars, thirdVars, driverVars
  <2>3. CASE /\ events' = Tail(events)
             /\ delivering' = Delivery(e)
             /\ subs' = subs \ DeregisteredBy(e)
             /\ router' = "running"
             /\ ready' = CASE ready = "pending" /\ e.ev = "bound"  -> "ok"
                           [] ready = "pending" /\ e.ev = "closed" -> "failed"
                           [] OTHER -> ready
             /\ UNCHANGED <<routerQ, sessionOut>>
    <3>1. delivering' \in {NoDelivery} \cup [to : Keys \cup {Session}, what : Notes]
      BY <2>1, <2>3, DeliveryOf
    <3>2. ready' \in {"pending", "ok", "failed"}
      BY <2>3 DEF TypeOK
    <3>. QED
      BY <1>4, <2>1, <2>3, <3>1, <3>2 DEF TakesEvent, TypeOK, callerVars, thirdVars, driverVars
  <2>. QED BY <1>4, <2>2, <2>3 DEF TakesEvent
<1>. QED BY <1>1, <1>2, <1>3, <1>4, DeliversTypes DEF RouterNext

LEMMA IssuerTypes ==
  ASSUME TypeInv, IssuerNext
  PROVE  TypeInv'
<1>. USE DEF TypeInv
<1>1. ASSUME third' \in {"running", "done"}, issuing' \in Keys \cup {NoKey},
             unsubQ' \in Seq(Keys), cmds' \in Seq(Commands), Len(cmds') <= CommandCap
      PROVE  TypeInv'
  BY <1>1 DEF IssuerNext, IssuerTakes, IssuerQueues, TypeOK, callerVars, routerVars, driverVars
<1>2. CASE IssuerEnds
  <2>1. unsubQ' \in Seq(Keys)
    BY <1>2, NoQueue DEF IssuerEnds
  <2>. QED BY <1>1, <1>2, <2>1 DEF IssuerEnds, TypeOK
<1>3. CASE /\ unsubQ # <<>>
           /\ issuing' = Head(unsubQ) /\ unsubQ' = Tail(unsubQ)
           /\ UNCHANGED <<third, cmds>>
  <2>1. Head(unsubQ) \in Keys /\ Tail(unsubQ) \in Seq(Keys)
    BY <1>3, HeadTaken
  <2>. QED BY <1>1, <1>3, <2>1 DEF TypeOK
<1>4. CASE /\ issuing # NoKey /\ HasRoom(cmds, CommandCap)
           /\ cmds' = Append(cmds, [t |-> "unsubscribe", key |-> issuing])
           /\ issuing' = NoKey
           /\ UNCHANGED <<third, unsubQ>>
  <2>1. [t |-> "unsubscribe", key |-> issuing] \in Commands /\ CommandCap \in Nat
    BY <1>4, CapacityAssumption DEF TypeOK, Commands
  <2>2. cmds' \in Seq(Commands) /\ Len(cmds') <= CommandCap
    BY <1>4, <2>1, RoomForOne
  <2>. QED BY <1>1, <1>4, <2>2 DEF TypeOK
<1>. QED BY <1>2, <1>3, <1>4 DEF IssuerNext, IssuerTakes, IssuerQueues

LEMMA DriverTypes ==
  ASSUME TypeInv, DriverNext
  PROVE  TypeInv'
<1>. USE DEF TypeInv
<1>0. CommandCap \in Nat /\ EventCap \in Nat
  BY CapacityAssumption
<1>1. ASSUME DriverServes
      PROVE  PortMoves /\ cmds' \in Seq(Commands) /\ Len(cmds') <= CommandCap
  <2>1. /\ Head(cmds) \in Commands /\ Tail(cmds) \in Seq(Commands)
        /\ Len(Tail(cmds)) <= CommandCap
    BY <1>0, <1>1, HeadTaken DEF DriverServes, TypeOK
  <2>. QED BY <1>1, <2>1 DEF DriverServes, PortMoves, PortOthers, Commands
<1>2. CASE DriverServes
  <2>1. /\ life' \in [Keys -> {"unused", "wanted", "removing", "gone"}]
        /\ said' \in SUBSET PortEvents /\ closed' \in BOOLEAN
    BY <1>1, <1>2, PortStep
  <2>. QED
    BY <1>1, <1>2, <2>1 DEF DriverServes, TypeOK, callerVars, routerVars, thirdVars
<1>3. CASE DriverHears \/ DriverStops
  <2>1. PortMoves
    BY <1>3 DEF DriverHears, DriverStops, PortMoves, PortOthers
  <2>2. /\ life' \in [Keys -> {"unused", "wanted", "removing", "gone"}]
        /\ said' \in SUBSET PortEvents /\ closed' \in BOOLEAN
    BY <2>1, PortStep
  <2>. QED
    BY <1>3, <2>2
    DEF DriverHears, DriverStops, TypeOK, callerVars, queueVars, routerVars, thirdVars
<1>4. CASE DriverEmits
  <2>1. PICK e \in said :
          /\ said' = said \ {e}
          /\ \/ /\ router # "done" /\ HasRoom(events, EventCap)
                /\ events' = Append(events, e)
             \/ UNCHANGED events
    BY <1>4 DEF DriverEmits
  <2>2. events' \in Seq(PortEvents) /\ Len(events') <= EventCap
    <3>1. CASE HasRoom(events, EventCap) /\ events' = Append(events, e)
      BY <1>0, <3>1, RoomForOne
    <3>2. CASE events' = events
      BY <3>2 DEF TypeOK
    <3>. QED BY <2>1, <3>1, <3>2
  <2>. QED BY <1>4, <2>1, <2>2 DEF DriverEmits, TypeOK, callerVars, routerVars, thirdVars
<1>5. CASE DriverReturns
  <2>1. cmds' \in Seq(Commands) /\ Len(cmds') <= CommandCap
    BY <1>0, <1>5, NoQueue DEF DriverReturns
  <2>. QED BY <1>5, <2>1 DEF DriverReturns, TypeOK, callerVars, routerVars, thirdVars
<1>. QED BY <1>2, <1>3, <1>4, <1>5 DEF DriverNext

LEMMA TypesKept == TypeInv /\ [Next]_vars => TypeInv'
<1>1. ASSUME TypeInv, UNCHANGED vars PROVE TypeInv'
  BY <1>1
  DEF TypeInv, TypeOK, vars, callerVars, queueVars, routerVars, thirdVars, driverVars
<1>. QED
  BY <1>1, CallerTypes, RouterTypes, IssuerTypes, DriverTypes DEF Next

LEMMA TypesStart == Init => TypeInv
<1>1. CommandCap \in Nat /\ EventCap \in Nat /\ UpdateCap \in Nat /\ SessionCap \in Nat
  BY CapacityAssumption
<1>2. /\ <<>> \in Seq(Commands) /\ <<>> \in Seq(RouterCommands) /\ <<>> \in Seq(Keys)
      /\ <<>> \in Seq(PortEvents) /\ <<>> \in Seq(Notes) /\ Len(<<>>) = 0
  BY NoQueue
<1>3. ASSUME Init PROVE TypeOK
  BY <1>1, <1>2, <1>3 DEF Init, TypeOK
<1>. QED BY <1>2, <1>3 DEF Init, Driver!Init, TypeInv

-----------------------------------------------------------------------------
(* The end of a session *)

\* A stop that is seen stays seen.
LEMMA StopStays == [Next]_vars /\ StopSeen => StopSeen'
<1>1. ASSUME CallerNext \/ UNCHANGED vars
      PROVE  /\ stop => stop'
             /\ client = "gone" => client' = "gone"
             /\ third = "done" => third' = "done"
  <2>1. ASSUME UNCHANGED vars
        PROVE  UNCHANGED <<stop, client, third>>
    BY <2>1 DEF vars, callerVars, thirdVars
  <2>2. ASSUME NEW from, NEW to, Moves(from, to), from # "gone"
        PROVE  client # "gone" /\ third' = third
    BY <2>2 DEF Moves, thirdVars
  <2>3. CASE Disconnect \/ DestroyQueued \/ DestroyNotQueued \/ JoinTimesOut \/ DisconnectReturns
    BY <2>2, <2>3 DEF Disconnect, DestroyQueued, DestroyNotQueued, JoinTimesOut, DisconnectReturns
  <2>4. CASE ConnectDrains \/ ConnectReturns \/ ConnectCancelled \/ CallSend \/ DropClient
             \/ Abort \/ ReadSessionEvent \/ StopListening \/ DropSessionEvents
    BY <2>4
    DEF ConnectDrains, ConnectReturns, ConnectCancelled, GivesUpClient, CallSend, DropClient,
        Abort, ReadSessionEvent, StopListening, DropSessionEvents, callerVars, thirdVars
  <2>5. ASSUME NEW k \in Keys,
               \/ CallSubscribe(k) \/ SubscribeQueued(k) \/ SubscribeFails(k)
               \/ SubscribeCancelled(k) \/ CallUnsubscribe(k)
               \/ ReadUpdate(k) \/ ReadEnd(k) \/ StopReading(k) \/ DropUpdates(k)
        PROVE  UNCHANGED <<stop, client, third>>
    BY <2>5
    DEF CallSubscribe, SubscribeQueued, SubscribeFails, SubscribeCancelled, CallUnsubscribe,
        ReadUpdate, ReadEnd, StopReading, DropUpdates, thirdVars
  <2>. QED BY <1>1, <2>1, <2>3, <2>4, <2>5 DEF CallerNext
<1>2. ASSUME RouterNext \/ DriverNext
      PROVE  UNCHANGED <<stop, client, third>>
  BY <1>2
  DEF RouterNext, TakesCommand, RouterLooks, RouterSleeps, RouterStops, TakesEvent, Delivers,
      DriverNext, DriverServes, DriverHears, DriverStops, DriverEmits, DriverReturns,
      callerVars, thirdVars
<1>3. ASSUME IssuerNext
      PROVE  UNCHANGED <<stop, client>> /\ third # "done"
  <2>1. third = "running"
    BY <1>3 DEF IssuerNext, IssuerTakes, IssuerQueues
  <2>. QED BY <1>3, <2>1 DEF IssuerNext, IssuerTakes, IssuerQueues, callerVars
<1>4. ASSUME [Next]_vars, StopSeen
      PROVE  stop' \/ (client' = "gone" /\ third' = "done")
  <2>1. stop \/ (client = "gone" /\ third = "done")
    BY <1>4 DEF StopSeen, HandleAlive
  <2>2. CASE CallerNext \/ UNCHANGED vars
    BY <1>1, <2>1, <2>2
  <2>3. CASE RouterNext \/ DriverNext
    BY <1>2, <2>1, <2>3
  <2>4. CASE IssuerNext
    BY <1>3, <2>1, <2>4
  <2>. QED BY <1>4, <2>2, <2>3, <2>4 DEF Next
<1>. QED BY <1>4 DEF StopSeen, HandleAlive

\* What a step of the caller leaves alone, and how it may touch the session's stream.
LEMMA CallerAndSession ==
  ASSUME TypeInv, ClosingInv, CallerNext, ~Abort
  PROVE  /\ UNCHANGED <<ready, events, routerVars, driverVars>>
         /\ stop' => client' \in {"forcing", "gone"}
         /\ client' = "forcing" => stop'
         /\ router = "done" => routerQ' = routerQ
         /\ listener = "dropped" => listener' = "dropped"
         /\ listener' \in {"reads", "stalled"} /\ router = "done" =>
              /\ listener \in {"reads", "stalled"}
              /\ \/ sessionQ' = sessionQ
                 \/ /\ sessionQ # <<>> /\ sessionQ' = Tail(sessionQ)
                    /\ Head(sessionQ) # "last"
<1>0. /\ stop => client \in {"forcing", "gone"}
      /\ client = "forcing" => stop
      /\ router = "done" => ready # "pending"
  BY DEF ClosingInv
<1>. SUFFICES /\ UNCHANGED <<ready, events, routerVars, driverVars>>
              /\ stop' => client' \in {"forcing", "gone"}
              /\ client' = "forcing" => stop'
              /\ routerQ' = routerQ \/ \E c : TellsRouter(c)
              /\ \/ listener' \notin {"reads", "stalled"}
                 \/ listener \in {"reads", "stalled"} /\ sessionQ' = sessionQ
                 \/ router # "done"
                 \/ /\ listener = "reads" /\ sessionQ # <<>> /\ sessionQ' = Tail(sessionQ)
                    /\ Head(sessionQ) # "last"
                 \/ listener' = listener /\ sessionQ' = sessionQ
              /\ listener = "dropped" => listener' = "dropped"
  BY DEF TellsRouter
<1>1. CASE ConnectDrains
  BY <1>0, <1>1 DEF ConnectDrains
<1>2. CASE GivesUpClient
  BY <1>0, <1>2 DEF GivesUpClient
<1>3. CASE ConnectReturns \/ ConnectCancelled
  BY <1>0, <1>2, <1>3 DEF ConnectReturns, ConnectCancelled, queueVars
<1>4. CASE CallSend \/ DropClient
  BY <1>0, <1>4 DEF CallSend, DropClient, queueVars, callerVars
<1>5. CASE Disconnect \/ DestroyQueued \/ DestroyNotQueued \/ JoinTimesOut \/ DisconnectReturns
  BY <1>0, <1>5
  DEF Disconnect, DestroyQueued, DestroyNotQueued, JoinTimesOut, DisconnectReturns, Moves
<1>6. CASE ReadSessionEvent \/ StopListening \/ DropSessionEvents
  BY <1>0, <1>6 DEF ReadSessionEvent, StopListening, DropSessionEvents, queueVars, TypeInv, TypeOK
<1>7. ASSUME NEW k \in Keys, CallSubscribe(k) \/ SubscribeFails(k) \/ DropUpdates(k)
      PROVE  /\ UNCHANGED <<client, listener, sessionQ, stop>>
             /\ UNCHANGED <<ready, events, routerVars, driverVars>>
             /\ \E c : TellsRouter(c)
  BY <1>7 DEF CallSubscribe, SubscribeFails, DropUpdates
<1>8. ASSUME NEW k \in Keys,
             \/ SubscribeQueued(k) \/ SubscribeCancelled(k) \/ CallUnsubscribe(k)
             \/ ReadUpdate(k) \/ ReadEnd(k) \/ StopReading(k)
      PROVE  /\ UNCHANGED <<client, listener, sessionQ, stop, routerQ>>
             /\ UNCHANGED <<ready, events, routerVars, driverVars>>
  BY <1>8
  DEF SubscribeQueued, SubscribeCancelled, CallUnsubscribe, ReadUpdate, ReadEnd, StopReading,
      queueVars
<1>. QED
  BY <1>0, <1>1, <1>3, <1>4, <1>5, <1>6, <1>7, <1>8 DEF CallerNext

\* The last event stays the last until it is read.
LEMMA LastStays ==
  ASSUME NEW q \in Seq(Notes), q # <<>>, q[Len(q)] = "last", Head(q) # "last"
  PROVE  Tail(q) # <<>> /\ Tail(q)[Len(Tail(q))] = "last"
<1>1. /\ Len(q) \in Nat /\ Len(q) >= 1 /\ Head(q) = q[1] /\ Len(Tail(q)) = Len(q) - 1
      /\ \A i \in 1 .. Len(q) - 1 : Tail(q)[i] = q[i + 1]
      /\ Tail(q) \in Seq(Notes)
  BY HeadTaken
<1>2. Len(q) # 1
  BY <1>1
<1>3. Len(Tail(q)) \in 1 .. Len(q) - 1 /\ Len(Tail(q)) + 1 = Len(q)
  BY <1>1, <1>2
<1>4. Tail(q)[Len(Tail(q))] = q[Len(q)]
  BY <1>1, <1>3
<1>5. Len(Tail(q)) # 0
  BY <1>1, <1>2
<1>. QED BY <1>1, <1>4, <1>5, NoQueue

LEMMA CallerClosing ==
  ASSUME TypeInv, ClosingInv, CallerNext
  PROVE  ClosingInv'
<1>1. CASE Abort
  <2>1. /\ stop /\ stop' = stop /\ client' = "gone" /\ RouterEnds
        /\ driverDone' = TRUE /\ closed' = TRUE /\ said' = {}
    BY <1>1 DEF Abort, ClosingInv
  <2>. QED BY <2>1 DEF RouterEnds, ClosingInv, ClosedIsReported, StopSeen
<1>2. CASE ~Abort
  <2>1. /\ UNCHANGED <<ready, events, routerVars, driverVars>>
        /\ stop' => client' \in {"forcing", "gone"}
        /\ client' = "forcing" => stop'
        /\ router = "done" => routerQ' = routerQ
        /\ listener = "dropped" => listener' = "dropped"
        /\ listener' \in {"reads", "stalled"} /\ router = "done" =>
             /\ listener \in {"reads", "stalled"}
             /\ \/ sessionQ' = sessionQ
                \/ /\ sessionQ # <<>> /\ sessionQ' = Tail(sessionQ)
                   /\ Head(sessionQ) # "last"
    BY <1>2, CallerAndSession
  <2>2. StopSeen => StopSeen'
    BY StopStays DEF Next
  <2>3. ClosedIsReported'
    <3> SUFFICES ASSUME router = "done", ~StopSeen', listener' \in {"reads", "stalled"}
                 PROVE  sessionQ' # <<>> /\ sessionQ'[Len(sessionQ')] = "last"
      BY <2>1 DEF ClosedIsReported, routerVars
    <3>1. sessionQ # <<>> /\ sessionQ[Len(sessionQ)] = "last"
      BY <2>1, <2>2 DEF ClosingInv, ClosedIsReported
    <3>2. CASE sessionQ' = sessionQ
      BY <3>1, <3>2
    <3>3. CASE sessionQ' = Tail(sessionQ) /\ Head(sessionQ) # "last"
      BY <3>1, <3>3, LastStays DEF TypeInv
    <3>. QED BY <2>1, <3>2, <3>3
  <2>4. ClosingOnItsWay' <=> ClosingOnItsWay
    BY <2>1 DEF ClosingOnItsWay, InQueue, routerVars, driverVars
  <2>. QED
    BY <2>1, <2>2, <2>3, <2>4 DEF ClosingInv, routerVars, driverVars
<1>. QED BY <1>1, <1>2

\* The router has ended: nothing is left of what it held.
LEMMA EndsClosing ==
  ASSUME TypeInv, ClosingInv, RouterEnds, ClosedIsReported',
         UNCHANGED <<stop, client, driverDone, closed, said>>
  PROVE  ClosingInv'
<1>1. /\ router' = "done" /\ delivering' = NoDelivery /\ routerQ' = <<>> /\ subs' = {}
      /\ ready' # "pending"
  BY DEF RouterEnds
<1>. QED BY <1>1 DEF ClosingInv

LEMMA DeliversClosing ==
  ASSUME TypeInv, ClosingInv, Delivers
  PROVE  ClosingInv'
<1>. DEFINE d == delivering
<1>1. /\ UNCHANGED <<callerVars, stop, thirdVars, driverVars>> /\ router = "running"
      /\ d # NoDelivery
      /\ d = Sends(d.to, d.what) /\ d.what \in Notes
  BY DeliveryTyped DEF Delivers, ClosingInv, TypeInv, TypeOK
<1>2. UNCHANGED <<stop, client, listener, third, driverDone, closed, said>>
  BY <1>1 DEF callerVars, thirdVars, driverVars
<1>3. StopSeen' <=> StopSeen
  BY <1>2 DEF StopSeen, HandleAlive
<1>4. CASE d.to = Session /\ d.what = "last"
  <2>1. RouterEnds
    BY <1>4 DEF Delivers, AfterDelivery
  <2>2. ASSUME ~StopSeen, listener \in {"reads", "stalled"}
        PROVE  sessionQ' # <<>> /\ sessionQ'[Len(sessionQ')] = "last"
    <3>1. sessionQ' = Append(sessionQ, "last")
      BY <1>4, <2>2 DEF Delivers, Arrives, DoesNotArrive, ReceiverHeld
    <3>2. sessionQ \in Seq(Notes) /\ "last" \in Notes
      BY DEF TypeInv, Notes
    <3>. QED BY <3>1, <3>2, Added
  <2>3. ClosedIsReported'
    BY <1>2, <1>3, <2>2 DEF ClosedIsReported
  <2>. QED BY <1>2, <2>1, <2>3, EndsClosing
<1>5. CASE d.to # Session \/ d.what # "last"
  <2>1. /\ delivering' = NoDelivery
        /\ sessionOut' = (sessionOut /\ (d.to = Session => ReceiverHeld(Session)))
        /\ UNCHANGED <<router, ready, events, routerQ>>
    BY <1>5 DEF Delivers, AfterDelivery
  <2>2. delivering # Sends(Session, "last")
    BY <1>5 DEF Sends
  <2>3. ClosingOnItsWay => ClosingOnItsWay'
    BY <1>2, <2>1, <2>2 DEF ClosingOnItsWay, InQueue
  <2>4. sessionOut' \/ listener' = "dropped"
    BY <1>1, <1>2, <2>1 DEF ReceiverHeld, ClosingInv
  <2>. QED BY <1>1, <1>2, <1>3, <2>1, <2>3, <2>4 DEF ClosingInv, ClosedIsReported
<1>. QED BY <1>4, <1>5

LEMMA RouterClosing ==
  ASSUME TypeInv, ClosingInv, RouterNext
  PROVE  ClosingInv'
<1>1. UNCHANGED <<stop, client, listener, third, driverDone, closed, said>>
  BY DEF RouterNext, TakesCommand, RouterLooks, RouterSleeps, RouterStops, TakesEvent, Delivers,
         callerVars, thirdVars, driverVars
<1>2. StopSeen' <=> StopSeen
  BY <1>1 DEF StopSeen, HandleAlive
<1>3. CASE TakesCommand
  <2>1. UNCHANGED <<router, ready, events, delivering, sessionOut, sessionQ>> /\ router = "running"
    BY <1>3 DEF TakesCommand, AtSelect
  <2>2. ClosingOnItsWay' <=> ClosingOnItsWay
    BY <1>1, <2>1 DEF ClosingOnItsWay, InQueue
  <2>. QED BY <1>1, <1>2, <2>1, <2>2 DEF ClosingInv, ClosedIsReported
<1>4. CASE RouterLooks \/ RouterSleeps
  <2>1. /\ UNCHANGED <<ready, events, delivering, sessionOut, sessionQ, subs, routerQ>>
        /\ router # "done" /\ router' \in {"running", "looking"} /\ delivering = NoDelivery
    BY <1>4
    DEF RouterLooks, RouterSleeps, AtEvents, PassesCommands, AtSelect, queueVars, ClosingInv
  <2>2. ClosingOnItsWay' <=> ClosingOnItsWay
    BY <1>1, <2>1 DEF ClosingOnItsWay, InQueue
  <2>. QED BY <1>1, <1>2, <2>1, <2>2 DEF ClosingInv, ClosedIsReported
<1>5. CASE RouterStops
  <2>1. RouterEnds /\ sessionQ' = sessionQ
    BY <1>5 DEF RouterStops
  <2>2. ASSUME ~StopSeen PROVE FALSE
    <3>1. AtEvents /\ events = <<>> /\ driverDone
      BY <1>5, <2>2 DEF RouterStops
    <3>2. router \in {"running", "looking"} /\ delivering = NoDelivery
      BY <3>1 DEF AtEvents, PassesCommands, AtSelect, ClosingInv
    <3>3. closed /\ said = {}
      BY <3>1 DEF ClosingInv
    <3>4. ~ClosingOnItsWay
      BY <3>1, <3>2, <3>3, NoQueue DEF ClosingOnItsWay, Sends, NoDelivery
    <3>. QED BY <2>2, <3>2, <3>3, <3>4 DEF ClosingInv
  <2>3. ClosedIsReported'
    BY <1>2, <2>2 DEF ClosedIsReported
  <2>. QED BY <1>1, <2>1, <2>3, EndsClosing
<1>6. CASE TakesEvent
  <2>. DEFINE e == Head(events)
  <2>1. /\ events \in Seq(PortEvents) /\ events # <<>> /\ sessionQ' = sessionQ
        /\ router \in {"running", "looking"} /\ delivering = NoDelivery
    BY <1>6 DEF TakesEvent, AtEvents, PassesCommands, AtSelect, ClosingInv, TypeInv
  <2>2. /\ e \in PortEvents /\ e = events[1] /\ Tail(events) \in Seq(PortEvents)
        /\ Len(Tail(events)) = Len(events) - 1 /\ Len(events) \in Nat /\ Len(events) >= 1
        /\ \A i \in 1 .. Len(events) - 1 : Tail(events)[i] = events[i + 1]
    BY <2>1, HeadTaken
  <2>3. CASE e.ev = "closed" /\ ~sessionOut /\ RouterEnds
    <3>1. listener = "dropped"
      BY <2>1, <2>3 DEF ClosingInv
    <3>2. ClosedIsReported'
      BY <1>1, <3>1 DEF ClosedIsReported
    <3>. QED BY <1>1, <2>3, <3>2, EndsClosing
  <2>4. CASE /\ e.ev # "closed" \/ sessionOut
             /\ events' = Tail(events)
             /\ delivering' = Delivery(e)
             /\ router' = "running"
             /\ UNCHANGED <<routerQ, sessionOut>>
    <3>1. e.ev = "closed" => delivering' = Sends(Session, "last")
      BY <2>2, <2>4, DeliveryOf DEF Emitted
    <3>2. ASSUME InQueue(Driver!Closed, events), e # Driver!Closed
          PROVE  InQueue(Driver!Closed, events')
      <4>1. PICK i \in 1 .. Len(events) : events[i] = Driver!Closed
        BY <2>1, <3>2, Queue
      <4>2. i # 1
        BY <2>2, <3>2, <4>1
      <4>3. i - 1 \in 1 .. Len(events) - 1
        BY <2>2, <4>1, <4>2
      <4>4. events'[i - 1] = Driver!Closed /\ i - 1 \in 1 .. Len(events')
        <5>1. Tail(events)[i - 1] = events[(i - 1) + 1]
          BY <2>2, <4>3
        <5>2. (i - 1) + 1 = i
          BY <2>2, <4>1
        <5>. QED BY <2>2, <2>4, <4>1, <4>3, <5>1, <5>2
      <4>. QED BY <2>2, <2>4, <4>4, Queue
    <3>3. ClosingOnItsWay => ClosingOnItsWay'
      BY <1>1, <2>1, <3>1, <3>2 DEF ClosingOnItsWay, Driver!Closed, Sends, NoDelivery
    <3>. QED
      BY <1>1, <1>2, <2>1, <2>4, <3>3 DEF ClosingInv, ClosedIsReported
  <2>. QED BY <1>6, <2>3, <2>4 DEF TakesEvent
<1>. QED BY <1>3, <1>4, <1>5, <1>6, DeliversClosing DEF RouterNext

LEMMA IssuerClosing ==
  ASSUME TypeInv, ClosingInv, IssuerNext
  PROVE  ClosingInv'
<1>1. /\ UNCHANGED <<stop, client, listener, events, sessionQ, routerQ, ready>>
      /\ UNCHANGED <<router, subs, sessionOut, delivering, closed, said, driverDone>>
  BY DEF IssuerNext, IssuerTakes, IssuerQueues, callerVars, routerVars, driverVars
<1>2. StopSeen => StopSeen'
  BY StopStays DEF Next
<1>3. ClosingOnItsWay' <=> ClosingOnItsWay
  BY <1>1 DEF ClosingOnItsWay, InQueue
<1>. QED BY <1>1, <1>2, <1>3 DEF ClosingInv, ClosedIsReported

LEMMA DriverClosing ==
  ASSUME TypeInv, ClosingInv, DriverNext
  PROVE  ClosingInv'
<1>1. /\ UNCHANGED <<stop, client, third, listener, sessionQ, routerQ, ready>>
      /\ UNCHANGED <<router, subs, sessionOut, delivering>>
  BY DEF DriverNext, DriverServes, DriverHears, DriverStops, DriverEmits, DriverReturns,
         callerVars, queueVars, routerVars, thirdVars
<1>2. StopSeen' <=> StopSeen
  BY <1>1 DEF StopSeen, HandleAlive
<1>3. SUFFICES /\ driverDone' => closed' /\ said' = {}
               /\ closed' => ClosingOnItsWay' \/ router' = "done" \/ StopSeen'
  BY <1>1, <1>2 DEF ClosingInv, ClosedIsReported
<1>4. CASE DriverServes \/ DriverHears \/ DriverStops
  <2>1. PortMoves
    <3>1. ASSUME DriverServes PROVE Head(cmds) \in Commands
      BY <3>1, HeadTaken DEF DriverServes, TypeInv
    <3>. QED
      BY <1>4, <3>1 DEF DriverServes, DriverHears, DriverStops, PortMoves, PortOthers, Commands
  <2>2. closed' => Driver!Closed \in said'
    BY <2>1, PortStep
  <2>3. ~driverDone /\ driverDone' = driverDone
    BY <1>4 DEF DriverServes, DriverHears, DriverStops, DriverReady, ClosingInv
  <2>. QED BY <2>2, <2>3 DEF ClosingOnItsWay
<1>5. CASE DriverEmits
  <2>1. PICK e \in said :
          /\ e = Driver!Closed => said = {e}
          /\ said' = said \ {e}
          /\ \/ /\ router # "done" /\ HasRoom(events, EventCap)
                /\ events' = Append(events, e)
             \/ /\ router = "done" \/ (StopSeen /\ ~HasRoom(events, EventCap))
                /\ UNCHANGED events
    BY <1>5 DEF DriverEmits
  <2>2. closed' = closed /\ driverDone' = driverDone /\ ~driverDone
    BY <1>5, <2>1 DEF DriverEmits, ClosingInv
  <2>3. CASE router = "done" \/ StopSeen
    BY <1>1, <1>2, <2>2, <2>3
  <2>4. CASE events' = Append(events, e)
    <3>1. e \in PortEvents /\ events \in Seq(PortEvents)
      BY DEF TypeInv
    <3>2. /\ events' \in Seq(PortEvents) /\ Len(events) \in Nat /\ Len(events') = Len(events) + 1
          /\ \A i \in 1 .. Len(events) : events'[i] = events[i]
          /\ events'[Len(events) + 1] = e
      BY <2>4, <3>1, Added
    <3>3. InQueue(e, events')
      <4>1. Len(events) + 1 \in 1 .. Len(events')
        BY <3>2
      <4>. QED BY <3>2, <4>1, Queue
    <3>4. InQueue(Driver!Closed, events) => InQueue(Driver!Closed, events')
      <4>1. \A i \in 1 .. Len(events) : i \in 1 .. Len(events')
        BY <3>2
      <4>. QED BY <3>1, <3>2, <4>1, Queue
    <3>5. ClosingOnItsWay => ClosingOnItsWay'
      BY <1>1, <2>1, <3>3, <3>4 DEF ClosingOnItsWay
    <3>. QED BY <1>1, <1>2, <2>2, <3>5 DEF ClosingInv
  <2>. QED BY <2>1, <2>3, <2>4
<1>6. CASE DriverReturns
  <2>1. closed /\ said = {} /\ UNCHANGED <<events, closed, said>>
    BY <1>6 DEF DriverReturns
  <2>2. ClosingOnItsWay' <=> ClosingOnItsWay
    BY <1>1, <2>1 DEF ClosingOnItsWay, InQueue
  <2>. QED BY <1>1, <1>2, <2>1, <2>2 DEF ClosingInv
<1>. QED BY <1>4, <1>5, <1>6 DEF DriverNext

LEMMA ClosingKept == TypeInv /\ ClosingInv /\ [Next]_vars => ClosingInv'
<1>1. ASSUME TypeInv, ClosingInv, UNCHANGED vars PROVE ClosingInv'
  BY <1>1
  DEF ClosingInv, ClosedIsReported, ClosingOnItsWay, InQueue, StopSeen, HandleAlive,
      vars, callerVars, queueVars, routerVars, thirdVars, driverVars
<1>. QED
  BY <1>1, CallerClosing, RouterClosing, IssuerClosing, DriverClosing DEF Next

LEMMA ClosingStart == Init => ClosingInv
  BY DEF Init, Driver!Init, ClosingInv, ClosedIsReported

-----------------------------------------------------------------------------
(* Before a subscription is asked for *)

NotYet(k) == call[k] \in {"none", "queuing"}

\* What the caller does about other subscriptions, and what it asks for.
LEMMA CallerOnCalls ==
  ASSUME TypeInv, CallerNext, NEW k \in Keys, NotYet(k)'
  PROVE  /\ NotYet(k) /\ stream'[k] = stream[k]
         /\ \/ cmds' = cmds \/ cmds' = <<>>
            \/ \E c \in Commands : /\ cmds' = Append(cmds, c)
                                   /\ ~(c.t = "subscribe" /\ c.key = k)
<1>. call \in [Keys -> {"none", "queuing", "open", "stalled", "over", "cut", "dropped", "failed"}]
     /\ stream \in [Keys -> Seq(Notes)]
  BY DEF TypeInv, TypeOK
<1>1. ASSUME NEW j \in Keys, NEW c, call' = [call EXCEPT ![j] = c], NotYet(j),
             UNCHANGED <<cmds, stream>>
      PROVE  /\ NotYet(k) /\ stream'[k] = stream[k] /\ cmds' = cmds
  BY <1>1 DEF NotYet
<1>2. ASSUME NEW j \in Keys, NEW c, c \notin {"none", "queuing"}, call' = [call EXCEPT ![j] = c]
      PROVE  j # k /\ NotYet(k)
  BY <1>2 DEF NotYet
<1>3. CASE UNCHANGED <<call, cmds, stream>>
  BY <1>3 DEF NotYet
<1>4. CASE CallSend
  <2>1. [t |-> "message", key |-> NoKey] \in Commands
    BY DEF Commands
  <2>. QED BY <1>4, <2>1 DEF CallSend, callerVars, NotYet
<1>5. CASE DestroyQueued
  <2>1. [t |-> "destroy", key |-> NoKey] \in Commands
    BY DEF Commands
  <2>. QED BY <1>5, <2>1 DEF DestroyQueued, Moves, NotYet
<1>6. CASE ConnectDrains \/ ConnectReturns \/ ConnectCancelled \/ DropClient
           \/ ReadSessionEvent \/ StopListening \/ DropSessionEvents
  BY <1>3, <1>6
  DEF ConnectDrains, ConnectReturns, ConnectCancelled, GivesUpClient, DropClient,
      ReadSessionEvent, StopListening, DropSessionEvents, queueVars
<1>7. CASE Disconnect \/ DestroyNotQueued \/ JoinTimesOut \/ DisconnectReturns
  BY <1>3, <1>7 DEF Disconnect, DestroyNotQueued, JoinTimesOut, DisconnectReturns, Moves
<1>8. CASE Abort
  BY <1>8 DEF Abort, NotYet
<1>9. ASSUME NEW j \in Keys, CallSubscribe(j) \/ SubscribeCancelled(j)
      PROVE  NotYet(k) /\ stream'[k] = stream[k] /\ cmds' = cmds
  BY <1>1, <1>9 DEF CallSubscribe, SubscribeCancelled, NotYet, queueVars
<1>10. ASSUME NEW j \in Keys, SubscribeFails(j)
       PROVE  NotYet(k) /\ stream'[k] = stream[k] /\ cmds' = cmds
  BY <1>1, <1>10 DEF SubscribeFails, NotYet
<1>11. CASE \E j \in Keys : SubscribeQueued(j)
  <2>1. PICK j \in Keys : SubscribeQueued(j)
    BY <1>11
  <2>2. j # k /\ NotYet(k) /\ stream' = stream
        /\ cmds' = Append(cmds, [t |-> "subscribe", key |-> j])
    BY <1>2, <2>1 DEF SubscribeQueued
  <2>3. [t |-> "subscribe", key |-> j] \in Commands
    BY DEF Commands
  <2>. QED BY <2>2, <2>3
<1>12. CASE \E j \in Keys : CallUnsubscribe(j)
  <2>1. PICK j \in Keys : CallUnsubscribe(j)
    BY <1>12
  <2>2. NotYet(k) /\ stream' = stream
        /\ cmds' = Append(cmds, [t |-> "unsubscribe", key |-> j])
    BY <2>1 DEF CallUnsubscribe, NotYet
  <2>3. [t |-> "unsubscribe", key |-> j] \in Commands
    BY DEF Commands
  <2>. QED BY <2>2, <2>3
<1>13. ASSUME NEW j \in Keys, ReadUpdate(j)
       PROVE  NotYet(k) /\ stream'[k] = stream[k] /\ cmds' = cmds
  <2>1. j # k /\ call'[k] = call[k]
    BY <1>13 DEF ReadUpdate, NotYet
  <2>. QED BY <1>13, <2>1 DEF ReadUpdate, NotYet
<1>14. ASSUME NEW j \in Keys, ReadEnd(j) \/ StopReading(j)
       PROVE  NotYet(k) /\ stream'[k] = stream[k] /\ cmds' = cmds
  BY <1>2, <1>14 DEF ReadEnd, StopReading, queueVars
<1>15. ASSUME NEW j \in Keys, DropUpdates(j)
       PROVE  NotYet(k) /\ stream'[k] = stream[k] /\ cmds' = cmds
  BY <1>2, <1>15 DEF DropUpdates
<1>. QED
  BY <1>4, <1>5, <1>6, <1>7, <1>8, <1>9, <1>10, <1>11, <1>12, <1>13, <1>14, <1>15 DEF CallerNext

LEMMA CallerUntold ==
  ASSUME TypeInv, ClosingInv, CallerNext, NEW k \in Keys, NotYet(k)', NotYet(k) => Untold(k)
  PROVE  Untold(k)'
<1>1. /\ Untold(k) /\ stream'[k] = stream[k]
      /\ \/ cmds' = cmds \/ cmds' = <<>>
         \/ \E c \in Commands : /\ cmds' = Append(cmds, c)
                                /\ ~(c.t = "subscribe" /\ c.key = k)
  BY CallerOnCalls
<1>2. \A i \in 1 .. Len(cmds') : ~(cmds'[i].t = "subscribe" /\ cmds'[i].key = k)
  <2>1. CASE cmds' = cmds
    BY <1>1, <2>1 DEF Untold
  <2>2. CASE cmds' = <<>>
    BY <2>2, NoQueue
  <2>3. CASE \E c \in Commands : /\ cmds' = Append(cmds, c)
                                 /\ ~(c.t = "subscribe" /\ c.key = k)
    <3>1. PICK c \in Commands : cmds' = Append(cmds, c) /\ ~(c.t = "subscribe" /\ c.key = k)
      BY <2>3
    <3>2. /\ Len(cmds) \in Nat /\ Len(cmds') = Len(cmds) + 1
          /\ \A i \in 1 .. Len(cmds) : cmds'[i] = cmds[i]
          /\ cmds'[Len(cmds) + 1] = c
      BY <3>1, Added DEF TypeInv
    <3>3. \A i \in 1 .. Len(cmds') : i \in 1 .. Len(cmds) \/ i = Len(cmds) + 1
      BY <3>2
    <3>. QED BY <1>1, <3>1, <3>2, <3>3 DEF Untold
  <2>. QED BY <1>1, <2>1, <2>2, <2>3
<1>3. CASE Abort
  <2>1. /\ said' = {} /\ events' = <<>> /\ delivering'.to = NoKey /\ life' = life
    BY <1>3 DEF Abort, RouterEnds, NoDelivery
  <2>2. k # NoKey
    BY KeysAssumption
  <2>. QED BY <1>1, <1>2, <2>1, <2>2, NoQueue DEF Untold
<1>4. CASE ~Abort
  <2>1. UNCHANGED <<events, delivering, life, said>>
    BY <1>4, CallerAndSession DEF routerVars, driverVars
  <2>. QED BY <1>1, <1>2, <2>1 DEF Untold
<1>. QED BY <1>3, <1>4

LEMMA RouterUntold ==
  ASSUME TypeInv, RouterNext, NEW k \in Keys, Untold(k)
  PROVE  Untold(k)'
<1>1. UNCHANGED <<cmds, life, said>>
  BY DEF RouterNext, TakesCommand, RouterLooks, RouterSleeps, RouterStops, TakesEvent, Delivers,
         queueVars, driverVars
<1>2. k # NoKey
  BY KeysAssumption
<1>3. SUFFICES /\ stream'[k] = stream[k] /\ delivering'.to # k
               /\ \A i \in 1 .. Len(events') : ~AboutKey(events'[i], k)
  BY <1>1 DEF Untold
<1>4. ASSUME RouterEnds
      PROVE  /\ delivering'.to # k
             /\ \A i \in 1 .. Len(events') : ~AboutKey(events'[i], k)
  <2>1. events' = <<>> /\ delivering'.to = NoKey
    BY <1>4 DEF RouterEnds, NoDelivery
  <2>. QED BY <1>2, <2>1, NoQueue
<1>5. CASE TakesCommand \/ RouterLooks \/ RouterSleeps
  BY <1>5 DEF TakesCommand, RouterLooks, RouterSleeps, queueVars, Untold
<1>6. CASE RouterStops
  BY <1>4, <1>6 DEF RouterStops
<1>7. CASE TakesEvent
  <2>. DEFINE e == Head(events)
  <2>1. events \in Seq(PortEvents) /\ events # <<>> /\ stream' = stream
    BY <1>7 DEF TakesEvent, TypeInv
  <2>2. /\ e \in PortEvents /\ e = events[1]
        /\ Len(Tail(events)) = Len(events) - 1 /\ Len(events) \in Nat /\ Len(events) >= 1
        /\ \A i \in 1 .. Len(events) - 1 : Tail(events)[i] = events[i + 1]
    BY <2>1, HeadTaken
  <2>3. ~AboutKey(e, k)
    BY <2>2 DEF Untold
  <2>4. CASE events' = Tail(events) /\ delivering' = Delivery(e)
    <3>1. delivering'.to # k
      BY <2>2, <2>3, <2>4, DeliveryOf
    <3>2. \A i \in 1 .. Len(events') : i + 1 \in 1 .. Len(events) /\ events'[i] = events[i + 1]
      BY <2>2, <2>4
    <3>. QED BY <2>1, <3>1, <3>2 DEF Untold
  <2>. QED BY <1>4, <1>7, <2>1, <2>4 DEF TakesEvent
<1>8. CASE Delivers
  <2>1. delivering.to # k
    BY DEF Untold
  <2>2. stream'[k] = stream[k]
    BY <1>8, <2>1 DEF Delivers, Arrives, DoesNotArrive
  <2>3. RouterEnds \/ (delivering' = NoDelivery /\ events' = events)
    BY <1>8 DEF Delivers, AfterDelivery
  <2>. QED BY <1>2, <1>4, <2>2, <2>3 DEF Untold, NoDelivery
<1>. QED BY <1>5, <1>6, <1>7, <1>8 DEF RouterNext

LEMMA IssuerUntold ==
  ASSUME TypeInv, IssuerNext, NEW k \in Keys, Untold(k)
  PROVE  Untold(k)'
<1>1. UNCHANGED <<life, said, events, delivering, stream>>
  BY DEF IssuerNext, IssuerTakes, IssuerQueues, routerVars, driverVars
<1>2. CASE cmds' = cmds
  BY <1>1, <1>2 DEF Untold
<1>3. CASE issuing # NoKey /\ cmds' = Append(cmds, [t |-> "unsubscribe", key |-> issuing])
  <2>1. [t |-> "unsubscribe", key |-> issuing] \in Commands /\ cmds \in Seq(Commands)
    BY <1>3 DEF TypeInv, TypeOK, Commands
  <2>2. /\ Len(cmds) \in Nat /\ Len(cmds') = Len(cmds) + 1
        /\ \A i \in 1 .. Len(cmds) : cmds'[i] = cmds[i]
        /\ cmds'[Len(cmds) + 1].t = "unsubscribe"
    BY <1>3, <2>1, Added
  <2>3. \A i \in 1 .. Len(cmds') : i \in 1 .. Len(cmds) \/ i = Len(cmds) + 1
    BY <2>2
  <2>. QED BY <1>1, <2>2, <2>3 DEF Untold
<1>. QED BY <1>2, <1>3 DEF IssuerNext, IssuerTakes, IssuerQueues, IssuerEnds

LEMMA DriverUntold ==
  ASSUME TypeInv, DriverNext, NEW k \in Keys, Untold(k)
  PROVE  Untold(k)'
<1>1. UNCHANGED <<delivering, stream>>
  BY DEF DriverNext, DriverServes, DriverHears, DriverStops, DriverEmits, DriverReturns,
         queueVars, routerVars
<1>2. CASE DriverServes
  <2>1. /\ cmds \in Seq(Commands) /\ cmds # <<>> /\ cmds' = Tail(cmds) /\ events' = events
    BY <1>2 DEF DriverServes, TypeInv
  <2>2. /\ Head(cmds) = cmds[1] /\ Head(cmds) \in Commands
        /\ Len(cmds') = Len(cmds) - 1 /\ Len(cmds) \in Nat /\ Len(cmds) >= 1
        /\ \A i \in 1 .. Len(cmds) - 1 : cmds'[i] = cmds[i + 1]
    BY <2>1, HeadTaken
  <2>3. \A i \in 1 .. Len(cmds') : i + 1 \in 1 .. Len(cmds) /\ cmds'[i] = cmds[i + 1]
    BY <2>2
  <2>4. ~(Head(cmds).t = "subscribe" /\ Head(cmds).key = k)
    BY <2>2 DEF Untold
  <2>5. PortOthers \/ \E j \in Keys \ {k} : Driver!Subscribe(j)
    BY <1>2, <2>2, <2>4 DEF DriverServes, PortOthers, Commands
  <2>6. life'[k] = "unused" /\ \A e \in said' : ~AboutKey(e, k)
    BY <2>5, PortStep DEF Untold, PortMoves
  <2>. QED BY <1>1, <2>1, <2>3, <2>6 DEF Untold
<1>3. CASE DriverHears \/ DriverStops
  <2>1. PortOthers /\ UNCHANGED <<cmds, events>>
    BY <1>3 DEF DriverHears, DriverStops, PortOthers, queueVars
  <2>2. life'[k] = "unused" /\ \A e \in said' : ~AboutKey(e, k)
    BY <2>1, PortStep DEF Untold, PortMoves
  <2>. QED BY <1>1, <2>1, <2>2 DEF Untold
<1>4. CASE DriverEmits
  <2>1. PICK e \in said : said' = said \ {e} /\ (events' = events \/ events' = Append(events, e))
    BY <1>4 DEF DriverEmits
  <2>2. life' = life /\ cmds' = cmds
    BY <1>4 DEF DriverEmits
  <2>3. \A i \in 1 .. Len(events') : ~AboutKey(events'[i], k)
    <3>1. CASE events' = Append(events, e)
      <4>1. e \in PortEvents /\ events \in Seq(PortEvents) /\ ~AboutKey(e, k)
        BY DEF TypeInv, Untold
      <4>2. /\ Len(events) \in Nat /\ Len(events') = Len(events) + 1
            /\ \A i \in 1 .. Len(events) : events'[i] = events[i]
            /\ events'[Len(events) + 1] = e
        BY <3>1, <4>1, Added
      <4>3. \A i \in 1 .. Len(events') : i \in 1 .. Len(events) \/ i = Len(events) + 1
        BY <4>2
      <4>. QED BY <4>1, <4>2, <4>3 DEF Untold
    <3>. QED BY <2>1, <3>1 DEF Untold
  <2>. QED BY <1>1, <2>1, <2>2, <2>3 DEF Untold
<1>5. CASE DriverReturns
  <2>1. cmds' = <<>> /\ UNCHANGED <<life, said, events>>
    BY <1>5 DEF DriverReturns
  <2>. QED BY <1>1, <2>1, NoQueue DEF Untold
<1>. QED BY <1>2, <1>3, <1>4, <1>5 DEF DriverNext

\* What holds before a subscription is asked for holds until it is.
LEMMA UntoldKept ==
  ASSUME TypeInv, ClosingInv, StreamsInv, [Next]_vars, NEW k \in Keys, NotYet(k)'
  PROVE  Untold(k)'
<1>1. NotYet(k) => Untold(k)
  BY DEF StreamsInv, NotYet
<1>2. ASSUME UNCHANGED vars PROVE Untold(k)'
  <2>1. UNCHANGED <<life, delivering, stream, cmds, said, events, call>>
    BY <1>2 DEF vars, callerVars, queueVars, routerVars, driverVars
  <2>. QED BY <1>1, <2>1 DEF Untold, NotYet
<1>3. ASSUME RouterNext \/ IssuerNext \/ DriverNext PROVE Untold(k)
  <2>1. call' = call
    BY <1>3
    DEF RouterNext, TakesCommand, RouterLooks, RouterSleeps, RouterStops, TakesEvent, Delivers,
        IssuerNext, IssuerTakes, IssuerQueues, DriverNext, DriverServes, DriverHears,
        DriverStops, DriverEmits, DriverReturns, callerVars
  <2>. QED BY <1>1, <2>1 DEF NotYet
<1>. QED
  BY <1>1, <1>2, <1>3, CallerUntold, RouterUntold, IssuerUntold, DriverUntold DEF Next

-----------------------------------------------------------------------------
(* Registered once, until it has ended *)

LEMMA Senders ==
  ASSUME TypeInv, NEW k
  PROVE  SenderAlive(k) <=>
           \/ k \in subs \/ delivering.to = k
           \/ \E i \in 1 .. Len(routerQ) : routerQ[i] = Registration(k)
  BY Queue DEF TypeInv, SenderAlive, Registration

\* A step that leaves the router's side of a stream, and the stream, alone.
LEMMA LeftAlone ==
  ASSUME TypeInv, [Next]_vars, NEW k \in Keys, Registered(k),
         UNCHANGED <<routerQ, subs, delivering>>, stream'[k] = stream[k],
         router = "done" => router' = "done",
         \/ call'[k] = call[k]
         \/ call[k] = "queuing" /\ call'[k] = "open"
         \/ call[k] = "queuing" /\ call'[k] = "failed" /\ stream[k] = <<>>
         \/ call[k] = "open" /\ call'[k] = "stalled"
         \/ call[k] = "open" /\ call'[k] = "cut" /\ stream[k] = <<>> /\ ~SenderAlive(k)
  PROVE  Registered(k)'
<1>1. SenderAlive(k)' <=> SenderAlive(k)
  BY DEF SenderAlive, InQueue
<1>2. Ended(k)' <=> Ended(k)
  BY DEF Ended
<1>3. StopSeen => StopSeen'
  BY StopStays
<1>. QED BY <1>1, <1>2, <1>3 DEF Registered

\* The router is told something else.
LEMMA ToldElse ==
  ASSUME TypeInv, ClosingInv, [Next]_vars, NEW k \in Keys, Registered(k),
         NEW c \in RouterCommands, TellsRouter(c), c # Registration(k),
         UNCHANGED <<subs, delivering, router>>,
         \/ call'[k] = call[k] /\ stream'[k] = stream[k] /\ (c.key = k => c.t = "register")
         \/ /\ c.key = k /\ call[k] \notin {"failed", "dropped"} /\ stream'[k] = <<>>
            /\ \/ call'[k] = "failed" /\ c.t = "unregister"
               \/ call'[k] = "dropped" /\ c.t = "streamDropped"
  PROVE  Registered(k)'
<1>1. /\ Len(routerQ) \in Nat /\ Len(routerQ') \in Nat
      /\ \A i \in 1 .. Len(routerQ') :
           \/ i \in 1 .. Len(routerQ) /\ routerQ'[i] = routerQ[i]
           \/ routerQ'[i] = c
      /\ \A i \in 1 .. Len(routerQ) : i \in 1 .. Len(routerQ') /\ routerQ'[i] = routerQ[i]
  <2>1. routerQ \in Seq(RouterCommands)
    BY DEF TypeInv
  <2>2. CASE routerQ' = routerQ
    BY <2>1, <2>2, Queue
  <2>3. CASE routerQ' = Append(routerQ, c)
    <3>1. /\ Len(routerQ) \in Nat /\ Len(routerQ') = Len(routerQ) + 1
          /\ \A i \in 1 .. Len(routerQ) : routerQ'[i] = routerQ[i]
          /\ routerQ'[Len(routerQ) + 1] = c
      BY <2>1, <2>3, Added
    <3>2. \A i \in 1 .. Len(routerQ') : i \in 1 .. Len(routerQ) \/ i = Len(routerQ) + 1
      BY <3>1
    <3>3. \A i \in 1 .. Len(routerQ) : i \in 1 .. Len(routerQ')
      BY <3>1
    <3>. QED BY <3>1, <3>2, <3>3
  <2>. QED BY <2>2, <2>3 DEF TellsRouter
<1>2. SenderAlive(k)' <=> SenderAlive(k)
  <2>1. routerQ' \in Seq(RouterCommands)
    BY TellingTyped
  <2>2. InQueue(Registration(k), routerQ') <=> InQueue(Registration(k), routerQ)
    <3>1. /\ InQueue(Registration(k), routerQ') <=>
               \E i \in 1 .. Len(routerQ') : routerQ'[i] = Registration(k)
          /\ InQueue(Registration(k), routerQ) <=>
               \E i \in 1 .. Len(routerQ) : routerQ[i] = Registration(k)
      BY <2>1, Queue DEF TypeInv
    <3>2. ASSUME NEW i \in 1 .. Len(routerQ'), routerQ'[i] = Registration(k)
          PROVE  i \in 1 .. Len(routerQ) /\ routerQ[i] = Registration(k)
      BY <1>1, <3>2
    <3>3. ASSUME NEW i \in 1 .. Len(routerQ), routerQ[i] = Registration(k)
          PROVE  i \in 1 .. Len(routerQ') /\ routerQ'[i] = Registration(k)
      BY <1>1, <3>3
    <3>. QED BY <3>1, <3>2, <3>3
  <2>. QED BY <2>2 DEF SenderAlive, Registration
<1>3. stream'[k] = stream[k] => (Ended(k)' <=> Ended(k))
  BY DEF Ended
<1>4. stream'[k] = <<>> => ~Ended(k)' /\ \A i \in 1 .. Len(stream'[k]) : FALSE
  BY NoQueue DEF Ended
<1>5. StopSeen => StopSeen'
  BY StopStays
<1>6. \A i \in 1 .. Len(routerQ') : routerQ'[i] = Registration(k) =>
        /\ k \notin subs' /\ delivering'.to # k
        /\ \A j \in 1 .. Len(routerQ') : routerQ'[j] = Registration(k) => j = i
  BY <1>1 DEF Registered
<1>7. \A i \in 1 .. Len(routerQ') : routerQ'[i].key = k =>
        /\ routerQ'[i].t = "unregister" => call'[k] = "failed"
        /\ routerQ'[i].t = "streamDropped" => call'[k] = "dropped"
  <2> SUFFICES ASSUME NEW i \in 1 .. Len(routerQ'), routerQ'[i].key = k
               PROVE  /\ routerQ'[i].t = "unregister" => call'[k] = "failed"
                      /\ routerQ'[i].t = "streamDropped" => call'[k] = "dropped"
    OBVIOUS
  <2>1. CASE i \in 1 .. Len(routerQ) /\ routerQ'[i] = routerQ[i]
    BY <2>1 DEF Registered
  <2>2. CASE routerQ'[i] = c
    BY <2>2
  <2>. QED BY <1>1, <2>1, <2>2
<1>8. CASE call'[k] = call[k] /\ stream'[k] = stream[k]
  BY <1>2, <1>3, <1>5, <1>6, <1>7, <1>8 DEF Registered
<1>9. CASE stream'[k] = <<>> /\ call'[k] \in {"failed", "dropped"}
  BY <1>2, <1>4, <1>6, <1>7, <1>9 DEF Registered
<1>. QED BY <1>8, <1>9

\* The call that makes the stream registers it.
LEMMA SubscribeRegisters ==
  ASSUME TypeInv, ClosingInv, NEW k \in Keys, Untold(k), Registered(k), CallSubscribe(k)
  PROVE  Registered(k)'
<1>1. /\ call[k] = "none" /\ ~SenderAlive(k) /\ stream' = stream /\ stream[k] = <<>>
      /\ UNCHANGED <<subs, delivering, router>> /\ TellsRouter(Registration(k))
      /\ call'[k] = IF router = "done" THEN "failed" ELSE "queuing"
  BY DEF CallSubscribe, Registered, Registration, Untold, routerVars, TypeInv, TypeOK
<1>2. ~Ended(k)' /\ Len(stream'[k]) = 0
  BY <1>1, NoQueue DEF Ended
<1>3. routerQ \in Seq(RouterCommands) /\ Registration(k) \in RouterCommands
      /\ Registration(k).t = "register"
  BY DEF TypeInv, Registration, ForRouter, RouterCommands
<1>4. \A i \in 1 .. Len(routerQ) : routerQ[i] # Registration(k)
  BY <1>1, Senders
<1>5. \A i \in 1 .. Len(routerQ) :
        routerQ[i].key = k => routerQ[i].t \notin {"unregister", "streamDropped"}
  BY <1>1 DEF Registered
<1>6. k \notin subs /\ delivering.to # k
  BY <1>1 DEF SenderAlive
<1>7. CASE router = "done"
  <2>1. routerQ' = <<>> /\ call'[k] = "failed"
    BY <1>1, <1>7 DEF ClosingInv, TellsRouter
  <2>. QED BY <1>1, <1>2, <1>6, <2>1, NoQueue DEF Registered, Sends
<1>8. CASE router # "done"
  <2>1. routerQ' = Append(routerQ, Registration(k)) /\ call'[k] = "queuing"
    BY <1>1, <1>8 DEF TellsRouter
  <2>2. /\ Len(routerQ) \in Nat /\ Len(routerQ') = Len(routerQ) + 1
        /\ \A i \in 1 .. Len(routerQ) : routerQ'[i] = routerQ[i]
        /\ routerQ'[Len(routerQ) + 1] = Registration(k)
        /\ routerQ' \in Seq(RouterCommands)
    BY <1>3, <2>1, Added
  <2>3. \A i \in 1 .. Len(routerQ') : i \in 1 .. Len(routerQ) \/ i = Len(routerQ) + 1
    BY <2>2
  <2>4. Len(routerQ) + 1 \in 1 .. Len(routerQ')
    BY <2>2
  <2>5. SenderAlive(k)'
    <3>1. InQueue(Registration(k), routerQ')
      BY <2>2, <2>4, Queue
    <3>. QED BY <3>1 DEF SenderAlive, Registration
  <2>6. \A i \in 1 .. Len(routerQ') : routerQ'[i] = Registration(k) => i = Len(routerQ) + 1
    BY <1>4, <2>2, <2>3
  <2>7. \A i \in 1 .. Len(routerQ') :
          routerQ'[i].key = k => routerQ'[i].t \notin {"unregister", "streamDropped"}
    BY <1>3, <1>5, <2>2, <2>3
  <2>. QED BY <1>1, <1>2, <1>6, <2>1, <2>5, <2>6, <2>7 DEF Registered, Sends
<1>. QED BY <1>7, <1>8

\* Its last event is the last one read.
LEMMA ReadingEnds ==
  ASSUME TypeInv, [Next]_vars, NEW k \in Keys, Registered(k), ReadUpdate(k)
  PROVE  /\ Registered(k)'
         /\ Ended(k)' => Ended(k) /\ call'[k] = "open"
         /\ Ended(k) => Ended(k)' \/ call'[k] = "over"
         /\ call'[k] = "over" => Ended(k)
         /\ call'[k] \in {"open", "over"} /\ call[k] = "open"
<1>1. /\ stream[k] \in Seq(Notes) /\ stream[k] # <<>> /\ call[k] = "open"
      /\ stream'[k] = Tail(stream[k])
      /\ call'[k] = IF Head(stream[k]) = "last" THEN "over" ELSE "open"
      /\ UNCHANGED <<routerQ, subs, delivering, router>>
  BY DEF ReadUpdate, TypeInv, TypeOK, routerVars
<1>2. /\ Len(stream[k]) \in Nat /\ Len(stream[k]) >= 1 /\ Head(stream[k]) = stream[k][1]
      /\ Len(stream'[k]) = Len(stream[k]) - 1 /\ stream'[k] \in Seq(Notes)
      /\ \A i \in 1 .. Len(stream[k]) - 1 : stream'[k][i] = stream[k][i + 1]
  BY <1>1, HeadTaken
<1>3. SenderAlive(k)' <=> SenderAlive(k)
  BY <1>1 DEF SenderAlive, InQueue
<1>4. StopSeen => StopSeen'
  BY StopStays
<1>5. \A i \in 1 .. Len(stream'[k]) : stream'[k][i] = "last" => i = Len(stream'[k])
  <2>1. ASSUME NEW i \in 1 .. Len(stream'[k]), stream'[k][i] = "last"
        PROVE  i = Len(stream'[k])
    <3>1. i + 1 \in 1 .. Len(stream[k]) /\ stream[k][i + 1] = "last"
      BY <1>2, <2>1
    <3>2. i + 1 = Len(stream[k])
      BY <3>1 DEF Registered
    <3>. QED BY <1>2, <2>1, <3>2
  <2>. QED BY <2>1
<1>6. CASE Head(stream[k]) = "last"
  <2>1. Len(stream[k]) = 1
    <3>1. 1 \in 1 .. Len(stream[k]) /\ stream[k][1] = "last"
      BY <1>2, <1>6
    <3>. QED BY <3>1 DEF Registered
  <2>2. stream'[k] = <<>> /\ Ended(k)
    BY <1>1, <1>2, <1>6, <2>1, Queue DEF Ended
  <2>3. ~SenderAlive(k) /\ ~Ended(k)' /\ call'[k] = "over"
    BY <1>1, <1>6, <2>2 DEF Registered, Ended
  <2>. QED BY <1>1, <1>3, <1>5, <2>2, <2>3 DEF Registered
<1>7. CASE Head(stream[k]) # "last"
  <2>1. Ended(k)' <=> Ended(k)
    <3>1. CASE Len(stream[k]) = 1
      <4>1. stream'[k] = <<>>
        BY <1>2, <3>1, Queue
      <4>. QED BY <1>2, <1>7, <3>1, <4>1 DEF Ended
    <3>2. CASE Len(stream[k]) # 1
      <4>1. /\ Len(stream'[k]) \in 1 .. Len(stream[k]) - 1
            /\ Len(stream'[k]) + 1 = Len(stream[k])
        <5>. DEFINE m == Len(stream[k])
                    n == Len(stream'[k])
        <5>1. m \in Nat /\ m >= 1 /\ n = m - 1 /\ m # 1
          BY <1>2, <3>2
        <5>. HIDE DEF m, n
        <5>2. n \in 1 .. m - 1 /\ n + 1 = m
          BY <5>1
        <5>. QED BY <5>2 DEF m, n
      <4>2. stream'[k][Len(stream'[k])] = stream[k][Len(stream[k])]
        BY <1>2, <4>1
      <4>3. stream'[k] # <<>>
        BY <1>2, <4>1, NoQueue
      <4>. QED BY <1>1, <4>2, <4>3 DEF Ended
    <3>. QED BY <3>1, <3>2
  <2>. QED BY <1>1, <1>3, <1>4, <1>5, <1>7, <2>1 DEF Registered
<1>. QED BY <1>6, <1>7

\* Once the router has ended it holds no stream.
LEMMA EndsRegistered ==
  ASSUME NEW k \in Keys, Registered(k), RouterEnds, call'[k] = call[k], stream'[k] = stream[k]
  PROVE  Registered(k)'
<1>1. k # NoKey
  BY KeysAssumption
<1>2. /\ routerQ' = <<>> /\ subs' = {} /\ router' = "done" /\ delivering' = NoDelivery
  BY DEF RouterEnds
<1>3. ~SenderAlive(k)' /\ delivering' # Sends(k, "event")
  BY <1>1, <1>2, NoQueue DEF SenderAlive, NoDelivery, Sends
<1>. QED BY <1>2, <1>3, NoQueue DEF Registered

LEMMA CallerRegistered ==
  ASSUME TypeInv, ClosingInv, CallerNext, NEW k \in Keys, Registered(k), NotYet(k) => Untold(k)
  PROVE  Registered(k)'
<1>. call \in [Keys -> {"none", "queuing", "open", "stalled", "over", "cut", "dropped", "failed"}]
     /\ stream \in [Keys -> Seq(Notes)]
  BY DEF TypeInv, TypeOK
<1>0. [Next]_vars
  BY DEF Next
<1>2. CASE ConnectDrains \/ ConnectReturns \/ ConnectCancelled \/ CallSend \/ DropClient
           \/ ReadSessionEvent \/ StopListening \/ DropSessionEvents
  <2>1. UNCHANGED <<call, stream, routerQ, router, subs, delivering>>
    BY <1>2
    DEF ConnectDrains, ConnectReturns, ConnectCancelled, GivesUpClient, CallSend, DropClient,
        ReadSessionEvent, StopListening, DropSessionEvents, queueVars, callerVars, routerVars
  <2>. QED BY <1>0, <2>1, LeftAlone
<1>3. CASE Disconnect \/ DestroyQueued \/ DestroyNotQueued \/ JoinTimesOut \/ DisconnectReturns
  <2>1. UNCHANGED <<call, stream, routerQ, router, subs, delivering>>
    BY <1>3
    DEF Disconnect, DestroyQueued, DestroyNotQueued, JoinTimesOut, DisconnectReturns, Moves,
        routerVars
  <2>. QED BY <1>0, <2>1, LeftAlone
<1>4. CASE Abort
  <2>1. RouterEnds /\ UNCHANGED <<call, stream>>
    BY <1>4 DEF Abort
  <2>. QED BY <2>1, EndsRegistered
<1>5. ASSUME NEW j \in Keys, CallSubscribe(j) PROVE Registered(k)'
  <2>1. CASE j = k
    BY <1>5, <2>1, SubscribeRegisters DEF CallSubscribe, NotYet
  <2>2. CASE j # k
    <3>1. /\ Registration(j) \in RouterCommands /\ Registration(j) # Registration(k)
          /\ Registration(j).key = j
      BY <2>2 DEF Registration, ForRouter, RouterCommands
    <3>2. /\ TellsRouter(Registration(j)) /\ UNCHANGED <<subs, delivering, router>>
          /\ call'[k] = call[k] /\ stream'[k] = stream[k]
      BY <1>5, <2>2 DEF CallSubscribe, Registration, routerVars
    <3>. QED BY <1>0, <2>2, <3>1, <3>2, ToldElse
  <2>. QED BY <2>1, <2>2
<1>6. ASSUME NEW j \in Keys, SubscribeQueued(j) \/ SubscribeCancelled(j) PROVE Registered(k)'
  <2>1. UNCHANGED <<stream, routerQ, router, subs, delivering>>
    BY <1>6 DEF SubscribeQueued, SubscribeCancelled, queueVars, routerVars
  <2>2. \/ call'[k] = call[k]
        \/ call[k] = "queuing" /\ call'[k] \in {"open", "failed"}
    BY <1>6 DEF SubscribeQueued, SubscribeCancelled
  <2>3. call[k] = "queuing" => stream[k] = <<>>
    BY DEF NotYet, Untold
  <2>. QED BY <1>0, <2>1, <2>2, <2>3, LeftAlone
<1>7. ASSUME NEW j \in Keys, SubscribeFails(j) PROVE Registered(k)'
  <2>. DEFINE c == ForRouter("unregister", j)
  <2>1. /\ c \in RouterCommands /\ c.key = j /\ c.t = "unregister" /\ c # Registration(k)
    BY DEF Registration, ForRouter, RouterCommands
  <2>2. /\ TellsRouter(c) /\ UNCHANGED <<subs, delivering, router, stream>>
        /\ call[j] = "queuing" /\ call' = [call EXCEPT ![j] = "failed"]
    BY <1>7 DEF SubscribeFails, routerVars
  <2>. HIDE DEF c
  <2>3. CASE j = k
    <3>1. stream[k] = <<>>
      BY <2>2, <2>3 DEF NotYet, Untold
    <3>. QED BY <1>0, <2>1, <2>2, <2>3, <3>1, ToldElse
  <2>4. CASE j # k
    BY <1>0, <2>1, <2>2, <2>4, ToldElse
  <2>. QED BY <2>3, <2>4
<1>8. ASSUME NEW j \in Keys, CallUnsubscribe(j) \/ StopReading(j) PROVE Registered(k)'
  <2>1. UNCHANGED <<stream, routerQ, router, subs, delivering>>
    BY <1>8 DEF CallUnsubscribe, StopReading, queueVars, routerVars
  <2>2. \/ call'[k] = call[k]
        \/ call[k] = "open" /\ call'[k] = "stalled"
    BY <1>8 DEF CallUnsubscribe, StopReading
  <2>. QED BY <1>0, <2>1, <2>2, LeftAlone
<1>9. ASSUME NEW j \in Keys, ReadUpdate(j) PROVE Registered(k)'
  <2>1. CASE j = k
    BY <1>0, <1>9, <2>1, ReadingEnds
  <2>2. CASE j # k
    <3>1. /\ UNCHANGED <<routerQ, router, subs, delivering>>
          /\ call'[k] = call[k] /\ stream'[k] = stream[k]
      BY <1>9, <2>2 DEF ReadUpdate, routerVars
    <3>. QED BY <1>0, <3>1, LeftAlone
  <2>. QED BY <2>1, <2>2
<1>10. ASSUME NEW j \in Keys, ReadEnd(j) PROVE Registered(k)'
  <2>1. UNCHANGED <<stream, routerQ, router, subs, delivering>>
    BY <1>10 DEF ReadEnd, queueVars, routerVars
  <2>2. \/ call'[k] = call[k]
        \/ call[k] = "open" /\ call'[k] = "cut" /\ stream[k] = <<>> /\ ~SenderAlive(k)
    BY <1>10 DEF ReadEnd
  <2>. QED BY <1>0, <2>1, <2>2, LeftAlone
<1>11. ASSUME NEW j \in Keys, DropUpdates(j) PROVE Registered(k)'
  <2>. DEFINE c == ForRouter("streamDropped", j)
  <2>1. /\ c \in RouterCommands /\ c.key = j /\ c.t = "streamDropped" /\ c # Registration(k)
    BY DEF Registration, ForRouter, RouterCommands
  <2>2. /\ TellsRouter(c) /\ UNCHANGED <<subs, delivering, router>> /\ HasStream(j)
        /\ stream' = [stream EXCEPT ![j] = <<>>]
        /\ call' = [call EXCEPT ![j] = "dropped"]
    BY <1>11 DEF DropUpdates, routerVars
  <2>. HIDE DEF c
  <2>3. CASE j = k
    <3>1. call[k] \notin {"failed", "dropped"} /\ call'[k] = "dropped" /\ stream'[k] = <<>>
      BY <2>2, <2>3 DEF HasStream, Streaming
    <3>. QED BY <1>0, <2>1, <2>2, <2>3, <3>1, ToldElse
  <2>4. CASE j # k
    BY <1>0, <2>1, <2>2, <2>4, ToldElse
  <2>. QED BY <2>3, <2>4
<1>. QED
  BY <1>2, <1>3, <1>4, <1>5, <1>6, <1>7, <1>8, <1>9, <1>10, <1>11 DEF CallerNext

LEMMA TakesCommandRegistered ==
  ASSUME TypeInv, ClosingInv, TakesCommand, NEW k \in Keys, Registered(k)
  PROVE  /\ Registered(k)'
         /\ (SenderAlive(k)' <=> SenderAlive(k)) \/ call[k] \in {"failed", "dropped"}
<1>. DEFINE c == Head(routerQ)
<1>0. k # NoKey
  BY KeysAssumption
<1>1. /\ routerQ \in Seq(RouterCommands) /\ routerQ # <<>> /\ routerQ' = Tail(routerQ)
      /\ subs' = IF c.t = "register" THEN subs \cup {c.key} ELSE subs \ {c.key}
      /\ UNCHANGED <<call, stream, router, delivering, stop, client, third>>
      /\ delivering = NoDelivery /\ router = "running"
  BY DEF TakesCommand, AtSelect, TypeInv, callerVars, thirdVars
<1>2. /\ Len(routerQ) \in Nat /\ Len(routerQ) >= 1 /\ c = routerQ[1] /\ c \in RouterCommands
      /\ Len(routerQ') = Len(routerQ) - 1 /\ routerQ' \in Seq(RouterCommands)
      /\ \A i \in 1 .. Len(routerQ) - 1 : routerQ'[i] = routerQ[i + 1]
  BY <1>1, HeadTaken
<1>3. \A i \in 1 .. Len(routerQ') :
        i + 1 \in 1 .. Len(routerQ) /\ i + 1 # 1 /\ routerQ'[i] = routerQ[i + 1]
  BY <1>2
<1>4. 1 \in 1 .. Len(routerQ)
  BY <1>2
<1>5. (Ended(k)' <=> Ended(k)) /\ (StopSeen' <=> StopSeen)
  BY <1>1 DEF Ended, StopSeen, HandleAlive
<1>6. /\ delivering.to # k /\ delivering'.to # k /\ delivering' # Sends(k, "event")
  BY <1>0, <1>1 DEF NoDelivery, Sends
<1>7. \A i \in 1 .. Len(routerQ') : routerQ'[i].key = k =>
        /\ routerQ'[i].t = "unregister" => call'[k] = "failed"
        /\ routerQ'[i].t = "streamDropped" => call'[k] = "dropped"
  BY <1>1, <1>3 DEF Registered
<1>8. CASE c = Registration(k)
  <2>1. \A i \in 1 .. Len(routerQ') : routerQ'[i] # Registration(k)
    BY <1>2, <1>3, <1>4, <1>8 DEF Registered
  <2>2. k \in subs' /\ SenderAlive(k) /\ SenderAlive(k)'
    <3>1. InQueue(Registration(k), routerQ)
      BY <1>1, <1>2, <1>4, <1>8, Queue
    <3>2. k \in subs'
      BY <1>1, <1>8 DEF Registration, ForRouter
    <3>. QED BY <3>1, <3>2 DEF SenderAlive, Registration
  <2>. QED BY <1>1, <1>5, <1>6, <1>7, <2>1, <2>2 DEF Registered
<1>9. CASE c # Registration(k)
  <2>1. ASSUME NEW i \in 1 .. Len(routerQ'), routerQ'[i] = Registration(k)
        PROVE  /\ k \notin subs
               /\ \A j \in 1 .. Len(routerQ') : routerQ'[j] = Registration(k) => j = i
    <3>1. i + 1 \in 1 .. Len(routerQ) /\ routerQ[i + 1] = Registration(k)
      BY <1>3, <2>1
    <3>2. \A j \in 1 .. Len(routerQ) : routerQ[j] = Registration(k) => j = i + 1
      BY <3>1 DEF Registered
    <3>3. ASSUME NEW j \in 1 .. Len(routerQ'), routerQ'[j] = Registration(k)
          PROVE  j = i
      <4>1. j + 1 = i + 1
        BY <1>3, <3>2, <3>3
      <4>. QED BY <1>2, <4>1
    <3>. QED BY <3>1, <3>3 DEF Registered
  <2>2. InQueue(Registration(k), routerQ) <=> InQueue(Registration(k), routerQ')
    <3>1. ASSUME NEW i \in 1 .. Len(routerQ), routerQ[i] = Registration(k)
          PROVE  i - 1 \in 1 .. Len(routerQ') /\ routerQ'[i - 1] = Registration(k)
      <4>1. i # 1
        BY <1>2, <1>9, <3>1
      <4>2. i - 1 \in 1 .. Len(routerQ')
        BY <1>2, <4>1
      <4>3. routerQ'[i - 1] = routerQ[(i - 1) + 1] /\ (i - 1) + 1 = i
        BY <1>2, <1>3, <4>2
      <4>. QED BY <3>1, <4>2, <4>3
    <3>2. ASSUME NEW i \in 1 .. Len(routerQ'), routerQ'[i] = Registration(k)
          PROVE  i + 1 \in 1 .. Len(routerQ) /\ routerQ[i + 1] = Registration(k)
      BY <1>3, <3>2
    <3>3. /\ InQueue(Registration(k), routerQ') <=>
               \E i \in 1 .. Len(routerQ') : routerQ'[i] = Registration(k)
          /\ InQueue(Registration(k), routerQ) <=>
               \E i \in 1 .. Len(routerQ) : routerQ[i] = Registration(k)
      <4>1. routerQ \in Seq(RouterCommands) /\ routerQ' \in Seq(RouterCommands)
        BY <1>1, <1>2
      <4>. QED BY <4>1, Queue
    <3>. QED BY <3>1, <3>2, <3>3
  <2>3. c.t = "register" => c.key # k
    BY <1>2, <1>9 DEF Registration, ForRouter, RouterCommands
  <2>4. CASE c.key = k
    <3>1. /\ c.t \in {"unregister", "streamDropped"} /\ call[k] \in {"failed", "dropped"}
      BY <1>2, <1>4, <2>3, <2>4 DEF Registered, RouterCommands
    <3>2. k \notin subs' /\ stream[k] = <<>> /\ ~Ended(k)
      BY <1>1, <2>3, <2>4, <3>1 DEF Registered, Ended
    <3>. QED BY <1>1, <1>5, <1>6, <1>7, <2>1, <3>1, <3>2 DEF Registered
  <2>5. CASE c.key # k
    <3>1. k \in subs' <=> k \in subs
      BY <1>1, <2>5
    <3>2. SenderAlive(k)' <=> SenderAlive(k)
      BY <1>1, <2>2, <3>1 DEF SenderAlive, Registration
    <3>. QED BY <1>1, <1>5, <1>6, <1>7, <2>1, <3>1, <3>2 DEF Registered
  <2>. QED BY <2>4, <2>5
<1>. QED BY <1>8, <1>9

LEMMA TakesEventRegistered ==
  ASSUME TypeInv, ClosingInv, TakesEvent, NEW k \in Keys, Registered(k)
  PROVE  /\ Registered(k)'
         /\ RouterEnds \/ (SenderAlive(k)' <=> SenderAlive(k))
<1>. DEFINE e == Head(events)
<1>1. /\ UNCHANGED <<call, stream, stop, client, third>> /\ router # "done"
      /\ delivering = NoDelivery /\ e \in PortEvents
  BY HeadTaken
  DEF TakesEvent, AtEvents, PassesCommands, AtSelect, ClosingInv, TypeInv, callerVars, thirdVars
<1>2. CASE RouterEnds
  BY <1>1, <1>2, EndsRegistered
<1>3. CASE /\ delivering' = Delivery(e)
           /\ subs' = subs \ DeregisteredBy(e)
           /\ router' = "running"
           /\ routerQ' = routerQ
  <2>1. /\ \A j \in Keys : Delivery(e).to = j => AboutKey(e, j) /\ j \in subs
        /\ \A j \in Keys : j \in DeregisteredBy(e) /\ j \in subs => Delivery(e) = Sends(j, "last")
    BY <1>1, DeliveryOf
  <2>2. delivering'.to = k => k \in subs
    BY <1>3, <2>1
  <2>3. k \in subs /\ k \notin subs' => delivering'.to = k /\ delivering'.what = "last"
    BY <1>3, <2>1 DEF Sends
  <2>4. delivering.to # k
    BY <1>1, KeysAssumption DEF NoDelivery
  <2>5. delivering' = Sends(k, "event") => k \in subs'
    BY <2>2, <2>3 DEF Sends
  <2>6. SenderAlive(k)' <=> SenderAlive(k)
    BY <1>3, <2>2, <2>3, <2>4 DEF SenderAlive, InQueue
  <2>7. (Ended(k)' <=> Ended(k)) /\ (StopSeen' <=> StopSeen)
    BY <1>1 DEF Ended, StopSeen, HandleAlive
  <2>8. \A i \in 1 .. Len(routerQ) : routerQ[i] = Registration(k) =>
          k \notin subs' /\ delivering'.to # k
    BY <1>3, <2>2 DEF Registered
  <2>. QED BY <1>1, <1>3, <2>5, <2>6, <2>7, <2>8 DEF Registered
<1>. QED BY <1>2, <1>3 DEF TakesEvent

\* A stream takes an event, or not, and its last one takes it off the router.
LEMMA DeliversTo ==
  ASSUME TypeInv, ClosingInv, Delivers, delivering # Sends(Session, "last"),
         NEW k \in Keys, Registered(k), NotYet(k) => Untold(k)
  PROVE  /\ UNCHANGED <<router, routerQ, stop, client, third, call>> /\ delivering'.to # k
         /\ delivering' # Sends(k, "event")
         /\ delivering.to # k =>
              /\ stream'[k] = stream[k] /\ (k \in subs' <=> k \in subs)
              /\ SenderAlive(k)' <=> SenderAlive(k)
         /\ delivering.to = k =>
              /\ SenderAlive(k) /\ ~Ended(k) /\ call[k] \notin {"none", "queuing", "over", "cut"}
              /\ SenderAlive(k)' <=> delivering.what = "event"
              /\ k \in subs' <=> delivering.what = "event"
              /\ \A i \in 1 .. Len(routerQ) : routerQ[i] # Registration(k)
<1>. DEFINE d == delivering
<1>0. k # Session
  BY KeysAssumption DEF Session
<1>1. /\ UNCHANGED <<call, stop, client, third>>
      /\ d # NoDelivery /\ d = Sends(d.to, d.what) /\ d.what \in Notes
  BY DeliveryTyped DEF Delivers, callerVars, thirdVars
<1>2. /\ delivering' = NoDelivery
      /\ subs' = IF d.what = "last" THEN subs \ {d.to} ELSE subs
      /\ UNCHANGED <<router, routerQ>>
  BY <1>1 DEF Delivers, AfterDelivery
<1>3. delivering'.to # k /\ delivering' # Sends(k, "event")
  BY <1>0, <1>2 DEF NoDelivery, Sends, Session
<1>4. ASSUME d.to # k
      PROVE  /\ stream'[k] = stream[k] /\ (k \in subs' <=> k \in subs)
             /\ SenderAlive(k)' <=> SenderAlive(k)
  <2>1. stream'[k] = stream[k]
    BY <1>4 DEF Delivers, Arrives, DoesNotArrive
  <2>2. k \in subs' <=> k \in subs
    BY <1>2, <1>4
  <2>. QED BY <1>2, <1>3, <1>4, <2>1, <2>2 DEF SenderAlive, InQueue
<1>5. ASSUME d.to = k
      PROVE  /\ SenderAlive(k) /\ ~Ended(k) /\ call[k] \notin {"none", "queuing", "over", "cut"}
             /\ SenderAlive(k)' <=> d.what = "event"
             /\ k \in subs' <=> d.what = "event"
             /\ \A i \in 1 .. Len(routerQ) : routerQ[i] # Registration(k)
  <2>1. SenderAlive(k) /\ ~Ended(k) /\ call[k] \notin {"none", "queuing", "over", "cut"}
    BY <1>5 DEF SenderAlive, Registered, NotYet, Untold
  <2>2. \A i \in 1 .. Len(routerQ) : routerQ[i] # Registration(k)
    BY <1>5 DEF Registered
  <2>3. ~InQueue(Registration(k), routerQ')
    BY <1>2, <2>2, Queue DEF TypeInv
  <2>4. SenderAlive(k)' <=> k \in subs'
    BY <1>3, <2>3 DEF SenderAlive, Registration
  <2>5. k \in subs' <=> d.what = "event"
    <3>1. d.what = "event" => k \in subs
      BY <1>1, <1>5 DEF Registered
    <3>. QED BY <1>1, <1>2, <1>5, <3>1 DEF Notes
  <2>. QED BY <2>1, <2>2, <2>4, <2>5
<1>. QED BY <1>1, <1>2, <1>3, <1>4, <1>5

\* What arrives in a stream that has not ended is its last event, or not.
LEMMA ArrivesIn ==
  ASSUME TypeInv, Arrives, NEW k \in Keys, Registered(k), ~Ended(k),
         delivering.to = k, delivering.what \in Notes
  PROVE  /\ stream'[k] = Append(stream[k], delivering.what)
         /\ call[k] \notin {"failed", "dropped"}
         /\ Ended(k)' <=> delivering.what = "last"
         /\ \A i \in 1 .. Len(stream'[k]) : stream'[k][i] = "last" => i = Len(stream'[k])
<1>. DEFINE what == delivering.what
<1>0. k # Session
  BY KeysAssumption DEF Session
<1>1. stream'[k] = Append(stream[k], what) /\ call[k] \notin {"failed", "dropped"}
  BY <1>0 DEF Arrives, ReceiverHeld
<1>2. stream[k] \in Seq(Notes)
  BY DEF TypeInv
<1>3. /\ Len(stream[k]) \in Nat /\ Len(stream'[k]) = Len(stream[k]) + 1
      /\ stream'[k] # <<>> /\ stream'[k][Len(stream[k]) + 1] = what
      /\ \A i \in 1 .. Len(stream[k]) : stream'[k][i] = stream[k][i]
  BY <1>1, <1>2, Added
<1>4. \A i \in 1 .. Len(stream[k]) : stream[k][i] # "last"
  <2>1. ASSUME NEW i \in 1 .. Len(stream[k]), stream[k][i] = "last" PROVE FALSE
    <3>1. i = Len(stream[k]) /\ stream[k] # <<>>
      BY <2>1, NoQueue DEF Registered
    <3>. QED BY <2>1, <3>1 DEF Ended
  <2>. QED BY <2>1
<1>5. \A i \in 1 .. Len(stream'[k]) : i \in 1 .. Len(stream[k]) \/ i = Len(stream'[k])
  BY <1>3
<1>6. \A i \in 1 .. Len(stream'[k]) : stream'[k][i] = "last" => i = Len(stream'[k])
  BY <1>3, <1>4, <1>5
<1>7. Ended(k)' <=> what = "last"
  BY <1>3 DEF Ended
<1>. QED BY <1>1, <1>6, <1>7

LEMMA DeliversRegistered ==
  ASSUME TypeInv, ClosingInv, Delivers, NEW k \in Keys, Registered(k), NotYet(k) => Untold(k)
  PROVE  Registered(k)'
<1>. DEFINE d == delivering
<1>1. d.to \in Keys \cup {Session} /\ d.what \in Notes /\ k # Session /\ router # "done"
  BY DeliveryTyped, KeysAssumption DEF Delivers, ClosingInv, Session
<1>2. CASE d = Sends(Session, "last")
  <2>1. RouterEnds /\ d.to # k /\ call' = call
    BY <1>1, <1>2 DEF Delivers, AfterDelivery, Sends, callerVars
  <2>2. stream'[k] = stream[k]
    BY <2>1 DEF Delivers, Arrives, DoesNotArrive
  <2>. QED BY <2>1, <2>2, EndsRegistered
<1>3. CASE d # Sends(Session, "last")
  <2>1. /\ UNCHANGED <<router, routerQ, stop, client, third, call>> /\ delivering'.to # k
        /\ delivering' # Sends(k, "event")
    BY <1>3, DeliversTo
  <2>2. StopSeen' <=> StopSeen
    BY <2>1 DEF StopSeen, HandleAlive
  <2>3. CASE d.to # k
    <3>1. /\ stream'[k] = stream[k] /\ (k \in subs' <=> k \in subs)
          /\ SenderAlive(k)' <=> SenderAlive(k)
      BY <1>3, <2>3, DeliversTo
    <3>2. Ended(k)' <=> Ended(k)
      BY <3>1 DEF Ended
    <3>. QED BY <2>1, <2>2, <2>3, <3>1, <3>2 DEF Registered
  <2>4. CASE d.to = k
    <3>1. /\ SenderAlive(k) /\ ~Ended(k) /\ call[k] \notin {"none", "queuing", "over", "cut"}
          /\ SenderAlive(k)' <=> d.what = "event"
          /\ \A i \in 1 .. Len(routerQ) : routerQ[i] # Registration(k)
      BY <1>3, <2>4, DeliversTo
    <3>2. CASE Arrives
      <4>1. /\ call[k] \notin {"failed", "dropped"} /\ (Ended(k)' <=> d.what = "last")
            /\ \A i \in 1 .. Len(stream'[k]) : stream'[k][i] = "last" => i = Len(stream'[k])
        BY <1>1, <2>4, <3>1, <3>2, ArrivesIn
      <4>. QED BY <1>1, <2>1, <2>2, <3>1, <4>1 DEF Registered, Notes
    <3>3. CASE DoesNotArrive
      <4>1. stream'[k] = stream[k] /\ ~Ended(k)'
        BY <3>1, <3>3 DEF DoesNotArrive, Ended
      <4>2. call[k] \in {"failed", "dropped"} \/ StopSeen
        BY <1>1, <2>4, <3>3 DEF DoesNotArrive, ReceiverHeld
      <4>. QED BY <2>1, <2>2, <3>1, <4>1, <4>2 DEF Registered
    <3>. QED BY <3>2, <3>3 DEF Delivers
  <2>. QED BY <2>3, <2>4
<1>. QED BY <1>2, <1>3

LEMMA RouterRegistered ==
  ASSUME TypeInv, ClosingInv, RouterNext, NEW k \in Keys, Registered(k), NotYet(k) => Untold(k)
  PROVE  Registered(k)'
<1>1. CASE RouterLooks \/ RouterSleeps
  <2>1. UNCHANGED <<call, stream, routerQ, subs, delivering>> /\ router # "done"
    BY <1>1
    DEF RouterLooks, RouterSleeps, AtEvents, PassesCommands, AtSelect, callerVars, queueVars
  <2>2. [Next]_vars
    BY DEF Next
  <2>. QED BY <2>1, <2>2, LeftAlone
<1>2. CASE RouterStops
  <2>1. RouterEnds /\ UNCHANGED <<call, stream>>
    BY <1>2 DEF RouterStops, callerVars
  <2>. QED BY <2>1, EndsRegistered
<1>. QED
  BY <1>1, <1>2, TakesCommandRegistered, TakesEventRegistered, DeliversRegistered DEF RouterNext

LEMMA StreamsKept == TypeInv /\ ClosingInv /\ StreamsInv /\ [Next]_vars => StreamsInv'
<1> SUFFICES ASSUME TypeInv, ClosingInv, StreamsInv, [Next]_vars, NEW k \in Keys
             PROVE  /\ NotYet(k)' => Untold(k)'
                    /\ Registered(k)'
  BY DEF StreamsInv, NotYet
<1>1. NotYet(k)' => Untold(k)'
  BY UntoldKept
<1>2. Registered(k) /\ (NotYet(k) => Untold(k))
  BY DEF StreamsInv, NotYet
<1>3. CASE IssuerNext \/ DriverNext \/ UNCHANGED vars
  <2>1. UNCHANGED <<call, stream, routerQ, router, subs, delivering>>
    BY <1>3
    DEF IssuerNext, IssuerTakes, IssuerQueues, DriverNext, DriverServes, DriverHears,
        DriverStops, DriverEmits, DriverReturns, callerVars, routerVars, queueVars, vars
  <2>. QED BY <1>1, <1>2, <2>1, LeftAlone
<1>. QED BY <1>1, <1>2, <1>3, CallerRegistered, RouterRegistered DEF Next

LEMMA StreamsStart == Init => StreamsInv
<1> SUFFICES ASSUME Init, NEW k \in Keys PROVE Untold(k) /\ Registered(k)
  BY DEF StreamsInv
<1>1. k # NoKey
  BY KeysAssumption
<1>2. ~SenderAlive(k) /\ ~Ended(k)
  BY <1>1, NoQueue DEF Init, SenderAlive, Ended, NoDelivery
<1>3. Untold(k)
  BY <1>1, NoQueue DEF Init, Driver!Init, Untold, NoDelivery
<1>4. Registered(k)
  BY <1>1, <1>2, NoQueue DEF Init, Registered, NoDelivery, Sends
<1>. QED BY <1>3, <1>4

LEMMA Invariance == Spec => []ClientInv
<1>1. Init => ClientInv
  BY TypesStart, ClosingStart, StreamsStart DEF ClientInv
<1>2. ClientInv /\ [Next]_vars => ClientInv'
  BY TypesKept, ClosingKept, StreamsKept DEF ClientInv
<1>. QED BY <1>1, <1>2, PTL DEF Spec

-----------------------------------------------------------------------------
(* What is promised *)

\* The state of the client is well typed and every channel within its capacity.
THEOREM ClientWellTyped == Spec => []TypeOK
<1>1. ClientInv => TypeOK
  BY DEF ClientInv, TypeInv
<1>. QED BY <1>1, Invariance, PTL

\* A session that ends by itself, or by a destroy, says so on its own stream before the
\* stream ends (router, on_session_event).
THEOREM EndIsReported == Spec => []ClosedIsReported
<1>1. ClientInv => ClosedIsReported
  BY DEF ClientInv, ClosingInv
<1>. QED BY <1>1, Invariance, PTL

-----------------------------------------------------------------------------
(* The client implements SubscriptionStream *)

Flowing == router # "done" /\ ~StopSeen
Sinks == [k \in Keys |-> Sink(k)]

\* No key has an ended stream before its call or after it is let go.
LEMMA SinkCases ==
  ASSUME StreamsInv, NEW k \in Keys
  PROVE  /\ call[k] = "none" => Sink(k) = "none"
         /\ call[k] \in {"failed", "dropped"} => Sink(k) = "gone"
         /\ call[k] = "over" \/ Ended(k) => Sink(k) = "ended"
         /\ call[k] \in {"queuing", "open", "stalled", "cut"} /\ ~Ended(k) =>
              Sink(k) = IF SenderAlive(k) THEN "open" ELSE "cut"
<1>1. Ended(k) => call[k] \notin {"none", "queuing", "over", "cut", "failed", "dropped"}
  BY DEF StreamsInv, Untold, Registered, Ended
<1>2. CASE call[k] = "none" \/ call[k] \in {"failed", "dropped"}
  BY <1>1, <1>2 DEF Sink
<1>3. CASE call[k] = "over" \/ Ended(k)
  BY <1>1, <1>3 DEF Sink
<1>4. CASE call[k] \in {"queuing", "open", "stalled", "cut"} /\ ~Ended(k)
  BY <1>4 DEF Sink
<1>. QED BY <1>1, <1>2, <1>3, <1>4

LEMMA SinkSame ==
  ASSUME NEW k, call'[k] = call[k], stream'[k] = stream[k], SenderAlive(k)' <=> SenderAlive(k)
  PROVE  Sink(k)' = Sink(k)
<1>1. Ended(k)' <=> Ended(k)
  BY DEF Ended
<1>. QED BY <1>1 DEF Sink

\* A client that is ending never flows again.
LEMMA FlowEnds ==
  ASSUME TypeInv, ClosingInv, [Next]_vars, Flowing'
  PROVE  Flowing
<1>1. ASSUME router = "done" PROVE router' = "done"
  <2>1. CASE CallerNext
    <3>1. CASE Abort
      BY <3>1 DEF Abort, RouterEnds
    <3>2. CASE ~Abort
      BY <1>1, <2>1, <3>2, CallerAndSession DEF routerVars
    <3>. QED BY <3>1, <3>2
  <2>2. ~RouterNext
    BY <1>1
    DEF RouterNext, TakesCommand, RouterLooks, RouterSleeps, RouterStops, TakesEvent, Delivers,
        AtEvents, PassesCommands, AtSelect, ClosingInv
  <2>3. CASE IssuerNext \/ DriverNext \/ UNCHANGED vars
    BY <1>1, <2>3
    DEF IssuerNext, IssuerTakes, IssuerQueues, DriverNext, DriverServes, DriverHears,
        DriverStops, DriverEmits, DriverReturns, routerVars, vars
  <2>. QED BY <2>1, <2>2, <2>3 DEF Next
<1>. QED BY <1>1, StopStays DEF Flowing

\* The client ends, and cuts some of the open streams.
LEMMA ClientEnds ==
  ASSUME ~Flowing', stream' = stream,
         \A k \in Keys : Sink(k)' = Sink(k) \/ (Sink(k) = "open" /\ Sink(k)' = "cut")
  PROVE  Stream!Next
<1>. DEFINE cut == {k \in Keys : Sink(k) = "open" /\ Sink(k)' = "cut"}
<1>1. cut \in SUBSET {k \in Keys : Sinks[k] = "open"}
  BY DEF Sinks
<1>2. Sinks' = [k \in Keys |-> IF k \in cut THEN "cut" ELSE Sinks[k]]
  BY DEF Sinks
<1>3. Stream!Ends
  BY <1>1, <1>2 DEF Stream!Ends, Flowing, Sinks
<1>. QED BY <1>3 DEF Stream!Next

\* Nothing happens to the streams, unless the client ends.
LEMMA NothingHappens ==
  ASSUME TypeInv, ClosingInv, [Next]_vars, stream' = stream,
         \A k \in Keys : Sink(k)' = Sink(k)
  PROVE  [Stream!Next]_(Stream!vars)
<1>1. Sinks' = Sinks
  BY DEF Sinks
<1>2. CASE Flowing' <=> Flowing
  <2>1. Flowing' = Flowing
    BY <1>2 DEF Flowing
  <2>. QED BY <1>1, <2>1 DEF Stream!vars, Flowing, Sinks
<1>3. CASE ~Flowing'
  BY <1>3, ClientEnds
<1>. QED BY <1>2, <1>3, FlowEnds

\* The router ends, and with it every stream that has not.
LEMMA RouterEndsStreams ==
  ASSUME StreamsInv, StreamsInv', RouterEnds, stream' = stream, call' = call
  PROVE  Stream!Next
<1>1. ~Flowing'
  BY DEF Flowing, RouterEnds
<1>2. ASSUME NEW k \in Keys
      PROVE  Sink(k)' = Sink(k) \/ (Sink(k) = "open" /\ Sink(k)' = "cut")
  <2>1. Ended(k)' <=> Ended(k)
    BY DEF Ended
  <2>2. ~SenderAlive(k)'
    <3>1. k # NoKey
      BY KeysAssumption
    <3>. QED BY <3>1, NoQueue DEF RouterEnds, SenderAlive, NoDelivery
  <2>3. CASE call[k] \in {"queuing", "open", "stalled", "cut"} /\ ~Ended(k)
    <3>1. Sink(k) = IF SenderAlive(k) THEN "open" ELSE "cut"
      BY <2>3, SinkCases
    <3>2. Sink(k)' = "cut"
      BY <2>1, <2>2, <2>3 DEF Sink
    <3>. QED BY <3>1, <3>2
  <2>4. CASE ~(call[k] \in {"queuing", "open", "stalled", "cut"} /\ ~Ended(k))
    BY <2>1, <2>4 DEF Sink
  <2>. QED BY <2>3, <2>4
<1>. QED BY <1>1, <1>2, ClientEnds

\* A call or a read of one stream, as a step of its queue.
LEMMA OneStream ==
  ASSUME NEW j \in Keys, NEW sink, Sink(j)' = sink,
         \A k \in Keys \ {j} : Sink(k)' = Sink(k)
  PROVE  Sinks' = [Sinks EXCEPT ![j] = sink]
  BY DEF Sinks

LEMMA CallerStreams ==
  ASSUME ClientInv, StreamsInv', CallerNext
  PROVE  [Stream!Next]_(Stream!vars)
<1>. call \in [Keys -> {"none", "queuing", "open", "stalled", "over", "cut", "dropped", "failed"}]
     /\ stream \in [Keys -> Seq(Notes)]
  BY DEF ClientInv, TypeInv, TypeOK
<1>0. [Next]_vars /\ TypeInv /\ ClosingInv /\ StreamsInv
  BY DEF Next, ClientInv
<1>1. ASSUME UNCHANGED <<call, stream, routerQ, subs, delivering>>
      PROVE  [Stream!Next]_(Stream!vars)
  <2>1. ASSUME NEW k \in Keys PROVE Sink(k)' = Sink(k)
    BY <1>1, SinkSame DEF SenderAlive, InQueue
  <2>. QED BY <1>0, <1>1, <2>1, NothingHappens
<1>2. CASE ConnectDrains \/ ConnectReturns \/ ConnectCancelled \/ CallSend \/ DropClient
           \/ ReadSessionEvent \/ StopListening \/ DropSessionEvents
  BY <1>1, <1>2
  DEF ConnectDrains, ConnectReturns, ConnectCancelled, GivesUpClient, CallSend, DropClient,
      ReadSessionEvent, StopListening, DropSessionEvents, queueVars, callerVars, routerVars
<1>3. CASE Disconnect \/ DestroyQueued \/ DestroyNotQueued \/ JoinTimesOut \/ DisconnectReturns
  BY <1>1, <1>3
  DEF Disconnect, DestroyQueued, DestroyNotQueued, JoinTimesOut, DisconnectReturns, Moves,
      routerVars
<1>4. CASE Abort
  BY <1>0, <1>4, RouterEndsStreams DEF Abort
<1>5. ASSUME NEW j \in Keys, CallUnsubscribe(j) PROVE [Stream!Next]_(Stream!vars)
  BY <1>1, <1>5 DEF CallUnsubscribe, routerVars
<1>6. ASSUME NEW j \in Keys, SubscribeQueued(j) \/ ReadEnd(j) \/ StopReading(j)
      PROVE  [Stream!Next]_(Stream!vars)
  <2>1. UNCHANGED <<stream, routerQ, subs, delivering>>
    BY <1>6 DEF SubscribeQueued, ReadEnd, StopReading, queueVars, routerVars
  <2>2. \A k \in Keys : SenderAlive(k)' <=> SenderAlive(k)
    BY <2>1 DEF SenderAlive, InQueue
  <2>3. /\ call[j] \in {"queuing", "open"} /\ call'[j] \in {"open", "cut", "stalled"}
        /\ \A k \in Keys \ {j} : call'[k] = call[k]
    BY <1>6 DEF SubscribeQueued, ReadEnd, StopReading
  <2>4. Ended(j)' <=> Ended(j)
    BY <2>1 DEF Ended
  <2>5. Sink(j)' = Sink(j)
    BY <2>2, <2>3, <2>4 DEF Sink
  <2>6. \A k \in Keys : Sink(k)' = Sink(k)
    BY <2>1, <2>2, <2>3, <2>5, SinkSame
  <2>. QED BY <1>0, <2>1, <2>6, NothingHappens
<1>7. ASSUME NEW c, TellsRouter(c), UNCHANGED <<subs, delivering>>, NEW k \in Keys,
             c \in RouterCommands, c # Registration(k)
      PROVE  SenderAlive(k)' <=> SenderAlive(k)
  <2>1. routerQ \in Seq(RouterCommands) /\ routerQ' \in Seq(RouterCommands)
    BY <1>0, <1>7, TellingTyped DEF TypeInv
  <2>2. CASE routerQ' = routerQ
    BY <1>7, <2>2 DEF SenderAlive, InQueue
  <2>3. CASE routerQ' = Append(routerQ, c)
    <3>1. /\ Len(routerQ) \in Nat /\ Len(routerQ') = Len(routerQ) + 1
          /\ \A i \in 1 .. Len(routerQ) : routerQ'[i] = routerQ[i]
          /\ routerQ'[Len(routerQ) + 1] = c
      BY <1>7, <2>1, <2>3, Added
    <3>2. ASSUME NEW i \in 1 .. Len(routerQ'), routerQ'[i] = Registration(k)
          PROVE  i \in 1 .. Len(routerQ) /\ routerQ[i] = Registration(k)
      BY <1>7, <3>1, <3>2
    <3>3. ASSUME NEW i \in 1 .. Len(routerQ), routerQ[i] = Registration(k)
          PROVE  i \in 1 .. Len(routerQ') /\ routerQ'[i] = Registration(k)
      BY <3>1, <3>3
    <3>4. /\ InQueue(Registration(k), routerQ') <=>
               \E i \in 1 .. Len(routerQ') : routerQ'[i] = Registration(k)
          /\ InQueue(Registration(k), routerQ) <=>
               \E i \in 1 .. Len(routerQ) : routerQ[i] = Registration(k)
      BY <2>1, Queue
    <3>. QED BY <1>7, <3>2, <3>3, <3>4 DEF SenderAlive, Registration
  <2>. QED BY <1>7, <2>2, <2>3 DEF TellsRouter
<1>8. \A j, k \in Keys :
        /\ \A t \in {"register", "unregister", "streamDropped"} : ForRouter(t, j) \in RouterCommands
        /\ ForRouter("unregister", j) # Registration(k)
        /\ ForRouter("streamDropped", j) # Registration(k)
        /\ j # k => ForRouter("register", j) # Registration(k)
  BY DEF ForRouter, Registration, RouterCommands
<1>9. ASSUME NEW j \in Keys, Sinks[j] \in {"open", "ended", "cut"}, Sink(j)' = "gone",
             \A k \in Keys \ {j} : Sink(k)' = Sink(k),
             stream' = [stream EXCEPT ![j] = <<>>], Flowing' = Flowing
      PROVE  Stream!Next
  <2>1. Sinks' = [Sinks EXCEPT ![j] = "gone"]
    BY <1>9, OneStream
  <2>2. Stream!LetsGo(j)
    BY <1>9, <2>1 DEF Stream!LetsGo, Sinks, Flowing
  <2>. QED BY <2>2 DEF Stream!Next
<1>10. ASSUME NEW j \in Keys, CallSubscribe(j) PROVE Stream!Next
  <2>. DEFINE c == ForRouter("register", j)
  <2>1. /\ call[j] = "none" /\ stream' = stream /\ TellsRouter(c) /\ client = "live"
        /\ call' = [call EXCEPT ![j] = IF router = "done" THEN "failed" ELSE "queuing"]
        /\ UNCHANGED <<subs, delivering, router, stop, client, third>>
    BY <1>10 DEF CallSubscribe, routerVars, thirdVars
  <2>2. Flowing' = Flowing
    BY <2>1 DEF Flowing, StopSeen, HandleAlive
  <2>3. ASSUME NEW k \in Keys \ {j} PROVE Sink(k)' = Sink(k)
    <3>1. SenderAlive(k)' <=> SenderAlive(k)
      BY <1>7, <1>8, <2>1
    <3>. QED BY <2>1, <3>1, SinkSame
  <2>4. Sink(j) = "none" /\ ~Ended(j)'
    BY <1>0, <2>1, SinkCases DEF StreamsInv, Untold, Ended
  <2>5. CASE router = "done"
    <3>1. Sink(j)' = "gone"
      BY <2>1, <2>4, <2>5 DEF Sink
    <3>2. Sinks' = [Sinks EXCEPT ![j] = "gone"]
      BY <2>3, <3>1, OneStream
    <3>3. Stream!Opens(j)
      BY <2>1, <2>2, <2>4, <3>1, <3>2 DEF Stream!Opens, Sinks, Flowing
    <3>. QED BY <3>3 DEF Stream!Next
  <2>6. CASE router # "done"
    <3>1. Flowing
      BY <1>0, <2>1, <2>6 DEF Flowing, StopSeen, HandleAlive, ClosingInv
    <3>2. SenderAlive(j)'
      <4>1. routerQ \in Seq(RouterCommands) /\ c \in RouterCommands
            /\ routerQ' = Append(routerQ, c)
        BY <1>0, <1>8, <2>1, <2>6 DEF TypeInv, TellsRouter
      <4>2. /\ Len(routerQ) + 1 \in 1 .. Len(routerQ') /\ routerQ'[Len(routerQ) + 1] = c
            /\ routerQ' \in Seq(RouterCommands)
        BY <4>1, Added
      <4>3. InQueue(c, routerQ')
        BY <4>2, Queue
      <4>. QED BY <4>3 DEF SenderAlive
    <3>3. Sink(j)' = "open"
      BY <2>1, <2>4, <2>6, <3>2 DEF Sink
    <3>4. Sinks' = [Sinks EXCEPT ![j] = "open"]
      BY <2>3, <3>3, OneStream
    <3>5. Stream!Opens(j)
      BY <2>1, <2>2, <2>4, <3>1, <3>3, <3>4 DEF Stream!Opens, Sinks, Flowing
    <3>. QED BY <3>5 DEF Stream!Next
  <2>. QED BY <2>5, <2>6
<1>11. ASSUME NEW j \in Keys, SubscribeFails(j) \/ SubscribeCancelled(j) PROVE Stream!Next
  <2>1. /\ call[j] = "queuing" /\ call' = [call EXCEPT ![j] = "failed"] /\ stream' = stream
        /\ routerQ' = routerQ \/ TellsRouter(ForRouter("unregister", j))
        /\ UNCHANGED <<subs, delivering, router, stop, client, third>>
    BY <1>11 DEF SubscribeFails, SubscribeCancelled, queueVars, routerVars, thirdVars
  <2>2. Flowing' = Flowing
    BY <2>1 DEF Flowing, StopSeen, HandleAlive
  <2>3. stream[j] = <<>> /\ ~Ended(j) /\ ~Ended(j)'
    BY <1>0, <2>1 DEF StreamsInv, Untold, Ended
  <2>4. Sink(j)' = "gone" /\ Sink(j) \in {"open", "cut"}
    BY <1>0, <2>1, <2>3, SinkCases DEF Sink
  <2>5. ASSUME NEW k \in Keys \ {j} PROVE Sink(k)' = Sink(k)
    <3>1. SenderAlive(k)' <=> SenderAlive(k)
      <4>1. CASE routerQ' = routerQ
        BY <2>1, <4>1 DEF SenderAlive, InQueue
      <4>2. CASE TellsRouter(ForRouter("unregister", j))
        BY <1>7, <1>8, <2>1, <4>2
      <4>. QED BY <2>1, <4>1, <4>2
    <3>. QED BY <2>1, <3>1, SinkSame
  <2>6. stream' = [stream EXCEPT ![j] = <<>>]
    BY <2>1, <2>3
  <2>. QED BY <1>9, <2>2, <2>4, <2>5, <2>6 DEF Sinks
<1>12. ASSUME NEW j \in Keys, ReadUpdate(j) PROVE Stream!Next
  <2>1. /\ stream[j] # <<>> /\ stream' = [stream EXCEPT ![j] = Tail(@)]
        /\ \A k \in Keys \ {j} : call'[k] = call[k]
        /\ UNCHANGED <<routerQ, subs, delivering, router, stop, client, third>>
    BY <1>12 DEF ReadUpdate, routerVars, thirdVars
  <2>2. Flowing' = Flowing
    BY <2>1 DEF Flowing, StopSeen, HandleAlive
  <2>3. \A k \in Keys : SenderAlive(k)' <=> SenderAlive(k)
    BY <2>1 DEF SenderAlive, InQueue
  <2>4. Sink(j)' = Sink(j)
    <3>1. /\ Ended(j)' => Ended(j) /\ call'[j] = "open"
          /\ Ended(j) => Ended(j)' \/ call'[j] = "over"
          /\ call'[j] = "over" => Ended(j)
          /\ call'[j] \in {"open", "over"} /\ call[j] = "open"
      BY <1>0, <1>12, ReadingEnds DEF StreamsInv
    <3>2. Sink(j) = IF Ended(j) THEN "ended" ELSE IF SenderAlive(j) THEN "open" ELSE "cut"
      BY <3>1 DEF Sink
    <3>3. Sink(j)' = IF Ended(j) THEN "ended" ELSE IF SenderAlive(j) THEN "open" ELSE "cut"
      BY <2>3, <3>1 DEF Sink
    <3>. QED BY <3>2, <3>3
  <2>5. \A k \in Keys : Sink(k)' = Sink(k)
    <3>1. ASSUME NEW k \in Keys \ {j} PROVE Sink(k)' = Sink(k)
      <4>1. stream'[k] = stream[k] /\ call'[k] = call[k]
        BY <2>1
      <4>. QED BY <2>3, <4>1, SinkSame
    <3>. QED BY <2>4, <3>1
  <2>6. Stream!Takes(j)
    BY <2>1, <2>2, <2>5 DEF Stream!Takes, Flowing
  <2>. QED BY <2>6 DEF Stream!Next
<1>13. ASSUME NEW j \in Keys, DropUpdates(j) PROVE Stream!Next
  <2>1. /\ HasStream(j) /\ call' = [call EXCEPT ![j] = "dropped"]
        /\ stream' = [stream EXCEPT ![j] = <<>>]
        /\ TellsRouter(ForRouter("streamDropped", j))
        /\ UNCHANGED <<subs, delivering, router, stop, client, third>>
    BY <1>13 DEF DropUpdates, routerVars, thirdVars
  <2>2. Flowing' = Flowing
    BY <2>1 DEF Flowing, StopSeen, HandleAlive
  <2>3. Sink(j)' = "gone"
    BY <2>1 DEF Sink, Ended
  <2>4. Sink(j) \in {"open", "ended", "cut"}
    BY <1>0, <2>1, SinkCases DEF HasStream, Streaming
  <2>5. ASSUME NEW k \in Keys \ {j} PROVE Sink(k)' = Sink(k)
    <3>1. SenderAlive(k)' <=> SenderAlive(k)
      BY <1>7, <1>8, <2>1
    <3>. QED BY <2>1, <3>1, SinkSame
  <2>. QED BY <1>9, <2>1, <2>2, <2>3, <2>4, <2>5 DEF Sinks
<1>. QED
  BY <1>2, <1>3, <1>4, <1>5, <1>6, <1>10, <1>11, <1>12, <1>13 DEF CallerNext

LEMMA DeliversStreams ==
  ASSUME ClientInv, StreamsInv', Delivers
  PROVE  [Stream!Next]_(Stream!vars)
<1>. DEFINE d == delivering
<1>0. /\ [Next]_vars /\ TypeInv /\ ClosingInv /\ StreamsInv
      /\ \A k \in Keys : Registered(k) /\ (NotYet(k) => Untold(k))
  BY DEF Next, RouterNext, ClientInv, StreamsInv, NotYet
<1>1. /\ d.to \in Keys \cup {Session} /\ d.what \in Notes /\ d = Sends(d.to, d.what)
      /\ stream \in [Keys -> Seq(Notes)] /\ \A k \in Keys : k # Session
  BY <1>0, DeliveryTyped, KeysAssumption DEF Delivers, TypeInv, Session
<1>2. CASE d = Sends(Session, "last")
  <2>1. RouterEnds /\ call' = call /\ d.to = Session
    BY <1>2 DEF Delivers, AfterDelivery, Sends, callerVars
  <2>2. stream' = stream
    BY <1>1, <2>1 DEF Delivers, Arrives, DoesNotArrive
  <2>. QED BY <1>0, <2>1, <2>2, RouterEndsStreams
<1>3. ASSUME d # Sends(Session, "last"), NEW k \in Keys
      PROVE  /\ UNCHANGED <<router, stop, client, third, call>>
             /\ d.to # k => stream'[k] = stream[k] /\ Sink(k)' = Sink(k)
             /\ d.to = k =>
                  /\ SenderAlive(k) /\ ~Ended(k)
                  /\ call[k] \notin {"none", "queuing", "over", "cut"}
                  /\ SenderAlive(k)' <=> d.what = "event"
  <2>1. Registered(k) /\ (NotYet(k) => Untold(k))
    BY <1>0
  <2>2. /\ UNCHANGED <<router, stop, client, third, call>>
        /\ d.to # k =>
             /\ stream'[k] = stream[k]
             /\ SenderAlive(k)' <=> SenderAlive(k)
        /\ d.to = k =>
             /\ SenderAlive(k) /\ ~Ended(k)
             /\ call[k] \notin {"none", "queuing", "over", "cut"}
             /\ SenderAlive(k)' <=> d.what = "event"
    BY <1>0, <1>3, <2>1, DeliversTo
  <2>3. d.to # k => Sink(k)' = Sink(k)
    BY <2>2, SinkSame
  <2>. QED BY <2>2, <2>3
<1>4. CASE d # Sends(Session, "last") /\ d.to = Session
  <2>1. stream' = stream
    BY <1>1, <1>4 DEF Delivers, Arrives, DoesNotArrive
  <2>2. \A k \in Keys : Sink(k)' = Sink(k)
    BY <1>1, <1>3, <1>4
  <2>. QED BY <1>0, <2>1, <2>2, NothingHappens
<1>5. ASSUME NEW j \in Keys, d.to = j
      PROVE  [Stream!Next]_(Stream!vars)
  <2>0. d # Sends(Session, "last")
    BY <1>1, <1>5 DEF Sends
  <2>1. /\ UNCHANGED <<router, stop, client, third, call>>
        /\ SenderAlive(j) /\ ~Ended(j) /\ call[j] \notin {"none", "queuing", "over", "cut"}
        /\ SenderAlive(j)' <=> d.what = "event"
    BY <1>3, <1>5, <2>0
  <2>2. ASSUME NEW k \in Keys \ {j} PROVE Sink(k)' = Sink(k) /\ stream'[k] = stream[k]
    BY <1>3, <1>5, <2>0, <2>2
  <2>3. Flowing' = Flowing
    BY <2>1 DEF Flowing, StopSeen, HandleAlive
  <2>4. call[j] \in {"open", "stalled", "failed", "dropped"}
    BY <1>0, <2>1 DEF TypeInv, TypeOK
  <2>5. CASE Arrives
    <3>1. /\ stream'[j] = Append(stream[j], d.what)
          /\ call[j] \notin {"failed", "dropped"}
          /\ Ended(j)' <=> d.what = "last"
      BY <1>0, <1>1, <1>5, <2>1, <2>5, ArrivesIn
    <3>2. Sink(j) = "open"
      BY <2>1, <2>4, <3>1 DEF Sink
    <3>3. Sink(j)' = IF d.what = "last" THEN "ended" ELSE "open"
      BY <1>1, <2>1, <2>4, <3>1 DEF Sink, Notes
    <3>4. stream' = [stream EXCEPT ![j] = Append(@, d.what)]
      BY <1>1, <2>2, <2>5, <3>1 DEF Arrives
    <3>5. CASE d.what = "last"
      <4>1. Sinks' = [Sinks EXCEPT ![j] = "ended"]
        BY <2>2, <3>3, <3>5, OneStream
      <4>2. Stream!Puts(j, TRUE)
        BY <2>3, <3>2, <3>4, <3>5, <4>1 DEF Stream!Puts, Sinks, Flowing
      <4>. QED BY <4>2 DEF Stream!Next
    <3>6. CASE d.what = "event"
      <4>1. Sinks' = Sinks
        BY <2>2, <3>2, <3>3, <3>6 DEF Sinks
      <4>2. Stream!Puts(j, FALSE)
        BY <2>3, <3>2, <3>4, <3>6, <4>1 DEF Stream!Puts, Sinks, Flowing
      <4>. QED BY <4>2 DEF Stream!Next
    <3>. QED BY <1>1, <3>5, <3>6 DEF Notes
  <2>6. CASE DoesNotArrive
    <3>1. stream' = stream /\ ~Ended(j)'
      BY <2>1, <2>6 DEF DoesNotArrive, Ended
    <3>2. CASE call[j] \in {"failed", "dropped"}
      <4>1. Sink(j)' = Sink(j)
        BY <2>1, <3>1, <3>2 DEF Sink
      <4>. QED BY <1>0, <2>2, <3>1, <4>1, NothingHappens
    <3>3. CASE call[j] \in {"open", "stalled"}
      <4>1. ~Flowing'
        BY <1>1, <1>5, <2>3, <2>6, <3>3 DEF DoesNotArrive, ReceiverHeld, Flowing
      <4>2. Sink(j) = "open" /\ Sink(j)' \in {"open", "cut"}
        BY <2>1, <3>1, <3>3 DEF Sink
      <4>. QED BY <2>2, <3>1, <4>1, <4>2, ClientEnds
    <3>. QED BY <2>4, <3>2, <3>3
  <2>. QED BY <2>5, <2>6 DEF Delivers
<1>. QED BY <1>1, <1>2, <1>4, <1>5

LEMMA RouterStreams ==
  ASSUME ClientInv, StreamsInv', RouterNext
  PROVE  [Stream!Next]_(Stream!vars)
<1>0. /\ [Next]_vars /\ TypeInv /\ ClosingInv /\ StreamsInv
      /\ \A k \in Keys : Registered(k)
  BY DEF Next, ClientInv, StreamsInv
<1>1. CASE TakesCommand
  <2>1. stream' = stream /\ call' = call
    BY <1>1 DEF TakesCommand, callerVars
  <2>2. ASSUME NEW k \in Keys PROVE Sink(k)' = Sink(k)
    <3>1. (SenderAlive(k)' <=> SenderAlive(k)) \/ call[k] \in {"failed", "dropped"}
      BY <1>0, <1>1, TakesCommandRegistered
    <3>2. CASE call[k] \in {"failed", "dropped"}
      <4>1. ~Ended(k) /\ ~Ended(k)'
        BY <1>0, <2>1, <3>2 DEF Registered, Ended
      <4>. QED BY <2>1, <3>2, <4>1 DEF Sink
    <3>. QED BY <2>1, <3>1, <3>2, SinkSame
  <2>. QED BY <1>0, <2>1, <2>2, NothingHappens
<1>2. CASE RouterLooks \/ RouterSleeps
  <2>1. UNCHANGED <<call, stream, routerQ, subs, delivering>>
    BY <1>2 DEF RouterLooks, RouterSleeps, callerVars, queueVars
  <2>2. ASSUME NEW k \in Keys PROVE Sink(k)' = Sink(k)
    BY <2>1, SinkSame DEF SenderAlive, InQueue
  <2>. QED BY <1>0, <2>1, <2>2, NothingHappens
<1>3. CASE RouterStops
  BY <1>0, <1>3, RouterEndsStreams DEF RouterStops, callerVars
<1>4. CASE TakesEvent
  <2>1. stream' = stream /\ call' = call
    BY <1>4 DEF TakesEvent, callerVars
  <2>2. CASE RouterEnds
    BY <1>0, <2>1, <2>2, RouterEndsStreams
  <2>3. CASE ~RouterEnds
    <3>1. ASSUME NEW k \in Keys PROVE Sink(k)' = Sink(k)
      <4>1. SenderAlive(k)' <=> SenderAlive(k)
        BY <1>0, <1>4, <2>3, TakesEventRegistered
      <4>. QED BY <2>1, <4>1, SinkSame
    <3>. QED BY <1>0, <2>1, <3>1, NothingHappens
  <2>. QED BY <2>2, <2>3
<1>. QED BY <1>1, <1>2, <1>3, <1>4, DeliversStreams DEF RouterNext

LEMMA StreamsStep ==
  ASSUME ClientInv, StreamsInv', [Next]_vars
  PROVE  [Stream!Next]_(Stream!vars)
<1>1. CASE IssuerNext \/ DriverNext \/ UNCHANGED vars
  <2>1. UNCHANGED <<call, stream, routerQ, subs, delivering>>
    BY <1>1
    DEF IssuerNext, IssuerTakes, IssuerQueues, DriverNext, DriverServes, DriverHears,
        DriverStops, DriverEmits, DriverReturns, callerVars, routerVars, queueVars, vars
  <2>2. ASSUME NEW k \in Keys PROVE Sink(k)' = Sink(k)
    BY <2>1, SinkSame DEF SenderAlive, InQueue
  <2>. QED BY <2>1, <2>2, NothingHappens DEF ClientInv
<1>. QED BY <1>1, CallerStreams, RouterStreams DEF Next

\* Whatever the caller, the driver and the capacities, each stream of updates opens with
\* its call, takes its events in order, and closes once: by its terminal event, or cut
\* short, and only when the client is ending (module SubscriptionStream).
THEOREM ClientKeepsStreams == Spec => KeepsStreams
<1>1. Init => Stream!Init
  <2> SUFFICES ASSUME Init PROVE Stream!Init
    OBVIOUS
  <2>1. Flowing
    BY DEF Init, Flowing, StopSeen, HandleAlive
  <2>2. ASSUME NEW k \in Keys PROVE Sink(k) = "none"
    <3>1. call[k] = "none"
      BY DEF Init
    <3>. QED BY <3>1, StreamsStart, SinkCases
  <2>3. stream = [k \in Keys |-> <<>>]
    BY DEF Init
  <2>. QED BY <2>1, <2>2, <2>3 DEF Stream!Init, Flowing, Sinks
<1>2. ClientInv /\ ClientInv' /\ [Next]_vars => [Stream!Next]_(Stream!vars)
  BY StreamsStep DEF ClientInv
<1>. QED BY <1>1, <1>2, Invariance, PTL DEF Spec, KeepsStreams, Stream!Spec
=============================================================================

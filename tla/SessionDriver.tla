---------------------------- MODULE SessionDriver ----------------------------
(***************************************************************************)
(* The session driver of src/session/mod.rs: one task that opens a stream  *)
(* connection, pumps it line by line, decides after each unbind what to    *)
(* open next, and keeps the desired set of subscriptions and the control   *)
(* requests in flight across reconnections.                                *)
(*                                                                         *)
(* The server is unconstrained: whenever the driver pumps, any member of   *)
(* Notifications may be the next line, in any order, so what holds here    *)
(* holds whatever the server does.  The caller may send any member of      *)
(* Commands whenever the driver serves the command channel.  Each handler  *)
(* is one action, run to completion as the single task runs it; the events *)
(* it emits are the set out, overwritten by every step.                    *)
(*                                                                         *)
(* Time is abstracted: a delay is zero (the reopen is immediate and serves *)
(* no command) or positive, and a deadline may fall due at any moment.     *)
(***************************************************************************)
EXTENDS Integers, FiniteSets

CONSTANTS
  Keys,                (* SubscriptionKeys the facade hands out; ordered.       *)
  Sessions,            (* Session ids the server may give.                      *)
  NoSession,           (* The None of Option<SessionId>.                        *)
  Messages,            (* Identities (sequence, prog) of messages.              *)
  Frequencies,         (* Frequency limits a caller may ask for.                *)
  SubIdMax,            (* u32::MAX of next_sub_id.                              *)
  RequestIdMax,        (* u64::MAX of next_request_id.                          *)
  ProgressiveMax,      (* u64::MAX of progressive.                              *)
  MaxAttempts,         (* BackoffPolicy::max_attempts.                          *)
  IsPolling,           (* TransportProperties::is_polling.                      *)
  EndsOnContentLength, (* TransportProperties::ends_on_content_length.          *)
  SendsHeartbeats,     (* Whether a heartbeat interval is configured.           *)
  Notifications,       (* The lines the server may send.                        *)
  Commands,            (* The commands the caller may send.                     *)
  MaxGeneration        (* Bound: no session is created beyond this generation.  *)

-----------------------------------------------------------------------------
(* Data *)

NoKey == 0
NoId  == 0
SubIds     == 1 .. SubIdMax - 1      \* allocate never returns u32::MAX
RequestIds == 1 .. RequestIdMax - 1  \* nor next_request_id u64::MAX

\* MAX_HEARTBEAT_FAILURES
MaxHeartbeatFailures == 3

Entries ==
  [state     : {"unused", "pending", "active", "removing", "gone"},
   wire      : SubIds \cup {NoId},
   wasActive : BOOLEAN,
   freq      : Frequencies \cup {"none"}]

PendingRequests ==
       [kind : {"subscribe", "unsubscribe"}, key : Keys, gen : Nat]
  \cup [kind : {"reconfigure"}, key : Keys, freq : Frequencies, gen : Nat]
  \cup [kind : {"message"}, msg : Messages, gen : Nat]
  \cup [kind : {"forceRebind", "destroy"}, gen : Nat]
NoRequest == [kind |-> "none"]

Intents == [kind : {"create", "rebind", "recover"}, requested : Nat]

AllNotifications ==
       [t : {"CONOK"}, session : Sessions]
  \cup [t : {"CONERR", "END"}, code : Int]
  \cup [t : {"LOOP"}, delayed : BOOLEAN]
  \cup [t : {"PROG"}, at : 0 .. ProgressiveMax]
  \cup [t : {"REQOK", "REQERR"}, id : Nat]
  \cup [t : {"SUBOK", "UNSUB", "UPDATE"}, sub : Nat]
  \cup [t : {"MSGDONE", "MSGFAIL"}, msg : Messages]
  \cup [t : {"UNPARSED"}]

AllCommands ==
       [t : {"Subscribe", "Unsubscribe"}, key : Keys]
  \cup [t : {"Reconfigure"}, key : Keys, freq : Frequencies]
  \cup [t : {"SendMessage"}, msg : Messages]
  \cup [t : {"ForceRebind", "Destroy", "Shutdown"}]

ASSUME KeysAssumption == Keys \subseteq Nat \ {NoKey} /\ IsFiniteSet(Keys)
ASSUME SessionsAssumption == NoSession \notin Sessions
ASSUME BoundsAssumption ==
  /\ SubIdMax \in Nat \ {0} /\ RequestIdMax \in Nat \ {0}
  /\ ProgressiveMax \in Nat /\ MaxAttempts \in Nat \ {0} /\ MaxGeneration \in Nat
ASSUME PropertiesAssumption ==
  /\ IsPolling \in BOOLEAN /\ EndsOnContentLength \in BOOLEAN
  /\ SendsHeartbeats \in BOOLEAN
ASSUME InputsAssumption ==
  /\ \A n \in Notifications : n \in AllNotifications
  /\ \A c \in Commands : c \in AllCommands

\* classify: what a CONERR or END cause code asks of the client.
Classify(code) ==
  CASE code \in {4, 20, 48}                    -> "recreate"
    [] code \in {5, 6, 7, 8, 9, 10, 33, 34}    -> "retry"
    [] OTHER                                   -> "fatal"

-----------------------------------------------------------------------------
(* State *)

VARIABLES
  phase,            (* waiting | opening | pumping | closed: where drive is.    *)
  closed,           (* The SessionClosed it returned, or "open".                *)
  streamState,      (* establishing | bound                                     *)
  intent,           (* What the stream being opened asks for (Reopen, intent).  *)
  session, previousSession,
  progressive, skipRemaining, progHonoured,
  reg,              (* Registry::entries, and for each key without one whether  *)
                    (* it was never subscribed or is gone.                      *)
  bySubId, nextSubId,
  pending, generation, nextRequestId,
  forceRebindOutstanding, destroyRequested,
  attempts,         (* Backoff::attempts                                        *)
  refreshStreak, heartbeatFailures,
  stop,             (* The stop lane, or every handle dropped.                  *)
  wanted,           (* History: keys subscribed, not given up by the caller and *)
                    (* not reported to it as refused or ended.                  *)
  out               (* The events the last step emitted.                        *)

streamVars   == <<phase, closed, streamState, intent>>
sessionVars  == <<session, previousSession>>
recoveryVars == <<progressive, skipRemaining, progHonoured>>
registryVars == <<reg, bySubId, nextSubId, wanted>>
controlVars  == <<pending, generation, nextRequestId>>
flagVars     == <<forceRebindOutstanding, destroyRequested>>
retryVars    == <<attempts, refreshStreak, heartbeatFailures>>
vars == <<streamVars, sessionVars, recoveryVars, registryVars, controlVars,
          flagVars, retryVars, stop, out>>

Registered(k) == reg[k].state \in {"pending", "active", "removing"}
Serving == phase \in {"waiting", "pumping"}  \* where the command channel is read

Init ==
  /\ phase = "opening" /\ closed = "open"
  /\ streamState = "establishing"
  /\ intent = [kind |-> "create", requested |-> 0]
  /\ session = NoSession /\ previousSession = NoSession
  /\ progressive = 0 /\ skipRemaining = 0 /\ progHonoured = FALSE
  /\ reg = [k \in Keys |-> [state |-> "unused", wire |-> NoId,
                            wasActive |-> FALSE, freq |-> "none"]]
  /\ bySubId = [i \in SubIds |-> NoKey] /\ nextSubId = 1
  /\ wanted = {}
  /\ pending = [i \in RequestIds |-> NoRequest]
  /\ generation = 1 /\ nextRequestId = 1
  /\ forceRebindOutstanding = FALSE /\ destroyRequested = FALSE
  /\ attempts = 0 /\ refreshStreak = 0 /\ heartbeatFailures = 0
  /\ stop = FALSE /\ out = {}

-----------------------------------------------------------------------------
(* Events *)

Response(kind, key, outcome) ==
  [ev |-> "response", kind |-> kind, key |-> key, outcome |-> outcome]
KeyOf(p) == IF p.kind \in {"subscribe", "unsubscribe", "reconfigure"}
            THEN p.key ELSE NoKey
MessageEvent(m, result) == [ev |-> "message", msg |-> m, result |-> result]

-----------------------------------------------------------------------------
(* Ending, and planning the next stream connection *)

\* run: the driver returns how it ended and reports it after everything else.
ClosesAfter(events, how) ==
  /\ phase' = "closed" /\ closed' = how
  /\ out' = events \cup {[ev |-> "closed", how |-> how]}
  /\ UNCHANGED <<streamState, intent, sessionVars, recoveryVars, registryVars,
                 controlVars, flagVars, retryVars, stop>>
Closes(how) == ClosesAfter({}, how)

\* Mutant: the duplicates still to be discarded survive the connection.
ReopensStillSkipping(reason, kind, requested, phases) ==
  /\ phase' \in phases
  /\ intent' = [kind |-> kind, requested |-> requested]
  /\ progHonoured' = FALSE
  /\ out' = {[ev |-> "unbound", reason |-> reason, retry |-> TRUE]}
  /\ UNCHANGED <<closed, skipRemaining>>

\* The turn of drive that opens the next connection; each opening starts with
\* nothing to skip and no PROG honoured.
Reopens(reason, kind, requested, phases) ==
  /\ phase' \in phases
  /\ intent' = [kind |-> kind, requested |-> requested]
  /\ skipRemaining' = 0 /\ progHonoured' = FALSE
  /\ out' = {[ev |-> "unbound", reason |-> reason, retry |-> TRUE]}
  /\ UNCHANGED closed

GivesUp(reason) ==
  /\ phase' = "closed" /\ closed' = "retriesExhausted"
  /\ out' = {[ev |-> "unbound", reason |-> reason, retry |-> FALSE],
             [ev |-> "closed", how |-> "retriesExhausted"]}
  /\ UNCHANGED <<intent, skipRemaining, progHonoured>>

\* Backoff::next_delay: full jitter, so the delay may be zero.
RetriesAfter(reason, kind, requested) ==
  /\ attempts' = attempts + 1
  /\ \/ /\ attempts' > MaxAttempts
        /\ GivesUp(reason)
     \/ /\ attempts' <= MaxAttempts
        /\ Reopens(reason, kind, requested, {"waiting", "opening"})

\* plan_after for a clean LOOP: no backoff, the delay is the server's.
PlanRebind(reason, delayed) ==
  /\ attempts' = 0 /\ refreshStreak' = 0
  /\ Reopens(reason, "rebind", 0, IF delayed THEN {"waiting"} ELSE {"opening"})

\* Mutant: a dropped session is bound again without asking to recover it.
PlanPlainRebind(reason) ==
  /\ refreshStreak' = 0
  /\ RetriesAfter(reason, IF session # NoSession THEN "rebind" ELSE "create", 0)

\* plan_after for a connection that failed or went mute.
PlanRecovery(reason) ==
  /\ refreshStreak' = 0
  /\ IF session # NoSession
     THEN RetriesAfter(reason, "recover", progressive)
     ELSE RetriesAfter(reason, "create", 0)

\* plan_after for a refused bind, or an END that says to retry later.
PlanCreate ==
  /\ refreshStreak' = 0
  /\ RetriesAfter("rejected", "create", 0)

\* plan_after for a session refresh: the first one is immediate, a streak of
\* them is delayed and counted.
PlanRefresh ==
  /\ refreshStreak' = refreshStreak + 1
  /\ \/ /\ refreshStreak' <= 1
        /\ attempts' = 0
        /\ Reopens("serverRefresh", "create", 0, {"opening"})
     \/ /\ refreshStreak' > 1 /\ refreshStreak' > MaxAttempts
        /\ GivesUp("serverRefresh")
        /\ UNCHANGED attempts
     \/ /\ refreshStreak' > 1 /\ refreshStreak' <= MaxAttempts
        /\ RetriesAfter("serverRefresh", "create", 0)

\* Mutant: the stream state outlives the stream.
UnbindsStillBound ==
  UNCHANGED <<streamState, progressive, registryVars, controlVars, destroyRequested, stop>>

\* What every unbind of drive does besides planning.
Unbinds ==
  /\ streamState' = "establishing"
  /\ UNCHANGED <<progressive, registryVars, controlVars, destroyRequested, stop>>

ConnectionLost(reason) ==
  /\ PlanRecovery(reason)
  /\ Unbinds
  /\ UNCHANGED <<sessionVars, forceRebindOutstanding>>

-----------------------------------------------------------------------------
(* The stream connection *)

\* build_open: a bind names the session the driver holds; without one it creates.
BuildOpen ==
  IF session # NoSession /\ intent.kind # "create"
  THEN intent ELSE [kind |-> "create", requested |-> 0]

\* wait_before_reopen: the delay ran out.
DelayElapses ==
  /\ phase = "waiting"
  /\ phase' = "opening" /\ out' = {}
  /\ UNCHANGED <<closed, streamState, intent, sessionVars, recoveryVars,
                 registryVars, controlVars, flagVars, retryVars, stop>>

\* Mutant: the backoff is reset by a connection rather than by a bind.
EstablishedResets ==
  /\ phase = "opening"
  /\ phase' = "pumping" /\ out' = {} /\ attempts' = 0
  /\ UNCHANGED <<closed, streamState, intent, sessionVars, recoveryVars, registryVars,
                 controlVars, flagVars, refreshStreak, heartbeatFailures, stop>>

Established ==
  /\ phase = "opening"
  /\ phase' = "pumping" /\ out' = {}
  /\ UNCHANGED <<closed, streamState, intent, sessionVars, recoveryVars,
                 registryVars, controlVars, flagVars, retryVars, stop>>

OpenFails ==
  /\ phase = "opening"
  /\ ConnectionLost("connectionFailed")
  /\ UNCHANGED heartbeatFailures

\* The transport reported an error while pumping.
StreamFails ==
  /\ phase = "pumping"
  /\ ConnectionLost("connectionFailed")
  /\ UNCHANGED heartbeatFailures

\* on_stream_end
StreamEnds ==
  /\ phase = "pumping"
  /\ \/ /\ destroyRequested
        /\ Closes("byClient")
     \/ /\ ~destroyRequested /\ IsPolling
        /\ PlanRebind("pollCycleExpired", FALSE)
        /\ Unbinds
        /\ UNCHANGED <<sessionVars, forceRebindOutstanding, heartbeatFailures>>
     \/ /\ ~destroyRequested /\ ~IsPolling
        /\ ConnectionLost("connectionFailed")
        /\ UNCHANGED heartbeatFailures

\* on_timer, the inbound deadline.
InboundStalled ==
  /\ phase = "pumping"
  /\ ConnectionLost(IF streamState = "bound" THEN "keepaliveExpired"
                                             ELSE "connectionFailed")
  /\ UNCHANGED heartbeatFailures

\* on_timer, the outbound deadline: send_heartbeat.
HeartbeatDue ==
  /\ phase = "pumping" /\ SendsHeartbeats
  /\ \/ /\ heartbeatFailures' = 0  \* sent
        /\ out' = {}
        /\ UNCHANGED <<streamVars, sessionVars, recoveryVars, registryVars,
                       controlVars, flagVars, attempts, refreshStreak, stop>>
     \/ /\ heartbeatFailures + 1 < MaxHeartbeatFailures
        /\ heartbeatFailures' = heartbeatFailures + 1
        /\ out' = {}
        /\ UNCHANGED <<streamVars, sessionVars, recoveryVars, registryVars,
                       controlVars, flagVars, attempts, refreshStreak, stop>>
     \/ /\ heartbeatFailures + 1 >= MaxHeartbeatFailures
        /\ heartbeatFailures' = 0
        /\ ConnectionLost("connectionFailed")

\* Mutant: an open does not watch the stop lane.
StopObservedServing ==
  /\ Serving /\ stop
  /\ Closes("byClient")

\* The stop lane, honoured in every phase.
StopObserved ==
  /\ phase # "closed" /\ stop
  /\ Closes("byClient")

-----------------------------------------------------------------------------
(* Issuing subscriptions *)

Rank(todo, k) == Cardinality({j \in todo : j < k})

\* issue_subscription for each key of todo in key order, on the registry r with
\* index ix, first free sub id next and pending requests pend.  A key with no
\* sub id left gives up in silence; one with no request id left, or whose request
\* could not be sent (failed), is left unbound and its sub id is not reused.
WithSubId(todo, next) == {k \in todo : next + Rank(todo, k) < SubIdMax}
WithIds(todo, next) ==
  {k \in WithSubId(todo, next) : nextRequestId + Rank(todo, k) < RequestIdMax}

\* allocate: the counter sticks at its maximum, which is never handed out.
AtMost(n, max) == IF n <= max THEN n ELSE max
\* Mutant: an id is taken and the counter left where it was.
SubIdNotTaken(todo, next) == next
SubIdAfter(todo, next) == AtMost(next + Cardinality(todo), SubIdMax)

Bindings(todo, next, sent, r) ==
  [k \in Keys |->
     IF k \in sent THEN [r[k] EXCEPT !.state = "pending", !.wire = next + Rank(todo, k)]
     ELSE r[k]]

IssueSubscriptions(todo, next, failed, r, ix, pend, gen) ==
  LET sent == WithIds(todo, next) \ failed
  IN /\ reg' = Bindings(todo, next, sent, r)
     /\ bySubId' = [i \in SubIds |->
          IF \E k \in sent : i = next + Rank(todo, k)
          THEN CHOOSE k \in sent : i = next + Rank(todo, k)
          ELSE ix[i]]
     /\ nextSubId' = SubIdAfter(todo, next)
     /\ pending' = [i \in RequestIds |->
          IF \E k \in sent : i = nextRequestId + Rank(todo, k)
          THEN [kind |-> "subscribe", gen |-> gen,
                key |-> CHOOSE k \in sent : i = nextRequestId + Rank(todo, k)]
          ELSE pend[i]]
     /\ nextRequestId' = AtMost(nextRequestId + Cardinality(WithSubId(todo, next)), RequestIdMax)

\* dispatch's and report_id_exhaustion's answer for the keys that were not sent.
NotIssued(todo, next, failed) ==
  {Response("subscribe", k, "notSent") :
     k \in (WithSubId(todo, next) \ WithIds(todo, next)) \cup failed}

-----------------------------------------------------------------------------
(* Notifications *)

\* Mutant: only what was active survives a replacement.
ResetDropsPending ==
  [k \in Keys |-> IF reg[k].state = "active"
                  THEN [reg[k] EXCEPT !.state = "pending", !.wire = NoId]
                  ELSE IF Registered(k) THEN [reg[k] EXCEPT !.state = "gone", !.wire = NoId]
                  ELSE reg[k]]

\* Registry::reset_for_new_session
ResetRegistry ==
  [k \in Keys |->
     CASE reg[k].state = "removing"             -> [reg[k] EXCEPT !.state = "gone",
                                                                  !.wire = NoId]
       [] reg[k].state \in {"pending", "active"} -> [reg[k] EXCEPT !.state = "pending",
                                                                  !.wire = NoId]
       [] OTHER                                  -> reg[k]]

\* Mutant: nothing is retired when a session is replaced.
NothingStale(gen) == {}
Stale(gen) == {i \in RequestIds : pending[i] # NoRequest /\ pending[i].gen # gen}

\* Mutant: only messages are reported.
RetirementOfMessages(i) ==
  IF pending[i].kind = "message" THEN {MessageEvent(pending[i].msg, "notSent")} ELSE {}

\* What retire_stale_pending reports for the request with this id.
Retirement(i) ==
  {Response(pending[i].kind, KeyOf(pending[i]), "notSent")}
    \cup (IF pending[i].kind = "message"
          THEN {MessageEvent(pending[i].msg, "notSent")} ELSE {})

\* The session the bind is compared with, and the BindKind.
Previous == IF session # NoSession THEN session ELSE previousSession
\* Mutant: whether the same session answered is not looked at.
BindKindAsAsked(s) ==
  CASE intent.kind = "rebind"  -> "rebound"
    [] intent.kind = "recover" -> "recovering"
    [] OTHER -> IF Previous = NoSession THEN "created" ELSE "recreated"
BindKind(s) ==
  CASE intent.kind = "rebind"  /\ Previous = s -> "rebound"
    [] intent.kind = "recover" /\ Previous = s -> "recovering"
    [] intent.kind = "create" /\ Previous = NoSession -> "created"
    [] OTHER -> "recreated"
Fresh(s) == BindKind(s) \in {"created", "recreated"}

\* Mutants: a bound subscription is issued again; one never activated is not.
UnissuedOrBound(r) == {k \in Keys : r[k].state \in {"pending", "active"}}
UnissuedOnceActive(r) == {k \in Keys : r[k].wasActive /\ r[k].wire = NoId}
Unissued(r) == {k \in Keys : r[k].state \in {"pending", "active"} /\ r[k].wire = NoId}

\* on_conok
OnConOk(s) ==
  LET fresh == Fresh(s)
      gen   == IF fresh THEN generation + 1 ELSE generation
      stale == Stale(gen)
      r     == IF fresh THEN ResetRegistry ELSE reg
      ix    == IF fresh THEN [i \in SubIds |-> NoKey] ELSE bySubId
      next  == IF fresh THEN 1 ELSE nextSubId
      todo  == Unissued(r)
  IN /\ fresh => generation < MaxGeneration
     /\ streamState' = "bound"
     /\ session' = s /\ previousSession' = NoSession
     /\ attempts' = 0
     /\ progressive' = IF fresh THEN 0 ELSE progressive
     /\ skipRemaining' = IF fresh THEN 0 ELSE skipRemaining
     /\ generation' = gen
     /\ forceRebindOutstanding' =
          (forceRebindOutstanding /\ \A i \in stale : pending[i].kind # "forceRebind")
     /\ \E failed \in SUBSET WithIds(todo, next) :
          /\ IssueSubscriptions(todo, next, failed, r, ix,
               [i \in RequestIds |-> IF i \in stale THEN NoRequest ELSE pending[i]], gen)
          /\ out' = {[ev |-> "bound", kind |-> BindKind(s), session |-> s]}
                      \cup (UNION {Retirement(i) : i \in stale})
                      \cup NotIssued(todo, next, failed)
                      \cup (IF WithIds(todo, next) \ failed = {} THEN {}
                            ELSE {[ev |-> "resubscribed",
                                   keys |-> WithIds(todo, next) \ failed]})
     /\ UNCHANGED <<phase, closed, intent, progHonoured, wanted, destroyRequested,
                    refreshStreak, heartbeatFailures, stop>>

\* on_notification, ConnectionError
OnConErr(code) ==
  \/ /\ Classify(code) = "fatal"
     /\ Closes("byServer")
  \/ /\ Classify(code) # "fatal"
     /\ previousSession' = session /\ session' = NoSession
     /\ PlanCreate
     /\ Unbinds
     /\ UNCHANGED <<forceRebindOutstanding, heartbeatFailures>>

\* on_end
OnEnd(code) ==
  \/ /\ destroyRequested
     /\ Closes("byClientConfirmed")
  \/ /\ ~destroyRequested /\ Classify(code) = "fatal"
     /\ Closes("byServer")
  \/ /\ ~destroyRequested /\ Classify(code) # "fatal"
     /\ previousSession' = session /\ session' = NoSession
     /\ IF Classify(code) = "recreate" THEN PlanRefresh ELSE PlanCreate
     /\ Unbinds
     /\ UNCHANGED <<forceRebindOutstanding, heartbeatFailures>>

\* loop_reason
LoopReason ==
  CASE forceRebindOutstanding -> "forcedByClient"
    [] ~forceRebindOutstanding /\ IsPolling -> "pollCycleExpired"
    [] ~forceRebindOutstanding /\ ~IsPolling /\ EndsOnContentLength -> "contentLengthReached"
    [] OTHER -> "looped"

OnLoop(delayed) ==
  /\ forceRebindOutstanding' = FALSE
  /\ PlanRebind(LoopReason, delayed)
  /\ Unbinds
  /\ UNCHANGED <<sessionVars, heartbeatFailures>>

\* on_prog: only the first one, and only in answer to a recovery request.
OnProg(at) ==
  /\ intent.kind = "recover" /\ ~progHonoured
  /\ progHonoured' = TRUE
  /\ \/ /\ at = intent.requested
        /\ out' = {[ev |-> "recovered", kind |-> "exact"]}
        /\ UNCHANGED <<progressive, skipRemaining>>
     \/ /\ at < intent.requested
        /\ skipRemaining' = intent.requested - at
        /\ out' = {[ev |-> "recovered", kind |-> "duplicated"]}
        /\ UNCHANGED progressive
     \/ /\ at > intent.requested
        /\ progressive' = at
        /\ out' = {[ev |-> "recovered", kind |-> "gap"]}
        /\ UNCHANGED skipRemaining
  /\ UNCHANGED <<streamVars, sessionVars, registryVars, controlVars, flagVars,
                 retryVars, stop>>

\* take_pending: a request of another session is forgotten, not acted upon.
Answered(i) ==
  IF i \in RequestIds /\ pending[i] # NoRequest /\ pending[i].gen = generation
  THEN pending[i] ELSE NoRequest
ForgetsRequest(i) ==
  pending' = [j \in RequestIds |-> IF j = i THEN NoRequest ELSE pending[j]]

\* on_request_ok: only a granted frequency changes the desired set.
OnRequestOk(i) ==
  LET p == Answered(i)
  IN /\ ForgetsRequest(i)
     /\ reg' = IF p.kind = "reconfigure" /\ Registered(KeyOf(p))
               THEN [reg EXCEPT ![KeyOf(p)].freq = p.freq] ELSE reg
     /\ out' = {Response(p.kind, KeyOf(p), "accepted")}
     /\ UNCHANGED <<streamVars, sessionVars, recoveryVars, bySubId, nextSubId,
                    wanted, generation, nextRequestId, flagVars, retryVars, stop>>

\* Mutant: the sub id of a refused subscription stays in the index.
RefusesSubscribeOnly(k) ==
  /\ reg' = [reg EXCEPT ![k] = IF Registered(k)
                               THEN [@ EXCEPT !.state = "gone", !.wire = NoId] ELSE @]
  /\ wanted' = wanted \ {k}
  /\ UNCHANGED bySubId

\* on_request_error
RefusesSubscribe(k) ==
  /\ reg' = [reg EXCEPT ![k] = IF Registered(k)
                               THEN [@ EXCEPT !.state = "gone", !.wire = NoId] ELSE @]
  /\ bySubId' = [i \in SubIds |-> IF Registered(k) /\ i = reg[k].wire THEN NoKey ELSE bySubId[i]]
  /\ wanted' = wanted \ {k}

RefusesUnsubscribe(k) ==
  /\ reg' = [reg EXCEPT ![k] =
       IF Registered(k)
       THEN [@ EXCEPT !.state = IF reg[k].wasActive THEN "active" ELSE "pending"] ELSE @]
  /\ UNCHANGED <<bySubId, wanted>>

OnRequestError(i) ==
  LET p == Answered(i)
  IN /\ ForgetsRequest(i)
     /\ \/ p.kind = "subscribe" /\ RefusesSubscribe(KeyOf(p))
        \/ p.kind = "unsubscribe" /\ RefusesUnsubscribe(KeyOf(p))
        \/ /\ p.kind \notin {"subscribe", "unsubscribe"}
           /\ UNCHANGED <<reg, bySubId, wanted>>
     /\ forceRebindOutstanding' = (forceRebindOutstanding /\ p.kind # "forceRebind")
     /\ destroyRequested' = (destroyRequested /\ p.kind # "destroy")
     /\ out' = {Response(p.kind, KeyOf(p), "rejected")}
                 \cup (IF p.kind = "message" THEN {MessageEvent(p.msg, "refused")} ELSE {})
     /\ UNCHANGED <<streamVars, sessionVars, recoveryVars, nextSubId, generation,
                    nextRequestId, retryVars, stop>>

-----------------------------------------------------------------------------
(* Data notifications *)

\* Mutant: a discarded duplicate is counted like a notification handed on.
SkipsDuplicateCounting ==
  /\ skipRemaining > 0
  /\ skipRemaining' = skipRemaining - 1
  /\ progressive' = progressive + 1
  /\ refreshStreak' = 0
  /\ out' = {}
  /\ UNCHANGED <<streamVars, sessionVars, progHonoured, registryVars,
                 controlVars, flagVars, attempts, heartbeatFailures, stop>>

\* on_data, while a recovery re-delivers what the client already has.
SkipsDuplicate ==
  /\ skipRemaining > 0
  /\ skipRemaining' = skipRemaining - 1
  /\ refreshStreak' = 0
  /\ out' = {}
  /\ UNCHANGED <<streamVars, sessionVars, progressive, progHonoured, registryVars,
                 controlVars, flagVars, attempts, heartbeatFailures, stop>>

\* Mutant: the counter grows past its width.
IncrementedUnchecked(n) == n + 1
Incremented(n) == IF n < ProgressiveMax THEN n + 1 ELSE n

\* on_data otherwise: counted (the counter sticks at its width), then delivered.
Counts ==
  /\ skipRemaining = 0
  /\ refreshStreak' = 0
  /\ progressive' = Incremented(progressive)
  /\ UNCHANGED <<streamVars, sessionVars, skipRemaining, progHonoured, nextSubId,
                 controlVars, flagVars, attempts, heartbeatFailures, stop>>

\* resolve_subscription
KeyAt(sub) == IF sub \in SubIds THEN bySubId[sub] ELSE NoKey
SubscriptionEvent(k, what) == [ev |-> "subscription", key |-> k, what |-> what]

\* interpret_for_subscription for SUBOK and SUBCMD
OnSubOk(sub) ==
  LET k == KeyAt(sub)
  IN /\ Counts
     /\ \/ /\ k = NoKey
           /\ out' = {} /\ UNCHANGED reg
        \/ /\ k # NoKey
           /\ reg' = [reg EXCEPT ![k].state = "active", ![k].wasActive = TRUE]
           /\ out' = {SubscriptionEvent(k, "activated")}
     /\ UNCHANGED <<bySubId, wanted>>

\* interpret_for_subscription for UNSUB: the entry goes, with its terminal event.
OnUnsub(sub) ==
  LET k == KeyAt(sub)
  IN /\ Counts
     /\ \/ /\ k = NoKey
           /\ out' = {} /\ UNCHANGED <<reg, bySubId, wanted>>
        \/ /\ k # NoKey
           /\ reg' = [reg EXCEPT ![k].state = "gone", ![k].wire = NoId]
           /\ bySubId' = [bySubId EXCEPT ![sub] = NoKey]
           /\ wanted' = wanted \ {k}
           /\ out' = {SubscriptionEvent(k, "unsubscribed")}

\* interpret_for_subscription for U, EOS, CS, OV and CONF, and for data that
\* names no subscription.
OnUpdate(sub) ==
  /\ Counts
  /\ out' = IF KeyAt(sub) = NoKey THEN {} ELSE {SubscriptionEvent(KeyAt(sub), "data")}
  /\ UNCHANGED <<reg, bySubId, wanted>>

\* Mutant: the outcome of a message is handed on before it is counted.
OnMessageOutcomeUncounted(m, result) ==
  /\ skipRemaining = 0
  /\ refreshStreak' = 0
  /\ out' = {MessageEvent(m, result)}
  /\ UNCHANGED <<streamVars, sessionVars, recoveryVars, registryVars,
                 controlVars, flagVars, attempts, heartbeatFailures, stop>>

\* on_data for MSGDONE and MSGFAIL
OnMessageOutcome(m, result) ==
  /\ Counts
  /\ out' = {MessageEvent(m, result)}
  /\ UNCHANGED <<reg, bySubId, wanted>>

\* on_line: a line that does not parse is handed on and not counted.  It stands
\* too for the lines that only report: ERROR, SYNC, PROBE, NOOP, CONS, SERVNAME.
OnUnparsed ==
  /\ out' = {[ev |-> "unparsed"]}
  /\ UNCHANGED <<streamVars, sessionVars, recoveryVars, registryVars, controlVars,
                 flagVars, retryVars, stop>>

OnLine(n) ==
  /\ phase = "pumping"
  /\ \/ n.t = "CONOK" /\ OnConOk(n.session)
     \/ n.t = "CONERR" /\ OnConErr(n.code)
     \/ n.t = "END" /\ OnEnd(n.code)
     \/ n.t = "LOOP" /\ OnLoop(n.delayed)
     \/ n.t = "PROG" /\ OnProg(n.at)
     \/ n.t = "REQOK" /\ OnRequestOk(n.id)
     \/ n.t = "REQERR" /\ OnRequestError(n.id)
     \/ n.t \in {"SUBOK", "UNSUB", "UPDATE", "MSGDONE", "MSGFAIL"} /\ SkipsDuplicate
     \/ n.t = "SUBOK" /\ OnSubOk(n.sub)
     \/ n.t = "UNSUB" /\ OnUnsub(n.sub)
     \/ n.t = "UPDATE" /\ OnUpdate(n.sub)
     \/ n.t = "MSGDONE" /\ OnMessageOutcome(n.msg, "done")
     \/ n.t = "MSGFAIL" /\ OnMessageOutcome(n.msg, "failed")
     \/ n.t = "UNPARSED" /\ OnUnparsed

-----------------------------------------------------------------------------
(* Commands *)

HasRequestId == nextRequestId < RequestIdMax

\* next_request_id and dispatch of one request: refused for want of an id, sent
\* and pending, or not sent.  In both other cases the caller is answered "notSent".
NoIdLeft(kind, k) ==
  /\ ~HasRequestId
  /\ out' = {Response(kind, k, "notSent")}
  /\ UNCHANGED <<pending, nextRequestId>>
Sent(p) ==
  /\ HasRequestId
  /\ pending' = [pending EXCEPT ![nextRequestId] = p]
  /\ nextRequestId' = nextRequestId + 1
  /\ out' = {}
NotSent(p) ==
  /\ HasRequestId
  /\ nextRequestId' = nextRequestId + 1
  /\ out' = {Response(p.kind, KeyOf(p), "notSent")}
  /\ UNCHANGED pending
Dispatches(p) == NoIdLeft(p.kind, KeyOf(p)) \/ Sent(p) \/ NotSent(p)

Ignored ==
  /\ out' = {}
  /\ UNCHANGED <<pending, nextRequestId>>

\* on_command, Subscribe: the facade never hands out a key twice.
OnSubscribe(k) ==
  LET r == [reg EXCEPT ![k] = [state |-> "pending", wire |-> NoId,
                               wasActive |-> FALSE, freq |-> "none"]]
      todo == IF streamState = "bound" /\ session # NoSession THEN {k} ELSE {}
  IN /\ reg[k].state = "unused"
     /\ \E failed \in SUBSET WithIds(todo, nextSubId) :
          /\ IssueSubscriptions(todo, nextSubId, failed, r, bySubId, pending, generation)
          /\ out' = NotIssued(todo, nextSubId, failed)
     /\ wanted' = wanted \cup {k}
     /\ UNCHANGED <<streamVars, sessionVars, recoveryVars, generation, flagVars,
                    retryVars, stop>>

\* unsubscribe
OnUnsubscribe(k) ==
  /\ \/ /\ ~Registered(k)
        /\ Ignored /\ UNCHANGED reg
     \/ /\ Registered(k) /\ reg[k].wire = NoId
        /\ reg' = [reg EXCEPT ![k].state = "gone"]
        /\ Ignored
     \/ /\ Registered(k) /\ reg[k].wire # NoId
        /\ reg' = [reg EXCEPT ![k].state = "removing"]
        /\ \/ session = NoSession /\ Ignored
           \/ /\ session # NoSession
              /\ Dispatches([kind |-> "unsubscribe", key |-> k, gen |-> generation])
  /\ wanted' = wanted \ {k}
  /\ UNCHANGED <<streamVars, sessionVars, recoveryVars, bySubId, nextSubId,
                 generation, flagVars, retryVars, stop>>

\* reconfigure
OnReconfigure(k, f) ==
  /\ \/ /\ ~Registered(k) \/ reg[k].wire = NoId \/ session = NoSession
        /\ Ignored
     \/ /\ Registered(k) /\ reg[k].wire # NoId /\ session # NoSession
        /\ Dispatches([kind |-> "reconfigure", key |-> k, freq |-> f, gen |-> generation])
  /\ UNCHANGED <<streamVars, sessionVars, recoveryVars, registryVars, generation,
                 flagVars, retryVars, stop>>

\* send_message: whatever keeps it from being sent is reported for the message too.
OnSendMessage(m) ==
  LET p == [kind |-> "message", msg |-> m, gen |-> generation]
      reported == MessageEvent(m, "notSent")
  IN /\ \/ /\ streamState # "bound" \/ session = NoSession
           /\ out' = {reported}
           /\ UNCHANGED <<pending, nextRequestId>>
        \/ /\ streamState = "bound" /\ session # NoSession
           /\ \/ Sent(p)
              \/ /\ HasRequestId
                 /\ nextRequestId' = nextRequestId + 1
                 /\ out' = {Response("message", NoKey, "notSent"), reported}
                 /\ UNCHANGED pending
              \/ /\ ~HasRequestId
                 /\ out' = {Response("message", NoKey, "notSent"), reported}
                 /\ UNCHANGED <<pending, nextRequestId>>
     /\ UNCHANGED <<streamVars, sessionVars, recoveryVars, registryVars, generation,
                    flagVars, retryVars, stop>>

\* on_command, ForceRebind: the flag is up before the request leaves, and stays
\* up when it could not be sent.
OnForceRebind ==
  /\ \/ /\ streamState # "bound" \/ session = NoSession
        /\ Ignored /\ UNCHANGED forceRebindOutstanding
     \/ /\ streamState = "bound" /\ session # NoSession
        /\ forceRebindOutstanding' = (forceRebindOutstanding \/ HasRequestId)
        /\ Dispatches([kind |-> "forceRebind", gen |-> generation])
  /\ UNCHANGED <<streamVars, sessionVars, recoveryVars, registryVars, generation,
                 destroyRequested, retryVars, stop>>

\* destroy: waits for the END only when it was sent on a bound stream.
OnDestroy ==
  \/ /\ session = NoSession
     /\ Closes("byClient")
  \/ /\ session # NoSession /\ ~HasRequestId
     /\ ClosesAfter({Response("destroy", NoKey, "notSent")}, "internal")
  \/ /\ session # NoSession /\ streamState = "bound"
     /\ Sent([kind |-> "destroy", gen |-> generation])
     /\ destroyRequested' = TRUE
     /\ UNCHANGED <<streamVars, sessionVars, recoveryVars, registryVars, generation,
                    forceRebindOutstanding, retryVars, stop>>
  \/ /\ session # NoSession /\ HasRequestId  \* not sent
     /\ ClosesAfter({Response("destroy", NoKey, "notSent")}, "byClient")
  \/ /\ session # NoSession /\ HasRequestId /\ streamState # "bound"
     /\ Closes("byClient")

OnCommand(c) ==
  /\ Serving
  /\ \/ c.t = "Subscribe" /\ OnSubscribe(c.key)
     \/ c.t = "Unsubscribe" /\ OnUnsubscribe(c.key)
     \/ c.t = "Reconfigure" /\ OnReconfigure(c.key, c.freq)
     \/ c.t = "SendMessage" /\ OnSendMessage(c.msg)
     \/ c.t = "ForceRebind" /\ OnForceRebind
     \/ c.t = "Destroy" /\ OnDestroy
     \/ c.t = "Shutdown" /\ Closes("byClient")

\* SessionHandle::stop, or the last handle dropped.
OrderStop ==
  /\ ~stop
  /\ stop' = TRUE /\ out' = {}
  /\ UNCHANGED <<streamVars, sessionVars, recoveryVars, registryVars, controlVars,
                 flagVars, retryVars>>

-----------------------------------------------------------------------------
Next ==
  \/ DelayElapses
  \/ Established
  \/ OpenFails
  \/ StreamFails
  \/ StreamEnds
  \/ InboundStalled
  \/ HeartbeatDue
  \/ StopObserved
  \/ OrderStop
  \/ \E n \in Notifications : OnLine(n)
  \/ \E c \in Commands : OnCommand(c)

Spec == Init /\ [][Next]_vars

-----------------------------------------------------------------------------
(* Properties *)

StreamTypeOK ==
  /\ phase \in {"waiting", "opening", "pumping", "closed"}
  /\ closed \in {"open", "byClient", "byClientConfirmed", "byServer",
                 "retriesExhausted", "internal"}
  /\ streamState \in {"establishing", "bound"}
  /\ intent \in Intents
  /\ session \in Sessions \cup {NoSession}
  /\ previousSession \in Sessions \cup {NoSession}
  /\ stop \in BOOLEAN
RecoveryTypeOK ==
  /\ progressive \in 0 .. ProgressiveMax
  /\ skipRemaining \in 0 .. ProgressiveMax
  /\ progHonoured \in BOOLEAN
RetryTypeOK ==
  /\ attempts \in Nat /\ refreshStreak \in Nat
  /\ heartbeatFailures \in 0 .. MaxHeartbeatFailures - 1
RegistryTypeOK ==
  /\ reg \in [Keys -> Entries]
  /\ bySubId \in [SubIds -> Keys \cup {NoKey}]
  /\ nextSubId \in 1 .. SubIdMax
  /\ wanted \in SUBSET Keys
RequestTypeOK ==
  /\ pending \in [RequestIds -> PendingRequests \cup {NoRequest}]
  /\ generation \in Nat
  /\ nextRequestId \in 1 .. RequestIdMax
  /\ forceRebindOutstanding \in BOOLEAN /\ destroyRequested \in BOOLEAN

\* Every variable keeps its type, whatever the server sends: no counter outgrows
\* its width, no id is handed out at its maximum.
TypeOK ==
  StreamTypeOK /\ RecoveryTypeOK /\ RetryTypeOK /\ RegistryTypeOK /\ RequestTypeOK

\* The index that attributes a data notification to a subscription and the
\* bindings the registry holds are inverses of each other: a line is never
\* delivered to a subscription that does not own its sub id, and no bound
\* subscription is deaf.
IndexMatchesRegistry ==
  \A k \in Keys, i \in SubIds : bySubId[i] = k <=> reg[k].wire = i

\* A request in flight belongs to the current session and its id has been
\* consumed, so no answer of a replaced session can touch its successor's state.
NoStaleRequest ==
  \A i \in RequestIds : pending[i] # NoRequest =>
    pending[i].gen = generation /\ i < nextRequestId

\* A subscription has at most one add in flight, and while it is registered that
\* add is the one that made its binding: a refusal never takes away a newer one.
OneAddInFlight ==
  \A i \in RequestIds : pending[i] # NoRequest /\ pending[i].kind = "subscribe" =>
    LET k == pending[i].key
    IN /\ Registered(k) => reg[k].wire # NoId
       /\ \A j \in RequestIds \ {i} :
            pending[j] # NoRequest /\ pending[j].kind = "subscribe" => pending[j].key # k

\* The desired set survives everything the driver does: a subscription the caller
\* neither gave up nor was told it lost is still registered, and not being removed.
NothingLostSilently ==
  \A k \in wanted : reg[k].state \in {"pending", "active"}

\* A bind leaves every wanted subscription bound to the session, or tells the
\* caller that its add was not sent; the one exception is a spent sub id space.
BindStep == \E e \in out' : e.ev = "bound"
ReissuedAtBind ==
  [][BindStep => \A k \in wanted :
       \/ reg'[k].wire # NoId
       \/ Response("subscribe", k, "notSent") \in out'
       \/ nextSubId' = SubIdMax]_vars

\* On one session no sub id is handed out twice, not even one whose add was never
\* sent; on one driver no request id is.
IdsAreFresh ==
  [][/\ generation' = generation => nextSubId' >= nextSubId
     /\ \A k \in Keys : reg'[k].wire \notin {NoId, reg[k].wire} =>
          /\ reg'[k].wire < nextSubId'
          /\ generation' = generation => reg'[k].wire >= nextSubId
     /\ \A i \in RequestIds : pending'[i] \notin {NoRequest, pending[i]} =>
          nextRequestId <= i /\ i < nextRequestId']_vars

\* No control request vanishes: one that stops being in flight is answered in the
\* same step, be it by the server or by the replacement of its session, and a
\* message retired with its session is reported for itself too.
NoRequestForgotten ==
  [][\A i \in RequestIds : pending[i] # NoRequest /\ pending'[i] # pending[i] =>
       /\ \E outcome \in {"accepted", "rejected", "notSent"} :
            Response(pending[i].kind, KeyOf(pending[i]), outcome) \in out'
       /\ pending[i].kind = "message" /\ generation' # generation =>
            MessageEvent(pending[i].msg, "notSent") \in out']_vars

\* A bound stream belongs to a session the driver knows, which is what lets a
\* command served on it name that session.
BoundHasSession == streamState = "bound" => session # NoSession

\* "Entries that were being removed are dropped outright": once the caller gave a
\* subscription up, it is not added to the server again.
GivenUpStaysGone ==
  [][\A i \in RequestIds : pending'[i] # pending[i] /\ pending'[i].kind = "subscribe" =>
       pending'[i].key \in wanted']_vars
=============================================================================

-------------------------- MODULE SessionDriverProofs --------------------------
(***************************************************************************)
(* The session driver, for every number of subscriptions, sessions and     *)
(* messages and for any server: its state is well typed; its registry, the *)
(* index of its sub ids and the control requests in flight agree; what a   *)
(* step of it may never do - hand an id out twice, forget a request, leave *)
(* a wanted subscription out of a bind, claim a continuity that there is   *)
(* not; and that it keeps the contract of SessionPort.                     *)
(***************************************************************************)
EXTENDS DriverContract, SessionLifecycle, FiniteSetTheorems, TLAPS

-----------------------------------------------------------------------------
(* Ranks: the ids given to a set of keys are distinct and consecutive. *)

LEMMA RankType ==
  ASSUME NEW todo \in SUBSET Keys, NEW k \in Keys
  PROVE  Rank(todo, k) \in Nat
  BY KeysAssumption, FS_Subset, FS_CardinalityType DEF Rank

LEMMA RankBelowCardinality ==
  ASSUME NEW todo \in SUBSET Keys, NEW k \in todo
  PROVE  Rank(todo, k) < Cardinality(todo)
<1> DEFINE below == {j \in todo : j < k}
<1>1. IsFiniteSet(todo) /\ Cardinality(todo) \in Nat
  BY KeysAssumption, FS_Subset, FS_CardinalityType
<1>2. below \in SUBSET todo /\ k \notin below
  BY KeysAssumption
<1>3. Cardinality(below) \in Nat /\ Cardinality(below) <= Cardinality(todo)
  BY <1>1, <1>2, FS_Subset, FS_CardinalityType
<1>4. Cardinality(below) # Cardinality(todo)
  BY <1>1, <1>2, FS_Subset
<1>. QED BY <1>1, <1>3, <1>4 DEF Rank

LEMMA RankIncreases ==
  ASSUME NEW todo \in SUBSET Keys, NEW j \in todo, NEW k \in todo, j < k
  PROVE  Rank(todo, j) < Rank(todo, k)
<1> DEFINE belowJ == {i \in todo : i < j}
           belowK == {i \in todo : i < k}
<1>1. IsFiniteSet(belowK) /\ Cardinality(belowK) \in Nat
  BY KeysAssumption, FS_Subset, FS_CardinalityType
<1>2. belowJ \in SUBSET belowK /\ j \in belowK /\ j \notin belowJ
  <2>1. todo \subseteq Nat /\ j \in Nat /\ k \in Nat
    BY KeysAssumption
  <2>2. \A i \in Nat : i < j => i < k
    BY <2>1
  <2>3. j \in belowK /\ j \notin belowJ
    BY <2>1
  <2>4. \A i \in belowJ : i \in belowK
    BY <2>1, <2>2
  <2>. QED BY <2>3, <2>4
<1>3. Cardinality(belowJ) \in Nat /\ Cardinality(belowJ) <= Cardinality(belowK)
  BY <1>1, <1>2, FS_Subset, FS_CardinalityType
<1>4. Cardinality(belowJ) # Cardinality(belowK)
  BY <1>1, <1>2, FS_Subset
<1>. QED BY <1>1, <1>3, <1>4 DEF Rank

LEMMA RankInjective ==
  ASSUME NEW todo \in SUBSET Keys, NEW j \in todo, NEW k \in todo,
         Rank(todo, j) = Rank(todo, k)
  PROVE  j = k
<1>1. j \in Nat /\ k \in Nat
  BY KeysAssumption
<1>2. Rank(todo, j) \in Nat /\ Rank(todo, k) \in Nat
  BY RankType
<1>3. ~(j < k) /\ ~(k < j)
  BY <1>2, RankIncreases
<1>. QED BY <1>1, <1>3

-----------------------------------------------------------------------------
(* Issuing subscriptions *)

\* What IssueSubscriptions does to each key, each id and each counter, with the
\* arithmetic of ranks gone: sub ids are fresh, distinct and in range.
LEMMA Issued ==
  ASSUME RegistryTypeOK, RequestTypeOK,
         NEW todo \in SUBSET Keys, NEW next \in 1 .. SubIdMax, NEW failed,
         NEW r \in [Keys -> Entries], NEW ix, NEW pend, NEW gen,
         NEW sent, sent = WithIds(todo, next) \ failed,
         IssueSubscriptions(todo, next, failed, r, ix, pend, gen)
  PROVE  /\ sent \subseteq todo
         /\ \A k \in sent : /\ next + Rank(todo, k) \in SubIds
                            /\ next + Rank(todo, k) < nextSubId'
                            /\ nextRequestId + Rank(todo, k) \in RequestIds
                            /\ nextRequestId + Rank(todo, k) < nextRequestId'
                            /\ Rank(todo, k) \in Nat
         /\ nextSubId' \in next .. SubIdMax
         /\ nextRequestId' \in nextRequestId .. RequestIdMax
         /\ reg' = Bindings(todo, next, sent, r)
<1> DEFINE issuable == WithSubId(todo, next)
<1>1. sent \subseteq issuable /\ issuable \in SUBSET todo /\ issuable \in SUBSET Keys
  BY DEF WithIds, WithSubId
<1>2. \A k \in Keys : Rank(todo, k) \in Nat
  BY RankType
<1>3. \A k \in todo : Rank(todo, k) < Cardinality(todo)
  BY RankBelowCardinality
<1>4. Cardinality(todo) \in Nat /\ Cardinality(issuable) \in Nat
  BY <1>1, KeysAssumption, FS_Subset, FS_CardinalityType
<1>5. \A k \in issuable : Rank(todo, k) < Cardinality(issuable)
  <2> SUFFICES ASSUME NEW k \in issuable PROVE Rank(todo, k) < Cardinality(issuable)
    OBVIOUS
  <2>1. {j \in todo : j < k} = {j \in issuable : j < k}
    <3>1. ASSUME NEW j \in todo, j < k PROVE j \in issuable
      <4>1. Rank(todo, j) < Rank(todo, k)
        BY <1>1, <3>1, RankIncreases
      <4>2. next + Rank(todo, k) < SubIdMax
        BY DEF WithSubId
      <4>. QED BY <1>2, <4>1, <4>2, <1>1, BoundsAssumption DEF WithSubId
    <3>. QED BY <1>1, <3>1
  <2>2. Rank(todo, k) = Rank(issuable, k)
    BY <2>1 DEF Rank
  <2>. QED BY <1>1, <2>2, RankBelowCardinality
<1>6. /\ nextSubId' = SubIdAfter(todo, next)
      /\ nextRequestId' = AtMost(nextRequestId + Cardinality(issuable), RequestIdMax)
      /\ reg' = Bindings(todo, next, sent, r)
  BY DEF IssueSubscriptions
<1>7. nextRequestId \in 1 .. RequestIdMax
  BY DEF RequestTypeOK
<1>8. nextSubId' \in next .. SubIdMax
  BY <1>4, <1>6, BoundsAssumption DEF SubIdAfter, AtMost
<1>9. nextRequestId' \in nextRequestId .. RequestIdMax
  BY <1>4, <1>6, <1>7, BoundsAssumption DEF AtMost
<1>10. ASSUME NEW k \in sent
       PROVE /\ next + Rank(todo, k) \in SubIds
             /\ next + Rank(todo, k) < nextSubId'
  <2>1. k \in todo /\ Rank(todo, k) \in Nat /\ next + Rank(todo, k) < SubIdMax
    BY <1>1, <1>2 DEF WithSubId
  <2>2. Rank(todo, k) < Cardinality(todo)
    BY <2>1, <1>3
  <2>. QED BY <2>1, <2>2, <1>4, <1>6, BoundsAssumption DEF SubIds, SubIdAfter, AtMost
<1>11. ASSUME NEW k \in sent
       PROVE /\ nextRequestId + Rank(todo, k) \in RequestIds
             /\ nextRequestId + Rank(todo, k) < nextRequestId'
  <2>1. k \in issuable /\ Rank(todo, k) \in Nat /\ nextRequestId + Rank(todo, k) < RequestIdMax
    BY <1>1, <1>2 DEF WithIds
  <2>2. Rank(todo, k) < Cardinality(issuable)
    BY <2>1, <1>5
  <2>. QED BY <2>1, <2>2, <1>4, <1>6, <1>7, BoundsAssumption DEF RequestIds, AtMost
<1>. QED BY <1>1, <1>2, <1>6, <1>8, <1>9, <1>10, <1>11

-----------------------------------------------------------------------------
(* Type correctness *)

\* The types, and what keeps skipRemaining in range: a recovery never asks to
\* resume beyond the width of the counter.
RequestedInRange == intent.requested <= ProgressiveMax
TypeInv == TypeOK /\ RequestedInRange

\* What planning the next connection leaves behind.
PlannedOK ==
  /\ phase' \in {"waiting", "opening", "closed"}
  /\ closed' \in {closed, "retriesExhausted"}
  /\ intent' \in Intents /\ intent'.requested <= ProgressiveMax
  /\ skipRemaining' \in 0 .. ProgressiveMax /\ progHonoured' \in BOOLEAN
  /\ attempts' \in Nat /\ refreshStreak' \in Nat

LEMMA TypeInit == Init => TypeInv
<1> SUFFICES ASSUME Init PROVE TypeInv
  OBVIOUS
<1>1. StreamTypeOK /\ RecoveryTypeOK /\ RetryTypeOK /\ RequestedInRange
  <2>1. progHonoured \in BOOLEAN /\ stop \in BOOLEAN
    BY DEF Init
  <2>2. RetryTypeOK /\ intent \in Intents /\ RequestedInRange
    BY BoundsAssumption DEF Init, RetryTypeOK, RequestedInRange, Intents, MaxHeartbeatFailures
  <2>3. progressive \in 0 .. ProgressiveMax /\ skipRemaining \in 0 .. ProgressiveMax
    BY BoundsAssumption DEF Init
  <2>. QED BY <2>1, <2>2, <2>3 DEF Init, StreamTypeOK, RecoveryTypeOK
<1>2. RegistryTypeOK
  <2>1. [state |-> "unused", wire |-> NoId, wasActive |-> FALSE, freq |-> "none"] \in Entries
    BY DEF Entries
  <2>. QED BY <2>1, BoundsAssumption DEF Init, RegistryTypeOK
<1>3. RequestTypeOK
  <2>1. forceRebindOutstanding \in BOOLEAN /\ destroyRequested \in BOOLEAN
    BY DEF Init
  <2>2. generation = 1 /\ nextRequestId = 1 /\ pending = [i \in RequestIds |-> NoRequest]
    BY DEF Init
  <2>. QED BY <2>1, <2>2, BoundsAssumption DEF RequestTypeOK
<1>. QED BY <1>1, <1>2, <1>3 DEF TypeInv, TypeOK

LEMMA ReopensPlans ==
  ASSUME TypeInv, NEW reason, NEW kind \in {"create", "rebind", "recover"},
         NEW requested \in 0 .. ProgressiveMax, NEW phases \in SUBSET {"waiting", "opening"},
         Reopens(reason, kind, requested, phases),
         attempts' \in Nat, refreshStreak' \in Nat
  PROVE  PlannedOK
<1>1. phase' \in {"waiting", "opening"}
  BY DEF Reopens
<1>2. intent' \in Intents /\ intent'.requested <= ProgressiveMax
  BY BoundsAssumption DEF Reopens, Intents
<1>3. skipRemaining' \in 0 .. ProgressiveMax /\ closed' = closed
  BY BoundsAssumption DEF Reopens
<1>4. progHonoured' \in BOOLEAN
  BY DEF Reopens
<1>. QED BY <1>1, <1>2, <1>3, <1>4 DEF PlannedOK

LEMMA GivesUpPlans ==
  ASSUME TypeInv, NEW reason, GivesUp(reason), attempts' \in Nat, refreshStreak' \in Nat
  PROVE  PlannedOK
  BY DEF GivesUp, PlannedOK, TypeInv, TypeOK, StreamTypeOK, RecoveryTypeOK, RequestedInRange

LEMMA RetriesPlans ==
  ASSUME TypeInv, NEW reason, NEW kind \in {"create", "rebind", "recover"},
         NEW requested \in 0 .. ProgressiveMax,
         RetriesAfter(reason, kind, requested), refreshStreak' \in Nat
  PROVE  PlannedOK
<1>1. attempts' \in Nat
  BY DEF RetriesAfter, TypeInv, TypeOK, RetryTypeOK
<1>2. CASE GivesUp(reason)
  BY <1>1, <1>2, GivesUpPlans
<1>3. CASE Reopens(reason, kind, requested, {"waiting", "opening"})
  BY <1>1, <1>3, ReopensPlans
<1>. QED BY <1>2, <1>3 DEF RetriesAfter

LEMMA PlanPlans ==
  ASSUME TypeInv, NEW reason, NEW delayed,
         PlanRebind(reason, delayed) \/ PlanRecovery(reason) \/ PlanCreate \/ PlanRefresh
  PROVE  PlannedOK
<1>1. 0 \in 0 .. ProgressiveMax /\ progressive \in 0 .. ProgressiveMax
  BY BoundsAssumption DEF TypeInv, TypeOK, RecoveryTypeOK
<1>2. CASE PlanRebind(reason, delayed)
  <2> DEFINE phases == IF delayed THEN {"waiting"} ELSE {"opening"}
  <2>1. /\ attempts' = 0 /\ refreshStreak' = 0
        /\ Reopens(reason, "rebind", 0, phases)
    BY <1>2 DEF PlanRebind
  <2>2. phases \in SUBSET {"waiting", "opening"}
    OBVIOUS
  <2>. QED BY <1>1, <2>1, <2>2, ReopensPlans
<1>3. CASE PlanRecovery(reason)
  <2>1. refreshStreak' = 0
    BY <1>3 DEF PlanRecovery
  <2>2. CASE RetriesAfter(reason, "recover", progressive)
    BY <1>1, <2>1, <2>2, RetriesPlans
  <2>3. CASE RetriesAfter(reason, "create", 0)
    BY <1>1, <2>1, <2>3, RetriesPlans
  <2>. QED BY <1>3, <2>2, <2>3 DEF PlanRecovery
<1>4. CASE PlanCreate
  BY <1>1, <1>4, RetriesPlans DEF PlanCreate
<1>5. CASE PlanRefresh
  <2>1. refreshStreak' \in Nat /\ attempts \in Nat
    BY <1>5 DEF PlanRefresh, TypeInv, TypeOK, RetryTypeOK
  <2>2. CASE attempts' = 0 /\ Reopens("serverRefresh", "create", 0, {"opening"})
    BY <1>1, <2>1, <2>2, ReopensPlans
  <2>3. CASE GivesUp("serverRefresh") /\ UNCHANGED attempts
    BY <2>1, <2>3, GivesUpPlans
  <2>4. CASE RetriesAfter("serverRefresh", "create", 0)
    BY <1>1, <2>1, <2>4, RetriesPlans
  <2>. QED BY <1>5, <2>2, <2>3, <2>4 DEF PlanRefresh
<1>. QED BY <1>2, <1>3, <1>4, <1>5

\* An unbind that plans: everything planning and Unbinds do not touch keeps its type.
LEMMA UnbindType ==
  ASSUME TypeInv, PlannedOK, Unbinds,
         session' \in {session, NoSession}, previousSession' \in {session, previousSession},
         forceRebindOutstanding' \in BOOLEAN,
         heartbeatFailures' \in 0 .. MaxHeartbeatFailures - 1
  PROVE  TypeInv'
<1>1. StreamTypeOK' /\ RecoveryTypeOK' /\ RetryTypeOK' /\ RequestedInRange'
  BY DEF TypeInv, TypeOK, PlannedOK, Unbinds, StreamTypeOK, RecoveryTypeOK, RetryTypeOK,
         RequestedInRange
<1>2. RegistryTypeOK' /\ RequestTypeOK'
  BY DEF TypeInv, TypeOK, Unbinds, registryVars, controlVars, RegistryTypeOK, RequestTypeOK
<1>. QED BY <1>1, <1>2 DEF TypeInv, TypeOK

LEMMA ConnectionLostType ==
  ASSUME TypeInv, NEW reason, ConnectionLost(reason),
         heartbeatFailures' \in 0 .. MaxHeartbeatFailures - 1
  PROVE  TypeInv'
<1>1. PlannedOK /\ Unbinds
  BY PlanPlans DEF ConnectionLost
<1>. QED BY <1>1, UnbindType
         DEF ConnectionLost, sessionVars, TypeInv, TypeOK, RequestTypeOK

LEMMA ClosesType ==
  ASSUME TypeInv, NEW events,
         NEW how \in {"byClient", "byClientConfirmed", "byServer", "internal"},
         ClosesAfter(events, how)
  PROVE  TypeInv'
<1>1. StreamTypeOK' /\ RecoveryTypeOK' /\ RetryTypeOK' /\ RequestedInRange'
  BY DEF TypeInv, TypeOK, ClosesAfter, sessionVars, recoveryVars, retryVars,
         StreamTypeOK, RecoveryTypeOK, RetryTypeOK, RequestedInRange
<1>2. RegistryTypeOK' /\ RequestTypeOK'
  BY DEF TypeInv, TypeOK, ClosesAfter, registryVars, controlVars, flagVars,
         RegistryTypeOK, RequestTypeOK
<1>. QED BY <1>1, <1>2 DEF TypeInv, TypeOK

\* A step that touches the registry and the requests only.
LEMMA ControlStepType ==
  ASSUME TypeInv, RegistryTypeOK', RequestTypeOK',
         UNCHANGED <<streamVars, sessionVars, recoveryVars, retryVars, stop>>
  PROVE  TypeInv'
<1>1. StreamTypeOK' /\ RecoveryTypeOK' /\ RetryTypeOK' /\ RequestedInRange'
  BY DEF TypeInv, TypeOK, streamVars, sessionVars, recoveryVars, retryVars,
         StreamTypeOK, RecoveryTypeOK, RetryTypeOK, RequestedInRange
<1>. QED BY <1>1 DEF TypeInv, TypeOK

\* The steps of the connection itself.
LEMMA ConnectionType ==
  ASSUME TypeInv,
         \/ DelayElapses \/ Established \/ OpenFails \/ StreamFails
         \/ StreamEnds \/ InboundStalled \/ HeartbeatDue \/ StopObserved \/ OrderStop
  PROVE  TypeInv'
<1>1. heartbeatFailures \in 0 .. MaxHeartbeatFailures - 1
  BY DEF TypeInv, TypeOK, RetryTypeOK
<1>2. ASSUME UNCHANGED <<closed, streamState, intent, sessionVars, recoveryVars,
                         registryVars, controlVars, flagVars, retryVars>>,
             phase' \in {"waiting", "opening", "pumping", "closed"}, stop' \in BOOLEAN
      PROVE  TypeInv'
  <2>1. StreamTypeOK' /\ RecoveryTypeOK' /\ RetryTypeOK' /\ RequestedInRange'
    BY <1>2 DEF TypeInv, TypeOK, sessionVars, recoveryVars, retryVars,
                StreamTypeOK, RecoveryTypeOK, RetryTypeOK, RequestedInRange
  <2>2. RegistryTypeOK' /\ RequestTypeOK'
    BY <1>2 DEF TypeInv, TypeOK, registryVars, controlVars, flagVars,
                RegistryTypeOK, RequestTypeOK
  <2>. QED BY <2>1, <2>2 DEF TypeInv, TypeOK
<1>3. stop \in BOOLEAN /\ phase \in {"waiting", "opening", "pumping", "closed"}
  BY DEF TypeInv, TypeOK, StreamTypeOK
<1>4. CASE DelayElapses
  BY <1>2, <1>3, <1>4 DEF DelayElapses
<1>5. CASE Established
  BY <1>2, <1>3, <1>5 DEF Established
<1>6. CASE OpenFails
  BY <1>1, <1>6, ConnectionLostType DEF OpenFails
<1>7. CASE StreamFails
  BY <1>1, <1>7, ConnectionLostType DEF StreamFails
<1>8. CASE StreamEnds
  <2>1. CASE Closes("byClient")
    BY <2>1, ClosesType DEF Closes
  <2>2. CASE /\ PlanRebind("pollCycleExpired", FALSE) /\ Unbinds
             /\ UNCHANGED <<sessionVars, forceRebindOutstanding, heartbeatFailures>>
    <3>1. PlannedOK
      BY <2>2, PlanPlans
    <3>. QED BY <1>1, <2>2, <3>1, UnbindType
             DEF sessionVars, TypeInv, TypeOK, RequestTypeOK
  <2>3. CASE ConnectionLost("connectionFailed") /\ UNCHANGED heartbeatFailures
    BY <1>1, <2>3, ConnectionLostType
  <2>. QED BY <1>8, <2>1, <2>2, <2>3 DEF StreamEnds
<1>9. CASE InboundStalled
  BY <1>1, <1>9, ConnectionLostType DEF InboundStalled
<1>10. CASE HeartbeatDue
  <2>1. CASE ConnectionLost("connectionFailed") /\ heartbeatFailures' = 0
    BY <2>1, ConnectionLostType DEF MaxHeartbeatFailures
  <2>2. CASE /\ UNCHANGED <<streamVars, sessionVars, recoveryVars, registryVars,
                            controlVars, flagVars, attempts, refreshStreak, stop>>
             /\ \/ heartbeatFailures' = 0
                \/ /\ heartbeatFailures + 1 < MaxHeartbeatFailures
                   /\ heartbeatFailures' = heartbeatFailures + 1
    <3>1. RetryTypeOK'
      BY <1>1, <2>2 DEF TypeInv, TypeOK, RetryTypeOK, MaxHeartbeatFailures
    <3>2. StreamTypeOK' /\ RecoveryTypeOK' /\ RequestedInRange'
      BY <2>2 DEF TypeInv, TypeOK, streamVars, sessionVars, recoveryVars,
                  StreamTypeOK, RecoveryTypeOK, RequestedInRange
    <3>3. RegistryTypeOK' /\ RequestTypeOK'
      BY <2>2 DEF TypeInv, TypeOK, registryVars, controlVars, flagVars,
                  RegistryTypeOK, RequestTypeOK
    <3>. QED BY <3>1, <3>2, <3>3 DEF TypeInv, TypeOK
  <2>. QED BY <1>10, <2>1, <2>2 DEF HeartbeatDue
<1>11. CASE StopObserved
  BY <1>11, ClosesType DEF StopObserved, Closes
<1>12. CASE OrderStop
  BY <1>2, <1>3, <1>12 DEF OrderStop, streamVars
<1>. QED BY <1>4, <1>5, <1>6, <1>7, <1>8, <1>9, <1>10, <1>11, <1>12

-----------------------------------------------------------------------------
(* Leaving a connection *)

\* What a step leaves behind that gives the connection up: a next one is planned, with
\* nothing skipped and nothing honoured yet, or there is none.
Leaves(kind) ==
  /\ phase' \in {"waiting", "opening", "closed"}
  /\ phase' # "closed" =>
       /\ streamState' = "establishing" /\ skipRemaining' = 0 /\ ~progHonoured'
       /\ intent'.kind = kind
       /\ kind = "recover" => intent'.requested = progressive
  /\ phase' = "closed" => intent' = intent
  /\ skipRemaining' \in {0, skipRemaining}
  /\ UNCHANGED <<progressive, registryVars, controlVars>>
  /\ \A e \in out' : e.ev \in {"unbound", "closed"}

LEMMA ReopensLeaves ==
  ASSUME NEW reason, NEW kind, NEW requested, NEW phases \in SUBSET {"waiting", "opening"},
         Reopens(reason, kind, requested, phases), Unbinds,
         kind = "recover" => requested = progressive
  PROVE  Leaves(kind)
  BY DEF Reopens, Unbinds, Leaves

LEMMA GivesUpLeaves ==
  ASSUME NEW reason, NEW kind, GivesUp(reason), Unbinds
  PROVE  Leaves(kind)
  BY DEF GivesUp, Unbinds, Leaves

LEMMA ClosesLeaves ==
  ASSUME NEW how, NEW kind, Closes(how)
  PROVE  Leaves(kind)
  BY DEF Closes, ClosesAfter, Leaves, recoveryVars

LEMMA RetriesLeaves ==
  ASSUME NEW reason, NEW kind, NEW requested, RetriesAfter(reason, kind, requested), Unbinds,
         kind = "recover" => requested = progressive
  PROVE  Leaves(kind)
  BY ReopensLeaves, GivesUpLeaves DEF RetriesAfter

\* Which bind follows: the session is recovered if there is one.
LEMMA LostLeaves ==
  ASSUME NEW reason, ConnectionLost(reason)
  PROVE  /\ Leaves(IF session # NoSession THEN "recover" ELSE "create")
         /\ session' = session
  BY RetriesLeaves DEF ConnectionLost, PlanRecovery, sessionVars

LEMMA LoopLeaves ==
  ASSUME NEW reason, NEW delayed \in BOOLEAN, PlanRebind(reason, delayed), Unbinds
  PROVE  Leaves("rebind")
<1> DEFINE phases == IF delayed THEN {"waiting"} ELSE {"opening"}
<1>1. phases \in SUBSET {"waiting", "opening"} /\ Reopens(reason, "rebind", 0, phases)
  BY DEF PlanRebind
<1>. HIDE DEF phases
<1>. QED BY <1>1, ReopensLeaves

LEMMA DroppedLeaves ==
  ASSUME PlanCreate \/ PlanRefresh, Unbinds
  PROVE  Leaves("create")
<1>1. CASE PlanCreate
  BY <1>1, RetriesLeaves DEF PlanCreate
<1>2. CASE PlanRefresh
  BY <1>2, RetriesLeaves, ReopensLeaves, GivesUpLeaves DEF PlanRefresh
<1>. QED BY <1>1, <1>2

\* Issuing subscriptions keeps the registry and the requests well typed.
LEMMA IssuedType ==
  ASSUME RegistryTypeOK, RequestTypeOK,
         NEW todo \in SUBSET Keys, NEW next \in 1 .. SubIdMax, NEW failed,
         NEW r \in [Keys -> Entries], NEW ix \in [SubIds -> Keys \cup {NoKey}],
         NEW pend \in [RequestIds -> PendingRequests \cup {NoRequest}], NEW gen \in Nat,
         IssueSubscriptions(todo, next, failed, r, ix, pend, gen)
  PROVE  /\ reg' \in [Keys -> Entries]
         /\ bySubId' \in [SubIds -> Keys \cup {NoKey}]
         /\ nextSubId' \in 1 .. SubIdMax
         /\ pending' \in [RequestIds -> PendingRequests \cup {NoRequest}]
         /\ nextRequestId' \in 1 .. RequestIdMax
<1> DEFINE sent == WithIds(todo, next) \ failed
<1>1. /\ sent \subseteq todo
      /\ \A k \in sent : next + Rank(todo, k) \in SubIds
      /\ nextSubId' \in next .. SubIdMax
      /\ nextRequestId' \in nextRequestId .. RequestIdMax
      /\ reg' = Bindings(todo, next, sent, r)
  BY Issued
<1>2. reg' \in [Keys -> Entries]
  BY <1>1 DEF Bindings, Entries
<1>3. bySubId' \in [SubIds -> Keys \cup {NoKey}]
  BY <1>1 DEF IssueSubscriptions
<1>4. pending' \in [RequestIds -> PendingRequests \cup {NoRequest}]
  <2>1. ASSUME NEW i \in RequestIds, \E k \in sent : i = nextRequestId + Rank(todo, k)
        PROVE  [kind |-> "subscribe", gen |-> gen,
                key |-> CHOOSE k \in sent : i = nextRequestId + Rank(todo, k)]
                 \in PendingRequests
    <3>1. (CHOOSE k \in sent : i = nextRequestId + Rank(todo, k)) \in Keys
      BY <1>1, <2>1
    <3>. QED BY <3>1 DEF PendingRequests
  <2>. QED BY <2>1 DEF IssueSubscriptions
<1>5. nextSubId' \in 1 .. SubIdMax /\ nextRequestId' \in 1 .. RequestIdMax
  BY <1>1, BoundsAssumption DEF RequestTypeOK
<1>. QED BY <1>2, <1>3, <1>4, <1>5

LEMMA ResetRegistryType ==
  ASSUME RegistryTypeOK
  PROVE  ResetRegistry \in [Keys -> Entries]
  BY DEF RegistryTypeOK, ResetRegistry, Entries

\* What a bind reports.
BindEvent(s) == [ev |-> "bound", kind |-> BindKind(s), session |-> s]
Resubscribed(todo, next, failed) ==
  IF WithIds(todo, next) \ failed = {} THEN {}
  ELSE {[ev |-> "resubscribed", keys |-> WithIds(todo, next) \ failed]}
Retired(gen) == UNION {Retirement(i) : i \in Stale(gen)}

LEMMA ConOkOut ==
  ASSUME NEW s, OnConOk(s)
  PROVE  \E gen, todo, next, failed :
           out' = {BindEvent(s)} \cup Retired(gen) \cup NotIssued(todo, next, failed)
                    \cup Resubscribed(todo, next, failed)
  BY DEF OnConOk, BindEvent, Retired, Resubscribed

\* Besides the bind, it reports only answers, outcomes and what was issued again.
LEMMA ConOkEvents ==
  ASSUME NEW s, OnConOk(s)
  PROVE  /\ BindEvent(s) \in out'
         /\ \A e \in out' : e = BindEvent(s) \/ e.ev \in {"response", "message", "resubscribed"}
<1>1. PICK gen, todo, next, failed :
        out' = {BindEvent(s)} \cup Retired(gen) \cup NotIssued(todo, next, failed)
                 \cup Resubscribed(todo, next, failed)
  BY ConOkOut
<1>2. \A e \in Retired(gen) : e.ev \in {"response", "message"}
  BY DEF Retired, Retirement, Response, MessageEvent
<1>3. \A e \in NotIssued(todo, next, failed) : e.ev = "response"
  BY DEF NotIssued, Response
<1>4. \A e \in Resubscribed(todo, next, failed) : e.ev = "resubscribed"
  BY DEF Resubscribed
<1>. QED BY <1>1, <1>2, <1>3, <1>4

LEMMA OnConOkType ==
  ASSUME TypeInv, NEW s \in Sessions, OnConOk(s)
  PROVE  TypeInv'
<1> DEFINE gen  == IF Fresh(s) THEN generation + 1 ELSE generation
           r    == IF Fresh(s) THEN ResetRegistry ELSE reg
           ix   == IF Fresh(s) THEN [i \in SubIds |-> NoKey] ELSE bySubId
           next == IF Fresh(s) THEN 1 ELSE nextSubId
           pend == [i \in RequestIds |-> IF i \in Stale(gen) THEN NoRequest ELSE pending[i]]
           todo == Unissued(r)
<1>1. RegistryTypeOK /\ RequestTypeOK /\ StreamTypeOK /\ RecoveryTypeOK /\ RetryTypeOK
      /\ RequestedInRange
  BY DEF TypeInv, TypeOK
<1>2. PICK failed \in SUBSET WithIds(todo, next) :
        IssueSubscriptions(todo, next, failed, r, ix, pend, gen)
  BY DEF OnConOk
<1>3. /\ gen \in Nat /\ next \in 1 .. SubIdMax
      /\ r \in [Keys -> Entries] /\ ix \in [SubIds -> Keys \cup {NoKey}]
      /\ pend \in [RequestIds -> PendingRequests \cup {NoRequest}]
      /\ todo \in SUBSET Keys
  <2>1. gen \in Nat /\ next \in 1 .. SubIdMax
    BY <1>1, BoundsAssumption DEF RegistryTypeOK, RequestTypeOK
  <2>2. r \in [Keys -> Entries] /\ ix \in [SubIds -> Keys \cup {NoKey}]
    BY <1>1, ResetRegistryType DEF RegistryTypeOK
  <2>3. pend \in [RequestIds -> PendingRequests \cup {NoRequest}]
    BY <1>1 DEF RequestTypeOK
  <2>. QED BY <2>1, <2>2, <2>3 DEF Unissued
<1>4. /\ reg' \in [Keys -> Entries]
      /\ bySubId' \in [SubIds -> Keys \cup {NoKey}]
      /\ nextSubId' \in 1 .. SubIdMax
      /\ pending' \in [RequestIds -> PendingRequests \cup {NoRequest}]
      /\ nextRequestId' \in 1 .. RequestIdMax
  BY <1>1, <1>2, <1>3, IssuedType
<1>5. RegistryTypeOK'
  BY <1>1, <1>4 DEF OnConOk, RegistryTypeOK
<1>6. RequestTypeOK'
  <2>1. generation' \in Nat
    BY <1>3 DEF OnConOk
  <2>2. forceRebindOutstanding' \in BOOLEAN /\ destroyRequested' \in BOOLEAN
    BY <1>1 DEF OnConOk, RequestTypeOK
  <2>. QED BY <1>4, <2>1, <2>2 DEF RequestTypeOK
<1>7. RecoveryTypeOK' /\ RetryTypeOK'
  <2>1. progHonoured' \in BOOLEAN
    BY <1>1 DEF OnConOk, RecoveryTypeOK
  <2>2. progressive' \in {0, progressive} /\ skipRemaining' \in {0, skipRemaining}
        /\ attempts' = 0 /\ UNCHANGED <<refreshStreak, heartbeatFailures>>
    BY DEF OnConOk
  <2>. QED BY <1>1, <2>1, <2>2, BoundsAssumption DEF RecoveryTypeOK, RetryTypeOK
<1>8. StreamTypeOK' /\ RequestedInRange'
  BY <1>1 DEF OnConOk, StreamTypeOK, RequestedInRange
<1>. QED BY <1>5, <1>6, <1>7, <1>8 DEF TypeInv, TypeOK

\* The refusals and the two ends of a stream the server announces.
LEMMA StreamLineType ==
  ASSUME TypeInv,
         \/ \E code \in Int : OnConErr(code) \/ OnEnd(code)
         \/ \E delayed \in BOOLEAN : OnLoop(delayed)
  PROVE  TypeInv'
<1>1. /\ heartbeatFailures \in 0 .. MaxHeartbeatFailures - 1
      /\ forceRebindOutstanding \in BOOLEAN
  BY DEF TypeInv, TypeOK, RetryTypeOK, RequestTypeOK
<1>2. ASSUME PlanCreate \/ PlanRefresh, Unbinds,
             previousSession' = session /\ session' = NoSession,
             UNCHANGED <<forceRebindOutstanding, heartbeatFailures>>
      PROVE  TypeInv'
  BY <1>1, <1>2, PlanPlans, UnbindType
<1>3. ASSUME NEW code \in Int, OnConErr(code)
      PROVE  TypeInv'
  BY <1>2, <1>3, ClosesType DEF OnConErr, Closes
<1>4. ASSUME NEW code \in Int, OnEnd(code)
      PROVE  TypeInv'
  BY <1>2, <1>4, ClosesType DEF OnEnd, Closes
<1>5. ASSUME NEW delayed \in BOOLEAN, OnLoop(delayed)
      PROVE  TypeInv'
  <2>1. PlannedOK
    BY <1>5, PlanPlans DEF OnLoop
  <2>2. forceRebindOutstanding' \in BOOLEAN
    BY <1>5 DEF OnLoop
  <2>. QED BY <1>1, <1>5, <2>1, <2>2, UnbindType DEF OnLoop, sessionVars
<1>. QED BY <1>3, <1>4, <1>5

LEMMA OnProgType ==
  ASSUME TypeInv, NEW at \in 0 .. ProgressiveMax, OnProg(at)
  PROVE  TypeInv'
<1>1. progHonoured' \in BOOLEAN
  BY DEF OnProg
<1>2. intent.requested \in 0 .. ProgressiveMax
  BY BoundsAssumption DEF TypeInv, TypeOK, StreamTypeOK, RequestedInRange, Intents
<1>3. progressive' \in 0 .. ProgressiveMax /\ skipRemaining' \in 0 .. ProgressiveMax
  BY <1>2, BoundsAssumption DEF OnProg, TypeInv, TypeOK, RecoveryTypeOK
<1>4. StreamTypeOK' /\ RetryTypeOK' /\ RequestedInRange'
  BY DEF OnProg, TypeInv, TypeOK, streamVars, sessionVars, retryVars, StreamTypeOK,
         RetryTypeOK, RequestedInRange
<1>5. RegistryTypeOK' /\ RequestTypeOK'
  BY DEF OnProg, TypeInv, TypeOK, registryVars, controlVars, flagVars, RegistryTypeOK,
         RequestTypeOK
<1>. QED BY <1>1, <1>3, <1>4, <1>5 DEF TypeInv, TypeOK, RecoveryTypeOK

\* An answer to a request: the entry it concerns changes, its request is forgotten.
LEMMA AnswerType ==
  ASSUME TypeInv, NEW i \in Nat, OnRequestOk(i) \/ OnRequestError(i)
  PROVE  TypeInv'
<1> DEFINE p == Answered(i)
<1>1. RegistryTypeOK /\ RequestTypeOK
  BY DEF TypeInv, TypeOK
<1>2. p \in PendingRequests \cup {NoRequest}
  BY <1>1 DEF Answered, RequestTypeOK
<1>3. pending' \in [RequestIds -> PendingRequests \cup {NoRequest}]
  BY <1>1 DEF OnRequestOk, OnRequestError, ForgetsRequest, RequestTypeOK
<1>4. CASE OnRequestOk(i)
  <2>1. reg' \in [Keys -> Entries]
    <3>1. CASE p.kind = "reconfigure"
      <4>1. p.freq \in Frequencies /\ p.key \in Keys
        BY <1>2, <3>1 DEF PendingRequests, NoRequest
      <4>. QED BY <1>1, <1>4, <4>1, <3>1 DEF OnRequestOk, RegistryTypeOK, Entries, KeyOf
    <3>2. CASE p.kind # "reconfigure"
      BY <1>1, <1>4, <3>2 DEF OnRequestOk, RegistryTypeOK
    <3>. QED BY <3>1, <3>2
  <2>2. RegistryTypeOK' /\ RequestTypeOK'
    BY <1>1, <1>3, <1>4, <2>1 DEF OnRequestOk, flagVars, RegistryTypeOK, RequestTypeOK
  <2>. QED BY <1>4, <2>2, ControlStepType DEF OnRequestOk
<1>5. CASE OnRequestError(i)
  <2>1. /\ reg' \in [Keys -> Entries] /\ bySubId' \in [SubIds -> Keys \cup {NoKey}]
        /\ wanted' \in SUBSET Keys
    <3>1. CASE RefusesSubscribe(KeyOf(p))
      BY <1>1, <3>1 DEF RefusesSubscribe, RegistryTypeOK, Entries
    <3>2. CASE RefusesUnsubscribe(KeyOf(p))
      <4> DEFINE k == KeyOf(p)
                 revived == IF reg[k].wasActive THEN "active" ELSE "pending"
      <4>1. ASSUME Registered(k), k \in Keys
            PROVE  [reg[k] EXCEPT !.state = revived] \in Entries
        <5>1. reg[k] \in Entries /\ revived \in {"active", "pending"}
          BY <1>1, <4>1 DEF RegistryTypeOK
        <5>. HIDE DEF revived
        <5>. QED BY <5>1 DEF Entries
      <4>. QED BY <1>1, <3>2, <4>1 DEF RefusesUnsubscribe, RegistryTypeOK
    <3>. QED BY <1>1, <1>5, <3>1, <3>2 DEF OnRequestError, RegistryTypeOK
  <2>2. forceRebindOutstanding' \in BOOLEAN /\ destroyRequested' \in BOOLEAN
    BY <1>5 DEF OnRequestError
  <2>3. RegistryTypeOK' /\ RequestTypeOK'
    BY <1>1, <1>3, <1>5, <2>1, <2>2 DEF OnRequestError, RegistryTypeOK, RequestTypeOK
  <2>. QED BY <1>5, <2>3, ControlStepType DEF OnRequestError
<1>. QED BY <1>4, <1>5

\* A data notification, discarded or counted and delivered.
LEMMA CountsType ==
  ASSUME TypeInv, Counts, RegistryTypeOK' \/ UNCHANGED <<reg, bySubId, wanted>>
  PROVE  TypeInv'
<1>1. RecoveryTypeOK' /\ RetryTypeOK'
  BY BoundsAssumption DEF TypeInv, TypeOK, Counts, Incremented, RecoveryTypeOK, RetryTypeOK
<1>2. StreamTypeOK' /\ RequestedInRange'
  BY DEF TypeInv, TypeOK, Counts, streamVars, sessionVars, StreamTypeOK, RequestedInRange
<1>3. RegistryTypeOK'
  BY DEF TypeInv, TypeOK, Counts, RegistryTypeOK
<1>4. RequestTypeOK'
  BY DEF TypeInv, TypeOK, Counts, controlVars, flagVars, RequestTypeOK
<1>. QED BY <1>1, <1>2, <1>3, <1>4 DEF TypeInv, TypeOK

LEMMA SkipsType ==
  ASSUME TypeInv, SkipsDuplicate
  PROVE  TypeInv'
<1>1. RecoveryTypeOK' /\ RetryTypeOK'
  <2>1. progHonoured' \in BOOLEAN
    BY DEF TypeInv, TypeOK, SkipsDuplicate, RecoveryTypeOK
  <2>2. skipRemaining' \in 0 .. ProgressiveMax /\ progressive' \in 0 .. ProgressiveMax
    BY BoundsAssumption DEF TypeInv, TypeOK, SkipsDuplicate, RecoveryTypeOK
  <2>. QED BY <2>1, <2>2 DEF TypeInv, TypeOK, SkipsDuplicate, RecoveryTypeOK, RetryTypeOK
<1>2. StreamTypeOK' /\ RequestedInRange'
  BY DEF TypeInv, TypeOK, SkipsDuplicate, streamVars, sessionVars, StreamTypeOK,
         RequestedInRange
<1>3. RegistryTypeOK' /\ RequestTypeOK'
  BY DEF TypeInv, TypeOK, SkipsDuplicate, registryVars, controlVars, flagVars,
         RegistryTypeOK, RequestTypeOK
<1>. QED BY <1>1, <1>2, <1>3 DEF TypeInv, TypeOK

LEMMA SubscriptionLineType ==
  ASSUME TypeInv, NEW sub \in Nat, OnSubOk(sub) \/ OnUnsub(sub) \/ OnUpdate(sub)
  PROVE  TypeInv'
<1>1. RegistryTypeOK
  BY DEF TypeInv, TypeOK
<1>2. CASE OnSubOk(sub)
  <2>1. RegistryTypeOK'
    BY <1>1, <1>2 DEF OnSubOk, Counts, RegistryTypeOK, Entries
  <2>. QED BY <1>2, <2>1, CountsType DEF OnSubOk
<1>3. CASE OnUnsub(sub)
  <2>1. RegistryTypeOK'
    BY <1>1, <1>3 DEF OnUnsub, Counts, RegistryTypeOK, Entries
  <2>. QED BY <1>3, <2>1, CountsType DEF OnUnsub
<1>4. CASE OnUpdate(sub)
  BY <1>4, CountsType DEF OnUpdate
<1>. QED BY <1>2, <1>3, <1>4

LEMMA OnLineType ==
  ASSUME TypeInv, NEW n \in AllNotifications, OnLine(n)
  PROVE  TypeInv'
<1>1. n \in AllNotifications
  OBVIOUS
<1>2. CASE n.t = "CONOK" /\ OnConOk(n.session)
  <2>1. n.session \in Sessions
    BY <1>1, <1>2 DEF AllNotifications
  <2>. QED BY <1>2, <2>1, OnConOkType
<1>3. CASE \/ n.t = "CONERR" /\ OnConErr(n.code)
           \/ n.t = "END" /\ OnEnd(n.code)
  <2>1. n.code \in Int
    BY <1>1, <1>3 DEF AllNotifications
  <2>. QED BY <1>3, <2>1, StreamLineType
<1>4. CASE n.t = "LOOP" /\ OnLoop(n.delayed)
  <2>1. n.delayed \in BOOLEAN
    BY <1>1, <1>4 DEF AllNotifications
  <2>. QED BY <1>4, <2>1, StreamLineType
<1>5. CASE n.t = "PROG" /\ OnProg(n.at)
  <2>1. n.at \in 0 .. ProgressiveMax
    BY <1>1, <1>5 DEF AllNotifications
  <2>. QED BY <1>5, <2>1, OnProgType
<1>6. CASE \/ n.t = "REQOK" /\ OnRequestOk(n.id)
           \/ n.t = "REQERR" /\ OnRequestError(n.id)
  <2>1. n.id \in Nat
    BY <1>1, <1>6 DEF AllNotifications
  <2>. QED BY <1>6, <2>1, AnswerType
<1>7. CASE SkipsDuplicate
  BY <1>7, SkipsType
<1>8. CASE \/ n.t = "SUBOK" /\ OnSubOk(n.sub)
           \/ n.t = "UNSUB" /\ OnUnsub(n.sub)
           \/ n.t = "UPDATE" /\ OnUpdate(n.sub)
  <2>1. n.sub \in Nat
    BY <1>1, <1>8 DEF AllNotifications
  <2>. QED BY <1>8, <2>1, SubscriptionLineType
<1>9. CASE OnMessageOutcome(n.msg, "done") \/ OnMessageOutcome(n.msg, "failed")
  BY <1>9, CountsType DEF OnMessageOutcome
<1>10. CASE OnUnparsed
  <2>1. RegistryTypeOK' /\ RequestTypeOK'
    BY <1>10 DEF OnUnparsed, TypeInv, TypeOK, registryVars, controlVars, flagVars,
                 RegistryTypeOK, RequestTypeOK
  <2>. QED BY <1>10, <2>1, ControlStepType DEF OnUnparsed
<1>. QED BY <1>2, <1>3, <1>4, <1>5, <1>6, <1>7, <1>8, <1>9, <1>10 DEF OnLine

\* Sending a request, or failing to.
LEMMA DispatchType ==
  ASSUME RequestTypeOK, NEW p \in PendingRequests, NEW kind, NEW k,
         NoIdLeft(kind, k) \/ Sent(p) \/ NotSent(p) \/ Ignored
  PROVE  /\ pending' \in [RequestIds -> PendingRequests \cup {NoRequest}]
         /\ nextRequestId' \in 1 .. RequestIdMax
  BY BoundsAssumption
  DEF RequestTypeOK, NoIdLeft, Sent, NotSent, Ignored, HasRequestId, RequestIds

LEMMA OnSubscribeType ==
  ASSUME TypeInv, NEW k \in Keys, OnSubscribe(k)
  PROVE  TypeInv'
<1> DEFINE r == [reg EXCEPT ![k] = [state |-> "pending", wire |-> NoId,
                                    wasActive |-> FALSE, freq |-> "none"]]
           todo == IF streamState = "bound" /\ session # NoSession THEN {k} ELSE {}
<1>1. RegistryTypeOK /\ RequestTypeOK
  BY DEF TypeInv, TypeOK
<1>2. r \in [Keys -> Entries]
  <2>1. [state |-> "pending", wire |-> NoId, wasActive |-> FALSE, freq |-> "none"] \in Entries
    BY DEF Entries
  <2>. QED BY <1>1, <2>1 DEF RegistryTypeOK
<1>3. PICK failed \in SUBSET WithIds(todo, nextSubId) :
        IssueSubscriptions(todo, nextSubId, failed, r, bySubId, pending, generation)
  BY DEF OnSubscribe
<1>4. /\ todo \in SUBSET Keys /\ nextSubId \in 1 .. SubIdMax
      /\ bySubId \in [SubIds -> Keys \cup {NoKey}] /\ generation \in Nat
      /\ pending \in [RequestIds -> PendingRequests \cup {NoRequest}]
  BY <1>1 DEF RegistryTypeOK, RequestTypeOK
<1>5. /\ reg' \in [Keys -> Entries]
      /\ bySubId' \in [SubIds -> Keys \cup {NoKey}]
      /\ nextSubId' \in 1 .. SubIdMax
      /\ pending' \in [RequestIds -> PendingRequests \cup {NoRequest}]
      /\ nextRequestId' \in 1 .. RequestIdMax
  BY <1>1, <1>2, <1>3, <1>4, IssuedType
<1>6. RegistryTypeOK' /\ RequestTypeOK'
  BY <1>1, <1>5 DEF OnSubscribe, flagVars, RegistryTypeOK, RequestTypeOK
<1>. QED BY <1>6, ControlStepType DEF OnSubscribe

LEMMA OnUnsubscribeType ==
  ASSUME TypeInv, NEW k \in Keys, OnUnsubscribe(k)
  PROVE  TypeInv'
<1> DEFINE p == [kind |-> "unsubscribe", key |-> k, gen |-> generation]
<1>1. RegistryTypeOK /\ RequestTypeOK
  BY DEF TypeInv, TypeOK
<1>2. p \in PendingRequests
  BY <1>1 DEF PendingRequests, RequestTypeOK
<1>3. Ignored \/ NoIdLeft(p.kind, KeyOf(p)) \/ Sent(p) \/ NotSent(p)
  BY DEF OnUnsubscribe, Dispatches
<1>4. /\ pending' \in [RequestIds -> PendingRequests \cup {NoRequest}]
      /\ nextRequestId' \in 1 .. RequestIdMax
  BY <1>1, <1>2, <1>3, DispatchType
<1>5. reg' \in [Keys -> Entries]
  BY <1>1 DEF OnUnsubscribe, RegistryTypeOK, Entries
<1>6. RegistryTypeOK' /\ RequestTypeOK'
  BY <1>1, <1>4, <1>5 DEF OnUnsubscribe, flagVars, RegistryTypeOK, RequestTypeOK
<1>. QED BY <1>6, ControlStepType DEF OnUnsubscribe

LEMMA OnReconfigureType ==
  ASSUME TypeInv, NEW k \in Keys, NEW f \in Frequencies, OnReconfigure(k, f)
  PROVE  TypeInv'
<1> DEFINE p == [kind |-> "reconfigure", key |-> k, freq |-> f, gen |-> generation]
<1>1. RegistryTypeOK /\ RequestTypeOK
  BY DEF TypeInv, TypeOK
<1>2. p \in PendingRequests
  BY <1>1 DEF PendingRequests, RequestTypeOK
<1>3. Ignored \/ NoIdLeft(p.kind, KeyOf(p)) \/ Sent(p) \/ NotSent(p)
  BY DEF OnReconfigure, Dispatches
<1>4. /\ pending' \in [RequestIds -> PendingRequests \cup {NoRequest}]
      /\ nextRequestId' \in 1 .. RequestIdMax
  BY <1>1, <1>2, <1>3, DispatchType
<1>5. RegistryTypeOK' /\ RequestTypeOK'
  BY <1>1, <1>4 DEF OnReconfigure, registryVars, flagVars, RegistryTypeOK, RequestTypeOK
<1>. QED BY <1>5, ControlStepType DEF OnReconfigure

LEMMA OnSendMessageType ==
  ASSUME TypeInv, NEW m \in Messages, OnSendMessage(m)
  PROVE  TypeInv'
<1> DEFINE p == [kind |-> "message", msg |-> m, gen |-> generation]
<1>1. RegistryTypeOK /\ RequestTypeOK
  BY DEF TypeInv, TypeOK
<1>2. p \in PendingRequests
  BY <1>1 DEF PendingRequests, RequestTypeOK
<1>3. /\ pending' \in [RequestIds -> PendingRequests \cup {NoRequest}]
      /\ nextRequestId' \in 1 .. RequestIdMax
  BY <1>1, <1>2, BoundsAssumption
  DEF OnSendMessage, Sent, HasRequestId, RequestTypeOK, RequestIds
<1>4. RegistryTypeOK' /\ RequestTypeOK'
  BY <1>1, <1>3 DEF OnSendMessage, registryVars, flagVars, RegistryTypeOK, RequestTypeOK
<1>. QED BY <1>4, ControlStepType DEF OnSendMessage

LEMMA OnForceRebindType ==
  ASSUME TypeInv, OnForceRebind
  PROVE  TypeInv'
<1> DEFINE p == [kind |-> "forceRebind", gen |-> generation]
<1>1. RegistryTypeOK /\ RequestTypeOK
  BY DEF TypeInv, TypeOK
<1>2. p \in PendingRequests
  BY <1>1 DEF PendingRequests, RequestTypeOK
<1>3. Ignored \/ NoIdLeft(p.kind, KeyOf(p)) \/ Sent(p) \/ NotSent(p)
  BY DEF OnForceRebind, Dispatches
<1>4. /\ pending' \in [RequestIds -> PendingRequests \cup {NoRequest}]
      /\ nextRequestId' \in 1 .. RequestIdMax
  BY <1>1, <1>2, <1>3, DispatchType
<1>5. forceRebindOutstanding' \in BOOLEAN /\ destroyRequested' \in BOOLEAN
  BY <1>1 DEF OnForceRebind, RequestTypeOK
<1>6. RegistryTypeOK' /\ RequestTypeOK'
  BY <1>1, <1>4, <1>5 DEF OnForceRebind, registryVars, RegistryTypeOK, RequestTypeOK
<1>. QED BY <1>6, ControlStepType DEF OnForceRebind

LEMMA OnDestroyType ==
  ASSUME TypeInv, OnDestroy
  PROVE  TypeInv'
<1> DEFINE p == [kind |-> "destroy", gen |-> generation]
<1>1. RegistryTypeOK /\ RequestTypeOK
  BY DEF TypeInv, TypeOK
<1>2. p \in PendingRequests
  BY <1>1 DEF PendingRequests, RequestTypeOK
<1>3. CASE /\ Sent(p) /\ destroyRequested' = TRUE
           /\ UNCHANGED <<streamVars, sessionVars, recoveryVars, registryVars, generation,
                          forceRebindOutstanding, retryVars, stop>>
  <2>1. /\ pending' \in [RequestIds -> PendingRequests \cup {NoRequest}]
        /\ nextRequestId' \in 1 .. RequestIdMax
    BY <1>1, <1>2, <1>3, DispatchType
  <2>2. forceRebindOutstanding' \in BOOLEAN /\ destroyRequested' \in BOOLEAN
    BY <1>1, <1>3 DEF RequestTypeOK
  <2>3. RegistryTypeOK' /\ RequestTypeOK'
    BY <1>1, <1>3, <2>1, <2>2 DEF registryVars, RegistryTypeOK, RequestTypeOK
  <2>. QED BY <1>3, <2>3, ControlStepType
<1>4. CASE Closes("byClient")
  BY <1>4, ClosesType DEF Closes
<1>5. CASE ClosesAfter({Response("destroy", NoKey, "notSent")}, "internal")
  BY <1>5, ClosesType
<1>6. CASE ClosesAfter({Response("destroy", NoKey, "notSent")}, "byClient")
  BY <1>6, ClosesType
<1>. QED BY <1>3, <1>4, <1>5, <1>6 DEF OnDestroy

LEMMA OnCommandType ==
  ASSUME TypeInv, NEW c \in Commands, OnCommand(c)
  PROVE  TypeInv'
<1>1. c \in AllCommands
  BY InputsAssumption
<1>2. CASE c.t = "Subscribe" /\ OnSubscribe(c.key)
  <2>1. c.key \in Keys
    BY <1>1, <1>2 DEF AllCommands
  <2>. QED BY <1>2, <2>1, OnSubscribeType
<1>3. CASE c.t = "Unsubscribe" /\ OnUnsubscribe(c.key)
  <2>1. c.key \in Keys
    BY <1>1, <1>3 DEF AllCommands
  <2>. QED BY <1>3, <2>1, OnUnsubscribeType
<1>4. CASE c.t = "Reconfigure" /\ OnReconfigure(c.key, c.freq)
  <2>1. c.key \in Keys /\ c.freq \in Frequencies
    BY <1>1, <1>4 DEF AllCommands
  <2>. QED BY <1>4, <2>1, OnReconfigureType
<1>5. CASE c.t = "SendMessage" /\ OnSendMessage(c.msg)
  <2>1. c.msg \in Messages
    BY <1>1, <1>5 DEF AllCommands
  <2>. QED BY <1>5, <2>1, OnSendMessageType
<1>6. CASE OnForceRebind
  BY <1>6, OnForceRebindType
<1>7. CASE OnDestroy
  BY <1>7, OnDestroyType
<1>8. CASE Closes("byClient")
  BY <1>8, ClosesType DEF Closes
<1>. QED BY <1>2, <1>3, <1>4, <1>5, <1>6, <1>7, <1>8 DEF OnCommand

LEMMA StutterType ==
  ASSUME TypeInv, UNCHANGED vars
  PROVE  TypeInv'
<1>1. RegistryTypeOK' /\ RequestTypeOK'
  BY DEF TypeInv, TypeOK, vars, registryVars, controlVars, flagVars, RegistryTypeOK,
         RequestTypeOK
<1>. QED BY <1>1, ControlStepType DEF vars

LEMMA TypeNext ==
  ASSUME TypeInv, [Next]_vars
  PROVE  TypeInv'
<1>1. CASE \/ DelayElapses \/ Established \/ OpenFails \/ StreamFails
           \/ StreamEnds \/ InboundStalled \/ HeartbeatDue \/ StopObserved \/ OrderStop
  BY <1>1, ConnectionType
<1>2. CASE \E n \in Notifications : OnLine(n)
  BY <1>2, OnLineType, InputsAssumption
<1>3. CASE \E c \in Commands : OnCommand(c)
  BY <1>3, OnCommandType
<1>4. CASE UNCHANGED vars
  BY <1>4, StutterType
<1>. QED BY <1>1, <1>2, <1>3, <1>4 DEF Next

LEMMA TypeInvariant == Spec => []TypeInv
<1>1. Init => TypeInv
  BY TypeInit
<1>2. TypeInv /\ [Next]_vars => TypeInv'
  BY TypeNext
<1>. QED BY <1>1, <1>2, PTL DEF Spec

\* Whatever the server sends and the caller asks, every variable of the driver keeps
\* its type: no id is handed out at its maximum, no counter outgrows its width, and
\* the number of duplicates to discard is never negative.
THEOREM TypeCorrect == Spec => []TypeOK
<1>1. TypeInv => TypeOK
  BY DEF TypeInv
<1>. QED BY <1>1, TypeInvariant, PTL

-----------------------------------------------------------------------------
(* The inductive invariant *)

\* What the index and the bindings need besides being inverses of each other: no
\* binding is at or beyond the next sub id, and an entry that left the registry
\* holds none.
SubIdsConsumed == \A k \in Keys : reg[k].wire < nextSubId
UnregisteredUnbound == \A k \in Keys : ~Registered(k) => reg[k].wire = NoId

RegistryInv ==
  IndexMatchesRegistry /\ SubIdsConsumed /\ UnregisteredUnbound /\ NothingLostSilently

\* A request in flight for an add is for a subscription the caller made.
AddsWereMade ==
  \A i \in RequestIds : pending[i] # NoRequest /\ pending[i].kind = "subscribe" =>
    reg[pending[i].key].state # "unused"

RequestInv == NoStaleRequest /\ OneAddInFlight /\ AddsWereMade

IInv == TypeInv /\ RegistryInv /\ RequestInv /\ BoundHasSession

-----------------------------------------------------------------------------
(* What a step may do to the registry and the requests *)

registryAndRequests ==
  <<reg, bySubId, nextSubId, wanted, pending, generation, nextRequestId>>

\* A request that is not about the desired set is sent, or is not.
OtherRequest ==
  /\ UNCHANGED <<reg, bySubId, nextSubId, wanted, generation>>
  /\ \/ UNCHANGED pending /\ nextRequestId' \in {nextRequestId, nextRequestId + 1}
     \/ \E p \in PendingRequests : /\ p.kind \notin {"subscribe", "unsubscribe"}
                                  /\ p.gen = generation /\ Sent(p)

RegistryStep ==
  \/ UNCHANGED registryAndRequests
  \/ OtherRequest
  \/ \E s \in Sessions : OnConOk(s)
  \/ \E i \in Nat : OnRequestOk(i) \/ OnRequestError(i)
  \/ \E sub \in Nat : OnSubOk(sub) \/ OnUnsub(sub)
  \/ \E k \in Keys : OnSubscribe(k) \/ OnUnsubscribe(k)

LEMMA ConnectionQuiet ==
  ASSUME \/ DelayElapses \/ Established \/ OpenFails \/ StreamFails
         \/ StreamEnds \/ InboundStalled \/ HeartbeatDue \/ StopObserved \/ OrderStop
  PROVE  UNCHANGED registryAndRequests
<1>1. ASSUME UNCHANGED <<registryVars, controlVars>>
      PROVE  UNCHANGED registryAndRequests
  BY <1>1 DEF registryVars, controlVars, registryAndRequests
<1>. QED
  BY <1>1
  DEF DelayElapses, Established, OpenFails, StreamFails, StreamEnds, InboundStalled,
      HeartbeatDue, StopObserved, OrderStop, ConnectionLost, Unbinds, Closes, ClosesAfter

LEMMA LineSteps ==
  ASSUME NEW n \in Notifications, OnLine(n)
  PROVE  RegistryStep
<1>1. n \in AllNotifications
  BY InputsAssumption
<1>2. ASSUME UNCHANGED <<registryVars, controlVars>>
      PROVE  RegistryStep
  BY <1>2 DEF registryVars, controlVars, registryAndRequests, RegistryStep
<1>3. CASE n.t = "CONOK" /\ OnConOk(n.session)
  BY <1>1, <1>3 DEF AllNotifications, RegistryStep
<1>4. CASE \/ OnConErr(n.code) \/ OnEnd(n.code) \/ OnLoop(n.delayed) \/ OnProg(n.at)
           \/ SkipsDuplicate \/ OnUnparsed
  BY <1>2, <1>4
  DEF OnConErr, OnEnd, OnLoop, OnProg, SkipsDuplicate, OnUnparsed, Unbinds, Closes, ClosesAfter
<1>5. CASE \/ n.t = "REQOK" /\ OnRequestOk(n.id)
           \/ n.t = "REQERR" /\ OnRequestError(n.id)
  BY <1>1, <1>5 DEF AllNotifications, RegistryStep
<1>6. CASE \/ n.t = "SUBOK" /\ OnSubOk(n.sub)
           \/ n.t = "UNSUB" /\ OnUnsub(n.sub)
  BY <1>1, <1>6 DEF AllNotifications, RegistryStep
<1>7. CASE OnUpdate(n.sub) \/ OnMessageOutcome(n.msg, "done")
             \/ OnMessageOutcome(n.msg, "failed")
  BY <1>2, <1>7 DEF OnUpdate, OnMessageOutcome, Counts, registryVars
<1>. QED BY <1>3, <1>4, <1>5, <1>6, <1>7 DEF OnLine

\* Sent, not sent, or refused for want of an id.
LEMMA DispatchSteps ==
  ASSUME NEW p \in PendingRequests, p.kind \notin {"subscribe", "unsubscribe"},
         p.gen = generation, NEW kind, NEW k, Ignored \/ NoIdLeft(kind, k) \/ Sent(p) \/ NotSent(p),
         UNCHANGED <<reg, bySubId, nextSubId, wanted, generation>>
  PROVE  OtherRequest
  BY DEF OtherRequest, Ignored, NoIdLeft, NotSent

LEMMA CommandSteps ==
  ASSUME TypeInv, NEW c \in Commands, OnCommand(c)
  PROVE  RegistryStep
<1>1. c \in AllCommands /\ generation \in Nat
  BY InputsAssumption DEF TypeInv, TypeOK, RequestTypeOK
<1>2. CASE \/ c.t = "Subscribe" /\ OnSubscribe(c.key)
           \/ c.t = "Unsubscribe" /\ OnUnsubscribe(c.key)
  BY <1>1, <1>2 DEF AllCommands, RegistryStep
<1>3. CASE c.t = "Reconfigure" /\ OnReconfigure(c.key, c.freq)
  <2> DEFINE p == [kind |-> "reconfigure", key |-> c.key, freq |-> c.freq, gen |-> generation]
  <2>1. c.key \in Keys /\ c.freq \in Frequencies
    BY <1>1, <1>3 DEF AllCommands
  <2>2. p \in PendingRequests
    BY <1>1, <2>1 DEF PendingRequests
  <2>3. Ignored \/ NoIdLeft(p.kind, KeyOf(p)) \/ Sent(p) \/ NotSent(p)
    BY <1>3 DEF OnReconfigure, Dispatches
  <2>. QED BY <1>3, <2>2, <2>3, DispatchSteps DEF OnReconfigure, registryVars, RegistryStep
<1>4. CASE c.t = "SendMessage" /\ OnSendMessage(c.msg)
  <2> DEFINE p == [kind |-> "message", msg |-> c.msg, gen |-> generation]
  <2>1. c.msg \in Messages
    BY <1>1, <1>4 DEF AllCommands
  <2>2. p \in PendingRequests
    BY <1>1, <2>1 DEF PendingRequests
  <2>3. UNCHANGED <<reg, bySubId, nextSubId, wanted, generation>>
    BY <1>4 DEF OnSendMessage, registryVars
  <2>4. \/ UNCHANGED pending /\ nextRequestId' \in {nextRequestId, nextRequestId + 1}
        \/ Sent(p)
    BY <1>4 DEF OnSendMessage
  <2>. QED BY <2>2, <2>3, <2>4 DEF OtherRequest, RegistryStep
<1>5. CASE OnForceRebind
  <2> DEFINE p == [kind |-> "forceRebind", gen |-> generation]
  <2>1. p \in PendingRequests
    BY <1>1 DEF PendingRequests
  <2>2. Ignored \/ NoIdLeft(p.kind, KeyOf(p)) \/ Sent(p) \/ NotSent(p)
    BY <1>5 DEF OnForceRebind, Dispatches
  <2>. QED BY <1>5, <2>1, <2>2, DispatchSteps DEF OnForceRebind, registryVars, RegistryStep
<1>6. ASSUME NEW events, NEW how, ClosesAfter(events, how)
      PROVE  RegistryStep
  BY <1>6 DEF ClosesAfter, registryVars, controlVars, registryAndRequests, RegistryStep
<1>7. CASE OnDestroy
  <2> DEFINE p == [kind |-> "destroy", gen |-> generation]
  <2>1. p \in PendingRequests
    BY <1>1 DEF PendingRequests
  <2>2. CASE /\ Sent(p)
             /\ UNCHANGED <<streamVars, sessionVars, recoveryVars, registryVars, generation,
                            forceRebindOutstanding, retryVars, stop>>
    BY <2>1, <2>2 DEF OtherRequest, registryVars, RegistryStep
  <2>. QED BY <1>6, <1>7, <2>2 DEF OnDestroy, Closes
<1>8. CASE Closes("byClient")
  BY <1>6, <1>8 DEF Closes
<1>. QED BY <1>2, <1>3, <1>4, <1>5, <1>7, <1>8 DEF OnCommand

LEMMA Steps ==
  ASSUME TypeInv, [Next]_vars
  PROVE  RegistryStep
<1>1. CASE \/ DelayElapses \/ Established \/ OpenFails \/ StreamFails
           \/ StreamEnds \/ InboundStalled \/ HeartbeatDue \/ StopObserved \/ OrderStop
  BY <1>1, ConnectionQuiet DEF RegistryStep
<1>2. CASE \E n \in Notifications : OnLine(n)
  BY <1>2, LineSteps
<1>3. CASE \E c \in Commands : OnCommand(c)
  BY <1>3, CommandSteps
<1>4. CASE UNCHANGED vars
  BY <1>4 DEF vars, registryVars, controlVars, registryAndRequests, RegistryStep
<1>. QED BY <1>1, <1>2, <1>3, <1>4 DEF Next

-----------------------------------------------------------------------------
(* The registry *)

\* The binding and the index after issuing, key by key and id by id: exactly the
\* keys of sent are bound anew, each to the id of its rank.
Indexed(todo, next, sent, ix) ==
  /\ \A k \in sent : bySubId'[next + Rank(todo, k)] = k
  /\ \A i \in SubIds : (\A k \in sent : i # next + Rank(todo, k)) => bySubId'[i] = ix[i]
Requested(todo, sent, pend, gen) ==
  /\ \A k \in sent : pending'[nextRequestId + Rank(todo, k)]
                       = [kind |-> "subscribe", gen |-> gen, key |-> k]
  /\ \A i \in RequestIds : (\A k \in sent : i # nextRequestId + Rank(todo, k)) =>
       pending'[i] = pend[i]

LEMMA IssuedIndex ==
  ASSUME RegistryTypeOK, RequestTypeOK,
         NEW todo \in SUBSET Keys, NEW next \in 1 .. SubIdMax, NEW failed,
         NEW r \in [Keys -> Entries], NEW ix, NEW pend, NEW gen,
         NEW sent, sent = WithIds(todo, next) \ failed,
         IssueSubscriptions(todo, next, failed, r, ix, pend, gen)
  PROVE  Indexed(todo, next, sent, ix) /\ Requested(todo, sent, pend, gen)
<1>1. /\ sent \subseteq todo
      /\ \A k \in sent : /\ next + Rank(todo, k) \in SubIds
                         /\ nextRequestId + Rank(todo, k) \in RequestIds
                         /\ Rank(todo, k) \in Nat
  BY Issued
<1>2. \A j, k \in sent : Rank(todo, j) = Rank(todo, k) => j = k
  BY <1>1, RankInjective
<1>3. \A j, k \in sent : next + Rank(todo, j) = next + Rank(todo, k) => j = k
  BY <1>1, <1>2
<1>4. nextRequestId \in Nat
  BY DEF RequestTypeOK
<1>5. \A j, k \in sent : nextRequestId + Rank(todo, j) = nextRequestId + Rank(todo, k) => j = k
  BY <1>1, <1>2, <1>4
<1>6. bySubId' = [i \in SubIds |->
        IF \E k \in sent : i = next + Rank(todo, k)
        THEN CHOOSE k \in sent : i = next + Rank(todo, k)
        ELSE ix[i]]
  BY DEF IssueSubscriptions
<1>7. pending' = [i \in RequestIds |->
        IF \E k \in sent : i = nextRequestId + Rank(todo, k)
        THEN [kind |-> "subscribe", gen |-> gen,
              key |-> CHOOSE k \in sent : i = nextRequestId + Rank(todo, k)]
        ELSE pend[i]]
  BY DEF IssueSubscriptions
<1>8. ASSUME NEW k \in sent
      PROVE  (CHOOSE j \in sent : next + Rank(todo, k) = next + Rank(todo, j)) = k
  BY <1>3
<1>9. ASSUME NEW k \in sent
      PROVE  (CHOOSE j \in sent :
                nextRequestId + Rank(todo, k) = nextRequestId + Rank(todo, j)) = k
  BY <1>5
<1>10. \A k \in sent : bySubId'[next + Rank(todo, k)] = k
  BY <1>1, <1>6, <1>8
<1>11. \A k \in sent : pending'[nextRequestId + Rank(todo, k)]
                         = [kind |-> "subscribe", gen |-> gen, key |-> k]
  BY <1>1, <1>7, <1>9
<1>12. Indexed(todo, next, sent, ix)
  BY <1>6, <1>10 DEF Indexed
<1>13. Requested(todo, sent, pend, gen)
  BY <1>7, <1>11 DEF Requested
<1>. QED BY <1>12, <1>13

\* Issuing keeps a consistent registry consistent, provided that only unbound
\* entries of the desired set are issued.
ReadyToIssue(todo, next, r, ix) ==
  /\ \A k \in Keys, i \in SubIds : ix[i] = k <=> r[k].wire = i
  /\ \A k \in Keys : r[k].wire < next
  /\ \A k \in Keys : r[k].state \in {"unused", "gone"} => r[k].wire = NoId
  /\ \A k \in todo : r[k].wire = NoId
  /\ \A k \in wanted' : k \in Keys /\ r[k].state \in {"pending", "active"}

LEMMA IssuedRegistry ==
  ASSUME RegistryTypeOK, RequestTypeOK,
         NEW todo \in SUBSET Keys, NEW next \in 1 .. SubIdMax, NEW failed,
         NEW r \in [Keys -> Entries], NEW ix, NEW pend, NEW gen,
         IssueSubscriptions(todo, next, failed, r, ix, pend, gen),
         ReadyToIssue(todo, next, r, ix)
  PROVE  RegistryInv'
<1> DEFINE sent == WithIds(todo, next) \ failed
           id(k) == next + Rank(todo, k)
<1>0. Indexed(todo, next, sent, ix)
  BY IssuedIndex
<1>1. /\ sent \subseteq todo
      /\ \A k \in sent : /\ next + Rank(todo, k) \in SubIds
                         /\ next + Rank(todo, k) < nextSubId'
                         /\ Rank(todo, k) \in Nat
      /\ nextSubId' \in next .. SubIdMax
      /\ reg' = Bindings(todo, next, sent, r)
  BY Issued
<1>2. /\ \A k \in sent : bySubId'[id(k)] = k
      /\ \A i \in SubIds : (\A k \in sent : i # id(k)) => bySubId'[i] = ix[i]
  BY <1>0 DEF Indexed
<1>3. \A k \in sent : reg'[k] = [r[k] EXCEPT !.state = "pending", !.wire = id(k)]
  BY <1>1 DEF Bindings
<1>4. \A k \in sent : reg'[k].state = "pending" /\ reg'[k].wire = id(k)
  <2> SUFFICES ASSUME NEW k \in sent
               PROVE  reg'[k].state = "pending" /\ reg'[k].wire = id(k)
    OBVIOUS
  <2>1. r[k] \in Entries /\ reg'[k] = [r[k] EXCEPT !.state = "pending", !.wire = id(k)]
    BY <1>1, <1>3
  <2>. HIDE DEF id, sent
  <2>. QED BY <2>1 DEF Entries
<1>5. \A k \in Keys \ sent : reg'[k] = r[k]
  BY <1>1 DEF Bindings
<1>6. /\ \A k \in Keys : r[k].wire \in Nat
      /\ \A i \in SubIds : i \in Nat /\ i # NoId
      /\ next \in Nat /\ nextSubId' \in Nat /\ next <= nextSubId'
      /\ \A k \in sent : id(k) \in Nat /\ next <= id(k)
  BY <1>1, BoundsAssumption DEF Entries, SubIds, NoId
<1>. HIDE DEF sent, id
<1>7. IndexMatchesRegistry'
  <2> SUFFICES ASSUME NEW k \in Keys, NEW i \in SubIds
               PROVE  bySubId'[i] = k <=> reg'[k].wire = i
    BY DEF IndexMatchesRegistry
  <2>1. CASE \E j \in sent : i = id(j)
    <3>1. PICK j \in sent : i = id(j)
      BY <2>1
    <3>2. bySubId'[i] = j /\ reg'[j].wire = i
      BY <1>2, <1>4, <3>1
    <3>3. CASE k \in sent
      BY <1>2, <1>4, <3>2, <3>3
    <3>4. CASE k \notin sent
      <4>1. r[k].wire < next
        BY DEF ReadyToIssue
      <4>2. r[k].wire # i
        BY <1>6, <3>1, <4>1
      <4>. QED BY <1>5, <3>1, <3>2, <3>4, <4>2
    <3>. QED BY <3>3, <3>4
  <2>2. CASE \A j \in sent : i # id(j)
    <3>1. bySubId'[i] = ix[i]
      BY <1>2, <2>2
    <3>2. ix[i] = k <=> r[k].wire = i
      BY DEF ReadyToIssue
    <3>3. CASE k \in sent
      <4>1. r[k].wire = NoId
        BY <1>1, <3>3 DEF ReadyToIssue
      <4>. QED BY <1>4, <1>6, <2>2, <3>1, <3>2, <3>3, <4>1
    <3>4. CASE k \notin sent
      BY <1>5, <3>1, <3>2, <3>4
    <3>. QED BY <3>3, <3>4
  <2>. QED BY <2>1, <2>2
<1>8. SubIdsConsumed'
  <2> SUFFICES ASSUME NEW k \in Keys PROVE reg'[k].wire < nextSubId'
    BY DEF SubIdsConsumed
  <2>1. CASE k \in sent
    <3>1. id(k) < nextSubId'
      BY <1>1, <2>1 DEF id
    <3>. QED BY <1>4, <2>1, <3>1
  <2>2. CASE k \notin sent
    <3>1. r[k].wire < next
      BY DEF ReadyToIssue
    <3>2. r[k].wire < nextSubId'
      BY <1>6, <3>1
    <3>. QED BY <1>5, <2>2, <3>2
  <2>. QED BY <2>1, <2>2
<1>9. UnregisteredUnbound'
  <2> SUFFICES ASSUME NEW k \in Keys, reg'[k].state \notin {"pending", "active", "removing"}
               PROVE  reg'[k].wire = NoId
    BY DEF UnregisteredUnbound, Registered
  <2>1. reg'[k] = r[k]
    BY <1>4, <1>5
  <2>2. r[k].state \in {"unused", "gone"}
    BY <2>1 DEF Entries
  <2>. QED BY <2>1, <2>2 DEF ReadyToIssue
<1>10. NothingLostSilently'
  <2> SUFFICES ASSUME NEW k \in wanted' PROVE reg'[k].state \in {"pending", "active"}
    BY DEF NothingLostSilently
  <2>1. k \in Keys /\ r[k].state \in {"pending", "active"}
    BY DEF ReadyToIssue
  <2>. QED BY <1>4, <1>5, <2>1
<1>. QED BY <1>7, <1>8, <1>9, <1>10 DEF RegistryInv

LEMMA OnConOkRegistry ==
  ASSUME IInv, NEW s \in Sessions, OnConOk(s)
  PROVE  RegistryInv'
<1> DEFINE gen  == IF Fresh(s) THEN generation + 1 ELSE generation
           r    == IF Fresh(s) THEN ResetRegistry ELSE reg
           ix   == IF Fresh(s) THEN [i \in SubIds |-> NoKey] ELSE bySubId
           next == IF Fresh(s) THEN 1 ELSE nextSubId
           pend == [i \in RequestIds |-> IF i \in Stale(gen) THEN NoRequest ELSE pending[i]]
           todo == Unissued(r)
<1>1. RegistryTypeOK /\ RequestTypeOK /\ RegistryInv
  BY DEF IInv, TypeInv, TypeOK
<1>2. PICK failed \in SUBSET WithIds(todo, next) :
        IssueSubscriptions(todo, next, failed, r, ix, pend, gen)
  BY DEF OnConOk
<1>3. wanted' = wanted /\ wanted \in SUBSET Keys
  BY <1>1 DEF OnConOk, RegistryTypeOK
<1>4. next \in 1 .. SubIdMax /\ r \in [Keys -> Entries] /\ todo \in SUBSET Keys
  BY <1>1, BoundsAssumption, ResetRegistryType DEF RegistryTypeOK, Unissued
<1>5. CASE ~Fresh(s)
  <2>1. r = reg /\ ix = bySubId /\ next = nextSubId
    BY <1>5
  <2>2. ReadyToIssue(todo, next, r, ix)
    <3>1. \A k \in todo : reg[k].wire = NoId
      BY <2>1 DEF Unissued
    <3>2. ReadyToIssue(todo, nextSubId, reg, bySubId)
      <4>. HIDE DEF todo
      <4>. QED BY <1>1, <1>3, <3>1 DEF ReadyToIssue, RegistryInv, IndexMatchesRegistry,
                   SubIdsConsumed, UnregisteredUnbound, Registered, NothingLostSilently
    <3>. HIDE DEF todo, r, ix, next
    <3>. QED BY <2>1, <3>2
  <2>. HIDE DEF r, ix, next, pend, gen, todo
  <2>. QED BY <1>1, <1>2, <1>4, <2>2, IssuedRegistry
<1>6. CASE Fresh(s)
  <2>1. r = ResetRegistry /\ ix = [i \in SubIds |-> NoKey] /\ next = 1
    BY <1>6
  <2>2. \A k \in Keys : r[k].wire = NoId
    BY <1>1, <2>1 DEF ResetRegistry, RegistryInv, UnregisteredUnbound, Registered,
                      RegistryTypeOK, Entries
  <2>3. \A k \in wanted' : k \in Keys /\ r[k].state \in {"pending", "active"}
    BY <1>1, <1>3, <2>1 DEF ResetRegistry, RegistryInv, NothingLostSilently,
                            RegistryTypeOK, Entries
  <2>4. \A k \in Keys, i \in SubIds : ix[i] = NoKey /\ NoKey # k /\ i # NoId
    <3>1. \A i \in SubIds : ix[i] = NoKey
      BY <2>1
    <3>2. \A k \in Keys : NoKey # k
      BY KeysAssumption
    <3>3. \A i \in SubIds : i # NoId
      BY DEF SubIds, NoId
    <3>. QED BY <3>1, <3>2, <3>3
  <2>5. \A k \in todo : k \in Keys
    BY <1>4
  <2>. HIDE DEF r, ix, next, pend, gen, todo
  <2>6. ReadyToIssue(todo, next, r, ix)
    <3>1. \A k \in Keys, i \in SubIds : ix[i] = k <=> r[k].wire = i
      BY <2>2, <2>4
    <3>2. \A k \in Keys : r[k].wire < next
      BY <2>1, <2>2 DEF NoId
    <3>. QED BY <2>2, <2>3, <2>5, <3>1, <3>2 DEF ReadyToIssue
  <2>. QED BY <1>1, <1>2, <1>4, <2>6, IssuedRegistry
<1>. QED BY <1>5, <1>6

LEMMA OnSubscribeRegistry ==
  ASSUME IInv, NEW k \in Keys, OnSubscribe(k)
  PROVE  RegistryInv'
<1> DEFINE e == [state |-> "pending", wire |-> NoId, wasActive |-> FALSE, freq |-> "none"]
           r == [reg EXCEPT ![k] = e]
           todo == IF streamState = "bound" /\ session # NoSession THEN {k} ELSE {}
<1>1. RegistryTypeOK /\ RequestTypeOK /\ RegistryInv
  BY DEF IInv, TypeInv, TypeOK
<1>2. PICK failed \in SUBSET WithIds(todo, nextSubId) :
        IssueSubscriptions(todo, nextSubId, failed, r, bySubId, pending, generation)
  BY DEF OnSubscribe
<1>3. e \in Entries /\ e.wire = NoId /\ e.state = "pending"
  BY DEF Entries
<1>4. /\ r \in [Keys -> Entries] /\ r[k].wire = NoId /\ r[k].state = "pending"
      /\ \A j \in Keys \ {k} : r[j] = reg[j]
  <2>. HIDE DEF e
  <2>. QED BY <1>1, <1>3 DEF RegistryTypeOK
<1>5. reg[k].wire = NoId
  BY <1>1 DEF OnSubscribe, RegistryInv, UnregisteredUnbound, Registered
<1>6. /\ todo \in SUBSET Keys /\ nextSubId \in 1 .. SubIdMax
      /\ \A j \in todo : r[j].wire = NoId
  BY <1>1, <1>4 DEF RegistryTypeOK
<1>. HIDE DEF e, r, todo
<1>7. \A j \in Keys : r[j].wire = reg[j].wire
  BY <1>4, <1>5
<1>8. \A j \in Keys, i \in SubIds : bySubId[i] = j <=> r[j].wire = i
  BY <1>1, <1>7 DEF RegistryInv, IndexMatchesRegistry
<1>9. \A j \in Keys : r[j].wire < nextSubId
  BY <1>1, <1>7 DEF RegistryInv, SubIdsConsumed
<1>10. \A j \in Keys : r[j].state \in {"unused", "gone"} => r[j].wire = NoId
  BY <1>1, <1>4 DEF RegistryInv, UnregisteredUnbound, Registered
<1>11. \A j \in wanted' : j \in Keys /\ r[j].state \in {"pending", "active"}
  <2>1. wanted' = wanted \cup {k}
    BY DEF OnSubscribe
  <2>. QED BY <1>1, <1>4, <2>1 DEF RegistryInv, NothingLostSilently, RegistryTypeOK
<1>12. ReadyToIssue(todo, nextSubId, r, bySubId)
  BY <1>6, <1>8, <1>9, <1>10, <1>11 DEF ReadyToIssue
<1>. QED BY <1>1, <1>2, <1>4, <1>6, <1>12, IssuedRegistry

\* A step that keeps every binding, and the registration of whatever is bound.
LEMMA SameBindings ==
  ASSUME RegistryInv, UNCHANGED <<bySubId, nextSubId>>,
         \A k \in Keys : reg'[k].wire = reg[k].wire,
         \A k \in Keys : reg'[k].state \notin {"pending", "active", "removing"} =>
           reg'[k].wire = NoId,
         \A k \in wanted' : reg'[k].state \in {"pending", "active"}
  PROVE  RegistryInv'
<1>1. IndexMatchesRegistry'
  BY DEF RegistryInv, IndexMatchesRegistry
<1>2. SubIdsConsumed'
  BY DEF RegistryInv, SubIdsConsumed
<1>3. UnregisteredUnbound'
  BY DEF UnregisteredUnbound, Registered
<1>4. NothingLostSilently'
  BY DEF NothingLostSilently
<1>. QED BY <1>1, <1>2, <1>3, <1>4 DEF RegistryInv

\* A step by which one subscription leaves the registry and gives its sub id back.
LEMMA EntryLeaves ==
  ASSUME RegistryTypeOK, RegistryInv, NEW k \in Keys,
         reg' \in [Keys -> Entries],
         reg'[k].state = "gone", reg'[k].wire = NoId,
         \A j \in Keys \ {k} : reg'[j] = reg[j],
         \A i \in SubIds : bySubId'[i] = IF i = reg[k].wire THEN NoKey ELSE bySubId[i],
         nextSubId' = nextSubId, wanted' = wanted \ {k}
  PROVE  RegistryInv'
<1>1. \A i \in SubIds : i # NoId
  BY DEF SubIds, NoId
<1>2. \A j \in Keys : j # NoKey
  BY KeysAssumption
<1>3. IndexMatchesRegistry'
  <2> SUFFICES ASSUME NEW j \in Keys, NEW i \in SubIds
               PROVE  bySubId'[i] = j <=> reg'[j].wire = i
    BY DEF IndexMatchesRegistry
  <2>1. /\ bySubId[i] = j <=> reg[j].wire = i
        /\ bySubId[i] = k <=> reg[k].wire = i
    BY DEF RegistryInv, IndexMatchesRegistry
  <2>2. CASE j = k
    BY <1>1, <1>2, <2>1, <2>2
  <2>3. CASE j # k
    BY <1>2, <2>1, <2>3
  <2>. QED BY <2>2, <2>3
<1>4. SubIdsConsumed'
  <2>1. NoId < nextSubId
    BY BoundsAssumption DEF RegistryTypeOK, NoId
  <2>. QED BY <2>1 DEF RegistryInv, SubIdsConsumed
<1>5. UnregisteredUnbound'
  BY DEF RegistryInv, UnregisteredUnbound, Registered
<1>6. NothingLostSilently'
  <2>1. wanted \subseteq Keys
    BY DEF RegistryTypeOK
  <2>. QED BY <2>1 DEF RegistryInv, NothingLostSilently
<1>. QED BY <1>3, <1>4, <1>5, <1>6 DEF RegistryInv

LEMMA OnUnsubscribeRegistry ==
  ASSUME RegistryTypeOK, RegistryInv, NEW k \in Keys, OnUnsubscribe(k)
  PROVE  RegistryInv'
<1>1. reg \in [Keys -> Entries] /\ wanted \subseteq Keys
  BY DEF RegistryTypeOK
<1>2. UNCHANGED <<bySubId, nextSubId>> /\ wanted' = wanted \ {k}
  BY DEF OnUnsubscribe
<1>3. /\ \A j \in Keys : reg[j].state \notin {"pending", "active", "removing"} =>
           reg[j].wire = NoId
      /\ \A j \in wanted : reg[j].state \in {"pending", "active"}
  BY DEF RegistryInv, UnregisteredUnbound, Registered, NothingLostSilently
<1>4. CASE reg' = reg
  BY <1>1, <1>2, <1>3, <1>4, SameBindings
<1>5. CASE reg[k].wire = NoId /\ reg' = [reg EXCEPT ![k].state = "gone"]
  <2>1. /\ \A j \in Keys \ {k} : reg'[j] = reg[j]
        /\ reg'[k].wire = NoId
    BY <1>1, <1>5 DEF Entries
  <2>. QED BY <1>1, <1>2, <1>3, <1>5, <2>1, SameBindings
<1>6. CASE reg' = [reg EXCEPT ![k].state = "removing"]
  <2>1. /\ \A j \in Keys \ {k} : reg'[j] = reg[j]
        /\ reg'[k].wire = reg[k].wire /\ reg'[k].state = "removing"
    BY <1>1, <1>6 DEF Entries
  <2>. QED BY <1>1, <1>2, <1>3, <2>1, SameBindings
<1>. QED BY <1>4, <1>5, <1>6 DEF OnUnsubscribe

\* The request answered, if any, names a subscription the facade handed out.
LEMMA AnsweredKey ==
  ASSUME RequestTypeOK, NEW i,
         Answered(i).kind \in {"subscribe", "unsubscribe", "reconfigure"}
  PROVE  KeyOf(Answered(i)) \in Keys
<1>1. Answered(i) \in PendingRequests \cup {NoRequest}
  BY DEF RequestTypeOK, Answered
<1>. QED BY <1>1 DEF PendingRequests, NoRequest, KeyOf

LEMMA OnRequestOkRegistry ==
  ASSUME RegistryTypeOK, RequestTypeOK, RegistryInv, NEW i, OnRequestOk(i)
  PROVE  RegistryInv'
<1> DEFINE p == Answered(i)
           k == KeyOf(p)
<1>1. reg \in [Keys -> Entries] /\ wanted \subseteq Keys
  BY DEF RegistryTypeOK
<1>2. UNCHANGED <<bySubId, nextSubId, wanted>>
  BY DEF OnRequestOk
<1>3. /\ \A j \in Keys : reg[j].state \notin {"pending", "active", "removing"} =>
           reg[j].wire = NoId
      /\ \A j \in wanted : reg[j].state \in {"pending", "active"}
  BY DEF RegistryInv, UnregisteredUnbound, Registered, NothingLostSilently
<1>4. \A j \in Keys : reg'[j].wire = reg[j].wire /\ reg'[j].state = reg[j].state
  <2>1. CASE reg' = reg
    BY <2>1
  <2>2. CASE p.kind = "reconfigure" /\ reg' = [reg EXCEPT ![k].freq = p.freq]
    <3>1. k \in Keys
      BY <2>2, AnsweredKey
    <3>. HIDE DEF p, k
    <3>. QED BY <1>1, <2>2, <3>1 DEF Entries
  <2>. QED BY <2>1, <2>2 DEF OnRequestOk
<1>. QED BY <1>1, <1>2, <1>3, <1>4, SameBindings

LEMMA OnRequestErrorRegistry ==
  ASSUME RegistryTypeOK, RequestTypeOK, RegistryInv, reg' \in [Keys -> Entries],
         NEW i, OnRequestError(i)
  PROVE  RegistryInv'
<1> DEFINE p == Answered(i)
           k == KeyOf(p)
<1>1. reg \in [Keys -> Entries] /\ wanted \subseteq Keys /\ nextSubId' = nextSubId
  BY DEF RegistryTypeOK, OnRequestError
<1>2. /\ \A j \in Keys : reg[j].state \notin {"pending", "active", "removing"} =>
           reg[j].wire = NoId
      /\ \A j \in wanted : reg[j].state \in {"pending", "active"}
  BY DEF RegistryInv, UnregisteredUnbound, Registered, NothingLostSilently
<1>3. CASE p.kind = "subscribe" /\ RefusesSubscribe(k)
  <2>1. k \in Keys
    BY <1>3, AnsweredKey
  <2>. HIDE DEF p, k
  <2>2. CASE Registered(k)
    <3>1. /\ reg'[k].state = "gone" /\ reg'[k].wire = NoId
          /\ \A j \in Keys \ {k} : reg'[j] = reg[j]
      BY <1>1, <1>3, <2>1, <2>2 DEF RefusesSubscribe, Entries
    <3>2. /\ \A j \in SubIds : bySubId'[j] = IF j = reg[k].wire THEN NoKey ELSE bySubId[j]
          /\ wanted' = wanted \ {k}
      BY <1>3, <2>2 DEF RefusesSubscribe
    <3>. QED BY <1>1, <2>1, <3>1, <3>2, EntryLeaves
  <2>3. CASE ~Registered(k)
    <3>1. /\ \A j \in Keys : reg'[j] = reg[j]
          /\ wanted' \subseteq wanted
      BY <1>1, <1>3, <2>1, <2>3 DEF RefusesSubscribe
    <3>2. bySubId' = bySubId
      BY <1>3, <2>3 DEF RefusesSubscribe, RegistryTypeOK
    <3>. QED BY <1>1, <1>2, <3>1, <3>2, SameBindings
  <2>. QED BY <2>2, <2>3
<1>4. CASE p.kind = "unsubscribe" /\ RefusesUnsubscribe(k)
  <2>1. k \in Keys
    BY <1>4, AnsweredKey
  <2>. HIDE DEF p, k
  <2>2. /\ UNCHANGED <<bySubId, wanted>>
        /\ \A j \in Keys \ {k} : reg'[j] = reg[j]
        /\ ~Registered(k) => reg'[k] = reg[k]
    BY <1>1, <1>4, <2>1 DEF RefusesUnsubscribe
  <2>3. Registered(k) => /\ reg'[k].wire = reg[k].wire
                         /\ reg'[k].state \in {"active", "pending"}
    BY <1>1, <1>4, <2>1 DEF RefusesUnsubscribe, Entries
  <2>4. \A j \in Keys : /\ reg'[j].wire = reg[j].wire
                        /\ reg'[j].state \in {"active", "pending"} \/ reg'[j] = reg[j]
    BY <2>2, <2>3
  <2>. QED BY <1>1, <1>2, <2>2, <2>4, SameBindings
<1>5. CASE UNCHANGED <<reg, bySubId, wanted>>
  BY <1>1, <1>2, <1>5, SameBindings
<1>. QED BY <1>3, <1>4, <1>5 DEF OnRequestError

LEMMA OnSubOkRegistry ==
  ASSUME RegistryTypeOK, RegistryInv, NEW sub, OnSubOk(sub)
  PROVE  RegistryInv'
<1> DEFINE k == KeyAt(sub)
<1>1. /\ reg \in [Keys -> Entries] /\ wanted \subseteq Keys
      /\ UNCHANGED <<bySubId, nextSubId, wanted>>
  BY DEF RegistryTypeOK, OnSubOk, Counts
<1>2. /\ \A j \in Keys : reg[j].state \notin {"pending", "active", "removing"} =>
           reg[j].wire = NoId
      /\ \A j \in wanted : reg[j].state \in {"pending", "active"}
  BY DEF RegistryInv, UnregisteredUnbound, Registered, NothingLostSilently
<1>3. CASE UNCHANGED reg
  BY <1>1, <1>2, <1>3, SameBindings
<1>4. CASE /\ k # NoKey
           /\ reg' = [reg EXCEPT ![k].state = "active", ![k].wasActive = TRUE]
  <2>1. k \in Keys
    BY <1>4 DEF KeyAt, RegistryTypeOK
  <2>. HIDE DEF k
  <2>2. /\ \A j \in Keys \ {k} : reg'[j] = reg[j]
        /\ reg'[k].state = "active" /\ reg'[k].wire = reg[k].wire
    BY <1>1, <1>4, <2>1 DEF Entries
  <2>. QED BY <1>1, <1>2, <2>2, SameBindings
<1>. QED BY <1>3, <1>4 DEF OnSubOk

LEMMA OnUnsubRegistry ==
  ASSUME RegistryTypeOK, RegistryInv, reg' \in [Keys -> Entries], NEW sub, OnUnsub(sub)
  PROVE  RegistryInv'
<1> DEFINE k == KeyAt(sub)
<1>1. /\ reg \in [Keys -> Entries] /\ wanted \subseteq Keys
      /\ nextSubId' = nextSubId
  BY DEF RegistryTypeOK, OnUnsub, Counts
<1>2. CASE UNCHANGED <<reg, bySubId, wanted>>
  BY <1>1, <1>2, SameBindings
  DEF RegistryInv, UnregisteredUnbound, Registered, NothingLostSilently
<1>3. CASE /\ k # NoKey
           /\ reg' = [reg EXCEPT ![k].state = "gone", ![k].wire = NoId]
           /\ bySubId' = [bySubId EXCEPT ![sub] = NoKey]
           /\ wanted' = wanted \ {k}
  <2>1. k \in Keys /\ sub \in SubIds /\ bySubId[sub] = k
    BY <1>3 DEF KeyAt, RegistryTypeOK
  <2>. HIDE DEF k
  <2>2. /\ \A j \in Keys \ {k} : reg'[j] = reg[j]
        /\ reg'[k].state = "gone" /\ reg'[k].wire = NoId
    BY <1>1, <1>3, <2>1 DEF Entries
  <2>3. reg[k].wire = sub
    BY <2>1 DEF RegistryInv, IndexMatchesRegistry
  <2>4. \A j \in SubIds : bySubId'[j] = IF j = reg[k].wire THEN NoKey ELSE bySubId[j]
    BY <1>3, <2>1, <2>3 DEF RegistryTypeOK
  <2>. QED BY <1>1, <1>3, <2>1, <2>2, <2>4, EntryLeaves
<1>. QED BY <1>2, <1>3 DEF OnUnsub

LEMMA RegistryNext ==
  ASSUME IInv, TypeInv', RegistryStep
  PROVE  RegistryInv'
<1>1. RegistryTypeOK /\ RequestTypeOK /\ RegistryInv /\ reg' \in [Keys -> Entries]
  BY DEF IInv, TypeInv, TypeOK, RegistryTypeOK
<1>2. ASSUME UNCHANGED <<reg, bySubId, nextSubId, wanted>>
      PROVE  RegistryInv'
  BY <1>1, <1>2
  DEF RegistryInv, IndexMatchesRegistry, SubIdsConsumed, UnregisteredUnbound, Registered,
      NothingLostSilently
<1>3. CASE UNCHANGED registryAndRequests \/ OtherRequest
  BY <1>2, <1>3 DEF registryAndRequests, OtherRequest
<1>4. CASE \E s \in Sessions : OnConOk(s)
  BY <1>4, OnConOkRegistry
<1>5. CASE \E i \in Nat : OnRequestOk(i) \/ OnRequestError(i)
  BY <1>1, <1>5, OnRequestOkRegistry, OnRequestErrorRegistry
<1>6. CASE \E sub \in Nat : OnSubOk(sub) \/ OnUnsub(sub)
  BY <1>1, <1>6, OnSubOkRegistry, OnUnsubRegistry
<1>7. CASE \E k \in Keys : OnSubscribe(k) \/ OnUnsubscribe(k)
  BY <1>1, <1>7, OnSubscribeRegistry, OnUnsubscribeRegistry
<1>. QED BY <1>3, <1>4, <1>5, <1>6, <1>7 DEF RegistryStep

-----------------------------------------------------------------------------
(* The requests *)

IsAdd(p) == p # NoRequest /\ p.kind = "subscribe"

\* What makes issuing todo safe: the requests that stay are of the session gen and
\* below the next id, and none of them is an add for a key of todo.
ReadyToRequest(todo, r, pend, gen) ==
  /\ \A i \in RequestIds : pend[i] # NoRequest => pend[i].gen = gen /\ i < nextRequestId
  /\ \A i \in RequestIds : IsAdd(pend[i]) =>
       LET k == pend[i].key
       IN /\ k \in Keys \ todo
          /\ r[k].state # "unused"
          /\ r[k].state \in {"pending", "active", "removing"} => r[k].wire # NoId
  /\ \A i, j \in RequestIds :
       IsAdd(pend[i]) /\ IsAdd(pend[j]) /\ pend[i].key = pend[j].key => i = j

LEMMA IssuedRequests ==
  ASSUME RegistryTypeOK, RequestTypeOK,
         NEW todo \in SUBSET Keys, NEW next \in 1 .. SubIdMax, NEW failed,
         NEW r \in [Keys -> Entries], NEW ix, NEW pend, NEW gen, generation' = gen,
         IssueSubscriptions(todo, next, failed, r, ix, pend, gen),
         ReadyToRequest(todo, r, pend, gen)
  PROVE  RequestInv'
<1> DEFINE sent == WithIds(todo, next) \ failed
           id(k) == nextRequestId + Rank(todo, k)
           add(k) == [kind |-> "subscribe", gen |-> gen, key |-> k]
<1>0. Requested(todo, sent, pend, gen)
  BY IssuedIndex
<1>1. /\ sent \subseteq todo
      /\ \A k \in sent : next + Rank(todo, k) \in SubIds
      /\ \A k \in sent : /\ nextRequestId + Rank(todo, k) \in RequestIds
                         /\ nextRequestId + Rank(todo, k) < nextRequestId'
      /\ nextRequestId' \in nextRequestId .. RequestIdMax
      /\ reg' = Bindings(todo, next, sent, r)
  BY Issued
<1>2. /\ \A k \in sent : pending'[id(k)] = add(k)
      /\ \A i \in RequestIds : (\A k \in sent : i # id(k)) => pending'[i] = pend[i]
  BY <1>0 DEF Requested
<1>3. /\ \A k \in sent : reg'[k] = [r[k] EXCEPT !.state = "pending",
                                                !.wire = next + Rank(todo, k)]
      /\ \A k \in Keys \ sent : reg'[k] = r[k]
  BY <1>1 DEF Bindings
<1>4. \A k \in sent : reg'[k].state = "pending" /\ reg'[k].wire # NoId
  <2> SUFFICES ASSUME NEW k \in sent
               PROVE  reg'[k].state = "pending" /\ reg'[k].wire # NoId
    OBVIOUS
  <2> DEFINE w == next + Rank(todo, k)
  <2>1. r[k] \in Entries /\ reg'[k] = [r[k] EXCEPT !.state = "pending", !.wire = w]
    BY <1>1, <1>3
  <2>2. w # NoId
    BY <1>1 DEF SubIds, NoId
  <2>. HIDE DEF w, sent
  <2>. QED BY <2>1, <2>2 DEF Entries
<1>5. \A k \in sent : /\ id(k) \in RequestIds /\ id(k) < nextRequestId'
                      /\ add(k).kind = "subscribe" /\ add(k).key = k /\ add(k).gen = gen
                      /\ add(k) # NoRequest
  BY <1>1 DEF NoRequest
<1>6. \A i \in RequestIds : i < nextRequestId => i < nextRequestId'
  BY <1>1 DEF RequestIds, RequestTypeOK
<1>. HIDE DEF sent, id, add
\* Where each request in flight comes from.
<1>7. \A i \in RequestIds : \/ \E k \in sent : i = id(k) /\ pending'[i] = add(k)
                            \/ pending'[i] = pend[i]
  BY <1>2
<1>8. NoStaleRequest'
  <2> SUFFICES ASSUME NEW i \in RequestIds, pending'[i] # NoRequest
               PROVE  pending'[i].gen = gen /\ i < nextRequestId'
    BY DEF NoStaleRequest
  <2>1. CASE \E k \in sent : i = id(k) /\ pending'[i] = add(k)
    BY <1>5, <2>1
  <2>2. CASE pending'[i] = pend[i]
    BY <1>6, <2>2 DEF ReadyToRequest
  <2>. QED BY <1>7, <2>1, <2>2
<1>9. ASSUME NEW i \in RequestIds, IsAdd(pending'[i])
      PROVE  /\ reg'[pending'[i].key].state # "unused"
             /\ reg'[pending'[i].key].state \in {"pending", "active", "removing"} =>
                  reg'[pending'[i].key].wire # NoId
  <2>1. CASE \E k \in sent : i = id(k) /\ pending'[i] = add(k)
    BY <1>4, <1>5, <2>1
  <2>2. CASE pending'[i] = pend[i]
    <3>1. pend[i].key \in Keys \ sent
      BY <1>1, <1>9, <2>2 DEF ReadyToRequest
    <3>. QED BY <1>3, <1>9, <2>2, <3>1 DEF ReadyToRequest
  <2>. QED BY <1>7, <2>1, <2>2
<1>10. ASSUME NEW i \in RequestIds, NEW j \in RequestIds,
              IsAdd(pending'[i]), IsAdd(pending'[j]), pending'[i].key = pending'[j].key
       PROVE  i = j
  <2>1. CASE /\ \E k \in sent : i = id(k) /\ pending'[i] = add(k)
             /\ \E k \in sent : j = id(k) /\ pending'[j] = add(k)
    BY <1>5, <1>10, <2>1
  <2>2. CASE /\ \E k \in sent : i = id(k) /\ pending'[i] = add(k)
             /\ pending'[j] = pend[j]
    BY <1>1, <1>5, <1>10, <2>2 DEF ReadyToRequest
  <2>3. CASE /\ pending'[i] = pend[i]
             /\ \E k \in sent : j = id(k) /\ pending'[j] = add(k)
    BY <1>1, <1>5, <1>10, <2>3 DEF ReadyToRequest
  <2>4. CASE pending'[i] = pend[i] /\ pending'[j] = pend[j]
    BY <1>10, <2>4 DEF ReadyToRequest
  <2>. QED BY <1>7, <2>1, <2>2, <2>3, <2>4
<1>11. OneAddInFlight'
  BY <1>9, <1>10 DEF OneAddInFlight, IsAdd, Registered
<1>12. AddsWereMade'
  BY <1>9 DEF AddsWereMade, IsAdd
<1>. QED BY <1>8, <1>11, <1>12 DEF RequestInv

\* The key of an add in flight.
LEMMA AddKey ==
  ASSUME RequestTypeOK, NEW i \in RequestIds, IsAdd(pending[i])
  PROVE  pending[i].key \in Keys
<1>1. pending[i] \in PendingRequests
  BY DEF RequestTypeOK, IsAdd
<1>. QED BY <1>1 DEF PendingRequests, IsAdd

\* What the invariant says of the requests in flight, in the terms of issuing.
LEMMA RequestsApart ==
  ASSUME RequestTypeOK, RequestInv
  PROVE  /\ \A i \in RequestIds : IsAdd(pending[i]) =>
              /\ pending[i].key \in Keys
              /\ reg[pending[i].key].state # "unused"
              /\ reg[pending[i].key].state \in {"pending", "active", "removing"} =>
                   reg[pending[i].key].wire # NoId
         /\ \A i, j \in RequestIds :
              IsAdd(pending[i]) /\ IsAdd(pending[j]) /\ pending[i].key = pending[j].key => i = j
<1>1. \A i \in RequestIds : IsAdd(pending[i]) => pending[i].key \in Keys
  BY AddKey
<1>. QED BY <1>1 DEF RequestInv, OneAddInFlight, AddsWereMade, IsAdd, Registered

LEMMA OnConOkRequests ==
  ASSUME IInv, NEW s \in Sessions, OnConOk(s)
  PROVE  RequestInv'
<1> DEFINE gen  == IF Fresh(s) THEN generation + 1 ELSE generation
           r    == IF Fresh(s) THEN ResetRegistry ELSE reg
           ix   == IF Fresh(s) THEN [i \in SubIds |-> NoKey] ELSE bySubId
           next == IF Fresh(s) THEN 1 ELSE nextSubId
           pend == [i \in RequestIds |-> IF i \in Stale(gen) THEN NoRequest ELSE pending[i]]
           todo == Unissued(r)
<1>1. RegistryTypeOK /\ RequestTypeOK /\ RequestInv
  BY DEF IInv, TypeInv, TypeOK
<1>2. PICK failed \in SUBSET WithIds(todo, next) :
        IssueSubscriptions(todo, next, failed, r, ix, pend, gen)
  BY DEF OnConOk
<1>3. generation' = gen
  BY DEF OnConOk
<1>4. next \in 1 .. SubIdMax /\ r \in [Keys -> Entries] /\ todo \in SUBSET Keys
  BY <1>1, BoundsAssumption, ResetRegistryType DEF RegistryTypeOK, Unissued
<1>5. ReadyToRequest(todo, r, pend, gen)
  <2>1. CASE ~Fresh(s)
    <3>1. r = reg /\ gen = generation
      BY <2>1
    <3>2. \A i \in RequestIds : pend[i] \in {pending[i], NoRequest}
      OBVIOUS
    <3>3. \A k \in todo : reg[k].wire = NoId
                          /\ reg[k].state \in {"pending", "active", "removing"}
      BY <3>1 DEF Unissued
    <3>. HIDE DEF r, pend, gen, todo
    <3>4. \A i \in RequestIds : pend[i] # NoRequest => pend[i].gen = gen /\ i < nextRequestId
      BY <1>1, <3>1, <3>2 DEF RequestInv, NoStaleRequest
    <3>5. \A i \in RequestIds : IsAdd(pend[i]) => IsAdd(pending[i]) /\ pend[i] = pending[i]
      BY <3>2 DEF IsAdd
    <3>. QED BY <1>1, <3>1, <3>3, <3>4, <3>5, RequestsApart DEF ReadyToRequest
  <2>2. CASE Fresh(s)
    <3>1. gen # generation
      BY <1>1, <2>2 DEF RequestTypeOK
    <3>. HIDE DEF gen
    <3>2. \A i \in RequestIds : pend[i] = NoRequest
      BY <1>1, <3>1 DEF RequestInv, NoStaleRequest, Stale
    <3>. HIDE DEF r, pend, todo
    <3>. QED BY <3>2 DEF ReadyToRequest, IsAdd
  <2>. QED BY <2>1, <2>2
<1>. HIDE DEF gen, r, ix, next, pend, todo
<1>. QED BY <1>1, <1>2, <1>3, <1>4, <1>5, IssuedRequests

LEMMA OnSubscribeRequests ==
  ASSUME IInv, NEW k \in Keys, OnSubscribe(k)
  PROVE  RequestInv'
<1> DEFINE e == [state |-> "pending", wire |-> NoId, wasActive |-> FALSE, freq |-> "none"]
           r == [reg EXCEPT ![k] = e]
           todo == IF streamState = "bound" /\ session # NoSession THEN {k} ELSE {}
<1>1. RegistryTypeOK /\ RequestTypeOK /\ RequestInv
  BY DEF IInv, TypeInv, TypeOK
<1>2. PICK failed \in SUBSET WithIds(todo, nextSubId) :
        IssueSubscriptions(todo, nextSubId, failed, r, bySubId, pending, generation)
  BY DEF OnSubscribe
<1>3. e \in Entries
  BY DEF Entries
<1>4. /\ r \in [Keys -> Entries]
      /\ \A j \in Keys \ {k} : r[j] = reg[j]
  <2>. HIDE DEF e
  <2>. QED BY <1>1, <1>3 DEF RegistryTypeOK
<1>5. todo \in SUBSET Keys /\ todo \subseteq {k} /\ nextSubId \in 1 .. SubIdMax
  BY <1>1 DEF RegistryTypeOK
<1>6. reg[k].state = "unused" /\ generation' = generation
  BY DEF OnSubscribe
<1>. HIDE DEF e, r, todo
<1>7. ReadyToRequest(todo, r, pending, generation)
  <2>1. \A i \in RequestIds : pending[i] # NoRequest =>
          pending[i].gen = generation /\ i < nextRequestId
    BY <1>1 DEF RequestInv, NoStaleRequest
  <2>2. \A i \in RequestIds : IsAdd(pending[i]) => pending[i].key \in Keys \ {k}
    BY <1>1, <1>6, RequestsApart
  <2>. QED BY <1>1, <1>4, <1>5, <2>1, <2>2, RequestsApart DEF ReadyToRequest
<1>. QED BY <1>1, <1>2, <1>4, <1>5, <1>6, <1>7, IssuedRequests

\* A step that makes no add and binds nothing: requests leave, or join with the
\* next id, and what stays registered stays bound.
LEMMA NoNewAdd ==
  ASSUME RequestTypeOK, RequestInv, generation' = generation,
         nextRequestId' \in Nat, nextRequestId <= nextRequestId',
         \A i \in RequestIds : \/ pending'[i] \in {NoRequest, pending[i]}
                               \/ /\ pending'[i].gen = generation /\ ~IsAdd(pending'[i])
                                  /\ i < nextRequestId',
         \A k \in Keys :
           /\ reg[k].state # "unused" => reg'[k].state # "unused"
           /\ reg'[k].state \in {"pending", "active", "removing"} =>
                \/ reg'[k].wire # NoId
                \/ /\ reg'[k].wire = reg[k].wire
                   /\ reg[k].state \in {"pending", "active", "removing"}
  PROVE  RequestInv'
<1>1. \A i \in RequestIds : IsAdd(pending'[i]) => pending'[i] = pending[i]
  BY DEF IsAdd
<1>2. \A i \in RequestIds : i < nextRequestId => i < nextRequestId'
  BY DEF RequestIds, RequestTypeOK
<1>3. NoStaleRequest'
  BY <1>2 DEF NoStaleRequest, RequestInv
<1>4. OneAddInFlight'
  <2> SUFFICES ASSUME NEW i \in RequestIds, IsAdd(pending'[i])
               PROVE  /\ reg'[pending'[i].key].state \in {"pending", "active", "removing"} =>
                           reg'[pending'[i].key].wire # NoId
                      /\ \A j \in RequestIds \ {i} :
                           IsAdd(pending'[j]) => pending'[j].key # pending'[i].key
    BY DEF OneAddInFlight, IsAdd, Registered
  <2>1. IsAdd(pending[i]) /\ pending'[i] = pending[i]
    BY <1>1
  <2>. QED BY <1>1, <2>1, RequestsApart
<1>5. AddsWereMade'
  <2> SUFFICES ASSUME NEW i \in RequestIds, IsAdd(pending'[i])
               PROVE  reg'[pending'[i].key].state # "unused"
    BY DEF AddsWereMade, IsAdd
  <2>1. IsAdd(pending[i]) /\ pending'[i] = pending[i]
    BY <1>1
  <2>. QED BY <2>1, RequestsApart
<1>. QED BY <1>3, <1>4, <1>5 DEF RequestInv

LEMMA RequestsKept ==
  ASSUME RequestTypeOK, RequestTypeOK', RequestInv,
         UNCHANGED generation,
         \/ pending' = pending /\ nextRequestId' \in {nextRequestId, nextRequestId + 1}
         \/ \E p \in PendingRequests : p.kind # "subscribe" /\ p.gen = generation /\ Sent(p)
         \/ (\E i \in Nat : ForgetsRequest(i)) /\ nextRequestId' = nextRequestId
  PROVE  /\ nextRequestId' \in Nat /\ nextRequestId <= nextRequestId'
         /\ \A i \in RequestIds : \/ pending'[i] \in {NoRequest, pending[i]}
                                  \/ /\ pending'[i].gen = generation /\ ~IsAdd(pending'[i])
                                     /\ i < nextRequestId'
<1>1. nextRequestId \in Nat
  BY DEF RequestTypeOK
<1>2. CASE pending' = pending /\ nextRequestId' \in {nextRequestId, nextRequestId + 1}
  BY <1>1, <1>2
<1>3. CASE \E p \in PendingRequests : p.kind # "subscribe" /\ p.gen = generation /\ Sent(p)
  <2>1. PICK p \in PendingRequests : p.kind # "subscribe" /\ p.gen = generation /\ Sent(p)
    BY <1>3
  <2>2. nextRequestId' = nextRequestId + 1 /\ nextRequestId < nextRequestId'
    BY <1>1, <2>1 DEF Sent
  <2>3. \A i \in RequestIds : pending'[i] = IF i = nextRequestId THEN p ELSE pending[i]
    BY <2>1 DEF Sent, RequestTypeOK
  <2>. QED BY <1>1, <2>1, <2>2, <2>3 DEF IsAdd
<1>4. CASE (\E i \in Nat : ForgetsRequest(i)) /\ nextRequestId' = nextRequestId
  BY <1>1, <1>4 DEF ForgetsRequest
<1>. QED BY <1>2, <1>3, <1>4

\* What NoNewAdd asks of the registry.
StaysBound(k) ==
  /\ reg[k].state # "unused" => reg'[k].state # "unused"
  /\ reg'[k].state \in {"pending", "active", "removing"} =>
       \/ reg'[k].wire # NoId
       \/ /\ reg'[k].wire = reg[k].wire
          /\ reg[k].state \in {"pending", "active", "removing"}

LEMMA OnUnsubscribeRequests ==
  ASSUME RegistryTypeOK, RequestTypeOK, RequestTypeOK', RequestInv,
         NEW k \in Keys, OnUnsubscribe(k)
  PROVE  RequestInv'
<1> DEFINE p == [kind |-> "unsubscribe", key |-> k, gen |-> generation]
<1>1. p \in PendingRequests /\ p.kind # "subscribe" /\ p.gen = generation
  BY DEF RequestTypeOK, PendingRequests
<1>2. generation' = generation
  BY DEF OnUnsubscribe
<1>3. \/ pending' = pending /\ nextRequestId' \in {nextRequestId, nextRequestId + 1}
      \/ Sent(p)
  BY DEF OnUnsubscribe, Ignored, Dispatches, NoIdLeft, NotSent
<1>4. \/ reg' = reg
      \/ reg' = [reg EXCEPT ![k].state = "gone"]
      \/ Registered(k) /\ reg' = [reg EXCEPT ![k].state = "removing"]
  BY DEF OnUnsubscribe
<1>. HIDE DEF p
<1>5. \A j \in Keys : reg[j] \in Entries
  BY DEF RegistryTypeOK
<1>6. \A j \in Keys : StaysBound(j)
  <2>1. CASE reg' = reg
    BY <2>1 DEF StaysBound
  <2>2. CASE reg' = [reg EXCEPT ![k].state = "gone"]
    BY <1>5, <2>2 DEF StaysBound, Entries, RegistryTypeOK
  <2>3. CASE Registered(k) /\ reg' = [reg EXCEPT ![k].state = "removing"]
    BY <1>5, <2>3 DEF StaysBound, Entries, RegistryTypeOK, Registered
  <2>. QED BY <1>4, <2>1, <2>2, <2>3
<1>7. /\ nextRequestId' \in Nat /\ nextRequestId <= nextRequestId'
      /\ \A i \in RequestIds : \/ pending'[i] \in {NoRequest, pending[i]}
                               \/ /\ pending'[i].gen = generation /\ ~IsAdd(pending'[i])
                                  /\ i < nextRequestId'
  BY <1>1, <1>2, <1>3, RequestsKept
<1>. QED BY <1>2, <1>6, <1>7, NoNewAdd DEF StaysBound

LEMMA AnswerRequests ==
  ASSUME RegistryTypeOK, RequestTypeOK, RequestTypeOK', RequestInv,
         NEW i \in Nat, OnRequestOk(i) \/ OnRequestError(i)
  PROVE  RequestInv'
<1> DEFINE p == Answered(i)
           k == KeyOf(p)
<1>1. ForgetsRequest(i) /\ UNCHANGED <<generation, nextRequestId>>
  BY DEF OnRequestOk, OnRequestError
<1>2. \A j \in Keys : reg[j] \in Entries
  BY DEF RegistryTypeOK
<1>3. p.kind \in {"subscribe", "unsubscribe", "reconfigure"} => k \in Keys
  BY AnsweredKey
<1>4. \/ reg' = reg
      \/ /\ p.kind = "reconfigure"
         /\ reg' = [reg EXCEPT ![k].freq = p.freq]
      \/ p.kind = "subscribe" /\ RefusesSubscribe(k)
      \/ p.kind = "unsubscribe" /\ RefusesUnsubscribe(k)
  BY DEF OnRequestOk, OnRequestError
<1>. HIDE DEF p, k
<1>5. \A j \in Keys : StaysBound(j)
  <2>1. CASE reg' = reg
    BY <2>1 DEF StaysBound
  <2>2. CASE p.kind = "reconfigure" /\ reg' = [reg EXCEPT ![k].freq = p.freq]
    <3>1. \A j \in Keys : reg'[j].state = reg[j].state /\ reg'[j].wire = reg[j].wire
      BY <1>2, <1>3, <2>2 DEF Entries, RegistryTypeOK
    <3>. QED BY <3>1 DEF StaysBound
  <2>3. CASE p.kind = "subscribe" /\ RefusesSubscribe(k)
    <3>1. /\ \A j \in Keys \ {k} : reg'[j] = reg[j]
          /\ reg'[k].state = "gone" \/ reg'[k] = reg[k]
      BY <1>2, <1>3, <2>3 DEF RefusesSubscribe, Entries, RegistryTypeOK
    <3>2. \A j \in Keys : reg'[j] = reg[j] \/ reg'[j].state = "gone"
      BY <3>1
    <3>. QED BY <3>2 DEF StaysBound
  <2>4. CASE p.kind = "unsubscribe" /\ RefusesUnsubscribe(k)
    <3>1. \A j \in Keys \ {k} : reg'[j] = reg[j]
      BY <1>2, <1>3, <2>4 DEF RefusesUnsubscribe, RegistryTypeOK
    <3>2. CASE Registered(k)
      <4>1. reg'[k].wire = reg[k].wire /\ reg'[k].state \in {"pending", "active"}
        BY <1>2, <1>3, <2>4, <3>2 DEF RefusesUnsubscribe, RegistryTypeOK, Entries
      <4>. QED BY <3>1, <3>2, <4>1 DEF StaysBound, Registered
    <3>3. CASE ~Registered(k)
      <4>1. reg'[k] = reg[k]
        BY <1>3, <2>4, <3>3 DEF RefusesUnsubscribe, RegistryTypeOK
      <4>. QED BY <3>1, <4>1 DEF StaysBound
    <3>. QED BY <3>2, <3>3
  <2>. QED BY <1>4, <2>1, <2>2, <2>3, <2>4
<1>6. /\ nextRequestId' \in Nat /\ nextRequestId <= nextRequestId'
      /\ \A j \in RequestIds : \/ pending'[j] \in {NoRequest, pending[j]}
                               \/ /\ pending'[j].gen = generation /\ ~IsAdd(pending'[j])
                                  /\ j < nextRequestId'
  BY <1>1, RequestsKept
<1>. QED BY <1>1, <1>5, <1>6, NoNewAdd DEF StaysBound

LEMMA SubscriptionLineRequests ==
  ASSUME RegistryTypeOK, RequestTypeOK, RequestInv, RegistryInv,
         NEW sub, OnSubOk(sub) \/ OnUnsub(sub)
  PROVE  RequestInv'
<1> DEFINE k == KeyAt(sub)
<1>1. UNCHANGED <<pending, generation, nextRequestId>>
  BY DEF OnSubOk, OnUnsub, Counts, controlVars
<1>2. \A j \in Keys : reg[j] \in Entries
  BY DEF RegistryTypeOK
<1>3. k # NoKey => k \in Keys /\ sub \in SubIds /\ bySubId[sub] = k
  BY DEF KeyAt, RegistryTypeOK
<1>4. \/ reg' = reg
      \/ k # NoKey /\ reg' = [reg EXCEPT ![k].state = "active", ![k].wasActive = TRUE]
      \/ k # NoKey /\ reg' = [reg EXCEPT ![k].state = "gone", ![k].wire = NoId]
  BY DEF OnSubOk, OnUnsub
<1>. HIDE DEF k
<1>5. \A j \in Keys : StaysBound(j)
  <2>1. CASE reg' = reg
    BY <2>1 DEF StaysBound
  <2>2. CASE k # NoKey /\ reg' = [reg EXCEPT ![k].state = "active", ![k].wasActive = TRUE]
    <3>1. reg[k].wire = sub /\ sub # NoId
      BY <1>3, <2>2 DEF RegistryInv, IndexMatchesRegistry, SubIds, NoId
    <3>2. /\ \A j \in Keys \ {k} : reg'[j] = reg[j]
          /\ reg'[k].state = "active" /\ reg'[k].wire = reg[k].wire
      BY <1>2, <1>3, <2>2 DEF Entries, RegistryTypeOK
    <3>. QED BY <3>1, <3>2 DEF StaysBound
  <2>3. CASE k # NoKey /\ reg' = [reg EXCEPT ![k].state = "gone", ![k].wire = NoId]
    <3>1. /\ \A j \in Keys \ {k} : reg'[j] = reg[j]
          /\ reg'[k].state = "gone"
      BY <1>2, <1>3, <2>3 DEF Entries, RegistryTypeOK
    <3>. QED BY <3>1 DEF StaysBound
  <2>. QED BY <1>4, <2>1, <2>2, <2>3
<1>6. nextRequestId' \in Nat /\ nextRequestId <= nextRequestId'
  BY <1>1 DEF RequestTypeOK
<1>. QED BY <1>1, <1>5, <1>6, NoNewAdd DEF StaysBound

LEMMA RequestsNext ==
  ASSUME IInv, TypeInv', RegistryStep
  PROVE  RequestInv'
<1>1. RegistryTypeOK /\ RequestTypeOK /\ RequestTypeOK' /\ RegistryInv /\ RequestInv
  BY DEF IInv, TypeInv, TypeOK
<1>2. CASE UNCHANGED registryAndRequests
  BY <1>1, <1>2
  DEF registryAndRequests, RequestInv, NoStaleRequest, OneAddInFlight, AddsWereMade, Registered
<1>3. CASE OtherRequest
  <2>1. /\ nextRequestId' \in Nat /\ nextRequestId <= nextRequestId'
        /\ \A i \in RequestIds : \/ pending'[i] \in {NoRequest, pending[i]}
                                 \/ /\ pending'[i].gen = generation /\ ~IsAdd(pending'[i])
                                    /\ i < nextRequestId'
    BY <1>1, <1>3, RequestsKept DEF OtherRequest
  <2>2. generation' = generation /\ reg' = reg
    BY <1>3 DEF OtherRequest
  <2>. QED BY <1>1, <2>1, <2>2, NoNewAdd
<1>4. CASE \E s \in Sessions : OnConOk(s)
  BY <1>4, OnConOkRequests
<1>5. CASE \E i \in Nat : OnRequestOk(i) \/ OnRequestError(i)
  BY <1>1, <1>5, AnswerRequests
<1>6. CASE \E sub \in Nat : OnSubOk(sub) \/ OnUnsub(sub)
  BY <1>1, <1>6, SubscriptionLineRequests
<1>7. CASE \E k \in Keys : OnSubscribe(k) \/ OnUnsubscribe(k)
  BY <1>1, <1>7, OnSubscribeRequests, OnUnsubscribeRequests
<1>. QED BY <1>2, <1>3, <1>4, <1>5, <1>6, <1>7 DEF RegistryStep

-----------------------------------------------------------------------------
(* The session of a bound stream *)

\* A step keeps the stream's state and session, unbinds the stream, or binds it to
\* the session the server named.
SessionStep ==
  \/ UNCHANGED <<streamState, session>>
  \/ streamState' = "establishing"
  \/ session' \in Sessions

LEMMA ConnectionSession ==
  ASSUME \/ DelayElapses \/ Established \/ OpenFails \/ StreamFails
         \/ StreamEnds \/ InboundStalled \/ HeartbeatDue \/ StopObserved \/ OrderStop
  PROVE  SessionStep
  BY DEF DelayElapses, Established, OpenFails, StreamFails, StreamEnds, InboundStalled,
         HeartbeatDue, StopObserved, OrderStop, ConnectionLost, Unbinds, Closes,
         ClosesAfter, streamVars, sessionVars, SessionStep

LEMMA LineSession ==
  ASSUME NEW n \in Notifications, OnLine(n)
  PROVE  SessionStep
<1>1. CASE n.t = "CONOK" /\ OnConOk(n.session)
  <2>1. n.session \in Sessions
    BY <1>1, InputsAssumption DEF AllNotifications
  <2>. QED BY <1>1, <2>1 DEF OnConOk, SessionStep
<1>2. CASE OnConErr(n.code) \/ OnEnd(n.code) \/ OnLoop(n.delayed)
  BY <1>2 DEF OnConErr, OnEnd, OnLoop, Unbinds, Closes, ClosesAfter, sessionVars, SessionStep
<1>3. CASE \/ OnProg(n.at) \/ OnRequestOk(n.id) \/ OnRequestError(n.id)
           \/ SkipsDuplicate \/ OnUnparsed
  BY <1>3 DEF OnProg, OnRequestOk, OnRequestError, SkipsDuplicate, OnUnparsed,
              streamVars, sessionVars, SessionStep
<1>4. CASE \/ OnSubOk(n.sub) \/ OnUnsub(n.sub) \/ OnUpdate(n.sub)
           \/ OnMessageOutcome(n.msg, "done") \/ OnMessageOutcome(n.msg, "failed")
  BY <1>4 DEF OnSubOk, OnUnsub, OnUpdate, OnMessageOutcome, Counts,
              streamVars, sessionVars, SessionStep
<1>. QED BY <1>1, <1>2, <1>3, <1>4 DEF OnLine

LEMMA CommandSession ==
  ASSUME NEW c \in Commands, OnCommand(c)
  PROVE  SessionStep
  BY DEF OnCommand, OnSubscribe, OnUnsubscribe, OnReconfigure, OnSendMessage,
         OnForceRebind, OnDestroy, Closes, ClosesAfter, streamVars, sessionVars, SessionStep

LEMMA SessionNext ==
  ASSUME BoundHasSession, [Next]_vars
  PROVE  BoundHasSession'
<1>1. SessionStep
  <2>1. CASE \/ DelayElapses \/ Established \/ OpenFails \/ StreamFails
             \/ StreamEnds \/ InboundStalled \/ HeartbeatDue \/ StopObserved \/ OrderStop
    BY <2>1, ConnectionSession
  <2>2. CASE \E n \in Notifications : OnLine(n)
    BY <2>2, LineSession
  <2>3. CASE \E c \in Commands : OnCommand(c)
    BY <2>3, CommandSession
  <2>4. CASE UNCHANGED vars
    BY <2>4 DEF vars, streamVars, sessionVars, SessionStep
  <2>. QED BY <2>1, <2>2, <2>3, <2>4 DEF Next
<1>. QED BY <1>1, SessionsAssumption DEF SessionStep, BoundHasSession

-----------------------------------------------------------------------------
(* The invariant and its theorems *)

LEMMA InvariantInit == Init => IInv
<1> SUFFICES ASSUME Init PROVE IInv
  OBVIOUS
<1>1. TypeInv
  BY TypeInit
<1>2. /\ \A k \in Keys : reg[k].wire = NoId /\ reg[k].state = "unused"
      /\ \A i \in SubIds : bySubId[i] = NoKey
      /\ \A i \in RequestIds : pending[i] = NoRequest
      /\ wanted = {} /\ nextSubId = 1 /\ streamState = "establishing"
  BY DEF Init
<1>3. \A i \in SubIds : i # NoId
  BY DEF SubIds, NoId
<1>4. \A k \in Keys : k # NoKey
  BY KeysAssumption
<1>5. RegistryInv
  BY <1>2, <1>3, <1>4
  DEF RegistryInv, IndexMatchesRegistry, SubIdsConsumed, UnregisteredUnbound,
      NothingLostSilently, NoId
<1>6. RequestInv
  BY <1>2 DEF RequestInv, NoStaleRequest, OneAddInFlight, AddsWereMade
<1>7. BoundHasSession
  BY <1>2 DEF BoundHasSession
<1>. QED BY <1>1, <1>5, <1>6, <1>7 DEF IInv

LEMMA InvariantNext ==
  ASSUME IInv, [Next]_vars
  PROVE  IInv'
<1>1. TypeInv'
  BY TypeNext DEF IInv
<1>2. RegistryStep
  BY Steps DEF IInv
<1>3. RegistryInv'
  BY <1>1, <1>2, RegistryNext
<1>4. RequestInv'
  BY <1>1, <1>2, RequestsNext
<1>5. BoundHasSession'
  BY SessionNext DEF IInv
<1>. QED BY <1>1, <1>3, <1>4, <1>5 DEF IInv

\* The inductive invariant of the driver: types, registry, requests and session
\* stay consistent in every behaviour, whatever lines and commands arrive.
THEOREM Consistent == Spec => []IInv
<1>1. Init => IInv
  BY InvariantInit
<1>2. IInv /\ [Next]_vars => IInv'
  BY InvariantNext
<1>. QED BY <1>1, <1>2, PTL DEF Spec

\* Registry::by_sub_id and Registry::entries agree in every behaviour: a line is
\* attributed to the subscription that owns its sub id, and to no other.
THEOREM IndexCorrect == Spec => []IndexMatchesRegistry
<1>1. IInv => IndexMatchesRegistry
  BY DEF IInv, RegistryInv
<1>. QED BY <1>1, Consistent, PTL

\* The desired set survives every reconnection, replacement and refusal: what the
\* caller still wants and was not told it lost is registered.
THEOREM DesiredSetKept == Spec => []NothingLostSilently
<1>1. IInv => NothingLostSilently
  BY DEF IInv, RegistryInv
<1>. QED BY <1>1, Consistent, PTL

\* Every control request in flight belongs to the current session: retire_stale_pending
\* leaves nothing that an answer could later mistake for a request of its own.
THEOREM RequestsOfThisSession == Spec => []NoStaleRequest
<1>1. IInv => NoStaleRequest
  BY DEF IInv, RequestInv
<1>. QED BY <1>1, Consistent, PTL

\* issue_unissued never adds a subscription whose add is still unanswered.
THEOREM AddsUnique == Spec => []OneAddInFlight
<1>1. IInv => OneAddInFlight
  BY DEF IInv, RequestInv
<1>. QED BY <1>1, Consistent, PTL

\* Where the code takes the session of a bound stream for granted, there is one.
THEOREM SessionKnown == Spec => []BoundHasSession
<1>1. IInv => BoundHasSession
  BY DEF IInv
<1>. QED BY <1>1, Consistent, PTL

-----------------------------------------------------------------------------
(* A bind, in parts *)

BoundRegistry(s)   == IF Fresh(s) THEN ResetRegistry ELSE reg
BoundIndex(s)      == IF Fresh(s) THEN [i \in SubIds |-> NoKey] ELSE bySubId
BoundNext(s)       == IF Fresh(s) THEN 1 ELSE nextSubId
BoundGeneration(s) == IF Fresh(s) THEN generation + 1 ELSE generation
BoundRequests(s)   ==
  [i \in RequestIds |-> IF i \in Stale(BoundGeneration(s)) THEN NoRequest ELSE pending[i]]
Todo(s)            == Unissued(BoundRegistry(s))
SentAtBind(s, failed) == WithIds(Todo(s), BoundNext(s)) \ failed

BindIssues(s, failed) ==
  /\ IssueSubscriptions(Todo(s), BoundNext(s), failed, BoundRegistry(s), BoundIndex(s),
                        BoundRequests(s), BoundGeneration(s))
  /\ out' = {BindEvent(s)} \cup Retired(BoundGeneration(s))
              \cup NotIssued(Todo(s), BoundNext(s), failed)
              \cup Resubscribed(Todo(s), BoundNext(s), failed)

LEMMA ConOkParts ==
  ASSUME RegistryTypeOK, NEW s \in Sessions, OnConOk(s)
  PROVE  /\ \E failed \in SUBSET WithIds(Todo(s), BoundNext(s)) : BindIssues(s, failed)
         /\ BoundNext(s) \in 1 .. SubIdMax
         /\ BoundRegistry(s) \in [Keys -> Entries] /\ Todo(s) \in SUBSET Keys
         /\ generation' = BoundGeneration(s) /\ wanted' = wanted
<1>1. \E failed \in SUBSET WithIds(Todo(s), BoundNext(s)) : BindIssues(s, failed)
  BY DEF OnConOk, BindIssues, Todo, BoundNext, BoundRegistry, BoundIndex, BoundRequests,
         BoundGeneration, BindEvent, Retired, Resubscribed
<1>2. BoundNext(s) \in 1 .. SubIdMax /\ BoundRegistry(s) \in [Keys -> Entries]
  BY BoundsAssumption, ResetRegistryType DEF RegistryTypeOK, BoundNext, BoundRegistry
<1>3. Todo(s) \in SUBSET Keys
  BY DEF Todo, Unissued
<1>4. generation' = BoundGeneration(s) /\ wanted' = wanted
  BY DEF OnConOk, BoundGeneration
<1>. QED BY <1>1, <1>2, <1>3, <1>4

\* A bind to a new session starts the registry over without a binding; one to the same
\* session keeps it.  Only what is left unbound is issued.
LEMMA BoundRegistryKeeps ==
  ASSUME RegistryTypeOK, RegistryInv, NEW s, NEW k \in Keys
  PROVE  /\ BoundRegistry(s)[k].wire \in {NoId, reg[k].wire}
         /\ ~Fresh(s) => BoundRegistry(s)[k] = reg[k]
         /\ Fresh(s) => BoundRegistry(s)[k].wire = NoId
         /\ reg[k].state \in {"pending", "active"} =>
              BoundRegistry(s)[k].state \in {"pending", "active"}
<1>1. reg[k] \in Entries
  BY DEF RegistryTypeOK
<1>2. ~Registered(k) => reg[k].wire = NoId
  BY DEF RegistryInv, UnregisteredUnbound
<1>3. CASE Fresh(s)
  <2>1. BoundRegistry(s)[k] = ResetRegistry[k]
    BY <1>3 DEF BoundRegistry
  <2>. QED BY <1>1, <1>2, <1>3, <2>1 DEF ResetRegistry, Registered, Entries
<1>4. CASE ~Fresh(s)
  BY <1>4 DEF BoundRegistry
<1>. QED BY <1>3, <1>4

\* What was issued, what is issued.
LEMMA IssuedKeys ==
  ASSUME NEW todo, NEW next, NEW sent, NEW r, NEW k \in Keys,
         r \in [Keys -> Entries], reg' = Bindings(todo, next, sent, r)
  PROVE  /\ k \in sent => reg'[k].state = "pending" /\ reg'[k].wire = next + Rank(todo, k)
         /\ k \notin sent => reg'[k] = r[k]
<1>1. r[k] \in Entries
  OBVIOUS
<1>2. k \in sent => reg'[k] = [r[k] EXCEPT !.state = "pending", !.wire = next + Rank(todo, k)]
  BY DEF Bindings
<1>3. k \notin sent => reg'[k] = r[k]
  BY DEF Bindings
<1>. QED BY <1>1, <1>2, <1>3 DEF Entries

-----------------------------------------------------------------------------
(* Ids *)

FreshIds ==
  /\ generation' = generation => nextSubId' >= nextSubId
  /\ \A k \in Keys : reg'[k].wire \notin {NoId, reg[k].wire} =>
       /\ reg'[k].wire < nextSubId'
       /\ generation' = generation => reg'[k].wire >= nextSubId
  /\ \A i \in RequestIds : pending'[i] \notin {NoRequest, pending[i]} =>
       nextRequestId <= i /\ i < nextRequestId'

\* What is issued from: the registry and the requests of before, without some of their
\* bindings and requests, and their next sub id if the session is the same.
TakesOver(r, next, pend) ==
  /\ generation' = generation => next = nextSubId
  /\ \A k \in Keys : r[k].wire \in {NoId, reg[k].wire}
  /\ \A i \in RequestIds : pend[i] \in {NoRequest, pending[i]}

LEMMA IssuedFresh ==
  ASSUME RegistryTypeOK, RequestTypeOK,
         NEW todo \in SUBSET Keys, NEW next \in 1 .. SubIdMax, NEW failed,
         NEW r \in [Keys -> Entries], NEW ix, NEW pend, NEW gen,
         IssueSubscriptions(todo, next, failed, r, ix, pend, gen)
  PROVE  TakesOver(r, next, pend) => FreshIds
<1> DEFINE sent == WithIds(todo, next) \ failed
<1>1. /\ sent \subseteq todo
      /\ \A k \in sent : /\ next + Rank(todo, k) < nextSubId'
                         /\ nextRequestId + Rank(todo, k) < nextRequestId'
                         /\ Rank(todo, k) \in Nat
      /\ nextSubId' \in next .. SubIdMax
      /\ reg' = Bindings(todo, next, sent, r)
  BY Issued
<1>2. Requested(todo, sent, pend, gen)
  BY IssuedIndex
<1>. HIDE DEF sent
<1>4. ASSUME NEW k \in Keys
      PROVE  /\ k \in sent => reg'[k].wire = next + Rank(todo, k)
             /\ k \notin sent => reg'[k] = r[k]
  <2>1. reg' = Bindings(todo, next, sent, r) /\ r \in [Keys -> Entries]
    BY <1>1
  <2>. QED BY ONLY <2>1, IssuedKeys, k \in Keys
<1>3. next \in Nat /\ nextSubId' \in Nat /\ nextRequestId \in Nat /\ next <= nextSubId'
  BY <1>1, BoundsAssumption DEF RequestTypeOK
<1>. SUFFICES ASSUME TakesOver(r, next, pend) PROVE FreshIds
  OBVIOUS
<1>5. ASSUME NEW k \in Keys, reg'[k].wire \notin {NoId, reg[k].wire}
      PROVE  /\ reg'[k].wire < nextSubId'
             /\ generation' = generation => reg'[k].wire >= nextSubId
  <2>1. k \in sent
    BY <1>4, <1>5 DEF TakesOver
  <2>2. reg'[k].wire = next + Rank(todo, k)
    BY <1>4, <2>1
  <2>. QED BY <1>1, <1>3, <2>1, <2>2 DEF TakesOver
<1>6. ASSUME NEW i \in RequestIds, pending'[i] \notin {NoRequest, pending[i]}
      PROVE  nextRequestId <= i /\ i < nextRequestId'
  <2>1. PICK k \in sent : i = nextRequestId + Rank(todo, k)
    BY <1>2, <1>6 DEF Requested, TakesOver
  <2>. QED BY <1>1, <1>3, <2>1
<1>. QED BY <1>3, <1>5, <1>6 DEF FreshIds, TakesOver

\* A step that binds nothing and sends nothing takes no id.
LEMMA NothingTaken ==
  ASSUME RegistryTypeOK, nextSubId' = nextSubId,
         \A k \in Keys : reg'[k].wire \in {NoId, reg[k].wire},
         \A i \in RequestIds : pending'[i] \in {NoRequest, pending[i]}
  PROVE  FreshIds
<1>1. nextSubId \in Nat
  BY DEF RegistryTypeOK
<1>. QED BY <1>1 DEF FreshIds

LEMMA SentFresh ==
  ASSUME RegistryTypeOK, RequestTypeOK, nextSubId' = nextSubId,
         \A k \in Keys : reg'[k].wire \in {NoId, reg[k].wire},
         NEW p, Sent(p)
  PROVE  FreshIds
<1>1. nextSubId \in Nat /\ nextRequestId \in Nat
  BY DEF RegistryTypeOK, RequestTypeOK
<1>2. \A i \in RequestIds : pending'[i] # pending[i] => i = nextRequestId
  BY DEF Sent, RequestTypeOK
<1>. QED BY <1>1, <1>2 DEF FreshIds, Sent

LEMMA FreshStep ==
  ASSUME IInv, RegistryStep
  PROVE  FreshIds
<1>1. RegistryTypeOK /\ RequestTypeOK /\ RegistryInv
  BY DEF IInv, TypeInv, TypeOK
<1>2. CASE UNCHANGED registryAndRequests
  BY <1>1, <1>2, NothingTaken DEF registryAndRequests
<1>3. CASE OtherRequest
  BY <1>1, <1>3, NothingTaken, SentFresh DEF OtherRequest
<1>4. ASSUME NEW s \in Sessions, OnConOk(s) PROVE FreshIds
  <2>1. PICK failed : BindIssues(s, failed)
    BY <1>1, <1>4, ConOkParts
  <2>2. generation' = generation => BoundNext(s) = nextSubId
    BY <1>1, <1>4, ConOkParts DEF BoundGeneration, BoundNext, RequestTypeOK
  <2>3. \A k \in Keys : BoundRegistry(s)[k].wire \in {NoId, reg[k].wire}
    BY <1>1, BoundRegistryKeeps
  <2>4. \A i \in RequestIds : BoundRequests(s)[i] \in {NoRequest, pending[i]}
    BY DEF BoundRequests
  <2>. QED BY <1>1, <1>4, <2>1, <2>2, <2>3, <2>4, ConOkParts, IssuedFresh DEF BindIssues, TakesOver
<1>5. CASE \E i \in Nat : OnRequestOk(i) \/ OnRequestError(i)
  <2>1. PICK i \in Nat : OnRequestOk(i) \/ OnRequestError(i)
    BY <1>5
  <2>2. nextSubId' = nextSubId /\ \A j \in RequestIds : pending'[j] \in {NoRequest, pending[j]}
    BY <2>1 DEF OnRequestOk, OnRequestError, ForgetsRequest
  <2>3. \A k \in Keys : reg'[k].wire \in {NoId, reg[k].wire}
    <3>1. \A k \in Keys : reg[k] \in Entries
      BY <1>1 DEF RegistryTypeOK
    <3> DEFINE p == Answered(i)
    <3>2. \/ reg' = reg
          \/ \E k, f : reg' = [reg EXCEPT ![k].freq = f]
          \/ \E k : RefusesSubscribe(k) \/ RefusesUnsubscribe(k)
      BY <2>1 DEF OnRequestOk, OnRequestError
    <3>3. CASE \E k, f : reg' = [reg EXCEPT ![k].freq = f]
      BY <1>1, <3>1, <3>3 DEF RegistryTypeOK, Entries
    <3>4. CASE \E k : RefusesSubscribe(k)
      BY <1>1, <3>1, <3>4 DEF RefusesSubscribe, RegistryTypeOK, Entries
    <3>5. CASE \E k : RefusesUnsubscribe(k)
      BY <1>1, <3>1, <3>5 DEF RefusesUnsubscribe, RegistryTypeOK, Entries
    <3>. QED BY <3>2, <3>3, <3>4, <3>5
  <2>. QED BY <1>1, <2>2, <2>3, NothingTaken
<1>6. CASE \E sub \in Nat : OnSubOk(sub) \/ OnUnsub(sub)
  <2>1. \A k \in Keys : reg[k] \in Entries
    BY <1>1 DEF RegistryTypeOK
  <2>2. UNCHANGED <<nextSubId, pending>>
    BY <1>6 DEF OnSubOk, OnUnsub, Counts, controlVars
  <2>3. \A k \in Keys : reg'[k].wire \in {NoId, reg[k].wire}
    BY <1>1, <1>6, <2>1 DEF OnSubOk, OnUnsub, RegistryTypeOK, Entries
  <2>. QED BY <1>1, <2>2, <2>3, NothingTaken
<1>7. ASSUME NEW k \in Keys, OnSubscribe(k) PROVE FreshIds
  <2> DEFINE e == [state |-> "pending", wire |-> NoId, wasActive |-> FALSE, freq |-> "none"]
             r == [reg EXCEPT ![k] = e]
             todo == IF streamState = "bound" /\ session # NoSession THEN {k} ELSE {}
  <2>1. PICK failed : IssueSubscriptions(todo, nextSubId, failed, r, bySubId, pending, generation)
    BY <1>7 DEF OnSubscribe
  <2>2. e \in Entries /\ e.wire = NoId
    BY DEF Entries
  <2>. HIDE DEF e
  <2>3. r \in [Keys -> Entries] /\ \A j \in Keys : r[j].wire \in {NoId, reg[j].wire}
    BY <1>1, <2>2 DEF RegistryTypeOK
  <2>4. todo \in SUBSET Keys /\ nextSubId \in 1 .. SubIdMax
    BY <1>1 DEF RegistryTypeOK
  <2>5. TakesOver(r, nextSubId, pending)
    BY <2>3 DEF TakesOver
  <2>. HIDE DEF r, todo
  <2>. QED BY <1>1, <2>1, <2>3, <2>4, <2>5, IssuedFresh
<1>8. ASSUME NEW k \in Keys, OnUnsubscribe(k) PROVE FreshIds
  <2> DEFINE p == [kind |-> "unsubscribe", key |-> k, gen |-> generation]
  <2>1. nextSubId' = nextSubId
    BY <1>8 DEF OnUnsubscribe
  <2>2. \A j \in Keys : reg'[j].wire \in {NoId, reg[j].wire}
    <3>1. \A j \in Keys : reg[j] \in Entries
      BY <1>1 DEF RegistryTypeOK
    <3>. QED BY <1>1, <1>8, <3>1 DEF OnUnsubscribe, RegistryTypeOK, Entries
  <2>3. pending' = pending \/ Sent(p)
    BY <1>8 DEF OnUnsubscribe, Ignored, Dispatches, NoIdLeft, NotSent
  <2>. QED BY <1>1, <2>1, <2>2, <2>3, NothingTaken, SentFresh
<1>. QED BY <1>2, <1>3, <1>4, <1>5, <1>6, <1>7, <1>8 DEF RegistryStep

\* allocate and next_request_id: on one session no sub id, and on one driver no request
\* id, is ever given to two requests, however many binds, refusals and failed sends there
\* are between them.
THEOREM IdsNeverReused == Spec => IdsAreFresh
<1>1. IInv /\ [Next]_vars => [FreshIds]_vars
  BY Steps, FreshStep DEF IInv
<1>. QED BY <1>1, Consistent, PTL DEF Spec, IdsAreFresh, FreshIds

-----------------------------------------------------------------------------
(* Requests *)

IsReported(i) ==
  /\ \E outcome \in {"accepted", "rejected", "notSent"} :
       Response(pending[i].kind, KeyOf(pending[i]), outcome) \in out'
  /\ pending[i].kind = "message" /\ generation' # generation =>
       MessageEvent(pending[i].msg, "notSent") \in out'
RequestsReported ==
  \A i \in RequestIds : pending[i] # NoRequest /\ pending'[i] # pending[i] => IsReported(i)

\* Issuing only writes request ids that were never used.
LEMMA IssuedApart ==
  ASSUME RegistryTypeOK, RequestTypeOK,
         NEW todo \in SUBSET Keys, NEW next \in 1 .. SubIdMax, NEW failed,
         NEW r \in [Keys -> Entries], NEW ix, NEW pend, NEW gen,
         IssueSubscriptions(todo, next, failed, r, ix, pend, gen)
  PROVE  \A i \in RequestIds : i < nextRequestId => pending'[i] = pend[i]
<1> DEFINE sent == WithIds(todo, next) \ failed
<1>1. sent \subseteq todo /\ \A k \in sent : Rank(todo, k) \in Nat
  BY Issued
<1>2. Requested(todo, sent, pend, gen)
  BY IssuedIndex
<1>3. nextRequestId \in Nat
  BY DEF RequestTypeOK
<1>. HIDE DEF sent
<1>. QED BY <1>1, <1>2, <1>3 DEF Requested

LEMMA SentApart ==
  ASSUME RequestTypeOK, NEW p, Sent(p)
  PROVE  \A i \in RequestIds : i < nextRequestId => pending'[i] = pending[i]
<1>1. nextRequestId \in Nat /\ RequestIds \subseteq Nat
  BY DEF RequestTypeOK, RequestIds
<1>. QED BY <1>1 DEF Sent, RequestTypeOK

\* The requests a bind retires are those of the sessions before, and all are reported.
LEMMA BindReports ==
  ASSUME IInv, NEW s \in Sessions, OnConOk(s)
  PROVE  RequestsReported
<1>1. RegistryTypeOK /\ RequestTypeOK /\ NoStaleRequest
  BY DEF IInv, TypeInv, TypeOK, RequestInv
<1>2. PICK failed : BindIssues(s, failed)
  BY <1>1, ConOkParts
<1>3. SUFFICES ASSUME NEW i \in RequestIds, pending[i] # NoRequest, pending'[i] # pending[i]
               PROVE  IsReported(i)
  BY DEF RequestsReported
<1>4. i < nextRequestId
  BY <1>1, <1>3 DEF NoStaleRequest
<1>5. pending'[i] = BoundRequests(s)[i]
  BY <1>1, <1>2, <1>4, ConOkParts, IssuedApart DEF BindIssues
<1>6. i \in Stale(BoundGeneration(s))
  BY <1>3, <1>5 DEF BoundRequests
<1>7. Retirement(i) \subseteq out'
  BY <1>2, <1>6 DEF BindIssues, Retired
<1>. QED BY <1>7 DEF Retirement, IsReported

\* The answer to a request is reported with what it answers.
LEMMA AnswerReports ==
  ASSUME IInv, NEW i \in Nat, OnRequestOk(i) \/ OnRequestError(i)
  PROVE  RequestsReported
<1>1. NoStaleRequest
  BY DEF IInv, RequestInv
<1>2. SUFFICES ASSUME NEW j \in RequestIds, pending[j] # NoRequest, pending'[j] # pending[j]
               PROVE  IsReported(j)
  BY DEF RequestsReported
<1>3. j = i
  BY <1>2 DEF OnRequestOk, OnRequestError, ForgetsRequest
<1>4. Answered(i) = pending[i]
  BY <1>1, <1>2, <1>3 DEF Answered, NoStaleRequest
<1>5. generation' = generation
  BY DEF OnRequestOk, OnRequestError
<1>6. CASE OnRequestOk(i)
  BY <1>3, <1>4, <1>5, <1>6 DEF OnRequestOk, IsReported
<1>7. CASE OnRequestError(i)
  BY <1>3, <1>4, <1>5, <1>7 DEF OnRequestError, IsReported
<1>. QED BY <1>6, <1>7

LEMMA ReportedStep ==
  ASSUME IInv, RegistryStep
  PROVE  RequestsReported
<1>1. RegistryTypeOK /\ RequestTypeOK /\ NoStaleRequest
  BY DEF IInv, TypeInv, TypeOK, RequestInv
<1>2. ASSUME \A i \in RequestIds : i < nextRequestId => pending'[i] = pending[i]
      PROVE  RequestsReported
  BY <1>1, <1>2 DEF NoStaleRequest, RequestsReported
<1>3. CASE UNCHANGED registryAndRequests \/ OtherRequest
  BY <1>1, <1>2, <1>3, SentApart DEF registryAndRequests, OtherRequest
<1>4. CASE \E s \in Sessions : OnConOk(s)
  BY <1>4, BindReports
<1>5. CASE \E i \in Nat : OnRequestOk(i) \/ OnRequestError(i)
  BY <1>5, AnswerReports
<1>6. CASE \E sub \in Nat : OnSubOk(sub) \/ OnUnsub(sub)
  BY <1>2, <1>6 DEF OnSubOk, OnUnsub, Counts, controlVars
<1>7. ASSUME NEW k \in Keys, OnSubscribe(k) PROVE RequestsReported
  <2> DEFINE e == [state |-> "pending", wire |-> NoId, wasActive |-> FALSE, freq |-> "none"]
             r == [reg EXCEPT ![k] = e]
             todo == IF streamState = "bound" /\ session # NoSession THEN {k} ELSE {}
  <2>1. PICK failed : IssueSubscriptions(todo, nextSubId, failed, r, bySubId, pending, generation)
    BY <1>7 DEF OnSubscribe
  <2>2. e \in Entries
    BY DEF Entries
  <2>. HIDE DEF e
  <2>3. r \in [Keys -> Entries]
    BY <1>1, <2>2 DEF RegistryTypeOK
  <2>4. todo \in SUBSET Keys /\ nextSubId \in 1 .. SubIdMax
    BY <1>1 DEF RegistryTypeOK
  <2>. HIDE DEF r, todo
  <2>. QED BY <1>1, <1>2, <2>1, <2>3, <2>4, IssuedApart
<1>8. ASSUME NEW k \in Keys, OnUnsubscribe(k) PROVE RequestsReported
  <2> DEFINE p == [kind |-> "unsubscribe", key |-> k, gen |-> generation]
  <2>1. pending' = pending \/ Sent(p)
    BY <1>8 DEF OnUnsubscribe, Ignored, Dispatches, NoIdLeft, NotSent
  <2>. HIDE DEF p
  <2>. QED BY <1>1, <1>2, <2>1, SentApart
<1>. QED BY <1>3, <1>4, <1>5, <1>6, <1>7, <1>8 DEF RegistryStep

\* take_pending and retire_stale_pending: a request leaves the table of those in flight
\* only with its answer, or with the report that its session is gone.
THEOREM RequestsAnswered == Spec => NoRequestForgotten
<1>1. IInv /\ [Next]_vars => [RequestsReported]_vars
  BY Steps, ReportedStep DEF IInv
<1>. QED BY <1>1, Consistent, PTL DEF Spec, NoRequestForgotten, RequestsReported, IsReported

-----------------------------------------------------------------------------
(* Binds *)

\* Planning the next connection reports the unbind, or the end.
LEMMA PlanningBindsNothing ==
  ASSUME NEW reason, NEW delayed,
         PlanRebind(reason, delayed) \/ PlanRecovery(reason) \/ PlanCreate \/ PlanRefresh
  PROVE  ~BindStep
<1>1. ASSUME NEW why, NEW kind, NEW requested, NEW phases,
             Reopens(why, kind, requested, phases) \/ GivesUp(why)
      PROVE  ~BindStep
  BY <1>1 DEF Reopens, GivesUp, BindStep
<1>2. ASSUME NEW why, NEW kind, NEW requested, RetriesAfter(why, kind, requested)
      PROVE  ~BindStep
  BY <1>1, <1>2 DEF RetriesAfter
<1>. QED BY <1>1, <1>2 DEF PlanRebind, PlanRecovery, PlanCreate, PlanRefresh

LEMMA ClosingBindsNothing ==
  ASSUME NEW how, \/ Closes(how)
                  \/ ClosesAfter({Response("destroy", NoKey, "notSent")}, how)
  PROVE  ~BindStep
  BY DEF Closes, ClosesAfter, Response, BindStep

LEMMA OnlyConOkBinds ==
  ASSUME Next, BindStep
  PROVE  phase = "pumping" /\ \E s \in Sessions : OnConOk(s)
<1>1. CASE \/ DelayElapses \/ Established \/ OpenFails \/ StreamFails
           \/ StreamEnds \/ InboundStalled \/ HeartbeatDue \/ StopObserved \/ OrderStop
  <2>1. ASSUME NEW reason, ConnectionLost(reason) PROVE ~BindStep
    BY <2>1, PlanningBindsNothing DEF ConnectionLost
  <2>2. CASE StreamEnds
    BY <2>1, <2>2, ClosingBindsNothing, PlanningBindsNothing DEF StreamEnds
  <2>3. CASE StopObserved
    BY <2>3, ClosingBindsNothing DEF StopObserved
  <2>. QED BY <1>1, <2>1, <2>2, <2>3
    DEF DelayElapses, Established, OpenFails, StreamFails, InboundStalled, HeartbeatDue,
        OrderStop, BindStep
<1>2. ASSUME NEW n \in Notifications, OnLine(n)
      PROVE  phase = "pumping" /\ \E s \in Sessions : OnConOk(s)
  <2>1. n \in AllNotifications /\ phase = "pumping"
    BY <1>2, InputsAssumption DEF OnLine
  <2>2. CASE n.t = "CONOK" /\ OnConOk(n.session)
    BY <2>1, <2>2 DEF AllNotifications
  <2>3. CASE OnConErr(n.code) \/ OnEnd(n.code) \/ OnLoop(n.delayed)
    BY <2>3, ClosingBindsNothing, PlanningBindsNothing DEF OnConErr, OnEnd, OnLoop
  <2>4. CASE \/ OnProg(n.at) \/ OnRequestOk(n.id) \/ OnRequestError(n.id)
             \/ SkipsDuplicate \/ OnUnparsed
    BY <2>4 DEF OnProg, OnRequestOk, OnRequestError, SkipsDuplicate, OnUnparsed, Response,
                MessageEvent, BindStep
  <2>5. CASE \/ OnSubOk(n.sub) \/ OnUnsub(n.sub) \/ OnUpdate(n.sub)
             \/ OnMessageOutcome(n.msg, "done") \/ OnMessageOutcome(n.msg, "failed")
    BY <2>5 DEF OnSubOk, OnUnsub, OnUpdate, OnMessageOutcome, SubscriptionEvent,
                MessageEvent, BindStep
  <2>. QED BY <1>2, <2>2, <2>3, <2>4, <2>5 DEF OnLine
<1>3. ASSUME NEW c \in Commands, OnCommand(c) PROVE ~BindStep
  <2>1. ASSUME NEW p, NEW kind, NEW k, Ignored \/ NoIdLeft(kind, k) \/ Sent(p) \/ NotSent(p)
        PROVE  ~BindStep
    BY <2>1 DEF Ignored, NoIdLeft, Sent, NotSent, Response, BindStep
  <2>2. CASE OnSubscribe(c.key)
    BY <2>2 DEF OnSubscribe, NotIssued, Response, BindStep
  <2>3. CASE OnUnsubscribe(c.key) \/ OnReconfigure(c.key, c.freq) \/ OnForceRebind
    BY <2>1, <2>3 DEF OnUnsubscribe, OnReconfigure, OnForceRebind, Dispatches
  <2>4. CASE OnSendMessage(c.msg)
    BY <2>1, <2>4 DEF OnSendMessage, Response, MessageEvent, BindStep
  <2>5. CASE OnDestroy \/ Closes("byClient")
    BY <2>1, <2>5, ClosingBindsNothing DEF OnDestroy
  <2>. QED BY <1>3, <2>2, <2>3, <2>4, <2>5 DEF OnCommand
<1>. QED BY <1>1, <1>2, <1>3 DEF Next

Reissued ==
  BindStep => \A k \in wanted :
    \/ reg'[k].wire # NoId
    \/ Response("subscribe", k, "notSent") \in out'
    \/ nextSubId' = SubIdMax

\* A key to issue is given a binding, or reported, or there was no sub id left for it.
LEMMA IssuedOrReported ==
  ASSUME RegistryTypeOK, RequestTypeOK, NEW s \in Sessions, NEW failed, BindIssues(s, failed),
         BoundNext(s) \in 1 .. SubIdMax, BoundRegistry(s) \in [Keys -> Entries],
         Todo(s) \in SUBSET Keys, NEW k \in Todo(s)
  PROVE  \/ reg'[k].wire # NoId
         \/ Response("subscribe", k, "notSent") \in out'
         \/ nextSubId' = SubIdMax
<1> DEFINE sent == SentAtBind(s, failed)
<1>1. sent = WithIds(Todo(s), BoundNext(s)) \ failed
  BY DEF SentAtBind
<1>. HIDE DEF sent
<1>2. /\ \A j \in sent : BoundNext(s) + Rank(Todo(s), j) \in SubIds
      /\ reg' = Bindings(Todo(s), BoundNext(s), sent, BoundRegistry(s))
  BY <1>1, Issued DEF BindIssues
<1>3. CASE k \in sent
  <2>1. reg'[k].wire = BoundNext(s) + Rank(Todo(s), k)
    BY <1>2, <1>3, IssuedKeys
  <2>. QED BY <1>2, <1>3, <2>1 DEF SubIds, NoId
<1>4. CASE k \in WithSubId(Todo(s), BoundNext(s)) \ sent
  BY <1>1, <1>4 DEF BindIssues, NotIssued
<1>5. CASE k \notin WithSubId(Todo(s), BoundNext(s))
  <2>1. BoundNext(s) + Rank(Todo(s), k) >= SubIdMax
    <3>1. Rank(Todo(s), k) \in Nat
      BY RankType
    <3>. QED BY <1>5, <3>1, BoundsAssumption DEF WithSubId
  <2>2. Rank(Todo(s), k) < Cardinality(Todo(s)) /\ Rank(Todo(s), k) \in Nat
        /\ Cardinality(Todo(s)) \in Nat
    BY RankType, RankBelowCardinality, KeysAssumption, FS_Subset, FS_CardinalityType
  <2>3. nextSubId' = SubIdAfter(Todo(s), BoundNext(s))
    BY DEF BindIssues, IssueSubscriptions
  <2>4. BoundNext(s) \in Nat /\ SubIdMax \in Nat
    BY BoundsAssumption
  <2>5. ~(BoundNext(s) + Cardinality(Todo(s)) <= SubIdMax)
    BY <2>1, <2>2, <2>4
  <2>. QED BY <2>3, <2>5 DEF SubIdAfter, AtMost
<1>. QED BY <1>3, <1>4, <1>5

LEMMA ReissuedStep ==
  ASSUME IInv, Next
  PROVE  Reissued
<1>1. RegistryTypeOK /\ RequestTypeOK /\ RegistryInv
  BY DEF IInv, TypeInv, TypeOK
<1>2. SUFFICES ASSUME NEW s \in Sessions, OnConOk(s), NEW k \in wanted
               PROVE  \/ reg'[k].wire # NoId
                      \/ Response("subscribe", k, "notSent") \in out'
                      \/ nextSubId' = SubIdMax
  BY OnlyConOkBinds DEF Reissued
<1>3. k \in Keys /\ reg[k].state \in {"pending", "active"}
  BY <1>1 DEF RegistryTypeOK, RegistryInv, NothingLostSilently
<1>4. PICK failed : BindIssues(s, failed)
  BY <1>1, <1>2, ConOkParts
<1>5. /\ BoundNext(s) \in 1 .. SubIdMax
      /\ BoundRegistry(s) \in [Keys -> Entries] /\ Todo(s) \in SUBSET Keys
  BY <1>1, <1>2, ConOkParts
<1>6. CASE k \in Todo(s)
  BY <1>1, <1>4, <1>5, <1>6, IssuedOrReported
<1>7. CASE k \notin Todo(s)
  <2>1. BoundRegistry(s)[k].wire # NoId
    BY <1>1, <1>3, <1>7, BoundRegistryKeeps DEF Todo, Unissued
  <2>2. k \notin SentAtBind(s, failed)
    BY <1>7 DEF SentAtBind, WithIds, WithSubId
  <2>3. reg' = Bindings(Todo(s), BoundNext(s), SentAtBind(s, failed), BoundRegistry(s))
    BY <1>4 DEF BindIssues, IssueSubscriptions, SentAtBind
  <2>. QED BY <1>3, <1>5, <2>1, <2>2, <2>3, IssuedKeys
<1>. QED BY <1>6, <1>7

\* issue_unissued: whatever happened before it, a bind leaves every subscription the
\* caller wants with a binding, or tells it that the add could not be sent.
THEOREM BindsReissue == Spec => ReissuedAtBind
<1>1. IInv /\ [Next]_vars => [Reissued]_vars
  BY ReissuedStep
<1>. QED BY <1>1, Consistent, PTL DEF Spec, ReissuedAtBind, Reissued

-----------------------------------------------------------------------------
(* Continuity *)

\* A bind that asks for a session asks for the one the driver holds.
IntentNamesSession == phase # "closed" /\ intent.kind # "create" => session # NoSession

LifecycleInv == ~IsPolling /\ IInv /\ IntentNamesSession

LEMMA OrderlyIsNext == OrderlyNext => Next
  BY DEF OrderlyNext, OrderlyLine, Next

LEMMA PlanNames ==
  ASSUME NEW reason,
         (PlanRecovery(reason) /\ session' = session) \/ PlanCreate \/ PlanRefresh
  PROVE  IntentNamesSession'
<1>1. ASSUME NEW why, NEW kind, NEW requested, NEW phases, Reopens(why, kind, requested, phases)
      PROVE  intent'.kind = kind
  BY <1>1 DEF Reopens
<1>2. ASSUME NEW why, NEW kind, NEW requested,
             RetriesAfter(why, kind, requested) \/ GivesUp(why)
      PROVE  phase' = "closed" \/ intent'.kind = kind
  BY <1>1, <1>2 DEF RetriesAfter, GivesUp
<1>. QED BY <1>1, <1>2 DEF PlanRecovery, PlanCreate, PlanRefresh, GivesUp, IntentNamesSession

LEMMA LifecycleStep ==
  ASSUME LifecycleInv, OrderlyNext
  PROVE  IntentNamesSession'
<1>1. ASSUME UNCHANGED <<intent, session>>, phase' = "closed" \/ phase # "closed"
      PROVE  IntentNamesSession'
  BY <1>1 DEF LifecycleInv, IntentNamesSession
<1>2. ASSUME NEW reason, ConnectionLost(reason) PROVE IntentNamesSession'
  BY <1>2, PlanNames DEF ConnectionLost, sessionVars, LifecycleInv
<1>3. ASSUME NEW events, NEW how, ClosesAfter(events, how) PROVE IntentNamesSession'
  BY <1>3 DEF ClosesAfter, IntentNamesSession
<1>4. CASE \/ DelayElapses \/ Established \/ OpenFails \/ StreamFails
           \/ StreamEnds \/ InboundStalled \/ HeartbeatDue \/ StopObserved \/ OrderStop
  BY <1>1, <1>2, <1>3, <1>4
  DEF DelayElapses, Established, OpenFails, StreamFails, StreamEnds, InboundStalled,
      HeartbeatDue, StopObserved, OrderStop, Closes, streamVars, sessionVars, LifecycleInv,
      IntentNamesSession
<1>5. ASSUME NEW n \in Notifications, OrderlyLine(n) PROVE IntentNamesSession'
  <2>1. n \in AllNotifications /\ OnLine(n) /\ phase = "pumping"
    BY <1>5, InputsAssumption DEF OrderlyLine, OnLine
  <2>2. CASE n.t = "CONOK" /\ OnConOk(n.session)
    <3>1. n.session \in Sessions
      BY <2>1, <2>2 DEF AllNotifications
    <3>. QED BY <2>2, <3>1, SessionsAssumption DEF OnConOk, IntentNamesSession
  <2>3. CASE OnConErr(n.code) \/ OnEnd(n.code)
    BY <1>3, <2>3, PlanNames DEF OnConErr, OnEnd, Closes
  <2>4. CASE n.t = "LOOP" /\ OnLoop(n.delayed)
    <3>1. streamState = "bound"
      BY <1>5, <2>4 DEF OrderlyLine, OpensWith, LifecycleInv, IInv, TypeInv, TypeOK, StreamTypeOK
    <3>. QED BY <2>4, <3>1 DEF OnLoop, LifecycleInv, IInv, BoundHasSession, sessionVars,
                               IntentNamesSession
  <2>5. CASE \/ OnProg(n.at) \/ OnRequestOk(n.id) \/ OnRequestError(n.id)
             \/ SkipsDuplicate \/ OnUnparsed
    BY <1>1, <2>1, <2>5 DEF OnProg, OnRequestOk, OnRequestError, SkipsDuplicate, OnUnparsed,
                            streamVars, sessionVars
  <2>6. CASE \/ OnSubOk(n.sub) \/ OnUnsub(n.sub) \/ OnUpdate(n.sub)
             \/ OnMessageOutcome(n.msg, "done") \/ OnMessageOutcome(n.msg, "failed")
    BY <1>1, <2>1, <2>6 DEF OnSubOk, OnUnsub, OnUpdate, OnMessageOutcome, Counts,
                            streamVars, sessionVars
  <2>. QED BY <2>1, <2>2, <2>3, <2>4, <2>5, <2>6 DEF OnLine
<1>6. ASSUME NEW c \in Commands, OnCommand(c) PROVE IntentNamesSession'
  BY <1>1, <1>3, <1>6
  DEF OnCommand, Serving, OnSubscribe, OnUnsubscribe, OnReconfigure, OnSendMessage,
      OnForceRebind, OnDestroy, Closes, streamVars, sessionVars
<1>. QED BY <1>4, <1>5, <1>6 DEF OrderlyNext

LEMMA LifecycleInvariant == ~IsPolling /\ LifecycleSpec => []LifecycleInv
<1>1. ~IsPolling /\ Init => LifecycleInv
  BY InvariantInit DEF LifecycleInv, IntentNamesSession, Init
<1>2. LifecycleInv /\ [OrderlyNext]_vars => LifecycleInv'
  <2>1. SUFFICES ASSUME LifecycleInv, OrderlyNext \/ UNCHANGED vars PROVE LifecycleInv'
    OBVIOUS
  <2>2. IInv'
    BY <2>1, OrderlyIsNext, InvariantNext DEF LifecycleInv
  <2>3. CASE OrderlyNext
    BY <2>1, <2>2, <2>3, LifecycleStep DEF LifecycleInv
  <2>4. CASE UNCHANGED vars
    BY <2>1, <2>2, <2>4 DEF LifecycleInv, IntentNamesSession, vars, streamVars, sessionVars
  <2>. QED BY <2>1, <2>3, <2>4
<1>. QED BY <1>1, <1>2, PTL DEF LifecycleSpec

TrueContinuity ==
  \A e \in out' : e.ev = "bound" =>
    \/ /\ e.kind \in {"rebound", "recovering"}
       /\ e.session = session
       /\ progressive' = progressive /\ generation' = generation
       /\ \A k \in Keys : reg[k].wire # NoId => reg'[k] = reg[k]
    \/ /\ e.kind \in {"created", "recreated"}
       /\ progressive' = 0 /\ generation' # generation

LEMMA ContinuityStep ==
  ASSUME LifecycleInv, OrderlyNext
  PROVE  TrueContinuity
<1>1. RegistryTypeOK /\ RequestTypeOK /\ RegistryInv
  BY DEF LifecycleInv, IInv, TypeInv, TypeOK
<1>2. SUFFICES ASSUME NEW s \in Sessions, OnConOk(s), phase = "pumping",
                      NEW e \in out', e.ev = "bound"
               PROVE  \/ /\ e.kind \in {"rebound", "recovering"}
                         /\ e.session = session
                         /\ progressive' = progressive /\ generation' = generation
                         /\ \A k \in Keys : reg[k].wire # NoId => reg'[k] = reg[k]
                      \/ /\ e.kind \in {"created", "recreated"}
                         /\ progressive' = 0 /\ generation' # generation
  BY OrderlyIsNext, OnlyConOkBinds DEF TrueContinuity, BindStep
<1>3. e = BindEvent(s)
  BY <1>2, ConOkEvents
<1>4. e.kind = BindKind(s) /\ e.session = s
  BY <1>3 DEF BindEvent
<1>5. generation' = (IF Fresh(s) THEN generation + 1 ELSE generation)
      /\ progressive' = (IF Fresh(s) THEN 0 ELSE progressive)
  BY <1>2 DEF OnConOk
<1>6. CASE Fresh(s)
  BY <1>1, <1>4, <1>5, <1>6 DEF Fresh, RequestTypeOK
<1>7. CASE ~Fresh(s)
  <2>1. BindKind(s) \in {"rebound", "recovering"} /\ Previous = s /\ intent.kind # "create"
    BY <1>7 DEF Fresh, BindKind
  <2>2. session = s
    BY <1>2, <2>1 DEF LifecycleInv, IntentNamesSession, Previous
  <2>3. ASSUME NEW k \in Keys, reg[k].wire # NoId PROVE reg'[k] = reg[k]
    <3>1. PICK failed : BindIssues(s, failed)
      BY <1>1, <1>2, ConOkParts
    <3>2. BoundRegistry(s) \in [Keys -> Entries] /\ BoundRegistry(s)[k] = reg[k]
      BY <1>1, <1>2, <1>7, ConOkParts DEF BoundRegistry
    <3>3. k \notin SentAtBind(s, failed)
      BY <2>3, <3>2 DEF SentAtBind, WithIds, WithSubId, Todo, Unissued
    <3>4. reg' = Bindings(Todo(s), BoundNext(s), SentAtBind(s, failed), BoundRegistry(s))
      BY <3>1 DEF BindIssues, IssueSubscriptions, SentAtBind
    <3>. QED BY <3>2, <3>3, <3>4 DEF Bindings
  <2>. QED BY <1>4, <1>5, <1>7, <2>1, <2>2, <2>3
<1>. QED BY <1>6, <1>7

\* on_conok: where the caller is told that the session goes on, it does - the same id,
\* the same count of notifications and every binding as it was - and otherwise the count
\* and the requests start over.  For streaming transports: a poll that ends before it is
\* bound asks for a session the driver does not hold, and then it is only the server's
\* choice of ids that keeps an old session from being taken for the new one.
THEOREM BindsTellTheTruth == ~IsPolling => (LifecycleSpec => ContinuityIsTrue)
<1>1. LifecycleInv /\ [OrderlyNext]_vars => [TrueContinuity]_vars
  BY ContinuityStep
<1>. QED BY <1>1, LifecycleInvariant, PTL DEF LifecycleSpec, ContinuityIsTrue, TrueContinuity

-----------------------------------------------------------------------------
(* The contract *)

SaysOnly(events) == \A e \in out' : PortEvent(e) \in events

LEMMA SaidNext == {PortEvent(e) : e \in out}' = {PortEvent(e) : e \in out'}
  BY DEF PortEvent

\* How the client layer hears the driver's events.
LEMMA PortEvents ==
  /\ \A k, what : PortEvent(SubscriptionEvent(k, what)) = Port!Subscription(k, what)
  /\ \A kind, k : PortEvent(Response(kind, k, "accepted")) = Port!Quiet
  /\ \A kind, k, outcome :
       outcome # "accepted" =>
         PortEvent(Response(kind, k, outcome)) =
           IF kind \in {"subscribe", "unsubscribe"} THEN Port!Answer(kind, k, outcome)
           ELSE Port!News
  /\ \A m, result : PortEvent(MessageEvent(m, result)) = Port!News
  /\ \A e : e.ev \in {"unbound", "recovered", "message", "unparsed", "resubscribed"} =>
       PortEvent(e) = Port!News
  /\ \A e : e.ev = "bound" => PortEvent(e) = Port!Bound
  /\ \A e : e.ev = "closed" => PortEvent(e) = Port!Closed
  BY DEF PortEvent, SubscriptionEvent, Response, MessageEvent, Port!Subscription, Port!Quiet,
         Port!Answer, Port!News, Port!Bound, Port!Closed

LEMMA LifeKept ==
  ASSUME \A k \in Keys : reg'[k].state = reg[k].state
  PROVE  UNCHANGED [k \in Keys |-> LifeOf(k)]
  BY DEF LifeOf

LEMMA LifeMoves ==
  ASSUME NEW k \in Keys, NEW state, reg'[k].state = state,
         \A j \in Keys \ {k} : reg'[j] = reg[j]
  PROVE  [j \in Keys |-> LifeOf(j)]' =
           [[j \in Keys |-> LifeOf(j)] EXCEPT ![k] =
              IF state \in {"pending", "active"} THEN "wanted" ELSE state]
  BY DEF LifeOf

\* The steps that only report.
LEMMA OnlySpeaks ==
  ASSUME phase # "closed", phase' # "closed",
         \A k \in Keys : reg'[k].state = reg[k].state,
         SaysOnly({Port!News, Port!Quiet})
  PROVE  Port!Next
<1>1. {PortEvent(e) : e \in out}' \in SUBSET {Port!News, Port!Quiet}
  BY SaidNext DEF SaysOnly
<1>. QED BY <1>1, LifeKept DEF Port!Next, Port!Speaks

LEMMA OnlyCloses ==
  ASSUME phase # "closed", phase' = "closed", reg' = reg,
         SaysOnly({Port!News, Port!Closed}), \E e \in out' : PortEvent(e) = Port!Closed
  PROVE  Port!Next
<1>1. {PortEvent(e) : e \in out}' \in {{Port!Closed}, {Port!News, Port!Closed}}
  BY SaidNext DEF SaysOnly
<1>. QED BY <1>1, LifeKept DEF Port!Next, Port!Closes

LEMMA ClosingKept ==
  ASSUME phase # "closed", NEW how,
         \/ Closes(how) \/ ClosesAfter({Response("destroy", NoKey, "notSent")}, how)
  PROVE  Port!Next
<1>1. phase' = "closed" /\ reg' = reg /\ [ev |-> "closed", how |-> how] \in out'
  BY DEF Closes, ClosesAfter, registryVars
<1>2. \A e \in out' : \/ e = [ev |-> "closed", how |-> how]
                      \/ e = Response("destroy", NoKey, "notSent")
  BY DEF Closes, ClosesAfter
<1>3. SaysOnly({Port!News, Port!Closed})
  BY <1>2, PortEvents DEF SaysOnly
<1>4. \E e \in out' : PortEvent(e) = Port!Closed
  BY <1>1, PortEvents
<1>. QED BY <1>1, <1>3, <1>4, OnlyCloses

LEMMA PlanningKept ==
  ASSUME phase # "closed", NEW reason, NEW delayed, Unbinds,
         PlanRebind(reason, delayed) \/ PlanRecovery(reason) \/ PlanCreate \/ PlanRefresh
  PROVE  Port!Next
<1>1. reg' = reg
  BY DEF Unbinds, registryVars
<1>2. ASSUME NEW why, NEW kind, NEW requested, NEW phases \in SUBSET {"waiting", "opening"},
             Reopens(why, kind, requested, phases)
      PROVE  Port!Next
  <2>1. phase' # "closed" /\ \A e \in out' : e.ev = "unbound"
    BY <1>2 DEF Reopens
  <2>. QED BY <1>1, <2>1, PortEvents, OnlySpeaks DEF SaysOnly
<1>3. ASSUME NEW why, GivesUp(why) PROVE Port!Next
  <2>1. /\ phase' = "closed" /\ \A e \in out' : e.ev \in {"unbound", "closed"}
        /\ \E e \in out' : e.ev = "closed"
    BY <1>3 DEF GivesUp
  <2>. QED BY <1>1, <2>1, PortEvents, OnlyCloses DEF SaysOnly
<1>4. ASSUME NEW why, NEW kind, NEW requested, RetriesAfter(why, kind, requested)
      PROVE  Port!Next
  BY <1>2, <1>3, <1>4 DEF RetriesAfter
<1>5. CASE PlanRebind(reason, delayed)
  <2>1. (IF delayed THEN {"waiting"} ELSE {"opening"}) \in SUBSET {"waiting", "opening"}
    OBVIOUS
  <2>. QED BY <1>2, <1>5, <2>1 DEF PlanRebind
<1>6. CASE PlanRefresh
  <2>1. {"opening"} \in SUBSET {"waiting", "opening"}
    OBVIOUS
  <2>. QED BY <1>2, <1>3, <1>4, <1>6, <2>1 DEF PlanRefresh
<1>. QED BY <1>4, <1>5, <1>6 DEF PlanRecovery, PlanCreate

LEMMA ConnectionKept ==
  ASSUME \/ DelayElapses \/ Established \/ OpenFails \/ StreamFails
         \/ StreamEnds \/ InboundStalled \/ HeartbeatDue \/ StopObserved \/ OrderStop
  PROVE  Port!Next
<1>1. ASSUME phase # "closed", phase' # "closed", reg' = reg, out' = {}
      PROVE  Port!Next
  BY <1>1, OnlySpeaks DEF SaysOnly
<1>2. ASSUME NEW reason, phase # "closed", ConnectionLost(reason) PROVE Port!Next
  BY <1>2, PlanningKept DEF ConnectionLost
<1>3. CASE DelayElapses \/ Established
  BY <1>1, <1>3 DEF DelayElapses, Established, registryVars
<1>4. CASE OpenFails \/ StreamFails \/ InboundStalled
  BY <1>2, <1>4 DEF OpenFails, StreamFails, InboundStalled
<1>5. CASE StreamEnds
  BY <1>2, <1>5, ClosingKept, PlanningKept DEF StreamEnds
<1>6. CASE HeartbeatDue
  BY <1>1, <1>2, <1>6 DEF HeartbeatDue, streamVars, registryVars
<1>7. CASE StopObserved
  BY <1>7, ClosingKept DEF StopObserved
<1>8. CASE OrderStop
  <2>1. phase' = phase /\ reg' = reg /\ out' = {}
    BY <1>8 DEF OrderStop, streamVars, registryVars
  <2>2. CASE phase = "closed"
    <3>1. {PortEvent(e) : e \in out}' = {}
      BY <2>1, SaidNext
    <3>. QED BY <2>1, <2>2, <3>1, LifeKept DEF Port!Next, Port!AfterClosing
  <2>. QED BY <1>1, <2>1, <2>2
<1>. QED BY <1>3, <1>4, <1>5, <1>6, <1>7, <1>8

-----------------------------------------------------------------------------
(* Requests of known subscriptions *)

\* A request about a subscription in flight is about one the caller made: its answer,
\* however late, names a key the client layer knows.
RequestsWereMade ==
  \A i \in RequestIds :
    pending[i] # NoRequest /\ pending[i].kind \in {"subscribe", "unsubscribe"} =>
      reg[pending[i].key].state # "unused"

ContractInv == IInv /\ RequestsWereMade

KnownStays == \A k \in Keys : reg[k].state # "unused" => reg'[k].state # "unused"

LEMMA IssuedKnown ==
  ASSUME NEW todo, NEW next, NEW sent, NEW r \in [Keys -> Entries],
         reg' = Bindings(todo, next, sent, r),
         \A k \in Keys : reg[k].state # "unused" => r[k].state # "unused"
  PROVE  KnownStays
<1>. SUFFICES ASSUME NEW k \in Keys, reg[k].state # "unused" PROVE reg'[k].state # "unused"
  BY DEF KnownStays
<1>1. \/ reg'[k] = r[k]
      \/ reg'[k] = [r[k] EXCEPT !.state = "pending", !.wire = next + Rank(todo, k)]
  BY DEF Bindings
<1>2. r[k] \in Entries
  OBVIOUS
<1>. QED BY <1>1, <1>2 DEF Entries

LEMMA BoundKnown ==
  ASSUME RegistryTypeOK, NEW s, NEW k \in Keys
  PROVE  BoundRegistry(s)[k].state = "unused" <=> reg[k].state = "unused"
<1>1. reg[k] \in Entries
  BY DEF RegistryTypeOK
<1>2. ResetRegistry[k].state = "unused" <=> reg[k].state = "unused"
  BY <1>1 DEF ResetRegistry, Entries
<1>. QED BY <1>2 DEF BoundRegistry

LEMMA KnownStep ==
  ASSUME IInv, RegistryStep
  PROVE  KnownStays
<1>1. RegistryTypeOK /\ \A k \in Keys : reg[k] \in Entries
  BY DEF IInv, TypeInv, TypeOK, RegistryTypeOK
<1>2. CASE UNCHANGED registryAndRequests \/ OtherRequest
  BY <1>2 DEF registryAndRequests, OtherRequest, KnownStays
<1>3. ASSUME NEW s \in Sessions, OnConOk(s) PROVE KnownStays
  <2>1. PICK failed : BindIssues(s, failed)
    BY <1>1, <1>3, ConOkParts
  <2>2. /\ reg' = Bindings(Todo(s), BoundNext(s), SentAtBind(s, failed), BoundRegistry(s))
        /\ BoundRegistry(s) \in [Keys -> Entries]
    BY <1>1, <1>3, <2>1, ConOkParts DEF BindIssues, IssueSubscriptions, SentAtBind
  <2>3. \A k \in Keys : reg[k].state # "unused" => BoundRegistry(s)[k].state # "unused"
    BY <1>1, BoundKnown
  <2>. QED BY <2>2, <2>3, IssuedKnown
<1>4. ASSUME NEW i \in Nat, OnRequestOk(i) \/ OnRequestError(i) PROVE KnownStays
  <2>1. \/ reg' = reg
        \/ \E k, f : reg' = [reg EXCEPT ![k].freq = f]
        \/ \E k : RefusesSubscribe(k) \/ RefusesUnsubscribe(k)
    BY <1>4 DEF OnRequestOk, OnRequestError
  <2>2. CASE \E k, f : reg' = [reg EXCEPT ![k].freq = f]
    BY <1>1, <2>2 DEF KnownStays, RegistryTypeOK, Entries
  <2>3. CASE \E k : RefusesSubscribe(k)
    BY <1>1, <2>3 DEF RefusesSubscribe, KnownStays, RegistryTypeOK, Entries
  <2>4. CASE \E k : RefusesUnsubscribe(k)
    BY <1>1, <2>4 DEF RefusesUnsubscribe, KnownStays, RegistryTypeOK, Entries
  <2>. QED BY <2>1, <2>2, <2>3, <2>4 DEF KnownStays
<1>5. CASE \E sub \in Nat : OnSubOk(sub) \/ OnUnsub(sub)
  BY <1>1, <1>5 DEF OnSubOk, OnUnsub, KnownStays, RegistryTypeOK, Entries
<1>6. ASSUME NEW k \in Keys, OnSubscribe(k) PROVE KnownStays
  <2> DEFINE e == [state |-> "pending", wire |-> NoId, wasActive |-> FALSE, freq |-> "none"]
             r == [reg EXCEPT ![k] = e]
             todo == IF streamState = "bound" /\ session # NoSession THEN {k} ELSE {}
  <2>1. \E sent : reg' = Bindings(todo, nextSubId, sent, r)
    BY <1>6 DEF OnSubscribe, IssueSubscriptions
  <2>2. e \in Entries /\ e.state # "unused"
    BY DEF Entries
  <2>. HIDE DEF e
  <2>3. r \in [Keys -> Entries] /\ \A j \in Keys : reg[j].state # "unused" => r[j].state # "unused"
    BY <1>1, <2>2 DEF RegistryTypeOK
  <2>. HIDE DEF r, todo
  <2>. QED BY <2>1, <2>3, IssuedKnown
<1>7. CASE \E k \in Keys : OnUnsubscribe(k)
  BY <1>1, <1>7 DEF OnUnsubscribe, KnownStays, RegistryTypeOK, Entries
<1>. QED BY <1>2, <1>3, <1>4, <1>5, <1>6, <1>7 DEF RegistryStep

\* The deletes in flight after a step were in flight before it, or are the one a
\* registered subscription was given up with.
LEMMA DeletesStep ==
  ASSUME IInv, RegistryStep, NEW i \in RequestIds,
         pending'[i] # NoRequest, pending'[i].kind = "unsubscribe"
  PROVE  pending'[i] = pending[i] \/ reg[pending'[i].key].state # "unused"
<1>1. RegistryTypeOK /\ RequestTypeOK
  BY DEF IInv, TypeInv, TypeOK
<1>2. ASSUME NEW todo \in SUBSET Keys, NEW next \in 1 .. SubIdMax, NEW failed,
             NEW r \in [Keys -> Entries], NEW ix, NEW pend, NEW gen,
             IssueSubscriptions(todo, next, failed, r, ix, pend, gen)
      PROVE  pending'[i] = pend[i]
  <2> DEFINE sent == WithIds(todo, next) \ failed
  <2>1. Requested(todo, sent, pend, gen)
    BY <1>1, <1>2, IssuedIndex
  <2>. HIDE DEF sent
  <2>2. ASSUME NEW k \in sent, i = nextRequestId + Rank(todo, k) PROVE FALSE
    <3>1. pending'[i] = [kind |-> "subscribe", gen |-> gen, key |-> k]
      BY <2>1, <2>2 DEF Requested
    <3>. QED BY <3>1
  <2>. QED BY <2>1, <2>2 DEF Requested
<1>3. CASE UNCHANGED registryAndRequests
  BY <1>3 DEF registryAndRequests
<1>4. CASE OtherRequest
  BY <1>1, <1>4 DEF OtherRequest, Sent, RequestTypeOK
<1>5. ASSUME NEW s \in Sessions, OnConOk(s) PROVE pending'[i] = pending[i]
  <2>1. PICK failed : BindIssues(s, failed)
    BY <1>1, <1>5, ConOkParts
  <2>2. pending'[i] = BoundRequests(s)[i]
    BY <1>1, <1>2, <1>5, <2>1, ConOkParts DEF BindIssues
  <2>. QED BY <2>2 DEF BoundRequests
<1>6. CASE \E j \in Nat : OnRequestOk(j) \/ OnRequestError(j)
  BY <1>6 DEF OnRequestOk, OnRequestError, ForgetsRequest
<1>7. CASE \E sub \in Nat : OnSubOk(sub) \/ OnUnsub(sub)
  BY <1>7 DEF OnSubOk, OnUnsub, Counts, controlVars
<1>8. ASSUME NEW k \in Keys, OnSubscribe(k) PROVE pending'[i] = pending[i]
  <2> DEFINE e == [state |-> "pending", wire |-> NoId, wasActive |-> FALSE, freq |-> "none"]
             r == [reg EXCEPT ![k] = e]
             todo == IF streamState = "bound" /\ session # NoSession THEN {k} ELSE {}
  <2>1. PICK failed : IssueSubscriptions(todo, nextSubId, failed, r, bySubId, pending, generation)
    BY <1>8 DEF OnSubscribe
  <2>2. e \in Entries
    BY DEF Entries
  <2>. HIDE DEF e
  <2>3. r \in [Keys -> Entries] /\ todo \in SUBSET Keys /\ nextSubId \in 1 .. SubIdMax
    BY <1>1, <2>2 DEF RegistryTypeOK
  <2>. HIDE DEF r, todo
  <2>. QED BY <1>2, <2>1, <2>3
<1>9. ASSUME NEW k \in Keys, OnUnsubscribe(k)
      PROVE  pending'[i] = pending[i] \/ reg[pending'[i].key].state # "unused"
  <2> DEFINE p == [kind |-> "unsubscribe", key |-> k, gen |-> generation]
  <2>1. pending' = pending \/ (Registered(k) /\ Sent(p))
    BY <1>9 DEF OnUnsubscribe, Ignored, Dispatches, NoIdLeft, NotSent
  <2>. QED BY <1>1, <2>1 DEF Sent, Registered, RequestTypeOK
<1>. QED BY <1>3, <1>4, <1>5, <1>6, <1>7, <1>8, <1>9 DEF RegistryStep

LEMMA ContractInvNext ==
  ASSUME ContractInv, [Next]_vars
  PROVE  ContractInv'
<1>1. IInv' /\ RegistryStep
  BY InvariantNext, Steps DEF ContractInv, IInv
<1>2. ASSUME NEW i \in RequestIds, pending'[i] # NoRequest,
             pending'[i].kind \in {"subscribe", "unsubscribe"}
      PROVE  reg'[pending'[i].key].state # "unused"
  <2>1. CASE pending'[i].kind = "subscribe"
    BY <1>1, <1>2, <2>1 DEF IInv, RequestInv, AddsWereMade
  <2>2. CASE pending'[i].kind = "unsubscribe"
    <3>1. reg[pending'[i].key].state # "unused"
      BY <1>1, <1>2, <2>2, DeletesStep DEF ContractInv, RequestsWereMade
    <3>2. pending'[i].key \in Keys
      BY <1>1, <1>2, <2>2 DEF IInv, TypeInv, TypeOK, RequestTypeOK, PendingRequests
    <3>. QED BY <1>1, <3>1, <3>2, KnownStep DEF ContractInv, KnownStays
  <2>. QED BY <1>2, <2>1, <2>2
<1>. QED BY <1>1, <1>2 DEF ContractInv, RequestsWereMade

LEMMA ContractInvariant == Spec => []ContractInv
<1>1. Init => ContractInv
  BY InvariantInit DEF ContractInv, RequestsWereMade, Init
<1>2. ContractInv /\ [Next]_vars => ContractInv'
  BY ContractInvNext
<1>. QED BY <1>1, <1>2, PTL DEF Spec

-----------------------------------------------------------------------------
(* What a step does to a subscription's life *)

LEMMA Lives ==
  ASSUME RegistryTypeOK, NEW k \in Keys
  PROVE  /\ LifeOf(k) = IF reg[k].state \in {"pending", "active"} THEN "wanted"
                        ELSE reg[k].state
         /\ Port!Holds(k) <=> Registered(k)
         /\ Port!Known(k) <=> reg[k].state # "unused"
<1>1. reg[k] \in Entries /\ [j \in Keys |-> LifeOf(j)][k] = LifeOf(k)
  BY DEF RegistryTypeOK
<1>2. LifeOf(k) = IF reg[k].state \in {"pending", "active"} THEN "wanted" ELSE reg[k].state
  BY DEF LifeOf
<1>. QED BY <1>1, <1>2 DEF Port!Holds, Port!Known, Registered, Entries

LEMMA SaysJust ==
  /\ \A e : out' = {e} => {PortEvent(x) : x \in out}' = {PortEvent(e)}
  /\ out' = {} => {PortEvent(x) : x \in out}' = {}
  BY SaidNext

\* The lines about a subscription.
LEMMA DeliveryKept ==
  ASSUME ContractInv, phase = "pumping", NEW sub \in Nat,
         OnSubOk(sub) \/ OnUnsub(sub) \/ OnUpdate(sub)
  PROVE  Port!Next
<1> DEFINE k == KeyAt(sub)
<1>1. RegistryTypeOK /\ RegistryInv
  BY DEF ContractInv, IInv, TypeInv, TypeOK
<1>2. phase # "closed" /\ phase' # "closed"
  BY DEF OnSubOk, OnUnsub, OnUpdate, Counts, streamVars
<1>3. CASE k = NoKey
  <2>1. reg' = reg /\ out' = {}
    BY <1>3 DEF OnSubOk, OnUnsub, OnUpdate
  <2>. QED BY <1>2, <2>1, OnlySpeaks DEF SaysOnly
<1>4. CASE k # NoKey
  <2>1. k \in Keys /\ sub \in SubIds /\ bySubId[sub] = k
    BY <1>1, <1>4 DEF KeyAt, RegistryTypeOK
  <2>2. reg[k].wire = sub /\ sub # NoId
    BY <1>1, <2>1 DEF RegistryInv, IndexMatchesRegistry, SubIds, NoId
  <2>3. Registered(k) /\ Port!Holds(k)
    BY <1>1, <2>1, <2>2, Lives DEF RegistryInv, UnregisteredUnbound
  <2>4. reg[k] \in Entries
    BY <1>1, <2>1 DEF RegistryTypeOK
  <2>5. CASE OnSubOk(sub)
    <3>1. /\ reg' = [reg EXCEPT ![k].state = "active", ![k].wasActive = TRUE]
          /\ out' = {SubscriptionEvent(k, "activated")}
      BY <1>4, <2>5 DEF OnSubOk
    <3>2. {PortEvent(x) : x \in out}' = {Port!Subscription(k, "activated")}
      BY <3>1, SaysJust, PortEvents
    <3>3. reg'[k].state = "active" /\ \A j \in Keys \ {k} : reg'[j] = reg[j]
      BY <1>1, <2>1, <2>4, <3>1 DEF RegistryTypeOK, Entries
    <3>4. [j \in Keys |-> LifeOf(j)]' = [[j \in Keys |-> LifeOf(j)] EXCEPT ![k] = "wanted"]
      BY <2>1, <3>3, LifeMoves
    <3>. HIDE DEF k
    <3>. QED BY <1>2, <2>1, <2>3, <3>2, <3>4 DEF Port!Next, Port!Delivers
  <2>6. CASE OnUnsub(sub)
    <3>1. /\ reg' = [reg EXCEPT ![k].state = "gone", ![k].wire = NoId]
          /\ out' = {SubscriptionEvent(k, "unsubscribed")}
      BY <1>4, <2>6 DEF OnUnsub
    <3>2. {PortEvent(x) : x \in out}' = {Port!Subscription(k, "unsubscribed")}
      BY <3>1, SaysJust, PortEvents
    <3>3. reg'[k].state = "gone" /\ \A j \in Keys \ {k} : reg'[j] = reg[j]
      BY <1>1, <2>1, <2>4, <3>1 DEF RegistryTypeOK, Entries
    <3>4. [j \in Keys |-> LifeOf(j)]' = [[j \in Keys |-> LifeOf(j)] EXCEPT ![k] = "gone"]
      BY <2>1, <3>3, LifeMoves
    <3>. HIDE DEF k
    <3>. QED BY <1>2, <2>1, <2>3, <3>2, <3>4 DEF Port!Next, Port!Delivers
  <2>7. CASE OnUpdate(sub)
    <3>1. reg' = reg /\ out' = {SubscriptionEvent(k, "data")}
      BY <1>4, <2>7 DEF OnUpdate
    <3>2. {PortEvent(x) : x \in out}' = {Port!Subscription(k, "data")}
      BY <3>1, SaysJust, PortEvents
    <3>3. UNCHANGED [j \in Keys |-> LifeOf(j)]
      BY <3>1, LifeKept
    <3>. HIDE DEF k
    <3>. QED BY <1>2, <2>1, <2>3, <3>2, <3>3 DEF Port!Next, Port!Delivers
  <2>. QED BY <2>5, <2>6, <2>7
<1>. QED BY <1>3, <1>4

\* The answers to requests.
LEMMA AnswerKept ==
  ASSUME ContractInv, phase = "pumping", NEW i \in Nat, OnRequestOk(i) \/ OnRequestError(i)
  PROVE  Port!Next
<1> DEFINE p == Answered(i)
           k == KeyOf(p)
<1>1. RegistryTypeOK /\ RequestTypeOK
  BY DEF ContractInv, IInv, TypeInv, TypeOK
<1>2. phase # "closed" /\ phase' # "closed"
  BY DEF OnRequestOk, OnRequestError, streamVars
<1>3. CASE OnRequestOk(i)
  <2>1. out' = {Response(p.kind, k, "accepted")}
    BY <1>3 DEF OnRequestOk
  <2>2. SaysOnly({Port!News, Port!Quiet})
    BY <2>1, PortEvents DEF SaysOnly
  <2>3. \A j \in Keys : reg'[j].state = reg[j].state
    BY <1>1, <1>3 DEF OnRequestOk, RegistryTypeOK, Entries
  <2>. QED BY <1>2, <2>2, <2>3, OnlySpeaks
<1>4. CASE OnRequestError(i) /\ p.kind \notin {"subscribe", "unsubscribe"}
  <2>1. /\ reg' = reg
        /\ \A e \in out' : e = Response(p.kind, k, "rejected") \/ e = MessageEvent(p.msg, "refused")
    BY <1>4 DEF OnRequestError
  <2>2. SaysOnly({Port!News, Port!Quiet})
    BY <1>4, <2>1, PortEvents DEF SaysOnly
  <2>. QED BY <1>2, <2>1, <2>2, OnlySpeaks
<1>5. CASE OnRequestError(i) /\ p.kind \in {"subscribe", "unsubscribe"}
  <2>1. i \in RequestIds /\ pending[i] = p /\ p # NoRequest /\ k = p.key
    BY <1>5 DEF Answered, NoRequest, KeyOf
  <2>2. k \in Keys
    BY <1>1, <1>5, AnsweredKey
  <2>3. reg[k].state # "unused" /\ reg[k] \in Entries
    BY <1>1, <1>5, <2>1, <2>2 DEF ContractInv, RequestsWereMade, RegistryTypeOK
  <2>4. out' = {Response(p.kind, k, "rejected")}
    BY <1>5 DEF OnRequestError
  <2>5. {PortEvent(x) : x \in out}' = {Port!Answer(p.kind, k, "rejected")}
    BY <1>5, <2>4, SaysJust, PortEvents
  <2>6. Port!Known(k) /\ (Port!Holds(k) <=> Registered(k))
    BY <1>1, <2>2, <2>3, Lives
  <2>7. CASE p.kind = "subscribe"
    <3>1. reg' = [reg EXCEPT ![k] = IF Registered(k)
                                    THEN [@ EXCEPT !.state = "gone", !.wire = NoId] ELSE @]
      BY <1>5, <2>7 DEF OnRequestError, RefusesSubscribe
    <3>2. reg'[k].state = "gone" /\ \A j \in Keys \ {k} : reg'[j] = reg[j]
      BY <1>1, <2>2, <2>3, <3>1 DEF RegistryTypeOK, Registered, Entries
    <3>3. [j \in Keys |-> LifeOf(j)]' = [[j \in Keys |-> LifeOf(j)] EXCEPT ![k] = "gone"]
      BY <2>2, <3>2, LifeMoves
    <3>. HIDE DEF k, p
    <3>. QED BY <1>2, <2>2, <2>5, <2>6, <2>7, <3>3 DEF Port!Next, Port!Refuses
  <2>8. CASE p.kind = "unsubscribe"
    <3>1. reg' = [reg EXCEPT ![k] =
                    IF Registered(k)
                    THEN [@ EXCEPT !.state = IF reg[k].wasActive THEN "active" ELSE "pending"]
                    ELSE @]
      BY <1>5, <2>8 DEF OnRequestError, RefusesUnsubscribe
    <3>2. \A j \in Keys \ {k} : reg'[j] = reg[j]
      BY <1>1, <2>2, <3>1 DEF RegistryTypeOK
    <3>3. IF Registered(k) THEN reg'[k].state \in {"pending", "active"}
                           ELSE reg'[k].state = "gone"
      BY <1>1, <2>2, <2>3, <3>1 DEF RegistryTypeOK, Registered, Entries
    <3>4. [j \in Keys |-> LifeOf(j)]'
            = [[j \in Keys |-> LifeOf(j)] EXCEPT ![k] = IF Port!Holds(k) THEN "wanted" ELSE "gone"]
      BY <2>2, <2>6, <3>2, <3>3, LifeMoves
    <3>. HIDE DEF k, p
    <3>. QED BY <1>2, <2>2, <2>5, <2>6, <2>8, <3>4 DEF Port!Next, Port!Refuses
  <2>. QED BY <1>5, <2>7, <2>8
<1>. QED BY <1>3, <1>4, <1>5

LEMMA BoundLives ==
  ASSUME RegistryTypeOK, NEW s \in Sessions, OnConOk(s)
  PROVE  [j \in Keys |-> LifeOf(j)]' \in
           {[j \in Keys |-> LifeOf(j)],
            [j \in Keys |-> IF [i \in Keys |-> LifeOf(i)][j] = "removing" THEN "gone"
                            ELSE [i \in Keys |-> LifeOf(i)][j]]}
<1>1. PICK failed : BindIssues(s, failed)
  BY ConOkParts
<1>2. /\ reg' = Bindings(Todo(s), BoundNext(s), SentAtBind(s, failed), BoundRegistry(s))
      /\ BoundRegistry(s) \in [Keys -> Entries]
  BY <1>1, ConOkParts DEF BindIssues, IssueSubscriptions, SentAtBind
<1>3. ASSUME NEW k \in Keys
      PROVE  LifeOf(k)' = IF BoundRegistry(s)[k].state \in {"pending", "active"} THEN "wanted"
                          ELSE BoundRegistry(s)[k].state
  <2>1. CASE k \in SentAtBind(s, failed)
    <3>1. BoundRegistry(s)[k].state \in {"pending", "active"}
      BY <2>1 DEF SentAtBind, WithIds, WithSubId, Todo, Unissued
    <3>2. reg'[k].state = "pending"
      BY <1>2, <2>1, IssuedKeys
    <3>. QED BY <3>1, <3>2 DEF LifeOf
  <2>2. CASE k \notin SentAtBind(s, failed)
    <3>1. reg'[k] = BoundRegistry(s)[k] /\ BoundRegistry(s)[k] \in Entries
      BY <1>2, <2>2, IssuedKeys
    <3>. QED BY <3>1 DEF LifeOf
  <2>. QED BY <2>1, <2>2
<1>4. CASE ~Fresh(s)
  <2>1. \A k \in Keys : LifeOf(k)' = LifeOf(k)
    BY <1>3, <1>4, Lives DEF BoundRegistry
  <2>. QED BY <2>1
<1>5. CASE Fresh(s)
  <2>1. ASSUME NEW k \in Keys
        PROVE  LifeOf(k)' = IF LifeOf(k) = "removing" THEN "gone" ELSE LifeOf(k)
    <3>1. reg[k] \in Entries /\ BoundRegistry(s)[k] = ResetRegistry[k]
      BY <1>5 DEF RegistryTypeOK, BoundRegistry
    <3>2. LifeOf(k) = IF reg[k].state \in {"pending", "active"} THEN "wanted" ELSE reg[k].state
      BY Lives
    <3>3. ResetRegistry[k].state = CASE reg[k].state = "removing" -> "gone"
                                     [] reg[k].state \in {"pending", "active"} -> "pending"
                                     [] OTHER -> reg[k].state
      BY <3>1 DEF ResetRegistry, Entries
    <3>. QED BY <1>3, <3>1, <3>2, <3>3 DEF Entries
  <2>. QED BY <2>1
<1>. QED BY <1>4, <1>5

LEMMA BoundSays ==
  ASSUME ContractInv, NEW s \in Sessions, OnConOk(s)
  PROVE  \E unsent \in SUBSET Port!UnsentAnswers, news \in SUBSET {Port!News} :
           {PortEvent(x) : x \in out}' = {Port!Bound} \cup news \cup unsent
<1> DEFINE answers == Port!UnsentAnswers
           heard == {PortEvent(x) : x \in out}'
<1>1. RegistryTypeOK /\ RequestTypeOK
  BY DEF ContractInv, IInv, TypeInv, TypeOK
<1>2. PICK failed \in SUBSET WithIds(Todo(s), BoundNext(s)) : BindIssues(s, failed)
  BY <1>1, ConOkParts
<1>3. out' = {BindEvent(s)} \cup Retired(BoundGeneration(s))
               \cup NotIssued(Todo(s), BoundNext(s), failed)
               \cup Resubscribed(Todo(s), BoundNext(s), failed)
  BY <1>2 DEF BindIssues
<1>4. ASSUME NEW k \in Keys, reg[k].state # "unused", NEW kind \in {"subscribe", "unsubscribe"}
      PROVE  PortEvent(Response(kind, k, "notSent")) \in answers
  <2>1. PortEvent(Response(kind, k, "notSent")) = Port!Unsent(kind, k)
    BY PortEvents DEF Port!Unsent
  <2>2. Port!Known(k)
    BY <1>1, <1>4, Lives
  <2>. QED BY <2>1, <2>2 DEF Port!UnsentAnswers
<1>5. ASSUME NEW e \in Retired(BoundGeneration(s))
      PROVE  PortEvent(e) \in answers \cup {Port!News}
  <2>1. PICK i \in RequestIds : pending[i] # NoRequest /\ e \in Retirement(i)
    BY <1>5 DEF Retired, Stale
  <2>2. pending[i] \in PendingRequests
    BY <1>1, <2>1 DEF RequestTypeOK
  <2>3. CASE e = MessageEvent(pending[i].msg, "notSent")
    BY <2>3, PortEvents
  <2>4. CASE e = Response(pending[i].kind, KeyOf(pending[i]), "notSent")
    <3>1. CASE pending[i].kind \in {"subscribe", "unsubscribe"}
      <4>1. /\ KeyOf(pending[i]) = pending[i].key /\ pending[i].key \in Keys
            /\ reg[pending[i].key].state # "unused"
        BY <2>1, <2>2, <3>1 DEF ContractInv, RequestsWereMade, KeyOf, PendingRequests
      <4>. QED BY <1>4, <2>4, <3>1, <4>1
    <3>2. CASE pending[i].kind \notin {"subscribe", "unsubscribe"}
      BY <2>4, <3>2, PortEvents
    <3>. QED BY <3>1, <3>2
  <2>. QED BY <2>1, <2>3, <2>4 DEF Retirement
<1>6. ASSUME NEW e \in NotIssued(Todo(s), BoundNext(s), failed)
      PROVE  PortEvent(e) \in answers
  <2>1. PICK k \in Todo(s) : e = Response("subscribe", k, "notSent")
    BY <1>2, <1>6 DEF NotIssued, WithIds, WithSubId
  <2>2. k \in Keys /\ BoundRegistry(s)[k].state # "unused"
    BY <2>1 DEF Todo, Unissued
  <2>3. reg[k].state # "unused"
    BY <1>1, <2>2, BoundKnown
  <2>. QED BY <1>4, <2>1, <2>2, <2>3
<1>7. \A e \in Resubscribed(Todo(s), BoundNext(s), failed) : PortEvent(e) = Port!News
  BY PortEvents DEF Resubscribed
<1>8. PortEvent(BindEvent(s)) = Port!Bound
  BY PortEvents DEF BindEvent
<1>9. Port!Bound \in heard /\ heard \subseteq {Port!Bound, Port!News} \cup answers
  BY <1>3, <1>5, <1>6, <1>7, <1>8, SaidNext
<1>. HIDE DEF heard
<1>10. heard = {Port!Bound} \cup (heard \cap {Port!News}) \cup (heard \cap answers)
  BY <1>9
<1>11. heard \cap answers \in SUBSET answers /\ heard \cap {Port!News} \in SUBSET {Port!News}
  OBVIOUS
<1>12. \E unsent \in SUBSET answers, news \in SUBSET {Port!News} :
         heard = {Port!Bound} \cup news \cup unsent
  BY <1>10, <1>11
<1>. QED BY <1>12 DEF heard

LEMMA BindKept ==
  ASSUME ContractInv, phase = "pumping", NEW s \in Sessions, OnConOk(s)
  PROVE  Port!Next
<1>1. RegistryTypeOK /\ phase' = phase
  BY DEF ContractInv, IInv, TypeInv, TypeOK, OnConOk
<1>2. Port!Binds
  <2>1. (phase = "closed") = FALSE /\ UNCHANGED (phase = "closed")
    BY <1>1
  <2>2. [k \in Keys |-> LifeOf(k)]' \in
          {[k \in Keys |-> LifeOf(k)],
           [k \in Keys |-> IF [j \in Keys |-> LifeOf(j)][k] = "removing" THEN "gone"
                           ELSE [j \in Keys |-> LifeOf(j)][k]]}
    BY <1>1, BoundLives
  <2>3. \E unsent \in SUBSET Port!UnsentAnswers, news \in SUBSET {Port!News} :
          {PortEvent(x) : x \in out}' = {Port!Bound} \cup news \cup unsent
    BY BoundSays
  <2>. QED BY ONLY <2>1, <2>2, <2>3 DEF Port!Binds
<1>. QED BY <1>2 DEF Port!Next

LEMMA LineKept ==
  ASSUME ContractInv, NEW n \in Notifications, OnLine(n)
  PROVE  Port!Next
<1>1. n \in AllNotifications /\ phase = "pumping" /\ phase # "closed"
  BY InputsAssumption DEF OnLine
<1>2. CASE n.t = "CONOK" /\ OnConOk(n.session)
  BY <1>1, <1>2, BindKept DEF AllNotifications
<1>3. CASE OnConErr(n.code) \/ OnEnd(n.code)
  BY <1>1, <1>3, ClosingKept, PlanningKept DEF OnConErr, OnEnd
<1>4. CASE OnLoop(n.delayed)
  BY <1>1, <1>4, PlanningKept DEF OnLoop
<1>5. CASE n.t \in {"REQOK", "REQERR"} /\ (OnRequestOk(n.id) \/ OnRequestError(n.id))
  BY <1>1, <1>5, AnswerKept DEF AllNotifications
<1>6. CASE n.t \in {"SUBOK", "UNSUB", "UPDATE"}
             /\ (OnSubOk(n.sub) \/ OnUnsub(n.sub) \/ OnUpdate(n.sub))
  BY <1>1, <1>6, DeliveryKept DEF AllNotifications
<1>7. CASE \/ OnProg(n.at) \/ SkipsDuplicate \/ OnUnparsed
           \/ OnMessageOutcome(n.msg, "done") \/ OnMessageOutcome(n.msg, "failed")
  <2>1. phase' # "closed" /\ reg' = reg
    BY <1>1, <1>7 DEF OnProg, SkipsDuplicate, OnUnparsed, OnMessageOutcome, Counts, streamVars,
                      registryVars
  <2>2. SaysOnly({Port!News, Port!Quiet})
    BY <1>7, PortEvents DEF OnProg, SkipsDuplicate, OnUnparsed, OnMessageOutcome, SaysOnly
  <2>. QED BY <1>1, <2>1, <2>2, OnlySpeaks
<1>. QED BY <1>2, <1>3, <1>4, <1>5, <1>6, <1>7 DEF OnLine

\* The commands.
LEMMA SubscribeKept ==
  ASSUME ContractInv, phase # "closed", NEW k \in Keys, OnSubscribe(k)
  PROVE  Port!Next
<1> DEFINE e == [state |-> "pending", wire |-> NoId, wasActive |-> FALSE, freq |-> "none"]
           r == [reg EXCEPT ![k] = e]
           todo == IF streamState = "bound" /\ session # NoSession THEN {k} ELSE {}
           life == [j \in Keys |-> LifeOf(j)]
<1>1. RegistryTypeOK /\ phase' # "closed" /\ reg[k].state = "unused"
  BY DEF ContractInv, IInv, TypeInv, TypeOK, OnSubscribe, streamVars
<1>2. PICK failed \in SUBSET WithIds(todo, nextSubId) :
        /\ reg' = Bindings(todo, nextSubId, WithIds(todo, nextSubId) \ failed, r)
        /\ out' = NotIssued(todo, nextSubId, failed)
  BY DEF OnSubscribe, IssueSubscriptions
<1>3. e \in Entries /\ e.state = "pending" /\ todo \subseteq {k}
  BY DEF Entries
<1>. HIDE DEF e, todo
<1>4. /\ r \in [Keys -> Entries] /\ r[k].state = "pending"
      /\ \A j \in Keys \ {k} : r[j] = reg[j]
  BY <1>1, <1>3 DEF RegistryTypeOK
<1>. HIDE DEF r
<1>5. WithSubId(todo, nextSubId) \subseteq {k} /\ WithIds(todo, nextSubId) \subseteq {k}
  BY <1>3 DEF WithIds, WithSubId
<1>6. reg'[k].state = "pending" /\ \A j \in Keys \ {k} : reg'[j] = reg[j]
  <2> DEFINE sent == WithIds(todo, nextSubId) \ failed
  <2>1. sent \subseteq {k} /\ reg' = Bindings(todo, nextSubId, sent, r)
    BY <1>2, <1>5
  <2>. HIDE DEF sent
  <2>2. ASSUME NEW j \in Keys
        PROVE  /\ j \in sent => reg'[j].state = "pending"
               /\ j \notin sent => reg'[j] = r[j]
    <3>1. r \in [Keys -> Entries] /\ reg' = Bindings(todo, nextSubId, sent, r)
      BY <1>4, <2>1
    <3>2. r[j] \in Entries /\ reg'[j] = IF j \in sent
              THEN [r[j] EXCEPT !.state = "pending", !.wire = nextSubId + Rank(todo, j)]
              ELSE r[j]
      BY <3>1 DEF Bindings
    <3>. QED BY <3>2 DEF Entries
  <2>. QED BY <1>4, <2>1, <2>2
<1>7. life' = [life EXCEPT ![k] = "wanted"]
  BY <1>6, LifeMoves
<1>8. {PortEvent(x) : x \in out}' \in {{}, {Port!Unsent("subscribe", k)}}
  <2>1. PortEvent(Response("subscribe", k, "notSent")) = Port!Unsent("subscribe", k)
    BY PortEvents DEF Port!Unsent
  <2>2. out' \in {{}, {Response("subscribe", k, "notSent")}}
    BY <1>2, <1>5 DEF NotIssued
  <2>. QED BY <2>1, <2>2, SaysJust
<1>9. life[k] = "unused"
  BY <1>1, Lives
<1>. QED BY <1>1, <1>7, <1>8, <1>9 DEF Port!Next, Port!Subscribe

LEMMA UnsubscribeKept ==
  ASSUME ContractInv, phase # "closed", NEW k \in Keys, OnUnsubscribe(k)
  PROVE  Port!Next
<1> DEFINE life == [j \in Keys |-> LifeOf(j)]
           said == {PortEvent(x) : x \in out}
<1>1. RegistryTypeOK /\ phase' # "closed" /\ reg[k] \in Entries
  BY DEF ContractInv, IInv, TypeInv, TypeOK, RegistryTypeOK, OnUnsubscribe, streamVars
<1>2. CASE ~Registered(k)
  <2>1. reg' = reg /\ out' = {}
    BY <1>2 DEF OnUnsubscribe, Ignored
  <2>. QED BY <1>1, <2>1, OnlySpeaks DEF SaysOnly
<1>3. CASE Registered(k) /\ reg[k].wire = NoId
  <2>1. reg' = [reg EXCEPT ![k].state = "gone"] /\ out' = {}
    BY <1>3 DEF OnUnsubscribe, Ignored
  <2>2. reg'[k].state = "gone" /\ \A j \in Keys \ {k} : reg'[j] = reg[j]
    BY <1>1, <2>1 DEF RegistryTypeOK, Entries
  <2>3. life' = [life EXCEPT ![k] = "gone"] /\ said' = {} /\ Port!Holds(k)
    BY <1>1, <1>3, <2>1, <2>2, LifeMoves, SaysJust, Lives
  <2>. QED BY <1>1, <2>3 DEF Port!Next, Port!Unsubscribe
<1>4. CASE Registered(k) /\ reg[k].wire # NoId
  <2>1. /\ reg' = [reg EXCEPT ![k].state = "removing"]
        /\ out' \in {{}, {Response("unsubscribe", k, "notSent")}}
    BY <1>4 DEF OnUnsubscribe, Ignored, Dispatches, NoIdLeft, Sent, NotSent, KeyOf
  <2>2. reg'[k].state = "removing" /\ \A j \in Keys \ {k} : reg'[j] = reg[j]
    BY <1>1, <2>1 DEF RegistryTypeOK, Entries
  <2>3. PortEvent(Response("unsubscribe", k, "notSent")) = Port!Unsent("unsubscribe", k)
    BY PortEvents DEF Port!Unsent
  <2>4. said' \in {{}, {Port!Unsent("unsubscribe", k)}}
    BY <2>1, <2>3, SaysJust
  <2>5. life' = [life EXCEPT ![k] = "removing"] /\ Port!Holds(k)
    BY <1>1, <1>4, <2>2, LifeMoves, Lives
  <2>. QED BY <1>1, <2>4, <2>5 DEF Port!Next, Port!Unsubscribe
<1>. QED BY <1>2, <1>3, <1>4

LEMMA CommandKept ==
  ASSUME ContractInv, NEW c \in Commands, OnCommand(c)
  PROVE  Port!Next
<1>1. c \in AllCommands /\ phase # "closed"
  BY InputsAssumption DEF OnCommand, Serving
<1>2. CASE c.t = "Subscribe" /\ OnSubscribe(c.key)
  BY <1>1, <1>2, SubscribeKept DEF AllCommands
<1>3. CASE c.t = "Unsubscribe" /\ OnUnsubscribe(c.key)
  BY <1>1, <1>3, UnsubscribeKept DEF AllCommands
<1>4. CASE OnReconfigure(c.key, c.freq) \/ OnSendMessage(c.msg) \/ OnForceRebind
  <2>1. phase' # "closed" /\ reg' = reg
    BY <1>1, <1>4 DEF OnReconfigure, OnSendMessage, OnForceRebind, streamVars, registryVars
  <2>2. \A e \in out' :
          \/ e = MessageEvent(c.msg, "notSent")
          \/ \E kind \in {"reconfigure", "message", "forceRebind"} : \E k :
               e = Response(kind, k, "notSent")
    BY <1>4 DEF OnReconfigure, OnSendMessage, OnForceRebind, Ignored, Dispatches, NoIdLeft,
                Sent, NotSent
  <2>3. SaysOnly({Port!News, Port!Quiet})
    BY <2>2, PortEvents DEF SaysOnly
  <2>. QED BY <1>1, <2>1, <2>3, OnlySpeaks
<1>5. CASE OnDestroy
  <2>1. CASE Sent([kind |-> "destroy", gen |-> generation])
               /\ UNCHANGED <<streamVars, registryVars>>
    <3>1. phase' # "closed" /\ reg' = reg /\ out' = {}
      BY <1>1, <2>1 DEF Sent, streamVars, registryVars
    <3>. QED BY <1>1, <3>1, OnlySpeaks DEF SaysOnly
  <2>2. CASE \E how : Closes(how) \/ ClosesAfter({Response("destroy", NoKey, "notSent")}, how)
    BY <1>1, <2>2, ClosingKept
  <2>. QED BY <1>5, <2>1, <2>2 DEF OnDestroy
<1>6. CASE Closes("byClient")
  BY <1>1, <1>6, ClosingKept
<1>. QED BY <1>2, <1>3, <1>4, <1>5, <1>6 DEF OnCommand

LEMMA ContractStep ==
  ASSUME ContractInv, [Next]_vars
  PROVE  [Port!Next]_<<[k \in Keys |-> LifeOf(k)], phase = "closed", {PortEvent(e) : e \in out}>>
<1>1. CASE UNCHANGED vars
  <2>1. UNCHANGED <<reg, phase, out>>
    BY <1>1 DEF vars, registryVars, streamVars
  <2>2. UNCHANGED [k \in Keys |-> LifeOf(k)]
    BY <2>1, LifeKept
  <2>3. {PortEvent(e) : e \in out}' = {PortEvent(e) : e \in out}
    BY <2>1, SaidNext
  <2>. QED BY <2>1, <2>2, <2>3
<1>2. CASE Next
  BY <1>2, ConnectionKept, LineKept, CommandKept DEF Next
<1>. QED BY <1>1, <1>2

\* Whatever the server sends, the client layer hears of the driver only what SessionPort
\* says: of a subscription nothing before it was asked for or after it is gone, no loss of
\* a wanted one when a session is replaced, and nothing after the closing event.
THEOREM DriverKeepsContract == Spec => KeepsContract
<1>1. Init => Port!Init
  BY DEF Init, Port!Init, LifeOf
<1>2. ContractInv /\ [Next]_vars =>
        [Port!Next]_<<[k \in Keys |-> LifeOf(k)], phase = "closed", {PortEvent(e) : e \in out}>>
  BY ContractStep
<1>. QED BY <1>1, <1>2, ContractInvariant, PTL DEF Spec, KeepsContract, Port!Spec
================================================================================

----------------------------- MODULE TimingProofs -----------------------------
(***************************************************************************)
(* The clocks of the driver, for every configuration a client may be built *)
(* with, every promise of the server and every delay of either.            *)
(***************************************************************************)
EXTENDS ClientTiming, TLAPS

-----------------------------------------------------------------------------
(* The heartbeat has come due at half the commitment at the latest.        *)
HeartbeatIsSet == driver.live.every = HeartbeatEvery(settings)

QuietBelow(every) ==
    /\ past.missed = 0 => past.quiet <= every /\ past.quiet <= driver.live.outbound
    /\ past.missed = 1 => past.quiet <= every + every
                          /\ past.quiet <= every + driver.live.outbound

HeartbeatInTime ==
    driver.mode = "Pumping" =>
        \A k \in DOMAIN driver.live.every : QuietBelow(driver.live.every[k])

(* The deadline for the silence is the promise.                            *)
SlackIsSet == driver.live.slack = settings.slack

DeadlineIsPromise ==
    /\ driver.bound => driver.negotiated # << >>
    /\ driver.mode = "Pumping" =>
          driver.live.budget # << >> /\ driver.live.budget[1] = Promised(driver)

SilenceIsMeasured ==
    /\ unread # << >> => past.idle = 0
    /\ driver.mode = "Pumping" =>
          /\ unread = << >> => driver.live.inbound <= past.heard
          /\ past.idle <= driver.live.inbound /\ past.idle <= Promised(driver)

IInv ==
    /\ TypeOK /\ TimingsAreChecked(settings)
    /\ HeartbeatIsSet /\ HeartbeatInTime
    /\ SlackIsSet /\ DeadlineIsPromise /\ SilenceIsMeasured

-----------------------------------------------------------------------------
(* Options, and what the settings give. *)

LEMMA OptionElement ==
  ASSUME NEW S, NEW option \in Optional(S)
  PROVE  /\ option = << >> => DOMAIN option = {}
         /\ option # << >> => DOMAIN option = {1} /\ option[1] \in S
<1>1. option \in Seq(S) /\ Len(option) \in Nat /\ Len(option) <= 1
  BY DEF Optional
<1>2. DOMAIN option = 1 .. Len(option)
  BY <1>1
<1>3. Len(option) = 0 => option = << >>
  BY <1>1
<1>4. Len(option) = 1 => DOMAIN option = {1} /\ option[1] \in S
  BY <1>1, <1>2
<1>. QED BY <1>1, <1>3, <1>4

LEMMA OptionMade ==
  ASSUME NEW S
  PROVE  << >> \in Optional(S) /\ \A value \in S : <<value>> \in Optional(S) /\ <<value>> # << >>
  BY DEF Optional

LEMMA OptionMap ==
  ASSUME NEW option \in Optional(Nat), NEW f \in [DOMAIN option -> Nat]
  PROVE  f \in Optional(Nat)
<1>1. option \in Seq(Nat) /\ Len(option) \in Nat /\ Len(option) <= 1
  BY DEF Optional
<1>2. f \in [1 .. Len(option) -> Nat]
  BY <1>1
<1>3. f \in Seq(Nat) /\ Len(f) = Len(option)
  BY <1>1, <1>2
<1>. QED BY <1>1, <1>3 DEF Optional

LEMMA WholeMillis ==
  ASSUME NEW duration \in Nat
  PROVE  /\ FromMillis(AsMillis(duration)) \in Nat
         /\ FromMillis(AsMillis(duration)) <= duration
<1>1. AsMillis(duration) \in Nat
  BY TimingAssumption DEF AsMillis
<1>2. TicksPerMilli * AsMillis(duration) <= duration
  BY TimingAssumption DEF AsMillis
<1>. QED BY <1>1, <1>2, TimingAssumption DEF FromMillis

LEMMA HeartbeatSetting ==
  ASSUME settings \in ClientConfigs
  PROVE  /\ HeartbeatEvery(settings) \in Optional(Nat)
         /\ ~Connection(settings).polling =>
               \A k \in DOMAIN settings.commitment :
                  /\ k \in DOMAIN HeartbeatEvery(settings)
                  /\ HeartbeatEvery(settings)[k] \in Nat
                  /\ HeartbeatEvery(settings)[k] + HeartbeatEvery(settings)[k]
                        <= settings.commitment[k]
<1>1. CASE settings.transport = "HttpPolling"
  BY <1>1, OptionMade DEF HeartbeatEvery, Connection
<1>2. CASE settings.transport # "HttpPolling"
  <2> DEFINE whole(k) == FromMillis(AsMillis(settings.commitment[k]))
             every == [k \in DOMAIN settings.commitment |-> whole(k) \div 2]
  <2>1. settings.commitment \in Optional(Nat)
    BY DEF ClientConfigs
  <2>2. ASSUME NEW k \in DOMAIN settings.commitment PROVE settings.commitment[k] \in Nat
    BY <2>1, OptionElement
  <2>3. ASSUME NEW k \in DOMAIN settings.commitment
        PROVE  /\ whole(k) \in Nat /\ whole(k) <= settings.commitment[k]
               /\ settings.commitment[k] \in Nat
    BY <2>2, WholeMillis
  <2>4. ASSUME NEW k \in DOMAIN settings.commitment
        PROVE  /\ whole(k) \div 2 \in Nat
               /\ whole(k) \div 2 + whole(k) \div 2 <= settings.commitment[k]
    <3> DEFINE w == whole(k)
               c == settings.commitment[k]
    <3>1. w \in Nat /\ c \in Nat /\ w <= c
      BY <2>3
    <3> HIDE DEF w, c
    <3>2. w \div 2 \in Nat /\ w \div 2 + w \div 2 <= w
      BY <3>1
    <3>3. w \div 2 + w \div 2 <= c
      BY <3>1, <3>2
    <3>. QED BY <3>2, <3>3 DEF w, c
  <2>5. HeartbeatEvery(settings) = every /\ ~Connection(settings).polling
    BY <1>2 DEF HeartbeatEvery, Connection, Millis
  <2>6. every \in [DOMAIN settings.commitment -> Nat]
    BY <2>4
  <2>7. every \in Optional(Nat)
    BY <2>1, <2>6, OptionMap
  <2>. QED BY <2>4, <2>5, <2>6, <2>7
<1>. QED BY <1>1, <1>2

LEMMA BudgetType ==
  ASSUME settings \in ClientConfigs, NEW negotiated \in Optional(Nat)
  PROVE  EstablishmentBudget(settings, negotiated) \in Nat
<1>1. settings.openTimeout \in Nat /\ settings.hint \in Optional(Nat)
  BY DEF ClientConfigs
<1>2. CASE settings.transport = "HttpPolling"
  <2> DEFINE idle == Connection(settings).idle[1]
             requested == FromMillis(idle)
  <2>1. idle \in Nat
    <3>1. CASE settings.hint = << >>
      <4>1. Connection(settings).idle = <<DefaultIdleMillis>>
        BY <1>2, <3>1 DEF Connection
      <4>. QED BY <4>1, TimingAssumption
    <3>2. CASE settings.hint # << >>
      <4>1. DOMAIN settings.hint = {1} /\ settings.hint[1] \in Nat
        BY <1>1, <3>2, OptionElement
      <4>2. Connection(settings).idle = Millis(settings.hint)
        BY <1>2, <3>2 DEF Connection
      <4>3. idle = AsMillis(settings.hint[1])
        BY <4>1, <4>2 DEF Millis
      <4>. QED BY <4>1, <4>3, TimingAssumption DEF AsMillis
    <3>. QED BY <3>1, <3>2
  <2>2. requested \in Nat
    BY <2>1, TimingAssumption DEF FromMillis
  <2>3. negotiated # << >> => negotiated[1] \in Nat
    BY OptionElement
  <2>4. Connection(settings).polling
    BY <1>2 DEF Connection
  <2>. QED BY <1>1, <2>2, <2>3, <2>4 DEF EstablishmentBudget
<1>3. CASE settings.transport # "HttpPolling"
  BY <1>1, <1>3 DEF EstablishmentBudget, Connection
<1>. QED BY <1>2, <1>3

-----------------------------------------------------------------------------
(* The end of a stream: whatever brought it about, the next one starts     *)
(* with nothing owed to it.                                                *)

LEMMA NewBackoffType ==
  ASSUME settings \in ClientConfigs, TimingsAreChecked(settings)
  PROVE  NewBackoff(Policy) \in BackoffStates
  BY DEF ClientConfigs, TimingsAreChecked, NewBackoff, Policy, BackoffStates

LEMMA NextDelayType ==
  ASSUME settings \in ClientConfigs, NEW backoff \in BackoffStates
  PROVE  /\ NextDelay(Policy, backoff).backoff \in BackoffStates
         /\ NextDelay(Policy, backoff).delays \subseteq Nat
<1>1. backoff.attempts \in Nat /\ backoff.base \in Nat /\ backoff.base <= settings.retryMax
      /\ settings.retryMax \in Nat
  BY DEF BackoffStates, ClientConfigs
<1>2. Below(backoff.base) \subseteq Nat
  BY <1>1 DEF Below
<1>3. CASE IsExhausted(Policy, backoff.attempts + 1)
  BY <1>1, <1>3 DEF NextDelay, BackoffStates
<1>4. CASE ~IsExhausted(Policy, backoff.attempts + 1)
  <2> DEFINE base == IF 2 * backoff.base < Policy.max THEN 2 * backoff.base ELSE Policy.max
  <2>1. Policy.max = settings.retryMax
    BY DEF Policy
  <2>2. base \in 0 .. settings.retryMax
    BY <1>1, <2>1
  <2>3. NextDelay(Policy, backoff) =
          [backoff |-> [attempts |-> backoff.attempts + 1, base |-> base],
           delays |-> Below(backoff.base)]
    BY <1>4 DEF NextDelay
  <2> HIDE DEF base
  <2>. QED BY <1>1, <1>2, <2>2, <2>3 DEF BackoffStates
<1>. QED BY <1>3, <1>4

Reasons == {"Looped", "PollCycleExpired", "ConnectionFailed", "KeepaliveExpired", "NoAnswer"}

LEMMA UnboundType ==
  ASSUME settings \in ClientConfigs, TimingsAreChecked(settings),
         NEW d \in DriverStates, NEW reason \in Reasons, NEW loopDelay \in Nat,
         NEW e \in Unbound(d, reason, loopDelay)
  PROVE  /\ e \in DriverStates
         /\ e.mode # "Pumping" /\ ~e.bound /\ e.live.budget = << >> /\ e.unbound = reason
         /\ e.live.every = d.live.every /\ e.live.slack = d.live.slack
<1> DEFINE ended == [d EXCEPT !.live = OnStreamClosed(@), !.bound = FALSE, !.turn = 0,
                              !.unbound = reason, !.held = "no", !.spent = 0]
           next  == NextDelay(Policy, d.backoff)
<1>1. ended \in DriverStates /\ ~ended.bound /\ ended.live.budget = << >>
      /\ ended.unbound = reason
      /\ ended.live.every = d.live.every /\ ended.live.slack = d.live.slack
  <2>1. OnStreamClosed(d.live) \in LiveStates /\ OnStreamClosed(d.live).budget = << >>
        /\ OnStreamClosed(d.live).every = d.live.every
        /\ OnStreamClosed(d.live).slack = d.live.slack
    BY OptionMade DEF DriverStates, LiveStates, OnStreamClosed
  <2>2. 0 \in 0 .. MaxLinesPerTurn
    BY DurationsAssumption
  <2>. QED BY <2>1, <2>2 DEF DriverStates, Reasons
<1>2. next.backoff \in BackoffStates /\ next.delays \subseteq Nat
  BY NextDelayType DEF DriverStates
<1>3. NewBackoff(Policy) \in BackoffStates
  BY NewBackoffType
<1> HIDE DEF ended, next
<1> DEFINE Good(x) == /\ x \in DriverStates
                      /\ x.mode # "Pumping" /\ ~x.bound /\ x.live.budget = << >>
                      /\ x.unbound = reason
                      /\ x.live.every = d.live.every /\ x.live.slack = d.live.slack
<1>4. ASSUME NEW backoff \in BackoffStates, NEW delay \in Nat
      PROVE  Good(Reopening([ended EXCEPT !.backoff = backoff], delay))
  <2> DEFINE with == [ended EXCEPT !.backoff = backoff]
  <2>1. with \in DriverStates /\ ~with.bound /\ with.live.budget = << >> /\ with.unbound = reason
        /\ with.live.every = d.live.every /\ with.live.slack = d.live.slack
    BY <1>1 DEF DriverStates
  <2> HIDE DEF with
  <2>2. Budget(with) \in Nat
    BY <2>1, BudgetType DEF Budget, DriverStates
  <2>3. CASE delay = 0
    <3>1. Reopening(with, delay) = [with EXCEPT !.mode = "Dialling", !.left = Budget(with)]
      BY <2>3 DEF Reopening, Dialling
    <3>2. Good([with EXCEPT !.mode = "Dialling", !.left = Budget(with)])
      BY <2>1, <2>2 DEF DriverStates
    <3>3. Good(Reopening(with, delay))
      BY <3>1, <3>2
    <3>. QED BY <3>3 DEF with
  <2>4. CASE delay # 0
    <3>1. Reopening(with, delay) = [with EXCEPT !.mode = "Waiting", !.left = delay]
      BY <2>4 DEF Reopening
    <3>2. Good([with EXCEPT !.mode = "Waiting", !.left = delay])
      BY <2>1, <2>2 DEF DriverStates
    <3>3. Good(Reopening(with, delay))
      BY <3>1, <3>2
    <3>. QED BY <3>3 DEF with
  <2>. QED BY <2>3, <2>4
<1>5. CASE reason \in {"Looped", "PollCycleExpired"}
  <2>1. e = Reopening([ended EXCEPT !.backoff = NewBackoff(Policy)], loopDelay)
    BY <1>5 DEF Unbound, ended
  <2>. QED BY <1>3, <1>4, <2>1
<1>6. CASE reason \notin {"Looped", "PollCycleExpired"}
  <2> DEFINE counted == [ended EXCEPT !.backoff = next.backoff]
  <2>1. \/ e = [counted EXCEPT !.mode = "Closed", !.left = 0]
        \/ \E delay \in next.delays : e = Reopening(counted, delay)
    BY <1>6 DEF Unbound, ended, next
  <2>2. CASE e = [counted EXCEPT !.mode = "Closed", !.left = 0]
    BY <1>1, <1>2, <2>2 DEF DriverStates
  <2>3. CASE \E delay \in next.delays : e = Reopening(counted, delay)
    BY <1>2, <1>4, <2>3
  <2>. QED BY <2>1, <2>2, <2>3
<1>. QED BY <1>5, <1>6

LEMMA UnbindKeeps ==
  ASSUME IInv, UNCHANGED settings, NEW d \in DriverStates,
         d.live.every = driver.live.every, d.live.slack = driver.live.slack,
         NEW reason \in Reasons, NEW loopDelay \in Nat, Unbind(d, reason, loopDelay)
  PROVE  IInv' /\ driver'.mode # "Pumping" /\ driver'.unbound = reason
<1>1. /\ driver' \in DriverStates
      /\ driver'.mode # "Pumping" /\ ~driver'.bound /\ driver'.live.budget = << >>
      /\ driver'.unbound = reason
      /\ driver'.live.every = d.live.every /\ driver'.live.slack = d.live.slack
  BY UnboundType DEF IInv, TypeOK, Unbind
<1>2. unread' = << >> /\ past' = Fresh
  BY DEF Unbind
<1>3. driver' \in DriverStates'
  BY <1>1 DEF DriverStates, BackoffStates
<1>4. TypeOK'
  BY <1>1, <1>2, <1>3, AgeAssumption DEF IInv, TypeOK, Fresh, Ages
<1>5. HeartbeatIsSet' /\ HeartbeatInTime' /\ SlackIsSet' /\ TimingsAreChecked(settings)'
  BY <1>1, <1>2 DEF IInv, HeartbeatIsSet, HeartbeatInTime, SlackIsSet
<1>6. DeadlineIsPromise' /\ SilenceIsMeasured'
  BY <1>1, <1>2 DEF DeadlineIsPromise, SilenceIsMeasured, Fresh
<1>. QED BY <1>1, <1>4, <1>5, <1>6 DEF IInv

-----------------------------------------------------------------------------
(* One step at a time. *)

LEMMA SameTypes ==
  ASSUME UNCHANGED settings
  PROVE  DriverStates' = DriverStates /\ TimingsAreChecked(settings)' = TimingsAreChecked(settings)
  BY DEF DriverStates, BackoffStates

LEMMA OlderType ==
  ASSUME NEW age \in Ages
  PROVE  Older(age) \in Ages /\ age <= Older(age) /\ Older(age) <= age + 1
         /\ \A other \in Ages : other <= age => Older(other) <= Older(age)
  BY AgeAssumption DEF Older, Ages

(* What of the driver the invariant is about, but for the types.           *)
LEMMA SameClocks ==
  ASSUME IInv, TypeOK', UNCHANGED <<settings, unread, past>>,
         driver'.mode = driver.mode, driver'.live = driver.live,
         driver'.bound = driver.bound, driver'.negotiated = driver.negotiated
  PROVE  IInv'
<1>1. TimingsAreChecked(settings)' /\ HeartbeatIsSet' /\ SlackIsSet'
  BY SameTypes DEF IInv, HeartbeatIsSet, SlackIsSet
<1>2. HeartbeatInTime'
  BY DEF IInv, HeartbeatInTime, QuietBelow
<1>3. Promised(driver)' = Promised(driver)
  BY DEF Promised, Budget
<1>4. DeadlineIsPromise' /\ SilenceIsMeasured'
  BY <1>3 DEF IInv, DeadlineIsPromise, SilenceIsMeasured
<1>. QED BY <1>1, <1>2, <1>4 DEF IInv

LEMMA InitHolds ==
  ASSUME Init
  PROVE  IInv
<1> DEFINE live == NewLiveness(settings.slack, HeartbeatEvery(settings))
<1>1. settings \in ClientConfigs /\ TimingsAreChecked(settings)
  BY DurationsAssumption DEF Init
<1>2. /\ live \in LiveStates /\ live.every = HeartbeatEvery(settings)
      /\ live.slack = settings.slack /\ live.budget = << >>
      /\ live.inbound = 0 /\ live.outbound = 0
  <2>1. HeartbeatEvery(settings) \in Optional(Nat) /\ settings.slack \in Nat
    BY <1>1, HeartbeatSetting DEF ClientConfigs
  <2>2. 0 \in Ages
    BY AgeAssumption DEF Ages
  <2>. QED BY <2>1, <2>2, OptionMade DEF NewLiveness, LiveStates
<1>3. NewBackoff(Policy) \in BackoffStates
  BY <1>1, NewBackoffType
<1> HIDE DEF live
<1> DEFINE start == [mode |-> "Dialling", left |-> 0, held |-> "no", spent |-> 0,
                     bound |-> FALSE, session |-> FALSE, negotiated |-> << >>,
                     live |-> live, backoff |-> NewBackoff(Policy), failures |-> 0, turn |-> 0,
                     unbound |-> "never"]
<1>4. start \in DriverStates
  BY <1>2, <1>3, OptionMade, DurationsAssumption DEF DriverStates
<1>5. driver = [start EXCEPT !.mode = "Dialling", !.left = Budget(start)]
  BY DEF Init, Dialling, live
<1>6. Budget(start) \in Nat
  BY <1>1, OptionMade, BudgetType DEF Budget
<1>7. driver \in DriverStates /\ driver.mode = "Dialling" /\ driver.bound = FALSE
      /\ driver.live = live
  BY <1>4, <1>5, <1>6 DEF DriverStates
<1>8. unread = << >> /\ past = [heard |-> 0, idle |-> 0, quiet |-> 0, missed |-> 0]
  BY DEF Init
<1>9. TypeOK
  BY <1>1, <1>2, <1>7, <1>8, AgeAssumption DEF TypeOK, Ages
<1>. QED BY <1>1, <1>2, <1>7, <1>8, <1>9
         DEF IInv, HeartbeatIsSet, HeartbeatInTime, SlackIsSet, DeadlineIsPromise, SilenceIsMeasured

LEMMA WaitOverKeeps ==
  ASSUME IInv, WaitOver
  PROVE  IInv'
<1>1. driver \in DriverStates /\ driver.mode = "Waiting" /\ Budget(driver) \in Nat
  BY BudgetType DEF IInv, TypeOK, WaitOver, Budget, DriverStates
<1>2. /\ driver' \in DriverStates /\ driver'.mode = "Dialling"
      /\ driver'.live = driver.live /\ driver'.bound = driver.bound
  BY <1>1 DEF WaitOver, Dialling, DriverStates
<1>3. UNCHANGED <<settings, unread, past>>
  BY DEF WaitOver
<1>4. TypeOK'
  BY <1>1, <1>2, <1>3, SameTypes DEF IInv, TypeOK
<1>. QED BY <1>1, <1>2, <1>3, <1>4, SameTypes
         DEF IInv, TypeOK, HeartbeatIsSet, HeartbeatInTime, SlackIsSet, DeadlineIsPromise,
             SilenceIsMeasured

LEMMA EstablishedKeeps ==
  ASSUME IInv, Established
  PROVE  IInv'
<1> DEFINE live == OnStreamOpened(driver.live, Budget(driver))
<1>1. driver \in DriverStates /\ driver.mode = "Dialling" /\ ~driver.bound
      /\ Budget(driver) \in Nat /\ driver.live \in LiveStates
  BY BudgetType DEF IInv, TypeOK, Established, Budget, DriverStates
<1>2. /\ live \in LiveStates /\ live.every = driver.live.every /\ live.slack = driver.live.slack
      /\ live.budget[1] = Budget(driver) /\ live.budget # << >> /\ live.inbound = 0
      /\ live.outbound = driver.live.outbound
  <2>1. 0 \in Ages
    BY AgeAssumption DEF Ages
  <2>. QED BY <1>1, <2>1, OptionMade DEF OnStreamOpened, LiveStates
<1> HIDE DEF live
<1>3. driver' = [driver EXCEPT !.mode = "Pumping", !.left = 0, !.turn = 0, !.live = live]
  BY DEF Established, live
<1>4. /\ driver' \in DriverStates /\ driver'.mode = "Pumping" /\ driver'.live = live
      /\ ~driver'.bound /\ driver'.negotiated = driver.negotiated
  <2>1. 0 \in 0 .. MaxLinesPerTurn
    BY DurationsAssumption
  <2>. QED BY <1>1, <1>2, <1>3, <2>1 DEF DriverStates
<1>5. unread' = << >> /\ past' = Fresh /\ UNCHANGED settings
  BY DEF Established
<1>6. TypeOK'
  BY <1>4, <1>5, SameTypes, AgeAssumption DEF IInv, TypeOK, Fresh, Ages
<1>7. Promised(driver)' = Budget(driver) /\ Budget(driver) \in Nat
  BY <1>1, <1>4, <1>5 DEF Promised, Budget
<1>8. HeartbeatInTime'
  <2>1. \A k \in DOMAIN live.every : live.every[k] \in Nat
    BY <1>2, OptionElement DEF LiveStates
  <2>2. live.outbound \in Nat
    BY <1>2, AgeAssumption DEF LiveStates, Ages
  <2>. QED BY <1>4, <1>5, <2>1, <2>2 DEF HeartbeatInTime, QuietBelow, Fresh
<1>9. DeadlineIsPromise' /\ SilenceIsMeasured'
  BY <1>2, <1>4, <1>5, <1>7 DEF DeadlineIsPromise, SilenceIsMeasured, Fresh
<1>. QED BY <1>2, <1>4, <1>5, <1>6, <1>8, <1>9, SameTypes
         DEF IInv, HeartbeatIsSet, SlackIsSet

LEMMA ArrivesKeeps ==
  ASSUME IInv, NEW item \in Items, Arrives(item)
  PROVE  IInv' /\ driver'.mode = driver.mode
<1>1. /\ driver.mode = "Pumping" /\ unread \in Seq(Items)
      /\ unread' = Append(unread, item) /\ UNCHANGED <<settings, driver>>
      /\ past' = [past EXCEPT !.heard = 0, !.idle = 0]
      /\ past \in [heard : Ages, idle : Ages, quiet : Ages, missed : Nat]
  BY DEF IInv, TypeOK, Arrives
<1>2. unread' \in Seq(Items) /\ unread' # << >>
  BY <1>1
<1>3. /\ past' \in [heard : Ages, idle : Ages, quiet : Ages, missed : Nat]
      /\ past'.idle = 0 /\ past'.quiet = past.quiet /\ past'.missed = past.missed
  <2>1. 0 \in Ages
    BY AgeAssumption DEF Ages
  <2>. QED BY <1>1, <2>1
<1>4. TypeOK'
  BY <1>1, <1>2, <1>3, SameTypes DEF IInv, TypeOK
<1>5. HeartbeatInTime'
  BY <1>1, <1>3 DEF IInv, HeartbeatInTime, QuietBelow
<1>6. Promised(driver)' = Promised(driver)
  BY <1>1 DEF Promised, Budget
<1>7. Promised(driver) \in Nat
  <2>1. driver.live.budget \in Optional(Nat) /\ driver.live.budget # << >>
        /\ driver.live.budget[1] = Promised(driver)
    BY <1>1 DEF IInv, TypeOK, DriverStates, LiveStates, DeadlineIsPromise
  <2>. QED BY <2>1, OptionElement
<1>8. driver.live.inbound \in Nat
  BY AgeAssumption DEF IInv, TypeOK, DriverStates, LiveStates, Ages
<1>9. DeadlineIsPromise' /\ SilenceIsMeasured'
  BY <1>1, <1>2, <1>3, <1>6, <1>7, <1>8 DEF IInv, DeadlineIsPromise, SilenceIsMeasured
<1>. QED BY <1>1, <1>4, <1>5, <1>9, SameTypes DEF IInv, HeartbeatIsSet, SlackIsSet

(* A request got through, or a heartbeat did not: either way the outbound  *)
(* clock starts again.                                                     *)
LEMMA OutboundKeeps ==
  ASSUME IInv, TypeOK', UNCHANGED <<settings, unread>>,
         driver'.mode = driver.mode, driver'.live = OnOutbound(driver.live),
         driver'.bound = driver.bound, driver'.negotiated = driver.negotiated,
         GotThrough \/ Missed
  PROVE  IInv'
<1>1. /\ driver.live \in LiveStates /\ past.quiet \in Nat /\ past.missed \in Nat
      /\ past \in [heard : Ages, idle : Ages, quiet : Ages, missed : Nat]
      /\ driver.live.outbound \in Nat
  BY AgeAssumption DEF IInv, TypeOK, DriverStates, LiveStates, Ages
<1>2. /\ driver'.live.every = driver.live.every /\ driver'.live.slack = driver.live.slack
      /\ driver'.live.budget = driver.live.budget /\ driver'.live.inbound = driver.live.inbound
      /\ driver'.live.outbound = 0
  BY <1>1 DEF OnOutbound, LiveStates
<1>3. /\ past'.heard = past.heard /\ past'.idle = past.idle
      /\ \/ past'.quiet = 0 /\ past'.missed = 0
         \/ past'.quiet = past.quiet /\ past'.missed = past.missed + 1
  BY <1>1 DEF GotThrough, Missed
<1>4. \A k \in DOMAIN driver.live.every : driver.live.every[k] \in Nat
  BY <1>1, OptionElement DEF LiveStates
<1>5. HeartbeatInTime'
  <2> SUFFICES ASSUME driver.mode = "Pumping", NEW k \in DOMAIN driver.live.every
               PROVE  QuietBelow(driver.live.every[k])'
    BY <1>2 DEF HeartbeatInTime
  <2>1. QuietBelow(driver.live.every[k]) /\ driver.live.every[k] \in Nat
    BY <1>4 DEF IInv, HeartbeatInTime
  <2>. QED BY <1>1, <1>2, <1>3, <2>1 DEF QuietBelow
<1>6. Promised(driver)' = Promised(driver)
  BY DEF Promised, Budget
<1>7. DeadlineIsPromise' /\ SilenceIsMeasured'
  BY <1>2, <1>3, <1>6 DEF IInv, DeadlineIsPromise, SilenceIsMeasured
<1>. QED BY <1>2, <1>5, <1>7, SameTypes DEF IInv, HeartbeatIsSet, SlackIsSet

LEMMA ReadLineKeeps ==
  ASSUME IInv, ReadLine
  PROVE  IInv' /\ driver'.mode = driver.mode
<1>1. /\ driver \in DriverStates /\ driver.mode = "Pumping" /\ driver.live \in LiveStates
      /\ driver.turn \in 0 .. MaxLinesPerTurn
      /\ unread \in Seq(Items) /\ unread # << >> /\ past.idle = 0
      /\ settings.slack \in Nat /\ driver.live.slack = settings.slack
  BY DEF IInv, TypeOK, ReadLine, MayReadLine, Listening, SilenceIsMeasured, SlackIsSet, DriverStates,
         ClientConfigs
<1> DEFINE heard == [Counted(driver) EXCEPT !.live = OnInbound(@)]
<1>2. /\ heard \in DriverStates /\ heard.mode = "Pumping"
      /\ heard.bound = driver.bound /\ heard.negotiated = driver.negotiated
      /\ heard.live = OnInbound(driver.live)
  <2> DEFINE turn == IF driver.turn = MaxLinesPerTurn THEN 1 ELSE driver.turn + 1
  <2>1. turn \in 0 .. MaxLinesPerTurn
    BY <1>1, DurationsAssumption
  <2>2. OnInbound(driver.live) \in LiveStates
    BY <1>1, AgeAssumption DEF OnInbound, LiveStates, Ages
  <2>3. Counted(driver) = [driver EXCEPT !.turn = turn]
    BY <1>1 DEF Counted, DriverStates
  <2> HIDE DEF turn
  <2>. QED BY <1>1, <2>1, <2>2, <2>3 DEF DriverStates
<1>3. /\ heard.live.inbound = 0 /\ heard.live.outbound = driver.live.outbound
      /\ heard.live.every = driver.live.every /\ heard.live.slack = settings.slack
      /\ heard.live.budget = driver.live.budget
  BY <1>1, <1>2 DEF OnInbound, LiveStates
<1> HIDE DEF heard
<1>4. Head(unread) \in Items /\ unread' \in Seq(Items)
  BY <1>1 DEF ReadLine
<1> DEFINE Read(d) ==
             /\ d \in DriverStates /\ d.mode = "Pumping"
             /\ d.live.inbound = 0 /\ d.live.outbound = driver.live.outbound
             /\ d.live.every = driver.live.every /\ d.live.slack = settings.slack
             /\ d.bound => d.negotiated # << >>
             /\ d.live.budget # << >> /\ d.live.budget[1] = Promised(d)
<1>5. Promised(driver)' = Promised(driver')
  BY DEF ReadLine, Promised, Budget
<1>6. Read(heard)
  <2>1. Promised(heard) = Promised(driver)
    BY <1>2 DEF Promised, Budget
  <2>. QED BY <1>1, <1>2, <1>3, <2>1 DEF IInv, DeadlineIsPromise
<1>7. ASSUME Head(unread).kind = "ConOk"
      PROVE  Read(Bound(heard, Head(unread).keepAlive))
  <2> DEFINE keepAlive == Head(unread).keepAlive
             live == OnBound(heard.live, keepAlive)
             bound == Bound(heard, keepAlive)
  <2>1. keepAlive \in Nat
    BY <1>4, <1>7, DurationsAssumption DEF Items
  <2> HIDE DEF keepAlive
  <2>2. /\ live \in LiveStates /\ live.budget # << >>
        /\ live.budget[1] = keepAlive + settings.slack
        /\ live.inbound = 0 /\ live.outbound = driver.live.outbound
        /\ live.every = driver.live.every /\ live.slack = settings.slack
    <3>1. heard.live \in LiveStates
      BY <1>2 DEF DriverStates
    <3>2. keepAlive + heard.live.slack \in Nat
      BY <1>1, <1>3, <2>1
    <3>. QED BY <1>3, <2>1, <3>1, <3>2, OptionMade, AgeAssumption DEF OnBound, LiveStates, Ages
  <2> HIDE DEF live
  <2>3. bound = [heard EXCEPT !.live = live, !.bound = TRUE, !.session = TRUE,
                              !.negotiated = <<keepAlive>>, !.backoff = NewBackoff(Policy)]
    BY <1>2 DEF Bound, live, DriverStates
  <2> HIDE DEF bound
  <2>4. NewBackoff(Policy) \in BackoffStates
    BY NewBackoffType DEF IInv, TypeOK
  <2>5. /\ bound \in DriverStates /\ bound.mode = "Pumping" /\ bound.live = live
        /\ bound.bound /\ bound.negotiated = <<keepAlive>> /\ bound.negotiated # << >>
    BY <1>2, <2>1, <2>2, <2>3, <2>4, OptionMade DEF DriverStates
  <2>6. Promised(bound) = keepAlive + settings.slack
    BY <2>5 DEF Promised
  <2>7. Read(bound)
    BY <2>2, <2>5, <2>6
  <2>. QED BY <2>7 DEF bound, keepAlive
<1>8. PICK read : Read(read) /\ \E held \in {"no", "emit"} : driver' = [read EXCEPT !.held = held]
  BY <1>6, <1>7 DEF ReadLine, heard
<1>9. Read(driver')
  <2>1. PICK held \in {"no", "emit"} : driver' = [read EXCEPT !.held = held]
    BY <1>8
  <2>2. driver' \in DriverStates /\ driver'.mode = "Pumping" /\ driver'.live = read.live
        /\ driver'.bound = read.bound /\ driver'.negotiated = read.negotiated
    BY <1>8, <2>1 DEF DriverStates
  <2>3. Promised(driver') = Promised(read)
    BY <2>2 DEF Promised, Budget
  <2>. QED BY <1>8, <2>2, <2>3
<1> HIDE DEF Read
<1>10. UNCHANGED <<settings, past>>
  BY DEF ReadLine
<1>11. /\ driver' \in DriverStates /\ driver'.mode = "Pumping"
       /\ driver'.live.inbound = 0 /\ driver'.live.outbound = driver.live.outbound
       /\ driver'.live.every = driver.live.every /\ driver'.live.slack = settings.slack
       /\ driver'.bound => driver'.negotiated # << >>
       /\ driver'.live.budget # << >> /\ driver'.live.budget[1] = Promised(driver')
  BY <1>9 DEF Read
<1>12. TypeOK'
  BY <1>4, <1>10, <1>11, SameTypes DEF IInv, TypeOK
<1>13. HeartbeatInTime'
  BY <1>1, <1>10, <1>11 DEF IInv, HeartbeatInTime, QuietBelow
<1>14. Promised(driver') \in Nat /\ past.heard \in Nat
  <2>1. driver'.live.budget \in Optional(Nat)
    BY <1>11 DEF DriverStates, LiveStates
  <2>. QED BY <1>11, <2>1, OptionElement, AgeAssumption DEF IInv, TypeOK, Ages
<1>15. DeadlineIsPromise' /\ SilenceIsMeasured'
  BY <1>1, <1>5, <1>10, <1>11, <1>14 DEF DeadlineIsPromise, SilenceIsMeasured
<1>. QED BY <1>1, <1>10, <1>11, <1>12, <1>13, <1>15, SameTypes DEF IInv, HeartbeatIsSet, SlackIsSet

(* Time: a deadline that is not past leaves room for one tick more.        *)
LEMMA TickKeeps ==
  ASSUME IInv, Tick
  PROVE  IInv' /\ driver'.mode = driver.mode
<1> DEFINE live == Aged(driver.live)
<1>1. /\ driver \in DriverStates /\ driver.live \in LiveStates
      /\ past \in [heard : Ages, idle : Ages, quiet : Ages, missed : Nat]
      /\ driver.live.inbound \in Ages /\ driver.live.outbound \in Ages
      /\ past.heard \in Ages /\ past.idle \in Ages /\ past.quiet \in Ages
  BY DEF IInv, TypeOK, DriverStates, LiveStates
<1>2. /\ live \in LiveStates /\ live.inbound = Older(driver.live.inbound)
      /\ live.outbound = Older(driver.live.outbound) /\ live.every = driver.live.every
      /\ live.slack = driver.live.slack /\ live.budget = driver.live.budget
  BY <1>1, OlderType DEF Aged, LiveStates
<1> HIDE DEF live
<1>3. /\ driver' \in DriverStates /\ driver'.live = live /\ driver'.mode = driver.mode
      /\ driver'.bound = driver.bound /\ driver'.negotiated = driver.negotiated
  <2> DEFINE spent == IF Free THEN driver.spent ELSE driver.spent + 1
             left == IF driver.left = 0 THEN 0 ELSE driver.left - 1
  <2>1. spent \in Nat /\ left \in Nat
    BY <1>1 DEF DriverStates
  <2>2. driver' = [driver EXCEPT !.live = live, !.spent = spent, !.left = left]
    BY <1>1 DEF Tick, live, DriverStates
  <2> HIDE DEF spent, left
  <2>. QED BY <1>1, <1>2, <2>1, <2>2 DEF DriverStates
<1>4. UNCHANGED <<settings, unread>>
  BY DEF Tick
<1>5. Promised(driver)' = Promised(driver)
  BY <1>3, <1>4 DEF Promised, Budget
<1>6. HeartbeatIsSet' /\ SlackIsSet' /\ TimingsAreChecked(settings)'
  BY <1>2, <1>3, <1>4, SameTypes DEF IInv, HeartbeatIsSet, SlackIsSet
<1>7. CASE driver.mode # "Pumping"
  <2>1. past' = past
    BY <1>7 DEF Tick
  <2>2. TypeOK'
    BY <1>2, <1>3, <1>4, <1>7, <2>1, SameTypes DEF IInv, TypeOK
  <2>. QED BY <1>3, <1>4, <1>6, <1>7, <2>1, <2>2
           DEF IInv, TypeOK, HeartbeatInTime, DeadlineIsPromise, SilenceIsMeasured
<1>8. CASE driver.mode = "Pumping"
  <2>1. /\ past' \in [heard : Ages, idle : Ages, quiet : Ages, missed : Nat]
        /\ past'.heard = Older(past.heard) /\ past'.missed = past.missed
        /\ IF Free THEN past'.idle = Older(past.idle) /\ past'.quiet = Older(past.quiet)
           ELSE past'.idle = past.idle /\ past'.quiet = past.quiet
    BY <1>1, <1>8, OlderType DEF Tick
  <2>2. TypeOK'
    BY <1>2, <1>3, <1>4, <1>8, <2>1, SameTypes DEF IInv, TypeOK
  <2>3. Free => unread = << >> /\ ~DeadlineIsPast(driver.live)
    BY <1>8 DEF Tick, NothingIsDue
  <2>4. HeartbeatInTime'
    <3> SUFFICES ASSUME NEW k \in DOMAIN driver.live.every
                 PROVE  QuietBelow(driver.live.every[k])'
      BY <1>2, <1>3 DEF HeartbeatInTime
    <3> DEFINE every == driver.live.every[k]
               quiet == past.quiet
               outbound == driver.live.outbound
    <3>1. every \in Nat /\ QuietBelow(every)
      BY <1>1, <1>8, OptionElement DEF IInv, HeartbeatInTime, LiveStates
    <3>2. quiet \in Nat /\ outbound \in Nat /\ quiet \in Ages /\ outbound \in Ages
          /\ MaxAge \in Nat
      BY <1>1, AgeAssumption DEF Ages
    <3>3. Free => outbound < every
      BY <2>3, <3>1, <3>2 DEF DeadlineIsPast, IsSpent
    <3>4. CASE ~Free
      <4>1. past'.quiet = quiet /\ past'.missed = past.missed
            /\ driver'.live.outbound = Older(outbound) /\ outbound <= Older(outbound)
            /\ Older(outbound) \in Nat
        BY <1>2, <1>3, <2>1, <3>2, <3>4, OlderType DEF Ages
      <4>. QED BY <1>2, <1>3, <3>1, <3>2, <4>1 DEF QuietBelow
    <3>5. CASE Free
      <4>1. past'.quiet = Older(quiet) /\ past'.missed = past.missed
            /\ driver'.live.outbound = Older(outbound)
        BY <1>2, <1>3, <2>1, <3>5
      <4>2. Older(quiet) <= quiet + 1 /\ Older(quiet) <= MaxAge /\ Older(quiet) \in Nat
            /\ Older(outbound) = (IF outbound < MaxAge THEN outbound + 1 ELSE outbound)
            /\ outbound <= MaxAge
        BY <3>2 DEF Older, Ages
      <4>3. outbound < every
        BY <3>3, <3>5
      <4> HIDE DEF every, quiet, outbound
      <4>4. past.missed = 0 => Older(quiet) <= every /\ Older(quiet) <= Older(outbound)
        BY <3>1, <3>2, <4>2, <4>3 DEF QuietBelow, quiet, outbound
      <4>5. past.missed = 1 => Older(quiet) <= every + every /\ Older(quiet) <= every + Older(outbound)
        BY <3>1, <3>2, <4>2, <4>3 DEF QuietBelow, quiet, outbound
      <4>. QED BY <1>2, <1>3, <4>1, <4>4, <4>5 DEF QuietBelow, every
    <3>. QED BY <3>4, <3>5
  <2>5. driver.live.budget # << >> /\ driver.live.budget[1] = Promised(driver)
        /\ Promised(driver) \in Nat /\ DOMAIN driver.live.budget = {1}
    <3>1. driver.live.budget \in Optional(Nat)
      BY <1>1 DEF LiveStates
    <3>. QED BY <1>8, <3>1, OptionElement DEF IInv, DeadlineIsPromise
  <2>6. DeadlineIsPromise'
    BY <1>2, <1>3, <1>5, <2>5 DEF IInv, DeadlineIsPromise
  <2>7. /\ unread # << >> => past'.idle = 0
        /\ unread = << >> => Older(driver.live.inbound) <= past'.heard
        /\ past'.idle <= Older(driver.live.inbound) /\ past'.idle <= Promised(driver)
    <3>1. /\ unread # << >> => past.idle = 0
          /\ unread = << >> => driver.live.inbound <= past.heard
          /\ past.idle <= driver.live.inbound /\ past.idle <= Promised(driver)
      BY <1>8 DEF IInv, SilenceIsMeasured
    <3>2. Free => driver.live.inbound < Promised(driver)
      BY <1>1, <2>3, <2>5, AgeAssumption DEF DeadlineIsPast, IsSpent, Ages
    <3>3. unread = << >> => Older(driver.live.inbound) <= Older(past.heard)
      BY <1>1, <3>1, OlderType
    <3>4. CASE ~Free
      <4>1. driver.live.inbound <= Older(driver.live.inbound)
            /\ Older(driver.live.inbound) \in Nat /\ driver.live.inbound \in Nat
            /\ past.idle \in Nat
        BY <1>1, OlderType, AgeAssumption DEF Ages
      <4>. QED BY <2>1, <2>5, <3>1, <3>3, <3>4, <4>1
    <3>5. CASE Free
      <4>1. past'.idle = Older(past.idle) /\ unread = << >>
        BY <2>1, <2>3, <3>5
      <4>2. Older(past.idle) <= Older(driver.live.inbound)
        BY <1>1, <3>1, OlderType
      <4>3. Older(past.idle) <= past.idle + 1 /\ Older(past.idle) \in Nat /\ past.idle \in Nat
            /\ driver.live.inbound \in Nat
        BY <1>1, OlderType, AgeAssumption DEF Ages
      <4>4. Older(past.idle) <= Promised(driver)
        BY <2>5, <3>1, <3>2, <3>5, <4>3
      <4>. QED BY <2>1, <3>3, <4>1, <4>2, <4>4
    <3>. QED BY <3>4, <3>5
  <2>8. SilenceIsMeasured'
    BY <1>2, <1>3, <1>4, <1>5, <2>7 DEF SilenceIsMeasured
  <2>. QED BY <1>3, <1>6, <2>2, <2>4, <2>6, <2>8 DEF IInv
<1>. QED BY <1>7, <1>8

(* The steps that leave the clocks alone, or only start the outbound one.  *)
LEMMA HeldUpKeeps ==
  ASSUME IInv, UNCHANGED settings, NEW call \in {"command", "heartbeat"}, HoldUp(call)
  PROVE  IInv' /\ driver'.mode = driver.mode
<1>1. driver \in DriverStates /\ UNCHANGED <<settings, unread, past>> /\ 0 \in 0 .. MaxLinesPerTurn
  BY DurationsAssumption DEF IInv, TypeOK, HoldUp
<1>2. /\ driver' \in DriverStates /\ driver'.mode = driver.mode /\ driver'.live = driver.live
      /\ driver'.bound = driver.bound /\ driver'.negotiated = driver.negotiated
  BY <1>1 DEF HoldUp, DriverStates
<1>3. TypeOK'
  BY <1>1, <1>2, SameTypes DEF IInv, TypeOK
<1>. QED BY <1>1, <1>2, <1>3, SameClocks

LEMMA OutboundType ==
  ASSUME IInv
  PROVE  /\ OnOutbound(driver.live) \in LiveStates
         /\ OnOutbound(driver.live).budget = driver.live.budget
         /\ driver \in DriverStates /\ 0 \in 0 .. MaxLinesPerTurn
         /\ 0 \in 0 .. MaxHeartbeatFailures - 1
<1>1. driver \in DriverStates /\ driver.live \in LiveStates
  BY DEF IInv, TypeOK, DriverStates
<1>2. 0 \in Ages
  BY AgeAssumption DEF Ages
<1>3. OnOutbound(driver.live) \in LiveStates
      /\ OnOutbound(driver.live).budget = driver.live.budget
  BY <1>1, <1>2 DEF OnOutbound, LiveStates
<1>4. 0 \in 0 .. MaxLinesPerTurn /\ 0 \in 0 .. MaxHeartbeatFailures - 1
  BY DurationsAssumption
<1>. QED BY <1>1, <1>3, <1>4

LEMMA PastType ==
  ASSUME IInv, GotThrough \/ Missed
  PROVE  past' \in [heard : Ages, idle : Ages, quiet : Ages, missed : Nat]
<1>1. past \in [heard : Ages, idle : Ages, quiet : Ages, missed : Nat] /\ 0 \in Ages
  BY AgeAssumption DEF IInv, TypeOK, Ages
<1>2. CASE GotThrough
  BY <1>1, <1>2 DEF GotThrough
<1>3. CASE Missed
  <2>1. past.missed + 1 \in Nat
    BY <1>1
  <2>. QED BY <1>1, <1>3, <2>1 DEF Missed
<1>. QED BY <1>2, <1>3

LEMMA CommandOnSocketKeeps ==
  ASSUME IInv, CommandOnSocket
  PROVE  IInv' /\ driver'.mode = driver.mode
<1>1. driver \in DriverStates /\ UNCHANGED <<settings, unread>> /\ 0 \in 0 .. MaxLinesPerTurn
  BY OutboundType DEF CommandOnSocket
<1>2. CASE /\ driver' = [driver EXCEPT !.live = OnOutbound(@), !.turn = 0]
           /\ GotThrough
  <2>1. /\ driver' \in DriverStates /\ driver'.mode = driver.mode
        /\ driver'.live = OnOutbound(driver.live)
        /\ driver'.bound = driver.bound /\ driver'.negotiated = driver.negotiated
    BY <1>1, <1>2, OutboundType DEF DriverStates
  <2>2. TypeOK'
    BY <1>1, <1>2, <2>1, OutboundType, PastType, SameTypes DEF IInv, TypeOK
  <2>. QED BY <1>1, <1>2, <2>1, <2>2, OutboundKeeps
<1>3. CASE driver' = [driver EXCEPT !.turn = 0] /\ UNCHANGED past
  <2>1. /\ driver' \in DriverStates /\ driver'.mode = driver.mode /\ driver'.live = driver.live
        /\ driver'.bound = driver.bound /\ driver'.negotiated = driver.negotiated
    BY <1>1, <1>3 DEF DriverStates
  <2>2. TypeOK'
    BY <1>1, <1>3, <2>1, SameTypes DEF IInv, TypeOK
  <2>. QED BY <1>1, <1>3, <2>1, <2>2, SameClocks
<1>. QED BY <1>2, <1>3 DEF CommandOnSocket

LEMMA CommandAnsweredKeeps ==
  ASSUME IInv, CommandAnswered
  PROVE  IInv' /\ driver'.mode = driver.mode
<1>1. driver \in DriverStates /\ UNCHANGED <<settings, unread>>
  BY OutboundType DEF CommandAnswered
<1>2. CASE /\ driver' = [driver EXCEPT !.held = "no", !.spent = 0, !.live = OnOutbound(@)]
           /\ GotThrough
  <2>1. /\ driver' \in DriverStates /\ driver'.mode = driver.mode
        /\ driver'.live = OnOutbound(driver.live)
        /\ driver'.bound = driver.bound /\ driver'.negotiated = driver.negotiated
    BY <1>1, <1>2, OutboundType DEF DriverStates
  <2>2. TypeOK'
    BY <1>1, <1>2, <2>1, OutboundType, PastType, SameTypes DEF IInv, TypeOK
  <2>. QED BY <1>1, <1>2, <2>1, <2>2, OutboundKeeps
<1>3. CASE driver' = [driver EXCEPT !.held = "no", !.spent = 0] /\ UNCHANGED past
  <2>1. /\ driver' \in DriverStates /\ driver'.mode = driver.mode /\ driver'.live = driver.live
        /\ driver'.bound = driver.bound /\ driver'.negotiated = driver.negotiated
    BY <1>1, <1>3 DEF DriverStates
  <2>2. TypeOK'
    BY <1>1, <1>3, <2>1, SameTypes DEF IInv, TypeOK
  <2>. QED BY <1>1, <1>3, <2>1, <2>2, SameClocks
<1>. QED BY <1>2, <1>3 DEF CommandAnswered

LEMMA EmittedKeeps ==
  ASSUME IInv, Emitted
  PROVE  IInv' /\ driver'.mode = driver.mode
<1>1. driver \in DriverStates /\ UNCHANGED <<settings, unread, past>>
  BY OutboundType DEF Emitted
<1>2. /\ driver' \in DriverStates /\ driver'.mode = driver.mode /\ driver'.live = driver.live
      /\ driver'.bound = driver.bound /\ driver'.negotiated = driver.negotiated
  BY <1>1 DEF Emitted, DriverStates
<1>3. TypeOK'
  BY <1>1, <1>2, SameTypes DEF IInv, TypeOK
<1>. QED BY <1>1, <1>2, <1>3, SameClocks

LEMMA HeartbeatSentKeeps ==
  ASSUME IInv, UNCHANGED settings, HeartbeatSent
  PROVE  IInv' /\ driver'.mode = driver.mode
<1>1. driver \in DriverStates /\ UNCHANGED <<settings, unread>> /\ GotThrough
  BY OutboundType DEF HeartbeatSent
<1>2. /\ driver' \in DriverStates /\ driver'.mode = driver.mode
      /\ driver'.live = OnOutbound(driver.live)
      /\ driver'.bound = driver.bound /\ driver'.negotiated = driver.negotiated
  BY <1>1, OutboundType DEF HeartbeatSent, DriverStates
<1>3. TypeOK'
  BY <1>1, <1>2, OutboundType, PastType, SameTypes DEF IInv, TypeOK
<1>. QED BY <1>1, <1>2, <1>3, OutboundKeeps

LEMMA HeartbeatFailedKeeps ==
  ASSUME IInv, UNCHANGED settings, HeartbeatFailed
  PROVE  IInv' /\ (driver'.mode # "Pumping" /\ driver.mode = "Pumping" =>
                      driver'.unbound = "ConnectionFailed")
<1> DEFINE failures == driver.failures + 1
           d == [driver EXCEPT !.held = "no", !.spent = 0, !.turn = 0, !.failures = failures,
                               !.live = OnOutbound(@)]
<1>1. driver \in DriverStates /\ failures \in Nat
  BY OutboundType DEF DriverStates
<1>2. /\ d.live = OnOutbound(driver.live) /\ d.mode = driver.mode /\ d.failures = failures
      /\ d.bound = driver.bound /\ d.negotiated = driver.negotiated
  BY <1>1 DEF DriverStates
<1>3. CASE failures >= MaxHeartbeatFailures
  <2> DEFINE given == [d EXCEPT !.failures = 0]
  <2>1. given \in DriverStates /\ given.live = OnOutbound(driver.live)
    BY <1>1, OutboundType DEF DriverStates
  <2>2. given.live.every = driver.live.every /\ given.live.slack = driver.live.slack
    BY <1>1, <2>1 DEF DriverStates, LiveStates, OnOutbound
  <2>3. Unbind(given, "ConnectionFailed", 0)
    BY <1>2, <1>3 DEF HeartbeatFailed
  <2> HIDE DEF given
  <2>. QED BY <2>1, <2>2, <2>3, UnbindKeeps DEF Reasons
<1>4. CASE ~(failures >= MaxHeartbeatFailures)
  <2>1. driver' = d /\ Missed /\ UNCHANGED unread
    BY <1>2, <1>4 DEF HeartbeatFailed
  <2>2. failures \in 0 .. MaxHeartbeatFailures - 1
    BY <1>1, <1>4, DurationsAssumption
  <2> HIDE DEF failures
  <2>3. d \in DriverStates
    BY <1>1, <2>2, OutboundType DEF DriverStates
  <2>4. TypeOK'
    BY <1>2, <2>1, <2>3, OutboundType, PastType, SameTypes DEF IInv, TypeOK
  <2>. QED BY <1>2, <2>1, <2>4, OutboundKeeps
<1>. QED BY <1>3, <1>4

LEMMA StallsKeeps ==
  ASSUME IInv, Stalls
  PROVE  IInv' /\ driver'.mode # "Pumping"
<1>1. driver \in DriverStates /\ UNCHANGED settings
  BY OutboundType DEF Stalls
<1>2. PICK reason \in {"KeepaliveExpired", "NoAnswer"} : Unbind(driver, reason, 0)
  BY DEF Stalls
<1>. QED BY <1>1, <1>2, UnbindKeeps DEF Reasons

LEMMA EndsKeep ==
  ASSUME IInv, DialFails \/ ReadLoop \/ ReadEnd
  PROVE  IInv' /\ driver'.unbound \in {"Looped", "PollCycleExpired", "ConnectionFailed"}
<1>1. driver \in DriverStates /\ UNCHANGED settings
  BY OutboundType DEF DialFails, ReadLoop, ReadEnd
<1>2. CASE DialFails
  BY <1>1, <1>2, UnbindKeeps DEF DialFails, Reasons
<1>3. CASE ReadLoop
  <2> DEFINE d == [driver EXCEPT !.live = OnInbound(@)]
  <2>1. driver.live \in LiveStates /\ 0 \in Ages
    BY <1>1, AgeAssumption DEF DriverStates, Ages
  <2>2. OnInbound(driver.live) \in LiveStates
        /\ OnInbound(driver.live).every = driver.live.every
        /\ OnInbound(driver.live).slack = driver.live.slack
    BY <2>1 DEF OnInbound, LiveStates
  <2>3. d \in DriverStates /\ d.live = OnInbound(driver.live)
    BY <1>1, <2>2 DEF DriverStates
  <2>4. Head(unread) \in Items /\ Head(unread).kind = "Loop"
    BY <1>3 DEF IInv, TypeOK, ReadLoop, MayReadLine
  <2>5. Head(unread).delay \in Nat
    BY <2>4, DurationsAssumption DEF Items
  <2>6. Unbind(d, "Looped", Head(unread).delay)
    BY <1>3 DEF ReadLoop
  <2> HIDE DEF d
  <2>. QED BY <1>1, <2>2, <2>3, <2>5, <2>6, UnbindKeeps DEF Reasons
<1>4. CASE ReadEnd
  <2>1. PICK reason \in {"PollCycleExpired", "ConnectionFailed"} : Unbind(driver, reason, 0)
    BY <1>4 DEF ReadEnd
  <2>. QED BY <1>1, <2>1, UnbindKeeps DEF Reasons
<1>. QED BY <1>2, <1>3, <1>4

LEMMA HeartbeatsKeep ==
  ASSUME IInv, HeartbeatOnSocket \/ HeartbeatOverHttp \/ HeartbeatRefused \/ HeartbeatAnswered
  PROVE  /\ IInv'
         /\ driver'.mode = driver.mode \/ driver'.unbound = "ConnectionFailed"
            \/ driver.mode # "Pumping"
<1>1. UNCHANGED settings
  BY DEF HeartbeatOnSocket, HeartbeatOverHttp, HeartbeatRefused, HeartbeatAnswered
<1>2. HeartbeatSent \/ HeartbeatFailed \/ HoldUp("heartbeat")
  BY DEF HeartbeatOnSocket, HeartbeatOverHttp, HeartbeatRefused, HeartbeatAnswered
<1>. QED BY <1>1, <1>2, HeartbeatSentKeeps, HeartbeatFailedKeeps, HeldUpKeeps

(* The disjuncts of the next-state relation, and what each may do to the   *)
(* mode of an open stream.                                                 *)
LEMMA NextKeeps ==
  ASSUME IInv, Next
  PROVE  /\ IInv' /\ UNCHANGED settings
         /\ GivesUpForSilence => Stalls
<1>1. CASE WaitOver
  BY <1>1, WaitOverKeeps DEF WaitOver, GivesUpForSilence
<1>2. CASE Established
  BY <1>2, EstablishedKeeps DEF Established, GivesUpForSilence
<1>3. CASE DialFails \/ ReadLoop \/ ReadEnd
  BY <1>3, EndsKeep DEF GivesUpForSilence, DialFails, ReadLoop, ReadEnd
<1>4. CASE \E item \in Items : Arrives(item)
  BY <1>4, ArrivesKeeps DEF GivesUpForSilence, Arrives
<1>5. CASE ReadLine
  BY <1>5, ReadLineKeeps DEF GivesUpForSilence, ReadLine
<1>6. CASE CommandOnSocket
  BY <1>6, CommandOnSocketKeeps DEF GivesUpForSilence, CommandOnSocket
<1>7. CASE CommandOverHttp
  BY <1>7, HeldUpKeeps DEF GivesUpForSilence, CommandOverHttp
<1>8. CASE CommandAnswered
  BY <1>8, CommandAnsweredKeeps DEF GivesUpForSilence, CommandAnswered
<1>9. CASE Emitted
  BY <1>9, EmittedKeeps DEF GivesUpForSilence, Emitted
<1>10. CASE Stalls
  BY <1>10, StallsKeeps DEF Stalls
<1>11. CASE HeartbeatOnSocket \/ HeartbeatOverHttp \/ HeartbeatRefused \/ HeartbeatAnswered
  BY <1>11, HeartbeatsKeep DEF GivesUpForSilence, HeartbeatOnSocket, HeartbeatOverHttp,
                               HeartbeatRefused, HeartbeatAnswered
<1>12. CASE Tick
  BY <1>12, TickKeeps DEF GivesUpForSilence, Tick
<1>. QED BY <1>1, <1>2, <1>3, <1>4, <1>5, <1>6, <1>7, <1>8, <1>9, <1>10, <1>11, <1>12 DEF Next

LEMMA StutteringKeeps ==
  ASSUME IInv, UNCHANGED vars
  PROVE  IInv'
<1>1. UNCHANGED <<settings, driver, unread, past>>
  BY DEF vars
<1>2. TypeOK'
  BY <1>1, SameTypes DEF IInv, TypeOK
<1>. QED BY <1>1, <1>2, SameClocks

-----------------------------------------------------------------------------
(* The clocks are consistent in every state of every behaviour: what the   *)
(* driver waits for is what was promised, and what it owes is known.       *)
THEOREM ClocksConsistent == Spec => []IInv
<1>1. Init => IInv
  BY InitHolds
<1>2. IInv /\ [Next]_vars => IInv'
  BY NextKeeps, StutteringKeeps
<1>. QED BY <1>1, <1>2, PTL DEF Spec

(* The types and limits of the driver's clocks and schedule, for every     *)
(* policy: backoff.rs never waits for longer than its maximum.             *)
THEOREM TimingTypes == Spec => []TypeOK
<1>1. IInv => TypeOK
  BY DEF IInv
<1>. QED BY <1>1, ClocksConsistent, PTL

LEMMA CommitmentFollows ==
  ASSUME IInv
  PROVE  CommitmentKept
<1> SUFFICES ASSUME Listening, past.missed <= 1, ~Connection(settings).polling,
                    NEW k \in DOMAIN settings.commitment
             PROVE  past.quiet <= settings.commitment[k]
  BY DEF CommitmentKept
<1> DEFINE every == HeartbeatEvery(settings)[k]
<1>1. settings \in ClientConfigs /\ driver.live.every = HeartbeatEvery(settings)
  BY DEF IInv, TypeOK, HeartbeatIsSet
<1>2. k \in DOMAIN driver.live.every /\ every \in Nat /\ every + every <= settings.commitment[k]
  BY <1>1, HeartbeatSetting
<1>3. QuietBelow(every)
  BY <1>1, <1>2 DEF IInv, HeartbeatInTime, Listening
<1>4. past.missed \in {0, 1} /\ past.quiet \in Nat
  BY AgeAssumption DEF IInv, TypeOK, Ages
<1>5. settings.commitment[k] \in Nat
  BY <1>1, OptionElement DEF ClientConfigs
<1> HIDE DEF every
<1>. QED BY <1>2, <1>3, <1>4, <1>5 DEF QuietBelow

(* SessionOptions::heartbeat_interval: whatever the commitment, the        *)
(* keepalives and the delays, a driver that nothing holds up leaves the    *)
(* server without a request for no longer than it committed itself to,     *)
(* also when one heartbeat was lost.                                       *)
THEOREM CommitmentIsKept == Spec => []CommitmentKept
<1>. QED BY ClocksConsistent, CommitmentFollows, PTL

LEMMA StallIsJudged ==
  ASSUME IInv, Stalls
  PROVE  IF unread = << >> THEN past.heard >= Promised(driver)
         ELSE IsInverted /\ driver.live.inbound >= Promised(driver)
<1>1. driver.mode = "Pumping" /\ (unread = << >> \/ IsInverted)
      /\ Due(driver.live) = "InboundStalled"
  BY DEF Stalls, MayServeTimer, Listening
<1>2. IsSpent(driver.live.inbound, driver.live.budget)
  BY <1>1 DEF Due
<1>3. driver.live.budget \in Optional(Nat) /\ driver.live.budget # << >>
      /\ driver.live.budget[1] = Promised(driver)
  BY <1>1 DEF IInv, TypeOK, DriverStates, LiveStates, DeadlineIsPromise
<1>4. DOMAIN driver.live.budget = {1} /\ Promised(driver) \in Nat
  BY <1>3, OptionElement
<1>5. driver.live.inbound >= Promised(driver)
  BY <1>2, <1>3, <1>4 DEF IsSpent
<1>6. driver.live.inbound \in Nat /\ past.heard \in Nat
  BY AgeAssumption DEF IInv, TypeOK, DriverStates, LiveStates, Ages
<1>7. unread = << >> => driver.live.inbound <= past.heard
  BY <1>1 DEF IInv, SilenceIsMeasured
<1>. QED BY <1>1, <1>4, <1>5, <1>6, <1>7

(* session/liveness.rs as pump serves it: a stream is given up for silence *)
(* only when it was silent for as long as was promised, and a driver that  *)
(* listens never waits for longer.                                         *)
THEOREM SilenceIsJudgedRightly == Spec => SilenceIsJudged
<1> DEFINE Judged ==
      /\ GivesUpForSilence =>
            IF unread = << >> THEN past.heard >= Promised(driver)
            ELSE IsInverted /\ driver.live.inbound >= Promised(driver)
      /\ Listening' => past'.idle <= Promised(driver')
<1>1. IInv /\ IInv' /\ Next => Judged
  <2> SUFFICES ASSUME IInv, IInv', Next PROVE Judged
    OBVIOUS
  <2>1. UNCHANGED settings /\ (GivesUpForSilence => Stalls)
    BY NextKeeps
  <2>2. Promised(driver)' = Promised(driver')
    BY <2>1 DEF Promised, Budget
  <2>3. Listening' => past'.idle <= Promised(driver)'
    BY DEF IInv, SilenceIsMeasured, Listening
  <2>. QED BY <2>1, <2>2, <2>3, StallIsJudged
<1>2. IInv /\ IInv' /\ [Next]_vars => [Judged]_vars
  BY <1>1
<1>. QED BY <1>2, ClocksConsistent, PTL DEF Spec, SilenceIsJudged
=============================================================================

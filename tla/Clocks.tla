-------------------------------- MODULE Clocks --------------------------------
(***************************************************************************)
(* session/liveness.rs and session/backoff.rs: the clocks of one stream    *)
(* connection, and the schedule of the attempts to reopen it.              *)
(*                                                                         *)
(* An instant is kept as the time gone by since; an age stops counting at  *)
(* MaxAge.  An optional value is a sequence of at most one.                *)
(***************************************************************************)
EXTENDS Naturals, Sequences

CONSTANT MaxAge

ASSUME AgeAssumption == MaxAge \in Nat

Optional(S) == {option \in Seq(S) : Len(option) <= 1}

Older(age) == IF age < MaxAge THEN age + 1 ELSE age

-----------------------------------------------------------------------------
(* Liveness *)

NewLiveness(slack, every) ==
    [slack |-> slack, budget |-> << >>, inbound |-> 0, every |-> every, outbound |-> 0]

\* The clock goes on from the last line of the stream before.
OpenedWithoutRestart(live, openTimeout) == [live EXCEPT !.budget = <<openTimeout>>]
OnStreamOpened(live, openTimeout) == [live EXCEPT !.budget = <<openTimeout>>, !.inbound = 0]
OnBound(live, keepAlive) == [live EXCEPT !.budget = <<keepAlive + live.slack>>, !.inbound = 0]
OnStreamClosed(live) == [live EXCEPT !.budget = << >>]
OnInbound(live) == [live EXCEPT !.inbound = 0]
OnOutbound(live) == [live EXCEPT !.outbound = 0]

IsSpent(age, allowance) == \E k \in DOMAIN allowance : age >= allowance[k]

(* next_deadline has come *)
DeadlineIsPast(live) == IsSpent(live.inbound, live.budget) \/ IsSpent(live.outbound, live.every)

(* A stall outranks a heartbeat.                                           *)
Due(live) ==
    IF IsSpent(live.inbound, live.budget) THEN "InboundStalled"
    ELSE IF IsSpent(live.outbound, live.every) THEN "SendHeartbeat"
    ELSE "Idle"

Aged(live) == [live EXCEPT !.inbound = Older(@), !.outbound = Older(@)]

-----------------------------------------------------------------------------
(* Backoff, with policy [initial, max, maxAttempts] *)

NewBackoff(policy) == [attempts |-> 0, base |-> policy.initial]

(* Jitter: any delay up to the bound.                                      *)
Below(bound) == 0 .. bound

IsExhausted(policy, attempts) ==
    \E k \in DOMAIN policy.maxAttempts : attempts > policy.maxAttempts[k]

\* The delay doubles beyond the maximum.
NextDelayUncapped(policy, backoff) ==
    [backoff |-> [attempts |-> backoff.attempts + 1, base |-> 2 * backoff.base],
     delays  |-> IF IsExhausted(policy, backoff.attempts + 1) THEN {} ELSE Below(backoff.base)]

(* next_delay: the schedule afterwards, and the delays it may give; none   *)
(* when the attempts are spent.                                            *)
NextDelay(policy, backoff) ==
    LET attempts == backoff.attempts + 1
    IN  IF IsExhausted(policy, attempts)
        THEN [backoff |-> [backoff EXCEPT !.attempts = attempts], delays |-> {}]
        ELSE [backoff |-> [attempts |-> attempts,
                           base     |-> IF 2 * backoff.base < policy.max
                                        THEN 2 * backoff.base ELSE policy.max],
              delays  |-> Below(backoff.base)]
=============================================================================

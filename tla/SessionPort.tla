------------------------------ MODULE SessionPort ------------------------------
(***************************************************************************)
(* What the client layer may rely on of the session driver, and all it may *)
(* rely on: for each subscription key where the desired set has it, and    *)
(* which events a step may produce about it.  Connections, sessions, ids   *)
(* and requests are out of sight.                                          *)
(*                                                                         *)
(* It is the abstract specification of SessionDriver (module               *)
(* DriverContract) and the driver of ClientSystem.                         *)
(***************************************************************************)
CONSTANTS Keys

VARIABLES
  life,    (* For each key: unused, wanted, removing (a delete is out), gone.    *)
  closed,  (* The driver has reached its terminal state.                         *)
  said     (* The events the last step produced.                                 *)

Subscription(k, what) == [ev |-> "subscription", key |-> k, what |-> what]
Answer(kind, k, outcome) ==
  [ev |-> "response", kind |-> kind, key |-> k, outcome |-> outcome]
Bound  == [ev |-> "bound"]
Closed == [ev |-> "closed"]
News   == [ev |-> "news"]   \* what only the session's own stream carries
Quiet  == [ev |-> "quiet"]  \* an accepted request, which nobody is told of

Known(k)  == life[k] # "unused"
Holds(k)  == life[k] \in {"wanted", "removing"}
Unsent(kind, k) == Answer(kind, k, "notSent")
UnsentAnswers ==
  UNION {{Unsent("subscribe", k), Unsent("unsubscribe", k)} : k \in {j \in Keys : Known(j)}}

Init == life = [k \in Keys |-> "unused"] /\ closed = FALSE /\ said = {}

\* on_command, Subscribe: the add is left for the next bind, sent, or not sent.
Subscribe(k) ==
  /\ ~closed /\ life[k] = "unused"
  /\ life' = [life EXCEPT ![k] = "wanted"]
  /\ said' \in {{}, {Unsent("subscribe", k)}}
  /\ UNCHANGED closed

\* unsubscribe: a subscription the session does not hold is simply forgotten.
Unsubscribe(k) ==
  /\ ~closed
  /\ \/ /\ ~Holds(k)
        /\ said' = {} /\ UNCHANGED life
     \/ /\ Holds(k)
        /\ life' = [life EXCEPT ![k] = "gone"]
        /\ said' = {}
     \/ /\ Holds(k)
        /\ life' = [life EXCEPT ![k] = "removing"]
        /\ said' \in {{}, {Unsent("unsubscribe", k)}}
  /\ UNCHANGED closed

\* A line of the server about a subscription that is held.
Delivers(k) ==
  /\ ~closed /\ Holds(k)
  /\ \/ /\ said' = {Subscription(k, "data")}
        /\ UNCHANGED life
     \/ /\ said' = {Subscription(k, "activated")}
        /\ life' = [life EXCEPT ![k] = "wanted"]
     \/ /\ said' = {Subscription(k, "unsubscribed")}
        /\ life' = [life EXCEPT ![k] = "gone"]
  /\ UNCHANGED closed

\* on_request_error; the answer may come long after the subscription went.
Refuses(k) ==
  /\ ~closed /\ Known(k)
  /\ \/ /\ said' = {Answer("subscribe", k, "rejected")}
        /\ life' = [life EXCEPT ![k] = "gone"]
     \/ /\ said' = {Answer("unsubscribe", k, "rejected")}
        /\ life' = [life EXCEPT ![k] = IF Holds(k) THEN "wanted" ELSE "gone"]
  /\ UNCHANGED closed

\* on_conok: requests of a replaced session are retired, what was being removed
\* goes with it, and adds that could not be sent are reported.
Binds ==
  /\ ~closed
  /\ life' \in {life, [k \in Keys |-> IF life[k] = "removing" THEN "gone" ELSE life[k]]}
  /\ \E unsent \in SUBSET UnsentAnswers, news \in SUBSET {News} :
       said' = {Bound} \cup news \cup unsent
  /\ UNCHANGED closed

\* Everything else that is reported, or is not.
Speaks ==
  /\ ~closed
  /\ said' \in SUBSET {News, Quiet}
  /\ UNCHANGED <<life, closed>>

\* run: the closing event is the last.
Closes ==
  /\ ~closed /\ closed' = TRUE
  /\ said' \in {{Closed}, {News, Closed}}
  /\ UNCHANGED life

AfterClosing == closed /\ said' = {} /\ UNCHANGED <<life, closed>>

Next ==
  \/ Speaks \/ AfterClosing \/ Closes
  \/ \E k \in Keys : Subscribe(k) \/ Unsubscribe(k) \/ Delivers(k) \/ Refuses(k)
  \/ Binds
Spec == Init /\ [][Next]_<<life, closed, said>>
=============================================================================

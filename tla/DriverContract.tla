---------------------------- MODULE DriverContract ----------------------------
(***************************************************************************)
(* SessionDriver keeps the contract of SessionPort: seen from the client,  *)
(* its registry is the life of each key and its events are the port's.     *)
(***************************************************************************)
EXTENDS SessionDriver

LifeOf(k) ==
  CASE reg[k].state \in {"pending", "active"} -> "wanted"
    [] OTHER -> reg[k].state

\* An answer to a subscription's request names the subscription, but an accepted
\* one is no news.
PortEvent(e) ==
  CASE e.ev = "subscription"                          -> e
    [] e.ev = "response" /\ e.outcome = "accepted"    -> [ev |-> "quiet"]
    [] e.ev = "response" /\ e.outcome # "accepted"
         /\ e.kind \in {"subscribe", "unsubscribe"}   -> e
    [] e.ev \in {"bound", "closed"}                   -> [ev |-> e.ev]
    [] OTHER                                          -> [ev |-> "news"]

Port == INSTANCE SessionPort WITH
  life <- [k \in Keys |-> LifeOf(k)], closed <- (phase = "closed"),
  said <- {PortEvent(e) : e \in out}

\* The driver tells the client layer nothing the port does not allow: no event of
\* a subscription that was never asked for or is gone, no loss of a wanted one when
\* a session is replaced, and nothing after the closing event.
KeepsContract == Port!Spec
=============================================================================

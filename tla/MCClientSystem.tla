---------------------------- MODULE MCClientSystem ----------------------------
(***************************************************************************)
(* The instances of ClientSystem the runs check, and the events each lets  *)
(* the driver produce.                                                     *)
(***************************************************************************)
EXTENDS ClientSystem

OneKey  == {1}

\* What the router tells apart: it treats data like an activation, news and answers
\* about a delete like a bind, and throws an accepted answer away.
Distinct ==
       {Driver!Bound, Driver!Closed}
  \cup {Driver!Subscription(k, what) : k \in Keys, what \in {"activated", "unsubscribed"}}
  \cup {Driver!Answer("subscribe", k, outcome) : k \in Keys,
                                                outcome \in {"rejected", "notSent"}}

\* What fills the channels.
Filling ==
  {Driver!Bound, Driver!News, Driver!Closed}
    \cup {Driver!Subscription(k, "activated") : k \in Keys}
=============================================================================

-------------------------- MODULE SubscriptionStream --------------------------
(***************************************************************************)
(* What the client promises of the streams of updates it hands out: each   *)
(* is a queue that is open from the call that made it, takes events in     *)
(* order, and closes once - by a terminal event, after which it takes no   *)
(* more, or, only when the client itself is ending, by being cut short.    *)
(***************************************************************************)
EXTENDS Sequences

CONSTANTS Keys

VARIABLES
  running,  (* No stop is ordered and the session's events still flow. *)
  sink,     (* none | open | ended: its terminal event is in | cut | gone:     *)
            (* the caller let go of it, or never got it.                        *)
  queue     (* What is in the stream and not yet read.                          *)
vars == <<running, sink, queue>>

Init ==
  running = TRUE /\ sink = [k \in Keys |-> "none"] /\ queue = [k \in Keys |-> <<>>]

Opens(k) ==
  /\ sink[k] = "none"
  /\ sink' \in {[sink EXCEPT ![k] = "open"], [sink EXCEPT ![k] = "gone"]}
  /\ sink'[k] = "open" => running
  /\ UNCHANGED <<running, queue>>

\* The last event is the one that closes the stream.
Puts(k, last) ==
  /\ sink[k] = "open"
  /\ queue' = [queue EXCEPT ![k] = Append(@, IF last THEN "last" ELSE "event")]
  /\ sink' = IF last THEN [sink EXCEPT ![k] = "ended"] ELSE sink
  /\ UNCHANGED running

Takes(k) ==
  /\ queue[k] # <<>>
  /\ queue' = [queue EXCEPT ![k] = Tail(@)]
  /\ UNCHANGED <<running, sink>>

LetsGo(k) ==
  /\ sink[k] \in {"open", "ended", "cut"}
  /\ sink' = [sink EXCEPT ![k] = "gone"]
  /\ queue' = [queue EXCEPT ![k] = <<>>]
  /\ UNCHANGED running

\* The client is ending, and cuts streams that are open.
Ends ==
  /\ running' = FALSE
  /\ \E cut \in SUBSET {k \in Keys : sink[k] = "open"} :
       sink' = [k \in Keys |-> IF k \in cut THEN "cut" ELSE sink[k]]
  /\ UNCHANGED queue

Next == Ends \/ \E k \in Keys : Opens(k) \/ Puts(k, TRUE) \/ Puts(k, FALSE) \/ Takes(k) \/ LetsGo(k)
Spec == Init /\ [][Next]_vars
=============================================================================

-------------------------- MODULE MCSessionLifecycle --------------------------
(***************************************************************************)
(* The alphabets the runs of SessionLifecycle give to the server and to    *)
(* the caller: every line and every command the driver tells apart, with   *)
(* one code of each class classify knows.                                  *)
(***************************************************************************)
EXTENDS SessionLifecycle, DriverContract

CONSTANTS s1, s2, m1, f1

OneKey == {1}

EveryLine ==
       [t : {"CONOK"}, session : {s1, s2}]
  \cup [t : {"CONERR"}, code : {1, 20}]
  \cup [t : {"END"}, code : {5, 39, 48}]
  \cup [t : {"LOOP"}, delayed : BOOLEAN]
  \cup [t : {"PROG"}, at : 0 .. ProgressiveMax]
  \cup [t : {"REQOK", "REQERR"}, id : RequestIds]
  \cup [t : {"SUBOK", "UNSUB", "UPDATE"}, sub : SubIds]
  \cup [t : {"MSGDONE", "MSGFAIL"}, msg : Messages]
  \cup [t : {"UNPARSED"}]

EveryCommand ==
       [t : {"Subscribe", "Unsubscribe"}, key : Keys]
  \cup [t : {"Reconfigure"}, key : Keys, freq : Frequencies]
  \cup [t : {"SendMessage"}, msg : Messages]
  \cup [t : {"ForceRebind", "Destroy", "Shutdown"}]

\* A server that only ever refuses, or answers and falls silent.
Refusals ==
       [t : {"CONOK"}, session : {s1, s2}]
  \cup [t : {"CONERR"}, code : {5, 20}]

\* Activations that cross the caller's own unsubscriptions, and a session that is
\* lost only by a refusal to recover it.
Activations ==
       [t : {"CONOK"}, session : {s1}]
  \cup [t : {"CONERR"}, code : {20}]
  \cup [t : {"SUBOK", "UNSUB"}, sub : SubIds]

Subscriptions == [t : {"Subscribe", "Unsubscribe"}, key : Keys]
=============================================================================

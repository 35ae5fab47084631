--------------------------- MODULE MCSessionDriver ---------------------------
(***************************************************************************)
(* The alphabets the runs of SessionDriver give to the server and to the   *)
(* caller.  Each run turns to the part of the protocol its properties are  *)
(* about.                                                                  *)
(***************************************************************************)
EXTENDS DriverContract, TLC

CONSTANTS s1, s2, m1

TwoKeys == {1, 2}
OneKey  == {1}

\* Nothing tells one session id from another.
SessionSymmetry == Permutations({s1, s2})

\* Registry and requests: sessions come and go, every request is answered late,
\* twice or never, and any sub id may be named by a data notification.
RegistryNotifications ==
       [t : {"CONOK"}, session : {s1, s2}]
  \cup [t : {"CONERR"}, code : {20}]
  \cup [t : {"REQOK", "REQERR"}, id : RequestIds]
  \cup [t : {"SUBOK", "UNSUB"}, sub : SubIds]

RegistryCommands == [t : {"Subscribe", "Unsubscribe"}, key : Keys]
=============================================================================

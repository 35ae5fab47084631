--------------------------- MODULE SessionLifecycle ---------------------------
(***************************************************************************)
(* The life of the driver's sessions against a server that keeps the order *)
(* of a stream connection: CONOK or CONERR comes first and neither comes   *)
(* again.  What comes after CONOK is still arbitrary.                      *)
(*                                                                         *)
(* Fairness is what the executor and the driver's own clocks give: the     *)
(* task runs whenever it can, a delay elapses, an open ends within its     *)
(* budget one way or the other, and a stream that says nothing is dropped  *)
(* when the budget of the handshake is spent.  Nothing is assumed of the   *)
(* server: it may never let a stream be bound.                             *)
(***************************************************************************)
EXTENDS SessionDriver

OpensWith == {"CONOK", "CONERR"}

OrderlyLine(n) ==
  /\ streamState = "establishing" <=> n.t \in OpensWith
  /\ OnLine(n)

\* A pump before CONOK ends in an answer or at the deadline that open_stream and
\* on_stream_opened armed; only a line could postpone it.
HandshakeEnds ==
  /\ streamState = "establishing"
  /\ InboundStalled \/ \E n \in Notifications : OrderlyLine(n)

OrderlyNext ==
  \/ DelayElapses
  \/ Established
  \/ OpenFails
  \/ StreamFails
  \/ StreamEnds
  \/ InboundStalled
  \/ HeartbeatDue
  \/ StopObserved
  \/ OrderStop
  \/ \E n \in Notifications : OrderlyLine(n)
  \/ \E c \in Commands : OnCommand(c)

Fairness ==
  /\ WF_vars(DelayElapses)
  /\ WF_vars(Established \/ OpenFails)
  /\ WF_vars(HandshakeEnds)
  /\ WF_vars(StopObserved)

LifecycleSpec == Init /\ [][OrderlyNext]_vars /\ Fairness

-----------------------------------------------------------------------------
(* Properties *)

\* An order to stop is always carried out, whatever the driver is doing.
StopCloses == stop ~> phase = "closed"

\* The retry is bounded: a server that never lets a stream be bound again makes
\* the driver give up, whether it refuses, hangs or drops the connection.
GivesUpEventually == <>[](streamState = "establishing") => <>(phase = "closed")

\* What a bind says about continuity is true: one reported as the same session
\* keeps its id, its data count and every binding, so that the caller's derived
\* state is still valid; any other starts the count over and a new request
\* generation.
ContinuityIsTrue ==
  [][\A e \in out' : e.ev = "bound" =>
       \/ /\ e.kind \in {"rebound", "recovering"}
          /\ e.session = session
          /\ progressive' = progressive /\ generation' = generation
          /\ \A k \in Keys : reg[k].wire # NoId => reg'[k] = reg[k]
       \/ /\ e.kind \in {"created", "recreated"}
          /\ progressive' = 0 /\ generation' # generation]_vars
=============================================================================

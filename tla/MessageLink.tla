----------------------------- MODULE MessageLink ------------------------------
(***************************************************************************)
(* The fate of messages: the session driver against a server that keeps    *)
(* the protocol, over a WebSocket that may drop.  A request the driver     *)
(* sent travels in inbox; the server answers it REQOK or REQERR on the     *)
(* same socket, and reports each message it took with one MSGDONE, a data  *)
(* notification it keeps and sends again after a recovery.  The REQOK it   *)
(* does not send again.  Whatever is in flight when the socket drops is    *)
(* lost in both directions.                                                *)
(*                                                                         *)
(* The server is not in the repository: it is modelled from the lines the  *)
(* driver expects of it.  It resumes a recovery exactly where it is asked  *)
(* to (RecoveryLink covers the other answers).                             *)
(***************************************************************************)
EXTENDS SessionDriver, Sequences

CONSTANT
  KeepsSessions  (* Whether the server never loses a session it gave. *)

ASSUME LinkAssumption == KeepsSessions \in BOOLEAN

VARIABLES
  server,     (* The session the server holds, if any.                      *)
  inbox,      (* Requests written and not yet taken by the server.          *)
  accepted,   (* Messages it answered REQOK and has not evaluated yet.      *)
  log,        (* The MSGDONE notifications of its session, in order.        *)
  cursor,     (* How many of them were sent on the current stream.          *)
  streaming,  (* Whether the current stream is bound and not ended.         *)
  line,       (* Lines written and not yet read.                            *)
  submitted,  (* History: messages the caller handed over.                  *)
  reports     (* History: outcomes the caller was told of, per message.     *)

serverVars == <<server, inbox, accepted, log, cursor, streaming, line>>
reportVars == <<submitted, reports>>
allVars    == <<vars, serverVars, reportVars>>

ConOkLine(s) == [t |-> "CONOK", session |-> s]

LinkInit ==
  /\ Init
  /\ server = NoSession
  /\ inbox = <<>> /\ accepted = {} /\ log = <<>> /\ cursor = 0
  /\ streaming = FALSE /\ line = <<>>
  /\ submitted = {} /\ reports = [m \in Messages |-> 0]

-----------------------------------------------------------------------------
(* The server *)

Creates ==
  /\ BuildOpen.kind = "create"
  /\ server' \in Sessions \ {server}
  /\ accepted' = {} /\ log' = <<>> /\ cursor' = 0
  /\ streaming' = TRUE /\ line' = <<ConOkLine(server')>>

Rebinds ==
  /\ BuildOpen.kind = "rebind" /\ session = server
  /\ streaming' = TRUE /\ line' = <<ConOkLine(server)>>
  /\ UNCHANGED <<server, accepted, log, cursor>>

Recovers ==
  /\ BuildOpen.kind = "recover" /\ session = server
  /\ cursor' = intent.requested
  /\ streaming' = TRUE
  /\ line' = <<ConOkLine(server), [t |-> "PROG", at |-> cursor']>>
  /\ UNCHANGED <<server, accepted, log>>

RefusesBind ==
  /\ BuildOpen.kind # "create" /\ ~KeepsSessions
  /\ server' = NoSession
  /\ streaming' = FALSE /\ line' = <<[t |-> "CONERR", code |-> 20]>>
  /\ UNCHANGED <<accepted, log, cursor>>

ServerAnswers ==
  /\ Established
  /\ Creates \/ Rebinds \/ Recovers \/ RefusesBind
  /\ inbox' = <<>>
  /\ UNCHANGED reportVars

ServerTakes ==
  /\ streaming /\ inbox # <<>>
  /\ inbox' = Tail(inbox)
  /\ \/ /\ line' = Append(line, [t |-> "REQOK", id |-> Head(inbox).id])
        /\ accepted' = accepted \cup {Head(inbox).msg}
     \/ /\ line' = Append(line, [t |-> "REQERR", id |-> Head(inbox).id])
        /\ UNCHANGED accepted
  /\ UNCHANGED <<vars, server, log, cursor, streaming, reportVars>>

ServerEvaluates ==
  /\ \E m \in accepted :
       /\ accepted' = accepted \ {m}
       /\ log' = Append(log, m)
  /\ UNCHANGED <<vars, server, inbox, cursor, streaming, line, reportVars>>

ServerSends ==
  /\ streaming /\ cursor < Len(log)
  /\ cursor' = cursor + 1
  /\ line' = Append(line, [t |-> "MSGDONE", msg |-> log[cursor']])
  /\ UNCHANGED <<vars, server, inbox, accepted, log, streaming, reportVars>>

ServerLoops ==
  /\ streaming /\ cursor = Len(log) /\ inbox = <<>>
  /\ streaming' = FALSE
  /\ line' = Append(line, [t |-> "LOOP", delayed |-> FALSE])
  /\ UNCHANGED <<vars, server, inbox, accepted, log, cursor, reportVars>>

-----------------------------------------------------------------------------
(* The driver *)

\* Every outcome the step reports is counted against its message.
Reported ==
  reports' = [m \in Messages |->
    reports[m] + Cardinality({e \in out' : e.ev = "message" /\ e.msg = m})]

Submits(m) ==
  /\ m \notin submitted
  /\ Serving /\ OnSendMessage(m)
  /\ submitted' = submitted \cup {m}
  /\ Reported
  /\ inbox' = IF pending' # pending
              THEN Append(inbox, [id |-> nextRequestId, msg |-> m]) ELSE inbox
  /\ UNCHANGED <<server, accepted, log, cursor, streaming, line>>

Disconnected ==
  /\ OpenFails \/ StreamFails \/ InboundStalled
  /\ line' = <<>> /\ inbox' = <<>> /\ streaming' = FALSE
  /\ Reported
  /\ UNCHANGED <<server, accepted, log, cursor, submitted>>

ReadsLine ==
  /\ line # <<>>
  /\ OnLine(Head(line))
  /\ line' = Tail(line)
  /\ Reported
  /\ UNCHANGED <<server, inbox, accepted, log, cursor, streaming, submitted>>

Waits ==
  /\ DelayElapses
  /\ UNCHANGED <<serverVars, reportVars>>

LinkNext ==
  \/ ServerAnswers
  \/ ServerTakes
  \/ ServerEvaluates
  \/ ServerSends
  \/ ServerLoops
  \/ \E m \in Messages : Submits(m)
  \/ Disconnected
  \/ ReadsLine
  \/ Waits

LinkSpec == LinkInit /\ [][LinkNext]_allVars

-----------------------------------------------------------------------------
(* Properties *)

\* "every message that asked for an outcome produces exactly one
\* SessionEvent::Message": at most one is ever reported.
AtMostOneOutcome == \A m \in Messages : reports[m] <= 1

\* No message is forgotten: one that was handed over and not reported is still in
\* the driver's requests, or will come as a notification the driver has not counted.
InFlight(m) ==
  \/ \E i \in RequestIds : pending[i] # NoRequest /\ pending[i].kind = "message"
                             /\ pending[i].msg = m
  \/ m \in accepted
  \/ \E n \in progressive + 1 .. Len(log) : log[n] = m
NoMessageForgotten ==
  \A m \in submitted : phase # "closed" => reports[m] > 0 \/ InFlight(m)
=============================================================================

----------------------------- MODULE RecoveryLink -----------------------------
(***************************************************************************)
(* The session driver against a server that keeps the protocol, over       *)
(* connections that lose what is in flight.  The server numbers the data   *)
(* notifications of a session, sends them in order on the bound stream,    *)
(* may end a stream by LOOP or by closing it once everything before it is  *)
(* read, and answers a recovery request from the point asked for, from an  *)
(* earlier one, from a later one, or not at all.                           *)
(*                                                                         *)
(* The server is not in the repository: it is modelled from the lines the  *)
(* driver expects of it and from docs/spec.  This module is about the      *)
(* data notifications alone: the caller sends no command and every one of  *)
(* them is a notification of no registered subscription (sub 0), which the *)
(* driver counts, or discards as a duplicate, like any other.              *)
(***************************************************************************)
EXTENDS SessionDriver, Sequences

CONSTANTS
  MaxProduced,       (* Bound: notifications the server produces in a session. *)
  MaxInFlight,       (* Bound: lines sent and not yet read.                    *)
  LoopsInReplay,     (* Whether a stream may end before a replay has caught up.*)
  Unparsable         (* Positions of the notifications the client cannot parse.*)

ASSUME LinkAssumption ==
  /\ MaxProduced \in 1 .. ProgressiveMax /\ MaxInFlight \in Nat \ {0}
  /\ LoopsInReplay \in BOOLEAN /\ Unparsable \subseteq Nat

VARIABLES
  server,    (* The session the server holds, if any.                        *)
  produced,  (* How many data notifications it has produced in it.           *)
  cursor,    (* The last one sent on the current stream.                     *)
  streaming, (* Whether the current stream is bound and not ended.           *)
  line,      (* What the server has written and the driver not yet read.     *)
  last,      (* History: position of the last notification handed on.        *)
  handed,    (* History: the one the last step handed on, 0 if none.         *)
  epoch      (* History: how many sessions the driver reported.              *)

linkVars == <<server, produced, cursor, streaming, line>>
feedVars == <<last, handed, epoch>>

\* A step that reads no line hands nothing on.
NothingHandedOn == handed' = 0 /\ UNCHANGED <<last, epoch>>
allVars  == <<vars, linkVars, feedVars>>

\* One data notification: the driver sees an UPDATE or an UNPARSED line.
Datum(n) == [t |-> IF n \in Unparsable THEN "UNPARSED" ELSE "UPDATE",
             sub |-> NoId, position |-> n]
EndOfStream == [t |-> "EOF"]
ConOkLine(s) == [t |-> "CONOK", session |-> s]

LinkInit ==
  /\ Init
  /\ server = NoSession /\ produced = 0 /\ cursor = 0
  /\ streaming = FALSE /\ line = <<>>
  /\ last = 0 /\ handed = 0 /\ epoch = 0

-----------------------------------------------------------------------------
(* The server *)

\* A connection reached the server with what build_open asks of it.
Creates ==
  /\ BuildOpen.kind = "create"
  /\ server' \in Sessions \ {server}
  /\ produced' = 0 /\ cursor' = 0 /\ streaming' = TRUE
  /\ line' = <<ConOkLine(server')>>

Rebinds ==
  /\ BuildOpen.kind = "rebind" /\ session = server
  /\ streaming' = TRUE
  /\ line' = <<ConOkLine(server)>>
  /\ UNCHANGED <<server, produced, cursor>>

\* Exact, earlier (duplicates) or later (a gap) than requested.
Recovers ==
  /\ BuildOpen.kind = "recover" /\ session = server
  /\ \E at \in 0 .. produced :
       /\ cursor' = at
       /\ line' = <<ConOkLine(server), [t |-> "PROG", at |-> at]>>
  /\ streaming' = TRUE
  /\ UNCHANGED <<server, produced>>

\* The session expired, or what it is asked to recover from was not kept.
RefusesBind ==
  /\ BuildOpen.kind # "create"
  /\ server' = NoSession
  /\ streaming' = FALSE
  /\ \E code \in {4, 20} : line' = <<[t |-> "CONERR", code |-> code]>>
  /\ UNCHANGED <<produced, cursor>>

ServerAnswers ==
  /\ Established
  /\ Creates \/ Rebinds \/ Recovers \/ RefusesBind
  /\ NothingHandedOn

\* The next data notification, replayed or new.
ServerSends ==
  /\ streaming /\ Len(line) < MaxInFlight
  /\ cursor < MaxProduced
  /\ cursor' = cursor + 1
  /\ produced' = IF cursor' > produced THEN cursor' ELSE produced
  /\ line' = Append(line, Datum(cursor'))
  /\ NothingHandedOn
  /\ UNCHANGED <<vars, server, streaming>>

\* LOOP, the end of a response, or the end of the session.
ServerEndsStream ==
  /\ streaming
  /\ LoopsInReplay \/ cursor = produced
  /\ \/ /\ \E ending \in {[t |-> "LOOP", delayed |-> FALSE], EndOfStream} :
             line' = Append(line, ending)
        /\ UNCHANGED server
     \/ /\ line' = Append(line, [t |-> "END", code |-> 48])
        /\ server' = NoSession
  /\ streaming' = FALSE
  /\ NothingHandedOn
  /\ UNCHANGED <<vars, produced, cursor>>

-----------------------------------------------------------------------------
(* The driver *)

\* Whatever tears the connection down loses what was in flight on it.
Disconnected ==
  /\ OpenFails \/ StreamFails \/ InboundStalled
  /\ line' = <<>> /\ streaming' = FALSE
  /\ NothingHandedOn
  /\ UNCHANGED <<server, produced, cursor>>

ReadsEnd ==
  /\ line # <<>> /\ Head(line) = EndOfStream
  /\ StreamEnds
  /\ line' = Tail(line)
  /\ NothingHandedOn
  /\ UNCHANGED <<server, produced, cursor, streaming>>

\* Whether handling n hands it on to the caller.
HandsOn(n) == n.t = "UNPARSED" \/ (n.t = "UPDATE" /\ skipRemaining = 0)
GapReported == [ev |-> "recovered", kind |-> "gap"] \in out'

ReadsLine ==
  /\ line # <<>> /\ Head(line) # EndOfStream
  /\ OnLine(Head(line))
  /\ line' = Tail(line)
  /\ handed' = IF HandsOn(Head(line)) THEN Head(line).position ELSE 0
  /\ last' = IF HandsOn(Head(line)) THEN handed'
             ELSE IF GapReported THEN Head(line).at
             ELSE IF generation' # generation THEN 0
             ELSE last
  /\ epoch' = IF generation' # generation THEN epoch + 1 ELSE epoch
  /\ UNCHANGED <<server, produced, cursor, streaming>>

Waits ==
  /\ DelayElapses
  /\ NothingHandedOn
  /\ UNCHANGED linkVars

LinkNext ==
  \/ ServerAnswers
  \/ ServerSends
  \/ ServerEndsStream
  \/ Disconnected
  \/ ReadsEnd
  \/ ReadsLine
  \/ Waits

LinkSpec == LinkInit /\ [][LinkNext]_allVars

-----------------------------------------------------------------------------
(* Properties *)

Told ==
  IF [ev |-> "recovered", kind |-> "gap"] \in out THEN "gap"
  ELSE IF \E e \in out : e.ev = "bound" /\ e.kind \in {"created", "recreated"} THEN "replaced"
  ELSE "nothing"

Feed == INSTANCE ReliableFeed WITH told <- Told

\* The driver implements the reliable feed: across drops, recoveries, rebinds and
\* replaced sessions the data notifications handed on are consecutive, or the step
\* that breaks the sequence reports it.
ImplementsReliableFeed == Feed!Spec

\* The count that a recovery request carries is the position the caller has
\* reached: on_data, on_prog and on_conok together keep it, through every unbind.
ProgressiveIsPosition == progressive = last

\* What is still to be discarded is exactly what the server replays: when skipping,
\* the next notification to come is the one the skip was counted from.
SkipMatchesReplay ==
  \A i \in 1 .. Len(line) :
    /\ line[i].t = "UPDATE"
    /\ \A j \in 1 .. i - 1 : line[j].t = "UPDATE"
    => line[i].position = last - skipRemaining + i

\* No data notification reaches the caller twice.
NothingHandedOnTwice == [][handed' # 0 => handed' > last]_allVars
=============================================================================

----------------------------- MODULE MessageProofs -----------------------------
(***************************************************************************)
(* The fate of messages over a socket that may drop, against a server that *)
(* keeps its session: for every set of messages, of sessions and of        *)
(* request ids, none is reported twice and none is forgotten.              *)
(***************************************************************************)
EXTENDS MessageLink, SessionDriverProofs, SequenceTheorems

\* What the fate of a message is promised under: the server never loses a session it
\* gave, and there are no more messages than the driver can count.
ServerKeeps ==
  /\ KeepsSessions
  /\ IsFiniteSet(Messages) /\ Cardinality(Messages) <= ProgressiveMax

-----------------------------------------------------------------------------
(* The inductive invariant *)

Answers == {"REQOK", "REQERR"}
Lines ==
       [t : {"CONOK"}, session : Sessions]
  \cup [t : {"PROG"}, at : 0 .. ProgressiveMax]
  \cup [t : Answers, id : RequestIds]
  \cup [t : {"MSGDONE"}, msg : Messages]
  \cup [t : {"LOOP"}, delayed : {FALSE}]

LinkTypeOK ==
  /\ server \in Sessions \cup {NoSession}
  /\ inbox \in Seq([id : RequestIds, msg : Messages])
  /\ accepted \in SUBSET Messages
  /\ log \in Seq(Messages)
  /\ cursor \in 0 .. Len(log) /\ progressive <= Len(log)
  /\ streaming \in BOOLEAN
  /\ line \in Seq(Lines)
  /\ submitted \in SUBSET Messages
  /\ reports \in [Messages -> 0 .. 1]

\* The messages the server took, and those it has not.
Taken == accepted \cup {log[n] : n \in 1 .. Len(log)}
Waiting(i) == pending[i] # NoRequest

\* The driver has nothing but messages in flight, each with one request of this session.
MessagesOnly ==
  /\ \A k \in Keys : reg[k].state = "unused"
  /\ previousSession = NoSession /\ skipRemaining = 0
  /\ \A i \in RequestIds : Waiting(i) =>
       /\ pending[i].kind = "message" /\ pending[i].gen = generation /\ i < nextRequestId
       /\ pending[i].msg \in submitted
  /\ \A i, j \in RequestIds :
       Waiting(i) /\ Waiting(j) /\ pending[i].msg = pending[j].msg => i = j

\* Once given a session stays, and before that nothing was handed over to it.
OneSession ==
  /\ phase # "pumping" => ~streaming
  /\ phase = "pumping" /\ session = NoSession => line # <<>> /\ line[1].t = "CONOK"
  /\ phase \in {"waiting", "opening"} =>
       /\ session # NoSession => intent.kind \in {"rebind", "recover"}
       /\ intent.kind = "recover" => intent.requested = progressive
       /\ intent.kind = "rebind" => cursor = progressive
  /\ session # NoSession => session = server
  /\ session = NoSession =>
       /\ intent.kind = "create" /\ inbox = <<>> /\ accepted = {} /\ log = <<>>
       /\ \A i \in RequestIds : ~Waiting(i)

\* What is on its way to the driver: answers to requests in flight, and the outcomes the
\* driver has not counted of those the server sent, in order.
Uncounted == progressive + 1 .. cursor
LineInv ==
  /\ \A i \in 1 .. Len(line) :
       /\ line[i].t = "CONOK" =>
            /\ i = 1 /\ line[i].session = server
            /\ session # NoSession => intent.kind \in {"rebind", "recover"}
       /\ line[i].t = "PROG" => line[i].at = intent.requested
       /\ line[i].t = "LOOP" => i = Len(line) /\ ~streaming
       /\ line[i].t \in Answers => Waiting(line[i].id)
       /\ line[i].t = "REQOK" => pending[line[i].id].msg \in Taken
       /\ line[i].t = "REQERR" => pending[line[i].id].msg \notin Taken
       /\ line[i].t = "MSGDONE" => \E n \in Uncounted : log[n] = line[i].msg
  /\ \A i, j \in 1 .. Len(line) :
       line[i].t \in Answers /\ line[j].t \in Answers /\ line[i].id = line[j].id => i = j
  /\ \A i, j \in 1 .. Len(line) : i < j /\ line[i].t = "MSGDONE" /\ line[j].t = "MSGDONE" =>
       \A n, k \in 1 .. Len(log) : log[n] = line[i].msg /\ log[k] = line[j].msg => n < k
  /\ phase = "pumping" =>
       /\ progressive <= cursor
       /\ \A n \in Uncounted : \E i \in 1 .. Len(line) :
            line[i].t = "MSGDONE" /\ line[i].msg = log[n]

\* What is on its way to the server: requests in flight that nothing has answered.
InboxInv ==
  /\ \A a \in 1 .. Len(inbox) :
       /\ Waiting(inbox[a].id) /\ pending[inbox[a].id].msg = inbox[a].msg
       /\ inbox[a].msg \notin Taken
       /\ \A i \in 1 .. Len(line) : line[i].t \in Answers => line[i].id # inbox[a].id
  /\ \A a, b \in 1 .. Len(inbox) : inbox[a].id = inbox[b].id => a = b

\* A message the server took is reported when its outcome is counted, and no other way;
\* one it did not take may still be refused.
OutcomesInv ==
  /\ Taken \subseteq submitted
  /\ \A n \in 1 .. Len(log) : log[n] \notin accepted
  /\ \A n, k \in 1 .. Len(log) : log[n] = log[k] => n = k
  /\ \A n \in 1 .. Len(log) : reports[log[n]] = IF n <= progressive THEN 1 ELSE 0
  /\ \A m \in accepted : reports[m] = 0
  /\ \A m \in Messages \ submitted : reports[m] = 0
  /\ \A i \in RequestIds : Waiting(i) /\ pending[i].msg \notin Taken =>
       reports[pending[i].msg] = 0
  /\ \A m \in submitted :
       \/ reports[m] = 1 \/ m \in Taken
       \/ \E i \in RequestIds : Waiting(i) /\ pending[i].msg = m

LinkInv ==
  /\ ServerKeeps
  /\ TypeInv
  /\ LinkTypeOK /\ MessagesOnly /\ OneSession /\ LineInv /\ InboxInv /\ OutcomesInv

-----------------------------------------------------------------------------
(* Lines, and what is counted *)

LEMMA LineFields ==
  ASSUME NEW n \in Lines
  PROVE  /\ n.t \in {"CONOK", "PROG", "MSGDONE", "LOOP"} \cup Answers
         /\ n.t = "CONOK" => n.session \in Sessions
         /\ n.t = "PROG" => n.at \in 0 .. ProgressiveMax
         /\ n.t \in Answers => n.id \in RequestIds
         /\ n.t = "MSGDONE" => n.msg \in Messages
         /\ n.t = "LOOP" => n.delayed = FALSE
  BY DEF Lines, Answers

\* The driver knows these lines.
LEMMA LinesAreKnown ==
  ASSUME NEW n \in Lines
  PROVE  n \in AllNotifications
<1>1. CASE n \in [t : Answers, id : RequestIds]
  BY <1>1, BoundsAssumption DEF Answers, RequestIds, AllNotifications
<1>. QED BY <1>1 DEF Lines, AllNotifications

LEMMA LineElements ==
  ASSUME LinkTypeOK
  PROVE  /\ Len(line) \in Nat /\ Len(inbox) \in Nat /\ Len(log) \in Nat
         /\ line # <<>> <=> Len(line) >= 1
         /\ \A i \in 1 .. Len(line) : line[i] \in Lines
         /\ \A a \in 1 .. Len(inbox) : inbox[a].id \in RequestIds /\ inbox[a].msg \in Messages
         /\ \A n \in 1 .. Len(log) : log[n] \in Messages
         /\ cursor \in Nat /\ cursor <= Len(log)
<1>1. line \in Seq(Lines) /\ inbox \in Seq([id : RequestIds, msg : Messages])
      /\ log \in Seq(Messages)
  BY DEF LinkTypeOK
<1>2. Len(line) \in Nat /\ Len(inbox) \in Nat /\ Len(log) \in Nat
  BY <1>1, LenProperties
<1>3. \A i \in 1 .. Len(line) : line[i] \in Lines
  BY <1>1, ElementOfSeq
<1>4. \A a \in 1 .. Len(inbox) : inbox[a] \in [id : RequestIds, msg : Messages]
  BY <1>1, ElementOfSeq
<1>5. \A n \in 1 .. Len(log) : log[n] \in Messages
  BY <1>1, ElementOfSeq
<1>6. line # <<>> <=> Len(line) >= 1
  BY <1>1, <1>2, EmptySeq
<1>. QED BY <1>2, <1>3, <1>4, <1>5, <1>6 DEF LinkTypeOK

\* A session has no more outcomes than there are messages, so that the counter of the
\* driver never sticks.
LEMMA LogIsShort ==
  ASSUME ServerKeeps, log \in Seq(Messages),
         \A n, k \in 1 .. Len(log) : log[n] = log[k] => n = k
  PROVE  Len(log) <= ProgressiveMax
<1>1. Len(log) \in Nat /\ log \in [1 .. Len(log) -> Messages]
  BY LenProperties
<1>2. IsFiniteSet(1 .. Len(log)) /\ Cardinality(1 .. Len(log)) = Len(log)
  BY <1>1, FS_Interval
<1>3. Cardinality(Messages) \in Nat /\ IsFiniteSet(Messages)
  BY FS_CardinalityType DEF ServerKeeps
<1>4. ~(Cardinality(Messages) < Cardinality(1 .. Len(log)))
  BY <1>1, <1>2, <1>3, FS_PigeonHole
<1>. QED BY <1>1, <1>2, <1>3, <1>4, BoundsAssumption DEF ServerKeeps

\* A step that reports no outcome, and one that reports one.
LEMMA ReportsNone ==
  ASSUME LinkTypeOK, Reported, \A e \in out' : e.ev # "message"
  PROVE  reports' = reports
<1>1. \A m \in Messages : {e \in out' : e.ev = "message" /\ e.msg = m} = {}
  OBVIOUS
<1>2. Cardinality({}) = 0
  BY FS_EmptySet
<1>. QED BY <1>1, <1>2 DEF LinkTypeOK, Reported

LEMMA ReportsOne ==
  ASSUME LinkTypeOK, Reported, NEW m \in Messages, NEW result,
         MessageEvent(m, result) \in out',
         \A e \in out' : e.ev = "message" => e = MessageEvent(m, result)
  PROVE  /\ reports'[m] = reports[m] + 1
         /\ \A j \in Messages \ {m} : reports'[j] = reports[j]
         /\ reports[m] = 0 => reports' \in [Messages -> 0 .. 1]
<1>1. {e \in out' : e.ev = "message" /\ e.msg = m} = {MessageEvent(m, result)}
  BY DEF MessageEvent
<1>2. \A j \in Messages \ {m} : {e \in out' : e.ev = "message" /\ e.msg = j} = {}
  BY DEF MessageEvent
<1>3. Cardinality({}) = 0 /\ Cardinality({MessageEvent(m, result)}) = 1
  BY FS_EmptySet, FS_Singleton
<1>4. \A j \in Messages :
        /\ reports[j] \in 0 .. 1
        /\ reports'[j] = reports[j] + Cardinality({e \in out' : e.ev = "message" /\ e.msg = j})
  BY DEF LinkTypeOK, Reported
<1>5. reports'[m] = reports[m] + 1
  BY <1>1, <1>3, <1>4
<1>6. ASSUME NEW j \in Messages \ {m} PROVE reports'[j] = reports[j]
  BY <1>2, <1>3, <1>4
<1>7. reports' = [j \in Messages |-> reports'[j]]
  BY DEF Reported
<1>8. ASSUME reports[m] = 0, NEW j \in Messages PROVE reports'[j] \in 0 .. 1
  <2>1. CASE j = m
    BY <1>5, <1>8, <2>1
  <2>2. CASE j # m
    <3>1. reports'[j] = reports[j] /\ reports[j] \in 0 .. 1
      BY <1>4, <1>6, <2>2
    <3>. QED BY <3>1
  <2>. QED BY <2>1, <2>2
<1>. QED BY <1>5, <1>6, <1>7, <1>8

-----------------------------------------------------------------------------
(* Leaving a connection *)

\* Whatever is in flight is lost, in both directions; what is pending stays.
LEMMA LeavesInv ==
  ASSUME LinkInv, TypeInv', NEW kind, Leaves(kind), session' = session,
         previousSession' = previousSession,
         session # NoSession => kind \in {"rebind", "recover"},
         session = NoSession => kind = "create",
         kind = "rebind" => cursor = progressive,
         line' = <<>>, inbox' \in {<<>>, inbox}, streaming' = FALSE, reports' = reports,
         UNCHANGED <<server, accepted, log, cursor, submitted>>
  PROVE  LinkInv'
<1>1. UNCHANGED <<reg, pending, generation, nextRequestId, progressive>>
  BY DEF Leaves, registryVars, controlVars
<1>2. Taken' = Taken /\ \A i : Waiting(i)' = Waiting(i)
  BY <1>1 DEF Taken, Waiting
<1>3. LinkTypeOK'
  <2>1. line' \in Seq(Lines) /\ inbox' \in Seq([id : RequestIds, msg : Messages])
    BY EmptySeq DEF LinkInv, LinkTypeOK
  <2>. QED BY <1>1, <2>1 DEF LinkInv, LinkTypeOK
<1>4. MessagesOnly'
  BY <1>1 DEF LinkInv, MessagesOnly, Leaves, Waiting
<1>5. OneSession'
  BY <1>1, <1>2 DEF LinkInv, OneSession, Leaves
<1>6. LineInv'
  <2>1. Len(line') = 0 /\ 1 .. 0 = {}
    OBVIOUS
  <2>2. phase' # "pumping"
    BY DEF Leaves
  <2>. QED BY <2>1, <2>2 DEF LineInv
<1>7. InboxInv'
  <2>1. Len(line') = 0 /\ 1 .. 0 = {} /\ Len(<<>>) = 0
    OBVIOUS
  <2>. QED BY <1>1, <1>2, <2>1 DEF LinkInv, InboxInv
<1>8. OutcomesInv'
  BY <1>1, <1>2 DEF LinkInv, OutcomesInv
<1>. QED BY <1>3, <1>4, <1>5, <1>6, <1>7, <1>8 DEF LinkInv, ServerKeeps

LEMMA DisconnectedInv ==
  ASSUME LinkInv, Disconnected
  PROVE  LinkInv'
<1> DEFINE kind == IF session # NoSession THEN "recover" ELSE "create"
<1>1. TypeInv'
  BY ConnectionType DEF LinkInv, Disconnected
<1>2. Leaves(kind) /\ session' = session /\ previousSession' = previousSession
  BY LostLeaves DEF Disconnected, OpenFails, StreamFails, InboundStalled, ConnectionLost,
                    sessionVars
<1>3. reports' = reports
  BY <1>2, ReportsNone DEF LinkInv, Disconnected, Leaves
<1>. QED BY <1>1, <1>2, <1>3, LeavesInv DEF Disconnected

LEMMA WaitsInv ==
  ASSUME LinkInv, Waits
  PROVE  LinkInv'
<1>1. TypeInv'
  BY ConnectionType DEF LinkInv, Waits
<1>2. /\ phase = "waiting" /\ phase' = "opening"
      /\ UNCHANGED <<intent, sessionVars, recoveryVars, registryVars, controlVars>>
      /\ UNCHANGED <<serverVars, reportVars>>
  BY DEF Waits, DelayElapses
<1>3. UNCHANGED <<session, previousSession, progressive, skipRemaining, reg, pending, generation,
                  nextRequestId, server, inbox, accepted, log, cursor, streaming, line,
                  submitted, reports>>
  BY <1>2 DEF sessionVars, recoveryVars, registryVars, controlVars, serverVars, reportVars
<1>4. Taken' = Taken /\ \A i : Waiting(i)' = Waiting(i)
  BY <1>3 DEF Taken, Waiting
<1>5. LinkTypeOK' /\ MessagesOnly' /\ OneSession'
  BY <1>2, <1>3, <1>4 DEF LinkInv, LinkTypeOK, MessagesOnly, OneSession
<1>6. LineInv'
  BY <1>2, <1>3, <1>4 DEF LinkInv, LineInv, Uncounted
<1>7. InboxInv' /\ OutcomesInv'
  BY <1>3, <1>4 DEF LinkInv, InboxInv, OutcomesInv
<1>. QED BY <1>1, <1>5, <1>6, <1>7 DEF LinkInv, ServerKeeps

-----------------------------------------------------------------------------
(* The answer to a bind *)

LEMMA AnswerFacts ==
  ASSUME LinkInv, ServerAnswers
  PROVE  /\ TypeInv' /\ phase' = "pumping" /\ inbox' = <<>> /\ streaming' = TRUE
         /\ UNCHANGED <<intent, session, previousSession, progressive, skipRemaining, reg,
                        pending, generation, nextRequestId, accepted, log, submitted, reports>>
         /\ cursor' = progressive /\ server' \in Sessions
         /\ session # NoSession => server' = session /\ intent.kind \in {"rebind", "recover"}
         /\ \/ line' = <<ConOkLine(server')>>
            \/ line' = <<ConOkLine(server'), [t |-> "PROG", at |-> intent.requested]>>
<1>1. TypeInv'
  BY ConnectionType DEF LinkInv, ServerAnswers
<1>2. /\ phase = "opening" /\ phase' = "pumping" /\ inbox' = <<>>
      /\ UNCHANGED <<intent, session, previousSession, progressive, skipRemaining, reg,
                     pending, generation, nextRequestId, submitted, reports>>
  BY DEF ServerAnswers, Established, sessionVars, recoveryVars, registryVars, controlVars,
         reportVars
<1>3. /\ session # NoSession => /\ intent.kind \in {"rebind", "recover"}
                                /\ session = server /\ server \in Sessions
      /\ session = NoSession => intent.kind = "create" /\ accepted = {} /\ log = <<>>
      /\ intent.kind = "recover" => intent.requested = progressive
      /\ intent.kind = "rebind" => cursor = progressive
  BY <1>2 DEF LinkInv, OneSession, LinkTypeOK
<1>4. BuildOpen.kind = intent.kind /\ KeepsSessions
  BY <1>3 DEF BuildOpen, LinkInv, ServerKeeps
<1>5. CASE Creates
  <2>1. session = NoSession /\ log = <<>> /\ accepted = {}
    BY <1>3, <1>4, <1>5 DEF Creates
  <2>2. progressive = 0
    BY <2>1, BoundsAssumption DEF LinkInv, LinkTypeOK, TypeInv, TypeOK, RecoveryTypeOK
  <2>. QED BY <1>1, <1>2, <1>5, <2>1, <2>2 DEF Creates
<1>6. CASE Rebinds
  BY <1>1, <1>2, <1>3, <1>4, <1>6 DEF Rebinds
<1>7. CASE Recovers
  <2>1. session # NoSession /\ intent.kind = "recover"
    BY <1>3, <1>4, <1>7 DEF Recovers
  <2>. QED BY <1>1, <1>2, <1>3, <1>7, <2>1 DEF Recovers
<1>8. CASE RefusesBind
  BY <1>4, <1>8 DEF RefusesBind
<1>. QED BY <1>5, <1>6, <1>7, <1>8 DEF ServerAnswers

LEMMA AnswersInv ==
  ASSUME LinkInv, ServerAnswers
  PROVE  LinkInv'
<1>1. /\ TypeInv' /\ phase' = "pumping" /\ inbox' = <<>> /\ streaming' = TRUE
      /\ UNCHANGED <<intent, session, previousSession, progressive, skipRemaining, reg,
                     pending, generation, nextRequestId, accepted, log, submitted, reports>>
      /\ cursor' = progressive /\ server' \in Sessions
      /\ session # NoSession => server' = session /\ intent.kind \in {"rebind", "recover"}
  BY AnswerFacts
<1>2. /\ line' \in Seq(Lines) /\ Len(line') \in {1, 2} /\ line' # <<>>
      /\ line'[1].t = "CONOK" /\ line'[1].session = server'
      /\ Len(line') = 2 => line'[2].t = "PROG" /\ line'[2].at = intent.requested
  <2>1. ConOkLine(server') \in Lines
    BY <1>1 DEF ConOkLine, Lines
  <2>2. [t |-> "PROG", at |-> intent.requested] \in Lines
    <3>1. intent.requested \in 0 .. ProgressiveMax
      BY BoundsAssumption DEF LinkInv, TypeInv, TypeOK, StreamTypeOK, RequestedInRange, Intents
    <3>. QED BY <3>1 DEF Lines
  <2>3. CASE line' = <<ConOkLine(server')>>
    BY <2>1, <2>3 DEF ConOkLine
  <2>4. CASE line' = <<ConOkLine(server'), [t |-> "PROG", at |-> intent.requested]>>
    BY <2>1, <2>2, <2>4 DEF ConOkLine
  <2>. QED BY <2>3, <2>4, AnswerFacts
<1>3. progressive \in Nat /\ Len(log) \in Nat
  BY BoundsAssumption, LineElements DEF LinkInv, TypeInv, TypeOK, RecoveryTypeOK
<1>4. Taken' = Taken /\ \A i : Waiting(i)' = Waiting(i)
  BY <1>1 DEF Taken, Waiting
<1>5. LinkTypeOK'
  <2>1. inbox' \in Seq([id : RequestIds, msg : Messages])
    BY <1>1, EmptySeq
  <2>. QED BY <1>1, <1>2, <1>3, <2>1 DEF LinkInv, LinkTypeOK
<1>6. MessagesOnly'
  BY <1>1 DEF LinkInv, MessagesOnly, Waiting
<1>7. OneSession'
  BY <1>1, <1>2, <1>4 DEF LinkInv, OneSession
<1>8. LineInv'
  <2>1. Uncounted' = {}
    BY <1>1, <1>3 DEF Uncounted
  <2>2. ASSUME NEW i \in 1 .. Len(line') PROVE i = 1 \/ (i = 2 /\ Len(line') = 2)
    <3>1. CASE Len(line') = 1
      BY <3>1
    <3>2. CASE Len(line') = 2
      BY <3>2
    <3>. QED BY <1>2, <3>1, <3>2
  <2>3. \A i \in 1 .. Len(line') :
          /\ line'[i].t = "CONOK" => i = 1
          /\ line'[i].t = "PROG" => line'[i].at = intent.requested
          /\ line'[i].t \notin Answers \cup {"LOOP", "MSGDONE"}
    BY <1>2, <2>2 DEF Answers
  <2>. QED BY <1>1, <1>2, <1>3, <2>1, <2>3 DEF LineInv, Answers
<1>9. InboxInv'
  BY <1>1 DEF InboxInv
<1>10. OutcomesInv'
  BY <1>1, <1>4 DEF LinkInv, OutcomesInv
<1>. QED BY <1>1, <1>5, <1>6, <1>7, <1>8, <1>9, <1>10 DEF LinkInv, ServerKeeps

-----------------------------------------------------------------------------
(* The server's other steps *)

LEMMA Appended ==
  ASSUME LinkTypeOK, NEW e \in Lines, line' = Append(line, e)
  PROVE  /\ line' \in Seq(Lines) /\ Len(line') = Len(line) + 1 /\ line' # <<>>
         /\ \A i \in 1 .. Len(line) : line'[i] = line[i]
         /\ line'[Len(line')] = e
         /\ \A i \in 1 .. Len(line') : i \in 1 .. Len(line) \/ i = Len(line')
         /\ line # <<>> => line'[1] = line[1]
<1>1. line \in Seq(Lines) /\ Len(line) \in Nat /\ (line # <<>> <=> Len(line) >= 1)
  BY LineElements DEF LinkTypeOK
<1>2. /\ line' \in Seq(Lines) /\ Len(line') = Len(line) + 1 /\ line' # <<>>
      /\ \A i \in 1 .. Len(line) : line'[i] = line[i]
      /\ line'[Len(line) + 1] = e
  BY <1>1, AppendProperties
<1>. QED BY <1>1, <1>2

LEMMA ServerKeepsDriver ==
  ASSUME LinkInv, UNCHANGED <<vars, reportVars>>
  PROVE  /\ TypeInv' /\ MessagesOnly'
         /\ UNCHANGED <<phase, intent, session, progressive, pending, submitted, reports>>
         /\ \A i : Waiting(i)' = Waiting(i)
<1>1. TypeInv'
  BY StutterType DEF LinkInv
<1>2. UNCHANGED <<phase, intent, session, previousSession, progressive, skipRemaining, reg,
                  pending, generation, nextRequestId, submitted, reports>>
  BY DEF vars, streamVars, sessionVars, recoveryVars, registryVars, controlVars, reportVars
<1>. QED BY <1>1, <1>2 DEF LinkInv, MessagesOnly, Waiting

LEMMA LoopsInv ==
  ASSUME LinkInv, ServerLoops
  PROVE  LinkInv'
<1> DEFINE e == [t |-> "LOOP", delayed |-> FALSE]
<1>1. /\ TypeInv' /\ MessagesOnly'
      /\ UNCHANGED <<phase, intent, session, progressive, pending, submitted, reports>>
      /\ \A i : Waiting(i)' = Waiting(i)
  BY ServerKeepsDriver DEF ServerLoops, reportVars
<1>2. /\ streaming /\ streaming' = FALSE /\ line' = Append(line, e)
      /\ UNCHANGED <<server, inbox, accepted, log, cursor>>
  BY DEF ServerLoops
<1>3. /\ line' \in Seq(Lines) /\ Len(line') = Len(line) + 1 /\ line' # <<>>
      /\ \A i \in 1 .. Len(line) : line'[i] = line[i]
      /\ line'[Len(line')] = e
      /\ \A i \in 1 .. Len(line') : i \in 1 .. Len(line) \/ i = Len(line')
      /\ line # <<>> => line'[1] = line[1]
  BY <1>2, Appended DEF LinkInv, Lines
<1>4. Taken' = Taken /\ Uncounted' = Uncounted /\ e.t = "LOOP" /\ e.t \notin Answers
  BY <1>1, <1>2 DEF Taken, Uncounted, Answers
<1>5. LinkTypeOK' /\ OneSession'
  BY <1>1, <1>2, <1>3, <1>4 DEF LinkInv, LinkTypeOK, OneSession
<1>6. \A i \in 1 .. Len(line) : line[i].t # "LOOP"
  BY <1>2 DEF LinkInv, LineInv
<1>7. Len(line) \in Nat
  BY LineElements DEF LinkInv
<1>. HIDE DEF e
<1>8. LineInv'
  BY <1>1, <1>2, <1>3, <1>4, <1>6, <1>7 DEF LinkInv, LineInv
<1>9. InboxInv'
  BY <1>1, <1>2, <1>3, <1>4 DEF LinkInv, InboxInv
<1>10. OutcomesInv'
  BY <1>1, <1>2, <1>4 DEF LinkInv, OutcomesInv
<1>. QED BY <1>1, <1>5, <1>8, <1>9, <1>10 DEF LinkInv, ServerKeeps

\* The request at the head of the inbox, and what stays behind it.
LEMMA HeadRequest ==
  ASSUME LinkInv, inbox # <<>>, inbox' = Tail(inbox)
  PROVE  /\ Head(inbox) = inbox[1] /\ inbox[1].id \in RequestIds /\ inbox[1].msg \in Messages
         /\ Len(inbox) \in Nat /\ Len(inbox) >= 1
         /\ inbox' \in Seq([id : RequestIds, msg : Messages]) /\ Len(inbox') = Len(inbox) - 1
         /\ \A a \in 1 .. Len(inbox') : inbox'[a] = inbox[a + 1] /\ a + 1 \in 1 .. Len(inbox)
         /\ Waiting(inbox[1].id) /\ pending[inbox[1].id].msg = inbox[1].msg
         /\ inbox[1].msg \notin Taken
<1>1. inbox \in Seq([id : RequestIds, msg : Messages])
  BY DEF LinkInv, LinkTypeOK
<1>2. Len(inbox) \in Nat /\ Len(inbox) >= 1
  BY <1>1, LenProperties, EmptySeq
<1>3. /\ inbox' \in Seq([id : RequestIds, msg : Messages]) /\ Len(inbox') = Len(inbox) - 1
      /\ \A a \in 1 .. Len(inbox') : inbox'[a] = inbox[a + 1]
  BY <1>1, HeadTailProperties
<1>4. 1 \in 1 .. Len(inbox) /\ Head(inbox) = inbox[1]
  BY <1>1, <1>2
<1>5. inbox[1].id \in RequestIds /\ inbox[1].msg \in Messages
  BY <1>4, LineElements DEF LinkInv
<1>6. Waiting(inbox[1].id) /\ pending[inbox[1].id].msg = inbox[1].msg /\ inbox[1].msg \notin Taken
  BY <1>4 DEF LinkInv, InboxInv
<1>. QED BY <1>2, <1>3, <1>4, <1>5, <1>6

LEMMA TakesInv ==
  ASSUME LinkInv, ServerTakes
  PROVE  LinkInv'
<1> DEFINE id == inbox[1].id
           m  == inbox[1].msg
<1>1. /\ TypeInv' /\ MessagesOnly'
      /\ UNCHANGED <<phase, intent, session, progressive, pending, submitted, reports>>
      /\ \A i : Waiting(i)' = Waiting(i)
  BY ServerKeepsDriver DEF ServerTakes, reportVars
<1>2. /\ id \in RequestIds /\ m \in Messages
      /\ Len(inbox) \in Nat /\ Len(inbox) >= 1
      /\ inbox' \in Seq([id : RequestIds, msg : Messages]) /\ Len(inbox') = Len(inbox) - 1
      /\ \A a \in 1 .. Len(inbox') : inbox'[a] = inbox[a + 1] /\ a + 1 \in 1 .. Len(inbox)
      /\ Waiting(id) /\ pending[id].msg = m /\ m \notin Taken
      /\ Head(inbox) = inbox[1]
  BY HeadRequest DEF ServerTakes
<1>. HIDE DEF id, m
<1>3. PICK e \in Lines :
        /\ line' = Append(line, e) /\ e.t \in Answers /\ e.id = id
        /\ \/ e.t = "REQOK" /\ accepted' = accepted \cup {m}
           \/ e.t = "REQERR" /\ accepted' = accepted
  <2>1. [t |-> "REQOK", id |-> id] \in Lines /\ [t |-> "REQERR", id |-> id] \in Lines
    BY <1>2 DEF Lines, Answers
  <2>. QED BY <1>2, <2>1 DEF ServerTakes, Answers, id, m
<1>4. /\ line' \in Seq(Lines) /\ Len(line') = Len(line) + 1 /\ line' # <<>>
      /\ \A i \in 1 .. Len(line) : line'[i] = line[i]
      /\ line'[Len(line')] = e
      /\ \A i \in 1 .. Len(line') : i \in 1 .. Len(line) \/ i = Len(line')
      /\ line # <<>> => line'[1] = line[1]
  BY <1>3, Appended DEF LinkInv
<1>5. streaming /\ UNCHANGED <<server, log, cursor, streaming>> /\ Uncounted' = Uncounted
  BY <1>1 DEF ServerTakes, Uncounted
<1>6. session # NoSession /\ phase = "pumping" /\ Len(line) \in Nat
  <2>1. inbox # <<>>
    BY DEF ServerTakes
  <2>. QED BY <1>5, <2>1, LineElements DEF LinkInv, OneSession
<1>7. Taken' = IF e.t = "REQOK" THEN Taken \cup {m} ELSE Taken
  BY <1>3, <1>5 DEF Taken
<1>8. \A i \in RequestIds : Waiting(i) /\ pending[i].msg = m => i = id
  BY <1>2 DEF LinkInv, MessagesOnly
<1>9. \A i \in 1 .. Len(line) : line[i].t \in Answers => line[i].id # id
  BY <1>2 DEF LinkInv, InboxInv, id
<1>10. LinkTypeOK'
  BY <1>1, <1>2, <1>3, <1>4, <1>5 DEF LinkInv, LinkTypeOK
<1>11. OneSession'
  BY <1>1, <1>4, <1>5, <1>6 DEF LinkInv, OneSession
<1>12. LineInv'
  <2>1. \A i \in 1 .. Len(line) : line[i].t \in Answers => line[i].id \in RequestIds
    BY LineElements, LineFields DEF LinkInv
  <2>2. ASSUME NEW i \in 1 .. Len(line')
        PROVE  /\ line'[i].t = "CONOK" =>
                    /\ i = 1 /\ line'[i].session = server
                    /\ session # NoSession => intent.kind \in {"rebind", "recover"}
               /\ line'[i].t = "PROG" => line'[i].at = intent.requested
               /\ line'[i].t = "LOOP" => i = Len(line') /\ ~streaming
               /\ line'[i].t \in Answers => Waiting(line'[i].id)
               /\ line'[i].t = "REQOK" => pending[line'[i].id].msg \in Taken'
               /\ line'[i].t = "REQERR" => pending[line'[i].id].msg \notin Taken'
               /\ line'[i].t = "MSGDONE" => \E n \in Uncounted : log[n] = line'[i].msg
    <3>1. CASE i = Len(line')
      BY <1>1, <1>2, <1>3, <1>4, <1>7, <3>1 DEF Answers
    <3>2. CASE i \in 1 .. Len(line)
      <4>1. line'[i] = line[i] /\ line[i].t # "LOOP"
        BY <1>4, <1>5, <3>2 DEF LinkInv, LineInv
      <4>2. line[i].t = "REQERR" => pending[line[i].id].msg # m
        BY <1>8, <1>9, <2>1, <3>2 DEF LinkInv, LineInv, Answers
      <4>. QED BY <1>1, <1>5, <1>7, <3>2, <4>1, <4>2 DEF LinkInv, LineInv, Answers
    <3>. QED BY <1>4, <3>1, <3>2
  <2>3. \A i, j \in 1 .. Len(line') :
          line'[i].t \in Answers /\ line'[j].t \in Answers /\ line'[i].id = line'[j].id => i = j
    BY <1>3, <1>4, <1>9 DEF LinkInv, LineInv
  <2>4. \A i \in 1 .. Len(line') : line'[i].t = "MSGDONE" => i \in 1 .. Len(line)
    BY <1>3, <1>4 DEF Answers
  <2>5. \A i \in 1 .. Len(line) : i \in 1 .. Len(line')
    BY <1>4, <1>6
  <2>6. ASSUME NEW i \in 1 .. Len(line'), NEW j \in 1 .. Len(line'), i < j,
               line'[i].t = "MSGDONE", line'[j].t = "MSGDONE",
               NEW n \in 1 .. Len(log), NEW k \in 1 .. Len(log),
               log[n] = line'[i].msg, log[k] = line'[j].msg
        PROVE  n < k
    <3>1. i \in 1 .. Len(line) /\ j \in 1 .. Len(line)
      BY <2>4, <2>6
    <3>2. line'[i] = line[i] /\ line'[j] = line[j]
      BY <1>4, <3>1
    <3>3. \A a, b \in 1 .. Len(line) :
            a < b /\ line[a].t = "MSGDONE" /\ line[b].t = "MSGDONE" =>
              \A x, y \in 1 .. Len(log) : log[x] = line[a].msg /\ log[y] = line[b].msg => x < y
      BY DEF LinkInv, LineInv
    <3>. QED BY <2>6, <3>1, <3>2, <3>3
  <2>7. /\ progressive <= cursor
        /\ \A n \in Uncounted : \E i \in 1 .. Len(line') :
             line'[i].t = "MSGDONE" /\ line'[i].msg = log[n]
    BY <1>4, <1>6, <2>5 DEF LinkInv, LineInv
  <2>. QED BY <1>1, <1>5, <2>2, <2>3, <2>6, <2>7 DEF LineInv
<1>13. InboxInv'
  <2>1. ASSUME NEW a \in 1 .. Len(inbox')
        PROVE  /\ Waiting(inbox'[a].id) /\ pending[inbox'[a].id].msg = inbox'[a].msg
               /\ inbox'[a].msg \notin Taken'
               /\ \A i \in 1 .. Len(line') : line'[i].t \in Answers => line'[i].id # inbox'[a].id
    <3>1. /\ inbox'[a] = inbox[a + 1] /\ a + 1 \in 1 .. Len(inbox) /\ 1 \in 1 .. Len(inbox)
          /\ a + 1 # 1
      BY <1>2
    <3>2. inbox[a + 1].id # id
      BY <3>1 DEF LinkInv, InboxInv, id
    <3>3. inbox[a + 1].id \in RequestIds
      BY <3>1, LineElements DEF LinkInv
    <3>4. /\ Waiting(inbox[a + 1].id) /\ pending[inbox[a + 1].id].msg = inbox[a + 1].msg
          /\ inbox[a + 1].msg \notin Taken
          /\ \A i \in 1 .. Len(line) : line[i].t \in Answers => line[i].id # inbox[a + 1].id
      BY <3>1 DEF LinkInv, InboxInv
    <3>5. inbox[a + 1].msg # m
      BY <1>8, <3>2, <3>3, <3>4
    <3>. QED BY <1>1, <1>3, <1>4, <1>7, <3>1, <3>2, <3>4, <3>5
  <2>2. \A a, b \in 1 .. Len(inbox') : inbox'[a].id = inbox'[b].id => a = b
    BY <1>2 DEF LinkInv, InboxInv
  <2>. QED BY <1>1, <2>1, <2>2 DEF InboxInv
<1>14. OutcomesInv'
  <2>1. m \in submitted /\ reports[m] = 0
    BY <1>2 DEF LinkInv, MessagesOnly, OutcomesInv
  <2>2. \A n \in 1 .. Len(log) : log[n] # m
    BY <1>2 DEF Taken
  <2>. QED BY <1>1, <1>3, <1>5, <1>7, <2>1, <2>2 DEF LinkInv, OutcomesInv
<1>. QED BY <1>1, <1>10, <1>11, <1>12, <1>13, <1>14 DEF LinkInv, ServerKeeps

\* A message the server took gets its notification.
LEMMA EvaluatesInv ==
  ASSUME LinkInv, ServerEvaluates
  PROVE  LinkInv'
<1>1. /\ TypeInv' /\ MessagesOnly'
      /\ UNCHANGED <<phase, intent, session, progressive, pending, submitted, reports>>
      /\ \A i : Waiting(i)' = Waiting(i)
  BY ServerKeepsDriver DEF ServerEvaluates, reportVars
<1>2. PICK m \in accepted : accepted' = accepted \ {m} /\ log' = Append(log, m)
  BY DEF ServerEvaluates
<1>3. UNCHANGED <<server, inbox, cursor, streaming, line>> /\ Uncounted' = Uncounted
  BY <1>1 DEF ServerEvaluates, Uncounted
<1>4. /\ m \in Messages /\ Len(log) \in Nat /\ cursor \in Nat /\ cursor <= Len(log)
      /\ progressive \in Nat /\ progressive <= Len(log)
  BY LineElements, BoundsAssumption DEF LinkInv, LinkTypeOK, TypeInv, TypeOK, RecoveryTypeOK
<1>5. /\ log' \in Seq(Messages) /\ Len(log') = Len(log) + 1
      /\ \A n \in 1 .. Len(log) : log'[n] = log[n]
      /\ log'[Len(log) + 1] = m
  BY <1>2, <1>4, AppendProperties DEF LinkInv, LinkTypeOK
<1>6. \A n \in 1 .. Len(log') : n \in 1 .. Len(log) \/ n = Len(log) + 1
  BY <1>4, <1>5
<1>7. \A n \in 1 .. Len(log) : n \in 1 .. Len(log') /\ log[n] # m /\ n # Len(log) + 1
  BY <1>2, <1>4, <1>5 DEF LinkInv, OutcomesInv
<1>8. Taken' = Taken
  <2>1. \A x : x \in Taken' => x \in Taken
    BY <1>2, <1>5, <1>6 DEF Taken
  <2>2. ASSUME NEW x \in Taken PROVE x \in Taken'
    <3>1. CASE x = m
      BY <1>4, <1>5, <3>1 DEF Taken
    <3>2. CASE x \in accepted \ {m}
      BY <1>2, <3>2 DEF Taken
    <3>3. CASE \E n \in 1 .. Len(log) : x = log[n]
      BY <1>5, <1>7, <3>3 DEF Taken
    <3>. QED BY <3>1, <3>2, <3>3 DEF Taken
  <2>. QED BY <2>1, <2>2
<1>9. session # NoSession
  BY <1>2 DEF LinkInv, OneSession
<1>10. LinkTypeOK'
  BY <1>1, <1>2, <1>3, <1>4, <1>5 DEF LinkInv, LinkTypeOK
<1>11. OneSession'
  BY <1>1, <1>3, <1>9 DEF LinkInv, OneSession
<1>12. LineInv'
  <2>1. \A n \in Uncounted : n \in 1 .. Len(log) /\ log'[n] = log[n]
    BY <1>4, <1>5 DEF Uncounted
  <2>2. \A i \in 1 .. Len(line) : line[i].t = "MSGDONE" => \E n \in Uncounted : log[n] = line[i].msg
    BY DEF LinkInv, LineInv
  <2>3. \A i \in 1 .. Len(line) : line[i].t = "MSGDONE" => line[i].msg # m
    BY <1>7, <2>1, <2>2
  <2>4. \A i \in 1 .. Len(line) : line[i].t = "MSGDONE" =>
          \A n \in 1 .. Len(log') : log'[n] = line[i].msg => n \in 1 .. Len(log) /\ log'[n] = log[n]
    BY <1>5, <1>6, <2>3
  <2>5. \A i, j \in 1 .. Len(line) : i < j /\ line[i].t = "MSGDONE" /\ line[j].t = "MSGDONE" =>
          \A n, k \in 1 .. Len(log') : log'[n] = line[i].msg /\ log'[k] = line[j].msg => n < k
    BY <2>4 DEF LinkInv, LineInv
  <2>6. phase = "pumping" =>
          /\ progressive <= cursor
          /\ \A n \in Uncounted : \E i \in 1 .. Len(line) :
               line[i].t = "MSGDONE" /\ line[i].msg = log'[n]
    BY <2>1 DEF LinkInv, LineInv
  <2>7. \A i \in 1 .. Len(line) : line[i].t = "MSGDONE" => \E n \in Uncounted : log'[n] = line[i].msg
    BY <2>1, <2>2
  <2>. QED BY <1>1, <1>3, <1>8, <2>5, <2>6, <2>7 DEF LinkInv, LineInv
<1>13. InboxInv'
  BY <1>1, <1>3, <1>8 DEF LinkInv, InboxInv
<1>14. OutcomesInv'
  <2>1. \A n \in 1 .. Len(log') : log'[n] \notin accepted'
    BY <1>2, <1>5, <1>6 DEF LinkInv, OutcomesInv
  <2>2. \A n, k \in 1 .. Len(log') : log'[n] = log'[k] => n = k
    BY <1>5, <1>6, <1>7 DEF LinkInv, OutcomesInv
  <2>3. reports[m] = 0 /\ ~(Len(log) + 1 <= progressive)
    BY <1>2, <1>4 DEF LinkInv, OutcomesInv
  <2>4. \A n \in 1 .. Len(log') : reports[log'[n]] = IF n <= progressive THEN 1 ELSE 0
    BY <1>5, <1>6, <2>3 DEF LinkInv, OutcomesInv
  <2>. QED BY <1>1, <1>2, <1>8, <2>1, <2>2, <2>4 DEF LinkInv, OutcomesInv
<1>. QED BY <1>1, <1>10, <1>11, <1>12, <1>13, <1>14 DEF LinkInv, ServerKeeps

LEMMA SendsInv ==
  ASSUME LinkInv, ServerSends
  PROVE  LinkInv'
<1> DEFINE next == cursor + 1
           e == [t |-> "MSGDONE", msg |-> log[next]]
<1>1. /\ TypeInv' /\ MessagesOnly'
      /\ UNCHANGED <<phase, intent, session, progressive, pending, submitted, reports>>
      /\ \A i : Waiting(i)' = Waiting(i)
  BY ServerKeepsDriver DEF ServerSends, reportVars
<1>2. /\ streaming /\ cursor < Len(log) /\ cursor' = next /\ line' = Append(line, e)
      /\ UNCHANGED <<server, inbox, accepted, log, streaming>>
  BY DEF ServerSends
<1>3. /\ Len(log) \in Nat /\ cursor \in Nat /\ Len(line) \in Nat
      /\ progressive \in Nat /\ progressive <= Len(log)
  BY LineElements, BoundsAssumption DEF LinkInv, LinkTypeOK, TypeInv, TypeOK, RecoveryTypeOK
<1>4. next \in 1 .. Len(log) /\ log[next] \in Messages
  BY <1>2, <1>3, LineElements DEF LinkInv
<1>5. e \in Lines
  BY <1>4 DEF Lines
<1>6. /\ line' \in Seq(Lines) /\ Len(line') = Len(line) + 1 /\ line' # <<>>
      /\ \A i \in 1 .. Len(line) : line'[i] = line[i]
      /\ line'[Len(line')] = e
      /\ \A i \in 1 .. Len(line') : i \in 1 .. Len(line) \/ i = Len(line')
      /\ line # <<>> => line'[1] = line[1]
  BY <1>2, <1>5, Appended DEF LinkInv
<1>7. phase = "pumping" /\ progressive <= cursor
  BY <1>2 DEF LinkInv, OneSession, LineInv
<1>8. Taken' = Taken /\ e.t = "MSGDONE" /\ e.msg = log[next]
  BY <1>1, <1>2 DEF Taken
<1>9. /\ Uncounted' = Uncounted \cup {next} /\ next \notin Uncounted
      /\ \A n \in Uncounted : n < next /\ n \in 1 .. Len(log)
  BY <1>1, <1>2, <1>3, <1>7 DEF Uncounted
<1>. HIDE DEF e, next
<1>10. LinkTypeOK'
  <2>1. cursor' \in 0 .. Len(log)
    BY <1>2, <1>4
  <2>. QED BY <1>1, <1>2, <1>6, <2>1 DEF LinkInv, LinkTypeOK
<1>11. OneSession'
  <2>1. session # NoSession
    BY <1>3, <1>4 DEF LinkInv, OneSession
  <2>. QED BY <1>1, <1>2, <1>6, <1>7, <2>1 DEF LinkInv, OneSession
<1>12. LineInv'
  <2>1. \A i \in 1 .. Len(line) : line[i].t # "LOOP"
    BY <1>2 DEF LinkInv, LineInv
  <2>2. ASSUME NEW i \in 1 .. Len(line), line[i].t = "MSGDONE",
               NEW n \in 1 .. Len(log), log[n] = line[i].msg
        PROVE  n < next
    <3>1. PICK k \in Uncounted : log[k] = line[i].msg
      BY <2>2 DEF LinkInv, LineInv
    <3>2. n = k
      BY <1>9, <2>2, <3>1 DEF LinkInv, OutcomesInv
    <3>. QED BY <1>9, <3>2
  <2>3. ASSUME NEW i \in 1 .. Len(line'), NEW j \in 1 .. Len(line'), i < j,
               line'[i].t = "MSGDONE", line'[j].t = "MSGDONE",
               NEW n \in 1 .. Len(log), NEW k \in 1 .. Len(log),
               log[n] = line'[i].msg, log[k] = line'[j].msg
        PROVE  n < k
    <3>1. i \in 1 .. Len(line)
      BY <1>3, <1>6, <2>3
    <3>2. CASE j \in 1 .. Len(line)
      BY <1>6, <2>3, <3>1, <3>2 DEF LinkInv, LineInv
    <3>3. CASE j = Len(line')
      <4>1. k = next
        BY <1>4, <1>6, <1>8, <2>3, <3>3 DEF LinkInv, OutcomesInv
      <4>2. line[i].t = "MSGDONE" /\ log[n] = line[i].msg
        BY <1>6, <2>3, <3>1
      <4>. QED BY <2>2, <3>1, <4>1, <4>2
    <3>. QED BY <1>6, <3>2, <3>3
  <2>4. \A n \in Uncounted' : \E i \in 1 .. Len(line') :
          line'[i].t = "MSGDONE" /\ line'[i].msg = log[n]
    <3> SUFFICES ASSUME NEW n \in Uncounted'
                 PROVE  \E i \in 1 .. Len(line') : line'[i].t = "MSGDONE" /\ line'[i].msg = log[n]
      OBVIOUS
    <3>1. CASE n = next
      BY <1>3, <1>6, <1>8, <3>1
    <3>2. CASE n \in Uncounted
      <4>1. PICK i \in 1 .. Len(line) : line[i].t = "MSGDONE" /\ line[i].msg = log[n]
        BY <1>7, <3>2 DEF LinkInv, LineInv
      <4>. QED BY <1>3, <1>6, <4>1
    <3>. QED BY <1>9, <3>1, <3>2
  <2>5. progressive <= cursor'
    BY <1>2, <1>3, <1>7 DEF next
  <2>6. ASSUME NEW i \in 1 .. Len(line')
        PROVE  /\ line'[i].t = "CONOK" =>
                    /\ i = 1 /\ line'[i].session = server
                    /\ session # NoSession => intent.kind \in {"rebind", "recover"}
               /\ line'[i].t = "PROG" => line'[i].at = intent.requested
               /\ line'[i].t = "LOOP" => i = Len(line') /\ ~streaming
               /\ line'[i].t \in Answers => Waiting(line'[i].id)
               /\ line'[i].t = "REQOK" => pending[line'[i].id].msg \in Taken
               /\ line'[i].t = "REQERR" => pending[line'[i].id].msg \notin Taken
               /\ line'[i].t = "MSGDONE" => \E n \in Uncounted' : log[n] = line'[i].msg
    <3>1. CASE i = Len(line')
      BY <1>6, <1>8, <1>9, <3>1 DEF Answers
    <3>2. CASE i \in 1 .. Len(line)
      BY <1>6, <1>9, <2>1, <3>2 DEF LinkInv, LineInv
    <3>. QED BY <1>6, <3>1, <3>2
  <2>7. \A i, j \in 1 .. Len(line') :
          line'[i].t \in Answers /\ line'[j].t \in Answers /\ line'[i].id = line'[j].id => i = j
    BY <1>6, <1>8 DEF LinkInv, LineInv, Answers
  <2>. QED BY <1>1, <1>2, <1>8, <2>3, <2>4, <2>5, <2>6, <2>7 DEF LineInv
<1>13. InboxInv'
  BY <1>1, <1>2, <1>6, <1>8 DEF LinkInv, InboxInv, Answers
<1>14. OutcomesInv'
  BY <1>1, <1>2, <1>8 DEF LinkInv, OutcomesInv
<1>. QED BY <1>1, <1>10, <1>11, <1>12, <1>13, <1>14 DEF LinkInv, ServerKeeps

-----------------------------------------------------------------------------
(* Handing a message over *)

\* What becomes of it at once: it is on its way, or the caller is told that it is not.
LEMMA SubmitFacts ==
  ASSUME LinkInv, NEW m \in Messages, Submits(m)
  PROVE  /\ TypeInv'
         /\ UNCHANGED <<phase, intent, session, previousSession, progressive, skipRemaining,
                        reg, generation, server, accepted, log, cursor, streaming, line>>
         /\ nextRequestId' >= nextRequestId
         /\ submitted' = submitted \cup {m} /\ reports[m] = 0 /\ m \notin submitted
         /\ m \notin Taken
         /\ \/ /\ session # NoSession
               /\ nextRequestId \in RequestIds /\ ~Waiting(nextRequestId)
               /\ pending' = [pending EXCEPT ![nextRequestId] =
                                [kind |-> "message", msg |-> m, gen |-> generation]]
               /\ nextRequestId' = nextRequestId + 1
               /\ inbox' = Append(inbox, [id |-> nextRequestId, msg |-> m])
               /\ reports' = reports
            \/ /\ UNCHANGED <<pending, inbox>>
               /\ reports' \in [Messages -> 0 .. 1] /\ reports'[m] = 1
               /\ \A j \in Messages \ {m} : reports'[j] = reports[j]
<1> DEFINE p == [kind |-> "message", msg |-> m, gen |-> generation]
<1>1. OnSendMessage(m) /\ m \notin submitted
  BY DEF Submits
<1>2. TypeInv'
  BY <1>1, OnSendMessageType DEF LinkInv
<1>3. UNCHANGED <<phase, intent, session, previousSession, progressive, skipRemaining, reg,
                  generation, server, accepted, log, cursor, streaming, line>>
  BY <1>1 DEF Submits, OnSendMessage, streamVars, sessionVars, recoveryVars, registryVars
<1>4. /\ reports[m] = 0 /\ m \notin Taken
  BY <1>1 DEF LinkInv, OutcomesInv
<1>5. RequestTypeOK /\ nextRequestId \in 1 .. RequestIdMax
  BY DEF LinkInv, TypeInv, TypeOK, RequestTypeOK
<1>6. CASE Sent(p) /\ session # NoSession
  <2>1. nextRequestId \in RequestIds
    BY <1>5, <1>6, BoundsAssumption DEF Sent, HasRequestId, RequestIds
  <2>2. ~Waiting(nextRequestId)
    BY <1>5, <2>1 DEF LinkInv, MessagesOnly
  <2>3. pending' = [pending EXCEPT ![nextRequestId] = p] /\ nextRequestId' = nextRequestId + 1
        /\ out' = {}
    BY <1>6 DEF Sent
  <2>4. pending'[nextRequestId] = p /\ p.kind = "message"
    BY <1>5, <2>1, <2>3 DEF RequestTypeOK
  <2>5. pending' # pending
    BY <2>2, <2>4 DEF Waiting, NoRequest
  <2>6. reports' = reports
    BY <2>3, ReportsNone DEF LinkInv, Submits
  <2>. QED BY <1>1, <1>2, <1>3, <1>4, <1>5, <1>6, <2>1, <2>2, <2>3, <2>5, <2>6 DEF Submits
<1>7. CASE /\ pending' = pending /\ nextRequestId' \in {nextRequestId, nextRequestId + 1}
           /\ out' \in {{MessageEvent(m, "notSent")},
                        {Response("message", NoKey, "notSent"), MessageEvent(m, "notSent")}}
  <2>1. /\ MessageEvent(m, "notSent") \in out'
        /\ \A e \in out' : e.ev = "message" => e = MessageEvent(m, "notSent")
    BY <1>7 DEF MessageEvent, Response
  <2>2. /\ reports'[m] = reports[m] + 1
        /\ \A j \in Messages \ {m} : reports'[j] = reports[j]
        /\ reports[m] = 0 => reports' \in [Messages -> 0 .. 1]
    BY <2>1, ReportsOne DEF LinkInv, Submits
  <2>. QED BY <1>1, <1>2, <1>3, <1>4, <1>5, <1>7, <2>2 DEF Submits
<1>. QED BY <1>1, <1>6, <1>7 DEF OnSendMessage

LEMMA SubmitsInv ==
  ASSUME LinkInv, NEW m \in Messages, Submits(m)
  PROVE  LinkInv'
<1> DEFINE new == [id |-> nextRequestId, msg |-> m]
           p   == [kind |-> "message", msg |-> m, gen |-> generation]
<1>1. /\ TypeInv'
      /\ UNCHANGED <<phase, intent, session, previousSession, progressive, skipRemaining,
                     reg, generation, server, accepted, log, cursor, streaming, line>>
      /\ nextRequestId' >= nextRequestId
      /\ submitted' = submitted \cup {m} /\ reports[m] = 0 /\ m \notin submitted
      /\ m \notin Taken
  BY SubmitFacts
<1>2. Taken' = Taken /\ Uncounted' = Uncounted
  BY <1>1 DEF Taken, Uncounted
<1>3. nextRequestId \in Nat /\ nextRequestId' \in Nat
  BY <1>1, BoundsAssumption DEF LinkInv, TypeInv, TypeOK, RequestTypeOK
<1>4. \A i \in RequestIds : Waiting(i) => pending[i].msg # m
  BY <1>1 DEF LinkInv, MessagesOnly
<1>5. CASE /\ session # NoSession
           /\ nextRequestId \in RequestIds /\ ~Waiting(nextRequestId)
           /\ pending' = [pending EXCEPT ![nextRequestId] = p]
           /\ nextRequestId' = nextRequestId + 1
           /\ inbox' = Append(inbox, new)
           /\ reports' = reports
  <2>1. /\ pending'[nextRequestId] = p
        /\ \A i \in RequestIds \ {nextRequestId} : pending'[i] = pending[i]
    BY <1>5 DEF LinkInv, TypeInv, TypeOK, RequestTypeOK
  <2>2. p # NoRequest /\ p.kind = "message" /\ p.msg = m /\ p.gen = generation
    BY DEF NoRequest
  <2>. HIDE DEF p
  <2>3. /\ pending'[nextRequestId] # NoRequest
        /\ \A i \in RequestIds : Waiting(i) =>
             i # nextRequestId /\ pending'[i] = pending[i] /\ pending'[i] # NoRequest
        /\ \A i \in RequestIds : pending'[i] # NoRequest => i = nextRequestId \/ Waiting(i)
    BY <1>5, <2>1, <2>2 DEF Waiting
  <2>4. new.id = nextRequestId /\ new.msg = m /\ new \in [id : RequestIds, msg : Messages]
    BY <1>5
  <2>. HIDE DEF new
  <2>5. /\ inbox' \in Seq([id : RequestIds, msg : Messages]) /\ Len(inbox') = Len(inbox) + 1
        /\ \A a \in 1 .. Len(inbox) : inbox'[a] = inbox[a]
        /\ inbox'[Len(inbox) + 1] = new
    BY <1>5, <2>4, AppendProperties DEF LinkInv, LinkTypeOK
  <2>6. Len(inbox) \in Nat /\ \A a \in 1 .. Len(inbox) : inbox[a].id \in RequestIds
    BY LineElements DEF LinkInv
  <2>7. \A a \in 1 .. Len(inbox') : a \in 1 .. Len(inbox) \/ a = Len(inbox) + 1
    BY <2>5, <2>6
  <2>8. LinkTypeOK'
    BY <1>1, <1>5, <2>5 DEF LinkInv, LinkTypeOK
  <2>9. MessagesOnly'
    <3>1. ASSUME NEW i \in RequestIds, pending'[i] # NoRequest
          PROVE  /\ pending'[i].kind = "message" /\ pending'[i].gen = generation
                 /\ i < nextRequestId' /\ pending'[i].msg \in submitted'
      <4>1. CASE i = nextRequestId
        BY <1>1, <1>3, <1>5, <2>1, <2>2, <4>1
      <4>2. CASE i # nextRequestId
        <5>1. pending'[i] = pending[i] /\ Waiting(i)
          BY <2>1, <2>3, <3>1, <4>2
        <5>2. /\ pending[i].kind = "message" /\ pending[i].gen = generation
              /\ i < nextRequestId /\ pending[i].msg \in submitted
          BY <5>1 DEF LinkInv, MessagesOnly
        <5>. QED BY <1>1, <1>3, <1>5, <5>1, <5>2 DEF RequestIds
      <4>. QED BY <4>1, <4>2
    <3>2. ASSUME NEW i \in RequestIds, NEW j \in RequestIds, pending'[i] # NoRequest,
                 pending'[j] # NoRequest, pending'[i].msg = pending'[j].msg
          PROVE  i = j
      BY <1>4, <2>1, <2>2, <2>3, <3>2 DEF LinkInv, MessagesOnly
    <3>. QED BY <1>1, <3>1, <3>2 DEF LinkInv, MessagesOnly, Waiting
  <2>10. OneSession'
    BY <1>1, <1>5 DEF LinkInv, OneSession
  <2>11. \A i \in 1 .. Len(line) : line[i].t \in Answers =>
           /\ line[i].id \in RequestIds /\ Waiting(line[i].id)
           /\ line[i].id # nextRequestId
           /\ pending'[line[i].id] = pending[line[i].id] /\ pending'[line[i].id] # NoRequest
    BY <2>3, LineElements, LineFields DEF LinkInv, LineInv
  <2>12. LineInv'
    BY <1>1, <1>2, <2>11 DEF LinkInv, LineInv, Waiting, Answers
  <2>13. InboxInv'
    <3>1. ASSUME NEW a \in 1 .. Len(inbox')
          PROVE  /\ pending'[inbox'[a].id] # NoRequest
                 /\ pending'[inbox'[a].id].msg = inbox'[a].msg
                 /\ inbox'[a].msg \notin Taken
                 /\ \A i \in 1 .. Len(line) : line[i].t \in Answers => line[i].id # inbox'[a].id
      <4>1. CASE a = Len(inbox) + 1
        BY <1>1, <2>1, <2>2, <2>3, <2>4, <2>5, <2>11, <4>1
      <4>2. CASE a \in 1 .. Len(inbox)
        BY <2>3, <2>5, <2>6, <4>2 DEF LinkInv, InboxInv
      <4>. QED BY <2>7, <4>1, <4>2
    <3>2. \A a \in 1 .. Len(inbox) : inbox[a].id # nextRequestId
      BY <2>3, <2>6 DEF LinkInv, InboxInv
    <3>3. \A a, b \in 1 .. Len(inbox') : inbox'[a].id = inbox'[b].id => a = b
      BY <2>4, <2>5, <2>7, <3>2 DEF LinkInv, InboxInv
    <3>. QED BY <1>1, <1>2, <3>1, <3>3 DEF InboxInv, Waiting
  <2>14. OutcomesInv'
    <3>1. \A j \in submitted' : \/ reports[j] = 1 \/ j \in Taken
                                \/ \E i \in RequestIds : pending'[i] # NoRequest /\ pending'[i].msg = j
      BY <1>1, <1>5, <2>1, <2>2, <2>3 DEF LinkInv, OutcomesInv
    <3>2. \A i \in RequestIds : pending'[i] # NoRequest /\ pending'[i].msg \notin Taken =>
            reports[pending'[i].msg] = 0
      BY <1>1, <2>1, <2>2, <2>3 DEF LinkInv, OutcomesInv
    <3>. QED BY <1>1, <1>2, <1>5, <3>1, <3>2 DEF LinkInv, OutcomesInv, Waiting
  <2>. QED BY <1>1, <2>8, <2>9, <2>10, <2>12, <2>13, <2>14 DEF LinkInv, ServerKeeps
<1>6. CASE /\ UNCHANGED <<pending, inbox>>
           /\ reports' \in [Messages -> 0 .. 1] /\ reports'[m] = 1
           /\ \A j \in Messages \ {m} : reports'[j] = reports[j]
  <2>1. \A i : Waiting(i)' = Waiting(i)
    BY <1>6 DEF Waiting
  <2>2. LinkTypeOK' /\ OneSession' /\ LineInv' /\ InboxInv'
    BY <1>1, <1>2, <1>6, <2>1 DEF LinkInv, LinkTypeOK, OneSession, LineInv, InboxInv
  <2>3. MessagesOnly'
    BY <1>1, <1>3, <1>6, <2>1 DEF LinkInv, MessagesOnly, RequestIds
  <2>4. OutcomesInv'
    <3>1. Taken \subseteq Messages /\ submitted \subseteq Messages
      BY LineElements DEF LinkInv, LinkTypeOK, Taken
    <3>2. \A n \in 1 .. Len(log) : log[n] \in Taken
      BY DEF Taken
    <3>3. \A j \in accepted : j \in Taken
      BY DEF Taken
    <3>4. \A i \in RequestIds : Waiting(i) => pending[i].msg \in Messages \ {m}
      BY <1>4, <3>1 DEF LinkInv, MessagesOnly
    <3>. QED BY <1>1, <1>2, <1>6, <2>1, <3>1, <3>2, <3>3, <3>4 DEF LinkInv, OutcomesInv
  <2>. QED BY <1>1, <2>2, <2>3, <2>4 DEF LinkInv, ServerKeeps
<1>. QED BY <1>5, <1>6, SubmitFacts

-----------------------------------------------------------------------------
(* Reading a line *)

\* The line at the head, and what stays behind it.
LEMMA HeadLine ==
  ASSUME LinkInv, ReadsLine
  PROVE  /\ Head(line) = line[1] /\ line[1] \in Lines /\ TypeInv'
         /\ OnLine(line[1]) /\ Reported
         /\ phase = "pumping" /\ progressive <= cursor
         /\ line[1].t # "CONOK" => session # NoSession
         /\ Len(line) \in Nat /\ Len(line) >= 1
         /\ line' \in Seq(Lines) /\ Len(line') = Len(line) - 1
         /\ \A i \in 1 .. Len(line') : line'[i] = line[i + 1] /\ i + 1 \in 1 .. Len(line)
         /\ UNCHANGED <<server, inbox, accepted, log, cursor, streaming, submitted>>
<1>1. line \in Seq(Lines) /\ line # <<>> /\ line' = Tail(line)
  BY DEF LinkInv, LinkTypeOK, ReadsLine
<1>2. Len(line) \in Nat /\ Len(line) >= 1 /\ 1 \in 1 .. Len(line)
  BY <1>1, LenProperties, EmptySeq
<1>3. /\ line' \in Seq(Lines) /\ Len(line') = Len(line) - 1
      /\ \A i \in 1 .. Len(line') : line'[i] = line[i + 1]
  BY <1>1, HeadTailProperties
<1>4. Head(line) = line[1] /\ line[1] \in Lines
  BY <1>1, <1>2, LineElements DEF LinkInv
<1>5. OnLine(line[1]) /\ phase = "pumping"
  BY <1>4 DEF ReadsLine, OnLine
<1>6. TypeInv'
  BY <1>4, <1>5, OnLineType, LinesAreKnown DEF LinkInv
<1>7. progressive <= cursor /\ (line[1].t # "CONOK" => session # NoSession)
  BY <1>1, <1>5 DEF LinkInv, OneSession, LineInv
<1>. QED BY <1>1, <1>2, <1>3, <1>4, <1>5, <1>6, <1>7 DEF ReadsLine

\* What stays behind the line at the head: no bind, nothing about the request it answers,
\* and only outcomes that come later than the one it brings.
LEMMA RestOfLine ==
  ASSUME LinkInv, ReadsLine
  PROVE  /\ \A i \in 1 .. Len(line') :
              /\ line'[i].t # "CONOK"
              /\ line'[i].t = "PROG" => line'[i].at = intent.requested
              /\ line'[i].t = "LOOP" => i = Len(line') /\ ~streaming
              /\ line'[i].t \in Answers =>
                   /\ line'[i].id \in RequestIds /\ Waiting(line'[i].id)
                   /\ line[1].t \in Answers => line'[i].id # line[1].id
              /\ line'[i].t = "REQOK" => pending[line'[i].id].msg \in Taken
              /\ line'[i].t = "REQERR" => pending[line'[i].id].msg \notin Taken
              /\ line'[i].t = "MSGDONE" => \E n \in Uncounted : log[n] = line'[i].msg
              /\ line[1].t = "MSGDONE" /\ line'[i].t = "MSGDONE" =>
                   \A n, k \in 1 .. Len(log) :
                     log[n] = line[1].msg /\ log[k] = line'[i].msg => n < k
         /\ \A i, j \in 1 .. Len(line') :
              line'[i].t \in Answers /\ line'[j].t \in Answers /\ line'[i].id = line'[j].id =>
                i = j
         /\ \A i, j \in 1 .. Len(line') :
              i < j /\ line'[i].t = "MSGDONE" /\ line'[j].t = "MSGDONE" =>
                \A n, k \in 1 .. Len(log) :
                  log[n] = line'[i].msg /\ log[k] = line'[j].msg => n < k
         /\ \A n \in Uncounted :
              \/ line[1].t = "MSGDONE" /\ line[1].msg = log[n]
              \/ \E i \in 1 .. Len(line') : line'[i].t = "MSGDONE" /\ line'[i].msg = log[n]
<1>1. /\ Len(line) \in Nat /\ Len(line) >= 1 /\ Len(line') = Len(line) - 1
      /\ \A i \in 1 .. Len(line') : line'[i] = line[i + 1] /\ i + 1 \in 1 .. Len(line)
      /\ phase = "pumping"
  BY HeadLine
<1>2. 1 \in 1 .. Len(line) /\ LineInv
  BY <1>1 DEF LinkInv
<1>3. ASSUME NEW i \in 1 .. Len(line')
      PROVE  /\ line'[i] = line[i + 1] /\ i + 1 \in 1 .. Len(line)
             /\ i + 1 # 1 /\ 1 < i + 1 /\ (i + 1 = Len(line) => i = Len(line'))
  BY <1>1
<1>4. ASSUME NEW i \in 1 .. Len(line')
      PROVE  /\ line'[i].t # "CONOK"
             /\ line'[i].t = "PROG" => line'[i].at = intent.requested
             /\ line'[i].t = "LOOP" => i = Len(line') /\ ~streaming
             /\ line'[i].t \in Answers =>
                  /\ line'[i].id \in RequestIds /\ Waiting(line'[i].id)
                  /\ line[1].t \in Answers => line'[i].id # line[1].id
             /\ line'[i].t = "REQOK" => pending[line'[i].id].msg \in Taken
             /\ line'[i].t = "REQERR" => pending[line'[i].id].msg \notin Taken
             /\ line'[i].t = "MSGDONE" => \E n \in Uncounted : log[n] = line'[i].msg
             /\ line[1].t = "MSGDONE" /\ line'[i].t = "MSGDONE" =>
                  \A n, k \in 1 .. Len(log) :
                    log[n] = line[1].msg /\ log[k] = line'[i].msg => n < k
  <2>1. line'[i].t \in Answers => line'[i].id \in RequestIds
    BY <1>3, LineElements, LineFields DEF LinkInv
  <2>. QED BY <1>2, <1>3, <2>1 DEF LineInv
<1>5. \A i, j \in 1 .. Len(line') :
        line'[i].t \in Answers /\ line'[j].t \in Answers /\ line'[i].id = line'[j].id => i = j
  <2> SUFFICES ASSUME NEW i \in 1 .. Len(line'), NEW j \in 1 .. Len(line'),
                      line'[i].t \in Answers, line'[j].t \in Answers, line'[i].id = line'[j].id
               PROVE  i = j
    OBVIOUS
  <2>1. /\ line[i + 1].t \in Answers /\ line[j + 1].t \in Answers
        /\ line[i + 1].id = line[j + 1].id
        /\ i + 1 \in 1 .. Len(line) /\ j + 1 \in 1 .. Len(line)
    BY <1>3
  <2>2. i + 1 = j + 1
    BY <1>2, <2>1 DEF LineInv
  <2>. QED BY <2>2
<1>6. \A i, j \in 1 .. Len(line') :
        i < j /\ line'[i].t = "MSGDONE" /\ line'[j].t = "MSGDONE" =>
          \A n, k \in 1 .. Len(log) :
            log[n] = line'[i].msg /\ log[k] = line'[j].msg => n < k
  <2> SUFFICES ASSUME NEW i \in 1 .. Len(line'), NEW j \in 1 .. Len(line'), i < j,
                      line'[i].t = "MSGDONE", line'[j].t = "MSGDONE"
               PROVE  \A n, k \in 1 .. Len(log) :
                        log[n] = line'[i].msg /\ log[k] = line'[j].msg => n < k
    OBVIOUS
  <2>1. /\ line[i + 1].t = "MSGDONE" /\ line[j + 1].t = "MSGDONE"
        /\ line[i + 1].msg = line'[i].msg /\ line[j + 1].msg = line'[j].msg
        /\ i + 1 \in 1 .. Len(line) /\ j + 1 \in 1 .. Len(line)
    BY <1>3
  <2>2. i + 1 < j + 1
    OBVIOUS
  <2>. QED BY <1>2, <2>1, <2>2 DEF LineInv
<1>7. ASSUME NEW n \in Uncounted
      PROVE  \/ line[1].t = "MSGDONE" /\ line[1].msg = log[n]
             \/ \E i \in 1 .. Len(line') : line'[i].t = "MSGDONE" /\ line'[i].msg = log[n]
  <2>1. PICK j \in 1 .. Len(line) : line[j].t = "MSGDONE" /\ line[j].msg = log[n]
    BY <1>1, <1>2 DEF LineInv
  <2>2. CASE j # 1
    <3>1. j - 1 \in 1 .. Len(line') /\ (j - 1) + 1 = j
      BY <1>1, <2>1, <2>2
    <3>. QED BY <1>1, <2>1, <3>1
  <2>. QED BY <2>1, <2>2
<1>. QED BY <1>4, <1>5, <1>6, <1>7

\* A line that answers no request leaves what is on its way to the server as it is.
LEMMA InboxBehindLine ==
  ASSUME LinkInv, ReadsLine, pending' = pending
  PROVE  InboxInv'
<1>1. /\ \A i \in 1 .. Len(line') : line'[i] = line[i + 1] /\ i + 1 \in 1 .. Len(line)
      /\ inbox' = inbox /\ accepted' = accepted /\ log' = log
  BY HeadLine
<1>2. Taken' = Taken
  BY <1>1 DEF Taken
<1>3. InboxInv
  BY DEF LinkInv
<1>4. ASSUME NEW a \in 1 .. Len(inbox), NEW i \in 1 .. Len(line'), line'[i].t \in Answers
      PROVE  line'[i].id # inbox[a].id
  <2>1. i + 1 \in 1 .. Len(line) /\ line[i + 1] = line'[i]
    BY <1>1
  <2>2. \A b \in 1 .. Len(line) : line[b].t \in Answers => line[b].id # inbox[a].id
    BY <1>3 DEF InboxInv
  <2>. QED BY <1>4, <2>1, <2>2
<1>. QED BY <1>1, <1>2, <1>3, <1>4 DEF InboxInv, Waiting


\* The bind found the session it asked for, or the first there is; nothing is in flight
\* that it could retire, and nothing to issue again.
LEMMA ConOkKeeps ==
  ASSUME LinkInv, NEW s \in Sessions, s = server, OnConOk(s),
         session # NoSession => intent.kind \in {"rebind", "recover"}
  PROVE  /\ session' = s /\ previousSession' = NoSession
         /\ UNCHANGED <<phase, intent, reg, pending, progressive, skipRemaining>>
         /\ nextRequestId' \in nextRequestId .. RequestIdMax
         /\ session # NoSession => generation' = generation
         /\ \A e \in out' : e.ev # "message"
<1> DEFINE gen  == IF Fresh(s) THEN generation + 1 ELSE generation
           r    == IF Fresh(s) THEN ResetRegistry ELSE reg
           ix   == IF Fresh(s) THEN [i \in SubIds |-> NoKey] ELSE bySubId
           next == IF Fresh(s) THEN 1 ELSE nextSubId
           pend == [i \in RequestIds |-> IF i \in Stale(gen) THEN NoRequest ELSE pending[i]]
           todo == Unissued(r)
<1>1. RegistryTypeOK /\ RequestTypeOK /\ RecoveryTypeOK
  BY DEF LinkInv, TypeInv, TypeOK
<1>2. session # NoSession => ~Fresh(s)
  BY DEF LinkInv, OneSession, Fresh, BindKind, Previous
<1>3. session = NoSession => /\ \A i \in RequestIds : pending[i] = NoRequest
                             /\ progressive = 0
  <2>1. session = NoSession => log = <<>> /\ \A i \in RequestIds : pending[i] = NoRequest
    BY DEF LinkInv, OneSession, Waiting
  <2>2. log = <<>> => Len(log) = 0
    OBVIOUS
  <2>3. progressive \in Nat /\ progressive <= Len(log)
    BY <1>1, BoundsAssumption DEF RecoveryTypeOK, LinkInv, LinkTypeOK
  <2>. QED BY <2>1, <2>2, <2>3
<1>4. Stale(gen) = {}
  BY <1>2, <1>3 DEF Stale, LinkInv, MessagesOnly, Waiting
<1>5. pend = pending
  BY <1>1, <1>4 DEF RequestTypeOK
<1>6. r = reg
  <2>1. ResetRegistry = reg
    <3>1. \A k \in Keys : reg[k].state = "unused"
      BY DEF LinkInv, MessagesOnly
    <3>. QED BY <1>1, <3>1 DEF ResetRegistry, RegistryTypeOK
  <2>. QED BY <2>1
<1>7. todo = {}
  BY <1>6 DEF Unissued, LinkInv, MessagesOnly
<1>8. /\ next \in 1 .. SubIdMax /\ r \in [Keys -> Entries] /\ todo \in SUBSET Keys
  BY <1>1, <1>6, BoundsAssumption DEF RegistryTypeOK, Unissued
<1>9. WithSubId(todo, next) = {} /\ WithIds(todo, next) = {}
  BY <1>7 DEF WithSubId, WithIds
<1>10. PICK failed \in SUBSET WithIds(todo, next) :
        /\ IssueSubscriptions(todo, next, failed, r, ix, pend, gen)
        /\ out' = {BindEvent(s)} \cup Retired(gen) \cup NotIssued(todo, next, failed)
                    \cup Resubscribed(todo, next, failed)
  BY DEF OnConOk, BindEvent, Retired, Resubscribed
<1>11. /\ session' = s /\ previousSession' = NoSession
       /\ UNCHANGED <<phase, intent>> /\ generation' = gen
       /\ progressive' = (IF Fresh(s) THEN 0 ELSE progressive)
       /\ skipRemaining' = (IF Fresh(s) THEN 0 ELSE skipRemaining)
  BY DEF OnConOk
<1>12. UNCHANGED <<progressive, skipRemaining>>
  BY <1>2, <1>3, <1>11 DEF LinkInv, MessagesOnly
<1>13. WithIds(todo, next) \ failed = {}
  BY <1>9
<1>14. /\ nextRequestId' \in nextRequestId .. RequestIdMax
       /\ reg' = Bindings(todo, next, {}, r)
  <2>1. /\ nextRequestId' \in nextRequestId .. RequestIdMax
        /\ reg' = Bindings(todo, next, WithIds(todo, next) \ failed, r)
    <3>. HIDE DEF gen, r, ix, next, pend, todo
    <3>. QED BY <1>1, <1>8, <1>10, Issued
  <2>. QED BY <1>13, <2>1
<1>15. reg' = reg
  BY <1>1, <1>6, <1>14 DEF Bindings, RegistryTypeOK
<1>16. pending' = pending
  <2>1. pending' = [i \in RequestIds |->
          IF \E k \in {} : i = nextRequestId + Rank(todo, k)
          THEN [kind |-> "subscribe", gen |-> gen,
                key |-> CHOOSE k \in {} : i = nextRequestId + Rank(todo, k)]
          ELSE pend[i]]
    BY <1>10, <1>13 DEF IssueSubscriptions
  <2>2. pending' = [i \in RequestIds |-> pend[i]]
    BY <2>1
  <2>. QED BY <1>1, <1>5, <2>2 DEF RequestTypeOK
<1>17. \A e \in out' : e.ev # "message"
  <2>1. Retired(gen) = {}
    BY <1>4 DEF Retired
  <2>2. NotIssued(todo, next, failed) = {} /\ Resubscribed(todo, next, failed) = {}
    BY <1>9 DEF NotIssued, Resubscribed
  <2>. QED BY <1>10, <2>1, <2>2 DEF BindEvent
<1>. QED BY <1>2, <1>11, <1>12, <1>14, <1>15, <1>16, <1>17

LEMMA ReadsConOk ==
  ASSUME LinkInv, ReadsLine, line[1].t = "CONOK"
  PROVE  LinkInv'
<1>1. /\ line[1] \in Lines /\ OnLine(line[1]) /\ Reported /\ phase = "pumping" /\ TypeInv'
      /\ Len(line) \in Nat /\ Len(line) >= 1
      /\ line' \in Seq(Lines) /\ Len(line') = Len(line) - 1
      /\ \A i \in 1 .. Len(line') : line'[i] = line[i + 1] /\ i + 1 \in 1 .. Len(line)
      /\ UNCHANGED <<server, inbox, accepted, log, cursor, streaming, submitted>>
  BY HeadLine
<1>2. /\ line[1].session \in Sessions /\ line[1].session = server
      /\ session # NoSession => intent.kind \in {"rebind", "recover"}
  <2>1. 1 \in 1 .. Len(line)
    BY <1>1
  <2>. QED BY <1>1, <2>1, LineFields DEF LinkInv, LineInv
<1>3. OnConOk(server) /\ server \in Sessions
  BY <1>1, <1>2 DEF OnLine
<1>4. /\ session' = server /\ previousSession' = NoSession
      /\ UNCHANGED <<phase, intent, reg, pending, progressive, skipRemaining>>
      /\ nextRequestId' \in nextRequestId .. RequestIdMax
      /\ session # NoSession => generation' = generation
      /\ \A e \in out' : e.ev # "message"
  BY <1>2, <1>3, ConOkKeeps
<1>5. reports' = reports
  BY <1>1, <1>4, ReportsNone DEF LinkInv
<1>6. /\ Taken' = Taken /\ Uncounted' = Uncounted /\ \A i : Waiting(i)' = Waiting(i)
      /\ session' # NoSession
  BY <1>1, <1>2, <1>4, SessionsAssumption DEF Taken, Uncounted, Waiting
<1>7. LinkTypeOK'
  BY <1>1, <1>4, <1>5 DEF LinkInv, LinkTypeOK
<1>8. MessagesOnly'
  <2>1. \A i \in RequestIds : Waiting(i) => generation' = generation /\ i < nextRequestId'
    <3>1. nextRequestId \in Nat /\ nextRequestId' >= nextRequestId /\ nextRequestId' \in Nat
      BY <1>4, BoundsAssumption DEF LinkInv, TypeInv, TypeOK, RequestTypeOK
    <3>2. \A i \in RequestIds : Waiting(i) => session # NoSession /\ i < nextRequestId
      BY DEF LinkInv, MessagesOnly, OneSession
    <3>. QED BY <1>4, <3>1, <3>2 DEF RequestIds
  <2>. QED BY <1>1, <1>4, <1>6, <2>1 DEF LinkInv, MessagesOnly
<1>9. OneSession'
  BY <1>1, <1>4, <1>6 DEF LinkInv, OneSession
<1>10. LineInv'
  <2>1. \A n \in Uncounted : \E i \in 1 .. Len(line') :
          line'[i].t = "MSGDONE" /\ line'[i].msg = log[n]
    BY RestOfLine
  <2>2. \A i \in 1 .. Len(line') : line'[i].t # "CONOK" /\ pending' = pending
    BY <1>4, RestOfLine
  <2>3. progressive <= cursor
    BY HeadLine
  <2>. QED BY <1>1, <1>4, <1>6, <2>1, <2>2, <2>3, RestOfLine DEF LineInv
<1>11. InboxInv'
  BY <1>4, InboxBehindLine
<1>12. OutcomesInv'
  BY <1>1, <1>4, <1>5, <1>6 DEF LinkInv, OutcomesInv
<1>. QED BY <1>1, <1>7, <1>8, <1>9, <1>10, <1>11, <1>12 DEF LinkInv, ServerKeeps

LEMMA ReadsProg ==
  ASSUME LinkInv, ReadsLine, line[1].t = "PROG"
  PROVE  LinkInv'
<1>1. /\ line[1] \in Lines /\ OnLine(line[1]) /\ Reported /\ phase = "pumping" /\ TypeInv'
      /\ session # NoSession /\ progressive <= cursor
      /\ Len(line) \in Nat /\ Len(line) >= 1 /\ line' \in Seq(Lines)
      /\ UNCHANGED <<server, inbox, accepted, log, cursor, streaming, submitted>>
  BY HeadLine
<1>2. line[1].at = intent.requested
  <2>1. 1 \in 1 .. Len(line)
    BY <1>1
  <2>. QED BY <2>1 DEF LinkInv, LineInv
<1>3. OnProg(intent.requested)
  BY <1>1, <1>2 DEF OnLine
<1>4. /\ UNCHANGED <<phase, intent, session, previousSession, progressive, skipRemaining, reg,
                     pending, generation, nextRequestId>>
      /\ \A e \in out' : e.ev # "message"
  <2>1. intent.requested \in Nat
    BY DEF LinkInv, TypeInv, TypeOK, StreamTypeOK, Intents
  <2>. QED BY <1>3, <2>1 DEF OnProg, streamVars, sessionVars, registryVars, controlVars
<1>5. reports' = reports
  BY <1>1, <1>4, ReportsNone DEF LinkInv
<1>6. Taken' = Taken /\ Uncounted' = Uncounted /\ \A i : Waiting(i)' = Waiting(i)
  BY <1>1, <1>4 DEF Taken, Uncounted, Waiting
<1>7. LinkTypeOK' /\ MessagesOnly' /\ OneSession'
  BY <1>1, <1>4, <1>5, <1>6 DEF LinkInv, LinkTypeOK, MessagesOnly, OneSession
<1>8. LineInv'
  BY <1>1, <1>4, <1>6, RestOfLine DEF LineInv
<1>9. InboxInv'
  BY <1>4, InboxBehindLine
<1>10. OutcomesInv'
  BY <1>1, <1>4, <1>5, <1>6 DEF LinkInv, OutcomesInv
<1>. QED BY <1>1, <1>7, <1>8, <1>9, <1>10 DEF LinkInv, ServerKeeps

\* An answer ends the request it names, which is one for a message, and changes nothing
\* else of the driver.
LEMMA AnswerEnds ==
  ASSUME LinkInv, ReadsLine, line[1].t \in Answers, NEW id, id = line[1].id,
         NEW m, m = pending[id].msg
  PROVE  /\ id \in RequestIds /\ Waiting(id) /\ m \in submitted /\ m \in Messages
         /\ line[1].t = "REQOK" => m \in Taken
         /\ line[1].t = "REQERR" => m \notin Taken
         /\ UNCHANGED <<phase, intent, session, previousSession, progressive, skipRemaining,
                        reg, generation, nextRequestId>>
         /\ \A i \in RequestIds : pending'[i] = IF i = id THEN NoRequest ELSE pending[i]
         /\ line[1].t = "REQOK" => out' = {Response("message", NoKey, "accepted")}
         /\ line[1].t = "REQERR" =>
              out' = {Response("message", NoKey, "rejected"), MessageEvent(m, "refused")}
<1>1. line[1] \in Lines /\ OnLine(line[1]) /\ 1 \in 1 .. Len(line)
  BY HeadLine
<1>2. id \in RequestIds /\ Waiting(id)
      /\ (line[1].t = "REQOK" => m \in Taken) /\ (line[1].t = "REQERR" => m \notin Taken)
  BY <1>1, LineFields DEF LinkInv, LineInv
<1>3. pending[id].kind = "message" /\ pending[id].gen = generation /\ m \in submitted
      /\ m \in Messages
  BY <1>2 DEF LinkInv, MessagesOnly, LinkTypeOK
<1>4. Answered(id) = pending[id] /\ KeyOf(pending[id]) = NoKey
  BY <1>2, <1>3 DEF Answered, Waiting, KeyOf
<1>5. CASE line[1].t = "REQOK"
  <2>1. OnRequestOk(id)
    BY <1>1, <1>5 DEF OnLine
  <2>. QED BY <1>2, <1>3, <1>4, <1>5, <2>1
           DEF OnRequestOk, ForgetsRequest, streamVars, sessionVars, recoveryVars
<1>6. CASE line[1].t = "REQERR"
  <2>1. OnRequestError(id)
    BY <1>1, <1>6 DEF OnLine
  <2>2. out' = {Response("message", NoKey, "rejected"), MessageEvent(m, "refused")}
    BY <1>3, <1>4, <2>1 DEF OnRequestError
  <2>. QED BY <1>2, <1>3, <1>4, <1>6, <2>1, <2>2
           DEF OnRequestError, ForgetsRequest, streamVars, sessionVars, recoveryVars
<1>. QED BY <1>5, <1>6 DEF Answers

LEMMA ReadsAnswer ==
  ASSUME LinkInv, ReadsLine, line[1].t \in Answers
  PROVE  LinkInv'
<1> DEFINE id == line[1].id
           m  == pending[id].msg
<1>1. /\ Reported /\ phase = "pumping" /\ TypeInv'
      /\ session # NoSession /\ progressive <= cursor
      /\ Len(line) \in Nat /\ Len(line) >= 1 /\ line' \in Seq(Lines)
      /\ \A i \in 1 .. Len(line') : line'[i] = line[i + 1] /\ i + 1 \in 1 .. Len(line)
      /\ UNCHANGED <<server, inbox, accepted, log, cursor, streaming, submitted>>
  BY HeadLine DEF Answers
<1>2. /\ id \in RequestIds /\ Waiting(id) /\ m \in submitted /\ m \in Messages
      /\ line[1].t = "REQOK" => m \in Taken
      /\ line[1].t = "REQERR" => m \notin Taken
      /\ UNCHANGED <<phase, intent, session, previousSession, progressive, skipRemaining,
                     reg, generation, nextRequestId>>
      /\ \A i \in RequestIds : pending'[i] = IF i = id THEN NoRequest ELSE pending[i]
      /\ line[1].t = "REQOK" => out' = {Response("message", NoKey, "accepted")}
      /\ line[1].t = "REQERR" =>
           out' = {Response("message", NoKey, "rejected"), MessageEvent(m, "refused")}
  BY AnswerEnds
<1>3. Taken' = Taken /\ Uncounted' = Uncounted
  BY <1>1, <1>2 DEF Taken, Uncounted
<1>4. \A i \in RequestIds : /\ pending'[i] # NoRequest <=> Waiting(i) /\ i # id
                            /\ Waiting(i) /\ i # id => pending'[i] = pending[i]
  BY <1>2 DEF Waiting
<1>5. \A i \in RequestIds : Waiting(i) /\ i # id => pending[i].msg # m
  BY <1>2 DEF LinkInv, MessagesOnly
<1>6. \A a \in 1 .. Len(inbox) : inbox[a].id \in RequestIds /\ inbox[a].id # id
  <2>1. 1 \in 1 .. Len(line)
    BY <1>1
  <2>. QED BY <2>1, LineElements DEF LinkInv, InboxInv
\* What the caller is told of it.
<1>7. /\ reports' \in [Messages -> 0 .. 1]
      /\ \A j \in Messages \ {m} : reports'[j] = reports[j]
      /\ line[1].t = "REQOK" => reports' = reports
      /\ line[1].t = "REQERR" => reports'[m] = 1
  <2>1. CASE line[1].t = "REQOK"
    <3>1. \A e \in out' : e.ev # "message"
      BY <1>2, <2>1 DEF Response
    <3>2. reports' = reports
      BY <1>1, <3>1, ReportsNone DEF LinkInv
    <3>. QED BY <2>1, <3>2 DEF LinkInv, LinkTypeOK
  <2>2. CASE line[1].t = "REQERR"
    <3>1. reports[m] = 0
      BY <1>2, <2>2 DEF LinkInv, OutcomesInv
    <3>2. /\ MessageEvent(m, "refused") \in out'
          /\ \A e \in out' : e.ev = "message" => e = MessageEvent(m, "refused")
      BY <1>2, <2>2 DEF Response, MessageEvent
    <3>3. /\ reports'[m] = reports[m] + 1
          /\ \A j \in Messages \ {m} : reports'[j] = reports[j]
          /\ reports[m] = 0 => reports' \in [Messages -> 0 .. 1]
      BY <1>1, <1>2, <3>2, ReportsOne DEF LinkInv
    <3>. QED BY <2>2, <3>1, <3>3
  <2>. QED BY <2>1, <2>2 DEF Answers
<1>8. \A n \in 1 .. Len(log) : log[n] \in Taken /\ log[n] \in Messages
  BY LineElements DEF LinkInv, Taken
<1>9. \A j \in accepted : j \in Taken /\ j \in Messages
  BY DEF LinkInv, LinkTypeOK, Taken
<1>. HIDE DEF id, m
<1>10. LinkTypeOK'
  BY <1>1, <1>2, <1>7 DEF LinkInv, LinkTypeOK
<1>11. MessagesOnly'
  BY <1>1, <1>2, <1>4 DEF LinkInv, MessagesOnly, Waiting
<1>12. OneSession'
  BY <1>1, <1>2 DEF LinkInv, OneSession
<1>13. LineInv'
  <2>1. \A i \in 1 .. Len(line') : line'[i].t \in Answers =>
          /\ line'[i].id \in RequestIds /\ Waiting(line'[i].id) /\ line'[i].id # id
          /\ pending'[line'[i].id] # NoRequest /\ pending'[line'[i].id] = pending[line'[i].id]
    BY <1>4, RestOfLine DEF id
  <2>2. \A i \in 1 .. Len(line') : line'[i].t \in {"REQOK", "REQERR"} => line'[i].t \in Answers
    BY DEF Answers
  <2>3. \A n \in Uncounted : \E i \in 1 .. Len(line') :
          line'[i].t = "MSGDONE" /\ line'[i].msg = log[n]
    BY RestOfLine DEF Answers
  <2>. QED BY <1>1, <1>2, <1>3, <2>1, <2>2, <2>3, RestOfLine DEF LineInv, Waiting
<1>14. InboxInv'
  <2>1. \A a \in 1 .. Len(inbox) :
          /\ pending'[inbox[a].id] # NoRequest /\ pending'[inbox[a].id].msg = inbox[a].msg
          /\ inbox[a].msg \notin Taken
          /\ \A i \in 1 .. Len(line) : line[i].t \in Answers => line[i].id # inbox[a].id
    BY <1>4, <1>6 DEF LinkInv, InboxInv
  <2>2. \A a \in 1 .. Len(inbox) :
          \A i \in 1 .. Len(line') : line'[i].t \in Answers => line'[i].id # inbox[a].id
    BY <1>1, <2>1
  <2>3. \A a, b \in 1 .. Len(inbox) : inbox[a].id = inbox[b].id => a = b
    BY DEF LinkInv, InboxInv
  <2>. QED BY <1>1, <1>3, <2>1, <2>2, <2>3 DEF InboxInv, Waiting
<1>15. OutcomesInv'
  <2>1. \A j \in Messages : j \in Taken => reports'[j] = reports[j]
    BY <1>2, <1>7, <1>8, <1>9 DEF Answers
  <2>2. \A n \in 1 .. Len(log) : reports'[log[n]] = IF n <= progressive THEN 1 ELSE 0
    BY <1>8, <2>1 DEF LinkInv, OutcomesInv
  <2>3. \A j \in accepted : reports'[j] = 0
    BY <1>9, <2>1 DEF LinkInv, OutcomesInv
  <2>4. \A j \in Messages \ submitted : reports'[j] = 0
    BY <1>2, <1>7 DEF LinkInv, OutcomesInv
  <2>5. \A i \in RequestIds : pending'[i] # NoRequest /\ pending'[i].msg \notin Taken =>
          reports'[pending'[i].msg] = 0
    <3>1. \A i \in RequestIds : Waiting(i) => pending[i].msg \in Messages
      BY DEF LinkInv, MessagesOnly, LinkTypeOK
    <3>. QED BY <1>4, <1>5, <1>7, <3>1 DEF LinkInv, OutcomesInv
  <2>6. ASSUME NEW j \in submitted
        PROVE  \/ reports'[j] = 1 \/ j \in Taken
               \/ \E i \in RequestIds : pending'[i] # NoRequest /\ pending'[i].msg = j
    <3>1. j \in Messages
      BY DEF LinkInv, LinkTypeOK
    <3>2. CASE j = m
      BY <1>2, <1>7, <3>2 DEF Answers
    <3>3. CASE j # m
      BY <1>4, <1>7, <3>1, <3>3 DEF LinkInv, OutcomesInv, m
    <3>. QED BY <3>2, <3>3
  <2>. QED BY <1>1, <1>2, <1>3, <2>2, <2>3, <2>4, <2>5, <2>6 DEF LinkInv, OutcomesInv, Waiting
<1>. QED BY <1>1, <1>10, <1>11, <1>12, <1>13, <1>14, <1>15 DEF LinkInv, ServerKeeps

\* The outcome at the head of the line is the first the driver has not counted.
LEMMA FirstOutcome ==
  ASSUME LinkInv, ReadsLine, line[1].t = "MSGDONE", NEW next, next = progressive + 1
  PROVE  /\ next \in 1 .. Len(log) /\ log[next] = line[1].msg /\ next <= cursor
         /\ progressive < ProgressiveMax
<1>1. /\ 1 \in 1 .. Len(line) /\ progressive <= cursor
  BY HeadLine
<1>2. /\ progressive \in Nat /\ cursor \in Nat /\ cursor <= Len(log) /\ Len(log) \in Nat
  BY LineElements, BoundsAssumption DEF LinkInv, TypeInv, TypeOK, RecoveryTypeOK
<1>3. PICK n \in Uncounted : log[n] = line[1].msg
  BY <1>1 DEF LinkInv, LineInv
<1>4. n \in 1 .. Len(log) /\ next \in 1 .. Len(log) /\ next \in Uncounted /\ next <= n
      /\ next <= cursor
  BY <1>2, <1>3 DEF Uncounted
<1>5. log[next] = line[1].msg
  <2> SUFFICES ASSUME log[next] # line[1].msg PROVE FALSE
    OBVIOUS
  <2>1. PICK i \in 1 .. Len(line') : line'[i].t = "MSGDONE" /\ line'[i].msg = log[next]
    BY <1>4, RestOfLine
  <2>2. n < next
    BY <1>3, <1>4, <2>1, RestOfLine
  <2>. QED BY <1>2, <1>4, <2>2
<1>6. Len(log) <= ProgressiveMax
  BY LogIsShort DEF LinkInv, LinkTypeOK, OutcomesInv
<1>. QED BY <1>2, <1>4, <1>5, <1>6, BoundsAssumption

LEMMA ReadsOutcome ==
  ASSUME LinkInv, ReadsLine, line[1].t = "MSGDONE"
  PROVE  LinkInv'
<1> DEFINE next == progressive + 1
           m == line[1].msg
<1>1. /\ line[1] \in Lines /\ OnLine(line[1]) /\ Reported /\ phase = "pumping" /\ TypeInv'
      /\ session # NoSession /\ progressive <= cursor
      /\ Len(line) \in Nat /\ Len(line) >= 1 /\ line' \in Seq(Lines)
      /\ \A i \in 1 .. Len(line') : line'[i] = line[i + 1] /\ i + 1 \in 1 .. Len(line)
      /\ UNCHANGED <<server, inbox, accepted, log, cursor, streaming, submitted>>
  BY HeadLine
<1>2. /\ next \in 1 .. Len(log) /\ log[next] = m /\ next <= cursor
      /\ progressive < ProgressiveMax
  BY FirstOutcome
<1>3. OnMessageOutcome(m, "done")
  <2>1. ~SkipsDuplicate
    BY DEF SkipsDuplicate, LinkInv, MessagesOnly
  <2>. QED BY <1>1, <2>1 DEF OnLine
<1>4. /\ UNCHANGED <<phase, intent, session, previousSession, skipRemaining, reg, pending,
                     generation, nextRequestId>>
      /\ progressive' = next /\ out' = {MessageEvent(m, "done")}
  BY <1>2, <1>3 DEF OnMessageOutcome, Counts, Incremented, streamVars, sessionVars, controlVars
<1>5. /\ Len(log) \in Nat /\ cursor \in Nat /\ cursor <= Len(log) /\ progressive \in Nat
  BY LineElements, BoundsAssumption DEF LinkInv, TypeInv, TypeOK, RecoveryTypeOK
<1>6. m \in Messages /\ reports[m] = 0
  <2>1. reports[log[next]] = IF next <= progressive THEN 1 ELSE 0
    BY <1>2 DEF LinkInv, OutcomesInv
  <2>2. ~(next <= progressive)
    BY <1>5
  <2>. QED BY <1>1, <1>2, <2>1, <2>2, LineFields
<1>7. /\ reports' \in [Messages -> 0 .. 1] /\ reports'[m] = 1
      /\ \A j \in Messages \ {m} : reports'[j] = reports[j]
  <2>1. /\ MessageEvent(m, "done") \in out'
        /\ \A e \in out' : e.ev = "message" => e = MessageEvent(m, "done")
    BY <1>4
  <2>2. /\ reports'[m] = reports[m] + 1
        /\ \A j \in Messages \ {m} : reports'[j] = reports[j]
        /\ reports[m] = 0 => reports' \in [Messages -> 0 .. 1]
    BY <1>1, <1>6, <2>1, ReportsOne DEF LinkInv
  <2>. QED BY <1>6, <2>2
<1>8. Taken' = Taken /\ \A i : Waiting(i)' = Waiting(i)
  BY <1>1, <1>4 DEF Taken, Waiting
<1>9. /\ Uncounted' = Uncounted \ {next} /\ \A n \in Uncounted : n \in 1 .. Len(log)
      /\ \A n \in Uncounted : next < n => n \in Uncounted'
  <2>1. Uncounted' = next + 1 .. cursor
    BY <1>1, <1>4 DEF Uncounted
  <2>2. \A n : n \in Uncounted' <=> n \in Uncounted /\ n # next
    <3>1. ASSUME NEW a \in Nat, NEW c \in Nat, NEW n
          PROVE  n \in (a + 1) + 1 .. c <=> n \in a + 1 .. c /\ n # a + 1
      OBVIOUS
    <3>. QED BY <1>5, <2>1, <3>1 DEF Uncounted
  <2>3. \A n \in Uncounted : n \in 1 .. Len(log)
    BY <1>5 DEF Uncounted
  <2>4. \A n \in Uncounted : n \in Int /\ (next < n => n # next)
    BY <1>5 DEF Uncounted
  <2>5. Uncounted' = Uncounted \ {next}
    BY <2>2
  <2>. QED BY <2>3, <2>4, <2>5
<1>10. \A n \in 1 .. Len(log) : log[n] \in Messages /\ (log[n] = m => n = next)
  BY <1>2, LineElements DEF LinkInv, OutcomesInv
<1>11. m \notin accepted /\ m \in Taken
  BY <1>2 DEF LinkInv, OutcomesInv, Taken
<1>12. LinkTypeOK'
  BY <1>1, <1>2, <1>4, <1>7 DEF LinkInv, LinkTypeOK
<1>13. MessagesOnly'
  BY <1>1, <1>4, <1>8 DEF LinkInv, MessagesOnly
<1>14. OneSession'
  BY <1>1, <1>4, <1>8 DEF LinkInv, OneSession
<1>15. next < progressive' + 1 /\ progressive' <= cursor'
  BY <1>1, <1>2, <1>4, <1>5
<1>. HIDE DEF next
<1>16. LineInv'
  <2>1. ASSUME NEW i \in 1 .. Len(line'), line'[i].t = "MSGDONE"
        PROVE  \E n \in Uncounted' : log[n] = line'[i].msg
    <3>1. PICK n \in Uncounted : log[n] = line'[i].msg
      BY <2>1, RestOfLine
    <3>2. next < n
      BY <1>2, <1>9, <2>1, <3>1, RestOfLine
    <3>. QED BY <1>9, <3>1, <3>2
  <2>2. ASSUME NEW n \in Uncounted'
        PROVE  \E i \in 1 .. Len(line') : line'[i].t = "MSGDONE" /\ line'[i].msg = log[n]
    <3>1. n \in Uncounted /\ n # next
      BY <1>9
    <3>2. log[n] # m
      BY <1>9, <1>10, <3>1
    <3>. QED BY <3>1, <3>2, RestOfLine
  <2>. QED BY <1>1, <1>4, <1>8, <1>15, <2>1, <2>2, RestOfLine DEF LineInv
<1>17. InboxInv'
  BY <1>1, <1>4, <1>8 DEF LinkInv, InboxInv
<1>18. OutcomesInv'
  <2>1. ASSUME NEW n \in 1 .. Len(log)
        PROVE  reports'[log[n]] = IF n <= progressive' THEN 1 ELSE 0
    <3>1. CASE n = next
      BY <1>2, <1>4, <1>7, <3>1
    <3>2. CASE n # next
      <4>1. reports'[log[n]] = reports[log[n]]
        BY <1>7, <1>10, <3>2
      <4>2. n <= progressive <=> n <= progressive'
        BY <1>4, <1>5, <3>2 DEF next
      <4>. QED BY <4>1, <4>2 DEF LinkInv, OutcomesInv
    <3>. QED BY <3>1, <3>2
  <2>2. \A j \in accepted : reports'[j] = 0
    BY <1>7, <1>11 DEF LinkInv, OutcomesInv, LinkTypeOK
  <2>3. \A j \in Messages \ submitted : reports'[j] = 0
    BY <1>7, <1>11 DEF LinkInv, OutcomesInv
  <2>4. \A i \in RequestIds : Waiting(i) /\ pending[i].msg \notin Taken =>
          reports'[pending[i].msg] = 0
    BY <1>7, <1>11 DEF LinkInv, OutcomesInv, MessagesOnly, LinkTypeOK
  <2>5. \A j \in submitted : \/ reports'[j] = 1 \/ j \in Taken
                             \/ \E i \in RequestIds : Waiting(i) /\ pending[i].msg = j
    BY <1>7, <1>11 DEF LinkInv, OutcomesInv, LinkTypeOK
  <2>. QED BY <1>1, <1>4, <1>8, <2>1, <2>2, <2>3, <2>4, <2>5 DEF LinkInv, OutcomesInv
<1>. QED BY <1>1, <1>12, <1>13, <1>14, <1>16, <1>17, <1>18 DEF LinkInv, ServerKeeps

\* The LOOP is the last line, and with it every outcome the server sent is counted.
LEMMA ReadsLoop ==
  ASSUME LinkInv, ReadsLine, line[1].t = "LOOP"
  PROVE  LinkInv'
<1>1. /\ line[1] \in Lines /\ OnLine(line[1]) /\ Reported /\ phase = "pumping" /\ TypeInv'
      /\ session # NoSession /\ progressive <= cursor
      /\ Len(line) \in Nat /\ Len(line) >= 1 /\ line' \in Seq(Lines)
      /\ Len(line') = Len(line) - 1
      /\ UNCHANGED <<server, inbox, accepted, log, cursor, streaming, submitted>>
  BY HeadLine
<1>2. Len(line') = 0 /\ ~streaming
  <2>1. 1 \in 1 .. Len(line)
    BY <1>1
  <2>2. 1 = Len(line) /\ ~streaming
    BY <1>1, <2>1 DEF LinkInv, LineInv
  <2>3. ASSUME NEW n \in Nat, 1 = n PROVE n - 1 = 0
    BY <2>3
  <2>. QED BY <1>1, <2>2, <2>3
<1>3. line' = <<>>
  BY <1>1, <1>2, EmptySeq
<1>4. cursor = progressive
  <2>1. progressive \in Nat /\ cursor \in Nat
    BY LineElements, BoundsAssumption DEF LinkInv, TypeInv, TypeOK, RecoveryTypeOK
  <2>2. Len(line') = 0 /\ 1 .. 0 = {}
    BY <1>2
  <2>3. Uncounted = {}
    BY <2>2, RestOfLine
  <2>. QED BY <1>1, <2>1, <2>3 DEF Uncounted
<1>5. line[1].delayed = FALSE
  BY <1>1, LineFields
<1>6. OnLoop(FALSE)
  BY <1>1, <1>5 DEF OnLine
<1>7. Leaves("rebind") /\ UNCHANGED <<session, previousSession>>
  BY <1>6, LoopLeaves DEF OnLoop, sessionVars
<1>8. reports' = reports
  BY <1>1, <1>7, ReportsNone DEF LinkInv, Leaves
<1>9. streaming' = FALSE
  BY <1>1, <1>2 DEF LinkInv, LinkTypeOK
<1>. QED BY <1>1, <1>3, <1>4, <1>7, <1>8, <1>9, LeavesInv

LEMMA ReadsInv ==
  ASSUME LinkInv, ReadsLine
  PROVE  LinkInv'
<1>1. line[1] \in Lines
  BY HeadLine
<1>2. line[1].t \in {"CONOK", "PROG", "MSGDONE", "LOOP"} \cup Answers
  BY <1>1, LineFields
<1>. QED BY <1>2, ReadsConOk, ReadsProg, ReadsAnswer, ReadsOutcome, ReadsLoop

-----------------------------------------------------------------------------
(* Every step, and the theorems *)

LEMMA LinkInitInv == LinkInit /\ ServerKeeps => LinkInv
<1> SUFFICES ASSUME LinkInit, ServerKeeps PROVE LinkInv
  OBVIOUS
<1>1. TypeInv
  BY TypeInit DEF LinkInit
<1>2. /\ server = NoSession /\ inbox = <<>> /\ accepted = {} /\ log = <<>> /\ cursor = 0
      /\ streaming = FALSE /\ line = <<>> /\ submitted = {}
      /\ reports = [m \in Messages |-> 0]
      /\ phase = "opening" /\ intent.kind = "create" /\ session = NoSession
      /\ previousSession = NoSession /\ progressive = 0 /\ skipRemaining = 0
      /\ \A k \in Keys : reg[k].state = "unused"
      /\ \A i \in RequestIds : ~Waiting(i)
  BY DEF LinkInit, Init, Waiting
<1>3. Len(line) = 0 /\ Len(inbox) = 0 /\ Len(log) = 0 /\ 1 .. 0 = {}
  BY <1>2
<1>4. LinkTypeOK
  <2>1. line \in Seq(Lines) /\ inbox \in Seq([id : RequestIds, msg : Messages])
        /\ log \in Seq(Messages)
    BY <1>2, EmptySeq
  <2>2. cursor \in 0 .. Len(log) /\ progressive <= Len(log)
    BY <1>2, <1>3
  <2>3. streaming \in BOOLEAN /\ accepted \in SUBSET Messages /\ submitted \in SUBSET Messages
    BY <1>2
  <2>. QED BY <1>2, <2>1, <2>2, <2>3 DEF LinkTypeOK
<1>5. MessagesOnly
  BY <1>2 DEF MessagesOnly
<1>6. OneSession
  BY <1>2 DEF OneSession
<1>7. LineInv
  BY <1>2, <1>3 DEF LineInv
<1>8. InboxInv
  BY <1>3 DEF InboxInv
<1>9. OutcomesInv
  BY <1>2, <1>3 DEF OutcomesInv, Taken
<1>. QED BY <1>1, <1>4, <1>5, <1>6, <1>7, <1>8, <1>9 DEF LinkInv

LEMMA StaysInv ==
  ASSUME LinkInv, UNCHANGED allVars
  PROVE  LinkInv'
<1>1. TypeInv' /\ MessagesOnly'
  BY ServerKeepsDriver DEF allVars
<1>2. UNCHANGED <<phase, intent, session, progressive, pending, server, inbox, accepted, log,
                  cursor, streaming, line, submitted, reports>>
  BY DEF allVars, vars, streamVars, sessionVars, recoveryVars, controlVars, serverVars,
         reportVars
<1>3. Taken' = Taken /\ Uncounted' = Uncounted /\ \A i : Waiting(i)' = Waiting(i)
  BY <1>2 DEF Taken, Uncounted, Waiting
<1>4. LinkTypeOK' /\ OneSession'
  BY <1>2, <1>3 DEF LinkInv, LinkTypeOK, OneSession
<1>5. LineInv'
  BY <1>2, <1>3 DEF LinkInv, LineInv
<1>6. InboxInv' /\ OutcomesInv'
  BY <1>2, <1>3 DEF LinkInv, InboxInv, OutcomesInv
<1>. QED BY <1>1, <1>4, <1>5, <1>6 DEF LinkInv, ServerKeeps

LEMMA LinkNextInv ==
  ASSUME LinkInv, [LinkNext]_allVars
  PROVE  LinkInv'
<1>1. CASE ServerAnswers
  BY <1>1, AnswersInv
<1>2. CASE ServerTakes
  BY <1>2, TakesInv
<1>3. CASE ServerEvaluates
  BY <1>3, EvaluatesInv
<1>4. CASE ServerSends
  BY <1>4, SendsInv
<1>5. CASE ServerLoops
  BY <1>5, LoopsInv
<1>6. CASE \E m \in Messages : Submits(m)
  BY <1>6, SubmitsInv
<1>7. CASE Disconnected
  BY <1>7, DisconnectedInv
<1>8. CASE ReadsLine
  BY <1>8, ReadsInv
<1>9. CASE Waits
  BY <1>9, WaitsInv
<1>10. CASE UNCHANGED allVars
  BY <1>10, StaysInv
<1>. QED BY <1>1, <1>2, <1>3, <1>4, <1>5, <1>6, <1>7, <1>8, <1>9, <1>10 DEF LinkNext

LEMMA LinkInvariant == ServerKeeps /\ LinkSpec => []LinkInv
<1>1. LinkInit /\ ServerKeeps => LinkInv
  BY LinkInitInv
<1>2. LinkInv /\ [LinkNext]_allVars => LinkInv'
  BY LinkNextInv
<1>. QED BY <1>1, <1>2, PTL DEF LinkSpec

\* The caller is told the outcome of a message at most once: not a second time when a
\* recovery sends the notification again, nor when the answer to its request and its
\* notification both arrive.
THEOREM OutcomeOnce == ServerKeeps => (LinkSpec => []AtMostOneOutcome)
<1>1. LinkInv => AtMostOneOutcome
  BY DEF LinkInv, LinkTypeOK, AtMostOneOutcome
<1>. QED BY <1>1, LinkInvariant, PTL

\* A message handed over is reported, or its request is still in flight, or the server has
\* it and its notification is still to come and to be counted: no drop of the socket, no
\* rebind and no recovery makes the driver forget it.
THEOREM MessageKept == ServerKeeps => (LinkSpec => []NoMessageForgotten)
<1>1. LinkInv => NoMessageForgotten
  <2> SUFFICES ASSUME LinkInv, NEW m \in submitted
               PROVE  reports[m] > 0 \/ InFlight(m)
    BY DEF NoMessageForgotten
  <2>1. reports[m] \in 0 .. 1
    BY DEF LinkInv, LinkTypeOK
  <2>2. CASE reports[m] = 1
    BY <2>1, <2>2
  <2>3. CASE m \in accepted
    BY <2>3 DEF InFlight
  <2>4. CASE \E n \in 1 .. Len(log) : log[n] = m
    <3>1. PICK n \in 1 .. Len(log) : log[n] = m
      BY <2>4
    <3>2. CASE n <= progressive
      BY <3>1, <3>2 DEF LinkInv, OutcomesInv
    <3>3. CASE ~(n <= progressive)
      <4>1. n \in progressive + 1 .. Len(log)
        BY <3>1, <3>3, BoundsAssumption DEF LinkInv, TypeInv, TypeOK, RecoveryTypeOK
      <4>. QED BY <3>1, <4>1 DEF InFlight
    <3>. QED BY <3>2, <3>3
  <2>5. CASE \E i \in RequestIds : Waiting(i) /\ pending[i].msg = m
    BY <2>5 DEF LinkInv, MessagesOnly, Waiting, InFlight
  <2>. QED BY <2>2, <2>3, <2>4, <2>5 DEF LinkInv, OutcomesInv, Taken
<1>. QED BY <1>1, LinkInvariant, PTL
=============================================================================

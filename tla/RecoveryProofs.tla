---------------------------- MODULE RecoveryProofs ----------------------------
(***************************************************************************)
(* The driver against a server that keeps the protocol implements the      *)
(* reliable feed, for every set of sessions, every number of notifications *)
(* up to the width of the counter and every number of lines in flight.     *)
(***************************************************************************)
EXTENDS RecoveryLink, SessionDriverProofs, SequenceTheorems

\* What the feed is promised under: the client parses every notification, and no stream
\* ends before the server has sent again all it was asked for.
WellBehaved == Unparsable = {} /\ ~LoopsInReplay

-----------------------------------------------------------------------------
(* The inductive invariant *)

Endings == {"LOOP", "EOF", "END"}
Lines ==
       [t : {"CONOK"}, session : Sessions]
  \cup [t : {"PROG"}, at : 0 .. MaxProduced]
  \cup [t : {"CONERR"}, code : {4, 20}]
  \cup [t : {"UPDATE"}, sub : {NoId}, position : Nat]
  \cup [t : {"LOOP"}, delayed : {FALSE}]
  \cup [t : {"EOF"}]
  \cup [t : {"END"}, code : {48}]

\* The driver's variables are well typed, and so are the server's.
LinkTypeOK ==
  /\ server \in Sessions \cup {NoSession}
  /\ produced \in 0 .. MaxProduced /\ cursor \in 0 .. produced
  /\ streaming \in BOOLEAN
  /\ line \in Seq(Lines)
  /\ epoch \in Nat

\* A line of data at i is the one with this number more than i.
Offset == IF streaming THEN cursor - Len(line) ELSE cursor - Len(line) + 1

LineShape ==
  /\ \A i \in 1 .. Len(line) :
       /\ line[i].t \in {"CONOK", "CONERR"} => i = 1
       /\ line[i].t = "PROG" => i = 1 \/ (i = 2 /\ line[1].t = "CONOK")
       /\ line[i].t \in Endings => i = Len(line) /\ ~streaming /\ cursor = produced
       /\ line[i].t = "CONERR" => i = Len(line) /\ ~streaming
       /\ line[i].t = "UPDATE" => line[i].position = Offset + i
  /\ line # <<>> /\ ~streaming => line[Len(line)].t \in Endings \cup {"CONERR"}

\* Whether the driver has still to read the answer to its bind.
Awaiting == phase # "closed" /\ streamState = "establishing"
Pumping == phase = "pumping"
First(types) == line # <<>> /\ line[1].t \in types

ConnectionShape ==
  /\ ~Pumping => line = <<>> /\ ~streaming
  /\ Pumping => streaming \/ line # <<>>
  /\ phase \in {"waiting", "opening"} => streamState = "establishing"
  /\ Pumping => (streamState = "establishing" <=> First({"CONOK", "CONERR"}))

SessionShape ==
  /\ Awaiting => (intent.kind = "create" <=> session = NoSession)
  /\ Pumping /\ streamState = "bound" => session # NoSession
  /\ session # NoSession => last <= produced /\ server \in {session, NoSession}
  /\ First({"CONOK"}) => /\ server \in {line[1].session, NoSession}
                         /\ intent.kind # "create" => line[1].session = session

Positions ==
  /\ Awaiting => /\ skipRemaining = 0 /\ ~progHonoured
                 /\ intent.kind = "recover" => intent.requested = progressive
  /\ phase \in {"waiting", "opening"} /\ intent.kind = "rebind" => last = cursor
  /\ First({"CONOK"}) =>
       /\ intent.kind = "create" => Offset = -1
       /\ intent.kind = "rebind" => Offset = last - 1
       /\ intent.kind = "recover" <=> Len(line) >= 2 /\ line[2].t = "PROG"
       /\ intent.kind = "recover" => line[2].at = Offset + 2
  /\ First({"PROG"}) =>
       /\ intent.kind = "recover" /\ intent.requested = progressive
       /\ ~progHonoured /\ skipRemaining = 0
       /\ line[1].at = Offset + 1
  /\ Pumping /\ ~First({"CONOK", "PROG", "CONERR"}) => last - skipRemaining = Offset

QuietUnlessTold == Told # "nothing" => handed = 0

LinkInv ==
  /\ WellBehaved
  /\ TypeInv
  /\ LinkTypeOK /\ LineShape /\ ConnectionShape /\ SessionShape /\ Positions
  /\ ProgressiveIsPosition /\ QuietUnlessTold

-----------------------------------------------------------------------------
(* Lines *)

LEMMA LineFields ==
  ASSUME NEW n \in Lines
  PROVE  /\ n.t \in {"CONOK", "PROG", "CONERR", "UPDATE"} \cup Endings
         /\ n.t = "CONOK" => n.session \in Sessions
         /\ n.t = "PROG" => n.at \in 0 .. MaxProduced
         /\ n.t = "CONERR" => n.code \in {4, 20}
         /\ n.t = "UPDATE" => n.sub = NoId /\ n.position \in Nat
         /\ n.t = "LOOP" => n.delayed = FALSE
         /\ n.t = "END" => n.code = 48
         /\ n.t = "EOF" => n = EndOfStream
  BY DEF Lines, Endings, EndOfStream

LEMMA LineElements ==
  ASSUME line \in Seq(Lines)
  PROVE  /\ Len(line) \in Nat
         /\ line # <<>> <=> Len(line) >= 1
         /\ \A i \in 1 .. Len(line) : line[i] \in Lines
  BY ElementOfSeq, EmptySeq, LenProperties

\* The next line is the first, and reading it moves the others one place.
LEMMA Reading ==
  ASSUME LinkTypeOK, line # <<>>, line' = Tail(line)
  PROVE  /\ Head(line) = line[1] /\ line[1] \in Lines
         /\ Len(line) \in Nat /\ Len(line) >= 1
         /\ line' \in Seq(Lines) /\ Len(line') = Len(line) - 1
         /\ \A i \in 1 .. Len(line') : line'[i] = line[i + 1]
         /\ line' # <<>> <=> Len(line) >= 2
<1>1. line \in Seq(Lines)
  BY DEF LinkTypeOK
<1>2. /\ line' \in Seq(Lines) /\ Len(line') = Len(line) - 1
      /\ \A i \in 1 .. Len(line') : line'[i] = line[i + 1]
  BY <1>1, HeadTailProperties
<1>3. Head(line) = line[1]
  BY <1>1
<1>4. line' # <<>> <=> Len(line') >= 1
  BY <1>2, EmptySeq
<1>. QED BY <1>1, <1>2, <1>3, <1>4, LineElements

\* Taking the first line away keeps the shape of the rest and the numbers of its data.
LEMMA RestShape ==
  ASSUME LinkTypeOK, LineShape,
         Len(line) \in Nat, Len(line) >= 1, Len(line') = Len(line) - 1,
         \A i \in 1 .. Len(line') : line'[i] = line[i + 1],
         line' # <<>> <=> Len(line) >= 2,
         UNCHANGED <<produced, cursor, streaming>>
  PROVE  LineShape' /\ Offset' = Offset + 1
<1>1. cursor \in Nat /\ streaming \in BOOLEAN
  BY LinkAssumption, BoundsAssumption DEF LinkTypeOK
<1>2. Offset' = Offset + 1 /\ Offset \in Int
  BY <1>1 DEF Offset
<1>3. ASSUME NEW i \in 1 .. Len(line')
      PROVE  /\ line'[i].t \in {"CONOK", "CONERR"} => i = 1
             /\ line'[i].t = "PROG" => i = 1 \/ (i = 2 /\ line'[1].t = "CONOK")
             /\ line'[i].t \in Endings => i = Len(line') /\ ~streaming' /\ cursor' = produced'
             /\ line'[i].t = "CONERR" => i = Len(line') /\ ~streaming'
             /\ line'[i].t = "UPDATE" => line'[i].position = Offset' + i
  <2>1. i + 1 \in 1 .. Len(line) /\ line'[i] = line[i + 1] /\ i \in Nat /\ i >= 1
    OBVIOUS
  <2>2. /\ line[i + 1].t \in {"CONOK", "CONERR"} => i + 1 = 1
        /\ line[i + 1].t = "PROG" => i + 1 = 1 \/ i + 1 = 2
        /\ line[i + 1].t \in Endings => i + 1 = Len(line) /\ ~streaming /\ cursor = produced
        /\ line[i + 1].t = "CONERR" => i + 1 = Len(line) /\ ~streaming
        /\ line[i + 1].t = "UPDATE" => line[i + 1].position = Offset + (i + 1)
    BY <2>1 DEF LineShape
  <2>3. i + 1 = Len(line) => i = Len(line')
    BY <2>1
  <2>4. Offset + (i + 1) = Offset' + i /\ ~(i + 1 = 1) /\ (i + 1 = 2 => i = 1)
    BY <1>2, <2>1
  <2>. QED BY <2>1, <2>2, <2>3, <2>4
<1>4. ASSUME line' # <<>>, ~streaming'
      PROVE  line'[Len(line')].t \in Endings \cup {"CONERR"}
  <2>1. Len(line') \in 1 .. Len(line') /\ Len(line') + 1 = Len(line)
    BY <1>4
  <2>2. line'[Len(line')] = line[Len(line)]
    BY <2>1
  <2>3. line # <<>> /\ ~streaming
    BY <1>4, <2>1
  <2>. QED BY <2>2, <2>3 DEF LineShape
<1>. QED BY <1>2, <1>3, <1>4 DEF LineShape

-----------------------------------------------------------------------------
(* Leaving a connection *)

Continuity == {"recovered", "bound"}

\* What the driver has said is about continuity only if an event of that kind is in it.
LEMMA NothingTold ==
  ASSUME \A e \in out' : e.ev \notin Continuity
  PROVE  Told' = "nothing"
<1>1. [ev |-> "recovered", kind |-> "gap"].ev \in Continuity
  BY DEF Continuity
<1>2. [ev |-> "recovered", kind |-> "gap"] \notin out'
  BY <1>1
<1>. QED BY <1>2 DEF Told, Continuity

\* Leaving a connection keeps the invariant, whatever the next bind asks for.
LEMMA LeavesInv ==
  ASSUME LinkInv, TypeInv', NEW kind \in {"create", "rebind", "recover"}, Leaves(kind),
         line' = <<>>, streaming' = FALSE, server' = server, NothingHandedOn,
         UNCHANGED <<produced, cursor>>,
         session' \in {session, NoSession}, kind = "create" <=> session' = NoSession,
         kind = "rebind" => last = cursor
  PROVE  LinkInv' /\ Told' = "nothing"
<1>1. Told' = "nothing"
  BY NothingTold DEF Leaves, Continuity
<1>2. last' = last /\ epoch' = epoch /\ handed' = 0
  BY DEF NothingHandedOn
<1>3. LinkTypeOK'
  <2>1. line' \in Seq(Lines)
    BY EmptySeq
  <2>2. LinkTypeOK
    BY DEF LinkInv
  <2>. QED BY <1>2, <2>1, <2>2 DEF LinkTypeOK
<1>4. LineShape'
  BY DEF LineShape
<1>5. ConnectionShape'
  BY DEF ConnectionShape, Leaves, Pumping
<1>6. SessionShape'
  BY <1>2 DEF SessionShape, LinkInv, Leaves, Pumping, Awaiting, First
<1>7. Positions'
  BY <1>2 DEF Positions, LinkInv, Leaves, Pumping, Awaiting, First
<1>8. ProgressiveIsPosition' /\ QuietUnlessTold'
  BY <1>1, <1>2 DEF LinkInv, Leaves, ProgressiveIsPosition, QuietUnlessTold
<1>. QED BY <1>1, <1>3, <1>4, <1>5, <1>6, <1>7, <1>8 DEF LinkInv, WellBehaved

-----------------------------------------------------------------------------
(* The steps that read no line *)

LEMMA DisconnectedInv ==
  ASSUME LinkInv, Disconnected
  PROVE  LinkInv' /\ Told' = "nothing"
<1> DEFINE kind == IF session # NoSession THEN "recover" ELSE "create"
<1>1. TypeInv'
  BY ConnectionType DEF LinkInv, Disconnected
<1>2. Leaves(kind) /\ session' = session
  BY LostLeaves DEF Disconnected, OpenFails, StreamFails, InboundStalled
<1>. QED BY <1>1, <1>2, LeavesInv DEF Disconnected

\* A bound stream that ended has nothing left to skip, and nothing is missing.
LEMMA CaughtUp ==
  ASSUME LinkInv, Pumping, line # <<>>, line[1].t \in Endings
  PROVE  /\ line' = Tail(line) => line' = <<>>
         /\ streaming = FALSE /\ session # NoSession /\ last = cursor
<1>1. Len(line) \in Nat /\ Len(line) >= 1
  BY LineElements DEF LinkInv, LinkTypeOK
<1>2. Len(line) = 1 /\ ~streaming /\ cursor = produced
  <2>1. 1 \in 1 .. Len(line) /\ LineShape
    BY <1>1 DEF LinkInv
  <2>. QED BY <2>1 DEF LineShape
<1>3. line' = Tail(line) => line' = <<>>
  BY <1>2, Reading DEF LinkInv
<1>4. streaming = FALSE
  BY <1>2 DEF LinkInv, LinkTypeOK
<1>5. ~First({"CONOK", "CONERR"}) /\ ~First({"CONOK", "PROG", "CONERR"})
  BY DEF First, Endings
<1>6. streamState = "bound"
  BY <1>5 DEF LinkInv, ConnectionShape, TypeInv, TypeOK, StreamTypeOK
<1>7. session # NoSession /\ last <= produced
  BY <1>6 DEF LinkInv, SessionShape
<1>8. last - skipRemaining = Offset
  BY <1>5 DEF LinkInv, Positions
<1>9. cursor \in Nat /\ Offset = cursor
  BY <1>2, <1>4, LinkAssumption, BoundsAssumption DEF LinkInv, LinkTypeOK, Offset
<1>10. last \in Nat /\ skipRemaining \in Nat
  BY BoundsAssumption DEF LinkInv, ProgressiveIsPosition, TypeInv, TypeOK, RecoveryTypeOK
<1>11. last = cursor
  BY <1>2, <1>7, <1>8, <1>9, <1>10
<1>. QED BY <1>3, <1>4, <1>7, <1>11

LEMMA ReadsEndInv ==
  ASSUME LinkInv, ReadsEnd
  PROVE  LinkInv' /\ Told' = "nothing"
<1>1. TypeInv' /\ Pumping /\ line # <<>>
  BY ConnectionType DEF LinkInv, ReadsEnd, StreamEnds, Pumping
<1>2. line[1].t = "EOF"
  BY <1>1, Reading DEF ReadsEnd, EndOfStream
<1>3. line' = <<>> /\ streaming = FALSE /\ session # NoSession /\ last = cursor
  BY <1>1, <1>2, CaughtUp DEF ReadsEnd, Endings
<1>4. \E kind \in {"rebind", "recover"} : Leaves(kind) /\ session' = session
  BY <1>3, ClosesLeaves, LoopLeaves, LostLeaves
  DEF ReadsEnd, StreamEnds, sessionVars, Closes, ClosesAfter
<1>. QED BY <1>1, <1>3, <1>4, LeavesInv DEF ReadsEnd

LEMMA WaitsInv ==
  ASSUME LinkInv, Waits
  PROVE  LinkInv' /\ Told' = "nothing"
<1>1. TypeInv'
  BY ConnectionType DEF LinkInv, Waits
<1>2. Told' = "nothing"
  BY NothingTold DEF Waits, DelayElapses
<1>3. /\ phase = "waiting" /\ phase' = "opening" /\ handed' = 0
      /\ UNCHANGED <<linkVars, last, epoch, streamState, intent, sessionVars, recoveryVars>>
  BY DEF Waits, DelayElapses, NothingHandedOn
<1>4. LinkTypeOK' /\ LineShape'
  BY <1>3 DEF LinkInv, linkVars, LinkTypeOK, LineShape, Offset
<1>5. ConnectionShape'
  BY <1>3 DEF LinkInv, linkVars, ConnectionShape, Pumping, First
<1>6. SessionShape'
  BY <1>3 DEF LinkInv, linkVars, sessionVars, SessionShape, Awaiting, Pumping, First
<1>7. Positions'
  <2>1. line = <<>>
    BY <1>3 DEF LinkInv, ConnectionShape, Pumping
  <2>. QED BY <1>3, <2>1 DEF LinkInv, linkVars, recoveryVars, Positions, Awaiting, Pumping, First
<1>8. ProgressiveIsPosition' /\ QuietUnlessTold'
  BY <1>2, <1>3 DEF LinkInv, recoveryVars, ProgressiveIsPosition, QuietUnlessTold
<1>. QED BY <1>1, <1>2, <1>4, <1>5, <1>6, <1>7, <1>8 DEF LinkInv, WellBehaved
\* The server writes one more datum, or ends the stream once all it produced is out.
Writes(e) ==
  /\ streaming /\ line' = Append(line, e)
  /\ \/ /\ e.t = "UPDATE" /\ e.position = cursor + 1
        /\ cursor' = cursor + 1 /\ produced' \in {produced, cursor'} /\ cursor' <= produced'
        /\ produced' >= produced /\ produced' <= MaxProduced
        /\ streaming' = TRUE /\ server' = server
     \/ /\ e.t \in Endings
        /\ cursor' = cursor /\ produced' = produced /\ cursor = produced
        /\ streaming' = FALSE /\ server' \in {server, NoSession}
  /\ NothingHandedOn
  /\ UNCHANGED vars

LEMMA ServerWrites ==
  ASSUME LinkInv, ServerSends \/ ServerEndsStream
  PROVE  \E e \in Lines : Writes(e)
<1>1. cursor \in Nat /\ produced \in Nat /\ MaxProduced \in Nat /\ cursor <= produced
      /\ produced <= MaxProduced
  BY LinkAssumption, BoundsAssumption DEF LinkInv, LinkTypeOK
<1>2. CASE ServerSends
  <2>1. Datum(cursor + 1) \in Lines /\ Datum(cursor + 1).t = "UPDATE"
        /\ Datum(cursor + 1).position = cursor + 1
    <3>1. Datum(cursor + 1) = [t |-> "UPDATE", sub |-> NoId, position |-> cursor + 1]
      BY DEF Datum, LinkInv, WellBehaved
    <3>2. Datum(cursor + 1) \in [t : {"UPDATE"}, sub : {NoId}, position : Nat]
      BY <1>1, <3>1
    <3>3. Datum(cursor + 1) \in Lines
      BY <3>2 DEF Lines
    <3>. QED BY <3>1, <3>3
  <2>2. cursor < MaxProduced /\ cursor' = cursor + 1
    BY <1>2 DEF ServerSends
  <2>3. produced' \in {produced, cursor'} /\ cursor' <= produced' /\ produced' >= produced
        /\ produced' <= MaxProduced
    BY <1>1, <1>2, <2>2 DEF ServerSends
  <2>. QED BY <1>2, <2>1, <2>2, <2>3 DEF ServerSends, Writes
<1>3. CASE ServerEndsStream
  <2>1. PICK e \in {[t |-> "LOOP", delayed |-> FALSE], EndOfStream, [t |-> "END", code |-> 48]} :
          line' = Append(line, e) /\ server' \in {server, NoSession}
    BY <1>3 DEF ServerEndsStream
  <2>2. e \in Lines /\ e.t \in Endings
    <3>1. CASE e = [t |-> "LOOP", delayed |-> FALSE]
      BY <3>1 DEF Lines, Endings
    <3>2. CASE e = [t |-> "EOF"]
      BY <3>2 DEF Lines, Endings
    <3>3. CASE e = [t |-> "END", code |-> 48]
      BY <3>3 DEF Lines, Endings
    <3>. QED BY <3>1, <3>2, <3>3 DEF EndOfStream
  <2>. QED BY <1>3, <2>1, <2>2 DEF ServerEndsStream, Writes, LinkInv, WellBehaved
<1>. QED BY <1>2, <1>3

\* What is written goes behind everything else.
LEMMA Written ==
  ASSUME LinkInv, NEW e \in Lines, Writes(e)
  PROVE  /\ Len(line) \in Nat /\ line' \in Seq(Lines) /\ Len(line') = Len(line) + 1
         /\ \A i \in 1 .. Len(line) : line'[i] = line[i]
         /\ line'[Len(line) + 1] = e /\ line' # <<>>
         /\ line # <<>> <=> Len(line) >= 1
         /\ Offset' = Offset /\ Offset = cursor - Len(line)
<1>1. line \in Seq(Lines)
  BY DEF LinkInv, LinkTypeOK
<1>2. /\ line' \in Seq(Lines) /\ Len(line') = Len(line) + 1
      /\ \A i \in 1 .. Len(line) : line'[i] = line[i]
      /\ line'[Len(line) + 1] = e /\ line' # <<>>
  BY <1>1, AppendProperties DEF Writes
<1>3. Len(line) \in Nat /\ (line # <<>> <=> Len(line) >= 1)
  BY <1>1, LineElements
<1>4. cursor \in Nat /\ streaming
  BY LinkAssumption, BoundsAssumption DEF LinkInv, LinkTypeOK, Writes
<1>5. Offset' = Offset /\ Offset = cursor - Len(line)
  BY <1>2, <1>3, <1>4 DEF Writes, Offset
<1>. QED BY <1>2, <1>3, <1>5

LEMMA WritesShape ==
  ASSUME LinkInv, NEW e \in Lines, Writes(e)
  PROVE  LineShape'
<1>1. /\ Len(line) \in Nat /\ Len(line') = Len(line) + 1
      /\ \A i \in 1 .. Len(line) : line'[i] = line[i]
      /\ line'[Len(line) + 1] = e
      /\ Offset' = Offset /\ Offset = cursor - Len(line)
  BY Written
<1>2. cursor \in Nat /\ e.t \in Endings \cup {"UPDATE"} /\ LineShape /\ streaming
  BY LinkAssumption, BoundsAssumption DEF LinkInv, LinkTypeOK, Writes
<1>3. ASSUME NEW i \in 1 .. Len(line')
      PROVE  /\ line'[i].t \in {"CONOK", "CONERR"} => i = 1
             /\ line'[i].t = "PROG" => i = 1 \/ (i = 2 /\ line'[1].t = "CONOK")
             /\ line'[i].t \in Endings => i = Len(line') /\ ~streaming' /\ cursor' = produced'
             /\ line'[i].t = "CONERR" => i = Len(line') /\ ~streaming'
             /\ line'[i].t = "UPDATE" => line'[i].position = Offset' + i
  <2>1. CASE i \in 1 .. Len(line)
    <3>1. line'[i] = line[i] /\ 1 \in 1 .. Len(line) /\ line'[1] = line[1]
      BY <1>1, <2>1
    <3>2. line[i].t \notin Endings /\ line[i].t # "CONERR"
      BY <1>2, <2>1 DEF LineShape
    <3>3. /\ line[i].t \in {"CONOK", "CONERR"} => i = 1
          /\ line[i].t = "PROG" => i = 1 \/ (i = 2 /\ line[1].t = "CONOK")
          /\ line[i].t = "UPDATE" => line[i].position = Offset + i
      BY <1>2, <2>1 DEF LineShape
    <3>. QED BY <1>1, <3>1, <3>2, <3>3
  <2>2. CASE i = Len(line) + 1
    <3>1. line'[i] = e
      BY <1>1, <2>2
    <3>2. CASE e.t = "UPDATE"
      <4>1. e.position = Offset' + i
        BY <1>1, <1>2, <2>2, <3>2 DEF Writes, Endings
      <4>. QED BY <3>1, <3>2, <4>1 DEF Endings
    <3>3. CASE e.t \in Endings
      <4>1. ~streaming' /\ cursor' = produced' /\ i = Len(line')
        BY <1>1, <2>2, <3>3 DEF Writes, Endings
      <4>. QED BY <3>1, <3>3, <4>1 DEF Endings
    <3>. QED BY <1>2, <3>2, <3>3
  <2>. QED BY <1>1, <2>1, <2>2
<1>4. ~streaming' => line'[Len(line')].t \in Endings
  BY <1>1 DEF Writes
<1>. QED BY <1>3, <1>4 DEF LineShape

LEMMA WritesInv ==
  ASSUME LinkInv, NEW e \in Lines, Writes(e)
  PROVE  LinkInv'
<1>1. TypeInv'
  BY StutterType DEF LinkInv, Writes
<1>2. /\ Len(line) \in Nat /\ line' \in Seq(Lines) /\ Len(line') = Len(line) + 1
      /\ \A i \in 1 .. Len(line) : line'[i] = line[i]
      /\ line'[Len(line) + 1] = e /\ line' # <<>>
      /\ line # <<>> <=> Len(line) >= 1
      /\ Offset' = Offset
  BY Written
<1>3. e.t \in Endings \cup {"UPDATE"} /\ streaming /\ handed' = 0
      /\ UNCHANGED <<last, epoch>>
  BY DEF Writes, NothingHandedOn
<1>4. UNCHANGED <<streamVars, sessionVars, recoveryVars, out>>
  BY DEF Writes, vars
<1>5. LinkTypeOK'
  <2>1. cursor \in Nat /\ produced \in Nat /\ MaxProduced \in Nat
    BY LinkAssumption, BoundsAssumption DEF LinkInv, LinkTypeOK
  <2>2. cursor' \in 0 .. produced' /\ produced' \in 0 .. MaxProduced
    BY <2>1 DEF LinkInv, LinkTypeOK, Writes
  <2>3. streaming' \in BOOLEAN /\ server' \in Sessions \cup {NoSession}
    BY DEF LinkInv, LinkTypeOK, Writes
  <2>. QED BY <1>2, <1>3, <2>2, <2>3 DEF LinkInv, LinkTypeOK
<1>6. LineShape'
  BY WritesShape
\* What the driver reads next, if it is the answer to its bind, was there before.
<1>7. ASSUME NEW types \in SUBSET {"CONOK", "CONERR", "PROG"}
      PROVE  /\ First(types)' <=> First(types)
             /\ First(types) => line'[1] = line[1]
  <2>1. CASE line = <<>>
    <3>1. line'[1] = e
      BY <1>2, <2>1
    <3>. QED BY <1>3, <2>1, <3>1 DEF First, Endings
  <2>2. CASE line # <<>>
    <3>1. line'[1] = line[1]
      BY <1>2, <2>2
    <3>. QED BY <1>2, <2>2, <3>1 DEF First
  <2>. QED BY <2>1, <2>2
<1>8. Pumping /\ Pumping' /\ (Awaiting' <=> Awaiting)
  BY <1>3, <1>4 DEF LinkInv, ConnectionShape, Pumping, Awaiting, streamVars
<1>9. ConnectionShape'
  <2>1. First({"CONOK", "CONERR"})' <=> First({"CONOK", "CONERR"})
    BY <1>7
  <2>. QED BY <1>2, <1>4, <1>8, <2>1 DEF LinkInv, ConnectionShape, streamVars, Pumping
<1>10. SessionShape'
  <2>1. /\ First({"CONOK"})' <=> First({"CONOK"})
        /\ First({"CONOK"}) => line'[1] = line[1]
    BY <1>7
  <2>2. server' \in {server, NoSession} /\ produced' >= produced
    BY LinkAssumption, BoundsAssumption DEF Writes, LinkInv, LinkTypeOK
  <2>3. last \in Nat /\ produced \in Nat /\ produced' \in Nat
    BY <1>5, LinkAssumption, BoundsAssumption DEF LinkInv, ProgressiveIsPosition, TypeInv, TypeOK, RecoveryTypeOK, LinkTypeOK
  <2>4. session # NoSession => last' <= produced' /\ server' \in {session, NoSession}
    BY <1>3, <2>2, <2>3 DEF LinkInv, SessionShape
  <2>. QED BY <1>4, <1>8, <2>1, <2>2, <2>4 DEF LinkInv, SessionShape, sessionVars, streamVars
<1>11. Positions'
  <2>1. /\ First({"CONOK"})' <=> First({"CONOK"})
        /\ First({"PROG"})' <=> First({"PROG"})
        /\ First({"CONOK", "PROG", "CONERR"})' <=> First({"CONOK", "PROG", "CONERR"})
        /\ First({"CONOK"}) \/ First({"PROG"}) => line'[1] = line[1]
    BY <1>7
  <2>2. First({"CONOK"}) => /\ line # <<>>
                            /\ Len(line) >= 2 => line'[2] = line[2]
                            /\ Len(line) < 2 => line'[2] = e
                            /\ Len(line') >= 2
    BY <1>2 DEF First
  <2>3. First({"CONOK"}) => (Len(line') >= 2 /\ line'[2].t = "PROG"
                               <=> Len(line) >= 2 /\ line[2].t = "PROG")
    BY <1>2, <1>3, <2>2 DEF Endings
  <2>4. phase = "pumping" /\ phase' = "pumping"
    BY <1>8 DEF Pumping
  <2>5. First({"CONOK"}) =>
          /\ intent.kind = "create" => Offset' = -1
          /\ intent.kind = "rebind" => Offset' = last - 1
          /\ intent.kind = "recover" <=> Len(line') >= 2 /\ line'[2].t = "PROG"
          /\ intent.kind = "recover" => line'[2].at = Offset' + 2
    BY <1>2, <2>2, <2>3 DEF LinkInv, Positions
  <2>. QED BY <1>2, <1>3, <1>4, <1>8, <2>1, <2>4, <2>5
           DEF LinkInv, Positions, streamVars, recoveryVars
<1>12. ProgressiveIsPosition' /\ QuietUnlessTold'
  BY <1>3, <1>4 DEF LinkInv, recoveryVars, ProgressiveIsPosition, QuietUnlessTold, Told
<1>. QED BY <1>1, <1>5, <1>6, <1>9, <1>10, <1>11, <1>12 DEF LinkInv, WellBehaved

-----------------------------------------------------------------------------
(* The answer to a bind *)

\* What the driver is when it asks: it has read nothing of this connection.
Asking ==
  /\ phase = "opening" /\ line = <<>> /\ streamState = "establishing"
  /\ skipRemaining = 0 /\ ~progHonoured
  /\ BuildOpen.kind = intent.kind
  /\ intent.kind = "create" <=> session = NoSession
  /\ intent.kind \in {"create", "rebind", "recover"}
  /\ intent.kind = "recover" => intent.requested = progressive
  /\ intent.kind = "rebind" => last = cursor

LEMMA EstablishedAsking ==
  ASSUME LinkInv, ServerAnswers
  PROVE  /\ Asking /\ TypeInv'
         /\ phase' = "pumping" /\ out' = {} /\ Told' = "nothing"
         /\ handed' = 0 /\ UNCHANGED <<last, epoch>>
         /\ UNCHANGED <<streamState, intent, sessionVars, recoveryVars>>
<1>1. TypeInv'
  BY ConnectionType DEF LinkInv, ServerAnswers
<1>2. Established /\ handed' = 0 /\ UNCHANGED <<last, epoch>>
  BY DEF ServerAnswers, NothingHandedOn
<1>3. /\ phase = "opening" /\ phase' = "pumping" /\ out' = {}
      /\ UNCHANGED <<streamState, intent, sessionVars, recoveryVars>>
  BY <1>2 DEF Established
<1>4. line = <<>> /\ streamState = "establishing" /\ Awaiting
  BY <1>3 DEF LinkInv, ConnectionShape, Pumping, Awaiting
<1>5. intent.kind \in {"create", "rebind", "recover"}
  BY DEF LinkInv, TypeInv, TypeOK, StreamTypeOK, Intents
<1>6. intent.kind = "create" <=> session = NoSession
  BY <1>4 DEF LinkInv, SessionShape
<1>7. BuildOpen.kind = intent.kind
  BY <1>6 DEF BuildOpen
<1>8. /\ skipRemaining = 0 /\ ~progHonoured
      /\ intent.kind = "recover" => intent.requested = progressive
      /\ intent.kind = "rebind" => last = cursor
  BY <1>3, <1>4 DEF LinkInv, Positions
<1>9. Told' = "nothing"
  BY <1>3, NothingTold
<1>. QED BY <1>1, <1>2, <1>3, <1>4, <1>5, <1>6, <1>7, <1>8, <1>9 DEF Asking

\* The parts of the invariant that do not look into the line.
LEMMA AnswerParts ==
  ASSUME LinkInv, ServerAnswers, Asking,
         line' # <<>>, line'[1].t \in {"CONOK", "CONERR"}
  PROVE  /\ ConnectionShape' /\ ProgressiveIsPosition' /\ QuietUnlessTold'
         /\ Pumping' /\ Awaiting' /\ ~First({"PROG"})'
         /\ First({"CONOK", "PROG", "CONERR"})'
<1>1. /\ phase' = "pumping" /\ Told' = "nothing"
      /\ handed' = 0 /\ UNCHANGED <<last, epoch>>
      /\ UNCHANGED <<streamState, intent, sessionVars, recoveryVars>>
  BY EstablishedAsking
<1>2. ConnectionShape'
  BY <1>1 DEF ConnectionShape, Asking, Pumping, First
<1>3. Pumping' /\ Awaiting' /\ ~First({"PROG"})' /\ First({"CONOK", "PROG", "CONERR"})'
  BY <1>1 DEF Asking, Pumping, Awaiting, First
<1>. QED BY <1>1, <1>2, <1>3 DEF LinkInv, ProgressiveIsPosition, QuietUnlessTold, recoveryVars

LEMMA CreatesInv ==
  ASSUME LinkInv, ServerAnswers, Creates
  PROVE  LinkInv'
<1>1. /\ Asking /\ TypeInv' /\ UNCHANGED <<last, epoch>>
      /\ UNCHANGED <<streamState, intent, sessionVars, recoveryVars>>
  BY EstablishedAsking
<1>2. /\ server' \in Sessions /\ produced' = 0 /\ cursor' = 0 /\ streaming' = TRUE
      /\ line' = <<ConOkLine(server')>> /\ intent.kind = "create" /\ session = NoSession
  BY <1>1 DEF Creates, Asking
<1>3. /\ Len(line') = 1 /\ line' # <<>> /\ line'[1] = ConOkLine(server')
      /\ ConOkLine(server') \in Lines /\ line'[1].t = "CONOK" /\ line'[1].session = server'
  BY <1>2 DEF ConOkLine, Lines
<1>4. LinkTypeOK'
  <2>1. line' \in Seq(Lines)
    BY <1>2, <1>3
  <2>. QED BY <1>1, <1>2, <2>1, LinkAssumption, BoundsAssumption DEF LinkInv, LinkTypeOK
<1>5. Offset' = -1
  BY <1>2, <1>3 DEF Offset
<1>6. LineShape'
  BY <1>2, <1>3 DEF LineShape, Endings
<1>7. /\ ConnectionShape' /\ ProgressiveIsPosition' /\ QuietUnlessTold'
      /\ Pumping' /\ Awaiting' /\ ~First({"PROG"})' /\ First({"CONOK", "PROG", "CONERR"})'
  BY <1>1, <1>3, AnswerParts
<1>8. session' = NoSession /\ intent'.kind = "create" /\ streamState' = "establishing"
  BY <1>1, <1>2 DEF sessionVars, Asking
<1>9. SessionShape'
  BY <1>3, <1>7, <1>8 DEF SessionShape
<1>10. Positions'
  BY <1>1, <1>3, <1>5, <1>7, <1>8 DEF Positions, Asking, recoveryVars, Pumping
<1>. QED BY <1>1, <1>4, <1>6, <1>7, <1>9, <1>10 DEF LinkInv, WellBehaved

LEMMA RebindsInv ==
  ASSUME LinkInv, ServerAnswers, Rebinds
  PROVE  LinkInv'
<1>1. /\ Asking /\ TypeInv' /\ UNCHANGED <<last, epoch>>
      /\ UNCHANGED <<streamState, intent, sessionVars, recoveryVars>>
  BY EstablishedAsking
<1>2. /\ session = server /\ UNCHANGED <<server, produced, cursor>> /\ streaming' = TRUE
      /\ line' = <<ConOkLine(server)>> /\ intent.kind = "rebind" /\ session # NoSession
  BY <1>1 DEF Rebinds, Asking
<1>3. /\ Len(line') = 1 /\ line' # <<>> /\ line'[1] = ConOkLine(server)
      /\ ConOkLine(server) \in Lines /\ line'[1].t = "CONOK" /\ line'[1].session = server
  <2>1. server \in Sessions
    BY <1>2 DEF LinkInv, LinkTypeOK
  <2>. QED BY <1>2, <2>1 DEF ConOkLine, Lines
<1>4. LinkTypeOK'
  <2>1. line' \in Seq(Lines)
    BY <1>2, <1>3
  <2>. QED BY <1>1, <1>2, <2>1 DEF LinkInv, LinkTypeOK
<1>5. Offset' = last - 1
  BY <1>1, <1>2, <1>3 DEF Offset, Asking
<1>6. LineShape'
  BY <1>2, <1>3 DEF LineShape, Endings
<1>7. /\ ConnectionShape' /\ ProgressiveIsPosition' /\ QuietUnlessTold'
      /\ Pumping' /\ Awaiting' /\ ~First({"PROG"})' /\ First({"CONOK", "PROG", "CONERR"})'
  BY <1>1, <1>3, AnswerParts
<1>8. session' = session /\ intent'.kind = "rebind" /\ streamState' = "establishing"
  BY <1>1, <1>2 DEF sessionVars, Asking
<1>9. SessionShape'
  BY <1>1, <1>2, <1>3, <1>7, <1>8 DEF LinkInv, SessionShape
<1>10. Positions'
  BY <1>1, <1>3, <1>5, <1>7, <1>8 DEF Positions, Asking, recoveryVars, Pumping
<1>. QED BY <1>1, <1>4, <1>6, <1>7, <1>9, <1>10 DEF LinkInv, WellBehaved

LEMMA RecoversInv ==
  ASSUME LinkInv, ServerAnswers, Recovers
  PROVE  LinkInv'
<1>1. /\ Asking /\ TypeInv' /\ UNCHANGED <<last, epoch>>
      /\ UNCHANGED <<streamState, intent, sessionVars, recoveryVars>>
  BY EstablishedAsking
<1>2. PICK at \in 0 .. produced :
        cursor' = at /\ line' = <<ConOkLine(server), [t |-> "PROG", at |-> at]>>
  BY DEF Recovers
<1>3. /\ session = server /\ UNCHANGED <<server, produced>> /\ streaming' = TRUE
      /\ intent.kind = "recover" /\ session # NoSession
  BY <1>1 DEF Recovers, Asking
<1>4. at \in Nat /\ at <= produced /\ at \in 0 .. MaxProduced
  BY LinkAssumption, BoundsAssumption DEF LinkInv, LinkTypeOK
<1>5. /\ Len(line') = 2 /\ line' # <<>> /\ line'[1].t = "CONOK" /\ line'[1].session = server
      /\ line'[2].t = "PROG" /\ line'[2].at = at
  BY <1>2 DEF ConOkLine
<1>6. LinkTypeOK'
  <2>1. ConOkLine(server) \in Lines
    <3>1. server \in Sessions
      BY <1>3 DEF LinkInv, LinkTypeOK
    <3>. QED BY <3>1 DEF ConOkLine, Lines
  <2>2. [t |-> "PROG", at |-> at] \in Lines
    BY <1>4 DEF Lines
  <2>3. line' \in Seq(Lines)
    BY <1>2, <2>1, <2>2
  <2>. QED BY <1>1, <1>2, <1>3, <1>4, <2>3 DEF LinkInv, LinkTypeOK
<1>7. Offset' = at - 2
  BY <1>2, <1>3, <1>5 DEF Offset
<1>8. LineShape'
  BY <1>3, <1>5 DEF LineShape, Endings
<1>9. /\ ConnectionShape' /\ ProgressiveIsPosition' /\ QuietUnlessTold'
      /\ Pumping' /\ Awaiting' /\ ~First({"PROG"})' /\ First({"CONOK", "PROG", "CONERR"})'
  BY <1>1, <1>5, AnswerParts
<1>10. session' = session /\ intent' = intent /\ streamState' = "establishing"
       /\ progressive' = progressive
  BY <1>1, <1>3 DEF sessionVars, Asking, recoveryVars
<1>11. SessionShape'
  BY <1>1, <1>3, <1>5, <1>9, <1>10 DEF LinkInv, SessionShape
<1>12. Positions'
  BY <1>1, <1>3, <1>4, <1>5, <1>7, <1>9, <1>10 DEF Positions, Asking, recoveryVars, Pumping
<1>. QED BY <1>1, <1>6, <1>8, <1>9, <1>11, <1>12 DEF LinkInv, WellBehaved

LEMMA RefusesBindInv ==
  ASSUME LinkInv, ServerAnswers, RefusesBind
  PROVE  LinkInv'
<1>1. /\ Asking /\ TypeInv' /\ UNCHANGED <<last, epoch>>
      /\ UNCHANGED <<streamState, intent, sessionVars, recoveryVars>>
  BY EstablishedAsking
<1>2. PICK code \in {4, 20} : line' = <<[t |-> "CONERR", code |-> code]>>
  BY DEF RefusesBind
<1>3. /\ server' = NoSession /\ UNCHANGED <<produced, cursor>> /\ streaming' = FALSE
      /\ session # NoSession /\ intent.kind # "create"
  BY <1>1 DEF RefusesBind, Asking
<1>4. /\ Len(line') = 1 /\ line' # <<>> /\ line'[1].t = "CONERR"
  BY <1>2
<1>5. LinkTypeOK'
  <2>1. [t |-> "CONERR", code |-> code] \in Lines
    BY DEF Lines
  <2>2. line' \in Seq(Lines)
    BY <1>2, <2>1
  <2>. QED BY <1>1, <1>3, <2>2 DEF LinkInv, LinkTypeOK
<1>6. LineShape'
  BY <1>3, <1>4 DEF LineShape, Endings
<1>7. /\ ConnectionShape' /\ ProgressiveIsPosition' /\ QuietUnlessTold'
      /\ Pumping' /\ Awaiting' /\ ~First({"PROG"})' /\ First({"CONOK", "PROG", "CONERR"})'
  BY <1>1, <1>4, AnswerParts
<1>8. session' = session /\ intent' = intent /\ streamState' = "establishing"
      /\ progressive' = progressive
  BY <1>1, <1>3 DEF sessionVars, Asking, recoveryVars
<1>9. ~First({"CONOK"})'
  BY <1>4 DEF First
<1>10. SessionShape'
  BY <1>1, <1>3, <1>7, <1>8, <1>9 DEF LinkInv, SessionShape, Asking
<1>11. Positions'
  BY <1>1, <1>7, <1>8, <1>9 DEF Positions, Asking, recoveryVars, Pumping
<1>. QED BY <1>1, <1>5, <1>6, <1>7, <1>10, <1>11 DEF LinkInv, WellBehaved

-----------------------------------------------------------------------------
(* Reading a line *)

LEMMA ReadsWhat ==
  ASSUME LinkInv, ReadsLine
  PROVE  /\ line # <<>> /\ line[1] \in Lines /\ Head(line) = line[1] /\ line[1].t # "EOF"
         /\ Pumping /\ OnLine(line[1])
         /\ LineShape' /\ Offset' = Offset + 1 /\ Offset \in Int
<1>1. /\ line # <<>> /\ Head(line) # EndOfStream /\ OnLine(Head(line)) /\ line' = Tail(line)
      /\ UNCHANGED <<produced, cursor, streaming>>
  BY DEF ReadsLine
<1>2. /\ Head(line) = line[1] /\ line[1] \in Lines
      /\ Len(line) \in Nat /\ Len(line) >= 1 /\ Len(line') = Len(line) - 1
      /\ \A i \in 1 .. Len(line') : line'[i] = line[i + 1]
      /\ line' # <<>> <=> Len(line) >= 2
  BY <1>1, Reading DEF LinkInv
<1>3. LineShape' /\ Offset' = Offset + 1
  BY <1>1, <1>2, RestShape DEF LinkInv
<1>4. line[1].t # "EOF"
  BY <1>1, <1>2, LineFields
<1>5. cursor \in Nat
  BY LinkAssumption, BoundsAssumption DEF LinkInv, LinkTypeOK
<1>6. Offset \in Int
  BY <1>2, <1>5 DEF Offset
<1>. QED BY <1>1, <1>2, <1>3, <1>4, <1>6 DEF OnLine, Pumping

\* What a line that announces the end of a stream, or refuses a bind, does.
LEMMA LeavingLineInv ==
  ASSUME LinkInv, ReadsLine, line[1].t \in {"CONERR", "LOOP", "END"}
  PROVE  LinkInv' /\ NothingHandedOn /\ Told' = "nothing"
<1>1. /\ line # <<>> /\ line[1] \in Lines /\ Head(line) = line[1] /\ OnLine(line[1]) /\ Pumping
  BY ReadsWhat
<1>2. line' = Tail(line) /\ UNCHANGED <<server, produced, cursor, streaming>>
  BY DEF ReadsLine
<1>3. line' = <<>> /\ streaming = FALSE
  <2>1. CASE line[1].t \in Endings
    BY <1>1, <1>2, <2>1, CaughtUp
  <2>2. CASE line[1].t = "CONERR"
    <3>1. Len(line) \in Nat /\ 1 \in 1 .. Len(line)
      BY <1>1, LineElements DEF LinkInv, LinkTypeOK
    <3>2. Len(line) = 1 /\ ~streaming
      BY <2>2, <3>1 DEF LinkInv, LineShape
    <3>3. line' = <<>>
      BY <1>1, <1>2, <3>2, Reading DEF LinkInv
    <3>. QED BY <3>2, <3>3 DEF LinkInv, LinkTypeOK
  <2>. QED BY <2>1, <2>2 DEF Endings
<1>4. /\ line[1].t = "CONERR" => OnConErr(line[1].code) /\ line[1].code \in {4, 20}
      /\ line[1].t = "LOOP" => OnLoop(FALSE)
      /\ line[1].t = "END" => OnEnd(48)
  BY <1>1, LineFields DEF OnLine
<1>5. TypeInv'
  <2>1. line[1].t = "CONERR" => line[1].code \in Int /\ OnConErr(line[1].code)
    BY <1>4
  <2>2. 48 \in Int /\ FALSE \in BOOLEAN
    OBVIOUS
  <2>. QED BY <1>4, <2>1, <2>2, StreamLineType DEF LinkInv
<1>6. \E kind \in {"create", "rebind", "recover"} :
        /\ Leaves(kind)
        /\ session' \in {session, NoSession} /\ (kind = "create" <=> session' = NoSession)
        /\ kind = "rebind" => last = cursor
  <2>1. CASE line[1].t = "CONERR"
    <3>1. Classify(line[1].code) # "fatal"
      BY <1>4, <2>1 DEF Classify
    <3>2. session' = NoSession /\ PlanCreate /\ Unbinds
      BY <1>4, <2>1, <3>1 DEF OnConErr
    <3>. QED BY <3>2, DroppedLeaves
  <2>2. CASE line[1].t = "LOOP"
    <3>1. session # NoSession /\ last = cursor
      BY <1>1, <2>2, CaughtUp DEF Endings
    <3>2. Leaves("rebind") /\ session' = session
      BY <1>4, <2>2, LoopLeaves DEF OnLoop, sessionVars
    <3>. QED BY <3>1, <3>2
  <2>3. CASE line[1].t = "END"
    <3>1. session # NoSession
      BY <1>1, <2>3, CaughtUp DEF Endings
    <3>2. CASE Closes("byClientConfirmed")
      <4>1. Leaves("recover") /\ session' = session
        BY <3>2, ClosesLeaves DEF Closes, ClosesAfter, sessionVars
      <4>. QED BY <3>1, <4>1
    <3>3. CASE session' = NoSession /\ (PlanRefresh \/ PlanCreate) /\ Unbinds
      BY <3>3, DroppedLeaves
    <3>4. Classify(48) = "recreate"
      BY DEF Classify
    <3>. QED BY <1>4, <2>3, <3>2, <3>3, <3>4 DEF OnEnd
  <2>. QED BY <2>1, <2>2, <2>3
<1>7. NothingHandedOn
  <2>1. ~HandsOn(Head(line))
    BY <1>1 DEF HandsOn
  <2>2. ~GapReported /\ generation' = generation
    <3>1. [ev |-> "recovered", kind |-> "gap"].ev \notin {"unbound", "closed"}
      OBVIOUS
    <3>. QED BY <1>6, <3>1 DEF Leaves, GapReported, controlVars
  <2>. QED BY <2>1, <2>2 DEF ReadsLine, NothingHandedOn
<1>. QED BY <1>2, <1>3, <1>5, <1>6, <1>7, LeavesInv

\* A line that keeps the connection: the driver goes on pumping, bound.
Goes ==
  /\ phase' = "pumping" /\ streamState' = "bound" /\ intent' = intent
  /\ session' # NoSession

\* The parts of the invariant that depend on no more than that.
LEMMA GoesParts ==
  ASSUME LinkInv, ReadsLine, line[1].t \in {"CONOK", "PROG", "UPDATE"}, Goes,
         last' <= produced, server \in {session', NoSession}
  PROVE  /\ LinkTypeOK' /\ ConnectionShape' /\ SessionShape'
         /\ Pumping' /\ ~Awaiting' /\ ~First({"CONOK"})'
         /\ First({"CONOK", "PROG", "CONERR"})' <=> First({"PROG"})'
         /\ Len(line) \in Nat /\ Len(line) >= 1
         /\ line' # <<>> <=> Len(line) >= 2
         /\ \A i \in 1 .. Len(line) - 1 : line'[i] = line[i + 1]
<1>1. /\ line # <<>> /\ line' = Tail(line) /\ UNCHANGED <<server, produced, cursor, streaming>>
      /\ epoch' \in {epoch, epoch + 1}
  BY DEF ReadsLine
<1>2. /\ line' \in Seq(Lines) /\ Len(line) \in Nat /\ Len(line) >= 1
      /\ Len(line') = Len(line) - 1
      /\ \A i \in 1 .. Len(line') : line'[i] = line[i + 1]
      /\ line' # <<>> <=> Len(line) >= 2
  BY <1>1, Reading DEF LinkInv
<1>3. LinkTypeOK'
  BY <1>1, <1>2 DEF LinkInv, LinkTypeOK
<1>4. streaming \/ line' # <<>>
  <2>1. SUFFICES ASSUME ~streaming PROVE line' # <<>>
    OBVIOUS
  <2>2. line[Len(line)].t \in Endings \cup {"CONERR"}
    BY <1>1, <2>1 DEF LinkInv, LineShape
  <2>. QED BY <1>2, <2>2 DEF Endings
<1>5. ~First({"CONOK", "CONERR"})'
  <2>1. SUFFICES ASSUME line' # <<>> PROVE line'[1].t \notin {"CONOK", "CONERR"}
    BY DEF First
  <2>2. 2 \in 1 .. Len(line) /\ 1 \in 1 .. Len(line')
    BY <1>2, <2>1
  <2>3. line[2].t \notin {"CONOK", "CONERR"} /\ line'[1] = line[2]
    BY <1>2, <2>2 DEF LinkInv, LineShape
  <2>. QED BY <2>3
<1>6. Pumping' /\ ~Awaiting'
  BY DEF Goes, Pumping, Awaiting
<1>7. ConnectionShape'
  BY <1>1, <1>4, <1>5 DEF ConnectionShape, Goes, Pumping
<1>8. ~First({"CONOK"})' /\ (First({"CONOK", "PROG", "CONERR"})' <=> First({"PROG"})')
  BY <1>5 DEF First
<1>9. SessionShape'
  BY <1>1, <1>6, <1>8 DEF SessionShape, Goes
<1>. QED BY <1>2, <1>3, <1>6, <1>7, <1>8, <1>9
\* What a bind reports, and what it resets.
LEMMA ConOkTells ==
  ASSUME NEW s, OnConOk(s)
  PROVE  /\ ~GapReported
         /\ Fresh(s) => Told' = "replaced"
         /\ ~Fresh(s) => Told' = "nothing"
<1> DEFINE bound == BindEvent(s)
<1>1. \A e \in out' : e = bound \/ e.ev \in {"response", "message", "resubscribed"}
  BY ConOkEvents
<1>2. bound.ev = "bound" /\ bound.kind = BindKind(s) /\ bound \in out'
  BY ConOkEvents DEF BindEvent
<1>3. [ev |-> "recovered", kind |-> "gap"].ev = "recovered"
  OBVIOUS
<1>4. ~GapReported
  BY <1>1, <1>2, <1>3 DEF GapReported
<1>5. (\E e \in out' : e.ev = "bound" /\ e.kind \in {"created", "recreated"}) <=> Fresh(s)
  <2>. HIDE DEF bound
  <2>. QED BY <1>1, <1>2 DEF Fresh
<1>. QED BY <1>4, <1>5 DEF Told, GapReported

LEMMA ConOkLineInv ==
  ASSUME LinkInv, ReadsLine, line[1].t = "CONOK"
  PROVE  /\ LinkInv' /\ handed' = 0
         /\ \/ Told' = "nothing" /\ UNCHANGED <<last, epoch>>
            \/ Told' = "replaced" /\ last' = 0 /\ epoch' = epoch + 1
<1> DEFINE s == line[1].session
<1>1. /\ line # <<>> /\ line[1] \in Lines /\ Head(line) = line[1] /\ Pumping /\ OnLine(line[1])
      /\ LineShape' /\ Offset' = Offset + 1 /\ Offset \in Int
  BY ReadsWhat
<1>2. OnConOk(s) /\ s \in Sessions
  BY <1>1, LineFields DEF OnLine
<1>3. /\ phase' = "pumping" /\ streamState' = "bound" /\ session' = s
      /\ UNCHANGED <<intent, progHonoured>>
      /\ progressive' = IF Fresh(s) THEN 0 ELSE progressive
      /\ skipRemaining' = IF Fresh(s) THEN 0 ELSE skipRemaining
      /\ generation' = IF Fresh(s) THEN generation + 1 ELSE generation
  BY <1>1, <1>2 DEF OnConOk, Pumping
<1>4. First({"CONOK"}) /\ First({"CONOK", "CONERR"}) /\ Awaiting
  BY <1>1 DEF First, LinkInv, ConnectionShape, Awaiting, Pumping
<1>5. /\ skipRemaining = 0 /\ ~progHonoured
      /\ intent.kind = "recover" => intent.requested = progressive
      /\ intent.kind = "create" => Offset = -1
      /\ intent.kind = "rebind" => Offset = last - 1
      /\ intent.kind = "recover" <=> Len(line) >= 2 /\ line[2].t = "PROG"
      /\ intent.kind = "recover" => line[2].at = Offset + 2
  BY <1>4 DEF LinkInv, Positions
<1>6. /\ intent.kind = "create" <=> session = NoSession
      /\ server \in {s, NoSession}
      /\ intent.kind # "create" => s = session
      /\ intent.kind \in {"create", "rebind", "recover"}
  BY <1>4 DEF LinkInv, SessionShape, TypeInv, TypeOK, StreamTypeOK, Intents
\* A new session was asked for, and only then is it reported as one.
<1>7. Fresh(s) <=> intent.kind = "create"
  BY <1>6 DEF Fresh, BindKind, Previous
<1>8. ~HandsOn(Head(line)) /\ ~GapReported
  BY <1>1, <1>2, ConOkTells DEF HandsOn
<1>9. generation \in Nat /\ progressive \in Nat /\ progressive = last
  BY BoundsAssumption DEF LinkInv, TypeInv, TypeOK, RequestTypeOK, RecoveryTypeOK,
                          ProgressiveIsPosition
<1>10. generation' # generation <=> Fresh(s)
  BY <1>3, <1>9
<1>11. handed' = 0 /\ last' = IF Fresh(s) THEN 0 ELSE last
  BY <1>8, <1>10 DEF ReadsLine
<1>12. TypeInv'
  BY <1>2, OnConOkType DEF LinkInv
<1>13. last' <= produced
  BY <1>6, <1>7, <1>9, <1>11, LinkAssumption, BoundsAssumption
  DEF LinkInv, SessionShape, LinkTypeOK
<1>14. Goes /\ server \in {session', NoSession}
  BY <1>2, <1>3, <1>6, SessionsAssumption DEF Goes
<1>15. /\ LinkTypeOK' /\ ConnectionShape' /\ SessionShape'
       /\ Pumping' /\ ~Awaiting' /\ ~First({"CONOK"})'
       /\ First({"CONOK", "PROG", "CONERR"})' <=> First({"PROG"})'
       /\ Len(line) \in Nat /\ Len(line) >= 1
       /\ line' # <<>> <=> Len(line) >= 2
       /\ \A i \in 1 .. Len(line) - 1 : line'[i] = line[i + 1]
  BY <1>13, <1>14, GoesParts
<1>16. /\ First({"PROG"})' <=> intent.kind = "recover"
       /\ intent.kind = "recover" => line'[1].at = Offset + 2
  <2>1. line' # <<>> => line'[1] = line[2]
    BY <1>15
  <2>. QED BY <1>5, <1>15, <2>1 DEF First
<1>17. Positions'
  <2>1. CASE intent.kind = "recover"
    <3>1. /\ intent' = intent /\ progHonoured' = progHonoured /\ skipRemaining' = 0
          /\ progressive' = progressive
      BY <1>3, <1>5, <1>7, <2>1
    <3>2. line'[1].at = Offset' + 1
      BY <1>1, <1>16, <2>1
    <3>. QED BY <1>3, <1>5, <1>15, <1>16, <2>1, <3>1, <3>2 DEF Positions, Pumping
  <2>2. CASE intent.kind # "recover"
    <3>1. ~First({"PROG"})' /\ ~First({"CONOK", "PROG", "CONERR"})'
      BY <1>15, <1>16, <2>2
    <3>2. last' - skipRemaining' = Offset'
      BY <1>1, <1>3, <1>5, <1>6, <1>7, <1>9, <1>11, <2>2
    <3>. QED BY <1>3, <1>15, <3>1, <3>2 DEF Positions, Pumping
  <2>. QED BY <2>1, <2>2
<1>18. ProgressiveIsPosition' /\ QuietUnlessTold'
  BY <1>3, <1>9, <1>11 DEF ProgressiveIsPosition, QuietUnlessTold
<1>19. \/ Told' = "nothing" /\ UNCHANGED <<last, epoch>>
       \/ Told' = "replaced" /\ last' = 0 /\ epoch' = epoch + 1
  <2>1. epoch' = IF generation' # generation THEN epoch + 1 ELSE epoch
    BY DEF ReadsLine
  <2>. QED BY <1>2, <1>10, <1>11, <2>1, ConOkTells
<1>. QED BY <1>1, <1>11, <1>12, <1>15, <1>17, <1>18, <1>19 DEF LinkInv, WellBehaved

\* After the bind the first line is no answer to one.
LEMMA PastTheBind ==
  ASSUME LinkInv, Pumping, line # <<>>, line[1].t \in {"PROG", "UPDATE"}
  PROVE  /\ streamState = "bound" /\ session # NoSession
         /\ last <= produced /\ server \in {session, NoSession}
         /\ cursor \in Nat /\ produced \in Nat /\ cursor <= produced
         /\ produced <= ProgressiveMax /\ ProgressiveMax \in Nat
         /\ Offset + 1 <= cursor
<1>1. ~First({"CONOK", "CONERR"})
  BY DEF First
<1>2. streamState = "bound"
  BY <1>1 DEF LinkInv, ConnectionShape, TypeInv, TypeOK, StreamTypeOK
<1>3. session # NoSession /\ last <= produced /\ server \in {session, NoSession}
  BY <1>2 DEF LinkInv, SessionShape
<1>4. /\ cursor \in Nat /\ produced \in Nat /\ cursor <= produced
      /\ produced <= ProgressiveMax /\ ProgressiveMax \in Nat
  BY LinkAssumption, BoundsAssumption DEF LinkInv, LinkTypeOK
<1>5. Len(line) \in Nat /\ Len(line) >= 1
  BY LineElements DEF LinkInv, LinkTypeOK
\* A stream that has ended has its ending behind this line.
<1>6. ~streaming => Len(line) >= 2
  <2>1. ~streaming => line[Len(line)].t \in Endings \cup {"CONERR"}
    BY DEF LinkInv, LineShape
  <2>. QED BY <1>5, <2>1 DEF Endings
<1>7. Offset + 1 <= cursor
  BY <1>4, <1>5, <1>6 DEF Offset
<1>. QED BY <1>2, <1>3, <1>4, <1>7
\* The count is set where the server resumes, and what it sends again is skipped.
LEMMA ProgTells ==
  ASSUME LinkInv, ReadsLine, line[1].t = "PROG"
  PROVE  /\ OnProg(line[1].at) /\ line[1].at \in 0 .. MaxProduced
         /\ line[1].at = Offset + 1 /\ line[1].at <= produced
         /\ intent.requested = last /\ handed' = 0 /\ generation' = generation
         /\ UNCHANGED <<streamVars, sessionVars, epoch>>
         /\ progressive' = last' /\ last' - skipRemaining' = line[1].at /\ last' <= produced
         /\ \/ last' = last /\ Told' = "nothing"
            \/ last' > last /\ Told' = "gap"
<1> DEFINE at == line[1].at
<1>1. /\ line # <<>> /\ line[1] \in Lines /\ Head(line) = line[1] /\ Pumping /\ OnLine(line[1])
  BY ReadsWhat
<1>2. OnProg(at) /\ at \in 0 .. MaxProduced
  BY <1>1, LineFields DEF OnLine
<1>3. /\ at = Offset + 1 /\ skipRemaining = 0 /\ intent.requested = progressive
  BY <1>1 DEF LinkInv, Positions, First
<1>4. progressive = last /\ last \in Nat /\ generation \in Nat
  BY BoundsAssumption DEF LinkInv, TypeInv, TypeOK, RequestTypeOK, RecoveryTypeOK,
                          ProgressiveIsPosition
<1>5. at \in Nat /\ at <= produced
  <2>1. at \in Nat
    BY <1>2, LinkAssumption, BoundsAssumption
  <2>2. Offset + 1 <= cursor /\ cursor \in Nat /\ produced \in Nat /\ cursor <= produced
    BY <1>1, PastTheBind
  <2>. QED BY <1>3, <2>1, <2>2
<1>6. UNCHANGED <<streamVars, sessionVars>> /\ generation' = generation
  BY <1>2 DEF OnProg, controlVars
<1>7. ~HandsOn(Head(line))
  BY <1>1 DEF HandsOn
<1>8. handed' = 0 /\ epoch' = epoch /\ last' = IF GapReported THEN at ELSE last
  BY <1>1, <1>6, <1>7 DEF ReadsLine
<1>9. last <= produced
  BY <1>1, PastTheBind
<1>10. CASE at <= intent.requested
  <2>1. /\ progressive' = progressive /\ skipRemaining' = progressive - at
        /\ out' = {[ev |-> "recovered", kind |-> "exact"]}
             \/ out' = {[ev |-> "recovered", kind |-> "duplicated"]}
    BY <1>2, <1>3, <1>4, <1>5, <1>10 DEF OnProg
  <2>2. ~GapReported /\ Told' = "nothing"
    <3>1. [ev |-> "recovered", kind |-> "gap"].kind = "gap"
      OBVIOUS
    <3>2. \A e \in out' : e.ev = "recovered" /\ e.kind \in {"exact", "duplicated"}
      BY <2>1
    <3>3. [ev |-> "recovered", kind |-> "gap"] \notin out'
      BY <3>1, <3>2
    <3>. QED BY <3>2, <3>3 DEF GapReported, Told
  <2>. QED BY <1>2, <1>3, <1>4, <1>5, <1>6, <1>8, <1>9, <2>1, <2>2
<1>11. CASE at > intent.requested
  <2>1. /\ progressive' = at /\ skipRemaining' = 0
        /\ out' = {[ev |-> "recovered", kind |-> "gap"]}
    BY <1>2, <1>3, <1>4, <1>5, <1>11 DEF OnProg
  <2>2. GapReported /\ Told' = "gap"
    BY <2>1 DEF GapReported, Told
  <2>. QED BY <1>2, <1>3, <1>4, <1>5, <1>6, <1>8, <1>11, <2>1, <2>2
<1>. QED BY <1>3, <1>4, <1>5, <1>10, <1>11

\* A datum is skipped while there is something to skip, and is otherwise the next one
\* the caller has not had; the counter is never at its width.
LEMMA DatumTells ==
  ASSUME LinkInv, ReadsLine, line[1].t = "UPDATE"
  PROVE  /\ TypeInv' /\ Told' = "nothing" /\ generation' = generation
         /\ UNCHANGED <<streamVars, sessionVars, epoch>>
         /\ progressive' = last' /\ last' - skipRemaining' = Offset + 1 /\ last' <= produced
         /\ \/ last' = last /\ handed' = 0
            \/ last' = last + 1 /\ handed' = last'
<1>1. /\ line # <<>> /\ line[1] \in Lines /\ Head(line) = line[1] /\ Pumping /\ OnLine(line[1])
      /\ Offset \in Int
  BY ReadsWhat
<1>2. SkipsDuplicate \/ OnUpdate(NoId)
  BY <1>1, LineFields DEF OnLine
<1>3. ~First({"CONOK", "PROG", "CONERR"}) /\ ~First({"CONOK"})
  BY <1>1 DEF First
<1>4. last - skipRemaining = Offset
  BY <1>1, <1>3 DEF LinkInv, Positions
<1>5. line[1].position = Offset + 1
  <2>1. 1 \in 1 .. Len(line)
    BY <1>1, LineElements DEF LinkInv, LinkTypeOK
  <2>. QED BY <1>1, <2>1 DEF LinkInv, LineShape
<1>6. /\ progressive = last /\ last \in Nat /\ generation \in Nat /\ skipRemaining \in Nat
  BY BoundsAssumption DEF LinkInv, TypeInv, TypeOK, RequestTypeOK, RecoveryTypeOK,
                          ProgressiveIsPosition
<1>7. /\ last <= produced /\ Offset + 1 <= cursor /\ cursor <= produced
      /\ produced <= ProgressiveMax /\ ProgressiveMax \in Nat /\ produced \in Nat /\ cursor \in Nat
  BY <1>1, PastTheBind
<1>8. TypeInv'
  BY <1>2, SkipsType, SubscriptionLineType DEF LinkInv, NoId
<1>9. Told' = "nothing"
  BY <1>2, NothingTold DEF SkipsDuplicate, OnUpdate, SubscriptionEvent, Continuity
<1>10. UNCHANGED <<streamVars, sessionVars>> /\ generation' = generation
  BY <1>2 DEF SkipsDuplicate, OnUpdate, Counts, controlVars
<1>11. ~GapReported /\ epoch' = epoch
  BY <1>1, <1>9, <1>10 DEF Told, GapReported, ReadsLine
<1>12. CASE SkipsDuplicate
  <2>1. skipRemaining > 0 /\ skipRemaining' = skipRemaining - 1 /\ progressive' = progressive
    BY <1>12 DEF SkipsDuplicate
  <2>2. ~HandsOn(Head(line))
    BY <1>1, <2>1 DEF HandsOn
  <2>3. handed' = 0 /\ last' = last
    BY <1>10, <1>11, <2>2 DEF ReadsLine
  <2>. QED BY <1>4, <1>6, <1>7, <1>8, <1>9, <1>10, <1>11, <2>1, <2>3
<1>13. CASE OnUpdate(NoId)
  <2>1. skipRemaining = 0 /\ skipRemaining' = 0 /\ progressive' = Incremented(progressive)
    BY <1>13 DEF OnUpdate, Counts
  <2>2. HandsOn(Head(line))
    BY <1>1, <2>1 DEF HandsOn
  <2>3. handed' = line[1].position /\ last' = handed'
    <3>1. handed' = IF HandsOn(Head(line)) THEN Head(line).position ELSE 0
      BY DEF ReadsLine
    <3>2. last' = IF HandsOn(Head(line)) THEN handed'
                  ELSE IF GapReported THEN Head(line).at
                  ELSE IF generation' # generation THEN 0
                  ELSE last
      BY DEF ReadsLine
    <3>. QED BY <1>1, <1>10, <1>11, <2>2, <3>1, <3>2
  <2>4. last = Offset /\ progressive' = last + 1
    BY <1>4, <1>6, <1>7, <2>1 DEF Incremented
  <2>. QED BY <1>5, <1>6, <1>7, <1>8, <1>9, <1>10, <1>11, <2>1, <2>3, <2>4
<1>. QED BY <1>2, <1>12, <1>13

LEMMA DataLineInv ==
  ASSUME LinkInv, ReadsLine, line[1].t \in {"PROG", "UPDATE"}
  PROVE  LinkInv'
<1>1. /\ line # <<>> /\ LineShape' /\ Offset' = Offset + 1 /\ Offset \in Int /\ Pumping
  BY ReadsWhat
<1>2. /\ streamState = "bound" /\ session # NoSession /\ server \in {session, NoSession}
      /\ last <= produced /\ produced \in Nat
  BY <1>1, PastTheBind
<1>3. /\ UNCHANGED <<streamVars, sessionVars>> /\ progressive' = last'
      /\ last' - skipRemaining' = Offset' /\ last' <= produced
      /\ Told' # "nothing" => handed' = 0
  <2>1. CASE line[1].t = "PROG"
    BY <1>1, <2>1, ProgTells
  <2>2. CASE line[1].t = "UPDATE"
    BY <1>1, <2>2, DatumTells
  <2>. QED BY <2>1, <2>2
<1>4. TypeInv'
  <2>1. CASE line[1].t = "PROG"
    <3>1. line[1].at \in 0 .. ProgressiveMax /\ OnProg(line[1].at)
      BY <2>1, ProgTells, LinkAssumption, BoundsAssumption
    <3>. QED BY <3>1, OnProgType DEF LinkInv
  <2>2. CASE line[1].t = "UPDATE"
    BY <2>2, DatumTells
  <2>. QED BY <2>1, <2>2
<1>5. Goes
  BY <1>1, <1>2, <1>3 DEF Goes, streamVars, sessionVars, Pumping
<1>6. /\ LinkTypeOK' /\ ConnectionShape' /\ SessionShape'
      /\ Pumping' /\ ~Awaiting' /\ ~First({"CONOK"})'
      /\ First({"CONOK", "PROG", "CONERR"})' <=> First({"PROG"})'
      /\ Len(line) \in Nat /\ Len(line) >= 1
      /\ line' # <<>> <=> Len(line) >= 2
      /\ \A i \in 1 .. Len(line) - 1 : line'[i] = line[i + 1]
  BY <1>2, <1>3, <1>5, GoesParts DEF sessionVars
<1>7. ~First({"PROG"})'
  <2>1. SUFFICES ASSUME line' # <<>> PROVE line'[1].t # "PROG"
    BY DEF First
  <2>2. 2 \in 1 .. Len(line) /\ line'[1] = line[2]
    BY <1>6, <2>1
  <2>3. line[2].t # "PROG"
    BY <2>2 DEF LinkInv, LineShape
  <2>. QED BY <2>2, <2>3
<1>8. Positions'
  BY <1>3, <1>6, <1>7 DEF Positions, Pumping
<1>. QED BY <1>1, <1>3, <1>4, <1>6, <1>8
     DEF LinkInv, WellBehaved, ProgressiveIsPosition, QuietUnlessTold

-----------------------------------------------------------------------------
(* The invariant *)

LEMMA LinkInitInv == LinkInit /\ WellBehaved => LinkInv
<1> SUFFICES ASSUME LinkInit, WellBehaved PROVE LinkInv
  OBVIOUS
<1>1. TypeInv
  BY TypeInit DEF LinkInit
<1>2. /\ line = <<>> /\ ~streaming /\ phase = "opening" /\ session = NoSession
      /\ intent.kind = "create" /\ progressive = 0 /\ last = 0 /\ skipRemaining = 0
      /\ ~progHonoured /\ streamState = "establishing" /\ handed = 0
  BY DEF LinkInit, Init
<1>3. Len(line) = 0 /\ line \in Seq(Lines)
  BY <1>2
<1>4. LinkTypeOK
  <2>1. /\ server = NoSession /\ produced = 0 /\ cursor = 0 /\ streaming = FALSE /\ epoch = 0
        /\ MaxProduced \in Nat
    BY LinkAssumption, BoundsAssumption DEF LinkInit
  <2>2. produced \in 0 .. MaxProduced /\ cursor \in 0 .. produced
    BY <2>1
  <2>3. server \in Sessions \cup {NoSession} /\ streaming \in BOOLEAN /\ epoch \in Nat
    BY <2>1
  <2>. QED BY <1>3, <2>2, <2>3 DEF LinkTypeOK
<1>5. LineShape
  BY <1>2, <1>3 DEF LineShape
<1>6. ~First({"CONOK"}) /\ ~First({"CONOK", "CONERR"}) /\ ~First({"PROG"})
  BY <1>2 DEF First
<1>. QED BY <1>1, <1>2, <1>4, <1>5, <1>6
     DEF LinkInv, ConnectionShape, SessionShape, Positions, Pumping, Awaiting,
         ProgressiveIsPosition, QuietUnlessTold

LEMMA StaysInv ==
  ASSUME LinkInv, UNCHANGED allVars
  PROVE  LinkInv'
<1>1. TypeInv'
  BY StutterType DEF LinkInv, allVars
<1>2. UNCHANGED <<phase, streamState, intent, session, progressive, skipRemaining,
                  progHonoured, out, server, produced, cursor, streaming, line,
                  last, handed, epoch>>
  BY DEF allVars, vars, streamVars, sessionVars, recoveryVars, linkVars, feedVars
<1>. QED BY <1>1, <1>2
     DEF LinkInv, WellBehaved, LinkTypeOK, LineShape, Offset, ConnectionShape, SessionShape,
         Positions, Pumping, Awaiting, First, ProgressiveIsPosition, QuietUnlessTold, Told

LEMMA LinkNextInv ==
  ASSUME LinkInv, [LinkNext]_allVars
  PROVE  LinkInv'
<1>1. CASE ServerAnswers
  BY <1>1, CreatesInv, RebindsInv, RecoversInv, RefusesBindInv DEF ServerAnswers
<1>2. CASE ServerSends \/ ServerEndsStream
  BY <1>2, ServerWrites, WritesInv
<1>3. CASE Disconnected \/ ReadsEnd \/ Waits
  BY <1>3, DisconnectedInv, ReadsEndInv, WaitsInv
<1>4. CASE ReadsLine
  <2>1. line[1] \in Lines /\ line[1].t # "EOF"
    BY <1>4, ReadsWhat
  <2>2. line[1].t \in {"CONOK", "PROG", "UPDATE", "CONERR", "LOOP", "END"}
    BY <2>1, LineFields DEF Endings
  <2>. QED BY <1>4, <2>2, ConOkLineInv, DataLineInv, LeavingLineInv
<1>5. CASE UNCHANGED allVars
  BY <1>5, StaysInv
<1>. QED BY <1>1, <1>2, <1>3, <1>4, <1>5 DEF LinkNext

LEMMA LinkInvariant == WellBehaved /\ LinkSpec => []LinkInv
<1>1. LinkInit /\ WellBehaved => LinkInv
  BY LinkInitInv
<1>2. LinkInv /\ [LinkNext]_allVars => LinkInv'
  BY LinkNextInv
<1>. QED BY <1>1, <1>2, PTL DEF LinkSpec

\* Whatever sequence of losses, rebinds, recoveries and replaced sessions has passed,
\* the count the driver keeps is the position of the last notification it handed on,
\* so a recovery asks for exactly what the caller has not had.
THEOREM CountIsPosition ==
  WellBehaved => (LinkSpec => []ProgressiveIsPosition)
<1>1. LinkInv => ProgressiveIsPosition
  BY DEF LinkInv
<1>. QED BY <1>1, LinkInvariant, PTL

\* The driver discards the notifications it has handed on before, and no other: while
\* it skips, the data in flight are numbered from the point the skip is counted from.
THEOREM SkipIsReplay ==
  WellBehaved => (LinkSpec => []SkipMatchesReplay)
<1>1. LinkInv => SkipMatchesReplay
  <2>1. SUFFICES ASSUME LinkInv, NEW i \in 1 .. Len(line), line[i].t = "UPDATE",
                        \A j \in 1 .. i - 1 : line[j].t = "UPDATE"
                 PROVE  line[i].position = last - skipRemaining + i
    BY DEF SkipMatchesReplay
  <2>2. Len(line) \in Nat /\ line # <<>> /\ i \in Nat /\ i >= 1
    BY <2>1, LineElements DEF LinkInv, LinkTypeOK
  <2>3. line[1].t = "UPDATE"
    BY <2>1, <2>2
  <2>4. Pumping /\ ~First({"CONOK", "PROG", "CONERR"})
    BY <2>1, <2>2, <2>3 DEF LinkInv, ConnectionShape, First
  <2>5. last - skipRemaining = Offset
    BY <2>1, <2>4 DEF LinkInv, Positions
  <2>6. line[i].position = Offset + i
    BY <2>1 DEF LinkInv, LineShape
  <2>. QED BY <2>5, <2>6
<1>. QED BY <1>1, LinkInvariant, PTL

-----------------------------------------------------------------------------
(* The reliable feed *)

\* A step that reads no line does nothing to the feed and tells nothing; or it is the
\* server's own, and leaves the driver as it was.
LEMMA SilentFeed ==
  ASSUME LinkInv, \/ ServerAnswers \/ ServerSends \/ ServerEndsStream
                  \/ Disconnected \/ ReadsEnd \/ Waits
  PROVE  [Feed!Next]_(Feed!vars)
<1>1. handed' = 0 /\ UNCHANGED <<last, epoch>>
  BY DEF ServerAnswers, ServerSends, ServerEndsStream, Disconnected, ReadsEnd, Waits,
         NothingHandedOn
<1>2. CASE Told' = "nothing"
  BY <1>1, <1>2 DEF Feed!Next, Feed!Quiet
<1>3. CASE out' = out
  <2>1. Told' = Told
    BY <1>3 DEF Told
  <2>2. Told = "nothing" \/ handed' = handed
    BY <1>1, <2>1 DEF LinkInv, QuietUnlessTold
  <2>. QED BY <1>1, <1>2, <2>1, <2>2 DEF Feed!vars
<1>4. CASE ServerAnswers
  BY <1>2, <1>4, EstablishedAsking
<1>5. CASE ServerSends \/ ServerEndsStream
  BY <1>3, <1>5 DEF ServerSends, ServerEndsStream, vars
<1>6. CASE Disconnected \/ ReadsEnd \/ Waits
  BY <1>2, <1>6, DisconnectedInv, ReadsEndInv, WaitsInv
<1>. QED BY <1>4, <1>5, <1>6

\* A line is the next datum, or a report of what the data before it are not, or neither.
LEMMA LineFeed ==
  ASSUME LinkInv, ReadsLine
  PROVE  Feed!Next
<1>1. line[1].t \in {"CONOK", "PROG", "UPDATE", "CONERR", "LOOP", "END"}
  BY ReadsWhat, LineFields DEF Endings
<1>2. CASE line[1].t \in {"CONERR", "LOOP", "END"}
  BY <1>2, LeavingLineInv DEF NothingHandedOn, Feed!Next, Feed!Quiet
<1>3. CASE line[1].t = "CONOK"
  BY <1>3, ConOkLineInv DEF Feed!Next, Feed!Quiet, Feed!ReportReplacement
<1>4. CASE line[1].t = "PROG"
  BY <1>4, ProgTells DEF Feed!Next, Feed!Quiet, Feed!ReportGap
<1>5. CASE line[1].t = "UPDATE"
  BY <1>5, DatumTells DEF Feed!Next, Feed!Quiet, Feed!Deliver
<1>. QED BY <1>1, <1>2, <1>3, <1>4, <1>5

\* Against a server that keeps the protocol, over connections that lose whatever is in
\* flight, the driver gives its caller the feed of ReliableFeed: the data of a session in
\* order, none twice and none missing, unless the step that breaks the order reports it.
THEOREM DriverImplementsFeed ==
  WellBehaved => (LinkSpec => ImplementsReliableFeed)
<1>1. LinkInit => Feed!Init
  <2>1. ASSUME LinkInit PROVE Told = "nothing"
    BY <2>1 DEF LinkInit, Init, Told
  <2>. QED BY <2>1 DEF LinkInit, Feed!Init
<1>2. LinkInv /\ [LinkNext]_allVars => [Feed!Next]_(Feed!vars)
  <2>1. SUFFICES ASSUME LinkInv, LinkNext \/ UNCHANGED allVars
                 PROVE  [Feed!Next]_(Feed!vars)
    OBVIOUS
  <2>2. CASE ReadsLine
    BY <2>1, <2>2, LineFeed
  <2>3. CASE UNCHANGED allVars
    BY <2>3 DEF allVars, vars, feedVars, Told, Feed!vars
  <2>. QED BY <2>1, <2>2, <2>3, SilentFeed DEF LinkNext
<1>. QED BY <1>1, <1>2, LinkInvariant, PTL DEF LinkSpec, ImplementsReliableFeed, Feed!Spec
=============================================================================

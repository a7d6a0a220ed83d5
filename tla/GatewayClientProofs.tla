------------------------ MODULE GatewayClientProofs ------------------------
(***************************************************************************)
(* Proofs about GatewayClient, for any number of events, sessions and      *)
(* faults and any size of the queue: the types, that what is acknowledged  *)
(* is kept, that a resume names a real number, when run() gives up, and    *)
(* that the client implements EventFeed.                                   *)
(***************************************************************************)
EXTENDS GatewayClient, TLAPS

(***************************************************************************)
(* The inductive invariant: the tasks, the phases of a connection, the     *)
(* numbers of the messages under way, and the events received so far.      *)
(***************************************************************************)

Message ==
    [op : {"hello", "resumed", "reconnect"}]
        \cup [op : {"ready"}, s : {1}, session : Sessions]
        \cup [op : {"event"}, s : Nat, event : Events]
        \cup [op : {"invalid"}, d : BOOLEAN]

InvStop ==
    /\ stop \in BOOLEAN /\ alive \in BOOLEAN /\ worker \in {"get", "dispatch", "ended"}
    /\ stop <=> worker = "ended"

InvTypes ==
    /\ maxReconnects \in ReconnectLimits
    /\ runPc \in {"fetch", "connect", "read", "identify", "resume", "put", "invalid",
                  "sleep", "backoff", "ended"}
    /\ reconnectCount \in Nat /\ faults \in Nat
    /\ queue \in Seq(Events) /\ Len(queue) <= QueueSize /\ handed \in Seq(Events)
    /\ inPut \in Events \cup {NoEvent} /\ (inPut # NoEvent <=> runPc = "put")
    /\ lastSeq \in Nat /\ sessionId \in Sessions \cup {NoSession}
    /\ produced \in 0 .. NumEvents /\ session \in 0 .. MaxSessions
    /\ log \in Seq(Events)
    /\ link \in {"up", "down"} /\ wire \in Seq(Message) /\ cursor \in Nat

\* Nothing is under way outside a connection, nor while run() is about to
\* greet or to leave; a request is answered before anything else comes.
Silent == wire = << >> /\ upstream = Nothing /\ cursor = 0

InvLink ==
    /\ ~Connection => Silent /\ link = "down"
    /\ runPc \in {"identify", "resume", "invalid"} => Silent
    /\ runPc = "resume" => sessionId # NoSession
    /\ upstream # Nothing =>
          /\ runPc = "read" /\ wire = << >> /\ cursor = 0
          /\ \/ upstream.op = "identify"
             \/ /\ upstream = [op |-> "resume", session |-> sessionId, seq |-> lastSeq]
                /\ sessionId # NoSession

\* The message at place i of the wire has number Offset + i.
FirstIs(op) == wire # << >> /\ wire[1].op = op

Offset == IF FirstIs("ready") THEN 0 ELSE IF FirstIs("resumed") THEN lastSeq - 1 ELSE lastSeq

InvWire ==
    /\ \A i \in DOMAIN wire :
          /\ i > 1 => wire[i].op \in {"event", "reconnect"}
          /\ wire[i].op \in {"hello", "invalid", "reconnect"} =>
                i = Len(wire) /\ cursor = 0
          /\ wire[i].op = "ready" => wire[i].session = session
          /\ wire[i].op = "event" =>
                /\ wire[i].s = Offset + i
                /\ wire[i].s - 1 \in DOMAIN log /\ wire[i].event = log[wire[i].s - 1]
          /\ wire[i].op \in {"resumed", "event"} /\ ~FirstIs("ready") =>
                sessionId = session /\ sessionId \in Sessions
    /\ cursor # 0 =>
          /\ cursor = Offset + Len(wire) /\ cursor <= Len(log) + 1
          /\ FirstIs("ready") \/ (sessionId = session /\ sessionId \in Sessions)

InvKnown == ResumePointIsReal

\* The events received so far.
ElemsOf(s) == {s[i] : i \in DOMAIN s}

Elems(h, q, p) == ElemsOf(h) \cup ElemsOf(q) \cup ({p} \ {NoEvent})

Received == Elems(handed, queue, inPut)

\* The log is in order; what was received comes before what is still to be
\* received of the session.
InvLog ==
    /\ \A i, j \in DOMAIN log : i < j => log[i] < log[j]
    /\ \A i \in DOMAIN log : log[i] <= produced
    /\ \A x \in Received : x <= produced
    /\ \A x \in Received, i \in DOMAIN log :
          /\ FirstIs("ready") => x < log[i]
          /\ sessionId = session /\ i >= lastSeq /\ sessionId \in Sessions => x < log[i]
    /\ ~stop /\ runPc # "ended" /\ sessionId = session =>
          \A i \in DOMAIN log : i < lastSeq => log[i] \in Received

Inv == InvStop /\ InvTypes /\ InvLink /\ InvWire /\ InvKnown /\ InvLog

USE GatewayAssumption DEF Sessions, Events

\* The elements of a sequence with one more ...
LEMMA AppendedElems ==
    ASSUME NEW s \in Seq(Events), NEW e \in Events
    PROVE  ElemsOf(Append(s, e)) = ElemsOf(s) \cup {e}
<1> DEFINE t == Append(s, e)
<1>1. /\ Len(s) \in Nat /\ DOMAIN s = 1 .. Len(s) /\ DOMAIN t = 1 .. Len(s) + 1
      /\ t[Len(s) + 1] = e /\ \A i \in 1 .. Len(s) : t[i] = s[i]
  OBVIOUS
<1> HIDE DEF t
<1>2. \A i \in DOMAIN t : i \in DOMAIN s \/ i = Len(s) + 1
  BY <1>1
<1>3. \A i \in DOMAIN s : i \in DOMAIN t
  BY <1>1
<1>4. ElemsOf(t) = ElemsOf(s) \cup {e}
  BY <1>1, <1>2, <1>3 DEF ElemsOf
<1> QED
  BY <1>4 DEF t

\* ... and those of one without its first.
LEMMA TailElems ==
    ASSUME NEW s \in Seq(Events), s # << >>
    PROVE  ElemsOf(s) = ElemsOf(Tail(s)) \cup {Head(s)}
<1>1. /\ Len(s) \in Nat \ {0} /\ Head(s) = s[1] /\ DOMAIN s = 1 .. Len(s)
      /\ DOMAIN Tail(s) = 1 .. Len(s) - 1
      /\ \A i \in 1 .. Len(s) - 1 : Tail(s)[i] = s[i + 1]
  OBVIOUS
<1>2. ASSUME NEW i \in DOMAIN s PROVE s[i] \in ElemsOf(Tail(s)) \cup {Head(s)}
  <2>1. CASE i = 1
    BY <2>1, <1>1
  <2>2. CASE i # 1
    <3>1. i - 1 \in DOMAIN Tail(s) /\ Tail(s)[i - 1] = s[i]
      BY <2>2, <1>1
    <3> QED
      BY <3>1 DEF ElemsOf
  <2> QED
    BY <2>1, <2>2
<1>3. ASSUME NEW i \in DOMAIN Tail(s) PROVE Tail(s)[i] \in ElemsOf(s)
  BY <1>1 DEF ElemsOf
<1>4. Head(s) \in ElemsOf(s)
  BY <1>1 DEF ElemsOf
<1> QED
  BY <1>2, <1>3, <1>4 DEF ElemsOf

\* The initial state.
LEMMA GatewayInit == Init => Inv
<1> SUFFICES ASSUME Init PROVE Inv
  OBVIOUS
<1>1. InvTypes
  <2>1. /\ queue \in Seq(Events) /\ handed \in Seq(Events) /\ log \in Seq(Events)
        /\ Len(queue) <= QueueSize
    BY DEF Init
  <2>2. wire \in Seq(Message)
    BY DEF Init
  <2>3. inPut \in Events \cup {NoEvent} /\ (inPut # NoEvent <=> runPc = "put")
    BY DEF Init
  <2>4. /\ lastSeq \in Nat /\ sessionId \in Sessions \cup {NoSession} /\ cursor \in Nat
        /\ produced \in 0 .. NumEvents /\ session \in 0 .. MaxSessions /\ reconnectCount \in Nat
    BY DEF Init
  <2> QED
    BY <2>1, <2>2, <2>3, <2>4 DEF Init, InvTypes
<1>2. InvLink
  BY DEF Init, InvLink, Silent, Connection
<1>3. InvWire
  BY DEF Init, InvWire
<1>4. InvKnown
  BY DEF Init, InvKnown, ResumePointIsReal
<1>5. InvLog
  BY DEF Init, InvLog, Received, Elems, ElemsOf, FirstIs
<1>6. InvStop
  BY DEF Init, InvStop
<1> QED
  BY <1>1, <1>2, <1>3, <1>4, <1>5, <1>6 DEF Inv


\* A step within the outer loop, or out of a connection.
LEMMA OutsideKeeps ==
    ASSUME Inv, UNCHANGED << maxReconnects, known, queue, handed, platform >>,
           runPc' \in {"fetch", "connect", "sleep", "backoff", "ended"},
           reconnectCount' \in Nat, faults' \in Nat, inPut' = NoEvent,
           \/ UNCHANGED life
           \/ stop' = TRUE /\ worker' = "ended",
           inPut = NoEvent \/ stop',
           runPc = "ended" => runPc' = "ended",
           link' = "down", wire' = << >>, upstream' = Nothing, cursor' = 0
    PROVE  Inv'
<1> USE DEF known, platform, life
<1>1. InvTypes'
  BY DEF Inv, InvTypes
<1>2. InvLink'
  BY DEF InvLink, Silent, Connection
<1>3. InvWire'
  BY DEF InvWire
<1>4. InvKnown'
  BY DEF Inv, InvKnown, ResumePointIsReal
<1>5. InvLog'
  <2>1. Received' \subseteq Received /\ (inPut = NoEvent => Received' = Received)
    BY DEF Received, Elems
  <2>2. ~FirstIs("ready")'
    BY DEF FirstIs
  <2>3. (~stop /\ runPc # "ended")' => ~stop /\ runPc # "ended" /\ inPut = NoEvent
    OBVIOUS
  <2> QED
    BY <2>1, <2>2, <2>3 DEF Inv, InvLog
<1>6. InvStop'
  <2>1. CASE UNCHANGED life
    BY <2>1 DEF Inv, InvStop
  <2>2. CASE stop' = TRUE /\ worker' = "ended"
    BY <2>2 DEF Inv, InvStop
  <2> QED
    BY <2>1, <2>2
<1> QED
  BY <1>1, <1>2, <1>3, <1>4, <1>5, <1>6 DEF Inv


\* The loop goes on, counts a failure or gives up: in every case outside a
\* connection.
LEMMA PausesOutside ==
    ASSUME Inv, \/ CountFailure
                \/ (GoOn("sleep") \/ GoOn("fetch")) /\ UNCHANGED reconnectCount
    PROVE  /\ runPc' \in {"fetch", "sleep", "backoff", "ended"} /\ reconnectCount' \in Nat
           /\ UNCHANGED life \/ (stop' = TRUE /\ worker' = "ended")
<1>1. CASE CountFailure
  BY <1>1 DEF CountFailure, Shut, Inv, InvTypes
<1>2. CASE (GoOn("sleep") \/ GoOn("fetch")) /\ UNCHANGED reconnectCount
  BY <1>2 DEF GoOn, Shut, Inv, InvTypes
<1> QED
  BY <1>1, <1>2

\* The steps of run() that are or end outside a connection, and the
\* cancellation of its task.
LEMMA OutsideSteps ==
    ASSUME Inv, \/ Fetched \/ ConnectFails \/ Awakes \/ HailFails \/ ReadReconnect
                \/ InvalidPauseOver \/ ReadEnd \/ RunCancelled
    PROVE  Inv'
<1> USE DEF loop, buffer, life, Disconnect, network
<1>1. runPc # "put" => inPut = NoEvent
  BY DEF Inv, InvTypes
<1>2. ~Connection => link = "down" /\ wire = << >> /\ upstream = Nothing /\ cursor = 0
  BY DEF Inv, InvLink, Silent
<1>3. reconnectCount \in Nat /\ faults \in Nat /\ (Fault => faults' \in Nat)
  BY DEF Inv, InvTypes, Fault
<1>4. CASE Fetched
  BY <1>1, <1>2, <1>3, <1>4, OutsideKeeps DEF Fetched, Connection
<1>5. CASE ConnectFails
  BY <1>1, <1>2, <1>3, <1>5, PausesOutside, OutsideKeeps DEF ConnectFails, Connection
<1>6. CASE Awakes
  BY <1>1, <1>2, <1>3, <1>6, PausesOutside, OutsideKeeps DEF Awakes, Connection
<1>7. CASE HailFails
  BY <1>1, <1>3, <1>7, PausesOutside, OutsideKeeps DEF HailFails
<1>8. CASE ReadReconnect
  BY <1>1, <1>3, <1>8, PausesOutside, OutsideKeeps DEF ReadReconnect, Reading
<1>9. CASE InvalidPauseOver
  BY <1>1, <1>3, <1>9, PausesOutside, OutsideKeeps DEF InvalidPauseOver
<1>10. CASE ReadEnd
  BY <1>1, <1>3, <1>10, PausesOutside, OutsideKeeps DEF ReadEnd
<1>11. CASE RunCancelled
  <2>1. CASE runPc = "backoff"
    BY <1>1, <1>3, <1>11, <2>1, OutsideKeeps DEF RunCancelled
  <2>2. CASE runPc # "backoff"
    BY <1>3, <1>11, <2>2, OutsideKeeps DEF RunCancelled, Shut
  <2> QED
    BY <2>1, <2>2
<1> QED
  BY <1>4, <1>5, <1>6, <1>7, <1>8, <1>9, <1>10, <1>11

-----------------------------------------------------------------------------
(* Within a connection.                                                     *)

\* A connection is opened: the greeting is under way.
LEMMA ConnectedKeeps == ASSUME Inv, Connected PROVE Inv'
<1> USE DEF Connected, known, buffer, life, platform
<1>1. wire' = << [op |-> "hello"] >> /\ Len(wire') = 1 /\ cursor = 0 /\ upstream = Nothing
  BY DEF Inv, InvLink, Connection, Silent
<1>2. wire' \in Seq(Message)
  BY <1>1 DEF Message
<1>3. InvTypes'
  BY <1>2 DEF Inv, InvTypes
<1>4. InvLink'
  BY <1>1 DEF InvLink, Connection
<1>5. InvWire'
  BY <1>1 DEF InvWire
<1>6. InvKnown'
  BY DEF Inv, InvKnown, ResumePointIsReal
<1>7. InvLog'
  BY <1>1 DEF Inv, InvLog, Received, FirstIs
<1>8. InvStop'
  BY DEF Inv, InvStop
<1> QED
  BY <1>3, <1>4, <1>5, <1>6, <1>7, <1>8 DEF Inv

\* What is left of the wire when its first message is taken.
LEMMA TakenFacts ==
    ASSUME Inv, wire # << >>, Taken
    PROVE  /\ wire' \in Seq(Message) /\ Len(wire') = Len(wire) - 1 /\ Len(wire) \in Nat \ {0}
           /\ Head(wire) = wire[1] /\ wire[1] \in Message /\ DOMAIN wire' = 1 .. Len(wire) - 1
           /\ DOMAIN wire = 1 .. Len(wire)
           /\ \A i \in DOMAIN wire' : wire'[i] = wire[i + 1] /\ i + 1 \in DOMAIN wire
           /\ ~FirstIs("ready")' /\ ~FirstIs("resumed")'
           /\ link' = link /\ upstream' = upstream /\ cursor' = cursor
<1>1. wire \in Seq(Message) /\ wire' = Tail(wire)
  BY DEF Taken, Inv, InvTypes
<1>2. /\ wire' \in Seq(Message) /\ Len(wire') = Len(wire) - 1 /\ Len(wire) \in Nat \ {0}
      /\ Head(wire) = wire[1] /\ wire[1] \in Message /\ DOMAIN wire' = 1 .. Len(wire) - 1
      /\ DOMAIN wire = 1 .. Len(wire)
      /\ \A i \in DOMAIN wire' : wire'[i] = wire[i + 1] /\ i + 1 \in DOMAIN wire
  BY <1>1
<1>3. ASSUME wire' # << >> PROVE wire'[1].op \in {"event", "reconnect"}
  <2>1. 1 \in DOMAIN wire' /\ wire'[1] = wire[2] /\ 2 \in DOMAIN wire
    BY <1>2, <1>3
  <2> QED
    BY <2>1 DEF Inv, InvWire
<1> QED
  BY <1>2, <1>3 DEF FirstIs, Taken


\* The numbers still fit when a message is taken, if the client notes them.
LEMMA TakenWire ==
    ASSUME Inv, wire # << >>, Taken, UNCHANGED platform,
           wire' # << >> \/ cursor # 0 =>
              wire[1].op \in {"hello", "invalid", "reconnect"} \/
              (lastSeq' = Offset + 1 /\ sessionId' = session /\ sessionId' \in Sessions)
    PROVE  InvWire'
<1> USE DEF platform
<1>1. /\ DOMAIN wire' = 1 .. Len(wire) - 1 /\ Len(wire) \in Nat \ {0}
      /\ Len(wire') = Len(wire) - 1 /\ DOMAIN wire = 1 .. Len(wire)
      /\ \A i \in DOMAIN wire' : wire'[i] = wire[i + 1] /\ i + 1 \in DOMAIN wire
      /\ ~FirstIs("ready")' /\ ~FirstIs("resumed")' /\ cursor' = cursor
      /\ wire' = << >> <=> Len(wire') = 0
  BY TakenFacts
<1>2. Offset' = lastSeq'
  BY <1>1 DEF Offset
<1>3. CASE wire[1].op \in {"hello", "invalid", "reconnect"}
  <2>1. Len(wire) = 1 /\ cursor = 0
    BY <1>1, <1>3 DEF Inv, InvWire
  <2> QED
    BY <1>1, <2>1 DEF InvWire
<1>4. CASE wire[1].op \notin {"hello", "invalid", "reconnect"} /\ (wire' # << >> \/ cursor # 0)
  <2>1. /\ lastSeq' = Offset + 1 /\ sessionId' = session /\ sessionId' \in Sessions
        /\ Offset \in Int
    BY <1>4 DEF Offset, Inv, InvTypes
  <2>2. ASSUME NEW i \in DOMAIN wire'
        PROVE  /\ wire'[i].op \in {"event", "reconnect"}
               /\ wire'[i].op = "reconnect" => i = Len(wire') /\ cursor = 0
               /\ wire'[i].op = "event" =>
                     /\ wire'[i].s = Offset' + i
                     /\ wire'[i].s - 1 \in DOMAIN log /\ wire'[i].event = log[wire'[i].s - 1]
    <3>1. i + 1 \in DOMAIN wire /\ i + 1 > 1 /\ wire'[i] = wire[i + 1] /\ i \in Nat
      BY <1>1
    <3>2. /\ wire[i + 1].op \in {"event", "reconnect"}
          /\ wire[i + 1].op = "reconnect" => i + 1 = Len(wire) /\ cursor = 0
          /\ wire[i + 1].op = "event" =>
                /\ wire[i + 1].s = Offset + (i + 1)
                /\ wire[i + 1].s - 1 \in DOMAIN log
                /\ wire[i + 1].event = log[wire[i + 1].s - 1]
      BY <3>1 DEF Inv, InvWire
    <3> QED
      BY <1>1, <1>2, <2>1, <3>1, <3>2
  <2>3. cursor # 0 => cursor = Offset' + Len(wire') /\ cursor <= Len(log) + 1
    BY <1>1, <1>2, <2>1 DEF Inv, InvWire
  <2> QED
    BY <1>1, <2>1, <2>2, <2>3 DEF InvWire
<1>5. CASE wire' = << >> /\ cursor = 0
  BY <1>1, <1>5 DEF InvWire
<1> QED
  BY <1>3, <1>4, <1>5

\* HELLO is read: run() is about to greet.
LEMMA ReadHelloKeeps == ASSUME Inv, ReadHello PROVE Inv'
<1> USE DEF ReadHello, known, buffer, life, platform
<1>1. /\ runPc = "read" /\ wire # << >> /\ Head(wire).op = "hello" /\ Taken
      /\ runPc' \in {"identify", "resume"}
  BY DEF Reading
<1>2. wire[1].op = "hello" /\ wire' = << >> /\ cursor' = 0 /\ cursor = 0 /\ wire' \in Seq(Message)
  <2>1. wire[1].op = "hello" /\ 1 \in DOMAIN wire
    BY <1>1, TakenFacts
  <2>2. Len(wire) = 1 /\ cursor = 0
    BY <2>1 DEF Inv, InvWire
  <2>3. Len(wire') = 0 /\ cursor' = cursor /\ wire' \in Seq(Message)
    BY <1>1, <2>2, TakenFacts
  <2> QED
    BY <2>1, <2>2, <2>3
<1>3. upstream = Nothing /\ upstream' = Nothing /\ link' = link
  BY <1>1, TakenFacts DEF Inv, InvLink
<1>4. InvTypes'
  BY <1>1, <1>2, <1>3 DEF Inv, InvTypes
<1>5. InvLink'
  BY <1>1, <1>2, <1>3 DEF InvLink, Silent, Connection
<1>6. InvWire'
  BY <1>2 DEF InvWire
<1>7. InvKnown'
  BY DEF Inv, InvKnown, ResumePointIsReal
<1>8. InvLog'
  BY <1>1, <1>2 DEF Inv, InvLog, Received, FirstIs
<1>9. InvStop'
  BY DEF Inv, InvStop
<1> QED
  BY <1>4, <1>5, <1>6, <1>7, <1>8, <1>9 DEF Inv

\* The request is sent; a resume names what the client knows.
LEMMA SendHailKeeps == ASSUME Inv, SendHail PROVE Inv'
<1> USE DEF SendHail, known, buffer, life, platform
<1>1. /\ runPc \in {"identify", "resume"} /\ runPc' = "read"
      /\ wire = << >> /\ wire' = wire /\ cursor = 0 /\ cursor' = 0 /\ link' = link
  BY DEF Inv, InvLink, Silent
<1>2. CASE runPc = "resume"
  <2>1. /\ upstream' = [op |-> "resume", session |-> sessionId, seq |-> lastSeq]
        /\ sessionId # NoSession
    BY <1>2 DEF Inv, InvLink
  <2> QED
    BY <1>1, <2>1
       DEF Inv, InvTypes, InvLink, InvWire, InvKnown, InvLog, InvStop, Connection,
           ResumePointIsReal, Received, FirstIs
<1>3. CASE runPc = "identify"
  <2>1. upstream' = [op |-> "identify"]
    BY <1>3
  <2> QED
    BY <1>1, <2>1
       DEF Inv, InvTypes, InvLink, InvWire, InvKnown, InvLog, InvStop, Connection,
           ResumePointIsReal, Received, FirstIs
<1> QED
  BY <1>1, <1>2, <1>3

\* READY: the session of the gateway becomes that of the client.
LEMMA ReadReadyKeeps == ASSUME Inv, ReadReady PROVE Inv'
<1> USE DEF ReadReady, loop, buffer, life, platform
<1>1. runPc = "read" /\ wire # << >> /\ Head(wire).op = "ready" /\ Taken
  BY DEF Reading
<1>2. /\ wire[1].op = "ready" /\ wire[1] \in Message /\ 1 \in DOMAIN wire
      /\ Head(wire) = wire[1] /\ wire' \in Seq(Message) /\ ~FirstIs("ready")'
      /\ link' = link /\ upstream' = upstream /\ cursor' = cursor
  BY <1>1, TakenFacts
<1>3. wire[1].session = session /\ session \in Sessions /\ wire[1].s = 1 /\ FirstIs("ready")
  BY <1>1, <1>2 DEF Inv, InvWire, Message, FirstIs
<1>4. lastSeq' = 1 /\ sessionId' = session /\ session' = session
  BY <1>2, <1>3
<1>5. InvTypes'
  BY <1>1, <1>2, <1>3, <1>4 DEF Inv, InvTypes
<1>6. InvLink'
  BY <1>1, <1>2 DEF Inv, InvLink, Connection
<1>7. InvWire'
  BY <1>1, <1>3, <1>4, TakenWire DEF Offset
<1>8. InvKnown'
  BY <1>3, <1>4 DEF Inv, InvTypes, InvKnown, ResumePointIsReal
<1>9. InvLog'
  <2>1. Received' = Received /\ log' = log /\ produced' = produced
    BY DEF Received
  <2>2. \A x \in Received, i \in DOMAIN log : x < log[i]
    BY <1>3 DEF Inv, InvLog
  <2>3. \A i \in DOMAIN log : ~(i < 1)
    BY DEF Inv, InvTypes
  <2> QED
    BY <1>2, <1>4, <2>1, <2>2, <2>3 DEF Inv, InvLog
<1>10. InvStop'
  BY DEF Inv, InvStop
<1> QED
  BY <1>5, <1>6, <1>7, <1>8, <1>9, <1>10 DEF Inv

\* RESUMED: nothing is noted.
LEMMA ReadResumedKeeps == ASSUME Inv, ReadResumed PROVE Inv'
<1> USE DEF ReadResumed, loop, known, buffer, life, platform
<1>1. runPc = "read" /\ wire # << >> /\ Head(wire).op = "resumed" /\ Taken
  BY DEF Reading
<1>2. /\ wire[1].op = "resumed" /\ 1 \in DOMAIN wire
      /\ wire' \in Seq(Message) /\ ~FirstIs("ready")'
      /\ link' = link /\ upstream' = upstream /\ cursor' = cursor
  BY <1>1, TakenFacts
<1>3. sessionId = session /\ session \in Sessions /\ ~FirstIs("ready") /\ FirstIs("resumed")
  BY <1>1, <1>2 DEF Inv, InvWire, FirstIs
<1>4. lastSeq' = Offset + 1
  BY <1>3 DEF Offset, Inv, InvTypes
<1>5. InvTypes'
  BY <1>1, <1>2 DEF Inv, InvTypes
<1>6. InvLink'
  BY <1>1, <1>2 DEF Inv, InvLink, Connection
<1>7. InvWire'
  BY <1>1, <1>3, <1>4, TakenWire
<1>8. InvKnown'
  BY DEF Inv, InvKnown, ResumePointIsReal
<1>9. InvLog'
  BY <1>2 DEF Inv, InvLog, Received
<1>10. InvStop'
  BY DEF Inv, InvStop
<1> QED
  BY <1>5, <1>6, <1>7, <1>8, <1>9, <1>10 DEF Inv

\* INVALID_SESSION: what the client knows is kept or forgotten as a whole.
LEMMA ReadInvalidKeeps == ASSUME Inv, ReadInvalid PROVE Inv'
<1> USE DEF ReadInvalid, buffer, life, platform
<1>1. /\ runPc = "read" /\ wire # << >> /\ Head(wire).op = "invalid" /\ Taken
      /\ runPc' = "invalid"
  BY DEF Reading
<1>2. /\ wire[1].op = "invalid" /\ 1 \in DOMAIN wire /\ wire' \in Seq(Message)
      /\ link' = link /\ upstream' = upstream /\ cursor' = cursor
      /\ Len(wire') = Len(wire) - 1
  BY <1>1, TakenFacts
<1>3. wire' = << >> /\ cursor' = 0 /\ upstream' = Nothing
  <2>1. Len(wire) = 1 /\ cursor = 0 /\ upstream = Nothing
    BY <1>1, <1>2 DEF Inv, InvWire, InvLink
  <2> QED
    BY <1>2, <2>1
<1>4. \/ lastSeq' = lastSeq /\ sessionId' = sessionId
      \/ lastSeq' = 0 /\ sessionId' = NoSession
  BY DEF Forget, known
<1>5. InvTypes'
  BY <1>1, <1>2, <1>3, <1>4 DEF Inv, InvTypes
<1>6. InvLink'
  BY <1>1, <1>3 DEF InvLink, Silent, Connection
<1>7. InvWire'
  BY <1>3 DEF InvWire
<1>8. InvKnown'
  BY <1>4 DEF Inv, InvTypes, InvKnown, ResumePointIsReal
<1>9. InvLog'
  BY <1>1, <1>3, <1>4 DEF Inv, InvTypes, InvLog, Received, FirstIs
<1>10. InvStop'
  BY DEF Inv, InvStop
<1> QED
  BY <1>5, <1>6, <1>7, <1>8, <1>9, <1>10 DEF Inv

\* The event that is read comes after all that was received, and is received.
LEMMA ReadEventKeeps == ASSUME Inv, ReadEvent PROVE Inv'
<1> USE DEF ReadEvent, life, platform
<1>1. /\ runPc = "read" /\ wire # << >> /\ Head(wire).op = "event" /\ Taken
      /\ runPc' \in {"read", "put"} /\ inPut = NoEvent
  BY DEF Reading, QueueOrBlock, Inv, InvTypes
<1>2. /\ wire[1].op = "event" /\ 1 \in DOMAIN wire /\ Head(wire) = wire[1]
      /\ wire' \in Seq(Message) /\ ~FirstIs("ready")'
      /\ link' = link /\ upstream' = upstream /\ cursor' = cursor
  BY <1>1, TakenFacts
<1>3. ~FirstIs("ready") /\ ~FirstIs("resumed") /\ Offset = lastSeq
  BY <1>2 DEF FirstIs, Offset
<1>4. /\ sessionId = session /\ session \in Sessions
      /\ wire[1].s = lastSeq + 1 /\ lastSeq \in DOMAIN log
      /\ wire[1].event = log[lastSeq]
  <2>1. lastSeq \in Int
    BY DEF Inv, InvTypes
  <2>2. /\ wire[1].s = Offset + 1 /\ wire[1].s - 1 \in DOMAIN log
        /\ wire[1].event = log[wire[1].s - 1]
    BY <1>2 DEF Inv, InvWire
  <2> QED
    BY <1>2, <1>3, <2>1, <2>2 DEF Inv, InvWire
<1>5. /\ lastSeq' = lastSeq + 1 /\ sessionId' = sessionId /\ QueueOrBlock(log[lastSeq])
      /\ log[lastSeq] \in Events /\ Len(log) \in Nat /\ DOMAIN log = 1 .. Len(log)
  BY <1>2, <1>4 DEF Inv, InvTypes
<1>6. InvTypes'
  <2>1. /\ queue' \in Seq(Events) /\ Len(queue') <= QueueSize
        /\ inPut' \in Events \cup {NoEvent} /\ (inPut' # NoEvent <=> runPc' = "put")
    <3>1. CASE Len(queue) < QueueSize
      <4>1. queue' = Append(queue, log[lastSeq]) /\ inPut' = NoEvent /\ runPc' = "read"
        BY <3>1, <1>1, <1>5 DEF QueueOrBlock
      <4> QED
        BY <3>1, <4>1, <1>5 DEF Inv, InvTypes
    <3>2. CASE ~(Len(queue) < QueueSize)
      BY <3>2, <1>1, <1>5 DEF Inv, InvTypes, QueueOrBlock
    <3> QED
      BY <3>1, <3>2
  <2> QED
    BY <2>1, <1>1, <1>2, <1>5 DEF Inv, InvTypes
<1>7. InvLink'
  BY <1>1, <1>2 DEF Inv, InvLink, Connection
<1>8. InvWire'
  BY <1>1, <1>3, <1>4, <1>5, TakenWire
<1>9. InvKnown'
  BY <1>4, <1>5 DEF Inv, InvTypes, InvKnown, ResumePointIsReal
<1>10. Received' = Received \cup {log[lastSeq]}
  <2>1. queue \in Seq(Events) /\ handed' = handed /\ log[lastSeq] # NoEvent
    BY <1>5 DEF Inv, InvTypes
  <2>2. CASE Len(queue) < QueueSize
    <3>1. queue' = Append(queue, log[lastSeq]) /\ inPut' = NoEvent
      BY <1>1, <1>5, <2>2 DEF QueueOrBlock
    <3> QED
      BY <1>1, <1>5, <2>1, <3>1, AppendedElems DEF Received, Elems
  <2>3. CASE ~(Len(queue) < QueueSize)
    <3>1. queue' = queue /\ inPut' = log[lastSeq]
      BY <1>5, <2>3 DEF QueueOrBlock
    <3> QED
      BY <1>1, <2>1, <3>1 DEF Received, Elems
  <2> QED
    BY <2>2, <2>3
<1>11. InvLog'
  <2>1. \A x \in Received' : x <= produced
    BY <1>4, <1>10 DEF Inv, InvLog
  <2>2. ASSUME NEW x \in Received', NEW i \in DOMAIN log, i >= lastSeq + 1
        PROVE  x < log[i]
    <3>1. CASE x \in Received
      BY <3>1, <2>2, <1>4, <1>5 DEF Inv, InvTypes, InvLog
    <3>2. CASE x = log[lastSeq]
      BY <3>2, <2>2, <1>4, <1>5 DEF Inv, InvLog
    <3> QED
      BY <3>1, <3>2, <1>10
  <2>3. ASSUME ~stop, NEW i \in DOMAIN log, i < lastSeq + 1 PROVE log[i] \in Received'
    <3>1. i < lastSeq \/ i = lastSeq
      BY <2>3, <1>5 DEF Inv, InvTypes
    <3> QED
      BY <3>1, <2>3, <1>1, <1>4, <1>10 DEF Inv, InvLog
  <2> QED
    BY <2>1, <2>2, <2>3, <1>2, <1>5 DEF Inv, InvLog
<1>12. InvStop'
  BY DEF Inv, InvStop
<1> QED
  BY <1>6, <1>7, <1>8, <1>9, <1>11, <1>12 DEF Inv


-----------------------------------------------------------------------------
(* The worker, the host and the gateway.                                    *)

\* What the worker and the blocked put move stays received.
LEMMA BufferSteps == ASSUME Inv, PutDone \/ Take \/ Dispatched PROVE Inv'
<1> USE DEF loop, known, buffer, life, network, platform
<1>1. UNCHANGED << maxReconnects, reconnectCount, known, network, platform, faults, stop >>
  BY DEF PutDone, Take, Dispatched
<1>2. /\ Received' = Received /\ queue' \in Seq(Events) /\ Len(queue') <= QueueSize
      /\ handed' \in Seq(Events)
      /\ inPut' \in Events \cup {NoEvent} /\ (inPut' # NoEvent <=> runPc' = "put")
  <2>1. /\ queue \in Seq(Events) /\ handed \in Seq(Events) /\ inPut \in Events \cup {NoEvent}
        /\ Len(queue) <= QueueSize
    BY DEF Inv, InvTypes
  <2>2. CASE PutDone
    <3>1. /\ inPut \in Events /\ inPut' = NoEvent /\ queue' = Append(queue, inPut)
          /\ runPc' = "read" /\ handed' = handed /\ Len(queue) < QueueSize
      BY <2>2 DEF PutDone, Room, Inv, InvTypes
    <3>2. ElemsOf(queue') = ElemsOf(queue) \cup {inPut}
      BY <2>1, <3>1, AppendedElems
    <3>3. Received' = Received
      BY <3>1, <3>2 DEF Received, Elems
    <3> QED
      BY <2>1, <3>1, <3>3
  <2>3. CASE Take
    <3>1. /\ handed' = Append(handed, Head(queue)) /\ queue' = Tail(queue)
          /\ queue # << >> /\ inPut' = inPut /\ runPc' = runPc
      BY <2>3 DEF Take
    <3>2. Head(queue) \in Events
      BY <2>1, <3>1
    <3>3. ElemsOf(handed') = ElemsOf(handed) \cup {Head(queue)}
      BY <2>1, <3>1, <3>2, AppendedElems
    <3>4. ElemsOf(queue) = ElemsOf(queue') \cup {Head(queue)}
      BY <2>1, <3>1, TailElems
    <3>5. Received' = Received
      BY <3>1, <3>3, <3>4 DEF Received, Elems
    <3>6. queue' \in Seq(Events) /\ Len(queue') <= QueueSize /\ handed' \in Seq(Events)
      BY <2>1, <3>1, <3>2
    <3> QED
      BY <2>1, <3>1, <3>5, <3>6 DEF Inv, InvTypes
  <2>4. CASE Dispatched
    BY <2>1, <2>4 DEF Dispatched, Received, Inv, InvTypes
  <2> QED
    BY <2>2, <2>3, <2>4
<1>3. /\ runPc' = runPc \/ (runPc = "put" /\ runPc' = "read")
      /\ worker' = worker \/ (worker \in {"get", "dispatch"} /\ worker' \in {"get", "dispatch"})
  BY DEF PutDone, Take, Dispatched
<1>4. InvTypes'
  BY <1>1, <1>2, <1>3 DEF Inv, InvTypes
<1>5. InvLink'
  BY <1>1, <1>3 DEF Inv, InvLink, Silent, Connection
<1>6. InvWire'
  BY <1>1 DEF Inv, InvWire, FirstIs, Offset
<1>7. InvKnown'
  BY <1>1 DEF Inv, InvKnown, ResumePointIsReal
<1>8. InvLog'
  BY <1>1, <1>2, <1>3 DEF Inv, InvLog, FirstIs
<1>9. InvStop'
  BY <1>1, <1>3 DEF Inv, InvStop
<1> QED
  BY <1>4, <1>5, <1>6, <1>7, <1>8, <1>9 DEF Inv

\* The gateway asks for a new connection, or the connection ends: the messages
\* that are under way stay or are lost, and no more of the session follow.
LEMMA CutKeeps ==
    ASSUME Inv, UNCHANGED << maxReconnects, loop, known, buffer, platform >>,
           faults' \in Nat, cursor' = 0, link' \in {"up", "down"},
           ~Connection => link' = "down",
           UNCHANGED life \/ (stop' = TRUE /\ worker' = "ended"),
           \/ wire' = wire /\ upstream' = Nothing
           \/ wire' = << >> /\ upstream' = Nothing
           \/ /\ wire' = Append(wire, [op |-> "reconnect"]) /\ cursor # 0
              /\ upstream' = upstream
    PROVE  Inv'
<1> USE DEF loop, known, buffer, platform
<1>1. [op |-> "reconnect"] \in Message
  BY DEF Message
<1>2. wire' \in Seq(Message)
  <2>1. wire \in Seq(Message)
    BY DEF Inv, InvTypes
  <2>2. Append(wire, [op |-> "reconnect"]) \in Seq(Message) /\ << >> \in Seq(Message)
    BY <1>1, <2>1
  <2> QED
    BY <2>1, <2>2
<1>3. InvTypes'
  BY <1>2 DEF Inv, InvTypes
<1>4. InvLink'
  BY DEF Inv, InvLink, Silent, Connection
<1>5. InvWire'
  <2>1. CASE wire' = wire
    BY <2>1 DEF Inv, InvWire, FirstIs, Offset
  <2>2. CASE wire' = << >>
    BY <2>2 DEF InvWire
  <2>3. CASE wire' = Append(wire, [op |-> "reconnect"]) /\ cursor # 0
    <3>1. wire \in Seq(Message)
      BY DEF Inv, InvTypes
    <3>2. /\ Len(wire') = Len(wire) + 1 /\ Len(wire) \in Nat /\ DOMAIN wire = 1 .. Len(wire)
          /\ DOMAIN wire' = 1 .. Len(wire) + 1
          /\ wire'[Len(wire) + 1].op = "reconnect"
          /\ \A i \in DOMAIN wire : wire'[i] = wire[i]
      BY <2>3, <3>1
    <3>3. wire # << >> => \A op : FirstIs(op)' <=> FirstIs(op)
      BY <3>1, <3>2 DEF FirstIs
    <3>4. wire = << >> => wire'[1].op = "reconnect"
      BY <3>2
    <3>5. \A i \in DOMAIN wire : wire[i].op \notin {"hello", "invalid", "reconnect"}
      BY <2>3 DEF Inv, InvWire
    <3> QED
      BY <3>2, <3>3, <3>4, <3>5 DEF Inv, InvWire, Offset
  <2> QED
    BY <2>1, <2>2, <2>3
<1>6. InvKnown'
  BY DEF Inv, InvKnown, ResumePointIsReal
<1>7. InvLog'
  <2>1. wire \in Seq(Message)
    BY DEF Inv, InvTypes
  <2>2. FirstIs("ready")' => FirstIs("ready")
    BY <2>1 DEF FirstIs
  <2>3. Received' = Received /\ (~stop' => ~stop)
    BY DEF Received, life
  <2> QED
    BY <2>2, <2>3 DEF Inv, InvLog
<1>8. InvStop'
  <2>1. CASE UNCHANGED life
    BY <2>1 DEF Inv, InvStop, life
  <2>2. CASE stop' = TRUE /\ worker' = "ended"
    BY <2>2 DEF Inv, InvStop
  <2> QED
    BY <2>1, <2>2
<1> QED
  BY <1>3, <1>4, <1>5, <1>6, <1>7, <1>8 DEF Inv


\* The platform's next event comes after all the others.
LEMMA ProduceKeeps == ASSUME Inv, Produce PROVE Inv'
<1> USE DEF Produce, loop, known, buffer, life, network
<1>1. /\ log \in Seq(Events) /\ produced \in 0 .. NumEvents /\ produced' = produced + 1
      /\ produced' \in Events /\ log' = Append(log, produced')
  BY DEF Inv, InvTypes
<1>2. /\ Len(log') = Len(log) + 1 /\ Len(log) \in Nat /\ log' \in Seq(Events)
      /\ DOMAIN log = 1 .. Len(log) /\ DOMAIN log' = 1 .. Len(log) + 1
      /\ log'[Len(log) + 1] = produced' /\ \A i \in 1 .. Len(log) : log'[i] = log[i]
  BY <1>1
<1>3. InvTypes'
  BY <1>1, <1>2 DEF Inv, InvTypes
<1>4. InvLink'
  BY DEF Inv, InvLink, Silent, Connection
<1>5. InvWire'
  <2>1. \A op : FirstIs(op)' <=> FirstIs(op)
    BY DEF FirstIs
  <2>2. Offset' = Offset
    BY <2>1 DEF Offset
  <2>3. \A i \in DOMAIN log : i \in DOMAIN log' /\ log'[i] = log[i]
    BY <1>2
  <2>4. cursor <= Len(log) + 1 => cursor <= Len(log') + 1
    BY <1>2 DEF Inv, InvTypes
  <2>5. cursor' = cursor /\ wire' = wire /\ session' = session /\ sessionId' = sessionId
    OBVIOUS
  <2> QED
    BY <2>1, <2>2, <2>3, <2>4, <2>5 DEF Inv, InvWire
<1>6. InvKnown'
  BY <1>2 DEF Inv, InvTypes, InvKnown, ResumePointIsReal
<1>7. InvLog'
  <2>1. Received' = Received /\ (FirstIs("ready")' <=> FirstIs("ready"))
    BY DEF Received, FirstIs
  <2>2. \A x \in Received : x \in Int /\ x <= produced
    BY DEF Inv, InvTypes, InvLog, Received, Elems, ElemsOf
  <2>3. \A i \in DOMAIN log : log[i] \in Int /\ log[i] <= produced
    BY <1>1 DEF Inv, InvLog
  <2>4. \A i \in DOMAIN log' : i \in DOMAIN log \/ (i = Len(log) + 1 /\ log'[i] = produced + 1)
    BY <1>1, <1>2
  <2>5. \A i, j \in DOMAIN log' : i < j => log'[i] < log'[j]
    BY <1>1, <1>2, <2>3, <2>4 DEF Inv, InvLog
  <2>6. /\ \A i \in DOMAIN log' : log'[i] <= produced'
        /\ \A x \in Received : x <= produced'
    BY <1>1, <1>2, <2>2, <2>3, <2>4
  <2>7. ASSUME NEW x \in Received, NEW i \in DOMAIN log'
        PROVE  /\ FirstIs("ready") => x < log'[i]
               /\ sessionId = session /\ i >= lastSeq /\ sessionId \in Sessions => x < log'[i]
    BY <1>1, <1>2, <2>2, <2>4 DEF Inv, InvLog
  <2>8. sessionId = session => lastSeq <= Len(log) + 1
    BY DEF Inv, InvKnown, ResumePointIsReal
  <2>9. ASSUME ~stop, runPc # "ended", sessionId = session, NEW i \in DOMAIN log', i < lastSeq
        PROVE  log'[i] \in Received
    <3>1. i \in DOMAIN log /\ log'[i] = log[i]
      BY <1>2, <2>8, <2>9 DEF Inv, InvTypes
    <3> QED
      BY <3>1, <2>9 DEF Inv, InvLog
  <2> QED
    BY <2>1, <2>5, <2>6, <2>7, <2>9 DEF InvLog
<1>8. InvStop'
  BY DEF Inv, InvStop
<1> QED
  BY <1>3, <1>4, <1>5, <1>6, <1>7, <1>8 DEF Inv

\* READY opens a session that the client does not know yet.
LEMMA AnswerIdentifyKeeps == ASSUME Inv, AnswerIdentify PROVE Inv'
<1> USE DEF AnswerIdentify, loop, known, buffer, life
<1> DEFINE ready == [op |-> "ready", s |-> 1, session |-> session + 1]
<1>1. /\ runPc = "read" /\ wire = << >> /\ session \in Nat
      /\ session' = session + 1 /\ session' \in Sessions /\ log' = << >> /\ cursor' = 1
      /\ upstream' = Nothing /\ link' = link
  BY DEF Inv, InvLink, InvTypes, Nothing
<1>2. wire' = << ready >> /\ ready \in Message
  BY <1>1 DEF Send, Message
<1>3. wire' \in Seq(Message) /\ Len(wire') = 1 /\ wire'[1] = ready /\ DOMAIN wire' = {1}
  BY <1>2
<1>4. sessionId' = sessionId /\ sessionId # session' /\ (sessionId \in Sessions => sessionId <= session)
  BY <1>1 DEF Inv, InvTypes, InvKnown, ResumePointIsReal
<1>5. InvTypes'
  <2>1. log' \in Seq(Events) /\ cursor' \in Nat
    BY <1>1
  <2> QED
    BY <1>1, <1>3, <2>1 DEF Inv, InvTypes
<1>6. InvLink'
  BY <1>1 DEF Inv, InvLink, Connection
<1>7. InvWire'
  <2>1. FirstIs("ready")' /\ Offset' = 0
    BY <1>3 DEF FirstIs, Offset
  <2> QED
    BY <1>1, <1>3, <2>1 DEF InvWire
<1>8. InvKnown'
  BY <1>1, <1>4 DEF Inv, InvTypes, InvKnown, ResumePointIsReal
<1>9. InvLog'
  BY <1>1, <1>4 DEF Inv, InvLog, Received
<1>10. InvStop'
  BY DEF Inv, InvStop
<1> QED
  BY <1>5, <1>6, <1>7, <1>8, <1>9, <1>10 DEF Inv

\* The session goes on from the number that the client has named.
LEMMA AnswerResumeKeeps == ASSUME Inv, AnswerResume PROVE Inv'
<1> USE DEF AnswerResume, loop, known, buffer, life, platform
<1> DEFINE resumed == [op |-> "resumed"]
<1>1. /\ runPc = "read" /\ wire = << >> /\ upstream' = Nothing /\ link' = link
      /\ cursor' = lastSeq /\ sessionId = session /\ sessionId # NoSession
  BY DEF Inv, InvLink, Nothing
<1>2. wire' = << resumed >> /\ resumed \in Message
  BY <1>1 DEF Send, Message
<1>3. wire' \in Seq(Message) /\ Len(wire') = 1 /\ wire'[1] = resumed /\ DOMAIN wire' = {1}
  BY <1>2
<1>4. lastSeq \in Nat \ {0} /\ sessionId \in Sessions /\ lastSeq <= Len(log) + 1
  BY <1>1 DEF Inv, InvTypes, InvKnown, ResumePointIsReal
<1>5. InvTypes'
  BY <1>1, <1>3, <1>4 DEF Inv, InvTypes
<1>6. InvLink'
  BY <1>1 DEF Inv, InvLink, Connection
<1>7. InvWire'
  <2>1. wire' # << >> /\ wire'[1].op = "resumed" /\ lastSeq' = lastSeq
    <3>1. wire' # << >>
      BY <1>2
    <3>2. wire'[1].op = "resumed"
      BY <1>3
    <3> QED
      BY <3>1, <3>2
  <2>2. ~FirstIs("ready")' /\ FirstIs("resumed")'
    BY <2>1 DEF FirstIs
  <2>3. Offset' = lastSeq - 1
    BY <2>1, <2>2 DEF Offset
  <2> QED
    BY <1>1, <1>3, <1>4, <2>2, <2>3 DEF InvWire
<1>8. InvKnown'
  BY DEF Inv, InvKnown, ResumePointIsReal
<1>9. InvLog'
  BY <1>3 DEF Inv, InvLog, Received, FirstIs
<1>10. InvStop'
  BY DEF Inv, InvStop
<1> QED
  BY <1>5, <1>6, <1>7, <1>8, <1>9, <1>10 DEF Inv

\* A refusal is all that comes on its connection.
LEMMA RefuseResumeKeeps == ASSUME Inv, RefuseResume PROVE Inv'
<1> USE DEF RefuseResume, loop, known, buffer, life
<1>1. /\ runPc = "read" /\ wire = << >> /\ upstream' = Nothing /\ link' = link
      /\ cursor = 0 /\ cursor' = 0 /\ UNCHANGED << produced, session, log >>
  BY DEF Inv, InvLink, Nothing
<1>2. PICK resumable \in BOOLEAN :
         /\ wire' = Append(wire, [op |-> "invalid", d |-> resumable])
         /\ alive' = alive \/ alive' = resumable
         /\ faults' = faults \/ faults' = faults + 1
  <2>1. CASE ~(alive /\ upstream.session = session)
    BY <2>1 DEF Send, Fault
  <2>2. CASE \E resumable \in BOOLEAN :
            /\ alive /\ Fault
            /\ Send([op |-> "invalid", d |-> resumable]) /\ alive' = resumable
    BY <2>2 DEF Send, Fault
  <2> QED
    BY <2>1, <2>2
<1>3. wire' \in Seq(Message) /\ Len(wire') = 1 /\ wire'[1].op = "invalid" /\ DOMAIN wire' = {1}
  <2>1. [op |-> "invalid", d |-> resumable] \in Message
    BY DEF Message
  <2> QED
    BY <1>1, <1>2, <2>1
<1>4. InvTypes'
  BY <1>1, <1>2, <1>3 DEF Inv, InvTypes
<1>5. InvLink'
  BY <1>1 DEF Inv, InvLink, Connection
<1>6. InvWire'
  BY <1>1, <1>3 DEF InvWire
<1>7. InvKnown'
  BY <1>1 DEF Inv, InvKnown, ResumePointIsReal
<1>8. InvLog'
  BY <1>1, <1>3 DEF Inv, InvLog, Received, FirstIs
<1>9. InvStop'
  BY <1>2 DEF Inv, InvStop
<1> QED
  BY <1>4, <1>5, <1>6, <1>7, <1>8, <1>9 DEF Inv

\* The next message of the session follows the last one.
LEMMA PushKeeps == ASSUME Inv, Push PROVE Inv'
<1> USE DEF Push, loop, known, buffer, life, platform
<1> DEFINE next == [op |-> "event", s |-> cursor + 1, event |-> log[cursor]]
<1>1. /\ wire \in Seq(Message) /\ log \in Seq(Events) /\ cursor \in Nat \ {0}
      /\ cursor <= Len(log) /\ cursor' = cursor + 1 /\ lastSeq \in Nat
      /\ link' = link /\ upstream' = upstream /\ Connection /\ upstream = Nothing
      /\ runPc \notin {"identify", "resume", "invalid"}
  BY DEF Inv, InvTypes, InvLink, Silent
<1>2. cursor \in DOMAIN log /\ next \in Message /\ wire' = Append(wire, next)
  <2>1. cursor \in DOMAIN log /\ log[cursor] \in Events /\ cursor + 1 \in Nat
    BY <1>1
  <2> QED
    BY <2>1 DEF Send, Message
<1>3. /\ Len(wire') = Len(wire) + 1 /\ Len(wire) \in Nat /\ wire' \in Seq(Message)
      /\ DOMAIN wire = 1 .. Len(wire) /\ DOMAIN wire' = 1 .. Len(wire) + 1
      /\ wire'[Len(wire) + 1] = next /\ \A i \in 1 .. Len(wire) : wire'[i] = wire[i]
  BY <1>1, <1>2
<1>4. /\ cursor = Offset + Len(wire)
      /\ FirstIs("ready") \/ (sessionId = session /\ sessionId \in Sessions)
  BY <1>1 DEF Inv, InvWire
<1>5. InvTypes'
  BY <1>1, <1>3 DEF Inv, InvTypes
<1>6. InvLink'
  BY <1>1 DEF Inv, InvLink, Connection
<1>7. /\ FirstIs("ready")' <=> FirstIs("ready")
      /\ FirstIs("resumed")' <=> FirstIs("resumed")
  <2>1. CASE wire = << >>
    <3>1. wire'[1].op = "event" /\ ~FirstIs("ready") /\ ~FirstIs("resumed")
      BY <2>1, <1>3 DEF FirstIs
    <3> QED
      BY <3>1 DEF FirstIs
  <2>2. CASE wire # << >>
    <3>1. wire' # << >> /\ wire'[1] = wire[1]
      BY <2>2, <1>1, <1>3
    <3> QED
      BY <2>2, <3>1 DEF FirstIs
  <2> QED
    BY <2>1, <2>2
<1>8. InvWire'
  <2>1. Offset' = Offset /\ Offset \in Int
    BY <1>1, <1>7 DEF Offset
  <2>2. \A i \in DOMAIN wire : wire[i].op \notin {"hello", "invalid", "reconnect"}
    BY <1>1 DEF Inv, InvWire
  <2>3. \A i \in DOMAIN wire' : i \in DOMAIN wire \/ (i = Len(wire) + 1 /\ wire'[i] = next)
    BY <1>3
  <2>4. next.op = "event" /\ next.s = Offset + (Len(wire) + 1) /\ next.s - 1 = cursor
    BY <1>1, <1>3, <1>4, <2>1
  <2>5. ASSUME NEW i \in DOMAIN wire', i \in DOMAIN wire
        PROVE  /\ wire'[i] = wire[i] /\ (i > 1 => wire[i].op \in {"event", "reconnect"})
               /\ wire[i].op \notin {"hello", "invalid", "reconnect"}
               /\ wire[i].op = "ready" => wire[i].session = session
               /\ wire[i].op = "event" =>
                     /\ wire[i].s = Offset + i
                     /\ wire[i].s - 1 \in DOMAIN log /\ wire[i].event = log[wire[i].s - 1]
               /\ wire[i].op \in {"resumed", "event"} /\ ~FirstIs("ready") =>
                     sessionId = session /\ sessionId \in Sessions
    BY <2>2, <2>5, <1>3 DEF Inv, InvWire
  <2>6. next.event = log[next.s - 1] /\ next.s - 1 \in DOMAIN log
    BY <1>2, <2>4
  <2>7. cursor' = Offset' + Len(wire') /\ cursor' <= Len(log) + 1
    BY <1>1, <1>3, <1>4, <2>1
  <2> HIDE DEF next
  <2>8. ASSUME NEW i \in DOMAIN wire'
        PROVE  /\ i > 1 => wire'[i].op \in {"event", "reconnect"}
               /\ wire'[i].op \notin {"hello", "invalid", "reconnect"}
               /\ wire'[i].op = "ready" => wire'[i].session = session
               /\ wire'[i].op = "event" =>
                     /\ wire'[i].s = Offset + i
                     /\ wire'[i].s - 1 \in DOMAIN log /\ wire'[i].event = log[wire'[i].s - 1]
               /\ wire'[i].op \in {"resumed", "event"} /\ ~FirstIs("ready") =>
                     sessionId = session /\ sessionId \in Sessions
    <3>1. CASE i \in DOMAIN wire
      BY <3>1, <2>5
    <3>2. CASE i = Len(wire) + 1 /\ wire'[i] = next
      BY <3>2, <2>4, <2>6, <1>4
    <3> QED
      BY <3>1, <3>2, <2>3
  <2> QED
    BY <2>7, <2>8, <2>1, <1>4, <1>7 DEF InvWire
<1>9. InvKnown'
  BY DEF Inv, InvKnown, ResumePointIsReal
<1>10. InvLog'
  BY <1>7 DEF Inv, InvLog, Received
<1>11. InvStop'
  BY DEF Inv, InvStop
<1> QED
  BY <1>5, <1>6, <1>8, <1>9, <1>10, <1>11 DEF Inv


\* The host closes the client, the gateway asks for another connection, or it
\* breaks.
LEMMA CutSteps == ASSUME Inv, CloseClient \/ AskReconnect \/ Break PROVE Inv'
<1>1. /\ faults \in Nat /\ (Fault => faults' \in Nat) /\ link \in {"up", "down"}
      /\ ~Connection => Silent /\ link = "down"
  BY DEF Inv, InvTypes, InvLink, Fault
<1>2. CASE CloseClient
  <2>1. cursor' = 0 /\ link' \in {"up", "down"} /\ upstream' = Nothing /\ wire' = wire
        /\ (~Connection => link' = "down")
    <3>1. CASE Connection
      BY <3>1, <1>2 DEF CloseClient
    <3>2. CASE ~Connection
      BY <3>2, <1>1, <1>2 DEF CloseClient, Silent
    <3> QED
      BY <3>1, <3>2
  <2> QED
    BY <2>1, <1>1, <1>2, CutKeeps DEF CloseClient, Shut
<1>3. CASE AskReconnect
  BY <1>1, <1>3, CutKeeps DEF AskReconnect, Send
<1>4. CASE Break
  BY <1>1, <1>4, CutKeeps DEF Break
<1> QED
  BY <1>2, <1>3, <1>4

\* Every step of the specification keeps the invariant.
LEMMA GatewayStepKeeps == Inv /\ [Next]_vars => Inv'
<1> SUFFICES ASSUME Inv, [Next]_vars PROVE Inv'
  OBVIOUS
<1>1. CASE UNCHANGED vars
  <2>1. Received' = Received /\ (\A op : FirstIs(op)' <=> FirstIs(op))
    BY <1>1 DEF vars, buffer, network, Received, FirstIs
  <2>2. Offset' = Offset
    BY <1>1, <2>1 DEF vars, known, Offset
  <2>3. InvStop' /\ InvTypes'
    BY <1>1 DEF Inv, InvStop, InvTypes, vars, loop, known, buffer, life, network, platform
  <2>4. InvLink' /\ InvKnown'
    BY <1>1 DEF Inv, InvLink, InvKnown, ResumePointIsReal, Silent, Connection, vars, loop,
                known, buffer, life, network, platform
  <2>5. InvWire' /\ InvLog'
    BY <1>1, <2>1, <2>2 DEF Inv, InvWire, InvLog, vars, loop, known, buffer, life, network,
                            platform
  <2> QED
    BY <2>3, <2>4, <2>5 DEF Inv
<1>2. CASE RunStep
  BY <1>2, OutsideSteps, ConnectedKeeps, ReadHelloKeeps, SendHailKeeps, ReadReadyKeeps,
     ReadResumedKeeps, ReadEventKeeps, BufferSteps, ReadInvalidKeeps
     DEF RunStep
<1>3. CASE Take \/ Dispatched
  BY <1>3, BufferSteps
<1>4. CASE CloseClient \/ RunCancelled
  BY <1>4, CutSteps, OutsideSteps
<1>5. CASE GatewayStep
  BY <1>5, ProduceKeeps, AnswerIdentifyKeeps, AnswerResumeKeeps, RefuseResumeKeeps, PushKeeps,
     CutSteps
     DEF GatewayStep
<1> QED
  BY <1>1, <1>2, <1>3, <1>4, <1>5 DEF Next

-----------------------------------------------------------------------------
(* The properties of the client.                                            *)

\* GatewayClient's invariant holds in every state of the specification.
THEOREM GatewayInvHolds == Spec => []Inv
  BY GatewayInit, GatewayStepKeeps, PTL DEF Spec

\* Types of the client, and the bound on the events it keeps in memory.
THEOREM GatewayTypesCorrect == Spec => []TypeOK
<1>1. Inv => TypeOK
  BY DEF Inv, InvStop, InvTypes, TypeOK
<1> QED
  BY <1>1, GatewayInvHolds, PTL

\* A resume names a session together with a number that it has reached.
THEOREM ResumePoint == Spec => []ResumePointIsReal
<1>1. Inv => ResumePointIsReal
  BY DEF Inv, InvKnown
<1> QED
  BY <1>1, GatewayInvHolds, PTL

\* What is received is in the handed events or in the pipe.
LEMMA ReceivedIsContained ==
    ASSUME Inv, NEW x \in Received
    PROVE  Contains(handed \o Pipe, x)
<1> DEFINE put == IF inPut = NoEvent THEN << >> ELSE << inPut >>
           all == handed \o (queue \o put)
<1>1. handed \in Seq(Events) /\ queue \in Seq(Events) /\ inPut \in Events \cup {NoEvent}
  BY DEF Inv, InvTypes
<1>2. put \in Seq(Events) /\ (inPut # NoEvent => Len(put) = 1 /\ put[1] = inPut)
  <2>1. CASE inPut = NoEvent
    BY <2>1
  <2>2. CASE inPut # NoEvent
    BY <2>2, <1>1
  <2> QED
    BY <2>1, <2>2
<1> HIDE DEF put
<1>3. \E i \in 1 .. Len(all) : all[i] = x
  <2>1. /\ Len(queue \o put) = Len(queue) + Len(put) /\ queue \o put \in Seq(Events)
        /\ \A i \in 1 .. Len(queue) : (queue \o put)[i] = queue[i]
        /\ \A i \in 1 .. Len(put) : (queue \o put)[Len(queue) + i] = put[i]
        /\ Len(handed) \in Nat /\ Len(queue) \in Nat /\ Len(put) \in Nat
    BY <1>1, <1>2
  <2>2. /\ Len(all) = Len(handed) + (Len(queue) + Len(put))
        /\ \A i \in 1 .. Len(handed) : all[i] = handed[i]
        /\ \A i \in 1 .. Len(queue) + Len(put) : all[Len(handed) + i] = (queue \o put)[i]
    BY <1>1, <2>1
  <2>3. CASE x \in ElemsOf(handed)
    <3>1. PICK i \in 1 .. Len(handed) : handed[i] = x
      BY <1>1, <2>3 DEF ElemsOf
    <3> QED
      BY <3>1, <2>1, <2>2
  <2>4. CASE x \in ElemsOf(queue)
    <3>1. PICK i \in 1 .. Len(queue) : queue[i] = x
      BY <1>1, <2>4 DEF ElemsOf
    <3>2. /\ Len(handed) + i \in 1 .. Len(all) /\ i \in 1 .. Len(queue) + Len(put)
      BY <3>1, <2>1, <2>2
    <3> QED
      BY <3>1, <3>2, <2>1, <2>2
  <2>5. CASE x = inPut /\ inPut # NoEvent
    <3>1. Len(put) = 1 /\ put[1] = x
      BY <1>2, <2>5
    <3>2. /\ Len(handed) + (Len(queue) + 1) \in 1 .. Len(all)
          /\ Len(queue) + 1 \in 1 .. Len(queue) + Len(put)
      <4> HIDE DEF all
      <4> QED
        BY <3>1, <2>1, <2>2
    <3>3. all[Len(handed) + (Len(queue) + 1)] = x
      BY <3>1, <3>2, <2>1, <2>2
    <3> QED
      BY <3>2, <3>3
  <2> QED
    BY <2>3, <2>4, <2>5 DEF Received, Elems
<1> QED
  BY <1>3 DEF Contains, Pipe, put

\* Nothing that the client has acknowledged is lost before it is closed.
THEOREM NothingAcknowledgedIsLost == Spec => []AcknowledgedIsKept
<1>1. Inv => AcknowledgedIsKept
  BY ReceivedIsContained DEF Inv, InvLog, AcknowledgedIsKept
<1> QED
  BY <1>1, GatewayInvHolds, PTL


\* Without close() and without cancellation run() ends only when the number of
\* failures in a row has reached a limit that is set.
THEOREM GivesUpAtLimit == Spec => GivesUpOnlyAtLimit
<1>1. ASSUME [Next]_vars, runPc # "ended", runPc' = "ended", ~stop, ~RunCancelled
      PROVE  0 < maxReconnects /\ maxReconnects <= reconnectCount'
  <2>1. CASE CountFailure
    BY <2>1, <1>1 DEF CountFailure
  <2>2. ~GoOn("sleep") /\ ~GoOn("fetch")
    BY <1>1 DEF GoOn
  <2>3. CASE UNCHANGED vars
    BY <2>3, <1>1 DEF vars, loop
  <2>4. CASE RunStep
    <3>1. CASE Fetched \/ Connected \/ ReadHello \/ SendHail \/ PutDone \/ ReadInvalid
      BY <3>1, <1>1 DEF Fetched, Connected, ReadHello, SendHail, PutDone, ReadInvalid
    <3>2. CASE ReadReady \/ ReadResumed
      BY <3>2, <1>1 DEF ReadReady, ReadResumed, loop
    <3>3. CASE ReadEvent
      BY <3>3, <1>1 DEF ReadEvent, QueueOrBlock, Reading
    <3>4. CASE ConnectFails \/ HailFails
      BY <3>4, <2>1 DEF ConnectFails, HailFails
    <3>5. CASE Awakes \/ ReadReconnect \/ InvalidPauseOver
      BY <3>5, <2>2 DEF Awakes, ReadReconnect, InvalidPauseOver
    <3>6. CASE ReadEnd
      BY <3>6, <2>1, <2>2 DEF ReadEnd
    <3> QED
      BY <2>4, <3>1, <3>2, <3>3, <3>4, <3>5, <3>6 DEF RunStep
  <2>5. CASE Take \/ Dispatched \/ CloseClient
    BY <2>5, <1>1 DEF Take, Dispatched, CloseClient, loop
  <2>6. CASE GatewayStep
    BY <2>6, <1>1 DEF GatewayStep, Produce, AnswerIdentify, AnswerResume, RefuseResume, Push,
                      AskReconnect, Break, loop
  <2> QED
    BY <1>1, <2>3, <2>4, <2>5, <2>6 DEF Next
<1>2. [Next]_vars =>
         [runPc # "ended" /\ runPc' = "ended" /\ ~stop
            => \/ 0 < maxReconnects /\ maxReconnects <= reconnectCount'
               \/ RunCancelled]_vars
  BY <1>1
<1> QED
  BY <1>2, PTL DEF Spec, GivesUpOnlyAtLimit

-----------------------------------------------------------------------------
(* The client implements the feed.                                          *)

\* Nothing that the feed tells apart changes.
LEMMA FeedStutters ==
    ASSUME UNCHANGED << inPut, queue, handed, stop >>
    PROVE  UNCHANGED Feed!feedVars
  BY DEF Feed!feedVars, Pipe

\* The client is closed, or has been before.
LEMMA FeedCloses ==
    ASSUME Inv, stop' = TRUE, handed' = handed
    PROVE  Feed!Close \/ UNCHANGED Feed!feedVars
<1>1. CASE stop
  <2>1. stop' = stop
    BY <1>1 DEF Inv, InvStop
  <2> QED
    BY <1>1, <2>1 DEF Feed!feedVars
<1>2. CASE ~stop
  BY <1>2 DEF Feed!Close
<1> QED
  BY <1>1, <1>2

\* The steps that may close.
LEMMA FeedPauses ==
    ASSUME Inv, UNCHANGED << inPut, queue, handed >>,
           \/ CountFailure
           \/ (GoOn("sleep") \/ GoOn("fetch")) /\ UNCHANGED reconnectCount
    PROVE  Feed!Close \/ UNCHANGED Feed!feedVars
<1>1. UNCHANGED life \/ stop' = TRUE
  BY PausesOutside
<1> QED
  BY <1>1, FeedStutters, FeedCloses DEF life

\* An event that is read is accepted by the feed.
LEMMA FeedAccepts ==
    ASSUME Inv, ReadEvent
    PROVE  (\E e \in Events : Feed!Accept(e)) \/ UNCHANGED Feed!feedVars
<1>1. CASE stop
  <2>1. stop' = stop /\ handed' = handed
    BY DEF ReadEvent, life
  <2> QED
    BY <1>1, <2>1 DEF Feed!feedVars
<1>2. CASE ~stop
  <2>1. /\ runPc = "read" /\ wire # << >> /\ Head(wire).op = "event" /\ Taken
        /\ inPut = NoEvent /\ Pipe = queue
    BY DEF ReadEvent, Reading, Inv, InvTypes, Pipe
  <2>2. wire[1].op = "event" /\ 1 \in DOMAIN wire /\ Head(wire) = wire[1]
    BY <2>1, TakenFacts
  <2>3. ~FirstIs("ready") /\ Offset = lastSeq
    BY <2>2 DEF FirstIs, Offset
  <2>4. /\ sessionId = session /\ sessionId \in Sessions /\ lastSeq \in DOMAIN log
        /\ Head(wire).event = log[lastSeq]
    <3>1. lastSeq \in Int
      BY DEF Inv, InvTypes
    <3>2. /\ wire[1].s = Offset + 1 /\ wire[1].s - 1 \in DOMAIN log
          /\ wire[1].event = log[wire[1].s - 1]
      BY <2>2 DEF Inv, InvWire
    <3> QED
      BY <2>2, <2>3, <3>1, <3>2 DEF Inv, InvWire
  <2> DEFINE e == log[lastSeq]
  <2>5. e \in Events /\ queue \in Seq(Events) /\ handed \in Seq(Events) /\ Len(queue) <= QueueSize
    BY <2>4 DEF Inv, InvTypes
  <2>6. \A x \in Received : x < e
    BY <2>4 DEF Inv, InvTypes, InvLog
  <2>7. /\ \A i \in DOMAIN queue : queue[i] < e
        /\ \A i \in DOMAIN handed : handed[i] < e
    BY <2>6 DEF Received, Elems, ElemsOf
  <2>8. QueueOrBlock(e) /\ UNCHANGED << stop, handed >>
    BY <2>4 DEF ReadEvent, life
  <2>9. Pipe' = Append(queue, e)
    <3>1. CASE Len(queue) < QueueSize
      BY <3>1, <2>1, <2>8 DEF QueueOrBlock, Pipe
    <3>2. CASE ~(Len(queue) < QueueSize)
      <4>1. inPut' = e /\ e # NoEvent /\ queue' = queue
        BY <3>2, <2>5, <2>8 DEF QueueOrBlock
      <4>2. queue \o << e >> = Append(queue, e)
        BY <2>5
      <4> QED
        BY <4>1, <4>2 DEF Pipe
    <3> QED
      BY <3>1, <3>2
  <2>10. Len(queue) < QueueSize + 1
    BY <2>5
  <2>11. Feed!Accept(e)
    BY <1>2, <2>1, <2>7, <2>8, <2>9, <2>10 DEF Feed!Accept
  <2> QED
    BY <2>5, <2>11
<1> QED
  BY <1>1, <1>2

\* What the worker takes is handed over by the feed; the put that was blocked
\* is a matter of the client alone.
LEMMA FeedHandsOver ==
    ASSUME Inv, PutDone \/ Take \/ Dispatched
    PROVE  Feed!HandOver \/ UNCHANGED Feed!feedVars
<1> USE DEF life, buffer
<1>1. queue \in Seq(Events) /\ inPut \in Events \cup {NoEvent}
  BY DEF Inv, InvTypes
<1>2. CASE PutDone
  <2>1. inPut # NoEvent /\ inPut' = NoEvent /\ queue' = Append(queue, inPut)
    BY <1>2 DEF PutDone, Inv, InvTypes
  <2>2. queue \o << inPut >> = Append(queue, inPut) /\ queue' \o << >> = queue'
    BY <1>1, <2>1
  <2>3. Pipe' = Pipe
    BY <2>1, <2>2 DEF Pipe
  <2> QED
    BY <1>2, <2>3 DEF PutDone, Feed!feedVars
<1>3. CASE Take
  <2>1. /\ ~stop /\ stop' = stop /\ queue # << >> /\ inPut' = inPut
        /\ handed' = Append(handed, Head(queue)) /\ queue' = Tail(queue)
    BY <1>3 DEF Take, Inv, InvStop
  <2> DEFINE put == IF inPut = NoEvent THEN << >> ELSE << inPut >>
  <2>2. put \in Seq(Events)
    <3>1. CASE inPut = NoEvent
      BY <3>1
    <3>2. CASE inPut # NoEvent
      BY <3>2, <1>1
    <3> QED
      BY <3>1, <3>2
  <2> HIDE DEF put
  <2>3. /\ queue \o put # << >> /\ Head(queue \o put) = Head(queue)
        /\ Tail(queue \o put) = Tail(queue) \o put
    BY <1>1, <2>1, <2>2
  <2>4. Pipe = queue \o put /\ Pipe' = Tail(queue) \o put
    BY <2>1 DEF Pipe, put
  <2> QED
    BY <2>1, <2>3, <2>4 DEF Feed!HandOver
<1>4. CASE Dispatched
  BY <1>4, FeedStutters DEF Dispatched
<1> QED
  BY <1>2, <1>3, <1>4

\* The client implements the feed it promises, whatever the connection does.
THEOREM ClientImplementsFeed == Spec => ImplementsFeed
<1>1. Init => Feed!FeedInit
  <2>1. Init => Pipe = << >>
    <3>1. << >> \o << >> = << >>
      OBVIOUS
    <3> QED
      BY <3>1 DEF Init, Pipe
  <2> QED
    BY <2>1 DEF Init, Feed!FeedInit
<1>2. Inv /\ [Next]_vars => [Feed!FeedNext]_(Feed!feedVars)
  <2> SUFFICES ASSUME Inv, [Next]_vars
               PROVE  Feed!FeedNext \/ UNCHANGED Feed!feedVars
    OBVIOUS
  <2> USE DEF loop, buffer, life
  <2>1. CASE UNCHANGED vars
    BY <2>1, FeedStutters DEF vars
  <2>2. CASE Fetched \/ Connected \/ ReadHello \/ SendHail \/ ReadReady \/ ReadResumed
                \/ ReadInvalid
    BY <2>2, FeedStutters
       DEF Fetched, Connected, ReadHello, SendHail, ReadReady, ReadResumed, ReadInvalid
  <2>3. CASE ConnectFails \/ Awakes \/ HailFails \/ ReadReconnect \/ InvalidPauseOver \/ ReadEnd
    BY <2>3, FeedPauses
       DEF ConnectFails, Awakes, HailFails, ReadReconnect, InvalidPauseOver, ReadEnd,
           Feed!FeedNext
  <2>4. CASE ReadEvent
    BY <2>4, FeedAccepts DEF Feed!FeedNext
  <2>5. CASE PutDone \/ Take \/ Dispatched
    BY <2>5, FeedHandsOver DEF Feed!FeedNext
  <2>6. CASE CloseClient
    BY <2>6, FeedCloses DEF CloseClient, Shut, Feed!FeedNext
  <2>7. CASE RunCancelled
    <3>1. CASE runPc = "backoff"
      <4>1. inPut' = inPut /\ UNCHANGED << queue, handed, stop >>
        BY <2>7, <3>1 DEF RunCancelled, Inv, InvTypes
      <4> QED
        BY <4>1, FeedStutters
    <3>2. CASE runPc # "backoff"
      BY <2>7, <3>2, FeedCloses DEF RunCancelled, Shut, Feed!FeedNext
    <3> QED
      BY <3>1, <3>2
  <2>8. CASE GatewayStep
    BY <2>8, FeedStutters DEF GatewayStep, Produce, AnswerIdentify, AnswerResume, RefuseResume,
                              Push, AskReconnect, Break
  <2> QED
    BY <2>1, <2>2, <2>3, <2>4, <2>5, <2>6, <2>7, <2>8 DEF Next, RunStep
<1> QED
  BY <1>1, <1>2, GatewayInvHolds, PTL DEF Spec, ImplementsFeed, Feed!FeedSpec

=============================================================================

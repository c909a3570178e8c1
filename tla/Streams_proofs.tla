--------------------------- MODULE Streams_proofs ---------------------------
(***************************************************************************)
(* Proofs about Streams: for any number of streams, keys and settle        *)
(* requests.  The server does with the SDK only what Receive lets any      *)
(* caller do, so what is proved of Receive holds here, and the rest is     *)
(* about the server's own bookkeeping.                                     *)
(***************************************************************************)
EXTENDS Streams, Receive_proofs, FiniteSetTheorems

\* A call is made for a burn; a flight is the one its key's entry in the map names.
JobsAreBound ==
  \A c \in Calls :
    /\ Running(c) => job[c].key \in Keys /\ flight[job[c].key] = c
    /\ job[c].kind \in {"checked", "route"} => BurnOfKey(job[c].key) \in Burns

\* Only a stream that waits holds a place, and only one that is over has an outcome.
StreamsInOrder ==
  \A s \in Streams :
    /\ stream[s].counted => stream[s].pc = "waiting"
    /\ stream[s].out # "none" => stream[s].pc = "done"

\* A stream that was told of a settlement was told of its own call's.
ToldOfItsOwn ==
  \A s \in Streams : stream[s].out = "settled" =>
    /\ stream[s].flight \in Calls \cap stream[s].told
    /\ call[stream[s].flight].pc = "done"
    /\ call[stream[s].flight].out = "settled"

\* The state of the server itself.
ServerTypeOK ==
  /\ stream \in [Streams -> StreamStates]
  /\ count \in Nat
  /\ flight \in [Keys -> Calls \cup {None}]
  /\ job \in [Calls -> JobStates]
  /\ heard \in [Calls -> SUBSET Calls]
  /\ file \in [Burns -> Records]
  /\ doomed \in BOOLEAN

\* The inductive invariant.
StreamsInv ==
  /\ ReceiveInv
  /\ ServerTypeOK
  /\ JobsAreBound
  /\ StreamsInOrder
  /\ ToldOfItsOwn
  /\ CountIsExact

\* The streams the server counts as running.
Counted == {s \in Streams : stream[s].counted}
-----------------------------------------------------------------------------
(***************************************************************************)
(* What the server does with the SDK.                                      *)
(***************************************************************************)
LEMMA ServerCallsReceive ==
  ASSUME JobsAreBound, StreamsNext
  PROVE  ReceiveNext \/ UNCHANGED receiveVars
  <1>0. Server \in Clients
    BY StreamsAssumption
  <1>1. ASSUME NEW c \in Calls, FlightBegins(c) \/ RouteBegins(c)
        PROVE  ReceiveNext
    <2>1. BurnOfKey(job[c].key) \in Burns
      BY <1>1 DEF FlightBegins, RouteBegins, Running, JobsAreBound, Keys, BurnOfKey
    <2>2. Begin(c, Server, BurnOfKey(job[c].key))
      BY <1>1 DEF FlightBegins, RouteBegins
    <2> QED
      BY <1>0, <2>1, <2>2 DEF ReceiveNext
  <1>2. ASSUME NEW c \in Calls, FlightStep(c) \/ RouteStep(c)
        PROVE  ReceiveNext
    BY <1>2 DEF FlightStep, RouteStep, ReceiveNext
  <1>3. CASE ServerDies
    BY <1>0, <1>3 DEF ServerDies, ReceiveNext
  <1>4. CASE ChainStep /\ UNCHANGED <<call, store, serverVars>>
    BY <1>4 DEF ReceiveNext
  <1>5. ASSUME NEW s \in Streams, NEW k \in Keys, Open(s, k)
        PROVE  UNCHANGED receiveVars
    BY <1>5 DEF Open
  <1>6. ASSUME NEW s \in Streams, Leave(s)
        PROVE  UNCHANGED receiveVars
    BY <1>6 DEF Leave
  <1>7. ASSUME NEW c \in Calls, SequenceUnread(c)
        PROVE  UNCHANGED receiveVars
    BY <1>7 DEF SequenceUnread
  <1>8. ASSUME NEW c \in Calls, NEW b \in Burns, RouteArrives(c, b)
        PROVE  UNCHANGED receiveVars
    BY <1>8 DEF RouteArrives
  <1> QED
    BY <1>1, <1>2, <1>3, <1>4, <1>5, <1>6, <1>7, <1>8 DEF StreamsNext

\* So a call that is done stays as it is, and the invariant of Receive is kept.
LEMMA ServerKeepsReceive ==
  ASSUME ReceiveInv, JobsAreBound, StreamsNext
  PROVE  /\ ReceiveInv'
         /\ \A c \in Calls : call[c].pc = "done" => call'[c] = call[c]
  <1>1. CASE ReceiveNext
    BY <1>1, InvStep, DoneIsFinal DEF ReceiveInv
  <1>2. CASE UNCHANGED receiveVars
    BY <1>2, InvStutter DEF receiveVars
  <1> QED
    BY <1>1, <1>2, ServerCallsReceive
-----------------------------------------------------------------------------
(***************************************************************************)
(* The steps of the server, each over the parts of the invariant it can    *)
(* disturb.                                                                *)
(***************************************************************************)
StreamOuts == {"recorded", "refused", "dropped"}

\* The parts of the invariant about the server's own state.
ServerFacts == ServerTypeOK /\ JobsAreBound /\ StreamsInOrder /\ ToldOfItsOwn /\ CountIsExact

\* There are finitely many of them.
LEMMA CountedIsFinite == IsFiniteSet(Counted) /\ Cardinality(Counted) \in Nat
  <1>1. Counted \in SUBSET Streams
    BY DEF Counted
  <1> QED
    BY <1>1, StreamsAssumption, FS_Subset, FS_CardinalityType

\* A stream that is answered without a receive, and one that has a place.
Answered(out) == [NoStream EXCEPT !.pc = "done", !.out = out]

Placed(c) == [NoStream EXCEPT !.pc = "waiting", !.counted = TRUE, !.flight = c]

\* Both are streams.
LEMMA NewStreams ==
  /\ NoStream \in StreamStates
  /\ \A out \in StreamOuts :
       /\ Answered(out) \in StreamStates
       /\ Answered(out).pc = "done" /\ Answered(out).counted = FALSE /\ Answered(out).out = out
  /\ \A c \in Calls :
       /\ Placed(c) \in StreamStates
       /\ Placed(c).pc = "waiting" /\ Placed(c).counted = TRUE /\ Placed(c).out = "none"
  <1>1. NoStream \in StreamStates /\ NoStream.out = "none"
    BY DEF NoStream, StreamStates
  <1>2. \A v \in StreamStates, out \in StreamOuts :
          LET w == [v EXCEPT !.pc = "done", !.out = out] IN
          w \in StreamStates /\ w.pc = "done" /\ w.counted = v.counted /\ w.out = out
    BY DEF StreamStates, StreamOuts
  <1>3. \A v \in StreamStates, c \in Calls :
          LET w == [v EXCEPT !.pc = "waiting", !.counted = TRUE, !.flight = c] IN
          w \in StreamStates /\ w.pc = "waiting" /\ w.counted = TRUE /\ w.out = v.out
    BY DEF StreamStates
  <1>4. NoStream.counted = FALSE
    BY DEF NoStream
  <1>5. ASSUME NEW out \in StreamOuts
        PROVE  /\ Answered(out) \in StreamStates
               /\ Answered(out).pc = "done" /\ Answered(out).counted = FALSE
               /\ Answered(out).out = out
    BY <1>1, <1>2, <1>4, Zenon DEF Answered
  <1>6. ASSUME NEW c \in Calls
        PROVE  /\ Placed(c) \in StreamStates
               /\ Placed(c).pc = "waiting" /\ Placed(c).counted = TRUE
               /\ Placed(c).out = "none"
    BY <1>1, <1>3, Zenon DEF Placed
  <1> QED
    BY <1>1, <1>5, <1>6

\* A step that leaves the server's state alone, but for the burns on file.
LEMMA IdleKeeps ==
  ASSUME ServerFacts, \A c \in Calls : call[c].pc = "done" => call'[c] = call[c],
         UNCHANGED <<stream, count, flight, job, heard, doomed>>,
         file' \in [Burns -> Records]
  PROVE  ServerFacts'
  BY DEF ServerFacts, ServerTypeOK, JobsAreBound, Running, StreamsInOrder, ToldOfItsOwn,
         CountIsExact

\* A stream answered at once.
LEMMA AnswerKeeps ==
  ASSUME ServerFacts, UNCHANGED <<receiveVars, file, doomed>>,
         NEW s \in Streams, stream[s].pc = "idle",
         NEW out \in {"recorded", "refused"}, AnswerAtOnce(s, out)
  PROVE  ServerFacts'
  <1> USE DEF ServerFacts, ServerTypeOK, StreamStates
  <1>1. /\ \A q \in Streams \ {s} : stream'[q] = stream[q]
        /\ stream'[s].pc = "done" /\ stream'[s].counted = FALSE /\ stream'[s].out = out
        /\ stream' \in [Streams -> StreamStates]
    <2>1. stream' = [stream EXCEPT ![s] = Answered(out)]
      BY DEF AnswerAtOnce, Answered
    <2> QED
      BY <2>1, NewStreams DEF StreamOuts
  <1>2. UNCHANGED <<count, flight, job, heard, call>>
    BY DEF AnswerAtOnce, receiveVars
  <1>3. ServerTypeOK'
    BY <1>1, <1>2
  <1>4. JobsAreBound'
    BY <1>2 DEF JobsAreBound, Running
  <1>5. StreamsInOrder' /\ ToldOfItsOwn'
    BY <1>1, <1>2 DEF StreamsInOrder, ToldOfItsOwn
  <1>6. Counted' = Counted
    BY <1>1 DEF Counted, StreamsInOrder
  <1> QED
    BY <1>2, <1>3, <1>4, <1>5, <1>6 DEF CountIsExact, Counted

\* A stream that takes a place, on a flight of its key or on one it starts.
LEMMA WaitKeeps ==
  ASSUME ServerFacts, UNCHANGED <<receiveVars, file, doomed>>,
         NEW s \in Streams, stream[s].pc = "idle", NEW c \in Calls, WaitFor(s, c)
  PROVE  /\ stream' \in [Streams -> StreamStates] /\ count' \in Nat
         /\ StreamsInOrder' /\ ToldOfItsOwn' /\ CountIsExact'
  <1> USE DEF ServerFacts, ServerTypeOK, StreamStates
  <1>1. /\ \A q \in Streams \ {s} : stream'[q] = stream[q]
        /\ stream'[s].pc = "waiting" /\ stream'[s].counted /\ stream'[s].out = "none"
        /\ stream' \in [Streams -> StreamStates]
    <2>1. stream' = [stream EXCEPT ![s] = Placed(c)]
      BY DEF WaitFor, Placed
    <2> QED
      BY <2>1, NewStreams
  <1>2. count' = count + 1 /\ UNCHANGED call
    BY DEF WaitFor, receiveVars
  <1>3. stream' \in [Streams -> StreamStates] /\ count' \in Nat
    BY <1>1, <1>2
  <1>4. StreamsInOrder' /\ ToldOfItsOwn'
    BY SMTT(20), <1>1, <1>2 DEF StreamsInOrder, ToldOfItsOwn
  <1>5. s \notin Counted /\ Counted' = Counted \cup {s}
    BY <1>1 DEF Counted, StreamsInOrder
  <1>6. Cardinality(Counted \cup {s}) = Cardinality(Counted) + 1
    BY <1>5, CountedIsFinite, FS_AddElement
  <1>7. CountIsExact'
    BY <1>2, <1>5, <1>6 DEF CountIsExact, Counted
  <1> QED
    BY <1>3, <1>4, <1>7

\* A stream is opened: it is counted if, and only if, it gets a place.
LEMMA OpenKeeps ==
  ASSUME ServerFacts, NEW s \in Streams, NEW k \in Keys, Open(s, k)
  PROVE  ServerFacts'
  <1>0. UNCHANGED <<receiveVars, file, doomed>> /\ stream[s].pc = "idle"
    BY DEF Open
  <1>1. ASSUME NEW out \in {"recorded", "refused"}, AnswerAtOnce(s, out)
        PROVE  ServerFacts'
    BY <1>0, <1>1, AnswerKeeps
  <1>2. CASE Join(s, k)
    <2>1. flight[k] \in Calls
      BY <1>2 DEF Join, ServerFacts, ServerTypeOK
    <2>2. WaitFor(s, flight[k]) /\ UNCHANGED <<flight, job, heard>>
      BY <1>2 DEF Join
    <2>3. /\ stream' \in [Streams -> StreamStates] /\ count' \in Nat
          /\ StreamsInOrder' /\ ToldOfItsOwn' /\ CountIsExact'
      BY <1>0, <2>1, <2>2, WaitKeeps
    <2> QED
      BY <1>0, <2>2, <2>3 DEF ServerFacts, ServerTypeOK, JobsAreBound, Running
  <1>3. CASE Start(s, k)
    <2>1. PICK c \in Calls :
            /\ Free(c)
            /\ WaitFor(s, c)
            /\ flight' = [flight EXCEPT ![k] = c]
            /\ job' = [job EXCEPT ![c] = [kind |-> "flight", key |-> k]]
      BY <1>3 DEF Start
    <2>2. flight[k] = None /\ UNCHANGED heard
      BY <1>3 DEF Start
    <2>3. /\ stream' \in [Streams -> StreamStates] /\ count' \in Nat
          /\ StreamsInOrder' /\ ToldOfItsOwn' /\ CountIsExact'
      BY <1>0, <2>1, WaitKeeps
    <2>4. ServerTypeOK'
      BY <1>0, <2>1, <2>2, <2>3 DEF ServerFacts, ServerTypeOK, JobStates
    <2>5. JobsAreBound'
      <3> SUFFICES ASSUME NEW d \in Calls
                   PROVE  /\ Running(d)' => job'[d].key \in Keys /\ flight'[job'[d].key] = d
                          /\ job'[d].kind \in {"checked", "route"} =>
                               BurnOfKey(job'[d].key) \in Burns
        BY DEF JobsAreBound, BurnOfKey
      <3>1. CASE d = c
        BY <2>1, <3>1 DEF ServerFacts, ServerTypeOK
      <3>2. CASE d # c
        <4>1. job'[d] = job[d]
          BY <2>1, <3>2 DEF ServerFacts, ServerTypeOK
        <4>2. Running(d) => job[d].key # k
          BY <2>2, NoneAssumption DEF ServerFacts, JobsAreBound
        <4> QED
          BY <2>1, <4>1, <4>2 DEF ServerFacts, ServerTypeOK, JobsAreBound, Running, BurnOfKey
      <3> QED
        BY <3>1, <3>2
    <2> QED
      BY <2>3, <2>4, <2>5 DEF ServerFacts
  <1> QED
    BY <1>1, <1>2, <1>3 DEF Open

\* A client that leaves gives its place back once.
LEMMA LeaveKeeps ==
  ASSUME ServerFacts, NEW s \in Streams, Leave(s)
  PROVE  ServerFacts'
  <1> USE DEF ServerFacts, ServerTypeOK, StreamStates
  <1>1. /\ stream[s].counted /\ count' = Freed(1)
        /\ stream' = [stream EXCEPT ![s].counted = FALSE]
        /\ UNCHANGED <<flight, job, heard, file, doomed, call>>
    BY DEF Leave, receiveVars
  <1>2. s \in Counted /\ Counted' = Counted \ {s}
    BY <1>1 DEF Counted
  <1>3. /\ Cardinality(Counted \ {s}) = Cardinality(Counted) - 1
        /\ Cardinality(Counted \ {s}) \in Nat
    BY <1>2, CountedIsFinite, FS_RemoveElement, FS_CardinalityType
  <1>4. count = Cardinality(Counted) /\ Cardinality(Counted) \in Nat
    BY CountedIsFinite DEF CountIsExact, Counted
  <1>5. count' = Cardinality(Counted \ {s})
    BY <1>1, <1>3, <1>4 DEF Freed
  <1>6. CountIsExact' /\ count' \in Nat
    BY <1>2, <1>3, <1>5 DEF CountIsExact, Counted
  <1>7. stream' \in [Streams -> StreamStates]
    <2>1. [stream[s] EXCEPT !.counted = FALSE] \in StreamStates
      BY ZenonT(30)
    <2> QED
      BY <1>1, <2>1
  <1>8. ServerTypeOK'
    BY <1>1, <1>6, <1>7
  <1>9. JobsAreBound'
    BY <1>1 DEF JobsAreBound, Running
  <1>10. StreamsInOrder' /\ ToldOfItsOwn'
    BY <1>1 DEF StreamsInOrder, ToldOfItsOwn
  <1> QED
    BY <1>6, <1>8, <1>9, <1>10

\* A flight that lands.
LEMMA LandKeeps ==
  ASSUME ServerFacts, ReceiveTypeOK, NEW c \in Calls, NEW outcome \in Outcomes, Running(c),
         Land(c, outcome), UNCHANGED file,
         outcome = "settled" => call'[c].pc = "done" /\ call'[c].out = "settled",
         \A d \in Calls : call[d].pc = "done" => call'[d] = call[d]
  PROVE  ServerFacts'
  <1> DEFINE told == Captured(c, outcome)[c]
             mine == {s \in Streams : Waiting(s, c)}
             freed == {s \in mine : stream[s].counted}
  <1> USE DEF ServerFacts, ServerTypeOK
  <1>1. Captured(c, outcome) \in [Calls -> SUBSET Calls]
        /\ (outcome = "settled" => c \in told)
    BY DEF Captured, Emit
  <1>2. EndOf(outcome) \in {"settled", "already", "failed"}
        /\ (EndOf(outcome) = "settled" => outcome = "settled")
    BY DEF EndOf, Outcomes
  <1>3. /\ stream' = [s \in Streams |->
             IF s \in mine
             THEN [stream[s] EXCEPT !.pc = "done", !.counted = FALSE,
                                    !.out = EndOf(outcome), !.told = told]
             ELSE stream[s]]
        /\ count' = Freed(Cardinality(freed))
        /\ flight' = [flight EXCEPT ![job[c].key] = None]
        /\ job' = [job EXCEPT ![c] = Spent]
        /\ heard' = [Captured(c, outcome) EXCEPT ![c] = {}]
        /\ doomed' \in BOOLEAN
    BY DEF Land
  <1>4. ASSUME NEW s \in Streams, s \in mine
        PROVE  /\ stream'[s] \in StreamStates
               /\ stream'[s].pc = "done" /\ ~ stream'[s].counted
               /\ stream'[s].out = EndOf(outcome) /\ stream'[s].told = told
               /\ stream'[s].flight = c
    <2>1. stream[s] \in StreamStates /\ stream[s].flight = c
      BY <1>4 DEF Waiting
    <2>2. told \in SUBSET Calls
      BY <1>1
    <2>3. stream'[s] = [stream[s] EXCEPT !.pc = "done", !.counted = FALSE,
                                         !.out = EndOf(outcome), !.told = told]
      BY <1>3, <1>4
    <2> HIDE DEF told, mine
    <2> QED
      BY <1>2, <2>1, <2>2, <2>3 DEF StreamStates
  <1>5. ASSUME NEW s \in Streams, s \notin mine
        PROVE  stream'[s] = stream[s]
    BY <1>3, <1>5
  <1>6. Counted' = Counted \ freed /\ freed \subseteq Counted
    BY <1>4, <1>5 DEF Counted, StreamStates
  <1>7. CountIsExact' /\ count' \in Nat
    <2>1. Counted \cap freed = freed
      BY <1>6
    <2>2. /\ IsFiniteSet(Counted') /\ Cardinality(Counted') \in Nat
          /\ Cardinality(Counted') = Cardinality(Counted) - Cardinality(freed)
      <3>1. /\ IsFiniteSet(Counted \ freed)
            /\ Cardinality(Counted \ freed) = Cardinality(Counted) - Cardinality(freed)
        <4> HIDE DEF freed
        <4>1. /\ IsFiniteSet(Counted \ freed)
              /\ Cardinality(Counted \ freed)
                   = Cardinality(Counted) - Cardinality(Counted \cap freed)
          BY CountedIsFinite, FS_Difference
        <4> QED
          BY <2>1, <4>1
      <3>2. Cardinality(Counted \ freed) \in Nat
        BY <3>1, FS_CardinalityType
      <3> QED
        BY <1>6, <3>1, <3>2
    <2>3. Cardinality(freed) \in Nat /\ Cardinality(Counted) \in Nat
      BY <1>6, CountedIsFinite, FS_Subset, FS_CardinalityType
    <2>4. count = Cardinality(Counted)
      BY DEF CountIsExact, Counted
    <2>5. count' = Cardinality(Counted')
      <3> DEFINE n == Cardinality(freed)
                 m == Cardinality(Counted)
                 rest == Cardinality(Counted')
      <3>1. n \in Nat /\ m \in Nat /\ rest \in Nat /\ rest = m - n /\ count = m
            /\ count' = (IF count > n THEN count - n ELSE 0)
        BY <1>3, <2>2, <2>3, <2>4 DEF Freed
      <3> HIDE DEF n, m, rest
      <3>2. count' = rest
        BY <3>1
      <3> QED
        BY <3>2 DEF rest
    <2> QED
      BY <2>2, <2>5 DEF CountIsExact, Counted
  <1>8. ServerTypeOK'
    <2>1. stream' \in [Streams -> StreamStates]
      <3>1. \A s \in Streams : stream'[s] \in StreamStates
        BY <1>4, <1>5
      <3>2. stream' = [s \in Streams |-> stream'[s]]
        BY <1>3
      <3> QED
        BY <3>1, <3>2
    <2>2. flight' \in [Keys -> Calls \cup {None}]
      BY <1>3
    <2>3. job' \in [Calls -> JobStates]
      BY <1>3 DEF Spent, JobStates
    <2>4. heard' \in [Calls -> SUBSET Calls]
      BY <1>1, <1>3
    <2> QED
      BY <1>3, <1>7, <2>1, <2>2, <2>3, <2>4
  <1>9. JobsAreBound'
    <2> SUFFICES ASSUME NEW d \in Calls
                 PROVE  /\ Running(d)' => job'[d].key \in Keys /\ flight'[job'[d].key] = d
                        /\ job'[d].kind \in {"checked", "route"} =>
                             BurnOfKey(job'[d].key) \in Burns
      BY DEF JobsAreBound, BurnOfKey
    <2>1. CASE d = c
      BY <1>3, <2>1 DEF Spent, Running
    <2>2. CASE d # c
      <3>1. job'[d] = job[d]
        BY <1>3, <2>2
      <3>2. Running(d) => job[d].key # job[c].key
        BY <2>2 DEF JobsAreBound
      <3> QED
        BY <1>3, <3>1, <3>2 DEF JobsAreBound, Running, BurnOfKey
    <2> QED
      BY <2>1, <2>2
  <1>10. StreamsInOrder'
    BY <1>4, <1>5 DEF StreamsInOrder
  <1>11. ToldOfItsOwn'
    <2> SUFFICES ASSUME NEW s \in Streams, stream'[s].out = "settled"
                 PROVE  /\ stream'[s].flight \in Calls \cap stream'[s].told
                        /\ call'[stream'[s].flight].pc = "done"
                        /\ call'[stream'[s].flight].out = "settled"
      BY DEF ToldOfItsOwn
    <2>1. CASE s \in mine
      <3> HIDE DEF told, mine
      <3> QED
        BY <1>1, <1>2, <1>4, <2>1
    <2>2. CASE s \notin mine
      BY <1>5, <2>2 DEF ToldOfItsOwn
    <2> QED
      BY <2>1, <2>2
  <1> QED
    BY <1>7, <1>8, <1>9, <1>10, <1>11

\* The settle route.
LEMMA RouteKeeps ==
  ASSUME ServerFacts, NEW c \in Calls,
         job[c].kind \in {"checked", "route"},
         RouteGoesOn(c) \/ RouteEnds(c), UNCHANGED <<stream, count, flight, doomed>>,
         \A d \in Calls : call[d].pc = "done" => call'[d] = call[d]
  PROVE  ServerFacts'
  <1> USE DEF ServerFacts, ServerTypeOK
  <1>1. \/ job' = [job EXCEPT ![c].kind = "route"]
        \/ job' = [job EXCEPT ![c] = Spent]
    BY DEF RouteGoesOn, RouteEnds
  <1>2. job' \in [Calls -> JobStates]
    BY <1>1 DEF Spent, JobStates
  <1>3. heard' \in [Calls -> SUBSET Calls]
    <2>1. CASE RouteGoesOn(c)
      BY <2>1 DEF RouteGoesOn
    <2>2. CASE RouteEnds(c)
      BY <2>2 DEF RouteEnds, Captured, Emit
    <2> QED
      BY <2>1, <2>2
  <1>4. file' \in [Burns -> Records]
    <2>1. CASE RouteGoesOn(c)
      BY <2>1 DEF RouteGoesOn
    <2>2. CASE RouteEnds(c)
      <3>1. Settled(c) \in Records /\ Submitted(c) \in Records
        BY DEF Settled, Submitted, Records
      <3>2. \/ file' = file
            \/ \E b : \E v \in Records : file' = [file EXCEPT ![b] = v]
        BY <2>2, <3>1 DEF RouteEnds, FileAfter
      <3> QED
        BY <3>2
    <2> QED
      BY <2>1, <2>2
  <1>5. JobsAreBound'
    <2> SUFFICES ASSUME NEW d \in Calls
                 PROVE  /\ Running(d)' => job'[d].key \in Keys /\ flight'[job'[d].key] = d
                        /\ job'[d].kind \in {"checked", "route"} =>
                             BurnOfKey(job'[d].key) \in Burns
      BY DEF JobsAreBound, BurnOfKey
    <2>1. CASE d = c
      <3>1. \/ job'[c].kind = "route" /\ job'[c].key = job[c].key
            \/ job'[c].kind = "spent"
        BY <1>1 DEF Spent, JobStates
      <3> QED
        BY <2>1, <3>1 DEF JobsAreBound, Running, BurnOfKey
    <2>2. CASE d # c
      <3>1. job'[d] = job[d]
        BY <1>1, <2>2
      <3> QED
        BY <3>1 DEF JobsAreBound, Running, BurnOfKey
    <2> QED
      BY <2>1, <2>2
  <1>6. StreamsInOrder' /\ ToldOfItsOwn' /\ CountIsExact'
    BY DEF StreamsInOrder, ToldOfItsOwn, CountIsExact
  <1> QED
    BY <1>2, <1>3, <1>4, <1>5, <1>6

\* A frame arrives at the streams that listen.
LEMMA ArrivesKeeps ==
  ASSUME ServerFacts, NEW c \in Calls, NEW b \in Burns, RouteArrives(c, b)
  PROVE  ServerFacts'
  <1> USE DEF ServerFacts, ServerTypeOK
  <1>1. /\ job' = [job EXCEPT ![c] = [kind |-> "checked", key |-> <<b, None>>]]
        /\ UNCHANGED <<stream, count, flight, heard, file, doomed, call>>
    BY DEF RouteArrives, receiveVars
  <1>2. ServerTypeOK'
    BY <1>1 DEF JobStates
  <1>3. JobsAreBound'
    BY <1>1 DEF JobsAreBound, Running, BurnOfKey
  <1>4. StreamsInOrder' /\ ToldOfItsOwn' /\ CountIsExact'
    BY <1>1 DEF StreamsInOrder, ToldOfItsOwn, CountIsExact
  <1> QED
    BY <1>2, <1>3, <1>4

\* A process that dies forgets its streams and their count together.
LEMMA DeathKeeps ==
  ASSUME ServerFacts, ServerDies,
         \A d \in Calls : call[d].pc = "done" => call'[d] = call[d]
  PROVE  ServerFacts'
  <1> USE DEF ServerFacts, ServerTypeOK
  <1>1. /\ stream' = [s \in Streams |->
             IF stream[s].pc = "waiting"
             THEN Answered("dropped") ELSE stream[s]]
        /\ count' = 0
        /\ flight' = [k \in Keys |-> None]
        /\ job' = [c \in Calls |-> IF Free(c) THEN NoJob ELSE Spent]
        /\ heard' = [c \in Calls |-> {}]
        /\ doomed' = FALSE
        /\ UNCHANGED file
    BY DEF ServerDies, Answered
  <1>a. /\ Answered("dropped") \in StreamStates /\ Answered("dropped").pc = "done"
        /\ Answered("dropped").counted = FALSE /\ Answered("dropped").out = "dropped"
    BY NewStreams DEF StreamOuts
  <1>2. ServerTypeOK'
    <2>1. stream' \in [Streams -> StreamStates]
      BY <1>1, <1>a
    <2>2. job' \in [Calls -> JobStates]
      BY <1>1 DEF JobStates, NoJob, Spent
    <2> QED
      BY <1>1, <2>1, <2>2
  <1>3. JobsAreBound'
    BY <1>1 DEF JobsAreBound, Running, NoJob, Spent, BurnOfKey
  <1>4. StreamsInOrder' /\ ToldOfItsOwn'
    BY <1>1, <1>a DEF StreamsInOrder, ToldOfItsOwn
  <1>5. Counted' = {}
    BY <1>1, <1>a DEF Counted, StreamsInOrder
  <1>6. CountIsExact'
    BY <1>1, <1>5, FS_EmptySet DEF CountIsExact, Counted
  <1> QED
    BY <1>2, <1>3, <1>4, <1>6
-----------------------------------------------------------------------------
(***************************************************************************)
(* The invariant and the properties.                                       *)
(***************************************************************************)
LEMMA StreamsInitInv == StreamsInit => StreamsInv
  <1> SUFFICES ASSUME StreamsInit
               PROVE  StreamsInv
    OBVIOUS
  <1>1. ReceiveInv
    BY InvInit DEF StreamsInit
  <1>2. ServerTypeOK
    BY DEF StreamsInit, ServerTypeOK, NoStream, StreamStates, NoJob, JobStates, NoRecord,
           Records
  <1>3. JobsAreBound /\ StreamsInOrder /\ ToldOfItsOwn
    BY DEF StreamsInit, JobsAreBound, Running, NoJob, StreamsInOrder, ToldOfItsOwn, NoStream
  <1>4. Counted = {}
    BY DEF Counted, StreamsInit, NoStream
  <1>5. CountIsExact
    BY <1>4, FS_EmptySet DEF CountIsExact, Counted, StreamsInit
  <1> QED
    BY <1>1, <1>2, <1>3, <1>5 DEF StreamsInv

\* Every step keeps the invariant.
LEMMA StreamsStep ==
  ASSUME StreamsInv, StreamsNext
  PROVE  StreamsInv'
  <1>0. ServerFacts /\ ReceiveInv /\ JobsAreBound /\ ReceiveTypeOK
    BY DEF StreamsInv, ServerFacts, ReceiveInv
  <1>1. ReceiveInv' /\ \A c \in Calls : call[c].pc = "done" => call'[c] = call[c]
    BY <1>0, ServerKeepsReceive
  <1> SUFFICES ServerFacts'
    BY <1>1 DEF StreamsInv, ServerFacts
  <1>2. ASSUME NEW s \in Streams, NEW k \in Keys, Open(s, k)
        PROVE  ServerFacts'
    BY <1>0, <1>2, OpenKeeps
  <1>3. ASSUME NEW s \in Streams, Leave(s)
        PROVE  ServerFacts'
    BY <1>0, <1>3, LeaveKeeps
  <1>4. ASSUME NEW c \in Calls, NEW b \in Burns, RouteArrives(c, b)
        PROVE  ServerFacts'
    BY <1>0, <1>4, ArrivesKeeps
  <1>5. ASSUME NEW c \in Calls, FlightBegins(c) \/ FlightStep(c)
        PROVE  ServerFacts'
    <2>1. Running(c) /\ UNCHANGED file
      BY <1>5 DEF FlightBegins, FlightStep
    <2>2. CASE FlightGoesOn(c)
      BY <1>0, <1>1, <2>1, <2>2, IdleKeeps DEF FlightGoesOn, ServerFacts, ServerTypeOK
    <2>3. CASE call'[c].pc = "done" /\ Land(c, call'[c].out)
      <3>1. call'[c].out \in Outcomes
        BY <1>1 DEF ReceiveInv, ReceiveTypeOK, CallStates
      <3> QED
        BY <1>0, <1>1, <2>1, <2>3, <3>1, LandKeeps
    <2> QED
      BY <1>5, <2>2, <2>3 DEF FlightBegins, FlightStep
  <1>6. ASSUME NEW c \in Calls, SequenceUnread(c)
        PROVE  ServerFacts'
    <2>1. "Other" \in Outcomes /\ Running(c) /\ Land(c, "Other") /\ UNCHANGED file
      BY <1>6 DEF SequenceUnread, Outcomes
    <2> QED
      BY <1>0, <1>1, <2>1, LandKeeps
  <1>7. ASSUME NEW c \in Calls, RouteBegins(c) \/ RouteStep(c)
        PROVE  ServerFacts'
    BY <1>0, <1>1, <1>7, RouteKeeps DEF RouteBegins, RouteStep
  <1>8. CASE ServerDies
    BY <1>0, <1>1, <1>8, DeathKeeps
  <1>9. CASE ChainStep /\ UNCHANGED <<call, store, serverVars>>
    <2>1. UNCHANGED <<stream, count, flight, job, heard, doomed, file>>
      BY <1>9 DEF serverVars
    <2>2. file' \in [Burns -> Records]
      BY <1>0, <2>1 DEF ServerFacts, ServerTypeOK
    <2> QED
      BY <1>0, <1>1, <2>1, <2>2, IdleKeeps
  <1> QED
    BY <1>2, <1>3, <1>4, <1>5, <1>6, <1>7, <1>8, <1>9 DEF StreamsNext

\* So does a stutter.
LEMMA StreamsStutter == StreamsInv /\ UNCHANGED streamsVars => StreamsInv'
  <1> SUFFICES ASSUME StreamsInv, UNCHANGED streamsVars
               PROVE  StreamsInv'
    OBVIOUS
  <1>1. UNCHANGED receiveVars
    BY DEF streamsVars, receiveVars
  <1>2. ReceiveInv'
    BY <1>1, InvStutter DEF StreamsInv
  <1>3. ServerFacts'
    BY IdleKeeps DEF streamsVars, serverVars, StreamsInv, ServerFacts, ServerTypeOK
  <1> QED
    BY <1>2, <1>3 DEF StreamsInv, ServerFacts

\* The inductive invariant of the server.
THEOREM StreamsInvCorrect == StreamsSpec => []StreamsInv
  BY StreamsInitInv, StreamsStep, StreamsStutter, PTL DEF StreamsSpec

\* serve.ts and events.ts use the SDK as Receive lets any caller: its theorems hold here.
THEOREM ServerRunsReceive == StreamsSpec => ReceiveSpec
  <1>1. StreamsInit => ReceiveInit
    BY DEF StreamsInit
  <1>2. StreamsInv /\ [StreamsNext]_streamsVars => [ReceiveNext]_receiveVars
    BY ServerCallsReceive DEF StreamsInv, streamsVars, receiveVars
  <1> QED
    BY <1>1, <1>2, StreamsInvCorrect, PTL DEF StreamsSpec, ReceiveSpec

\* The server's state and the SDK's have their types.
THEOREM StreamsTypeCorrect == StreamsSpec => []StreamsTypeOK
  <1>1. StreamsInv => StreamsTypeOK
    BY DEF StreamsInv, ReceiveInv, ServerTypeOK, StreamsTypeOK
  <1> QED
    BY <1>1, StreamsInvCorrect, PTL

\* cleanup() and the end of a receive free the place of a stream once between them.
THEOREM CountStaysExact == StreamsSpec => []CountIsExact
  <1>1. StreamsInv => CountIsExact
    BY DEF StreamsInv
  <1> QED
    BY <1>1, StreamsInvCorrect, PTL

\* The in-flight map of events.ts: one receive() a key.
THEOREM KeysHaveOneFlight == StreamsSpec => []OneFlightPerKey
  <1>1. StreamsInv => OneFlightPerKey
    BY DEF StreamsInv, JobsAreBound, OneFlightPerKey
  <1> QED
    BY <1>1, StreamsInvCorrect, PTL

\* The captured frames of a settled stream hold the mint of its own burn.
THEOREM StreamsHearTheirOwn == StreamsSpec => []OwnSettlementHeard
  <1>1. StreamsInv => OwnSettlementHeard
    BY DEF StreamsInv, ReceiveInv, HoldsMint, Holds, ToldOfItsOwn, OwnSettlementHeard
  <1> QED
    BY <1>1, StreamsInvCorrect, PTL

\* One mint at most for each burn, whichever of streams and settle requests ask for it.
THEOREM ServerSettlesOnce == StreamsSpec => []AtMostOneSettlement
  BY ServerRunsReceive, SettlementUnique, PTL
-----------------------------------------------------------------------------
(***************************************************************************)
(* The file.  A record names a call that is done, and done calls stay as   *)
(* they are, so overlapping requests can only replace one truth by another.*)
(***************************************************************************)
\* A settle request runs the receive() of the burn it was made for.
RoutesMatch ==
  \A c \in Calls : job[c].kind = "route" => call[c].burn = BurnOfKey(job[c].key)

\* What call c did to burn b is what the record says.
RecordTells(record, b) ==
  /\ record.status = "settled" =>
       /\ record.tx \in Calls
       /\ call[record.tx].pc = "done"
       /\ call[record.tx].burn = b
       /\ call[record.tx].out = "settled"
  /\ record.status = "submitted" =>
       /\ record.tx \in Calls
       /\ call[record.tx].pc = "done"
       /\ call[record.tx].burn = b
       /\ call[record.tx].out = "MintUnconfirmed"

FileTells == \A b \in Burns : RecordTells(file[b], b)

\* A call moves alone, unless the process dies.
LEMMA ServerMovesOne ==
  ASSUME StreamsInv, StreamsNext, NEW c \in Calls, job'[c].kind = "route"
  PROVE  \/ /\ job[c].kind = "route" /\ job'[c].key = job[c].key
            /\ call'[c].burn = call[c].burn
         \/ RouteBegins(c) /\ RouteGoesOn(c)
  <1> USE DEF StreamsInv, ServerTypeOK, ReceiveInv, ReceiveTypeOK
  <1>0. Server \in Clients
    BY StreamsAssumption
  <1>1. ASSUME NEW s \in Streams, NEW k \in Keys, Open(s, k)
        PROVE  job'[c] = job[c] /\ call'[c] = call[c]
    BY <1>1 DEF Open, AnswerAtOnce, Join, Start, receiveVars
  <1>2. ASSUME NEW s \in Streams, Leave(s)
        PROVE  job'[c] = job[c] /\ call'[c] = call[c]
    BY <1>2 DEF Leave, receiveVars
  <1>3. ASSUME NEW d \in Calls, NEW b \in Burns, RouteArrives(d, b)
        PROVE  job'[c] = job[c] /\ call'[c] = call[c]
    BY <1>3 DEF RouteArrives, receiveVars
  <1>4. ASSUME NEW d \in Calls, FlightBegins(d) \/ SequenceUnread(d) \/ FlightStep(d)
        PROVE  job'[c] = job[c] /\ call'[c] = call[c]
    <2>1. job' = job \/ job' = [job EXCEPT ![d] = Spent]
      BY <1>4 DEF FlightBegins, SequenceUnread, FlightStep, FlightGoesOn, Land
    <2>2. job[d].kind = "flight"
      BY <1>4 DEF FlightBegins, SequenceUnread, FlightStep, Running
    <2>3. job'[c] = job[c] /\ c # d
      BY <2>1, <2>2 DEF Spent
    <2>4. CASE FlightBegins(d)
      <3>1. BurnOfKey(job[d].key) \in Burns
        BY <2>2 DEF JobsAreBound, Running, Keys, BurnOfKey
      <3> QED
        BY <1>0, <2>3, <2>4, <3>1, BeginMoves DEF FlightBegins
    <2>5. CASE SequenceUnread(d)
      BY <2>3, <2>5 DEF SequenceUnread, receiveVars
    <2>6. CASE FlightStep(d)
      BY <2>3, <2>6, CallStepMoves DEF FlightStep
    <2> QED
      BY <1>4, <2>3, <2>4, <2>5, <2>6
  <1>5. ASSUME NEW d \in Calls, RouteBegins(d)
        PROVE  \/ job'[c] = job[c] /\ call'[c] = call[c]
               \/ d = c /\ RouteGoesOn(c)
    <2>1. BurnOfKey(job[d].key) \in Burns
      BY <1>5 DEF RouteBegins, JobsAreBound, BurnOfKey
    <2>2. CASE c # d
      BY <1>0, <1>5, <2>1, <2>2, BeginMoves DEF RouteBegins, RouteGoesOn, RouteEnds
    <2>3. CASE c = d
      BY <1>5, <2>3 DEF RouteBegins, RouteEnds, Spent
    <2> QED
      BY <2>2, <2>3
  <1>6. ASSUME NEW d \in Calls, RouteStep(d)
        PROVE  /\ job[c].kind = "route" /\ job'[c].key = job[c].key
               /\ call'[c].burn = call[c].burn
    <2>1. CASE c # d
      BY <1>6, <2>1, CallStepMoves DEF RouteStep, RouteGoesOn, RouteEnds
    <2>2. CASE c = d
      <3>1. RouteGoesOn(c)
        BY <1>6, <2>2 DEF RouteStep, RouteEnds, Spent
      <3> QED
        BY <1>6, <2>2, <3>1, CallStepMoves DEF RouteStep, RouteGoesOn, JobStates
    <2> QED
      BY <2>1, <2>2
  <1>7. CASE ServerDies
    BY <1>7 DEF ServerDies, NoJob, Spent
  <1>8. CASE ChainStep /\ UNCHANGED <<call, store, serverVars>>
    BY <1>8 DEF serverVars
  <1> QED
    BY <1>1, <1>2, <1>3, <1>4, <1>5, <1>6, <1>7, <1>8 DEF StreamsNext

\* The file is written by a settle request that ends.
LEMMA FileStep ==
  ASSUME StreamsNext
  PROVE  \/ UNCHANGED file
         \/ \E c \in Calls : (RouteBegins(c) \/ RouteStep(c)) /\ RouteEnds(c)
  BY DEF StreamsNext, Open, Leave, RouteArrives, FlightBegins, SequenceUnread, FlightStep,
         RouteBegins, RouteStep, RouteGoesOn, ServerDies, serverVars

\* Every step keeps the file true.
LEMMA FileKeeps ==
  ASSUME StreamsInv, RoutesMatch, FileTells, StreamsNext
  PROVE  RoutesMatch' /\ FileTells'
  <1> USE DEF StreamsInv, ServerTypeOK, ReceiveInv, ReceiveTypeOK
  <1>0. Server \in Clients
    BY StreamsAssumption
  <1>1. \A c \in Calls : call[c].pc = "done" => call'[c] = call[c]
    BY ServerKeepsReceive
  <1>2. ASSUME NEW c \in Calls, RouteBegins(c)
        PROVE  call'[c].burn = BurnOfKey(job[c].key) /\ BurnOfKey(job[c].key) \in Burns
    <2>1. BurnOfKey(job[c].key) \in Burns
      BY <1>2 DEF RouteBegins, JobsAreBound, BurnOfKey
    <2> QED
      BY <1>0, <1>2, <2>1, BeginMoves DEF RouteBegins
  <1>3. ASSUME NEW c \in Calls, job'[c].kind = "route"
        PROVE  call'[c].burn = BurnOfKey(job'[c].key)
    <2>1. CASE /\ job[c].kind = "route" /\ job'[c].key = job[c].key
               /\ call'[c].burn = call[c].burn
      BY <2>1 DEF RoutesMatch, BurnOfKey
    <2>2. CASE RouteBegins(c) /\ RouteGoesOn(c)
      <3>1. job'[c].key = job[c].key
        BY <2>2 DEF RouteGoesOn, JobStates
      <3> QED
        BY <1>2, <2>2, <3>1 DEF BurnOfKey
    <2> QED
      BY <1>3, <2>1, <2>2, ServerMovesOne
  <1>4. RoutesMatch'
    BY <1>3 DEF RoutesMatch, BurnOfKey
  <1>5. ASSUME NEW b \in Burns, file'[b] = file[b]
        PROVE  RecordTells(file[b], b)'
    BY <1>1, <1>5 DEF FileTells, RecordTells
  <1>6. ASSUME NEW c \in Calls, RouteBegins(c) \/ RouteStep(c), RouteEnds(c), NEW b \in Burns
        PROVE  RecordTells(file[b], b)'
    <2>1. call'[c].pc = "done" /\ call'[c].burn = BurnOfKey(job[c].key)
      <3>1. CASE RouteStep(c)
        BY <1>6, <3>1, CallStepMoves DEF RouteStep, RouteEnds, RoutesMatch
      <3> QED
        BY <1>2, <1>6, <3>1 DEF RouteEnds
    <2>2. CASE call'[c].out = "settled"
      <3>1. file' = [file EXCEPT ![BurnOfKey(job[c].key)] = Settled(c)]
        BY <1>6, <2>2 DEF RouteEnds, FileAfter
      <3>2. CASE b = BurnOfKey(job[c].key)
        BY <2>1, <2>2, <3>1, <3>2 DEF RecordTells, Settled
      <3> QED
        BY <1>5, <3>1, <3>2
    <2>3. CASE call'[c].out = "MintUnconfirmed"
      <3>1. file' = [file EXCEPT ![BurnOfKey(job[c].key)] = Submitted(c)]
        BY <1>6, <2>3 DEF RouteEnds, FileAfter
      <3>2. CASE b = BurnOfKey(job[c].key)
        BY <2>1, <2>3, <3>1, <3>2 DEF RecordTells, Submitted
      <3> QED
        BY <1>5, <3>1, <3>2
    <2>4. CASE call'[c].out \notin {"settled", "MintUnconfirmed"}
      <3>1. file' = file
        BY <1>6, <2>4 DEF RouteEnds, FileAfter
      <3> QED
        BY <1>5, <3>1
    <2> QED
      BY <2>2, <2>3, <2>4
  <1>7. FileTells'
    BY <1>5, <1>6, FileStep DEF FileTells
  <1> QED
    BY <1>4, <1>7

\* persistSettled and the record of an unconfirmed mint: what FileReplayStore holds is
\* true of the ledger, before and after any restart.
THEOREM FileStaysTrue == StreamsSpec => []FileRecordsAreTrue
  <1> DEFINE Inv == RoutesMatch /\ FileTells
  <1>1. StreamsInit => Inv
    BY DEF StreamsInit, RoutesMatch, FileTells, RecordTells, NoJob, NoRecord
  <1>2. StreamsInv /\ Inv /\ StreamsNext => Inv'
    BY FileKeeps
  <1>3. Inv /\ UNCHANGED streamsVars => Inv'
    BY DEF streamsVars, serverVars, RoutesMatch, FileTells, RecordTells, BurnOfKey
  <1>4. StreamsInv /\ Inv => FileRecordsAreTrue
    BY DEF StreamsInv, ReceiveInv, HoldsMint, Holds, ConfirmsItsOwn, Sent, FileTells,
           RecordTells, FileRecordsAreTrue
  <1> QED
    BY <1>1, <1>2, <1>3, <1>4, StreamsInvCorrect, PTL DEF StreamsSpec
-----------------------------------------------------------------------------
(***************************************************************************)
(* The cap.  Every receive of a stream has a stream that waits for it, and *)
(* a stream that waits holds a place unless its client has left.           *)
(***************************************************************************)
FlightsAwaited == \A c \in Calls : Running(c) => \E s \in Streams : Waiting(s, c)

PlacesBounded == count <= MaxReceives

\* A flight that is not the one that lands keeps its streams.
LEMMA LandLeavesOthers ==
  ASSUME FlightsAwaited, NEW c \in Calls, NEW outcome, job \in [Calls -> JobStates],
         Land(c, outcome)
  PROVE  FlightsAwaited'
  <1> SUFFICES ASSUME NEW d \in Calls, Running(d)'
               PROVE  \E s \in Streams : Waiting(s, d)'
    BY DEF FlightsAwaited
  <1>1. d # c /\ Running(d)
    BY DEF Land, Running, Spent
  <1>2. PICK s \in Streams : Waiting(s, d)
    BY <1>1 DEF FlightsAwaited
  <1>3. stream'[s] = stream[s]
    BY <1>1, <1>2 DEF Land, Waiting
  <1> QED
    BY <1>2, <1>3 DEF Waiting

\* A stream takes a place only when one is free, and no step but that counts up.
LEMMA CapKeeps ==
  ASSUME StreamsInv, FlightsAwaited, PlacesBounded, StreamsNext
  PROVE  FlightsAwaited' /\ PlacesBounded'
  <1> USE DEF StreamsInv, ServerTypeOK, StreamStates
  <1>0. count \in Nat /\ MaxReceives \in Nat
    BY StreamsAssumption
  <1>1. ASSUME UNCHANGED <<stream, count>>, \A c \in Calls : Running(c)' => Running(c)
        PROVE  FlightsAwaited' /\ PlacesBounded'
    BY <1>1 DEF FlightsAwaited, PlacesBounded, Waiting
  <1>2. ASSUME NEW s \in Streams, NEW k \in Keys, Open(s, k)
        PROVE  FlightsAwaited' /\ PlacesBounded'
    <2>0. stream[s].pc = "idle"
      BY <1>2 DEF Open
    <2>1. ASSUME NEW out, AnswerAtOnce(s, out)
          PROVE  FlightsAwaited' /\ PlacesBounded'
      <3>1. UNCHANGED <<count, job>> /\ \A q \in Streams \ {s} : stream'[q] = stream[q]
        BY <2>1 DEF AnswerAtOnce
      <3> QED
        BY <2>0, <3>1 DEF FlightsAwaited, PlacesBounded, Waiting, Running
    <2>2. ASSUME NEW c \in Calls, WaitFor(s, c), Admits,
                 \A d \in Calls : Running(d)' => Running(d) \/ d = c
          PROVE  FlightsAwaited' /\ PlacesBounded'
      <3>1. /\ \A q \in Streams \ {s} : stream'[q] = stream[q]
            /\ stream'[s] = Placed(c)
        BY <2>2 DEF WaitFor, Placed
      <3>2. Placed(c).pc = "waiting" /\ Placed(c).flight = c
        BY DEF Placed, NoStream
      <3>3. count' = count + 1 /\ count < MaxReceives
        BY <2>2 DEF WaitFor, Admits
      <3> QED
        BY <1>0, <2>0, <2>2, <3>1, <3>2, <3>3 DEF FlightsAwaited, PlacesBounded, Waiting
    <2>3. CASE Admits /\ Join(s, k)
      <3>1. flight[k] \in Calls /\ WaitFor(s, flight[k]) /\ UNCHANGED job
        BY <2>3 DEF Join
      <3> QED
        BY <2>2, <2>3, <3>1 DEF Running
    <2>4. CASE Admits /\ Start(s, k)
      <3>1. PICK c \in Calls :
              WaitFor(s, c) /\ job' = [job EXCEPT ![c] = [kind |-> "flight", key |-> k]]
        BY <2>4 DEF Start
      <3> QED
        BY <2>2, <2>4, <3>1 DEF Running
    <2> QED
      BY <1>2, <2>1, <2>3, <2>4 DEF Open
  <1>3. ASSUME NEW s \in Streams, Leave(s)
        PROVE  FlightsAwaited' /\ PlacesBounded'
    <2>1. /\ \A q \in Streams : stream'[q].pc = stream[q].pc
                                /\ stream'[q].flight = stream[q].flight
          /\ UNCHANGED job /\ count' = Freed(1)
      BY <1>3 DEF Leave
    <2>2. count' <= count
      BY <1>0, <2>1 DEF Freed
    <2>3. count' \in Nat
      BY <1>0, <2>1 DEF Freed
    <2> QED
      BY <1>0, <2>1, <2>2, <2>3 DEF FlightsAwaited, PlacesBounded, Waiting, Running
  <1>4. ASSUME NEW c \in Calls, NEW outcome, Land(c, outcome)
        PROVE  FlightsAwaited' /\ PlacesBounded'
    <2> DEFINE freed == {s \in {t \in Streams : Waiting(t, c)} : stream[s].counted}
    <2>1. Cardinality(freed) \in Nat
      <3>1. freed \in SUBSET Streams
        OBVIOUS
      <3> QED
        BY <3>1, StreamsAssumption, FS_Subset, FS_CardinalityType
    <2>2. count' = Freed(Cardinality(freed))
      BY <1>4 DEF Land
    <2> HIDE DEF freed
    <2>3. count' <= count /\ count' \in Nat
      BY <1>0, <2>1, <2>2 DEF Freed
    <2> QED
      BY <1>0, <1>4, <2>3, LandLeavesOthers DEF PlacesBounded
  <1>5. ASSUME NEW c \in Calls, NEW b \in Burns, RouteArrives(c, b)
        PROVE  FlightsAwaited' /\ PlacesBounded'
    BY <1>1, <1>5 DEF RouteArrives, Running
  <1>6. ASSUME NEW c \in Calls, FlightBegins(c) \/ SequenceUnread(c) \/ FlightStep(c)
        PROVE  FlightsAwaited' /\ PlacesBounded'
    <2>1. CASE FlightGoesOn(c)
      BY <1>1, <2>1 DEF FlightGoesOn, Running
    <2> QED
      BY <1>4, <1>6, <2>1 DEF FlightBegins, SequenceUnread, FlightStep
  <1>7. ASSUME NEW c \in Calls, RouteBegins(c) \/ RouteStep(c)
        PROVE  FlightsAwaited' /\ PlacesBounded'
    <2>1. UNCHANGED <<stream, count>> /\ (RouteGoesOn(c) \/ RouteEnds(c))
      BY <1>7 DEF RouteBegins, RouteStep
    <2>2. \A d \in Calls : Running(d)' => Running(d)
      BY <2>1 DEF RouteGoesOn, RouteEnds, Running, Spent, JobStates
    <2> QED
      BY <1>1, <2>1, <2>2
  <1>8. CASE ServerDies
    BY <1>0, <1>8 DEF ServerDies, FlightsAwaited, PlacesBounded, Running, NoJob, Spent
  <1>9. CASE ChainStep /\ UNCHANGED <<call, store, serverVars>>
    BY <1>1, <1>9 DEF serverVars, Running
  <1> QED
    BY <1>2, <1>3, <1>5, <1>6, <1>7, <1>8, <1>9 DEF StreamsNext

\* Distinct receives have distinct streams that wait for them.
LEMMA RunningAreFew ==
  ASSUME StreamsInv, FlightsAwaited, PlacesBounded
  PROVE  OnlyLeaversExceedCap
  <1> DEFINE running == {c \in Calls : Running(c)}
             left == {s \in Streams : stream[s].pc = "waiting" /\ ~ stream[s].counted}
             first == [c \in running |-> CHOOSE s \in Streams : Waiting(s, c)]
  <1>1. /\ IsFiniteSet(Counted) /\ Cardinality(Counted) \in Nat
        /\ IsFiniteSet(left) /\ Cardinality(left) \in Nat
    <2>1. left \in SUBSET Streams
      OBVIOUS
    <2> QED
      BY <2>1, StreamsAssumption, FS_Subset, FS_CardinalityType, CountedIsFinite
  <1>2. Counted \cap left = {}
    BY DEF Counted
  <1>3. first \in Injection(running, Counted \cup left)
    <2>1. ASSUME NEW c \in running
          PROVE  first[c] \in Streams /\ Waiting(first[c], c)
      BY DEF FlightsAwaited
    <2>2. first \in [running -> Counted \cup left]
      BY <2>1 DEF Counted, Waiting
    <2>3. \A c, d \in running : first[c] = first[d] => c = d
      BY <2>1 DEF Waiting
    <2> QED
      BY <2>2, <2>3 DEF Injection, IsInjective
  <1> HIDE DEF running, left, first
  <1>4. /\ IsFiniteSet(Counted \cup left)
        /\ Cardinality(Counted \cup left) = Cardinality(Counted) + Cardinality(left)
    BY <1>1, <1>2, FS_Union, FS_EmptySet
  <1>5. IsFiniteSet(running) /\ Cardinality(running) <= Cardinality(Counted \cup left)
    BY <1>3, <1>4, FS_Injection
  <1>6. Cardinality(running) \in Nat
    BY <1>5, FS_CardinalityType
  <1>7. Cardinality(Counted) <= MaxReceives /\ MaxReceives \in Nat
    BY StreamsAssumption DEF StreamsInv, CountIsExact, Counted, PlacesBounded
  <1>8. Cardinality(running) <= MaxReceives + Cardinality(left)
    BY <1>1, <1>4, <1>5, <1>6, <1>7
  <1> QED
    BY <1>8 DEF OnlyLeaversExceedCap, running, left

\* activeReceives bounds what it was written to bound, but for the clients that left.
THEOREM CapHoldsButForLeavers == StreamsSpec => []OnlyLeaversExceedCap
  <1> DEFINE Inv == FlightsAwaited /\ PlacesBounded
  <1>1. StreamsInit => Inv
    BY StreamsAssumption
       DEF StreamsInit, FlightsAwaited, PlacesBounded, Running, NoJob
  <1>2. StreamsInv /\ Inv /\ StreamsNext => Inv'
    BY CapKeeps
  <1>3. Inv /\ UNCHANGED streamsVars => Inv'
    BY DEF streamsVars, serverVars, FlightsAwaited, PlacesBounded, Waiting, Running
  <1>4. StreamsInv /\ Inv => OnlyLeaversExceedCap
    BY RunningAreFew
  <1> QED
    BY <1>1, <1>2, <1>3, <1>4, StreamsInvCorrect, PTL DEF StreamsSpec
=============================================================================

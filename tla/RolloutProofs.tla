--------------------------- MODULE RolloutProofs ----------------------------
(***************************************************************************)
(* Proofs about RolloutController: the operators' word is the last, turns  *)
(* of the sequencer do not overlap, and no action outlives a reset; for    *)
(* any goals, any length of chunk and any number of calls and segments.    *)
(***************************************************************************)
EXTENDS RolloutController, TLAPS

TextInv ==
    /\ goal # None => word = None
    /\ word # None => task = word
    /\ rpc = "text" => serving # None
    /\ serving # None => inFlight
    /\ pending \in Goal => serving \notin Goal

ChunkInv ==
    /\ epoch \in Nat /\ queue \in Seq(Nat)
    /\ obs \in {None, epoch}
    /\ rpc \in {"query", "chunk", "infer"} => seen = before
    /\ \A i \in DOMAIN queue : queue[i] = epoch

-----------------------------------------------------------------------------
(* The text channel. *)

\* The calls that change the task, the goal or the query.
LEMMA TextCall ==
    ASSUME TextInv, OperatorCall
    PROVE  TextInv'
<1>1. CASE Start \/ Stop
  BY <1>1 DEF Start, Stop, TextInv, engine, text, thread
<1>2. CASE Reset \/ Instruct
  BY <1>2, TextAssumption DEF Reset, Instruct, SetTask, TextInv, thread
<1>3. CASE AskQuestion
  BY <1>3, TextAssumption DEF AskQuestion, Ask, TextInv, thread
<1>4. CASE Autosteer
  BY <1>4, TextAssumption DEF Autosteer, StartAutosteer, TextInv, thread
<1>5. CASE HandBack
  BY <1>5 DEF HandBack, StopAutosteer, TextInv, thread
<1> QED
  BY <1>1, <1>2, <1>3, <1>4, <1>5 DEF OperatorCall

\* The serving thread: it stops the sequencer and drops the query at the end
\* of a segment, and asks for a turn in pump_query.
LEMMA TextServe ==
    ASSUME TextInv, ServeStep \/ DurationOver \/ RunRaises
    PROVE  TextInv'
<1>1. CASE Pump
  BY <1>1, TextAssumption
  DEF Pump, PollAutosteer, Polls, Deliver, TextInv, thread
<1>2. CASE Leave
  BY <1>2, TextAssumption DEF Leave, StopAutosteer, Dropped, TextInv, thread
<1>3. CASE UNCHANGED <<task, pending, goal, inFlight, thread, word>>
  BY <1>3 DEF TextInv, thread
<1>4. ServeStep \/ DurationOver \/ RunRaises
        => Pump \/ Leave \/ UNCHANGED <<task, pending, goal, inFlight, thread, word>>
  BY DEF ServeStep, DurationOver, RunRaises, Top, SeeStart, Consume, IdlePump,
         Home, Enter, Check, Fresh, Resume, Observe, Act, RunStops, Pause,
         DropReady, End, engine, text
<1> QED
  BY <1>1, <1>2, <1>3, <1>4

\* The engine's thread: it takes a query, applies a turn that is still wanted
\* and publishes the answer.
LEMMA TextThread ==
    ASSUME TextInv, ThreadStep \/ InferFails \/ Die \/ IntervalPasses
    PROVE  TextInv'
<1>1. CASE TakeQuery
  BY <1>1, TextAssumption DEF TakeQuery, TextInv
<1>2. CASE Generated
  BY <1>2, TextAssumption DEF Generated, Live, TextInv
<1>3. CASE Publish
  BY <1>3, TextAssumption DEF Publish, ThreadAt, TextInv
<1>4. CASE Snapshot \/ Reread \/ Refill \/ Merge \/ InferFails \/ Die
  BY <1>4 DEF Snapshot, Reread, Refill, Merge, InferFails, Die, ThreadAt,
              TextInv, text
<1>5. CASE IntervalPasses
  BY <1>5 DEF IntervalPasses, TextInv, thread
<1> QED
  BY <1>1, <1>2, <1>3, <1>4, <1>5 DEF ThreadStep

\* Every step.
LEMMA TextStep ==
    ASSUME TextInv, [Next]_vars
    PROVE  TextInv'
<1>1. CASE Raise
  BY <1>1 DEF Raise, TextInv, engine, text, thread
<1>2. CASE Signal
  BY <1>2 DEF Signal, ThreadAt, TextInv, text
<1>3. CASE UNCHANGED vars
  BY <1>3 DEF TextInv, vars, engine, text, thread
<1> QED
  BY <1>1, <1>2, <1>3, TextCall, TextServe, TextThread DEF Next, RtcStep

\* The strengthening that makes the properties of the channel inductive.
THEOREM TextInvariant == Spec => []TextInv
<1>1. Init => TextInv
  BY TextAssumption DEF Init, EngineInit, TextInv
<1> QED
  BY <1>1, TextStep, PTL DEF Spec

\* A task that was set, restored or left behind by the sequencer is not
\* overwritten by a subtask generated meanwhile.
THEOREM OperatorsWord == Spec => []LastWordStands
<1>1. TextInv => LastWordStands
  BY DEF TextInv, LastWordStands
<1> QED
  BY <1>1, TextInvariant, PTL

\* No turn of the sequencer is queued while another is being generated.
THEOREM TurnsAreSingle == Spec => []OneTurnAtATime
<1>1. TextInv => OneTurnAtATime
  BY DEF TextInv, OneTurnAtATime
<1> QED
  BY <1>1, TextInvariant, PTL

-----------------------------------------------------------------------------
(* The chunk path. *)

\* The engine's thread: what it has seen belongs to the epoch it noted, so
\* what it merges belongs to the epoch that is still current.
LEMMA ChunkThread ==
    ASSUME ChunkInv, ThreadStep \/ InferFails \/ Die \/ IntervalPasses
    PROVE  ChunkInv'
<1>1. CASE Snapshot
  BY <1>1 DEF Snapshot, ThreadAt, ChunkInv, chunks
<1>2. CASE TakeQuery \/ Refill
  BY <1>2 DEF TakeQuery, Refill, ChunkInv, chunks
<1>3. CASE Generated \/ Publish
  BY <1>3 DEF Generated, Publish, ThreadAt, ChunkInv, chunks
<1>4. CASE Reread
  BY <1>4 DEF Reread, ChunkInv, chunks
<1>5. CASE Merge
  <2>1. PICK kept \in 0 .. Horizon :
          queue' = IF Merges THEN [i \in 1 .. kept |-> seen] ELSE queue
    BY <1>5 DEF Merge
  <2>2. UNCHANGED <<obs, epoch, seen, before>> /\ rpc' = "poll" /\ seen = before
    BY <1>5 DEF Merge, ThreadAt, ChunkInv
  <2>3. CASE Merges
    <3>1. seen = epoch /\ queue' = [i \in 1 .. kept |-> epoch]
      BY <2>1, <2>2, <2>3 DEF Merges
    <3>2. kept \in Nat
      BY QueueAssumption
    <3>3. queue' \in Seq(Nat) /\ \A i \in DOMAIN queue' : queue'[i] = epoch
      BY <3>1, <3>2 DEF ChunkInv
    <3> QED
      BY <2>2, <3>3 DEF ChunkInv
  <2>4. CASE ~Merges
    BY <2>1, <2>2, <2>4 DEF ChunkInv
  <2> QED
    BY <2>3, <2>4
<1>6. CASE InferFails \/ Die
  BY <1>6 DEF InferFails, Die, ThreadAt, ChunkInv, chunks
<1>7. CASE IntervalPasses
  BY <1>7 DEF IntervalPasses, ChunkInv, chunks, thread
<1> QED
  BY <1>1, <1>2, <1>3, <1>4, <1>5, <1>6, <1>7 DEF ThreadStep

\* The serving thread: it resets the epoch with the queue, publishes its
\* observations in the current epoch and takes actions off the queue.
LEMMA ChunkServe ==
    ASSUME ChunkInv, ServeStep \/ DurationOver \/ RunRaises
    PROVE  ChunkInv'
<1>1. CASE Fresh
  BY <1>1 DEF Fresh, ResetChunks, ChunkInv, thread
<1>2. CASE Observe
  BY <1>2 DEF Observe, ChunkInv, thread
<1>3. CASE Act
  <2>1. UNCHANGED <<obs, epoch, thread>>
        /\ queue' = IF queue = <<>> THEN queue ELSE Tail(queue)
    BY <1>3 DEF Act, PopAction
  <2>2. CASE queue = <<>>
    BY <2>1, <2>2 DEF ChunkInv, thread
  <2>3. CASE queue # <<>>
    <3>1. queue' \in Seq(Nat) /\ \A i \in DOMAIN queue' :
            i + 1 \in DOMAIN queue /\ queue'[i] = queue[i + 1]
      BY <2>1, <2>3 DEF ChunkInv
    <3> QED
      BY <2>1, <3>1 DEF ChunkInv, thread
  <2> QED
    BY <2>2, <2>3
<1>4. CASE UNCHANGED <<obs, epoch, queue, thread>>
  BY <1>4 DEF ChunkInv, thread
<1>5. ServeStep \/ DurationOver \/ RunRaises
        => Fresh \/ Observe \/ Act \/ UNCHANGED <<obs, epoch, queue, thread>>
  BY DEF ServeStep, DurationOver, RunRaises, Top, SeeStart, Consume, IdlePump,
         Home, Enter, Check, Resume, Pump, RunStops, Pause, Leave, DropReady,
         End, engine, chunks
<1> QED
  BY <1>1, <1>2, <1>3, <1>4, <1>5

\* Every step; the calls leave the chunk path alone.
LEMMA ChunkStep ==
    ASSUME ChunkInv, [Next]_vars
    PROVE  ChunkInv'
<1>1. CASE Signal
  BY <1>1 DEF Signal, ThreadAt, ChunkInv, chunks
<1>2. CASE OperatorCall \/ Raise \/ UNCHANGED vars
  <2>1. UNCHANGED <<obs, epoch, queue, thread>>
    BY <1>2 DEF OperatorCall, Start, Reset, Stop, Instruct, AskQuestion,
                Autosteer, HandBack, Raise, vars, engine, chunks
  <2> QED
    BY <2>1 DEF ChunkInv, thread
<1> QED
  BY <1>1, <1>2, ChunkThread, ChunkServe DEF Next, RtcStep

\* The strengthening that makes the property of the queue inductive.
THEOREM ChunkInvariant == Spec => []ChunkInv
<1>1. Init => ChunkInv
  BY DEF Init, EngineInit, ChunkInv
<1> QED
  BY <1>1, ChunkStep, PTL DEF Spec

\* Every queued action comes of an observation made since the last reset.
THEOREM QueueIsOfThisEpoch == Spec => []NoStaleAction
<1>1. ChunkInv => NoStaleAction
  BY DEF ChunkInv, NoStaleAction
<1> QED
  BY <1>1, ChunkInvariant, PTL
-----------------------------------------------------------------------------
(* Types, and the questions' account.                                      *)

\* Every question accepted and not answered yet is waiting, being generated,
\* or ready; and each took a call.
Accounted ==
    /\ owed = ready[Vqa] + (IF pending = Vqa THEN 1 ELSE 0)
                         + (IF serving = Vqa THEN 1 ELSE 0)
    /\ owed <= calls

AccountInv == TypeOK /\ Accounted

\* TypeOK without the engine and the account.
ServeTypes ==
    /\ {startReq, resetReq, stopReq, segStop, running, stopped, broken, promised}
         \subseteq BOOLEAN
    /\ spc \in {"top", "start", "consume", "pump", "home", "enter", "check",
                "fresh", "resume", "tick", "act", "text", "pause", "leave",
                "drop", "end", "done"}
    /\ opc \in {"idle", "raise"}
    /\ calls \in 0 .. MaxCalls
    /\ running <=> spc \in {"enter", "check", "fresh", "resume", "tick", "act",
                            "text", "pause", "leave"}
    /\ stopped <=> spc = "done"
    /\ active => spc \in {"tick", "act", "text", "pause"}

\* A call is counted, and only a question adds to the account.
LEMMA AccountCall ==
    ASSUME AccountInv, OperatorCall
    PROVE  AccountInv'
<1>1. TypeOK /\ EngineTypeOK /\ Accounted
  BY DEF AccountInv, TypeOK
<1>2. calls' \in 0 .. MaxCalls /\ calls' = calls + 1 /\ calls \in Nat /\ owed \in Nat
  BY <1>1, CallsAssumption
  DEF OperatorCall, Start, Reset, Stop, Instruct, AskQuestion, Autosteer, HandBack, Call,
      TypeOK
<1>3. None \notin Query /\ Vqa \in Query
  BY TextAssumption DEF Query
<1>4. EngineTypeOK'
  <2>1. CASE Start \/ Stop
    BY <1>1, <2>1 DEF Start, Stop, EngineTypeOK, engine, text, chunks, thread
  <2>2. CASE Reset \/ Instruct
    BY <1>1, <2>2 DEF Reset, Instruct, SetTask, EngineTypeOK, chunks, thread, Task
  <2>3. CASE AskQuestion
    BY <1>1, <1>3, <2>3 DEF AskQuestion, Ask, EngineTypeOK, chunks, thread
  <2>4. CASE Autosteer
    BY <1>1, <2>4 DEF Autosteer, StartAutosteer, EngineTypeOK, chunks, thread
  <2>5. CASE HandBack
    BY <1>1, <2>5 DEF HandBack, StopAutosteer, EngineTypeOK, chunks, thread
  <2> QED
    BY <2>1, <2>2, <2>3, <2>4, <2>5 DEF OperatorCall
<1>5. Accounted'
  <2>1. CASE AskQuestion
    BY <1>1, <1>2, <1>3, <2>1, TextAssumption
    DEF AskQuestion, Ask, Accounted, EngineTypeOK, thread
  <2>2. CASE ~AskQuestion
    <3>1. UNCHANGED <<owed, ready, pending, serving>>
      BY <2>2 DEF OperatorCall, Start, Reset, Stop, Instruct, Autosteer, HandBack, engine,
                  text, thread
    <3> QED
      BY <1>1, <1>2, <3>1 DEF Accounted
  <2> QED
    BY <2>1, <2>2
<1>6. owed' \in 0 .. MaxCalls
  <2>1. owed' = owed + 1 \/ owed' = owed
    BY DEF OperatorCall, Start, Reset, Stop, Instruct, AskQuestion, Autosteer, HandBack
  <2> QED
    BY <1>2, <1>5, <2>1, CallsAssumption DEF Accounted
<1>7. UNCHANGED <<running, stopped, active, spc>>
  BY DEF OperatorCall, Start, Reset, Stop, Instruct, AskQuestion, Autosteer, HandBack,
         engine, chunks
<1>8. /\ {startReq', resetReq', stopReq', segStop', running', stopped', broken', promised'}
           \subseteq BOOLEAN
      /\ opc' \in {"idle", "raise"}
  BY <1>1 DEF TypeOK, OperatorCall, Start, Reset, Stop, Instruct, AskQuestion, Autosteer,
      HandBack, requests
<1> QED
  BY <1>1, <1>2, <1>4, <1>5, <1>6, <1>7, <1>8 DEF AccountInv, TypeOK

\* The engine's thread moves a question on: from waiting to being generated,
\* and from there to ready.
LEMMA AccountThread ==
    ASSUME AccountInv, ChunkInv, ThreadStep \/ InferFails \/ Die \/ IntervalPasses,
           UNCHANGED controller
    PROVE  AccountInv'
<1>1. TypeOK /\ EngineTypeOK /\ Accounted
  BY DEF AccountInv, TypeOK
<1>2. None \notin Query /\ Vqa \in Query
  BY TextAssumption DEF Query
<1>3. UNCHANGED <<active, requests, segStop, running, stopped, broken, spc, opc, owed,
                  promised, calls>>
  BY DEF ThreadStep, Snapshot, TakeQuery, Generated, Publish, Reread, Refill, Merge,
         InferFails, Die, IntervalPasses, chunks, controller, history
<1>4. ASSUME EngineTypeOK', Accounted' PROVE AccountInv'
  BY <1>1, <1>3, <1>4 DEF AccountInv, TypeOK, requests
<1>5. CASE Snapshot \/ Reread \/ Refill \/ InferFails \/ Die
  <2>1. EngineTypeOK'
    BY <1>1, <1>5
    DEF Snapshot, Reread, Refill, InferFails, Die, ThreadAt, EngineTypeOK, text, chunks
  <2>2. Accounted'
    BY <1>1, <1>3, <1>5
    DEF Snapshot, Reread, Refill, InferFails, Die, Accounted, text
  <2> QED
    BY <1>4, <2>1, <2>2
<1>6. CASE TakeQuery
  <2>1. EngineTypeOK'
    BY <1>1, <1>2, <1>6 DEF TakeQuery, EngineTypeOK, chunks
  <2>2. Accounted'
    <3>1. serving # Vqa
      BY <1>1, <1>6, TextAssumption DEF TakeQuery, EngineTypeOK
    <3>2. pending' # Vqa /\ serving' = pending /\ ready' = ready /\ ready[Vqa] \in Nat
      BY <1>1, <1>2, <1>6, TextAssumption DEF TakeQuery, EngineTypeOK
    <3> QED
      BY <1>1, <1>3, <3>1, <3>2 DEF Accounted
  <2> QED
    BY <1>4, <2>1, <2>2
<1>7. CASE Generated
  <2>1. EngineTypeOK'
    BY <1>1, <1>7, TextAssumption DEF Generated, EngineTypeOK, chunks, Task
  <2>2. Accounted'
    <3>1. serving' = Vqa <=> serving = Vqa
      BY <1>7, TextAssumption DEF Generated
    <3> QED
      BY <1>1, <1>3, <1>7, <3>1 DEF Generated, Accounted
  <2> QED
    BY <1>4, <2>1, <2>2
<1>8. CASE Publish
  <2>1. serving \in Query /\ ready \in [Query -> Nat]
    BY <1>1, <1>8 DEF Publish, ThreadAt, EngineTypeOK
  <2>2. /\ ready' = [ready EXCEPT ![serving] = @ + 1] /\ ready' \in [Query -> Nat]
        /\ serving' = None /\ pending' = pending
    BY <1>8, <2>1 DEF Publish
  <2>3. EngineTypeOK'
    BY <1>1, <1>8, <2>2 DEF Publish, ThreadAt, EngineTypeOK, chunks
  <2>4. Accounted'
    <3>1. ready'[Vqa] = ready[Vqa] + (IF serving = Vqa THEN 1 ELSE 0) /\ ready[Vqa] \in Nat
      BY <1>2, <2>1, <2>2
    <3>2. serving' # Vqa
      BY <2>2, TextAssumption
    <3> QED
      BY <1>1, <1>3, <2>2, <3>1, <3>2 DEF Accounted
  <2> QED
    BY <1>4, <2>3, <2>4
<1>9. CASE Merge
  <2>1. PICK kept \in 0 .. Horizon :
          queue' = IF Merges THEN [i \in 1 .. kept |-> seen] ELSE queue
    BY <1>9 DEF Merge
  <2>2. rpc = "infer" /\ rpc' = "poll"
        /\ UNCHANGED <<task, text, active, obs, epoch, seen, before, serving, word>>
    BY <1>9 DEF Merge, ThreadAt
  <2>3. queue' \in Seq(0 .. epoch) /\ Len(queue') <= Threshold + Horizon
    <3>1. CASE Merges
      <4>1. seen \in 0 .. epoch
        BY <1>1, <2>2, <3>1 DEF ChunkInv, Merges, EngineTypeOK
      <4> QED
        BY <2>1, <3>1, <4>1, QueueAssumption
    <3>2. CASE ~Merges
      BY <1>1, <2>1, <3>2 DEF EngineTypeOK
    <3> QED
      BY <3>1, <3>2
  <2>4. EngineTypeOK'
    BY <1>1, <2>2, <2>3 DEF EngineTypeOK, text
  <2>5. Accounted'
    BY <1>1, <1>3, <2>2 DEF Accounted, text
  <2> QED
    BY <1>4, <2>4, <2>5
<1>10. CASE IntervalPasses
  <2>1. EngineTypeOK'
    BY <1>1, <1>10 DEF IntervalPasses, EngineTypeOK, chunks, thread
  <2>2. Accounted'
    BY <1>1, <1>3, <1>10 DEF IntervalPasses, Accounted, thread
  <2> QED
    BY <1>4, <2>1, <2>2
<1> QED
  BY <1>5, <1>6, <1>7, <1>8, <1>9, <1>10 DEF ThreadStep

\* The serving thread says that it runs from the entry of a segment to its end,
\* and the policy is active for no longer than the strategy runs.
LEMMA ServeTypesServe ==
    ASSUME TypeOK, ServeStep \/ DurationOver \/ RunRaises
    PROVE  ServeTypes'
<1>1. ServeTypes /\ active \in BOOLEAN
  BY DEF TypeOK, ServeTypes, EngineTypeOK
<1>2. CASE Top \/ SeeStart \/ Check
  BY <1>1, <1>2 DEF Top, SeeStart, Check, ServeTypes, AnyFailed, engine, chunks, requests,
      history
<1>3. CASE Consume
  BY <1>1, <1>3 DEF Consume, ServeTypes, engine, chunks, history
<1>4. CASE IdlePump \/ Pump \/ DropReady
  BY <1>1, <1>4 DEF IdlePump, Pump, DropReady, ServeAt, ServeTypes, chunks, requests, history
<1>5. CASE Home \/ Fresh \/ Resume \/ Observe \/ Act \/ Pause
  <2>1. CASE Home
    BY <1>1, <2>1 DEF Home, ServeAt, ServeTypes, requests, history
  <2>2. CASE Fresh
    BY <1>1, <2>2 DEF Fresh, ServeAt, ServeTypes, requests, history
  <2>3. CASE Resume
    BY <1>1, <2>3 DEF Resume, ServeAt, ServeTypes, requests, history
  <2>4. CASE Observe
    BY <1>1, <2>4 DEF Observe, ServeAt, ServeTypes, requests, history
  <2>5. CASE Act
    BY <1>1, <2>5 DEF Act, ServeAt, ServeTypes, requests, history
  <2>6. CASE Pause
    BY <1>1, <2>6 DEF Pause, Paused, ServeAt, ServeTypes, requests, history
  <2> QED
    BY <1>5, <2>1, <2>2, <2>3, <2>4, <2>5, <2>6
<1>6. CASE Enter \/ RunStops \/ DurationOver \/ RunRaises \/ End
  <2>1. CASE Enter
    BY <1>1, <2>1 DEF Enter, ServeAt, ServeTypes, engine, chunks, requests, history
  <2>2. CASE RunStops
    BY <1>1, <2>2 DEF RunStops, ServeAt, ServeTypes, engine, chunks, requests, history
  <2>3. CASE DurationOver
    BY <1>1, <2>3 DEF DurationOver, ServeAt, ServeTypes, engine, chunks, requests, history
  <2>4. CASE RunRaises
    BY <1>1, <2>4 DEF RunRaises, ServeAt, ServeTypes, engine, chunks, requests, history
  <2>5. CASE End
    BY <1>1, <2>5 DEF End, ServeAt, ServeTypes, engine, chunks, requests, history
  <2> QED
    BY <1>6, <2>1, <2>2, <2>3, <2>4, <2>5
<1>7. CASE Leave
  BY <1>1, <1>7 DEF Leave, ServeAt, ServeTypes, chunks, requests
<1> QED
  BY <1>2, <1>3, <1>4, <1>5, <1>6, <1>7 DEF ServeStep

\* The serving thread takes off the account what it delivers, and the question
\* it answers with an error.
LEMMA AccountServe ==
    ASSUME AccountInv, ServeStep \/ DurationOver \/ RunRaises
    PROVE  AccountInv'
<1>1. TypeOK /\ EngineTypeOK /\ Accounted
  BY DEF AccountInv, TypeOK
<1>2. None \notin Query /\ Vqa \in Query /\ Vqa \notin Goal
  BY TextAssumption DEF Query
<1>3. /\ ready \in [Query -> Nat] /\ ready[Vqa] \in Nat
      /\ calls \in 0 .. MaxCalls /\ owed \in 0 .. MaxCalls
  BY <1>1, <1>2 DEF EngineTypeOK, TypeOK
<1>4. NoAnswers \in [Query -> Nat] /\ NoAnswers[Vqa] = 0
  BY <1>2 DEF NoAnswers
<1>5. UNCHANGED calls /\ UNCHANGED <<task, due, thread, inFlight>>
  BY DEF ServeStep, DurationOver, RunRaises, Top, SeeStart, Consume, IdlePump, Home, Enter,
         Check, Fresh, Resume, Observe, Act, Pump, RunStops, Pause, Leave, DropReady, End,
         engine, text, history
<1>6. ASSUME EngineTypeOK', Accounted', owed' \in Nat PROVE AccountInv'
  <2>1. owed' \in 0 .. MaxCalls
    BY <1>3, <1>5, <1>6, CallsAssumption DEF Accounted
  <2>2. ServeTypes'
    BY <1>1, ServeTypesServe
  <2> QED
    BY <1>6, <2>1, <2>2 DEF AccountInv, TypeOK, ServeTypes
<1>7. CASE UNCHANGED <<engine, owed>>
  <2>1. EngineTypeOK'
    BY <1>1, <1>7 DEF EngineTypeOK, engine, text, chunks, thread
  <2>2. Accounted' /\ owed' \in Nat
    BY <1>1, <1>3, <1>5, <1>7 DEF Accounted, engine, text, thread
  <2> QED
    BY <1>6, <2>1, <2>2
<1>8. CASE Home \/ Fresh \/ Resume \/ Observe \/ Act \/ Pause
  <2>1. Accounted' /\ owed' \in Nat
    BY <1>1, <1>3, <1>5, <1>8
    DEF Home, Fresh, Resume, Observe, Act, Pause, Accounted, text, thread, history
  <2>2. CASE Home \/ Resume \/ Pause \/ Observe
    <3>1. /\ UNCHANGED <<task, text, epoch, queue, thread, word>>
          /\ active' \in BOOLEAN /\ obs' \in {None, epoch}
      <4>1. CASE Home \/ Resume \/ Pause
        BY <1>1, <4>1 DEF Home, Resume, Pause, Paused, EngineTypeOK
      <4>2. CASE Observe
        BY <1>1, <4>2 DEF Observe, EngineTypeOK
      <4> QED
        BY <2>2, <4>1, <4>2
    <3>2. EngineTypeOK'
      BY <1>1, <3>1 DEF EngineTypeOK, text, thread
    <3> QED
      BY <1>6, <2>1, <3>2
  <2>3. CASE Fresh
    <3>1. epoch' \in Nat /\ before \in 0 .. epoch' /\ seen \in 0 .. epoch' \union {None}
      BY <1>1, <2>3 DEF Fresh, ResetChunks, EngineTypeOK
    <3>2. queue' \in Seq(0 .. epoch') /\ Len(queue') = 0
      BY <2>3 DEF Fresh, ResetChunks
    <3>3. EngineTypeOK'
      BY <1>1, <2>3, <3>1, <3>2, QueueAssumption
      DEF Fresh, ResetChunks, EngineTypeOK, text, thread
    <3> QED
      BY <1>6, <2>1, <3>3
  <2>4. CASE Act
    <3>1. queue' \in Seq(0 .. epoch) /\ Len(queue') <= Threshold + Horizon
      <4>1. queue \in Seq(0 .. epoch) /\ Len(queue) <= Threshold + Horizon
        BY <1>1 DEF EngineTypeOK
      <4>2. CASE queue = <<>>
        BY <2>4, <4>1, <4>2 DEF Act, PopAction
      <4>3. CASE queue # <<>>
        <5>1. queue' = Tail(queue)
          BY <2>4, <4>3 DEF Act, PopAction
        <5>2. Len(Tail(queue)) = Len(queue) - 1 /\ Tail(queue) \in Seq(0 .. epoch)
          BY <4>1, <4>3
        <5> QED
          BY <4>1, <5>1, <5>2, QueueAssumption
      <4> QED
        BY <4>2, <4>3
    <3>2. EngineTypeOK'
      BY <1>1, <2>4, <3>1 DEF Act, EngineTypeOK, text, thread
    <3> QED
      BY <1>6, <2>1, <3>2
  <2> QED
    BY <1>8, <2>2, <2>3, <2>4
<1>9. CASE IdlePump \/ Pump
  <2>1. /\ ready' = NoAnswers /\ owed' = owed - ready[Vqa]
        /\ UNCHANGED <<chunks, thread, task, goal, due, inFlight, word>>
    BY <1>9 DEF IdlePump, Pump, Deliver, Questions
  <2>2. pending' = pending \/ (pending = None /\ pending' \in Goal)
    BY <1>1, <1>9 DEF IdlePump, Pump, PollAutosteer, Polls, EngineTypeOK
  <2>3. EngineTypeOK'
    BY <1>1, <1>4, <2>1, <2>2 DEF EngineTypeOK, chunks, thread, Query
  <2>4. pending' = Vqa <=> pending = Vqa
    BY <1>2, <2>2, TextAssumption
  <2>5. Accounted' /\ owed' \in Nat
    BY <1>1, <1>3, <1>4, <1>5, <2>1, <2>4 DEF Accounted, thread
  <2> QED
    BY <1>6, <2>3, <2>5
<1>10. CASE Leave
  <2>1. /\ pending' = None /\ UNCHANGED <<ready, serving>> /\ None # Vqa
        /\ owed' = owed - (IF pending = Vqa THEN 1 ELSE 0)
    BY <1>10, TextAssumption DEF Leave, Dropped, thread
  <2>2. EngineTypeOK'
    BY <1>1, <1>10 DEF Leave, StopAutosteer, Dropped, EngineTypeOK, chunks, thread
  <2>3. Accounted' /\ owed' \in Nat
    BY <1>1, <1>3, <1>5, <2>1 DEF Accounted
  <2> QED
    BY <1>6, <2>2, <2>3
<1>11. CASE DropReady
  <2>1. ready' \in [Query -> Nat] /\ ready'[Vqa] = ready[Vqa]
    BY <1>2, <1>3, <1>4, <1>11 DEF DropReady, Questions
  <2>2. EngineTypeOK'
    BY <1>1, <1>11, <2>1 DEF DropReady, EngineTypeOK, chunks, thread
  <2>3. Accounted' /\ owed' \in Nat
    BY <1>1, <1>3, <1>11, <2>1 DEF DropReady, Accounted, thread, history
  <2> QED
    BY <1>6, <2>2, <2>3
<1>12. ServeStep \/ DurationOver \/ RunRaises
         => \/ UNCHANGED <<engine, owed>>
            \/ Home \/ Fresh \/ Resume \/ Observe \/ Act \/ Pause
            \/ IdlePump \/ Pump \/ Leave \/ DropReady
  BY DEF ServeStep, DurationOver, RunRaises, Top, SeeStart, Consume, Enter, Check, RunStops,
         End, history
<1> QED
  BY <1>7, <1>8, <1>9, <1>10, <1>11, <1>12

LEMMA AccountStep ==
    ASSUME AccountInv, ChunkInv, [Next]_vars
    PROVE  AccountInv'
<1>1. CASE Raise \/ Signal
  <2>1. /\ UNCHANGED <<task, text, chunks, seen, before, serving, word, requests, running,
                       stopped, broken, spc, history>>
        /\ segStop' = TRUE /\ opc' \in {opc, "idle"}
        /\ rpc' = rpc \/ (rpc = "dying" /\ rpc' = "dead")
    BY <1>1 DEF Raise, Signal, ThreadAt, engine, thread
  <2>2. EngineTypeOK'
    BY <2>1 DEF AccountInv, TypeOK, EngineTypeOK, text, chunks
  <2> QED
    BY <2>1, <2>2 DEF AccountInv, TypeOK, Accounted, text, chunks, requests, history
<1>2. CASE UNCHANGED vars
  <2>1. EngineTypeOK'
    BY <1>2 DEF AccountInv, TypeOK, EngineTypeOK, vars, engine, text, chunks, thread
  <2> QED
    BY <1>2, <2>1
    DEF AccountInv, TypeOK, Accounted, vars, engine, text, chunks, thread, requests, history
<1> QED
  BY <1>1, <1>2, AccountCall, AccountServe, AccountThread DEF Next, RtcStep

LEMMA AccountInit ==
    ASSUME Init
    PROVE  AccountInv
<1>1. None \notin Query /\ Vqa \in Query
  BY TextAssumption DEF Query
<1>2. NoAnswers \in [Query -> Nat] /\ NoAnswers[Vqa] = 0
  BY <1>1 DEF NoAnswers
<1>3. EngineInit /\ EngineTypeOK
  <2>1. EngineInit
    BY DEF Init
  <2>2. task \in Task /\ word \in Task \union {None}
    BY <2>1 DEF EngineInit, Task
  <2>3. queue \in Seq(0 .. epoch) /\ Len(queue) <= Threshold + Horizon
    <3>1. queue = <<>> /\ <<>> \in Seq(0 .. epoch) /\ Len(<<>>) = 0
      BY <2>1 DEF EngineInit
    <3> QED
      BY <3>1, QueueAssumption
  <2>4. /\ epoch = 0 /\ obs = None /\ seen = None /\ before = 0 /\ active = FALSE
        /\ due = FALSE /\ inFlight = FALSE /\ rpc = "poll" /\ serving = None
        /\ pending = None /\ goal = None /\ ready = NoAnswers
    BY <2>1 DEF EngineInit
  <2>5. epoch \in Nat /\ seen \in 0 .. epoch \union {None} /\ before \in 0 .. epoch
    BY <2>4
  <2>6. /\ serving # None <=> rpc \in {"text", "publish"}
        /\ inFlight <=> serving # None
    BY <2>4
  <2>7. /\ pending \in Query \union {None} /\ goal \in Goal \union {None}
        /\ serving \in Query \union {None} /\ obs \in {None, epoch}
        /\ due \in BOOLEAN /\ inFlight \in BOOLEAN /\ active \in BOOLEAN
        /\ rpc \in {"poll", "query", "text", "publish", "reread", "chunk",
                    "infer", "dying", "dead"}
    BY <2>4
  <2>8. ready \in [Query -> Nat]
    BY <1>2, <2>4
  <2> QED
    BY <2>1, <2>2, <2>3, <2>5, <2>6, <2>7, <2>8 DEF EngineTypeOK
<1>4. Accounted
  BY <1>1, <1>2, <1>3, TextAssumption DEF Init, EngineInit, Accounted
<1>5. {startReq, resetReq, stopReq, segStop, running, stopped, broken, promised}
        \subseteq BOOLEAN
  BY DEF Init
<1>6. /\ spc = "top" /\ opc = "idle" /\ owed = 0 /\ calls = 0 /\ running = FALSE
      /\ stopped = FALSE /\ active = FALSE
  BY DEF Init, EngineInit
<1>7. 0 \in 0 .. MaxCalls
  BY CallsAssumption
<1>8. TypeOK
  BY <1>3, <1>5, <1>6, <1>7 DEF TypeOK
<1> QED
  BY <1>4, <1>8 DEF AccountInv

\* The threads' flags agree with where they are, the queue stays within a chunk
\* of its threshold, and no answer is given twice: the count of open questions
\* never falls below zero.
THEOREM TypesHold == Spec => []TypeOK
<1>1. AccountInv => TypeOK
  BY DEF AccountInv
<1> QED
  BY <1>1, AccountInit, AccountStep, ChunkInvariant, PTL DEF Spec

\* No accepted question is lost, at the end of a segment, by a reset or by the
\* death of the engine: it is waiting, being generated, ready, or answered.
THEOREM QuestionsAccounted == Spec => []Accounted
<1>1. AccountInv => Accounted
  BY DEF AccountInv
<1> QED
  BY <1>1, AccountInit, AccountStep, ChunkInvariant, PTL DEF Spec
=============================================================================

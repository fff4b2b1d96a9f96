------------------------- MODULE RolloutController --------------------------
(***************************************************************************)
(* Programmatic control of a rollout: operators, who call start, reset,    *)
(* stop, set_task, ask and autosteer from any thread; the thread that      *)
(* serves them and runs the strategy's control loop in segments; and the   *)
(* engine, RtcEngine, whose own thread runs beside both.                   *)
(*                                                                         *)
(* A call holds the control lock throughout.  What its callees do to the   *)
(* engine commutes with the other threads' steps, up to the request flag   *)
(* and the end of the segment, which are therefore two steps.              *)
(***************************************************************************)
EXTENDS RtcEngine

CONSTANT MaxCalls   \* bound: calls of the operators
ASSUME CallsAssumption == MaxCalls \in Nat

VARIABLES
    startReq, resetReq, stopReq,    \* _start_requested, ...
    segStop,        \* the local flag of the LinkedEvent _segment_stop
    running, stopped,
    broken,         \* _strategy_failure_traceback is not None
    spc,            \* where serve is
    opc,            \* the operators: "idle", or about to set segStop
    \* History, and the bound's count.
    owed,           \* questions accepted and not answered yet
    promised,       \* a start was accepted, and nothing has cancelled it
    calls

requests == <<startReq, resetReq, stopReq>>
history == <<owed, promised, calls>>
vars == <<engine, requests, segStop, running, stopped, broken, spc, opc, history>>

TypeOK ==
    /\ EngineTypeOK
    /\ {startReq, resetReq, stopReq, segStop, running, stopped, broken, promised}
         \subseteq BOOLEAN
    /\ spc \in {"top", "start", "consume", "pump", "home", "enter", "check",
                "fresh", "resume", "tick", "act", "text", "pause", "leave",
                "drop", "end", "done"}
    /\ opc \in {"idle", "raise"}
    /\ owed \in 0 .. MaxCalls /\ calls \in 0 .. MaxCalls
    /\ running <=> spc \in {"enter", "check", "fresh", "resume", "tick", "act",
                            "text", "pause", "leave"}
    /\ stopped <=> spc = "done"
    /\ active => spc \in {"tick", "act", "text", "pause"}

Init ==
    /\ EngineInit
    /\ startReq = FALSE /\ resetReq = FALSE /\ stopReq = FALSE
    /\ segStop = FALSE /\ running = FALSE /\ stopped = FALSE /\ broken = FALSE
    /\ spc = "top" /\ opc = "idle"
    /\ owed = 0 /\ promised = FALSE /\ calls = 0

-----------------------------------------------------------------------------
(* The operators' calls. *)

\* The control lock: a call is in progress, or the end of a segment.
Locked == opc # "idle" \/ spc = "drop"
Call == ~Locked /\ calls < MaxCalls /\ calls' = calls + 1

Stopping == stopped \/ stopReq
AnyFailed == Failed \/ broken

Start ==
    /\ Call /\ ~Stopping /\ ~AnyFailed /\ ~running
    /\ startReq' = TRUE /\ promised' = TRUE
    /\ UNCHANGED <<engine, resetReq, stopReq, segStop, running, stopped, broken,
                   spc, opc, owed>>

\* The pending start is cancelled, the sequencer stopped and the task restored
\* before the flag is set, and the flag before the event.
Reset ==
    /\ Call /\ ~Stopping
    /\ startReq' = FALSE /\ resetReq' = TRUE /\ opc' = "raise"
    /\ promised' = FALSE
    /\ goal' = None /\ SetTask(Launch)
    /\ UNCHANGED <<pending, due, inFlight, ready, chunks, thread, stopReq,
                   segStop, running, stopped, broken, spc, owed>>

Stop ==
    /\ Call /\ ~stopped
    /\ startReq' = FALSE /\ stopReq' = TRUE /\ opc' = "raise"
    /\ promised' = FALSE
    /\ UNCHANGED <<engine, resetReq, segStop, running, stopped, broken, spc, owed>>

\* Second step of Reset and of Stop.
Raise ==
    /\ opc = "raise" /\ opc' = "idle" /\ segStop' = TRUE
    /\ UNCHANGED <<engine, requests, running, stopped, broken, spc, history>>

Instruct ==
    /\ Call /\ ~Stopping
    /\ goal' = None /\ SetTask(Told)
    /\ UNCHANGED <<pending, due, inFlight, ready, chunks, thread, requests,
                   segStop, running, stopped, broken, spc, opc, owed, promised>>

AskQuestion ==
    /\ Call /\ running /\ Ask
    /\ owed' = owed + 1
    /\ UNCHANGED <<task, goal, due, inFlight, ready, chunks, thread, word,
                   requests, segStop, running, stopped, broken, spc, opc,
                   promised>>

Autosteer ==
    /\ Call /\ running
    /\ \E g \in Goal : StartAutosteer(g)
    /\ UNCHANGED <<task, pending, inFlight, ready, chunks, thread, requests,
                   segStop, running, stopped, broken, spc, opc, owed, promised>>

HandBack ==
    /\ Call /\ goal # None /\ StopAutosteer
    /\ UNCHANGED <<task, pending, due, inFlight, ready, chunks, thread, requests,
                   segStop, running, stopped, broken, spc, opc, owed, promised>>

-----------------------------------------------------------------------------
(* The serving thread: serve, _run_segment, _reset_robot, and a strategy's *)
(* run.                                                                    *)

ServeAt(from, to) == spc = from /\ spc' = to
Questions(answers) == answers[Vqa]

\* The failures, the stop and the reset, in this order.
Top ==
    /\ spc = "top"
    /\ spc' = (IF AnyFailed \/ stopReq THEN "end"
               ELSE IF resetReq THEN "home" ELSE "start")
    /\ resetReq' = (resetReq /\ spc' # "home")
    /\ UNCHANGED <<engine, startReq, stopReq, segStop, running, stopped, broken,
                   opc, history>>

SeeStart ==
    /\ spc = "start"
    /\ spc' = (IF startReq THEN "consume" ELSE "pump")
    /\ UNCHANGED <<engine, requests, segStop, running, stopped, broken, opc,
                   history>>

\* The request is consumed and the segment running in one critical section,
\* unless it was cancelled in between.
Consume ==
    /\ spc = "consume" /\ ~Locked
    /\ spc' = (IF startReq THEN "enter" ELSE "top")
    /\ running' = startReq /\ startReq' = FALSE
    /\ UNCHANGED <<engine, resetReq, stopReq, segStop, stopped, broken, opc,
                   history>>

\* _deliver_answer: all of them, on this thread.
Deliver == ready' = NoAnswers /\ owed' = owed - Questions(ready)

\* Idle: what landed as the segment ended is delivered, then 0.2 s or a wake.
IdlePump ==
    /\ ServeAt("pump", "top") /\ Deliver
    /\ UNCHANGED <<task, pending, goal, due, inFlight, chunks, thread, word,
                   requests, segStop, running, stopped, broken, opc, promised,
                   calls>>

\* _reset_robot; the move can fail, which is only reported.
Home ==
    /\ ServeAt("home", "top")
    /\ active' = FALSE
    /\ UNCHANGED <<task, text, obs, epoch, queue, thread, word, requests, segStop,
                   running, stopped, broken, opc, history>>

Enter ==
    /\ ServeAt("enter", "check")
    /\ segStop' = FALSE
    /\ UNCHANGED <<engine, requests, running, stopped, broken, opc, history>>

\* Slip: the event is looked at, which has just been cleared.
HeardByEvent == segStop

\* Slip: a reset that came before the segment began is forgotten.
HeardStop == stopReq \/ Failed

\* The flags are set before the event, and looked at after it was cleared.
Heard == stopReq \/ resetReq \/ Failed

Check ==
    /\ spc = "check"
    /\ spc' = (IF Heard THEN "leave" ELSE "fresh")
    /\ UNCHANGED <<engine, requests, segStop, running, stopped, broken, opc,
                   history>>

\* reset_control_state
Fresh ==
    /\ ServeAt("fresh", "resume") /\ ResetChunks
    /\ promised' = FALSE
    /\ UNCHANGED <<task, text, active, thread, word, requests, segStop, running,
                   stopped, broken, opc, owed, calls>>

Resume ==
    /\ ServeAt("resume", "tick") /\ active' = TRUE
    /\ UNCHANGED <<task, text, obs, epoch, queue, thread, word, requests, segStop,
                   running, stopped, broken, opc, history>>

\* The loop's condition, then the observation.
Observe ==
    /\ ServeAt("tick", "act") /\ ~segStop
    /\ obs' = epoch
    /\ UNCHANGED <<task, text, active, epoch, queue, thread, word, requests,
                   segStop, running, stopped, broken, opc, history>>

\* send_next_action
Act ==
    /\ ServeAt("act", "text") /\ PopAction
    /\ UNCHANGED <<task, text, active, obs, epoch, thread, word, requests,
                   segStop, running, stopped, broken, opc, history>>

\* pump_query
Pump ==
    /\ ServeAt("text", "tick") /\ PollAutosteer /\ Deliver
    /\ UNCHANGED <<task, goal, due, inFlight, chunks, thread, word, requests,
                   segStop, running, stopped, broken, opc, promised, calls>>

\* Told to stop; or the duration is over.
RunStops ==
    /\ ServeAt("tick", "pause") /\ segStop
    /\ UNCHANGED <<engine, requests, segStop, running, stopped, broken, opc,
                   history>>

DurationOver ==
    /\ ServeAt("tick", "pause") /\ ~segStop
    /\ UNCHANGED <<engine, requests, segStop, running, stopped, broken, opc,
                   history>>

\* strategy.run raises: robot I/O, recording.
RunRaises ==
    /\ ServeAt("act", "pause") /\ broken' = TRUE
    /\ UNCHANGED <<engine, requests, segStop, running, stopped, opc, history>>

\* Slip: the segment ends and the engine runs on.
PausedNot == active

Paused == FALSE

Pause ==
    /\ ServeAt("pause", "leave") /\ active' = Paused
    /\ UNCHANGED <<task, text, obs, epoch, queue, thread, word, requests, segStop,
                   running, stopped, broken, opc, history>>

\* Slip: a query that was not served is left to the next segment.
DroppedNone == pending

Dropped == None

\* drop_pending_query; a question is answered with an error, a turn is not
\* worth reporting.
Leave ==
    /\ ServeAt("leave", "drop") /\ ~Locked
    /\ running' = FALSE
    /\ StopAutosteer /\ pending' = Dropped
    /\ owed' = owed - (IF pending = Vqa /\ pending' = None THEN 1 ELSE 0)
    /\ UNCHANGED <<task, due, inFlight, ready, chunks, thread, requests, segStop,
                   stopped, broken, opc, promised, calls>>

\* drop_ready_subtask_answers, still under the lock.
DropReady ==
    /\ ServeAt("drop", "top")
    /\ ready' = [NoAnswers EXCEPT ![Vqa] = Questions(ready)]
    /\ UNCHANGED <<task, pending, goal, due, inFlight, chunks, thread, word,
                   requests, segStop, running, stopped, broken, opc, history>>

End ==
    /\ ServeAt("end", "done") /\ stopped' = TRUE
    /\ UNCHANGED <<engine, requests, segStop, running, broken, opc, history>>

\* The dying engine sets the segment's event.
Signal ==
    /\ ThreadAt("dying", "dead") /\ segStop' = TRUE
    /\ UNCHANGED <<task, text, chunks, seen, before, serving, word, requests,
                   running, stopped, broken, spc, opc, history>>
-----------------------------------------------------------------------------

controller == <<requests, segStop, running, stopped, broken, spc, opc, history>>

OperatorCall ==
    \/ Start \/ Reset \/ Stop \/ Instruct \/ AskQuestion \/ Autosteer \/ HandBack

ServeStep ==
    \/ Top \/ SeeStart \/ Consume \/ IdlePump \/ Home \/ Enter \/ Check \/ Fresh
    \/ Resume \/ Observe \/ Act \/ Pump \/ RunStops \/ Pause \/ Leave
    \/ DropReady \/ End

RtcStep == (ThreadStep /\ UNCHANGED controller) \/ Signal

Next ==
    \/ OperatorCall \/ Raise \/ ServeStep \/ DurationOver \/ RunRaises \/ RtcStep
    \/ ((InferFails \/ Die \/ IntervalPasses) /\ UNCHANGED controller)

\* The threads run, a call that holds the lock returns, and so do the policy's
\* two kinds of inference and the robot.
Fairness == WF_vars(ServeStep) /\ WF_vars(RtcStep) /\ WF_vars(Raise)

Spec == Init /\ [][Next]_vars /\ Fairness
-----------------------------------------------------------------------------

\* A stop ends serve, whatever the serving thread was about to do, and so does
\* the death of the engine's thread, though a segment that begins clears the
\* event both of them set.
StopIsHeard == stopReq \/ AnyFailed ~> stopped

\* A reset is carried out, unless serve ends.
ResetIsHeard == resetReq ~> ~resetReq \/ stopped

\* Every question accepted is answered, with an answer or with an error:
\* whether it was waiting, being generated or ready when its segment ended;
\* only a stop leaves it open.
QuestionIsAnswered == owed > 0 ~> owed = 0 \/ stopped

\* RolloutController.start says that an accepted start is one that will run:
\* unless a reset or a stop was called after it, or something failed, the
\* segment is not left before it ran.
StartIsKept == [][ServeAt("check", "leave") => ~promised \/ AnyFailed]_vars
=============================================================================

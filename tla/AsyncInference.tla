--------------------------- MODULE AsyncInference ---------------------------
(***************************************************************************)
(* Asynchronous inference: a robot client, whose control loop performs the *)
(* actions of a queue and sends observations, and whose receiver thread    *)
(* fills the queue with the chunks of actions a policy server answers; and *)
(* the server, with its one place for an observation.  A client may be     *)
(* killed at any step, and started again, which flushes the server.        *)
(*                                                                         *)
(* An observation and an action are their timesteps.  What the control     *)
(* loop, the receiver and the handlers of the two calls do is split where  *)
(* another of them can see or change what they use.                        *)
(***************************************************************************)
EXTENDS Integers, Sequences, FiniteSetsExt, Functions

CONSTANTS
    Chunk,          \* actions the policy answers an observation with
    Refill,         \* chunk_size_threshold, in actions
    MaxStep,        \* bound: timesteps of an episode
    MaxFaults,      \* bound: calls that fail, and clients that are killed
    Straggler,      \* a handler may outlive its client's successor's start
    None            \* no observation

ASSUME ChunkAssumption == Chunk \in Nat \ {0} /\ Refill \in 0 .. Chunk
ASSUME BoundAssumption == MaxStep \in Nat /\ MaxFaults \in Nat
ASSUME StragglerAssumption == Straggler \in BOOLEAN
ASSUME NoneAssumption == None \notin [t: Int, mustGo: BOOLEAN]

VARIABLES
    queue,          \* action_queue
    latest,         \* latest_action
    mustGo,         \* the event must_go
    \* The control loop.
    cpc, held,      \* where it is; the action it took off the queue
    obs,            \* the observation it sends
    \* The receiver, and the call GetActions it is in.
    rpc, serving,   \* where it is; the observation the server predicts from
    seen,           \* the deque as it began to iterate over it
    next, future,   \* the next action it looks at; future_action_queue
    \* The server.
    waiting,        \* observation_queue, which holds one
    predicted,      \* _predicted_timesteps
    processed,      \* last_processed_obs is not None
    \* History, and the bound's count.
    done,           \* the furthest action the robot was sent, or -1
    lapse,          \* a must-go was lost, or a thread has died
    faults

control == <<cpc, held, obs>>
receiver == <<rpc, serving, seen, next, future>>
server == <<waiting, predicted, processed>>
vars == <<queue, latest, mustGo, control, receiver, server, done, lapse, faults>>

Steps == 0 .. MaxStep + Chunk
Observation == [t: Steps, mustGo: BOOLEAN]

TypeOK ==
    /\ queue \in Seq(Steps) /\ future \in Seq(Steps) /\ seen \in Seq(Steps)
    /\ Len(queue) <= Chunk /\ Len(future) <= Chunk
    /\ latest \in -1 .. MaxStep + Chunk /\ held \in -1 .. MaxStep + Chunk
    /\ mustGo \in BOOLEAN /\ processed \in BOOLEAN /\ lapse \in BOOLEAN
    /\ cpc \in {"act", "pop", "record", "ready", "mark", "send", "enqueue",
                "evict", "sent", "dead"}
    /\ rpc \in {"call", "infer", "scan", "scanning", "filter", "signal", "dead"}
    /\ {obs, serving, waiting} \subseteq Observation \union {None}
    /\ next \in Steps \union {MaxStep + Chunk + 1}
    /\ predicted \subseteq 0 .. MaxStep
    /\ done \in latest .. MaxStep + Chunk
    /\ faults \in 0 .. MaxFaults

Init ==
    /\ queue = <<>> /\ latest = -1 /\ mustGo = TRUE
    /\ cpc = "act" /\ held = -1 /\ obs = None
    /\ rpc = "call" /\ serving = None /\ seen = <<>> /\ next = 0 /\ future = <<>>
    /\ waiting = None /\ predicted = {} /\ processed = FALSE
    /\ done = -1 /\ lapse = FALSE /\ faults = 0

ControlAt(from, to) == cpc = from /\ cpc' = to
ReceiverAt(from, to) == rpc = from /\ rpc' = to
Fault == faults < MaxFaults /\ faults' = faults + 1

\* For the history: no observation is with the server; the control loop is
\* about to clear must_go.
Quiet == waiting = None /\ rpc = "call"
ClearsNext == cpc = "sent" /\ obs.mustGo

-----------------------------------------------------------------------------
(* The control loop: RobotClient.control_loop. *)

\* actions_available, once a turn while the client runs.
Look ==
    /\ cpc = "act" /\ done < MaxStep
    /\ cpc' = IF queue = <<>> THEN "ready" ELSE "pop"
    /\ UNCHANGED <<queue, latest, mustGo, held, obs, receiver, server, done, lapse, faults>>

\* get_nowait under the lock, and send_action after it.
Pop ==
    /\ ControlAt("pop", "record") /\ queue # <<>>
    /\ held' = Head(queue) /\ queue' = Tail(queue)
    /\ done' = Max({done, Head(queue)})
    /\ UNCHANGED <<latest, mustGo, obs, receiver, server, lapse, faults>>

\* The queue was replaced by an empty one in between: queue.Empty, which
\* nothing in the control loop catches.
PopEmpty ==
    /\ ControlAt("pop", "dead") /\ queue = <<>>
    /\ lapse' = TRUE
    /\ UNCHANGED <<queue, latest, mustGo, held, obs, receiver, server, done, faults>>

\* Slip: the latest action is counted as the next one.
RecordNext ==
    /\ ControlAt("record", "ready")
    /\ latest' = held + 1
    /\ UNCHANGED <<queue, mustGo, held, obs, receiver, server, done, lapse, faults>>

\* Only now is the action the latest.
Record ==
    /\ ControlAt("record", "ready")
    /\ latest' = held
    /\ UNCHANGED <<queue, mustGo, held, obs, receiver, server, done, lapse, faults>>

\* _ready_to_send_observation; before the first chunk action_chunk_size is -1
\* and the queue empty, which is ready as well.
Ready ==
    /\ cpc = "ready"
    /\ IF Len(queue) <= Refill
         THEN cpc' = "mark" /\ obs' = [t |-> Max({latest, 0}), mustGo |-> FALSE]
         ELSE cpc' = "act" /\ UNCHANGED obs
    /\ UNCHANGED <<queue, latest, mustGo, held, receiver, server, done, lapse, faults>>

\* Slip: the event qualifies the observations that can wait.
QualifiesUnlessEmpty == mustGo /\ queue # <<>>

\* "If there are no actions left in the queue, the observation must go."
Qualifies == mustGo /\ queue = <<>>

Mark ==
    /\ ControlAt("mark", "send")
    /\ obs' = [obs EXCEPT !.mustGo = Qualifies]
    /\ UNCHANGED <<queue, latest, mustGo, held, receiver, server, done, lapse, faults>>

\* _enqueue_observation.  Whether the arm looks as it did is up to the arm.
Accepts(o, similar) ==
    o.mustGo \/ ~processed \/ (o.t \notin predicted /\ ~similar)

\* SendObservations as far as the test; the client ignores the answer.
Send ==
    /\ cpc = "send"
    /\ \E similar \in BOOLEAN :
         cpc' = IF Accepts(obs, similar) THEN "enqueue" ELSE "sent"
    /\ UNCHANGED <<queue, latest, mustGo, held, obs, receiver, server, done, lapse, faults>>

\* An RpcError is logged.
SendFails ==
    /\ ControlAt("send", "sent") /\ Fault
    /\ lapse' = (lapse \/ (obs.mustGo /\ Quiet))
    /\ UNCHANGED <<queue, latest, mustGo, held, obs, receiver, server, done>>

\* A full queue makes room first.
Enqueue ==
    /\ cpc = "enqueue"
    /\ IF waiting = None
         THEN cpc' = "sent" /\ waiting' = obs
         ELSE cpc' = "evict" /\ UNCHANGED waiting
    /\ UNCHANGED <<queue, latest, mustGo, held, obs, receiver, predicted,
                   processed, done, lapse, faults>>

\* GetActions may have taken the observation that was to make room: Empty is
\* raised, the call fails, the new observation is lost.
Evict ==
    /\ ControlAt("evict", "sent")
    /\ waiting' = IF waiting = None THEN None ELSE obs
    /\ lapse' = (lapse \/ (obs.mustGo /\ Quiet))
    /\ UNCHANGED <<queue, latest, mustGo, held, obs, receiver, predicted,
                   processed, done, faults>>

\* Slip: the event is cleared after every observation.
ClearsAlways(o) == TRUE

Clears(o) == o.mustGo

\* must_go.clear()
Clear ==
    /\ ControlAt("sent", "act")
    /\ mustGo' = (mustGo /\ ~Clears(obs))
    /\ obs' = None
    /\ UNCHANGED <<queue, latest, held, receiver, server, done, lapse, faults>>
-----------------------------------------------------------------------------
(* GetActions, and the thread that calls it: RobotClient.receive_actions. *)

\* The handler takes the observation.  None within the timeout is an empty
\* answer, and the next call.
Take ==
    /\ ReceiverAt("call", "infer") /\ waiting # None
    /\ serving' = waiting /\ waiting' = None
    /\ predicted' = predicted \union {waiting.t}
    /\ UNCHANGED <<queue, latest, mustGo, control, seen, next, future,
                   processed, done, lapse, faults>>

\* Slip: a chunk starts after the timestep it was predicted at.
ChunkStartsAfter(o) == o.t + 1

\* _time_action_chunk: timesteps o.t, o.t + 1, ...
ChunkStart(o) == o.t
ChunkEnd(o) == ChunkStart(o) + Chunk - 1

Infer ==
    /\ ReceiverAt("infer", "scan")
    /\ processed' = TRUE
    /\ next' = ChunkStart(serving) /\ future' = <<>>
    /\ UNCHANGED <<queue, latest, mustGo, control, serving, seen, waiting,
                   predicted, done, lapse, faults>>

\* The preprocessor or the policy raises, which is an empty answer, or the
\* answer is lost, which is an RpcError.  The timestep stays predicted.
InferFails ==
    /\ ReceiverAt("infer", "call") /\ Fault
    /\ processed' \in {processed, TRUE} /\ serving' = None
    /\ lapse' = (lapse \/ (waiting = None /\ (mustGo => ClearsNext)))
    /\ UNCHANGED <<queue, latest, mustGo, control, seen, next, future, waiting,
                   predicted, done>>

\* The queue's deque is taken under the lock, and iterated over without it.
Scan ==
    /\ rpc = "scan"
    /\ rpc' = (IF queue = <<>> THEN "filter" ELSE "scanning") /\ seen' = queue
    /\ UNCHANGED <<queue, latest, mustGo, control, serving, next, future,
                   server, done, lapse, faults>>

\* "deque mutated during iteration" is no RpcError: the thread ends.
Scanned ==
    /\ rpc = "scanning" /\ rpc' = (IF queue = seen THEN "filter" ELSE "dead")
    /\ lapse' = (lapse \/ queue # seen) /\ seen' = <<>>
    /\ UNCHANGED <<queue, latest, mustGo, control, serving, next, future,
                   server, done, faults>>

Stale(t) == t <= latest

\* One action of the chunk; the latest action is read anew for each.
Filter ==
    /\ rpc = "filter" /\ next <= ChunkEnd(serving)
    /\ next' = next + 1
    /\ future' = IF Stale(next) THEN future ELSE Append(future, next)
    /\ UNCHANGED <<queue, latest, mustGo, control, rpc, serving, seen, server,
                   done, lapse, faults>>

Replace ==
    /\ ReceiverAt("filter", "signal") /\ next > ChunkEnd(serving)
    /\ queue' = future /\ future' = <<>> /\ next' = 0 /\ serving' = None
    /\ UNCHANGED <<latest, mustGo, control, seen, server, done, lapse, faults>>

\* must_go.set(), in vain if the control loop is about to clear the event.
Signal ==
    /\ ReceiverAt("signal", "call")
    /\ mustGo' = TRUE
    /\ lapse' = (lapse \/ (waiting = None /\ ClearsNext))
    /\ UNCHANGED <<queue, latest, control, serving, seen, next, future, server,
                   done, faults>>
-----------------------------------------------------------------------------
(* A client is killed, and started again: RobotClient.start.               *)

\* _reset_server, for Ready: a new queue and no timestep predicted.  A handler
\* that holds an observation of the client before puts it in the new queue if
\* it is late, unless it was making room in the old one; the last observation
\* processed is kept.
Flush ==
    /\ waiting' \in {None} \union
         (IF Straggler /\ cpc \in {"send", "enqueue"} THEN {obs} ELSE {})
    /\ predicted' = {}

\* The client is as it is built.  An inference the one before had asked for is
\* still made, or fails.
Restart ==
    /\ Fault /\ Flush
    /\ queue' = <<>> /\ latest' = -1 /\ mustGo' = TRUE
    /\ cpc' = "act" /\ held' = -1 /\ obs' = None
    /\ rpc' = "call" /\ serving' = None
    /\ seen' = <<>> /\ next' = 0 /\ future' = <<>>
    /\ done' = -1 /\ lapse' = FALSE
    /\ processed' \in {processed, processed \/ rpc = "infer"}

-----------------------------------------------------------------------------

ControlStep ==
    \/ Look \/ Pop \/ PopEmpty \/ Record \/ Ready \/ Mark \/ Send \/ Enqueue
    \/ Evict \/ Clear
ReceiverStep == Take \/ Infer \/ Scan \/ Scanned \/ Filter \/ Replace \/ Signal

Next == ControlStep \/ ReceiverStep \/ SendFails \/ InferFails \/ Restart

\* Both threads run; a call comes back.
Fairness == WF_vars(ControlStep) /\ WF_vars(ReceiverStep)

Spec == Init /\ [][Next]_vars /\ Fairness
-----------------------------------------------------------------------------

\* However late a chunk comes, whatever is lost, whatever is performed while
\* a chunk is taken in, and whatever a client before had the server predict:
\* the queue is in order, and lacks no timestep between the furthest one
\* performed and its last, so that no action is skipped.
\* control_loop_action, _aggregate_action_queues, _time_action_chunk,
\* _reset_server.
QueueFollowsArm ==
    /\ \A i, j \in DOMAIN queue : i < j => queue[i] < queue[j]
    /\ queue # <<>> => done + 1 .. queue[Len(queue)] \subseteq Range(queue)

\* While the event is clear an observation is on its way that will set it
\* again: the must-go is handed from one to the next, never dropped, unless
\* an answer was lost, or came before the event was cleared.
MustGoIsOwed ==
    ~lapse /\ ~mustGo => waiting # None \/ rpc \notin {"call", "dead"}

\* With no must-go lost and no thread dead the arm is never left without
\* actions, even if every observation looks like the last.
Served == <>(done = MaxStep \/ lapse)

\* The comment of _aggregate_action_queues says an action is skipped that is
\* "older than the latest action": one is performed once.  The action the
\* control loop has taken and not yet recorded is not skipped.
PerformedOnce == [][ControlAt("pop", "record") => held' > held]_vars
=============================================================================

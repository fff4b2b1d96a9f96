----------------------------- MODULE RtcEngine ------------------------------
(***************************************************************************)
(* The inference engine of a rollout: the task, the channel of text        *)
(* queries with its sequencer of subtasks (autosteer), the queue of        *)
(* actions, and the background thread that owns the policy and fills it.   *)
(*                                                                         *)
(* What the engine's callers do to it are operators that leave the         *)
(* variables they do not name to the caller's action; the thread's steps   *)
(* are actions.  A chunk of actions is the reset epoch its observation was *)
(* published in, a question is Vqa, a subtask query its goal.              *)
(***************************************************************************)
EXTENDS Naturals, Sequences

CONSTANTS
    Launch, Told,   \* the task launched with, and another one an operator sets
    Subtask,        \* what the policy makes of a goal
    Goal,           \* what the sequencer can be given to decompose
    Vqa,            \* a question
    Horizon,        \* the actions of a chunk
    Threshold,      \* rtc_queue_threshold
    None            \* no query, no goal, no observation

ASSUME TextAssumption ==
    /\ Told # Launch /\ Subtask \notin {Launch, Told}
    /\ Vqa \notin Goal /\ None \notin Goal /\ None # Vqa
    /\ None \notin Nat /\ None \notin {Launch, Told, Subtask}
ASSUME QueueAssumption == Horizon \in Nat \ {0} /\ Threshold \in Nat

VARIABLES
    task,           \* _task
    \* The query channel.
    pending, goal,  \* _pending_query, _autosteer_goal
    due,            \* _autosteer_due_at has passed
    inFlight,       \* _query_in_flight
    ready,          \* _ready_answers: how many there are to each query
    \* The chunk path.
    active,         \* _policy_active
    obs, epoch,     \* _obs_holder["obs"], _reset_epoch
    queue,          \* ActionQueue
    \* The thread: where it is, the observation and the epoch it read, the
    \* query it serves.
    rpc, seen, before, serving,
    \* History: the task as it was when the sequencer last stopped, or as an
    \* operator set it since; None while the sequencer may change it.
    word

text == <<pending, goal, due, inFlight, ready>>
chunks == <<active, obs, epoch, queue>>
thread == <<rpc, seen, before, serving>>
engine == <<task, text, chunks, thread, word>>

Query == Goal \union {Vqa}
Task == {Launch, Told, Subtask}
NoAnswers == [q \in Query |-> 0]

EngineTypeOK ==
    /\ task \in Task /\ word \in Task \union {None}
    /\ pending \in Query \union {None} /\ goal \in Goal \union {None}
    /\ due \in BOOLEAN /\ inFlight \in BOOLEAN /\ ready \in [Query -> Nat]
    /\ active \in BOOLEAN /\ epoch \in Nat /\ obs \in {None, epoch}
    /\ queue \in Seq(0 .. epoch) /\ Len(queue) <= Threshold + Horizon
    /\ rpc \in {"poll", "query", "text", "publish", "reread", "chunk",
                "infer", "dying", "dead"}
    /\ seen \in 0 .. epoch \union {None} /\ before \in 0 .. epoch
    /\ serving \in Query \union {None}
    /\ serving # None <=> rpc \in {"text", "publish"}
    /\ inFlight <=> serving # None

EngineInit ==
    /\ task = Launch /\ word = Launch
    /\ pending = None /\ goal = None /\ due = FALSE /\ inFlight = FALSE
    /\ ready = NoAnswers
    /\ active = FALSE /\ obs = None /\ epoch = 0 /\ queue = <<>>
    /\ rpc = "poll" /\ seen = None /\ before = 0 /\ serving = None

\* RTCInferenceEngine.failed
Failed == rpc \in {"dying", "dead"}

-----------------------------------------------------------------------------
(* What the callers do. *)

SetTask(t) == task' = t /\ word' = t

Ask == pending = None /\ pending' = Vqa

StartAutosteer(g) == goal' = g /\ due' = TRUE /\ word' = None

\* The task is now the operator's again.
StopAutosteer ==
    goal' = None /\ word' = IF goal = None THEN word ELSE task

\* Slip: the sequencer does not see the turn that is being generated.
PollsWhenFree == due /\ pending = None

\* The sequencer is due, and no query, its own or a question, is queued or
\* being generated.
Polls == due /\ pending = None /\ ~inFlight

\* _poll_autosteer
PollAutosteer == pending' = IF goal # None /\ Polls THEN goal ELSE pending

\* RTCInferenceEngine.reset as far as the lock's end; the policy and its
\* processors are reset first.
ResetChunks == queue' = <<>> /\ obs' = None /\ epoch' = epoch + 1

\* get_action: an action, or none.
PopAction == queue' = IF queue = <<>> THEN queue ELSE Tail(queue)

-----------------------------------------------------------------------------
(* The thread: _rtc_loop. *)

ThreadAt(from, to) == rpc = from /\ rpc' = to

\* The observation and the epoch, read in one critical section.
Snapshot ==
    /\ ThreadAt("poll", "query") /\ active /\ obs # None
    /\ seen' = obs /\ before' = epoch
    /\ UNCHANGED <<task, text, chunks, serving, word>>

\* _take_query
TakeQuery ==
    /\ rpc = "query"
    /\ rpc' = (IF pending = None THEN "chunk" ELSE "text")
    /\ serving' = pending /\ pending' = None
    /\ inFlight' = (pending # None)
    /\ UNCHANGED <<task, goal, due, ready, chunks, seen, before, word>>

\* Slip: whatever became of the sequencer, its turn is applied.
LiveAlways(q) == TRUE

\* The sequencer still drives the goal the turn was asked for.
Live(q) == goal = q

\* The generation took seconds.  A subtask is applied, with check and task
\* under one lock; or there is none, and the sequencer stops.
Generated ==
    /\ rpc = "text"
    /\ IF serving = Vqa \/ Live(serving)
         THEN rpc' = "publish" /\ UNCHANGED <<serving, inFlight>>
         ELSE rpc' = "reread" /\ serving' = None /\ inFlight' = FALSE
    /\ IF serving # Vqa /\ Live(serving)
         THEN \/ task' = Subtask /\ due' = FALSE /\ UNCHANGED <<goal, word>>
              \/ goal' = None /\ word' = task /\ UNCHANGED <<task, due>>
         ELSE UNCHANGED <<task, due, goal, word>>
    /\ UNCHANGED <<pending, ready, chunks, seen, before>>

\* _publish_answer
Publish ==
    /\ ThreadAt("publish", "reread")
    /\ ready' = [ready EXCEPT ![serving] = @ + 1]
    /\ inFlight' = FALSE /\ serving' = None
    /\ UNCHANGED <<task, pending, goal, due, chunks, seen, before, word>>

\* The snapshot is stale by now.
Reread ==
    /\ rpc = "reread"
    /\ rpc' = (IF obs = None THEN "poll" ELSE "chunk")
    /\ seen' = obs /\ before' = epoch
    /\ UNCHANGED <<task, text, chunks, serving, word>>

\* The queue has run low, or has not.
Refill ==
    /\ rpc = "chunk"
    /\ rpc' = (IF Len(queue) <= Threshold THEN "infer" ELSE "poll")
    /\ UNCHANGED <<task, text, chunks, seen, before, serving, word>>

\* Slip: what an inference returns is merged.
MergesAlways == TRUE

\* No reset since the snapshot.
Merges == before = epoch

\* ActionQueue.merge, with blending: the chunk replaces the queue, without the
\* actions whose time passed during the inference.
Merge ==
    /\ ThreadAt("infer", "poll")
    /\ \E kept \in 0 .. Horizon :
         queue' = IF Merges THEN [i \in 1 .. kept |-> seen] ELSE queue
    /\ UNCHANGED <<task, text, active, obs, epoch, seen, before, serving, word>>

\* The inference raised, or a trained chunk came too late, and is tried again.
InferFails ==
    /\ ThreadAt("infer", "poll")
    /\ UNCHANGED <<task, text, chunks, seen, before, serving, word>>

\* Once too often: the failure is latched, and then the strategy's loop is
\* told, which is the caller's event.
Die ==
    /\ ThreadAt("infer", "dying")
    /\ UNCHANGED <<task, text, chunks, seen, before, serving, word>>

\* The interval since the last subtask was applied is over.
IntervalPasses ==
    /\ goal # None /\ ~due /\ due' = TRUE
    /\ UNCHANGED <<task, pending, goal, inFlight, ready, chunks, thread, word>>

ThreadStep ==
    Snapshot \/ TakeQuery \/ Generated \/ Publish \/ Reread \/ Refill \/ Merge
-----------------------------------------------------------------------------

\* The last word is the operator's: a task that was set, or restored by a
\* reset, or left by the sequencer when it stopped, is not overwritten by a
\* subtask that was being generated meanwhile.
LastWordStands == word # None => task = word

\* Every queued action comes of an observation made since the last reset,
\* however long an inference or a query before it took: the arm is never led
\* towards where it was before it was moved home.
NoStaleAction == \A i \in DOMAIN queue : queue[i] = epoch

\* Two turns of the sequencer never overlap: the policy keeps the plan's
\* progress, and would plan the same step twice.
OneTurnAtATime == pending \in Goal => serving \notin Goal
=============================================================================

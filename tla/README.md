# A specification of the SO-101 impedance controller

monogokoro is a fork of lerobot that drives an SO-101 arm by impedance control: a real-time daemon in
Rust (`rust/so101_impedance_ctrl`) owns the serial bus and the servos, and an unprivileged Python
process (`src/lerobot/robots/so101_impedance_follower`) tells it where to go. This directory holds TLA+
modules of that system, the TLC configurations that check them, and theorems about them that TLAPS
checks. Two upstream parts that drive a robot from a policy, asynchronous inference and the rollout with
its RTC engine, are modelled as well; the rest of lerobot (policies, datasets, training) is inventoried
and left out.

    tlc -workers 2 -config MCSeqlock.cfg MCSeqlock      # a run
    tlapm SeqlockProofs.tla                             # a module of proofs

## 1. Inventory

Three parties act on the arm:

    Python client ──input region (seqlock)──▶ ┌───────────────┐ ──SYNC_WRITE duty──▶ six servos
                  ◀─output region (seqlock)── │ control loop  │ ◀─positions, acks──  (half-duplex bus)
                  ──command region (seq/ack)▶ └──┬─────────▲──┘
                                     SeqCell: senses  │ SeqCell: feedforward
                                              ┌──▼─────────┴──┐
                                              │  cerebellum   │  (a thread of the daemon)
                                              └───────────────┘

| Component | Where | State | Operations | What makes it correct |
| --- | --- | --- | --- | --- |
| Seqlocked regions | `shm.rs`, `shm_client.py`, `SeqCell` in `cerebellum/mod.rs` | `seq`, the fields | write, read with bounded retries and a last good snapshot | a snapshot is one write, never an older one than the last complete; a read always ends |
| Segment lifecycle | `main.rs` 504-600, `shm_client.py` 280-336 | the file under `/dev/shm` | create, inspect, reclaim, attach | never two daemons on one arm; a client finds the daemon's segment |
| Command channel | `shm_client.py` 458-503, `control.rs` 391-513 and 1014-1101 | `cmd_seq`, `ack_seq`, `status`, fields | post, wait, poll, apply, ack | carried out once, as posted; status 0 means it took |
| Servo bus | `feetech.rs` | servo registers, the port's input buffer | write, read, SYNC_WRITE, SYNC_READ | a reply is taken for the request it answers |
| Position sensing | `control.rs` 104-191 and 616-991, `main.rs` 920-1066 | `prev_pos`, `pos_seeded`, `pending`, `blind_ticks`, `pos_frames`, `travel` | accept, hold back or refuse a batch; track frames and envelopes | never drives long from an old position; a jump is corroborated; it always finds the arm again |
| Control law | `control.rs` 61-360 | none | wrapped difference, impedance law, tendon inhibition, soft limits | bounded, the short way round, a limit never drives outward |
| Soft limits | `main.rs` 1131-1250 | `last_in_range` | record, drive back | back is the way the joint came |
| Control loop | `main.rs` 918-1382 | `last_good_input`, slew state, telemetry | tick | no duty on dead input; telemetry that can be believed |
| Shutdown | `main.rs` 440-483 and 1344-1386, `control.rs` 734-760 | `SHUTDOWN_REQUESTED` | signal, Shutdown command, `release_all` | every servo let go or named |
| Cerebellum | `cerebellum/mod.rs` | packets, `faulted`, `applied`, weights | publish, predict, learn, feedforward, save | its loss fades out, it never delays the loop |
| Network, GPU, pontine relay, real-time setup | `net.rs`, `gpu.rs`, `pontine.rs`, `rt.rs` | weights, filters | | numerics and system calls |
| Robot client | `so101_impedance_follower.py`, `checker.py` | calibration, cameras | connect, configure, act, observe, disconnect | |
| Asynchronous inference | `async_inference/robot_client.py`, `policy_server.py`, `helpers.py` | `action_queue`, `latest_action`, `must_go`; the server's `observation_queue`, `_predicted_timesteps` | perform, observe, send; receive and merge a chunk; enqueue, predict, answer | no action skipped or repeated; the arm is not left without actions |
| RTC engine | `rollout/inference/base.py`, `rtc.py`, `policies/rtc/action_queue.py` | task, pending query, sequencer goal, answers; action queue, observation, reset epoch | set task, ask, autosteer, reset; the inference thread | no chunk or subtask outlives what it was made for |
| Rollout controller | `rollout/controller.py`, `strategies/base.py` | start, reset and stop requests, `_segment_stop`, `_running`, `_stopped` | start, reset, stop, set task, ask, autosteer; serve, run a segment | every accepted request is heard and every question answered |
| Rest of upstream lerobot | `rl`, `cameras`, `datasets`, `policies`, `processor`, ... | | | not modelled: numerics, device drivers, data pipelines, or processes this arm does not run |

Above the client sits either a person's script, or a policy. With asynchronous inference the control loop
of `RobotClient` calls the robot, and a second thread of it fills a queue with the chunks of actions a
server predicts. In a rollout, operators' threads call a controller, which raises request flags; the
serving thread runs the strategy's loop in segments, each reading actions from the engine's queue; and
the engine's own thread owns the policy, answers text queries and fills the queue.

What is hard here: two processes and two threads share memory without locks; the client can die between
any two stores; the servos answer over a bus that drops, delays and misframes replies, while a
SYNC_WRITE has no answer at all; registers refuse writes in silence; the frame a position is reported
in changes with a register that the daemon only believes it knows; and fail-safes (watchdog, blind
limit, staleness, release) have to work in exactly the states nobody tests. Upstream, an inference or a
generated text takes seconds, and what it was made from has changed when it is used; requests, events
and answers cross between three threads; and segments begin and end in the middle of all that.
`PROJECT.json` lists these hazards line by line with the properties that cover them.

## 2. Modules

| Module | Models | Checked by | Proved in |
| --- | --- | --- | --- |
| `SharedRegister` | abstract: one atomic register | | |
| `Seqlock` | one seqlocked region, store by store | `MCSeqlock` | `SeqlockProofs` |
| `ControlLaw` | the pure functions of `control.rs`, over the integers | through the modules below | lemmas in `PositionSenseProofs`, `LoopProofs` |
| `PositionSense` (extends `ControlLaw`) | which position a tick drives from | `MCPositionSense` | `PositionSenseProofs` |
| `LimitGuard` (extends `ControlLaw`) | one joint, its soft limits and the duty of a tick | `MCLimitGuard` | `LoopProofs` |
| `DriveLoop` | watchdog, blind limit, feedforward and duty, tick by tick | `MCDriveLoop` | `LoopProofs` |
| `ServoBus` | a servo's registers and what a transaction comes to | | |
| `CommandChannel` (extends `ServoBus`) | client, command region, scripts, beliefs | `MCCommandChannel` | `CommandChannelProofs` |
| `Release` (extends `ServoBus`) | leaving the loop and `release_all` | `MCRelease` | `ReleaseProofs` |
| `ShmLifecycle` | the segment's name: create, inspect, reclaim, attach | `MCShmLifecycle` | `ShmLifecycleProofs` |
| `AsyncInference` | the client's two threads and the server's two handlers | `MCAsyncInference` | `AsyncInferenceProofs` |
| `RtcEngine` | the engine: task, text queries, action queue, inference thread | through `RolloutController` | `RolloutProofs` |
| `RolloutController` (extends `RtcEngine`) | operators, serving thread and engine composed | `MCRollout` | `RolloutProofs` |

Operators whose comment begins with "Slip:" are not part of any specification. Each is a mistake the
code could plausibly have made in the operator below it, and is kept to show that a property notices.

### Seqlock

One writer, one reader, a set of `Words` stored and loaded one at a time in any order. `BeginWrite`,
`StoreWord`, `EndWrite` are the body of `seqlock_write` and `write_input`; `LoadEven`, `LoadOdd`,
`CopyWord`, `Accept`, `Discard`, `GiveUp` the loop of `seqlock_read` and `read_output`; `lastGood` is the
caller's fallback. What a store writes is the number of the write attempt it belongs to. Memory is taken
to be sequentially consistent: the Rust side has `SeqCst` fences between the sequence number and the
words, and the Python side runs plain stores on a machine with total store order.

`NoTornRead`, `ReadIsCurrent` and the refinement of `SharedRegister` hold with a writer that may stop
anywhere for good. They do not survive a writer that stops half way *and is followed by another*
(`CrashSpec`): see section 4.

### PositionSense and ControlLaw

The position part of a tick, with a bus that answers truthfully, misframed or not at all. Joints move by
up to the slew budget per tick; a client switches operating mode and calibration in between, confirmed.
The daemon's `prevPos`, `pending`, `blind`, `frames` and `travel` are the code's; `blind` is counted
in each of the three places where the code counts it (`Refuse`, `HoldBack`, `FailedTick`). `unseen`,
`offered` and `honest` are history; `unseen` is counted by the tick as a whole, from whether it is going to
drive from a new batch (`Takes`, `Count`). Every joint starts with a known frame and envelope: the reads of
the startup are taken to succeed. Positions are integers: the code's `f32` counts are whole numbers below 2^24. The
envelope in use is abstracted to the one its calibration gives; both gates are on, as by default.

### DriveLoop

One joint. Timestamps are kept as ages on a clock that ticks in units of the timeouts. `Post` is
`send_command`; `Block` is a poll that takes a command which keeps the loop (`SetOperatingMode`, with up
to three attempts at a flash commit, and `SetCalibration`), and says how many units of the clock it may
take; a poll that finds a quick command or none is part of the tick. `Elapse` moves the clock: once between two
ticks, and once more for each unit of the command in hand. That the tick itself takes less than a unit,
with its position read and its SYNC_WRITE, is assumed: the port's timeout is 5 ms by default. A
SYNC_WRITE has no reply, so that it has three outcomes (`Writes`): the port refuses it, which the daemon
sees and flags; the port takes it and the servo does not get it, which nobody sees (`missed`); or the servo
gets it. `BeginInput` takes the timestamp after making the
sequence number odd, and `EndInput` may come arbitrarily later or never. What the impedance law returns
is any member of `Feedback`, what the network computes any member of `Learned`, and tendon inhibition
and limits may reduce a duty in any way that keeps its direction.

### CommandChannel and ServoBus

The client stores `cmd_kind`, `motor_id` and the payload one at a time and then moves `cmd_seq`; it may
give up at any step, which stands for the ack timeout, an exception, and a new client attaching. The
daemon polls, runs the command's script one bus transaction at a time with the retries the code makes,
stores the status, then the ack, updates its beliefs from the values it kept, and drives. A transaction
can lose the request, lose the ack, or take the late ack of an earlier one for its own (the protocol has
no identifiers); EPROM registers refuse a write under torque or lock; a duty write re-arms the torque.

### Release

One tick after another until a signal or the Shutdown command ends the loop, then `release_all`: every
duty, every torque, every readback, each of which may go wrong. A second signal leaves on the spot. A
readback that was given up may still be answered (`late`), and the next one takes that answer for its own,
since `read_register` does not look at the reply's motor id. Answers to reads of the loop do not come this
late: a dozen writes clear the port's input before the first readback; and the acks of those writes are
a byte too short to pass for a readback's answer. The join of the cerebellum's thread after
`release_all` is left out; the GPU fence it may wait for has a timeout.

### LimitGuard

One joint at an unrolled position, moved by anything; the encoder sees it modulo a turn. A tick reads it
or holds the last reading; mode and calibration change under the loop. `prev_pos` starts at the 0 nobody
has read. The velocity filter is a window of one, the target velocity 0.

### ShmLifecycle

Daemons launched one after another or, with `Overlap`, at once, over a name that stands for nothing, for
a file of somebody else's, or for what a killed daemon left. A segment is its header (absent, created
without bytes, zeroed, initialised, foreign) and the age of its telemetry. `Create`, `Size`, `Initialise`
are what creation comes to on the file system; `InspectStale`, `Reclaim`, `Recreate`, `Refuse` are
`inspect_existing_shm` and the match on its answer, one step each, since another daemon can act between
them; `End` is the drop of the `Shmem`, which unlinks by name; `Kill` leaves the file. The client opens
and checks in two steps. `TornGlance` lets the inspection run out of its 8 tries, which counts as a
timestamp of 0.

### AsyncInference

An observation and an action are their timesteps. The client's control loop and receiver are split at
every point where the other one, or the server, can see or change what they use: between the test of the
queue and the pop, the pop and the recording of `latest_action`, the call and the clearing of `must_go`;
between taking the deque and iterating over it, and between two actions of a chunk. The server's one
place is tested, emptied and filled in separate steps of two handlers. Whether an observation looks like
the last one is left to the arm. A call may fail, and the client may be killed at any step and started again, which flushes the server
(`Restart`, `Flush`); whether a handler of the client before can be late for that is the constant
`Straggler`, off in the run. `lapse` is history: it becomes true when a must-go is
lost, or a thread dies, in a way the code does not repair (the event set between the call and the
clearing, the server's place emptied between test and get, an error in either thread); the properties say
what holds until then, and no more.

### RtcEngine and RolloutController

A chunk of actions is represented by the reset epoch its observation was published in, the task by who
set it. `RtcEngine` has the thread's loop (`Snapshot`, `TakeQuery`, `Generated`, `Publish`, `Reread`,
`Refill`, `Merge`, `Die`) as actions and what its callers do as operators; `RolloutController` puts these
into the actions of the operators and of the serving thread, and composes the three. A call of an
operator is one step, except that `reset` and `stop` set their flag in one and the event in another: that
order is what the beginning of a segment relies on. `word` remembers what the operator last decided
about the task, `owed` the questions accepted and unanswered, `promised` that a start was accepted and
nothing has cancelled it.

## 3. Runs

| Run | Bounds | What it shows |
| --- | --- | --- |
| `seqlock` | 2 words, modulus 6, 2 retries, 4 writes | whole, current, bounded reads; refinement; the sequence number wraps within the run |
| `position_sense` | 2 joints on a circle of 12, budget 1, blind limit 3, three calibrations | how old and how well founded the position is, with each way of losing it counted by itself |
| `drive_loop` | watchdog of 1 unit, staleness of 0, blind limit 2, commands of 1 unit, duties -1..1, feedforward and slew 1 (159 204 states) | nothing driven on dead input, up to the command in hand; unflagged telemetry can be trusted; both fail-safes end in zero |
| `command_channel` | 1 servo, 2 commands of 4, 2 attempts, 1 bus fault | status 0 is kept; beliefs are right unless the command failed; a command is answered |
| `command_once` | the same | finding 1 |
| `release` | 3 servos, any modes, 3 bus faults, late answers besides | no arm with an energised servo is called released, and one is so only by a fault |
| `limit_guard` | a circle of 16, limits 2..14, two offsets, steps of 1 | driven back the way it left |
| `shm_lifecycle` | 2 daemons, 4 segments, liveness 2 units of 0.5 s, no overlapping launch, no torn inspection | the driver is behind the name; a foreign file survives; an orphaned client is told |
| `shm_overlap` | the same with overlapping launches | finding 2 |
| `async_inference` | chunks of 3, refill at 1, timesteps 0..4, 1 failing call or killed client | no timestep skipped; the must-go is handed on; the arm is served |
| `rollout` | 4 calls, chunks of 2, threshold 1, 1 goal | requests are heard, questions answered, nothing stale is used |
| `rollout_start` | the same | finding 3 |

Why these bounds: two words and a modulus of 6 are the least with which a snapshot can mix writes and a
sequence number can come round within one run without lapping a single read, which 2^31 writes during
one copy would take (`CannotLap`). A circle of 12 with a budget of 1 leaves room for a plausible step, an
implausible one that stays in the travel, and one outside it, on both sides of the seam in both frames.
`BlindBound` exceeds `MaxBlind`, so that the limit is reached and passed. A timeout of one unit makes
fresh, just expired and long expired three different ages, and a command of one unit is enough to carry
an input from fresh past the watchdog's bound before the loop looks again; a staleness of 0 still tells a
packet of this unit of the clock from an older one. One servo is enough for the channel, whose
scripts never touch a second one; a fault per command tells a lost ack from a lost write, and a second
defeats the last attempt. In `release` a late answer that hides an energised servo takes two faults, the lost torque
write of the servo and the lost readback of the one before it; the third hits another servo. Two daemons are the least of which one can take the other for dead, and four segments let each
create one while the client still holds another and a fourth lies behind the name; a liveness of 2 units
separates fresh, stale to the client and stale to a daemon. Chunks of 3 with a refill at 1 overlap by
one or two actions, so that a chunk is filtered while its first actions are performed; five timesteps
take three chunks. Four calls are a reset and a start, or a question and a stop, with a task and a
sequencer still in play; a chunk of 2 with a threshold of 1 makes the thread infer while the loop still
has an action. `CHECK_DEADLOCK FALSE` is set where the system ends or its bound is reached:
`command_channel` (after Shutdown), `release` (after the process exits), `shm_lifecycle` and
`shm_overlap` (kept for a machine left alone), `async_inference` (the episode's last step, or both
threads dead) and the runs of `rollout` (serve has ended and the calls are spent).

### Fairness

`Seqlock` is fair to the reader alone: its steps are straight-line code of a loop that runs; the writer
may stop anywhere. `DriveLoop` is weakly fair to the clock and to the loop, which includes that every
command ends (each of its transactions has a timeout), and strongly fair to ticks whose SYNC_WRITE
reaches the servo, since each tick writes again and a bus that never delivers is unplugged; any number of
them may be refused or lost in between. Nothing is assumed of the client or of the cerebellum's thread. In `CommandChannel` and `Release` the daemon is fair because every bus
transaction has a timeout; clients and signals are not. `ShmLifecycle` is fair to the clock and to the
ticks of a daemon that is in its loop; launches, kills, exits and the client happen or not. In
`AsyncInference` both threads are fair, which includes that a remote call comes back, with an answer or
an error; that a call fails is not. In `RolloutController` the serving thread, the engine's thread
and a call that holds the lock are fair: robot, generation and inference return. That the operators call,
that the sequencer's interval passes, that a duration ends or that anything fails is not.

## 4. Findings

1. `command_once`: `send_command` does not wait for an unpolled command, so that after a timeout the
   daemon can carry out a mixture of two commands (`shm_client.py:463`).
2. `shm_overlap`: a daemon that is still bringing up the GPU or the servos has never ticked and counts as
   abandoned. A second launch removes its segment, and both drive the arm, the first one where nobody
   finds it; its exit then removes the second one's name (`main.rs:546`). An inspection that
   runs out of tries takes the timestamp for 0 and has the same outcome (`TornGlance`).
3. `rollout_start`: a `reset` and a `start` that both fall between serve's look at the resets and its look
   at the starts: `start` returns `True`, and its segment is left before it ran, because of the reset
   that came before it (`controller.py:364`, `398`).

Nine more disagreements were found in this way. Each has a configuration of its own, which is not among
the runs and which TLC refutes in seconds:

- `MCSeqlockCrash.cfg`, `NoTornRead` under `CrashSpec`: a client that stops between its two stores of
  `seq` leaves it odd, and the next `write_input` starts from there: odd and even have changed meaning,
  and the daemon takes half-written regions for stable ones until it is restarted (`shm_client.py:398`).
- `MCDriveLoopShare.cfg`, `FeedforwardIsShare`: on a watchdog or blind tick `pwm_cmd` is 0 and `ff_pwm` is
  the slew limiter's state, so `pwm_cmd - ff_pwm` is not the feedback share the docs define it as
  (`main.rs:1334`).
- `MCDriveLoopBlocked.cfg`, `WatchdogHolds`: a duty stands longer than the watchdog's timeout and a tick.
  `feetech.rs:278` says a flash commit "happens when a client attaches, never inside the loop"
  (`control.rs:463` likewise); `main.rs:926` polls commands inside the loop, on its thread. A
  `SetOperatingMode` that fails keeps it for three attempts of some 170 ms, against a default timeout of
  75 ms, and if the client dies meanwhile its last duty stands for as long. `DrivesOnLiveInput`
  is the bound the code does keep.
- `MCReleaseLate.cfg`, `EnergisedIsReported`: `control.rs:745` reads the torque "back rather than assume",
  and `read_register` takes any motor's answer (`feetech.rs:362`). The answer of a servo whose readback was
  given up passes for the next one's, so that the log may name the servo before the one still
  energised. `EnergisedFollowsNamed` is what remains true: it never names none.
- `MCBelief.cfg`, `BeliefIsExact`: a mode write that took but was never confirmed leaves the daemon's
  belief on the old frame (`main.rs:927`).
- `MCLimitGuardStale.cfg`, `AlwaysDrivenBack`: `last_in_range` survives a calibration that moves its frame
  (`main.rs:944`).
- `MCAsyncTwice.cfg`, `PerformedOnce`: an action is recorded as the latest only after it was sent, and a
  chunk filtered in between queues it again (`robot_client.py:397`).
- `MCAsyncStraggler.cfg`, `QueueFollowsArm`: `_reset_server` "flushes server state when new client connects",
  but an observation of the client before that has been received and not queued yet goes into the new
  queue. The new client gets a chunk that starts at the old timestep, later than any of its own, and the
  arm skips what lies before (`policy_server.py:103`). It takes a client killed and replaced within one
  call.
- `MCShmAttach.cfg`, `ClientWaitsForDaemon`: a client retries while the file is absent, and gives up at
  once if it finds it between creation and initialisation (`shm_client.py:307`).

## 5. Proofs

The theorems below hold for every value of the constants that satisfies the named assumptions, which TLC
evaluates on every run. Each module of proofs has one inductive invariant or two (`IInv`, or a name that
says what it is about), the fact that `Init` implies it, one lemma per action (or group of like actions)
that keeps it, and theorems that read the properties off it.

**`SeqlockProofs`** (`SeqlockTypeOK`, `SeqlockNoTornRead`, `SeqlockReadIsCurrent`,
`SeqlockImplementsRegister`). Assumed: the modulus is even and at least 4, and a reader is not lapped
(`CannotLap`). That a snapshot is whole is not inductive: nothing in it says why the second load of
`seq` may be trusted. `ParityInv` says that `seq` is odd exactly while a write is in progress; `DataInv`
that a region at rest is whole and one being written carries the attempt in the words already stored;
`CopyInv` that `seq` has moved away from `s1` by exactly the stores made since, so that finding it
unmoved means that no store overlapped the copy, wrap-around included (`Ahead`). The same invariant
shows that accepting a copy is a read of `SharedRegister`, `EndWrite` a write, and every other step a
stutter.

**`PositionSenseProofs`**, which also holds the lemmas about `ControlLaw` (`PositionTypeOK`,
`PositionDrivesFromRecent`, `PositionSeesAgain`, `PositionCorroborates`). Assumed: an even number of
counts, integer calibrations, and that a calibration whose envelope is enforced was swept over all of
the joint's travel (`SweptAssumption`); the last is what a user does by hand before the arm is used, and
without it an arm outside its swept range is refused for ever, as intended. `BlindIsUnseen` carries the
age of the position: the tick's own count of it agrees with the loop's, which takes one look at each of
the three ways of losing a read (`RefuseKeepsGate`, `OfferKeepsGate`, `BlindTickIsCounted`) and at what
the gate adopts. `HeldBackIsOffered` carries the corroboration. That two honest batches restore the sight of
the arm takes the whole argument: `BeliefTracksServos` (frames and envelopes follow the registers),
hence an honest batch passes the travel check, whose raw band is the corrected band turned by the homing
offset (`RawBandIsCorrectedBand`); hence it is adopted or held back (`HonestIsSeenOrHeld`); and the next
one is within the budget of it, because `WrappedDelta` is the distance on the circle whichever side of
the seam and however many turns its arguments lie apart (`WrappedDeltaIsDistance`), and the distance
does not change when both counts have the offset taken off (`WrappedDeltaTurned`).

**`LoopProofs`** is about `DriveLoop` and `LimitGuard`, which have no variable in common (the second
names its specification `GuardSpec`, its types `GuardTypeOK`, and so on).

Of `DriveLoop` (`TypesHold`, `LiveInput`, `ReportsTrue`, `StaysStopped`, `FadesOut`), for any timeouts,
blind limit, length of a command, duties, clamp and slew: neither invariant is inductive, because both
speak of the client's last timestamp and the loop drives from the snapshot it holds. `AgesOrdered` says
that the snapshot is no newer than what is published, nor that than what is being written; `DutyAccepted`
and `ReportAccepted` that a duty, and a report without flags, rest on a snapshot the watchdog accepted at
the last tick; `TicksInTime` that the clock has moved since then by one unit and the command in hand
at most, which is why a command in hand is in the bound (`BlockStep` has nothing else to show). `StaysStopped` and `FadesOut` are what the two
liveness properties of the run rest on besides fairness: that a state in which the arm has stopped is
never left, where `AgesOrdered` is needed for a write that stalls half way, and that each tick brings
the feedforward of a dead thread nearer to zero by a slew step.

Of `LimitGuard` (`GuardTypesHold`, `GuardRemembers`, `GuardDrivesBack`), for any encoder, limits,
offsets, law and targets. `ReadInv` says what the last reading was of, `PwmInv` that a duty past the
limits points along `WrappedDelta` to the remembered place. That this is the way the joint left is
`OriginInv`: outside its limits the joint has stayed in one of the gaps between them, and left from
within a travel of it. It takes `GapIsNarrow`: the gap between the limits and what the joint can be
moved between two readings together stay under half a turn. The limits the daemon starts with
(`--pos-min 100`, `--pos-max 3995`) leave a gap of 201 counts of 4096, hence room for 1846 counts
between two readings. With limits whose gap is over half a turn the hypothesis is false and so is the
property: the short way back is no longer the way the joint left.

**`CommandChannelProofs`** (`TypesHold`, `AckedModesAreSet`, `BeliefsHold`, `WaitedForIsCarriedOut`),
for any number of servos, commands, attempts and faults on the bus. What must hold at every store of the
client and every transaction of the daemon for the two properties to hold at the end: `FieldsInv` (the
fields hold what the client has written so far), `TakenInv` (what is carried out under the number a
client waits for is what it posted, although the fields may hold a mixture by then), `CarriedInv` (a
script that came to an end without an error left its value in the servo), `AckedInv` and `ToldInv` (and
nothing undoes it before the client sends again), `BeliefInv` (a belief is right, unknown, in doubt, or
about to be put right by the command in hand). `WaitedForIsCarriedOut` says how far finding 1 reaches:
the mixture is carried out only under a number nobody waits for.

**`ReleaseProofs`** (`ReleaseTypeOK`, `ReleaseReportsEnergised`, `ReleaseReleases`). Assumed: at least
one servo. What carries both properties is how far the stages have got: `ClearedAreReleased` (a servo
the torque stage is past is released unless a transaction of its own slipped, which needs that no duty
is written after it), `EnergisedComeAfterNamed` (of one the readback is past, it or one before it is in
`stillOn` if it is energised) and `LateComesAfterNamed`: an answer still on its way is of a servo that was
given up, hence of one with a name in `stillOn` at or before it, so that what it hides comes after that.

**`ShmLifecycleProofs`** (`TypesHold`, `ForeignIsSafe`, `DriverIsReachable`). The first two need no
assumption: launches may overlap, daemons be killed anywhere and inspections be torn. `ForeignInv` says
that a foreign file stands behind the name, and that no daemon gets further than to inspect it while it
does. The file is there from the beginning or not at all: one that somebody puts there between a
daemon's inspection and its removal is not modelled. The third theorem assumes `Careful`: launches do
not overlap and the inspection reads its timestamp; without either the property is false (finding 2).
`OwnerInv` says that whoever owns a segment is behind the name, that one daemon at most owns one and one
at most is starting, that a daemon in its loop or on its way out was heard of within the liveness
timeout, so that no inspection takes it for abandoned, and that a daemon about to remove a segment has
seen that nobody owns one.

**`AsyncInferenceProofs`** (`TypesHold`, `MustGoIsHandedOn`, `QueueFollows`, `PerformsEveryStep`), for
any chunk, threshold, episode and number of failing calls and killed clients. That the event may be
clear rests on where the must-go observation is while the control loop is about to clear it: `OwedInv`
says the same of the step before the clearing (`ClearsNext`) as `MustGoIsOwed` says after it, and that a
dead receiver is a lapse. The other three assume `~Straggler`: no handler of a killed client outlives
the start of the next (`MCAsyncStraggler.cfg` shows what happens otherwise). `ArmQueueInv` follows a
timestep round: an observation, wherever it waits, is at most one step ahead of the furthest performed
(`ObsInv`); so a chunk made of it starts no later than that; of the chunk being filtered, what was kept
lacks only what was performed since (`FutureInv`), although actions go on being performed between two
looks; and the queue goes on where the arm is (`QueueInv`). `PerformsEveryStep` is what the arm sees of
it: the action popped is the one after the furthest performed, or one performed before (which does
happen, see `PerformedOnce` in section 4).

**`RolloutProofs`** (`TypesHold`, `OperatorsWord`, `TurnsAreSingle`, `QueueIsOfThisEpoch`,
`QuestionsAccounted`), for any goals, chunk length, threshold and number of calls. `TextInv` carries the
first two: while the sequencer has a goal the task is its own to change, and a query that is being
served is in flight, which `Polls` looks at. `ChunkInv` carries the third: from the moment the thread
has read an observation it holds the epoch that observation was published in, so that a chunk merged
only if the epoch is unchanged is of this epoch, and a reset empties the queue as it bumps it.
`AccountInv` is the types together with the account of the questions: every one accepted and unanswered
is pending, being served, or among the answers ready, and in one of these places only. Without it
nothing bounds what the client is owed; it is `QuestionsAccounted`, the safety half of
`QuestionIsAnswered`.

## 6. Only model-checked, and not modelled

Liveness (`ReadEnds`, `DeadClientStopsArm`, `DeadCerebellumFades`, `TakenIsAcked`, `StopEnds`,
`OrphanIsTold`, `Served`, `StopIsHeard`, `ResetIsHeard`, `QuestionIsAnswered`) is out of the prover's
reach (fairness, `ENABLED`) and is checked on the instances above; of the two of the control loop,
`StaysStopped` and `FadesOut` prove what needs no fairness. Every other property of a passing run
is a theorem. Five theorems have a hypothesis on the constants besides the assumptions named in the
modules, each stated with them and explained in section 5: `QueueFollows`, `PerformsEveryStep` and
`AsyncInferenceProofs`' `TypesHold` (`~Straggler`), `GuardDrivesBack` (`GapIsNarrow`) and
`DriverIsReachable` (`Careful`).

Not modelled: startup transactions, the network, its learning and its weights file, the pontine relay,
real-time setup, current and health sampling, startup reads that fail, servo error bytes, packet parsing, unit conversions and
cameras of the robot class; of asynchronous inference the policy's instructions, an orderly stop and the
aggregation of overlapping actions; of the rollout the synchronous engine, the other strategies and
their recording, the parent's global shutdown event (`controller.py:351`, `400`, `434`; `serve` ends as
it does for a stop) and a `reset_control_state` that raises and unwinds `serve` (`404`); and the rest of upstream lerobot, most of which is numerical code (policies,
processors, training) in which there is no state machine to check. `PROJECT.json` gives the reason for
each.

## 7. Plan

Done in the order of what hurts the arm first: `Seqlock`, `PositionSense`, `DriveLoop`,
`CommandChannel`, `Release`, `LimitGuard`, `ShmLifecycle`, `AsyncInference`, `RtcEngine` with
`RolloutController`. Next:

1. Proofs: that the composition of `DriveLoop` with a `Seqlock` needs no more of it than
   `SharedRegister` promises.
2. `StartUp`: the transactions of `configure_one_motor` and the startup reads composed with the first
   ticks, and the unseeded position (`main.rs:868`).
3. `Cerebellum`: the thread's own loop (gates on learning, staleness of the snapshot against the
   packet's stamp, the fault latch, saving weights), refining the thread of `DriveLoop`.

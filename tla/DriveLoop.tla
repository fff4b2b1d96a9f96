----------------------------- MODULE DriveLoop ------------------------------
(***************************************************************************)
(* What the daemon's control loop may put on the wire, tick by tick: the   *)
(* watchdog on the client's input, the blind-tick limit on the position,   *)
(* the cerebellum's feedforward from its own thread, and the duty itself.  *)
(* Before each tick the loop applies the command the client has posted, if *)
(* any, and does not tick until it is done with it.                        *)
(*                                                                         *)
(* One joint.  Positions are abstracted to whether this tick adopted a     *)
(* batch (module PositionSense), the impedance law to the set of duties it *)
(* can return (module ControlLaw), the seqlocks to whether a write is in   *)
(* progress (module Seqlock), and a command to how long it keeps the loop  *)
(* (module CommandChannel has what it does).                               *)
(*                                                                         *)
(* Timestamps are kept as their ages in units of the clock, which stop     *)
(* counting at an age at which they have expired for whoever asks.         *)
(***************************************************************************)
EXTENDS Integers

CONSTANTS
    Timeout,        \* --watchdog-timeout-ms
    Staleness,      \* --cerebellum-staleness-ms
    MaxBlind,       \* --max-blind-ticks
    MaxBlock,       \* units of the clock a command may keep the loop
    Feedback,       \* duties the impedance law returns
    Learned,        \* feedforwards the network returns
    FfMax,          \* --cerebellum-ff-max
    FfSlew,         \* --cerebellum-ff-slew over one tick
    Cap             \* --pwm-max and the per-joint caps

ASSUME LimitsAssumption ==
    /\ Timeout \in Nat /\ Staleness \in Nat /\ MaxBlind \in Nat \ {0}
    /\ MaxBlock \in Nat
    /\ FfMax \in Nat /\ FfSlew \in Nat \ {0} /\ Cap \in Nat
ASSUME DutyAssumption == Feedback \subseteq Int /\ Learned \subseteq Int

VARIABLES
    \* The client, and the input region.
    client,         \* "alive" or "dead"
    draft,          \* age of the timestamp of a write in progress, or NoDraft
    inputAge,       \* age of timestamp_mono_ns in the region
    posted,         \* a command the daemon has not taken
    \* The cerebellum's thread, and its half of the exchange.
    thread,         \* "running", "faulted" or "stopped"
    packet,         \* the output packet: its feedforward and its age
    \* The control loop.
    busy,           \* units the slow command in hand may take, 0 without one
    heldAge,        \* age of the timestamp in last_good_input
    blind,          \* blind_ticks
    applied,        \* the feedforward the slew limiter has reached
    output,         \* the output region: is its timestamp set, pwm_cmd,
                    \* ff_pwm and the fault flags
    \* The servo.
    duty,           \* Goal_PWM
    \* History.
    missed,         \* the port took the last tick's SYNC_WRITE, and the
                    \* servo did not get it
    lag             \* units of the clock since the last tick

clientVars == <<client, draft, inputAge, posted>>
threadVars == <<thread, packet>>
loopVars == <<busy, heldAge, blind, applied, output, duty, missed>>
vars == <<clientVars, threadVars, loopVars, lag>>

\* The ages that count for the watchdog, and those of a packet.
Old == Timeout + MaxBlock + 2
Stale == Staleness + 1
NoDraft == -1
Ages == 0 .. Old
Older(age, old) == IF age \in 0 .. old - 1 THEN age + 1 ELSE age

Limited(x, lo, hi) == IF x < lo THEN lo ELSE IF x > hi THEN hi ELSE x
Magnitude(x) == IF x < 0 THEN -x ELSE x
Duties == -Cap .. Cap
Flags == {"WATCHDOG_TIMEOUT", "COMMS_ERROR"}

TypeOK ==
    /\ client \in {"alive", "dead"}
    /\ draft \in Ages \union {NoDraft}
    /\ inputAge \in Ages
    /\ posted \in BOOLEAN
    /\ thread \in {"running", "faulted", "stopped"}
    /\ packet \in [ff: Learned \union {0}, age: 0 .. Stale]
    /\ busy \in 0 .. MaxBlock
    /\ heldAge \in Ages
    /\ blind \in 0 .. MaxBlind
    /\ applied \in -FfMax .. FfMax
    /\ output \in [stamped: BOOLEAN, pwm: Duties, ff: -FfMax .. FfMax,
                   flags: SUBSET Flags]
    /\ duty \in Duties
    /\ missed \in BOOLEAN
    /\ lag \in 0 .. MaxBlock + 1

\* A fresh segment is all zeros, and a timestamp of 0 is long past.
Init ==
    /\ client = "alive"
    /\ draft = NoDraft
    /\ inputAge = Old
    /\ posted = FALSE
    /\ thread = "running"
    /\ packet = [ff |-> 0, age |-> Stale]
    /\ busy = 0
    /\ heldAge = Old
    /\ blind = 0
    /\ applied = 0
    /\ output = [stamped |-> FALSE, pwm |-> 0, ff |-> 0, flags |-> {}]
    /\ duty = 0
    /\ missed = FALSE
    /\ lag = 0

-----------------------------------------------------------------------------
(* The client.                                                             *)

\* write_input makes the sequence number odd and takes the time; until it
\* makes it even again no reader accepts the region.
BeginInput ==
    /\ client = "alive"
    /\ draft = NoDraft
    /\ draft' = 0
    /\ UNCHANGED <<client, inputAge, posted, threadVars, loopVars, lag>>

EndInput ==
    /\ client = "alive"
    /\ draft # NoDraft
    /\ inputAge' = draft
    /\ draft' = NoDraft
    /\ UNCHANGED <<client, posted, threadVars, loopVars, lag>>

\* send_command, which waits for the ack no longer than its own timeout.
Post ==
    /\ client = "alive"
    /\ posted' = TRUE
    /\ UNCHANGED <<client, draft, inputAge, threadVars, loopVars, lag>>

\* It may die anywhere, and leaves a write in progress and a command posted
\* as they are.
ClientDies ==
    /\ client = "alive"
    /\ client' = "dead"
    /\ UNCHANGED <<draft, inputAge, posted, threadVars, loopVars, lag>>

-----------------------------------------------------------------------------
(* The cerebellum's thread.                                                *)

\* A step of the network that published what it computed.
Predict ==
    /\ thread = "running"
    /\ \E ff \in Learned : packet' = [ff |-> ff, age |-> 0]
    /\ UNCHANGED <<clientVars, thread, loopVars, lag>>

\* A failed submission latches `faulted` and ends the thread.
BackendFails ==
    /\ thread = "running"
    /\ thread' = "faulted"
    /\ UNCHANGED <<clientVars, packet, loopVars, lag>>

\* It panics, wedges on a fence, or refuses every snapshot from now on.
ThreadStops ==
    /\ thread = "running"
    /\ thread' = "stopped"
    /\ UNCHANGED <<clientVars, packet, loopVars, lag>>

-----------------------------------------------------------------------------
(* The control loop.                                                       *)

\* poll_and_apply_commands, on the loop's own thread, takes a command that
\* keeps it: SetOperatingMode (three attempts at a flash commit) or
\* SetCalibration (three commits).  Any other is done within the tick.
Block ==
    /\ busy = 0
    /\ posted
    /\ posted' = FALSE
    /\ busy' \in 1 .. MaxBlock
    /\ UNCHANGED <<client, draft, inputAge, threadVars, heldAge, blind, applied, output,
                   duty, missed, lag>>

\* Slip: the fallback to the last good snapshot passes for a new one.
SnapshotAgeRestamped == IF draft = NoDraft THEN inputAge ELSE 0

\* seqlock_read, or the fallback to the last good snapshot.
SnapshotAge == IF draft = NoDraft THEN inputAge ELSE heldAge

Fresh(age) == age <= Timeout

BlindTicks(seen) ==
    IF seen THEN 0 ELSE IF blind < MaxBlind THEN blind + 1 ELSE blind

\* Slip: nothing asks how old the packet is.
WantedWhateverAge(safe, read) ==
    IF read /\ safe /\ thread # "faulted" THEN Limited(packet.ff, -FfMax, FfMax) ELSE 0

\* Slip: the network's output is taken as it is.
WantedUnclamped(safe, read) ==
    IF read /\ safe /\ packet.age <= Staleness /\ thread # "faulted" THEN packet.ff ELSE 0

\* Cerebellum::feedforward: what the limiter walks to.  `read` is FALSE if
\* the read of the packet collided with the thread writing it.
Wanted(safe, read) ==
    IF read /\ safe /\ packet.age <= Staleness /\ thread # "faulted"
    THEN Limited(packet.ff, -FfMax, FfMax)
    ELSE 0

Slewed(want) == applied + Limited(want - applied, -FfSlew, FfSlew)

\* What tendon inhibition and the soft limits leave of a duty.
Reduced(total) == {d \in Duties : (0 <= d /\ d <= total) \/ (total <= d /\ d <= 0)}

Command(safe, ff) ==
    IF safe THEN UNION {Reduced(Limited(fb + ff, -Cap, Cap)) : fb \in Feedback} ELSE {0}

\* Slip: a lost position read raises no flag of its own.
RaisedWithoutPosition(fresh, seen, sent) ==
    (IF fresh THEN {} ELSE {"WATCHDOG_TIMEOUT"}) \union (IF sent THEN {} ELSE {"COMMS_ERROR"})

Raised(fresh, seen, sent) ==
    (IF fresh THEN {} ELSE {"WATCHDOG_TIMEOUT"})
        \union (IF seen /\ sent THEN {} ELSE {"COMMS_ERROR"})

\* Slip: a duty that has not changed is not written again.
GoalIfChanged(pwm, write) ==
    IF write = "caught" /\ pwm # output.pwm THEN pwm ELSE duty

\* Goal_PWM after the SYNC_WRITE, which no servo acknowledges.
Goal(pwm, write) == IF write = "caught" THEN pwm ELSE duty

\* What becomes of a SYNC_WRITE: the port refuses it, which the daemon sees,
\* or takes it, and then it reaches the servo or does not.
Writes == {"refused", "lost", "caught"}

\* One tick, after the slow command if one was in hand, and otherwise with the
\* poll that finds a quick one or none: `seen` if it adopted a position,
\* `read` if it got a packet.
Tick(seen, read, write) ==
    LET fresh == Fresh(SnapshotAge)
        safe  == fresh /\ BlindTicks(seen) < MaxBlind
    IN  /\ posted' = (posted /\ busy > 0)
        /\ busy' = 0
        /\ heldAge' = SnapshotAge
        /\ blind' = BlindTicks(seen)
        /\ applied' = Slewed(Wanted(safe, read))
        /\ \E pwm \in Command(safe, applied') :
              /\ output' = [stamped |-> TRUE, pwm |-> pwm, ff |-> applied',
                            flags |-> Raised(fresh, seen, write # "refused")]
              /\ duty' = Goal(pwm, write)
        /\ missed' = (write = "lost")
        /\ lag' = 0
        /\ UNCHANGED <<client, draft, inputAge, threadVars>>

AnyTick == \E seen, read \in BOOLEAN, write \in Writes : Tick(seen, read, write)
CaughtTick == \E seen, read \in BOOLEAN : Tick(seen, read, "caught")

-----------------------------------------------------------------------------

\* The loop is pinned, SCHED_FIFO and runs many ticks per unit of the clock,
\* so but for a command in hand the clock does not move twice without a tick.
Elapse ==
    /\ lag <= busy
    /\ lag' = lag + 1
    /\ draft' = IF draft = NoDraft THEN NoDraft ELSE Older(draft, Old)
    /\ inputAge' = Older(inputAge, Old)
    /\ heldAge' = Older(heldAge, Old)
    /\ packet' = [packet EXCEPT !.age = Older(@, Stale)]
    /\ UNCHANGED <<client, posted, thread, busy, blind, applied, output, duty, missed>>

Next ==
    \/ BeginInput \/ EndInput \/ Post \/ ClientDies
    \/ Predict \/ BackendFails \/ ThreadStops
    \/ Block
    \/ AnyTick
    \/ Elapse

\* The loop and the clock keep going, and every command ends.  A SYNC_WRITE
\* reaches the servo again and again, whichever are lost; nothing is assumed
\* of the client or of the cerebellum's thread.
Fairness == WF_vars(Elapse) /\ WF_vars(AnyTick) /\ SF_vars(CaughtTick)

Spec == Init /\ [][Next]_vars /\ Fairness

-----------------------------------------------------------------------------
(* Properties.                                                             *)

\* Age of the last timestamp the client took, published or not.
StampAge == IF draft = NoDraft THEN inputAge ELSE draft

\* A duty stands only while the client took a timestamp within the watchdog's
\* timeout and a tick, and for as long as a command then keeps the loop from
\* looking again: through writes that stall half way, are abandoned, or arrive
\* late, it is the age of what the client sent that counts, not of its arrival.
DrivesOnLiveInput == output.pwm # 0 => StampAge <= Timeout + 1 + busy

\* The bound a reader of the watchdog's option expects, commands or not.
WatchdogHolds == output.pwm # 0 => StampAge <= Timeout + 1

\* Telemetry without a watchdog or comms flag can be trusted: the reported
\* duty was sent, and the servo holds it unless the bus lost that very write;
\* it was computed from live input and a position seen in that tick, however
\* many writes the port refused or the bus lost before.
UnflaggedIsTrue ==
    output.stamped /\ output.flags = {}
        => (duty = output.pwm \/ missed) /\ blind = 0 /\ heldAge <= Timeout + 1 + busy

\* Once the client is gone the servo is driven to zero and stays there,
\* whatever write it died in, whatever command it left posted, whichever
\* SYNC_WRITEs are lost and whatever the cerebellum goes on publishing:
\* "the watchdog is the primary hardware safety net" (control.rs).
DeadClientStopsArm == client = "dead" ~> [](duty = 0)

\* Once the cerebellum's thread is gone, whether it said so or not, its last
\* feedforward fades out of the command for good.
DeadCerebellumFades == thread # "running" ~> [](applied = 0)

\* The published feedforward is its share of the published command, as the
\* telemetry's readers take it: a command of zero that the watchdog or the
\* blind limit forced holds no feedforward.
FeedforwardIsShare ==
    "WATCHDOG_TIMEOUT" \in output.flags => output.pwm = 0 /\ output.ff = 0

=============================================================================

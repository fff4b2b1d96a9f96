--------------------------- MODULE PositionSense ----------------------------
(***************************************************************************)
(* How the control loop comes to believe where the arm is.  Every tick it  *)
(* reads all joints in one batch, refuses the batch if a reading is        *)
(* outside its joint's travel (first_outside_travel), holds it back if a   *)
(* joint moved further than it can in a tick (PositionGate), and otherwise *)
(* adopts it; it counts the ticks since it last adopted one.               *)
(*                                                                         *)
(* The servos report in a frame that depends on their operating mode and   *)
(* calibration, and the client changes both while the loop runs, so the    *)
(* daemon tracks them.  Here every command that changes a servo register   *)
(* is confirmed; module CommandChannel has the commands that fail.         *)
(***************************************************************************)
EXTENDS ControlLaw

CONSTANTS
    Budget,         \* max_pos_slew: counts a joint can move in one tick
    MaxBlind,       \* max_blind_ticks
    Margin,         \* travel_margin
    Unconstrained,  \* UNCONSTRAINED_TRAVEL
    Reachable,      \* raw counts each joint can physically be at
    Calibrations,   \* the [min, max, offset] each servo may be given
    Commanded,      \* joints the client reconfigures
    FalseCounts,    \* what a misparsed slot may read
    BlindBound      \* bound: ticks without an adopted batch

ASSUME GateAssumption ==
    Budget \in Nat /\ MaxBlind \in Nat /\ MaxBlind <= BlindBound /\ BlindBound \in Nat
ASSUME ArmAssumption ==
    /\ Reachable \in [Motors -> SUBSET Encoder]
    /\ \A m \in Motors : Calibrations[m] \subseteq [min: Int, max: Int, offset: Int]
    /\ Margin \in Int /\ Unconstrained \in Int
    /\ FalseCounts \subseteq Int
    /\ Commanded \subseteq Motors
    /\ Unknown \notin [Motors -> Encoder]

VARIABLES
    \* The arm and its servos.
    angle,          \* raw count each joint is really at
    mode,           \* Operating_Mode register
    calibration,    \* homing offset and position limit registers
    \* The daemon.
    frames,         \* pos_frames: the frame it reads each joint in
    travel,         \* the envelope it holds each joint to
    prevPos,        \* prev_pos: the position it drives from
    seeded,         \* pos_seeded: it has adopted a batch
    pending,        \* PositionGate.pending
    blind,          \* blind_ticks
    \* History, read by no action.
    unseen,         \* ticks since one whose batch passed both checks
    offered,        \* the last batch that passed the travel check
    honest          \* honest batches in a row since anything else happened

servo == <<angle, mode, calibration>>
belief == <<frames, travel>>
gate == <<prevPos, seeded, pending, blind>>
history == <<unseen, offered, honest>>
vars == <<servo, belief, gate, history>>

Envelope(c) == TravelEnvelope(c.min, c.max, c.offset, Margin, Unconstrained)

\* A calibration is swept by hand over all of the joint's travel.
ASSUME SweptAssumption ==
    \A m \in Motors : \A c \in Calibrations[m] :
        Envelope(c) # Unknown =>
            \A r \in Reachable[m] :
                Contains(Envelope(c), (r - c.offset) % Resolution, "Corrected")

Modes == {0, 2}
Batches == [Motors -> Encoder]
Angles == {a \in Batches : \A m \in Motors : a[m] \in Reachable[m]}

TypeOK ==
    /\ angle \in Angles
    /\ mode \in [Motors -> Modes]
    /\ \A m \in Motors : calibration[m] \in Calibrations[m]
    /\ frames \in [Motors -> {"Corrected", "Raw"}]
    /\ \A m \in Motors : travel[m] \in {Envelope(c) : c \in Calibrations[m]}
    /\ prevPos \in Batches
    /\ seeded \in BOOLEAN
    /\ pending \in Batches \union {Unknown}
    /\ blind \in 0 .. BlindBound
    /\ unseen \in 0 .. BlindBound
    /\ offered \in Batches \union {Unknown}
    /\ honest \in 0 .. 2

\* read_position_frames and read_travel_envelopes at startup.
Init ==
    /\ angle \in Angles
    /\ mode \in [Motors -> Modes]
    /\ calibration \in
         {c \in [Motors -> UNION {Calibrations[m] : m \in Motors}] :
             \A m \in Motors : c[m] \in Calibrations[m]}
    /\ frames = [m \in Motors |-> FrameOfMode(mode[m])]
    /\ travel = [m \in Motors |-> Envelope(calibration[m])]
    /\ prevPos = [m \in Motors |-> 0]
    /\ seeded = FALSE
    /\ pending = Unknown
    /\ blind = 0
    /\ unseen = 0
    /\ offered = Unknown
    /\ honest = 0

-----------------------------------------------------------------------------
(* The servos.                                                             *)

\* Present_Position of every joint, as a bus read without a fault returns it.
Report(where) ==
    [m \in Motors |-> IF mode[m] = 2
                      THEN where[m]
                      ELSE (where[m] - calibration[m].offset) % Resolution]

\* Replies whose framing slipped: at least one slot holds something else.
Misparses(where) ==
    {b \in [Motors -> Encoder \union FalseCounts] :
        /\ b # Report(where)
        /\ \A m \in Motors : b[m] \in {Report(where)[m]} \union FalseCounts}

\* The joints move within the slew budget from one tick to the next.
Moved == {a \in Angles :
            \A m \in Motors : Abs(WrappedDelta(a[m], angle[m])) <= Budget}

-----------------------------------------------------------------------------
(* PositionGate::accept, and what the loop does with its answer.           *)

Plausible(values) == ~seeded \/ ~ImplausibleStep(values, prevPos, Budget)
Corroborates(values) ==
    pending # Unknown /\ ~ImplausibleStep(values, pending, Budget)

\* Slip: the batch held back survives the next one that is plausible.
AdoptKeepingPending(values) ==
    /\ Plausible(values) \/ Corroborates(values)
    /\ prevPos' = values
    /\ seeded' = TRUE
    /\ blind' = 0
    /\ UNCHANGED pending

Adopt(values) ==
    /\ Plausible(values) \/ Corroborates(values)
    /\ pending' = Unknown
    /\ prevPos' = values
    /\ seeded' = TRUE
    /\ blind' = 0

HoldBack(values) ==
    /\ ~Plausible(values)
    /\ ~Corroborates(values)
    /\ pending' = values
    /\ blind' = blind + 1
    /\ UNCHANGED <<prevPos, seeded>>

\* Slip: the travel check rejects without counting the tick as blind.
RefuseUncounted(values) ==
    /\ OutsideTravel(values, travel, frames)
    /\ UNCHANGED <<gate, offered>>

\* A batch outside the travel never reaches the gate.
Refuse(values) ==
    /\ OutsideTravel(values, travel, frames)
    /\ blind' = blind + 1
    /\ UNCHANGED <<prevPos, seeded, pending, offered>>

Offer(values) ==
    /\ ~OutsideTravel(values, travel, frames)
    /\ offered' = values
    /\ Adopt(values) \/ HoldBack(values)

-----------------------------------------------------------------------------
(* The position part of one tick, by what the bus answers.                 *)

\* The batch is one the loop will drive from.
Takes(values) ==
    /\ ~OutsideTravel(values, travel, frames)
    /\ Plausible(values) \/ Corroborates(values)

\* The tick's own count of how long ago that was, whatever its paths count.
Count(seen) ==
    /\ ~seen => unseen < BlindBound
    /\ unseen' = IF seen THEN 0 ELSE unseen + 1

HonestTick ==
    \E a \in Moved :
        /\ angle' = a
        /\ Refuse(Report(a)) \/ Offer(Report(a))
        /\ Count(Takes(Report(a)))
        /\ honest' = IF honest < 2 THEN honest + 1 ELSE 2
        /\ UNCHANGED <<mode, calibration, belief>>

MisparsedTick ==
    \E a \in Moved : \E values \in Misparses(a) :
        /\ angle' = a
        /\ Refuse(values) \/ Offer(values)
        /\ Count(Takes(values))
        /\ honest' = 0
        /\ UNCHANGED <<mode, calibration, belief>>

FailedTick ==
    \E a \in Moved :
        /\ angle' = a
        /\ blind' = blind + 1
        /\ Count(FALSE)
        /\ honest' = 0
        /\ UNCHANGED <<mode, calibration, belief, prevPos, seeded, pending, offered>>

(* Commands the tick applied with status 0, and the beliefs they update.   *)

\* Slip: the frame is read once at startup and never tracked.
SetOperatingModeUntracked(m, value) ==
    /\ mode' = [mode EXCEPT ![m] = value]
    /\ honest' = 0
    /\ UNCHANGED <<angle, calibration, belief, gate, unseen, offered>>

SetOperatingMode(m, value) ==
    /\ mode' = [mode EXCEPT ![m] = value]
    /\ frames' = [frames EXCEPT ![m] = FrameOfMode(value)]
    /\ honest' = 0
    /\ UNCHANGED <<angle, calibration, travel, gate, unseen, offered>>

SetCalibration(m, c) ==
    /\ calibration' = [calibration EXCEPT ![m] = c]
    /\ travel' = [travel EXCEPT ![m] = Envelope(c)]
    /\ honest' = 0
    /\ UNCHANGED <<angle, mode, frames, gate, unseen, offered>>

Next ==
    \/ HonestTick
    \/ MisparsedTick
    \/ FailedTick
    \/ \E m \in Commanded, value \in Modes : SetOperatingMode(m, value)
    \/ \E m \in Commanded : \E c \in Calibrations[m] : SetCalibration(m, c)

Spec == Init /\ [][Next]_vars

-----------------------------------------------------------------------------
(* Properties.                                                             *)

\* The loop drops torque once blind_ticks reaches MaxBlind; until then it
\* drives from a batch adopted less than MaxBlind ticks ago.  Each of the
\* three ways to lose a read (outside the travel, held back, failed) keeps
\* its own count of it, in whatever order they come.
DrivesFromRecentPosition == blind < MaxBlind => unseen < MaxBlind

\* A batch with a jump no joint can make in a tick is adopted only if the
\* batch read before it, of those that passed the travel check, agrees with
\* it: "a misparse has to be wrong the same way twice to get through".
CorroboratedJump ==
    [][prevPos' # prevPos /\ seeded /\ ImplausibleStep(prevPos', prevPos, Budget)
        => /\ offered # Unknown
           /\ ~ImplausibleStep(prevPos', offered, Budget)]_vars

\* Two honest batches in a row and the loop sees the arm again, whatever the
\* bus did before, however far the joints fell meanwhile, and whichever mode
\* and calibration the client has switched the servos to since.
SeesAgainAfterTwo == honest = 2 => blind = 0 /\ prevPos = Report(angle)

=============================================================================

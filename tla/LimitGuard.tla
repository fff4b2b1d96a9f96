----------------------------- MODULE LimitGuard -----------------------------
(***************************************************************************)
(* One joint, its encoder, and the duty the loop gives it tick by tick:    *)
(* the impedance law, the Golgi-tendon term and the soft limits, with the  *)
(* loop's memory of where the joint was last seen inside the limits.       *)
(*                                                                         *)
(* The joint is at an unrolled position x; the encoder sees x only up to   *)
(* whole turns.  The loop's beliefs about the servo are right here; module *)
(* CommandChannel has how they come to be wrong.                           *)
(***************************************************************************)
EXTENDS ControlLaw

CONSTANTS
    K, D,               \* gains
    PwmMax,             \* --pwm-max
    Threshold, Gain,    \* --tendon-inhibition-current and -gain
    PosMin, PosMax,     \* --pos-min and --pos-max
    Targets,            \* targets the client sends
    Currents,           \* averaged currents
    Offsets,            \* homing offsets the client writes
    Stops,              \* unrolled positions between the joint's end stops
    Step,               \* how far it moves in a tick
    MaxUnseen           \* bound: ticks on end without a position

ASSUME LawAssumption ==
    /\ K \in Nat /\ D \in Nat /\ PwmMax \in Nat /\ Threshold \in Nat /\ Gain \in Nat
    /\ Targets \subseteq Encoder /\ Currents \subseteq Int /\ Offsets \subseteq Int
ASSUME TravelAssumption ==
    /\ Stops \subseteq Int /\ Step \in Nat /\ MaxUnseen \in Nat
    /\ PosMin \in Encoder /\ PosMax \in Encoder /\ PosMin < PosMax

VARIABLES
    x,                  \* where the joint is
    mode, offset,       \* its servo's registers
    prevPos,            \* prev_pos
    unseen,             \* ticks since prev_pos was read
    inRange,            \* last_in_range
    pwm,                \* pwm_cmd
    \* History, read by no action.
    readAt,             \* where the joint was when prev_pos was read
    crossed,            \* prev_pos is no reading, or mode or offset changed after it
    origin,             \* where the joint was in the reading behind last_in_range
    stale               \* the same of that reading

loop == <<prevPos, unseen, inRange, pwm>>
history == <<readAt, crossed, origin, stale>>
guardVars == <<x, mode, offset, loop, history>>

Modes == {0, 2}
Report(where) == IF mode = 2 THEN where % Resolution ELSE (where - offset) % Resolution
LimitPosition(reading) == SoftLimitPosition(reading, offset, FrameOfMode(mode))
Within(pos) == PosMin < pos /\ pos < PosMax

GuardTypeOK ==
    /\ x \in Stops
    /\ mode \in Modes
    /\ offset \in Offsets
    /\ prevPos \in Encoder
    /\ unseen \in 0 .. MaxUnseen
    /\ inRange \in Encoder \union {Unknown}
    /\ pwm \in -PwmMax .. PwmMax
    /\ readAt \in Stops /\ origin \in Stops
    /\ crossed \in BOOLEAN /\ stale \in BOOLEAN

\* The loop starts from a position of 0 that nobody has read.
GuardInit ==
    /\ x \in Stops
    /\ mode \in Modes
    /\ offset \in Offsets
    /\ prevPos = 0
    /\ unseen = 0
    /\ inRange = Unknown
    /\ pwm = 0
    /\ readAt = x /\ origin = x
    /\ crossed = TRUE /\ stale = FALSE

-----------------------------------------------------------------------------

\* Gravity, a hand or the motor move the joint.
Moves == x' \in {y \in Stops : Abs(y - x) <= Step}

\* Position, velocity, limits and duty of a tick, from the position it has
\* just read or from the one it holds.
Drive(reading) ==
    LET pos == LimitPosition(reading)
    IN  /\ prevPos' = reading
        /\ IF Within(pos)
           THEN inRange' = pos /\ origin' = readAt' /\ stale' = crossed'
           ELSE UNCHANGED <<inRange, origin, stale>>
        /\ \E target \in Targets, current \in Currents :
              LET law    == ImpedancePwm(K, D, target, reading, 0,
                                         WrappedDelta(reading, prevPos), PwmMax)
                  folded == TendonInhibition(law, current, Threshold, Gain)
              IN  pwm' = SoftLimits(folded, pos, PosMin, PosMax, inRange')
        /\ UNCHANGED <<mode, offset>>

SeenTick ==
    /\ Moves
    /\ unseen' = 0
    /\ readAt' = x'
    /\ crossed' = FALSE
    /\ Drive(Report(x'))

\* The read failed or was refused: the position held is taken as it stands,
\* also if the frame it was read in is no longer the servo's.
UnseenTick ==
    /\ Moves
    /\ unseen < MaxUnseen
    /\ unseen' = unseen + 1
    /\ UNCHANGED <<readAt, crossed>>
    /\ Drive(prevPos)

\* Commands with status 0.
SetOperatingMode ==
    /\ mode' \in Modes \ {mode}
    /\ crossed' = TRUE
    /\ UNCHANGED <<x, offset, loop, readAt, origin, stale>>

SetCalibration ==
    /\ offset' \in Offsets \ {offset}
    /\ crossed' = TRUE
    /\ stale' = TRUE
    /\ UNCHANGED <<x, mode, loop, readAt, origin>>

GuardNext == SeenTick \/ UnseenTick \/ SetOperatingMode \/ SetCalibration

GuardSpec == GuardInit /\ [][GuardNext]_guardVars

-----------------------------------------------------------------------------
(* Properties.                                                             *)

\* What the loop remembers as in range is where the joint was, in the frame
\* the limits are given in, whichever mode it was read in and however long
\* ago, unless mode or calibration changed under the reading.
RemembersWhereItWas ==
    inRange # Unknown /\ ~stale =>
        /\ inRange = (origin - offset) % Resolution
        /\ Within(inRange)

PastLimits == ~Within(LimitPosition(prevPos))

DrivesBack ==
    unseen = 0 /\ ~crossed /\ PastLimits /\ inRange # Unknown
        => (pwm > 0 => origin > x) /\ (pwm < 0 => origin < x)

\* A joint seen past its limits is driven only toward the place it left them
\* from, on the side it left them on, also when the short way round runs
\* through the encoder's seam and the spring pulls the other way.
DrivenBackTheWayItLeft == ~stale => DrivesBack

\* The comment on last_in_range: it "tells `apply_soft_limits` which way
\* "back" is", with no word of the calibration it was recorded under.
AlwaysDrivenBack == DrivesBack

=============================================================================

----------------------------- MODULE ControlLaw -----------------------------
(***************************************************************************)
(* The daemon's pure functions (control.rs): arithmetic on the encoder's   *)
(* circle, the impedance law, and what limits a command or refuses a       *)
(* reading.  Positions are encoder counts on a circle of Resolution        *)
(* counts (4096 on the servo); the code holds the same whole numbers in    *)
(* f32, which represents them exactly.                                     *)
(***************************************************************************)
EXTENDS Integers

CONSTANTS
    Resolution,     \* counts per turn of the encoder
    Motors,         \* the joints of the arm
    Unknown         \* Option::None

ASSUME ResolutionAssumption ==
    Resolution \in Nat /\ Resolution > 0 /\ Resolution % 2 = 0
ASSUME UnknownAssumption == Unknown \notin Int

Half == Resolution \div 2
Encoder == 0 .. Resolution - 1

Abs(x) == IF x < 0 THEN -x ELSE x
Clamp(x, lo, hi) == IF x < lo THEN lo ELSE IF x > hi THEN hi ELSE x

\* The wrap of a non-negative difference into (-Half, Half].
FoldUp(d) == IF d % Resolution > Half THEN (d % Resolution) - Resolution
                                      ELSE d % Resolution

\* Both while loops of wrapped_delta: a difference is folded from its own
\* side, so exactly half a turn keeps its sign.
WrappedDelta(a, b) == IF a >= b THEN FoldUp(a - b) ELSE -FoldUp(b - a)

-----------------------------------------------------------------------------
(* Commands.                                                               *)

\* Slip: no limit on the duty.
ImpedancePwmUnclamped(k, d, targetPos, presentPos, targetVel, presentVel, pwmMax) ==
    k * WrappedDelta(targetPos, presentPos) + d * (targetVel - presentVel)

ImpedancePwm(k, d, targetPos, presentPos, targetVel, presentVel, pwmMax) ==
    Clamp(k * WrappedDelta(targetPos, presentPos) + d * (targetVel - presentVel),
          -pwmMax, pwmMax)

\* The Golgi-tendon term.  A threshold or gain of 0 disables it.
TendonInhibition(pwm, current, threshold, gain) ==
    LET excess    == Abs(current) - threshold
        magnitude == Clamp(Abs(pwm) - gain * excess, 0, Abs(pwm))
    IN  IF threshold <= 0 \/ gain <= 0 \/ excess <= 0
        THEN pwm
        ELSE IF pwm < 0 THEN -magnitude ELSE magnitude

\* Slip: the side of the seam decides, not the way the joint came.
SoftLimitsBySide(pwm, pos, posMin, posMax, lastInRange) ==
    IF (pos <= posMin /\ pwm < 0) \/ (pos >= posMax /\ pwm > 0) THEN 0 ELSE pwm

\* `lastInRange` is where the joint was last seen inside the limits.
SoftLimits(pwm, pos, posMin, posMax, lastInRange) ==
    LET pastMin == pos <= posMin
        pastMax == pos >= posMax
        escape  == WrappedDelta(lastInRange, pos)
        outward == (pastMin /\ pwm < 0) \/ (pastMax /\ pwm > 0)
        toward  == (pwm > 0 /\ escape > 0) \/ (pwm < 0 /\ escape < 0)
    IN  IF ~pastMin /\ ~pastMax
        THEN pwm
        ELSE IF lastInRange = Unknown
        THEN IF outward THEN 0 ELSE pwm
        ELSE IF escape = 0 \/ toward THEN pwm ELSE 0

-----------------------------------------------------------------------------
(* The frame a position is reported in, and the travel of a joint.         *)

\* Operating_Mode 0 reports the count with Homing_Offset taken off, mode 2
\* the raw count; no other mode has been measured.
\* Slip: no frame for the mode the loop runs in.
FrameOfModeWithoutPwm(mode) == IF mode = 0 THEN "Corrected" ELSE Unknown

FrameOfMode(mode) ==
    CASE mode = 0 -> "Corrected"
      [] mode = 2 -> "Raw"
      [] OTHER -> Unknown

\* Slip: the limits judge the position in whatever frame it is read.
SoftLimitPositionAsRead(pos, offset, frame) == pos

SoftLimitPosition(pos, offset, frame) ==
    IF frame = "Raw" /\ offset # Unknown THEN (pos - offset) % Resolution ELSE pos

\* Travel that with its margin covers Unconstrained counts is no envelope.
TravelEnvelope(rangeMin, rangeMax, offset, margin, unconstrained) ==
    IF rangeMax <= rangeMin \/ rangeMax - rangeMin + 2 * margin >= unconstrained
    THEN Unknown
    ELSE [min |-> rangeMin - margin, max |-> rangeMax + margin, offset |-> offset]

\* The low end of the envelope, as the servo would report it in `frame`.
BandLow(env, frame) ==
    (env.min + (IF frame = "Raw" THEN env.offset ELSE 0)) % Resolution

Contains(env, value, frame) ==
    (value - BandLow(env, frame)) % Resolution <= env.max - env.min

\* first_outside_travel: some reading of the batch is off the encoder, or
\* outside the travel of a joint whose envelope and frame are known.
OutsideTravel(values, envelopes, frames) ==
    \/ \E m \in Motors : values[m] \notin Encoder
    \/ \E m \in Motors :
         /\ envelopes[m] # Unknown
         /\ frames[m] # Unknown
         /\ ~Contains(envelopes[m], values[m], frames[m])

\* first_implausible_step: some joint of the batch moved over the budget.
ImplausibleStep(values, prev, budget) ==
    \E m \in Motors : Abs(WrappedDelta(values[m], prev[m])) > budget

=============================================================================

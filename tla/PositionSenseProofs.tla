------------------------- MODULE PositionSenseProofs ------------------------
(***************************************************************************)
(* Proofs about module PositionSense, for any joints, encoder, travel,     *)
(* calibrations and budgets: its type invariant, that a tick which sees    *)
(* nothing is always counted as blind, that a jump is adopted only on the  *)
(* word of two batches, and that two honest batches in a row always        *)
(* restore the sight of the arm.                                           *)
(*                                                                         *)
(* The last one needs the daemon's beliefs to track the servos, for a      *)
(* batch that is honest to pass the travel check, and the step between two *)
(* batches to be the same in every frame, for it to pass the gate.         *)
(***************************************************************************)
EXTENDS PositionSense, TLAPS

-----------------------------------------------------------------------------
(* The encoder's circle, for any even number of counts.                    *)

\* A remainder is the one count of the encoder that differs from the dividend
\* by whole turns.
LEMMA Remainder ==
    ASSUME NEW x \in Int
    PROVE  /\ x % Resolution \in 0 .. Resolution - 1
           /\ \E q \in Int : x = q * Resolution + (x % Resolution)
<1>1. Resolution \in Nat /\ Resolution > 0
  BY ResolutionAssumption
<1>2. x % Resolution \in 0 .. Resolution - 1
  BY <1>1
<1>3. \E q \in Int : x = q * Resolution + (x % Resolution)
  BY <1>1
<1> QED BY <1>2, <1>3

\* And the only one.
LEMMA RemainderIsUnique ==
    ASSUME NEW q \in Int, NEW r \in Encoder
    PROVE  (q * Resolution + r) % Resolution = r
BY ResolutionAssumption DEF Encoder

\* Counts that differ by whole turns have one remainder.
LEMMA SameRemainder ==
    ASSUME NEW x \in Int, NEW y \in Int, NEW q \in Int, x = y + q * Resolution
    PROVE  x % Resolution = y % Resolution
<1> DEFINE r == y % Resolution
<1>1. r \in Encoder
  BY Remainder DEF Encoder
<1>2. PICK p \in Int : y = p * Resolution + r
  BY Remainder, Zenon
<1>3. p + q \in Int /\ x = (p + q) * Resolution + r
  <2> HIDE DEF r
  <2>1. Resolution \in Int /\ r \in Int
    BY <1>1, ResolutionAssumption DEF Encoder
  <2> QED BY <1>2, <2>1
<1>4. ((p + q) * Resolution + r) % Resolution = r
  BY <1>1, <1>3, RemainderIsUnique
<1> QED BY <1>3, <1>4

\* How far apart two counts are on the circle, from their difference.
Apart(k) == IF k > Half THEN Resolution - k ELSE k

\* wrapped_delta measures the distance on the circle, however many turns lie
\* between its arguments: both loops and the sign included.
LEMMA WrappedDeltaIsDistance ==
    ASSUME NEW x \in Int, NEW y \in Int
    PROVE  Abs(WrappedDelta(x, y)) = Apart((x - y) % Resolution)
<1>1. Half \in Nat /\ Resolution = 2 * Half /\ Resolution \in Nat
  BY ResolutionAssumption DEF Half
<1> DEFINE k == (x - y) % Resolution
           l == (y - x) % Resolution
<1>2. k \in 0 .. Resolution - 1 /\ l \in 0 .. Resolution - 1
  BY Remainder
<1>3. CASE x >= y
  <2>1. WrappedDelta(x, y) = IF k > Half THEN k - Resolution ELSE k
    BY <1>3 DEF WrappedDelta, FoldUp
  <2>2. Abs(WrappedDelta(x, y)) = Apart(k)
    <3> HIDE DEF k
    <3> QED BY <1>1, <1>2, <2>1 DEF Abs, Apart
  <2> QED BY <2>2
<1>4. CASE ~(x >= y)
  <2>1. WrappedDelta(x, y) = -(IF l > Half THEN l - Resolution ELSE l)
    BY <1>4 DEF WrappedDelta, FoldUp
  <2>2. l = IF k = 0 THEN 0 ELSE Resolution - k
    <3>1. PICK q \in Int : x - y = q * Resolution + k
      <4>1. x - y \in Int
        OBVIOUS
      <4> QED BY <4>1, Remainder, Zenon
    <3>2. CASE k = 0
      <4>1. -q \in Int /\ 0 \in Encoder /\ y - x = (-q) * Resolution + 0
        BY <1>1, <3>1, <3>2, ResolutionAssumption DEF Encoder
      <4> QED BY <3>2, <4>1, RemainderIsUnique
    <3>3. CASE k # 0
      <4>1. Resolution - k \in Encoder
        BY <1>1, <1>2, <3>3 DEF Encoder
      <4>2. -q - 1 \in Int /\ y - x = (-q - 1) * Resolution + (Resolution - k)
        <5> HIDE DEF k
        <5> QED BY <1>1, <1>2, <3>1
      <4>3. ((-q - 1) * Resolution + (Resolution - k)) % Resolution = Resolution - k
        BY <4>1, <4>2, RemainderIsUnique
      <4> QED BY <3>3, <4>2, <4>3
    <3> QED BY <3>2, <3>3
  <2>3. Abs(WrappedDelta(x, y)) = Apart(k)
    <3> HIDE DEF k, l
    <3> QED BY <1>1, <1>2, <2>1, <2>2 DEF Abs, Apart
  <2> QED BY <2>3
<1> QED BY <1>3, <1>4

\* The distance is a whole number of counts.
LEMMA WrappedDeltaIsInt ==
    ASSUME NEW x \in Int, NEW y \in Int
    PROVE  Abs(WrappedDelta(x, y)) \in Int
<1> DEFINE k == (x - y) % Resolution
<1>1. x - y \in Int
  OBVIOUS
<1>2. k \in Int
  BY <1>1, Remainder
<1>3. Apart(k) \in Int
  <2> HIDE DEF k
  <2> QED BY <1>2, ResolutionAssumption DEF Apart, Half
<1> QED BY <1>3, WrappedDeltaIsDistance

\* Taking the homing offset off both counts turns the circle and keeps their
\* distance: a budget on the step means the same in either frame.
LEMMA WrappedDeltaTurned ==
    ASSUME NEW x \in Int, NEW y \in Int, NEW o \in Int
    PROVE  Abs(WrappedDelta((x - o) % Resolution, (y - o) % Resolution))
             = Abs(WrappedDelta(x, y))
<1> DEFINE a == (x - o) % Resolution
           b == (y - o) % Resolution
<1>1. a \in Int /\ b \in Int /\ Resolution \in Int
  BY Remainder, ResolutionAssumption
<1>2. PICK p \in Int : x - o = p * Resolution + a
  <2>1. x - o \in Int
    OBVIOUS
  <2> QED BY <2>1, Remainder, Zenon
<1>3. PICK q \in Int : y - o = q * Resolution + b
  <2>1. y - o \in Int
    OBVIOUS
  <2> QED BY <2>1, Remainder, Zenon
<1>4. (x - y) % Resolution = (a - b) % Resolution
  <2> HIDE DEF a, b
  <2>1. /\ x - y \in Int /\ a - b \in Int /\ p - q \in Int
        /\ x - y = (a - b) + (p - q) * Resolution
    BY <1>1, <1>2, <1>3
  <2> QED BY <2>1, SameRemainder, Zenon
<1>5. Abs(WrappedDelta(a, b)) = Apart((a - b) % Resolution)
  BY <1>1, WrappedDeltaIsDistance
<1>6. Abs(WrappedDelta(x, y)) = Apart((x - y) % Resolution)
  BY WrappedDeltaIsDistance
<1> QED BY <1>4, <1>5, <1>6

-----------------------------------------------------------------------------
(* The invariant.                                                          *)

\* However a tick lost its position, the path it lost it on has counted it.
BlindIsUnseen == blind = unseen

\* The batch held back is the last one that passed the travel check: nothing
\* adopted or held back came in between.
HeldBackIsOffered == pending # Unknown => pending = offered

\* The daemon reads every joint in the frame it reports in, and holds it to
\* the travel it was calibrated to.
BeliefTracksServos ==
    /\ calibration \in [Motors -> UNION {Calibrations[m] : m \in Motors}]
    /\ frames = [m \in Motors |-> FrameOfMode(mode[m])]
    /\ travel = [m \in Motors |-> Envelope(calibration[m])]

\* After one honest batch the loop sees the arm or holds the batch back.
HonestIsSeenOrHeld ==
    honest > 0 => \/ blind = 0 /\ prevPos = Report(angle)
                  \/ pending = Report(angle)

IInv ==
    /\ TypeOK
    /\ BeliefTracksServos
    /\ BlindIsUnseen
    /\ HeldBackIsOffered
    /\ HonestIsSeenOrHeld
    /\ SeesAgainAfterTwo

-----------------------------------------------------------------------------
(* Batches.                                                                *)

\* A count on the encoder's circle, whatever it was folded from.
LEMMA FoldedIsOnEncoder ==
    ASSUME NEW x \in Int PROVE x % Resolution \in Encoder
BY ResolutionAssumption DEF Encoder

\* What the servos report of a place the arm can be at is a batch of counts.
LEMMA ReportIsBatch ==
    ASSUME TypeOK, NEW where \in Angles
    PROVE  Report(where) \in Batches
<1> SUFFICES ASSUME NEW m \in Motors
             PROVE  (IF mode[m] = 2 THEN where[m]
                     ELSE (where[m] - calibration[m].offset) % Resolution) \in Encoder
  BY DEF Report, Batches
<1>1. where[m] \in Encoder /\ where[m] \in Int
  BY DEF Angles, Batches, Encoder
<1>2. calibration[m].offset \in Int
  BY ArmAssumption DEF TypeOK
<1>3. (where[m] - calibration[m].offset) % Resolution \in Encoder
  BY <1>1, <1>2, FoldedIsOnEncoder
<1> QED BY <1>1, <1>3

\* A batch inside the travel is one of counts on the encoder.
LEMMA OfferedIsBatch ==
    ASSUME NEW values, values = [m \in Motors |-> values[m]],
           ~OutsideTravel(values, travel, frames)
    PROVE  values \in Batches
BY DEF OutsideTravel, Batches

-----------------------------------------------------------------------------
(* The gate keeps its part of the invariant, whatever batch it is given.   *)

GateInv ==
    /\ prevPos \in Batches
    /\ seeded \in BOOLEAN
    /\ pending \in Batches \union {Unknown}
    /\ blind \in 0 .. BlindBound
    /\ unseen \in 0 .. BlindBound
    /\ offered \in Batches \union {Unknown}
    /\ BlindIsUnseen
    /\ HeldBackIsOffered

\* A path that counts its tick as blind agrees with the tick's own count, if
\* the tick saw nothing.
LEMMA BlindTickIsCounted ==
    ASSUME GateInv, blind' = blind + 1, Count(FALSE)
    PROVE  /\ blind' \in 0 .. BlindBound /\ unseen' \in 0 .. BlindBound
           /\ BlindIsUnseen'
BY GateAssumption DEF GateInv, Count, BlindIsUnseen

\* A refused batch is one the tick did not see, and leaves the gate's own
\* state alone, but for the count.
LEMMA RefuseKeepsGate ==
    ASSUME GateInv, NEW values, Refuse(values), Count(Takes(values))
    PROVE  GateInv'
<1>1. /\ blind' = blind + 1 /\ Count(FALSE)
      /\ UNCHANGED <<prevPos, seeded, pending, offered>>
  BY DEF Refuse, Takes, Count
<1>2. HeldBackIsOffered'
  BY <1>1 DEF GateInv, HeldBackIsOffered
<1>3. pending' \in Batches \union {Unknown} /\ offered' \in Batches \union {Unknown}
  BY <1>1 DEF GateInv, Batches
<1>4. prevPos' \in Batches /\ seeded' \in BOOLEAN
  BY <1>1, Zenon DEF GateInv, Batches
<1> QED BY <1>1, <1>2, <1>3, <1>4, BlindTickIsCounted, Zenon DEF GateInv, Batches

\* Adopted or held back, what is remembered is a batch inside the travel, and
\* the batch is adopted exactly if the tick counts it as seen.
LEMMA OfferKeepsGate ==
    ASSUME GateInv, NEW values, values = [m \in Motors |-> values[m]], Offer(values),
           Count(Takes(values))
    PROVE  GateInv'
<1>1. values \in Batches /\ offered' = values
  BY OfferedIsBatch DEF Offer
<1>2. CASE Adopt(values)
  <2>1. /\ prevPos' = values /\ pending' = Unknown
        /\ seeded' = TRUE
        /\ blind' = 0
    BY <1>2 DEF Adopt
  <2>2. unseen' = 0
    BY <1>2 DEF Offer, Adopt, Takes, Count
  <2>3. blind' \in 0 .. BlindBound /\ unseen' \in 0 .. BlindBound /\ BlindIsUnseen'
    BY <2>1, <2>2, GateAssumption DEF BlindIsUnseen
  <2>4. HeldBackIsOffered'
    BY <2>1 DEF HeldBackIsOffered
  <2>5. seeded' \in BOOLEAN
    BY <2>1, Zenon
  <2> QED BY <1>1, <2>1, <2>3, <2>4, <2>5, Zenon DEF GateInv, Batches
<1>3. CASE HoldBack(values)
  <2>1. /\ blind' = blind + 1 /\ Count(FALSE) /\ pending' = values
        /\ UNCHANGED <<prevPos, seeded>>
    BY <1>3 DEF HoldBack, Takes, Count
  <2>2. HeldBackIsOffered'
    BY <1>1, <2>1 DEF HeldBackIsOffered
  <2>3. prevPos' \in Batches /\ seeded' \in BOOLEAN
    BY <2>1, Zenon DEF GateInv, Batches
  <2> QED BY <1>1, <2>1, <2>2, <2>3, BlindTickIsCounted, Zenon DEF GateInv, Batches
<1> QED BY <1>2, <1>3 DEF Offer

-----------------------------------------------------------------------------
(* An honest batch passes the travel check, and the next one the gate.     *)

\* The band of raw counts is the corrected one turned by the homing offset,
\* across the seam or not.
LEMMA RawBandIsCorrectedBand ==
    ASSUME NEW env \in [min : Int, max : Int, offset : Int], NEW r \in Int
    PROVE  Contains(env, r, "Raw")
             <=> Contains(env, (r - env.offset) % Resolution, "Corrected")
<1> DEFINE low  == (env.min + env.offset) % Resolution
           base == (env.min + 0) % Resolution
           turn == (r - env.offset) % Resolution
<1>1. env.min \in Int /\ env.max \in Int /\ env.offset \in Int
  OBVIOUS
<1>2. /\ r - env.offset \in Int /\ env.min + env.offset \in Int /\ env.min + 0 \in Int
      /\ low \in Int /\ base \in Int /\ turn \in Int /\ Resolution \in Int
  BY <1>1, ResolutionAssumption
<1>3. PICK i \in Int : env.min + env.offset = i * Resolution + low
  BY <1>2, Remainder, Zenon
<1>4. PICK j \in Int : env.min + 0 = j * Resolution + base
  BY <1>2, Remainder, Zenon
<1>5. PICK k \in Int : r - env.offset = k * Resolution + turn
  BY <1>2, Remainder, Zenon
<1>6. (r - low) % Resolution = (turn - base) % Resolution
  <2> HIDE DEF low, base, turn
  <2>1. r - low \in Int /\ turn - base \in Int /\ i + k - j \in Int
    BY <1>2
  <2>2. r - low = (turn - base) + (i + k - j) * Resolution
    BY <1>1, <1>2, <1>3, <1>4, <1>5
  <2> QED BY <2>1, <2>2, SameRemainder, Zenon
<1> HIDE DEF turn
<1>7. BandLow(env, "Raw") = low /\ BandLow(env, "Corrected") = base
  BY DEF BandLow
<1> QED BY <1>6, <1>7 DEF Contains, turn

\* An honest batch passes first_outside_travel, in either frame.
LEMMA ReportIsInsideTravel ==
    ASSUME TypeOK, BeliefTracksServos, NEW where \in Angles
    PROVE  ~OutsideTravel(Report(where), travel, frames)
<1>1. Report(where) \in Batches
  BY ReportIsBatch
<1>2. SUFFICES ASSUME NEW m \in Motors, travel[m] # Unknown
               PROVE  Contains(travel[m], Report(where)[m], frames[m])
  BY <1>1 DEF OutsideTravel, Batches
<1> DEFINE c   == calibration[m]
           env == Envelope(c)
<1>3. c \in Calibrations[m] /\ c \in [min : Int, max : Int, offset : Int]
  BY ArmAssumption DEF TypeOK
<1>4. travel[m] = env /\ frames[m] = FrameOfMode(mode[m])
  BY DEF BeliefTracksServos
<1>5. where[m] \in Reachable[m] /\ where[m] \in Int
  BY DEF Angles, Batches, Encoder
<1>6. Contains(env, (where[m] - c.offset) % Resolution, "Corrected")
  BY <1>2, <1>3, <1>4, <1>5, SweptAssumption, Zenon
<1>7. env \in [min : Int, max : Int, offset : Int] /\ env.offset = c.offset
  BY <1>2, <1>3, <1>4, ArmAssumption DEF Envelope, TravelEnvelope
<1>8. mode[m] \in {0, 2}
  BY DEF TypeOK, Modes
<1>9. CASE mode[m] = 2
  <2>1. Report(where)[m] = where[m] /\ frames[m] = "Raw"
    BY <1>4, <1>9 DEF Report, FrameOfMode
  <2>2. Contains(env, where[m], "Raw")
    BY <1>5, <1>6, <1>7, RawBandIsCorrectedBand, Zenon
  <2> QED BY <1>4, <2>1, <2>2, Zenon
<1>10. CASE mode[m] = 0
  <2>1. Report(where)[m] = (where[m] - c.offset) % Resolution /\ frames[m] = "Corrected"
    BY <1>4, <1>10 DEF Report, FrameOfMode
  <2> QED BY <1>4, <1>6, <2>1, Zenon
<1> QED BY <1>8, <1>9, <1>10

\* A joint that moved within the budget is reported to, in whichever frame.
LEMMA ReportedStepIsPlausible ==
    ASSUME TypeOK, NEW a \in Moved
    PROVE  ~ImplausibleStep(Report(a), Report(angle), Budget)
<1> SUFFICES ASSUME NEW m \in Motors
             PROVE  ~(Abs(WrappedDelta(Report(a)[m], Report(angle)[m])) > Budget)
  BY DEF ImplausibleStep
<1>1. a \in Angles /\ angle \in Angles
  BY DEF Moved, TypeOK
<1>2. a[m] \in Int /\ angle[m] \in Int
  BY <1>1 DEF Angles, Batches, Encoder
<1>3. calibration[m].offset \in Int
  BY ArmAssumption DEF TypeOK
<1>4. Abs(WrappedDelta(a[m], angle[m])) <= Budget
  BY DEF Moved
<1>5. Abs(WrappedDelta(a[m], angle[m])) \in Int
  BY <1>2, WrappedDeltaIsInt, Zenon
<1>6. Abs(WrappedDelta(Report(a)[m], Report(angle)[m])) = Abs(WrappedDelta(a[m], angle[m]))
  <2>1. CASE mode[m] = 2
    BY <2>1 DEF Report
  <2>2. CASE mode[m] # 2
    <3>1. /\ Report(a)[m] = (a[m] - calibration[m].offset) % Resolution
          /\ Report(angle)[m] = (angle[m] - calibration[m].offset) % Resolution
      BY <2>2 DEF Report
    <3>2. \A o \in Int :
             Abs(WrappedDelta((a[m] - o) % Resolution, (angle[m] - o) % Resolution))
               = Abs(WrappedDelta(a[m], angle[m]))
      BY <1>2, WrappedDeltaTurned, Zenon
    <3>3. Abs(WrappedDelta((a[m] - calibration[m].offset) % Resolution,
                           (angle[m] - calibration[m].offset) % Resolution))
            = Abs(WrappedDelta(a[m], angle[m]))
      BY <1>3, <3>2, Zenon
    <3> QED BY <3>1, <3>3, Zenon
  <2> QED BY <2>1, <2>2
<1> QED BY <1>4, <1>5, <1>6, GateAssumption

-----------------------------------------------------------------------------
(* Every action keeps the invariant.                                       *)

\* The invariant holds of the gate's part of the state.
LEMMA InvHasGate == ASSUME IInv PROVE GateInv
BY DEF IInv, TypeOK, GateInv

\* What every tick leaves of the invariant once its batch has been refused,
\* adopted or held back.
LEMMA TickInv ==
    ASSUME IInv, NEW a \in Moved, angle' = a, GateInv', honest' \in 0 .. 2,
           UNCHANGED <<mode, calibration, belief>>
    PROVE  TypeOK' /\ BeliefTracksServos' /\ BlindIsUnseen' /\ HeldBackIsOffered'
<1>1. a \in Angles
  BY DEF Moved
<1>2. /\ frames' \in [Motors -> {"Corrected", "Raw"}]
      /\ \A m \in Motors : travel'[m] \in {Envelope(c) : c \in Calibrations[m]}
      /\ mode' \in [Motors -> Modes]
      /\ \A m \in Motors : calibration'[m] \in Calibrations[m]
  BY DEF IInv, TypeOK, belief
<1>3. angle' \in Angles
  BY <1>1
<1>4. TypeOK'
  BY <1>2, <1>3, Zenon DEF TypeOK, GateInv, Angles, Batches
<1>5. BeliefTracksServos'
  BY DEF IInv, BeliefTracksServos, belief
<1> QED BY <1>4, <1>5, Zenon DEF GateInv

\* Only honest ticks count towards the two.
LEMMA DishonestIsSeenOrHeld ==
    ASSUME honest' = 0
    PROVE  HonestIsSeenOrHeld' /\ SeesAgainAfterTwo'
BY DEF HonestIsSeenOrHeld, SeesAgainAfterTwo

\* An honest batch is adopted, or held back with none held before it.
LEMMA HonestTickInv == ASSUME IInv, HonestTick PROVE IInv'
<1>1. PICK a \in Moved :
         /\ angle' = a
         /\ Refuse(Report(a)) \/ Offer(Report(a))
         /\ Count(Takes(Report(a)))
         /\ honest' = IF honest < 2 THEN honest + 1 ELSE 2
         /\ UNCHANGED <<mode, calibration, belief>>
  BY DEF HonestTick
<1>2. Report(a) = [m \in Motors |-> Report(a)[m]]
  BY DEF Report
<1>3. GateInv'
  BY <1>1, <1>2, InvHasGate, RefuseKeepsGate, OfferKeepsGate
<1>4. honest' \in 0 .. 2 /\ (honest' = 2 => honest > 0)
  BY <1>1 DEF IInv, TypeOK
<1>5. Report(angle)' = Report(a)
  BY <1>1 DEF Report
\* The travel check lets it through ...
<1>6. Offer(Report(a))
  <2>1. a \in Angles
    BY DEF Moved
  <2>2. ~OutsideTravel(Report(a), travel, frames)
    BY <2>1, ReportIsInsideTravel DEF IInv
  <2> QED BY <1>1, <2>2 DEF Refuse
\* ... and the gate, if the batch before it was honest too.
<1>7. ~ImplausibleStep(Report(a), Report(angle), Budget)
  BY ReportedStepIsPlausible DEF IInv
<1>8. CASE Adopt(Report(a))
  <2>1. blind' = 0 /\ prevPos' = Report(a)
    BY <1>8 DEF Adopt
  <2>2. HonestIsSeenOrHeld' /\ SeesAgainAfterTwo'
    BY <1>5, <2>1 DEF HonestIsSeenOrHeld, SeesAgainAfterTwo
  <2> QED BY <1>1, <1>3, <1>4, <2>2, TickInv DEF IInv
<1>9. CASE HoldBack(Report(a))
  <2>1. /\ pending' = Report(a)
        /\ ~Plausible(Report(a))
        /\ ~Corroborates(Report(a))
    BY <1>9 DEF HoldBack
  <2>2. prevPos # Report(angle)
    BY <1>7, <2>1 DEF Plausible
  <2>3. pending # Report(angle)
    <3>1. SUFFICES ASSUME pending = Report(angle) PROVE FALSE
      OBVIOUS
    <3>2. Report(angle) \in Batches
      BY ReportIsBatch DEF IInv, TypeOK
    <3>3. pending # Unknown
      BY <3>1, <3>2, ArmAssumption DEF Batches
    <3> QED BY <1>7, <2>1, <3>1, <3>3 DEF Corroborates
  <2>4. ~(honest > 0)
    BY <2>2, <2>3 DEF IInv, HonestIsSeenOrHeld
  <2>5. HonestIsSeenOrHeld' /\ SeesAgainAfterTwo'
    BY <1>4, <1>5, <2>1, <2>4 DEF HonestIsSeenOrHeld, SeesAgainAfterTwo
  <2> QED BY <1>1, <1>3, <1>4, <2>5, TickInv DEF IInv
<1> QED BY <1>6, <1>8, <1>9 DEF Offer

\* A misparse resets the count of honest batches, and the gate takes it as
\* it takes any batch.
LEMMA MisparsedTickInv == ASSUME IInv, MisparsedTick PROVE IInv'
<1>1. PICK a \in Moved : \E values \in Misparses(a) :
         /\ angle' = a
         /\ Refuse(values) \/ Offer(values)
         /\ Count(Takes(values))
         /\ honest' = 0
         /\ UNCHANGED <<mode, calibration, belief>>
  BY DEF MisparsedTick
<1>2. PICK values \in Misparses(a) :
         /\ Refuse(values) \/ Offer(values)
         /\ Count(Takes(values))
  BY <1>1
<1>3. values = [m \in Motors |-> values[m]]
  BY <1>2 DEF Misparses
<1>4. GateInv'
  BY <1>2, <1>3, InvHasGate, RefuseKeepsGate, OfferKeepsGate
<1>5. honest' \in 0 .. 2
  BY <1>1
<1> QED BY <1>1, <1>4, <1>5, TickInv, DishonestIsSeenOrHeld DEF IInv

\* A read that fails is one more blind tick.
LEMMA FailedTickInv == ASSUME IInv, FailedTick PROVE IInv'
<1>1. PICK a \in Moved :
         /\ angle' = a
         /\ blind' = blind + 1
         /\ Count(FALSE)
         /\ honest' = 0
         /\ UNCHANGED <<mode, calibration, belief, prevPos, seeded, pending, offered>>
  BY DEF FailedTick
<1>2. HeldBackIsOffered'
  BY <1>1, InvHasGate DEF GateInv, HeldBackIsOffered
<1>3. pending' \in Batches \union {Unknown} /\ offered' \in Batches \union {Unknown}
  BY <1>1, InvHasGate DEF GateInv, Batches
<1>4. prevPos' \in Batches /\ seeded' \in BOOLEAN
  BY <1>1, InvHasGate, Zenon DEF GateInv, Batches
<1>5. GateInv'
  BY <1>1, <1>2, <1>3, <1>4, InvHasGate, BlindTickIsCounted, Zenon DEF GateInv, Batches
<1>6. honest' \in 0 .. 2
  BY <1>1
<1> QED BY <1>1, <1>5, <1>6, TickInv, DishonestIsSeenOrHeld DEF IInv

\* The commands change what a reading means, and leave the gate alone.
LEMMA CommandKeepsGate ==
    ASSUME GateInv, UNCHANGED <<gate, unseen, offered>>
    PROVE  GateInv'
BY DEF GateInv, gate, Batches, BlindIsUnseen, HeldBackIsOffered

\* A mode that is set is set in the servo and in the daemon's belief.
LEMMA SetOperatingModeInv ==
    ASSUME IInv, NEW m \in Motors, NEW value \in Modes, SetOperatingMode(m, value)
    PROVE  IInv'
<1>1. GateInv'
  BY InvHasGate, CommandKeepsGate DEF SetOperatingMode
<1>2. mode' \in [Motors -> Modes]
  BY DEF SetOperatingMode, IInv, TypeOK
<1>3. FrameOfMode(value) \in {"Corrected", "Raw"}
  BY DEF FrameOfMode, Modes
<1>4. frames' \in [Motors -> {"Corrected", "Raw"}]
  BY <1>3 DEF SetOperatingMode, IInv, TypeOK
<1>5. /\ \A j \in Motors : travel'[j] \in {Envelope(c) : c \in Calibrations[j]}
      /\ \A j \in Motors : calibration'[j] \in Calibrations[j]
      /\ angle' \in Angles
  BY DEF SetOperatingMode, IInv, TypeOK, Angles, Batches
<1>6. honest' \in 0 .. 2 /\ honest' = 0
  BY DEF SetOperatingMode
<1>7. TypeOK'
  BY <1>1, <1>2, <1>4, <1>5, <1>6, Zenon DEF TypeOK, GateInv, Batches
<1>8. BeliefTracksServos'
  <2>1. /\ mode' = [mode EXCEPT ![m] = value] /\ mode \in [Motors -> Modes]
        /\ frames' = [frames EXCEPT ![m] = FrameOfMode(value)]
        /\ UNCHANGED <<calibration, travel>>
    BY DEF SetOperatingMode, IInv, TypeOK
  <2>2. frames' = [j \in Motors |-> FrameOfMode(mode'[j])]
    BY <2>1 DEF IInv, BeliefTracksServos
  <2> QED BY <2>1, <2>2 DEF IInv, BeliefTracksServos
<1> QED BY <1>1, <1>6, <1>7, <1>8, DishonestIsSeenOrHeld, Zenon DEF IInv, GateInv

\* A calibration that is set moves the envelope with it.
LEMMA SetCalibrationInv ==
    ASSUME IInv, NEW m \in Motors, NEW c \in Calibrations[m], SetCalibration(m, c)
    PROVE  IInv'
<1>1. GateInv'
  BY InvHasGate, CommandKeepsGate DEF SetCalibration
<1>2. /\ calibration' \in [Motors -> UNION {Calibrations[j] : j \in Motors}]
      /\ \A j \in Motors : calibration'[j] \in Calibrations[j]
  BY DEF SetCalibration, IInv, TypeOK, BeliefTracksServos
<1>3. BeliefTracksServos'
  <2>1. /\ calibration' = [calibration EXCEPT ![m] = c]
        /\ travel' = [travel EXCEPT ![m] = Envelope(c)]
        /\ UNCHANGED <<mode, frames>>
    BY DEF SetCalibration
  <2>2. travel' = [j \in Motors |-> Envelope(calibration'[j])]
    BY <2>1 DEF IInv, BeliefTracksServos
  <2> QED BY <1>2, <2>1, <2>2 DEF IInv, BeliefTracksServos
<1>4. \A j \in Motors : travel'[j] \in {Envelope(d) : d \in Calibrations[j]}
  BY <1>2, <1>3 DEF BeliefTracksServos
<1>5. /\ mode' \in [Motors -> Modes]
      /\ frames' \in [Motors -> {"Corrected", "Raw"}]
      /\ angle' \in Angles
  BY DEF SetCalibration, IInv, TypeOK, Angles, Batches
<1>6. honest' \in 0 .. 2 /\ honest' = 0
  BY DEF SetCalibration
<1>7. TypeOK'
  BY <1>1, <1>2, <1>4, <1>5, <1>6, Zenon DEF TypeOK, GateInv, Batches
<1> QED BY <1>1, <1>3, <1>6, <1>7, DishonestIsSeenOrHeld, Zenon DEF IInv, GateInv

-----------------------------------------------------------------------------
(* The invariant, and what it gives.                                       *)

\* At startup the daemon knows the frames and the travel, and no position.
LEMMA InitInv == Init => IInv
<1> SUFFICES ASSUME Init PROVE IInv
  OBVIOUS
<1>1. /\ angle \in Angles
      /\ mode \in [Motors -> Modes]
      /\ calibration \in [Motors -> UNION {Calibrations[m] : m \in Motors}]
      /\ \A m \in Motors : calibration[m] \in Calibrations[m]
  BY DEF Init
<1>2. frames \in [Motors -> {"Corrected", "Raw"}]
  <2>1. \A m \in Motors : FrameOfMode(mode[m]) \in {"Corrected", "Raw"}
    BY <1>1 DEF FrameOfMode, Modes
  <2> QED BY <2>1 DEF Init
<1>3. BeliefTracksServos
  BY <1>1 DEF Init, BeliefTracksServos
<1>4. \A m \in Motors : travel[m] \in {Envelope(c) : c \in Calibrations[m]}
  BY <1>1, <1>3 DEF BeliefTracksServos
<1>5. prevPos \in Batches
  BY ResolutionAssumption DEF Init, Batches, Encoder
<1>6. seeded \in BOOLEAN
  BY Zenon DEF Init
<1>7. pending = Unknown /\ offered = Unknown
  BY DEF Init
<1>8. /\ blind \in 0 .. BlindBound
      /\ unseen \in 0 .. BlindBound
      /\ honest \in 0 .. 2
      /\ BlindIsUnseen
  BY GateAssumption DEF Init, BlindIsUnseen
<1>9. TypeOK
  BY <1>1, <1>2, <1>4, <1>5, <1>6, <1>7, <1>8, Zenon DEF TypeOK
<1>10. HonestIsSeenOrHeld /\ SeesAgainAfterTwo
  BY DEF Init, HonestIsSeenOrHeld, SeesAgainAfterTwo
<1> QED BY <1>3, <1>7, <1>8, <1>9, <1>10, Zenon DEF IInv, HeldBackIsOffered

\* Every step, and every stutter, keeps the invariant.
LEMMA NextInv == IInv /\ [Next]_vars => IInv'
<1> SUFFICES ASSUME IInv, [Next]_vars PROVE IInv'
  OBVIOUS
<1>1. CASE HonestTick
  BY <1>1, HonestTickInv
<1>2. CASE MisparsedTick
  BY <1>2, MisparsedTickInv
<1>3. CASE FailedTick
  BY <1>3, FailedTickInv
<1>4. CASE \E m \in Commanded, value \in Modes : SetOperatingMode(m, value)
  BY <1>4, SetOperatingModeInv, ArmAssumption
<1>5. CASE \E m \in Commanded : \E c \in Calibrations[m] : SetCalibration(m, c)
  BY <1>5, SetCalibrationInv, ArmAssumption
<1>6. CASE UNCHANGED vars
  <2>1. GateInv'
    BY <1>6, InvHasGate, CommandKeepsGate DEF vars, history
  <2>2. TypeOK' /\ BeliefTracksServos'
    BY <1>6 DEF IInv, TypeOK, BeliefTracksServos, vars, servo, belief, gate, history,
                Angles, Batches
  <2>3. HonestIsSeenOrHeld' /\ SeesAgainAfterTwo'
    BY <1>6 DEF IInv, HonestIsSeenOrHeld, SeesAgainAfterTwo, vars, servo, belief, gate,
                history, Report
  <2> QED BY <2>1, <2>2, <2>3, Zenon DEF IInv, GateInv
<1> QED BY <1>1, <1>2, <1>3, <1>4, <1>5, <1>6 DEF Next

\* Init and NextInv, by induction over the behaviour.
LEMMA Invariance == Spec => []IInv
BY InitInv, NextInv, PTL DEF Spec

\* What the loop drives from is a batch of encoder counts at every moment:
\* a misparsed reading off the encoder never becomes the believed position.
THEOREM PositionTypeOK == Spec => []TypeOK
<1>1. IInv => TypeOK
  BY DEF IInv
<1> QED BY Invariance, <1>1, PTL

\* None of the three ways of losing a reading escapes the count that drops
\* the torque, and no way of adopting one resets it too early.
THEOREM PositionDrivesFromRecent == Spec => []DrivesFromRecentPosition
<1>1. IInv => DrivesFromRecentPosition
  BY DEF IInv, BlindIsUnseen, DrivesFromRecentPosition
<1> QED BY Invariance, <1>1, PTL

\* Two honest batches in a row and the loop sees the arm, for any joints,
\* encoder, budget and travel swept by calibration: neither the travel check
\* nor the gate can lock it out, in either frame and across the seam.
THEOREM PositionSeesAgain == Spec => []SeesAgainAfterTwo
<1>1. IInv => SeesAgainAfterTwo
  BY DEF IInv
<1> QED BY Invariance, <1>1, PTL

\* One misparse, however it reads, never moves the believed position by more
\* than a joint can move in a tick: a second batch has to agree with it.
THEOREM PositionCorroborates == Spec => CorroboratedJump
<1>1. IInv /\ [Next]_vars =>
        [prevPos' # prevPos /\ seeded /\ ImplausibleStep(prevPos', prevPos, Budget)
          => /\ offered # Unknown
             /\ ~ImplausibleStep(prevPos', offered, Budget)]_vars
  <2> SUFFICES ASSUME IInv, Next, prevPos' # prevPos, seeded,
                      ImplausibleStep(prevPos', prevPos, Budget)
               PROVE  offered # Unknown /\ ~ImplausibleStep(prevPos', offered, Budget)
    OBVIOUS
  <2>1. CASE \E values : Offer(values)
    <3>1. PICK values : Adopt(values) \/ HoldBack(values)
      BY <2>1 DEF Offer
    <3>2. Adopt(values)
      BY <3>1 DEF HoldBack
    <3>3. prevPos' = values /\ Corroborates(values)
      BY <3>2 DEF Adopt, Plausible
    <3>4. pending = offered
      BY <3>3 DEF IInv, HeldBackIsOffered, Corroborates
    <3> QED BY <3>3, <3>4 DEF Corroborates
  <2>2. CASE \E values : Refuse(values)
    BY <2>2 DEF Refuse
  <2>3. CASE FailedTick
    BY <2>3 DEF FailedTick
  <2>4. CASE UNCHANGED gate
    BY <2>4 DEF gate
  <2>5. \/ \E values : Offer(values)
        \/ \E values : Refuse(values)
        \/ FailedTick
        \/ UNCHANGED gate
    <3>1. CASE HonestTick
      BY <3>1 DEF HonestTick
    <3>2. CASE MisparsedTick
      BY <3>2 DEF MisparsedTick
    <3>3. CASE FailedTick
      BY <3>3
    <3>4. CASE \E m \in Commanded, value \in Modes : SetOperatingMode(m, value)
      BY <3>4 DEF SetOperatingMode
    <3>5. CASE \E m \in Commanded : \E c \in Calibrations[m] : SetCalibration(m, c)
      BY <3>5 DEF SetCalibration
    <3> QED BY <3>1, <3>2, <3>3, <3>4, <3>5 DEF Next
  <2> QED BY <2>1, <2>2, <2>3, <2>4, <2>5
<1> QED BY <1>1, Invariance, PTL DEF Spec, CorroboratedJump

=============================================================================

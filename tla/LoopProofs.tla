--------------------------------- MODULE LoopProofs ---------------------------------
(***************************************************************************)
(* Proofs about the two modules of the daemon's control loop.  Of          *)
(* DriveLoop: what may be on the wire while the client is late, stalled in *)
(* a write or gone, and what the telemetry then says.  Of LimitGuard: what *)
(* the loop remembers of a joint's way out of its limits, and that it      *)
(* drives it back that way.                                                *)
(***************************************************************************)
EXTENDS DriveLoop, LimitGuard, TLAPS

-----------------------------------------------------------------------------
(* DriveLoop: the watchdog and the report.                                 *)

\* What the loop holds is no newer than what is published, and that is no
\* newer than what the client is writing.
AgesOrdered ==
    /\ draft # NoDraft => draft <= inputAge
    /\ inputAge <= heldAge

\* How old a snapshot the watchdog accepted may be: at most Timeout when it is
\* accepted, and as much older as the clock has moved since.
Accepted(age) == age <= Timeout + lag

\* The next tick comes within a unit of the clock, and those a slow command
\* adds to it.
TicksInTime == lag <= 1 + busy

\* A duty, and a report without flags, rest on a snapshot the watchdog
\* accepted.
DutyAccepted == output.pwm # 0 => Accepted(heldAge)

ReportAccepted ==
    output.stamped /\ output.flags = {}
        => (duty = output.pwm \/ missed) /\ blind = 0 /\ Accepted(heldAge)

LoopInv == TypeOK /\ AgesOrdered /\ TicksInTime /\ DutyAccepted /\ ReportAccepted

-----------------------------------------------------------------------------
(* The operators.                                                          *)

LEMMA AgeBound ==
  /\ Old \in Nat /\ Old >= Timeout + MaxBlock + 2
  /\ Stale \in Nat /\ Stale > Staleness
  /\ Timeout \in Nat /\ MaxBlock \in Nat /\ Staleness \in Nat
  BY LimitsAssumption DEF Old, Stale

\* Ages stay ages, grow by at most one, and keep their order.
LEMMA OlderFacts ==
  ASSUME NEW old \in Nat, NEW a \in 0 .. old
  PROVE  /\ Older(a, old) \in 0 .. old
         /\ Older(a, old) <= a + 1
         /\ \A b \in 0 .. old : a <= b => Older(a, old) <= Older(b, old)
  BY DEF Older

LEMMA SnapshotFacts ==
  ASSUME TypeOK, AgesOrdered
  PROVE  SnapshotAge \in Ages /\ inputAge <= SnapshotAge
  BY AgeBound DEF SnapshotAge, TypeOK, AgesOrdered, Ages

\* The slew limiter stays within the feedforward's limit, whatever the
\* network published.
LEMMA SlewedInRange ==
  ASSUME TypeOK, NEW safe \in BOOLEAN, NEW read \in BOOLEAN
  PROVE  Slewed(Wanted(safe, read)) \in -FfMax .. FfMax
<1>1. packet.ff \in Int
  <2>1. packet \in [ff: Learned \union {0}, age: 0 .. Stale]
    BY DEF TypeOK
  <2>2. packet.ff \in Learned \union {0}
    BY <2>1
  <2>3. Learned \subseteq Int
    BY DutyAssumption
  <2>4. \A l \in Learned \union {0} : l \in Int
    BY <2>3
  <2> QED  BY <2>2, <2>4
<1>2. Wanted(safe, read) \in -FfMax .. FfMax
  BY <1>1, LimitsAssumption DEF Wanted, Limited
<1>3. applied \in -FfMax .. FfMax
  BY DEF TypeOK
<1>4. ASSUME NEW w \in -FfMax .. FfMax
      PROVE  Slewed(w) \in -FfMax .. FfMax
  BY <1>3, <1>4, LimitsAssumption DEF Slewed, Limited
<1> QED  BY <1>2, <1>4

\* A command is a duty within the caps, and zero unless it is safe to drive.
LEMMA CommandFacts ==
  ASSUME NEW safe \in BOOLEAN, NEW ff \in Int
  PROVE  Command(safe, ff) \subseteq Duties /\ (~safe => Command(safe, ff) = {0})
<1>1. {0} \subseteq Duties
  BY LimitsAssumption DEF Duties
<1>2. \A total : Reduced(total) \subseteq Duties
  BY DEF Reduced
<1> QED  BY <1>1, <1>2 DEF Command

-----------------------------------------------------------------------------

LEMMA InitInv == Init => LoopInv
<1> SUFFICES ASSUME Init PROVE LoopInv  OBVIOUS
<1>1. TypeOK
  <2>1. 0 \in -FfMax .. FfMax /\ 0 \in Duties /\ 0 \in 0 .. MaxBlind /\ Old \in Ages
    BY AgeBound, LimitsAssumption DEF Duties, Ages
  <2>2. packet \in [ff: Learned \union {0}, age: 0 .. Stale]
    BY <2>1, AgeBound DEF Init
  <2>3. output \in [stamped: BOOLEAN, pwm: Duties, ff: -FfMax .. FfMax, flags: SUBSET Flags]
    BY <2>1 DEF Init
  <2>4. 0 \in 0 .. MaxBlock /\ 0 \in 0 .. MaxBlock + 1
    BY AgeBound
  <2> QED  BY <2>1, <2>2, <2>3, <2>4 DEF Init, TypeOK
<1>2. AgesOrdered /\ TicksInTime /\ DutyAccepted /\ ReportAccepted
  BY AgeBound DEF Init, AgesOrdered, TicksInTime, DutyAccepted, ReportAccepted
<1> QED  BY <1>1, <1>2 DEF LoopInv

\* The client's steps: a write makes the published age the draft's, which is
\* no greater.
LEMMA ClientStep ==
  ASSUME LoopInv, BeginInput \/ EndInput \/ Post \/ ClientDies
  PROVE  LoopInv'
<1>1. TypeOK'
  <2>1. /\ client' \in {"alive", "dead"} /\ draft' \in Ages \union {NoDraft}
        /\ inputAge' \in Ages
    BY AgeBound DEF LoopInv, TypeOK, BeginInput, EndInput, Post, ClientDies, Ages
  <2>2. posted' \in BOOLEAN
    BY Zenon DEF LoopInv, TypeOK, BeginInput, EndInput, Post, ClientDies
  <2>3. UNCHANGED <<thread, packet, busy, heldAge, blind, applied, output, duty, missed, lag>>
    BY DEF BeginInput, EndInput, Post, ClientDies, threadVars, loopVars
  <2> QED  BY <2>1, <2>2, <2>3 DEF LoopInv, TypeOK
<1>2. AgesOrdered'
  BY AgeBound DEF LoopInv, TypeOK, AgesOrdered, BeginInput, EndInput, Post, ClientDies,
     threadVars, loopVars, Ages, NoDraft
<1>3. TicksInTime' /\ DutyAccepted' /\ ReportAccepted'
  BY DEF LoopInv, TicksInTime, DutyAccepted, ReportAccepted, Accepted, BeginInput,
     EndInput, Post, ClientDies, loopVars
<1> QED  BY <1>1, <1>2, <1>3 DEF LoopInv

\* The cerebellum's steps touch nothing but the thread and its packet.
LEMMA ThreadStep ==
  ASSUME LoopInv, Predict \/ BackendFails \/ ThreadStops
  PROVE  LoopInv'
<1>1. TypeOK'
  BY AgeBound DEF LoopInv, TypeOK, Predict, BackendFails, ThreadStops, clientVars,
     loopVars, Ages
<1>2. AgesOrdered' /\ TicksInTime' /\ DutyAccepted' /\ ReportAccepted'
  BY DEF LoopInv, AgesOrdered, TicksInTime, DutyAccepted, ReportAccepted, Accepted,
     Predict, BackendFails, ThreadStops, clientVars, loopVars
<1> QED  BY <1>1, <1>2 DEF LoopInv

\* A slow command gives the next tick more time, and touches nothing of what
\* the last one did.
LEMMA BlockStep ==
  ASSUME LoopInv, Block
  PROVE  LoopInv'
<1>1. /\ busy = 0 /\ busy' \in 1 .. MaxBlock
      /\ UNCHANGED <<client, draft, inputAge, thread, packet, heldAge, blind, applied,
                     output, duty, missed, lag>>
  BY DEF Block, threadVars
<1>2. TypeOK'
  <2>1. busy' \in 0 .. MaxBlock
    BY <1>1, AgeBound
  <2>2. posted' \in BOOLEAN
    BY Zenon DEF Block
  <2> QED  BY <1>1, <2>1, <2>2 DEF LoopInv, TypeOK, Ages
<1>3. TicksInTime'
  <2>1. lag' \in Int /\ lag' <= 1
    BY <1>1, AgeBound DEF LoopInv, TypeOK, TicksInTime
  <2>2. busy' \in Int /\ busy' >= 1
    BY <1>1, AgeBound
  <2>3. \A l, b \in Int : l <= 1 /\ b >= 1 => l <= 1 + b
    OBVIOUS
  <2>4. lag' <= 1 + busy'
    BY <2>1, <2>2, <2>3
  <2> QED  BY <2>4 DEF TicksInTime
<1>4. AgesOrdered' /\ DutyAccepted' /\ ReportAccepted'
  BY <1>1 DEF LoopInv, AgesOrdered, DutyAccepted, ReportAccepted, Accepted
<1> QED  BY <1>2, <1>3, <1>4 DEF LoopInv

\* A tick: it holds the snapshot it looked at, drives only if that one is
\* fresh, and raises a flag for each thing that went wrong in it.
LEMMA TickStep ==
  ASSUME LoopInv, NEW seen \in BOOLEAN, NEW read \in BOOLEAN, NEW write \in Writes,
         Tick(seen, read, write)
  PROVE  LoopInv'
<1> DEFINE fresh == Fresh(SnapshotAge)
           safe  == fresh /\ BlindTicks(seen) < MaxBlind
           sent  == write # "refused"
<1>1. TypeOK /\ AgesOrdered /\ DutyAccepted /\ ReportAccepted
  BY DEF LoopInv
<1>2. SnapshotAge \in Ages /\ inputAge <= SnapshotAge
  BY <1>1, SnapshotFacts
<1>3. /\ heldAge' = SnapshotAge /\ blind' = BlindTicks(seen)
      /\ lag' = 0 /\ busy' = 0 /\ posted' = (posted /\ busy > 0)
      /\ missed' = (write = "lost")
      /\ applied' = Slewed(Wanted(safe, read))
      /\ UNCHANGED <<client, draft, inputAge, thread, packet>>
  BY DEF Tick, threadVars
<1>4. applied' \in -FfMax .. FfMax
  BY <1>1, <1>3, SlewedInRange DEF Fresh
<1>5. PICK cmd \in Command(safe, applied') :
         /\ output' = [stamped |-> TRUE, pwm |-> cmd, ff |-> applied',
                       flags |-> Raised(fresh, seen, sent)]
         /\ duty' = Goal(cmd, write)
  BY DEF Tick
<1>6. cmd \in Duties /\ (~safe => cmd = 0)
  <2>1. safe \in BOOLEAN /\ applied' \in Int
    BY <1>4, LimitsAssumption DEF Fresh
  <2> HIDE DEF safe
  <2>2. Command(safe, applied') \subseteq Duties /\ (~safe => Command(safe, applied') = {0})
    BY <2>1, CommandFacts
  <2> QED  BY <1>5, <2>2
<1>7. blind' \in 0 .. MaxBlind
  BY <1>1, <1>3, LimitsAssumption DEF TypeOK, BlindTicks
<1>8. Raised(fresh, seen, sent) \in SUBSET Flags
  BY DEF Raised, Flags
<1>9. TypeOK'
  <2>1. duty' \in Duties
    BY <1>1, <1>5, <1>6 DEF Goal, TypeOK
  <2>2. output' \in [stamped: BOOLEAN, pwm: Duties, ff: -FfMax .. FfMax, flags: SUBSET Flags]
    BY <1>4, <1>5, <1>6, <1>8
  <2>3. posted' \in BOOLEAN /\ missed' \in BOOLEAN
    BY <1>3, Zenon
  <2>4. 0 \in 0 .. MaxBlock /\ 0 \in 0 .. MaxBlock + 1
    BY AgeBound
  <2> QED  BY <1>1, <1>2, <1>3, <1>4, <1>7, <2>1, <2>2, <2>3, <2>4 DEF TypeOK
<1>10. AgesOrdered' /\ TicksInTime'
  BY <1>1, <1>2, <1>3 DEF AgesOrdered, TicksInTime
<1>11. DutyAccepted'
  <2>1. output'.pwm = cmd
    BY <1>5
  <2>2. cmd # 0 => SnapshotAge <= Timeout
    BY <1>6 DEF Fresh
  <2> QED  BY <1>3, <2>1, <2>2, LimitsAssumption DEF DutyAccepted, Accepted
<1>12. ReportAccepted'
  <2>1. output'.pwm = cmd /\ output'.flags = Raised(fresh, seen, sent)
    BY <1>5
  <2>2. Raised(fresh, seen, sent) = {} => fresh /\ seen /\ sent
    BY DEF Raised
  <2>3. sent => duty' = cmd \/ missed'
    BY <1>3, <1>5 DEF Goal, Writes
  <2>4. seen => blind' = 0
    BY <1>3 DEF BlindTicks
  <2>5. fresh => SnapshotAge <= Timeout
    BY DEF Fresh
  <2>6. fresh => Accepted(heldAge)'
    BY <1>3, <2>5, LimitsAssumption DEF Accepted
  <2> QED  BY <2>1, <2>2, <2>3, <2>4, <2>6 DEF ReportAccepted
<1> QED  BY <1>9, <1>10, <1>11, <1>12 DEF LoopInv

\* The clock moves only while the next tick is in time, and what was accepted
\* is older by no more than it moved.
LEMMA ElapseStep ==
  ASSUME LoopInv, Elapse
  PROVE  LoopInv'
<1>1. TypeOK /\ AgesOrdered /\ DutyAccepted /\ ReportAccepted
  BY DEF LoopInv
<1>2. inputAge \in Ages /\ heldAge \in Ages /\ packet.age \in 0 .. Stale
      /\ draft \in Ages \union {NoDraft}
  BY <1>1 DEF TypeOK
<1>3. /\ \A a \in Ages : Older(a, Old) \in Ages /\ Older(a, Old) <= a + 1
      /\ \A a, b \in Ages : a <= b => Older(a, Old) <= Older(b, Old)
      /\ Older(packet.age, Stale) \in 0 .. Stale
  BY <1>2, AgeBound, OlderFacts DEF Ages
<1>4. NoDraft \notin Ages
  BY DEF NoDraft, Ages
<1>5. lag \in Nat /\ busy \in 0 .. MaxBlock /\ lag <= busy /\ lag' = lag + 1
  BY <1>1, AgeBound DEF Elapse, TypeOK
<1>6. lag' \in 0 .. MaxBlock + 1
  BY <1>5, AgeBound
<1>7. TypeOK'
  <2>1. packet' \in [ff: Learned \union {0}, age: 0 .. Stale]
    BY <1>1, <1>3 DEF Elapse, TypeOK
  <2>2. draft' \in Ages \union {NoDraft}
    BY <1>2, <1>3 DEF Elapse
  <2>3. inputAge' \in Ages /\ heldAge' \in Ages
    BY <1>2, <1>3 DEF Elapse
  <2> QED  BY <1>1, <1>6, <2>1, <2>2, <2>3 DEF Elapse, TypeOK
<1>8. AgesOrdered'
  BY <1>1, <1>2, <1>3, <1>4 DEF Elapse, AgesOrdered
<1>9. TicksInTime'
  BY <1>5, AgeBound DEF Elapse, TicksInTime
<1>10. heldAge' <= heldAge + 1 /\ heldAge \in Int /\ heldAge' \in Int
  BY <1>2, <1>3 DEF Elapse, Ages
<1>11. Accepted(heldAge) => Accepted(heldAge)'
  BY <1>5, <1>10, AgeBound DEF Accepted
<1>12. DutyAccepted' /\ ReportAccepted'
  BY <1>1, <1>11 DEF Elapse, DutyAccepted, ReportAccepted
<1> QED  BY <1>7, <1>8, <1>9, <1>12 DEF LoopInv

LEMMA Inductive == LoopInv /\ [Next]_vars => LoopInv'
<1> SUFFICES ASSUME LoopInv, [Next]_vars PROVE LoopInv'  OBVIOUS
<1>1. CASE BeginInput \/ EndInput \/ Post \/ ClientDies
  BY <1>1, ClientStep
<1>2. CASE Predict \/ BackendFails \/ ThreadStops
  BY <1>2, ThreadStep
<1>3. CASE AnyTick
  BY <1>3, TickStep DEF AnyTick
<1>4. CASE Elapse
  BY <1>4, ElapseStep
<1>5. CASE UNCHANGED vars
  BY <1>5 DEF LoopInv, TypeOK, AgesOrdered, TicksInTime, DutyAccepted, ReportAccepted,
     Accepted, vars, clientVars, threadVars, loopVars
<1>6. CASE Block
  BY <1>6, BlockStep
<1> QED  BY <1>1, <1>2, <1>3, <1>4, <1>5, <1>6 DEF Next

LEMMA InvHolds == Spec => []LoopInv
  BY InitInv, Inductive, PTL DEF Spec

\* The loop's state keeps its types: in particular the blind counter and the
\* feedforward stay within their limits and every duty within the caps,
\* whatever the network publishes.
THEOREM TypesHold == Spec => []TypeOK
<1>1. LoopInv => TypeOK
  BY DEF LoopInv
<1> QED  BY InvHolds, <1>1, PTL

\* A duty stands only while the client took a timestamp within the watchdog's
\* timeout, the one unit of the clock between two ticks, and the units a slow
\* command keeps the loop from its next tick: for any of these, and whatever
\* write the client stalled or died in.
THEOREM LiveInput == Spec => []DrivesOnLiveInput
<1>1. LoopInv => DrivesOnLiveInput
  <2> SUFFICES ASSUME LoopInv, output.pwm # 0
               PROVE  StampAge <= Timeout + 1 + busy
    BY DEF DrivesOnLiveInput
  <2>1. StampAge \in Int /\ heldAge \in Int /\ StampAge <= heldAge
    BY AgeBound DEF LoopInv, TypeOK, AgesOrdered, StampAge, Ages, NoDraft
  <2>2. heldAge <= Timeout + lag /\ lag <= 1 + busy /\ lag \in Int /\ busy \in Int
    BY AgeBound DEF LoopInv, TypeOK, DutyAccepted, Accepted, TicksInTime
  <2> QED  BY <2>1, <2>2, AgeBound
<1> QED  BY InvHolds, <1>1, PTL

\* A report without a flag is true: the duty it names was sent, the servo
\* holds it unless the bus lost that write, and it came from live input and a
\* position seen in its tick.
THEOREM ReportsTrue == Spec => []UnflaggedIsTrue
<1>1. LoopInv => UnflaggedIsTrue
  <2> SUFFICES ASSUME LoopInv, output.stamped /\ output.flags = {}
               PROVE  /\ duty = output.pwm \/ missed
                      /\ blind = 0
                      /\ heldAge <= Timeout + 1 + busy
    BY DEF UnflaggedIsTrue
  <2>1. (duty = output.pwm \/ missed) /\ blind = 0 /\ heldAge <= Timeout + lag
    BY DEF LoopInv, ReportAccepted, Accepted
  <2>2. lag <= 1 + busy /\ lag \in Int /\ busy \in Int /\ heldAge \in Int
    BY AgeBound DEF LoopInv, TypeOK, TicksInTime, Ages
  <2> QED  BY <2>1, <2>2, AgeBound
<1> QED  BY InvHolds, <1>1, PTL

\* What it takes for the arm to have stopped: the client is gone, the last
\* timestamp it took has expired, and the servo was written a zero.
Stopped == client = "dead" /\ StampAge > Timeout /\ duty = 0

\* The arm of a client that is gone does not start again: not on a snapshot
\* held back by a write in progress, nor on what the cerebellum publishes, nor
\* by a SYNC_WRITE that fails or is lost, nor after a command it left posted.
StoppedForGood == [][Stopped => Stopped']_vars

\* For any timeouts, limits and duties.  This is the part of
\* DeadClientStopsArm that asks for no fairness.
THEOREM StaysStopped == Spec => StoppedForGood
<1>1. ASSUME LoopInv, [Next]_vars, Stopped PROVE Stopped'
  <2>1. /\ TypeOK /\ AgesOrdered /\ inputAge \in Ages /\ draft \in Ages \union {NoDraft}
        /\ NoDraft \notin Ages
    BY <1>1 DEF LoopInv, TypeOK, NoDraft, Ages
  <2>2. client = "dead" /\ StampAge > Timeout /\ duty = 0
    BY <1>1 DEF Stopped
  <2>3. ASSUME NEW seen \in BOOLEAN, NEW read \in BOOLEAN, NEW write \in Writes,
               Tick(seen, read, write)
        PROVE  Stopped'
    <3>1. UNCHANGED <<client, draft, inputAge>>
      BY <2>3 DEF Tick
    <3>2. ~Fresh(SnapshotAge)
      BY <2>1, <2>2, AgeBound, LimitsAssumption
         DEF StampAge, SnapshotAge, Fresh, AgesOrdered, TypeOK, Ages
    <3>3. duty' = 0
      BY <2>2, <2>3, <3>2 DEF Tick, Command, Goal
    <3> QED
      BY <2>2, <3>1, <3>3 DEF Stopped, StampAge
  <2>4. CASE Elapse
    <3>1. \A a \in Ages : a > Timeout => Older(a, Old) > Timeout /\ Older(a, Old) \in Ages
      BY AgeBound, LimitsAssumption DEF Older, Ages
    <3>2. StampAge' > Timeout
      BY <2>1, <2>2, <2>4, <3>1 DEF Elapse, StampAge
    <3> QED
      BY <2>2, <2>4, <3>2 DEF Elapse, Stopped
  <2>5. CASE BeginInput \/ EndInput \/ Post \/ ClientDies
    BY <2>2, <2>5 DEF BeginInput, EndInput, Post, ClientDies
  <2>8. CASE Block
    BY <2>2, <2>8 DEF Block, Stopped, StampAge
  <2>6. CASE Predict \/ BackendFails \/ ThreadStops
    BY <2>2, <2>6 DEF Predict, BackendFails, ThreadStops, clientVars, loopVars, Stopped, StampAge
  <2>7. CASE UNCHANGED vars
    BY <2>2, <2>7 DEF vars, clientVars, loopVars, Stopped, StampAge
  <2> QED
    BY <1>1, <2>3, <2>4, <2>5, <2>6, <2>7, <2>8 DEF Next, AnyTick
<1>2. LoopInv /\ [Next]_vars => [Stopped => Stopped']_vars
  BY <1>1
<1> QED
  BY <1>2, InvHolds, PTL DEF Spec, StoppedForGood

\* The cerebellum's thread is known to be gone: it said so, or its last packet
\* has gone stale.
Silent == thread = "faulted" \/ (thread = "stopped" /\ packet.age > Staleness)

\* The feedforward of a thread that is gone comes no more, and each tick takes
\* FfSlew of what is left of it, or all: it is out of the command after no more
\* ticks than the slew limiter takes for FfMax.
FadesByTheTick ==
    [][Silent => /\ Silent'
                 /\ IF AnyTick THEN applied' = 0 \/ Abs(applied') <= Abs(applied) - FfSlew
                    ELSE applied' = applied]_vars

\* For any clamp, slew and staleness, and whatever the last packet held.  This
\* is the part of DeadCerebellumFades that asks for no fairness.
THEOREM FadesOut == Spec => FadesByTheTick
<1> DEFINE Faded == applied' = 0 \/ Abs(applied') <= Abs(applied) - FfSlew
<1>1. ASSUME LoopInv, Next, Silent
      PROVE  Silent' /\ IF AnyTick THEN Faded ELSE applied' = applied
  <2>1. packet \in [ff: Learned \union {0}, age: 0 .. Stale] /\ applied \in Int
    BY <1>1, LimitsAssumption DEF LoopInv, TypeOK
  <2>2. packet.age \in 0 .. Stale
    BY <2>1
  <2>3. ASSUME NEW seen \in BOOLEAN, NEW read \in BOOLEAN, NEW write \in Writes,
               Tick(seen, read, write)
        PROVE  Faded /\ Silent'
    <3>1. PICK safe \in BOOLEAN : applied' = Slewed(Wanted(safe, read))
      BY <2>3 DEF Tick, Fresh
    <3>2. Wanted(safe, read) = 0
      BY <1>1, <2>2, AgeBound DEF Silent, Wanted
    <3>3. applied' = applied + Limited(0 - applied, -FfSlew, FfSlew)
      BY <3>1, <3>2 DEF Slewed
    <3>4. Faded
      BY <2>1, <3>3, LimitsAssumption DEF Limited, Abs
    <3>5. UNCHANGED <<thread, packet>>
      BY <2>3 DEF Tick, threadVars
    <3> QED
      BY <1>1, <3>4, <3>5 DEF Silent
  <2>4. CASE Elapse
    <3>1. \A a \in 0 .. Stale : a > Staleness => Older(a, Stale) > Staleness
      BY AgeBound DEF Older
    <3>2. packet'.age = Older(packet.age, Stale) /\ UNCHANGED <<thread, applied>>
      BY <2>1, <2>4 DEF Elapse
    <3>3. ASSUME AnyTick PROVE Faded
      BY <2>3, <3>3 DEF AnyTick
    <3> QED
      BY <1>1, <2>2, <3>1, <3>2, <3>3 DEF Silent
  <2>5. CASE BeginInput \/ EndInput \/ Post \/ ClientDies \/ Predict \/ BackendFails
             \/ ThreadStops \/ Block
    <3>1. UNCHANGED <<applied, packet>> /\ Silent'
      BY <1>1, <2>5 DEF BeginInput, EndInput, Post, ClientDies, Predict, BackendFails,
         ThreadStops, Block, threadVars, loopVars, Silent
    <3>2. ASSUME AnyTick PROVE Faded
      BY <2>3, <3>2 DEF AnyTick
    <3> QED
      BY <3>1, <3>2
  <2> QED
    BY <1>1, <2>3, <2>4, <2>5 DEF Next, AnyTick
<1>2. LoopInv /\ [Next]_vars =>
        [Silent => /\ Silent'
                   /\ IF AnyTick THEN applied' = 0 \/ Abs(applied') <= Abs(applied) - FfSlew
                      ELSE applied' = applied]_vars
  BY <1>1
<1> QED
  BY <1>2, InvHolds, PTL DEF Spec, FadesByTheTick

-----------------------------------------------------------------------------
(* LimitGuard: the way back to the limits.                                 *)

\* The arc of the circle that is not within the limits, from one to the other;
\* and how far the joint can be moved between two readings.
Gap == Resolution - (PosMax - PosMin)
Travel == (MaxUnseen + 1) * Step

\* Half a turn is more than both.
GapIsNarrow == Gap + Travel < Half

\* How far a place is beyond the upper limit, going up.
Beyond(where) == (where - offset - PosMax) % Resolution

\* The joint has not moved further from the last reading than it can have since.
ReadInv ==
    /\ Abs(x - readAt) <= unseen * Step
    /\ ~crossed => prevPos = Report(readAt)

\* A duty past the limits leads the shorter way to where they were left.
PwmInv ==
    unseen = 0 /\ ~crossed =>
        /\ x = readAt
        /\ PastLimits /\ inRange # Unknown
             => /\ pwm > 0 => WrappedDelta(inRange, LimitPosition(prevPos)) >= 0
                /\ pwm < 0 => WrappedDelta(inRange, LimitPosition(prevPos)) <= 0

GuardInv == GuardTypeOK /\ ReadInv /\ RemembersWhereItWas /\ PwmInv

\* Since it left the limits the joint is in one and the same gap between them,
\* and it left them within a travel of that gap.
OriginInv ==
    inRange # Unknown /\ ~stale /\ readAt # origin =>
        /\ Beyond(readAt) \in 0 .. Gap
        /\ Beyond(readAt) + (origin - readAt) \in -Travel .. Gap + Travel

-----------------------------------------------------------------------------
(* The circle.                                                             *)

LEMMA Circle == Half \in Nat /\ Resolution = 2 * Half /\ Resolution \in Nat /\ Half > 0
  BY ResolutionAssumption DEF Half

\* A remainder is the one count of the encoder that differs from the dividend
\* by whole turns.
LEMMA Remainder ==
    ASSUME NEW a \in Int
    PROVE  a % Resolution \in Encoder /\ \E q \in Int : a = q * Resolution + (a % Resolution)
<1>1. Resolution \in Nat /\ Resolution > 0
  BY ResolutionAssumption
<1>2. a % Resolution \in Encoder
  BY <1>1 DEF Encoder
<1>3. \E q \in Int : a = q * Resolution + (a % Resolution)
  BY <1>1
<1> QED
  BY <1>2, <1>3

LEMMA RemainderIsUnique ==
    ASSUME NEW q \in Int, NEW r \in Encoder
    PROVE  (q * Resolution + r) % Resolution = r
  BY ResolutionAssumption DEF Encoder

LEMMA SameRemainder ==
    ASSUME NEW a \in Int, NEW b \in Int, NEW q \in Int, a = b + q * Resolution
    PROVE  a % Resolution = b % Resolution
<1> DEFINE r == b % Resolution
<1>1. r \in Encoder
  BY Remainder
<1>2. PICK p \in Int : b = p * Resolution + r
  BY Remainder, Zenon
<1>3. p + q \in Int /\ a = (p + q) * Resolution + r
  <2> HIDE DEF r
  <2>1. Resolution \in Int /\ r \in Int
    BY <1>1, ResolutionAssumption DEF Encoder
  <2> QED
    BY <1>2, <2>1
<1>4. ((p + q) * Resolution + r) % Resolution = r
  BY <1>1, <1>3, RemainderIsUnique
<1> QED
  BY <1>3, <1>4

LEMMA Multiples ==
    ASSUME NEW m \in Int
    PROVE  /\ m * Resolution \in Int
           /\ m >= 1 => m * Resolution >= Resolution
           /\ m >= 2 => m * Resolution >= 2 * Resolution
           /\ m <= -1 => m * Resolution <= -Resolution
  BY ResolutionAssumption

\* Two counts differ as what they are the remainders of, up to whole turns.
LEMMA CountsDiffer ==
    ASSUME NEW a \in Int, NEW b \in Int
    PROVE  \E m \in Int : (a % Resolution) - (b % Resolution) = (a - b) + m * Resolution
<1> DEFINE r == a % Resolution
           s == b % Resolution
<1>1. r \in Int /\ s \in Int /\ Resolution \in Int
  BY Remainder, ResolutionAssumption DEF Encoder
<1>2. PICK p \in Int : a = p * Resolution + r
  BY Remainder, Zenon
<1>3. PICK q \in Int : b = q * Resolution + s
  BY Remainder, Zenon
<1>4. q - p \in Int /\ r - s = (a - b) + (q - p) * Resolution
  <2> HIDE DEF r, s
  <2> QED
    BY <1>1, <1>2, <1>3
<1> QED
  BY <1>4

\* wrapped_delta of two counts of the encoder.
LEMMA WrappedCounts ==
    ASSUME NEW r \in Encoder, NEW s \in Encoder
    PROVE  WrappedDelta(r, s) = IF r - s > Half THEN (r - s) - Resolution
                                ELSE IF s - r > Half THEN (r - s) + Resolution
                                ELSE r - s
<1>1. r \in Int /\ s \in Int /\ 0 <= r /\ 0 <= s /\ r < Resolution /\ s < Resolution
  BY Circle DEF Encoder
<1>2. CASE r >= s
  <2>1. r - s \in Encoder /\ 0 * Resolution + (r - s) = r - s
    BY <1>1, <1>2, Circle DEF Encoder
  <2>2. (r - s) % Resolution = r - s
    BY <2>1, RemainderIsUnique
  <2> QED
    BY <1>1, <1>2, <2>2, Circle DEF WrappedDelta, FoldUp
<1>3. CASE ~(r >= s)
  <2>1. s - r \in Encoder /\ 0 * Resolution + (s - r) = s - r
    BY <1>1, <1>3, Circle DEF Encoder
  <2>2. (s - r) % Resolution = s - r
    BY <2>1, RemainderIsUnique
  <2> QED
    BY <1>1, <1>3, <2>2, Circle DEF WrappedDelta, FoldUp
<1> QED
  BY <1>2, <1>3

LEMMA WrappedIsInt ==
    ASSUME NEW a \in Int, NEW b \in Int
    PROVE  WrappedDelta(a, b) \in Int
<1>1. (a - b) % Resolution \in Int /\ (b - a) % Resolution \in Int
  BY Remainder DEF Encoder
<1> QED
  BY <1>1, Circle DEF WrappedDelta, FoldUp

\* Of two places less than half a turn apart wrapped_delta finds the distance
\* and the direction, wherever the seam is.
LEMMA WrappedNear ==
    ASSUME NEW a \in Int, NEW b \in Int, a - b < Half, b - a < Half
    PROVE  WrappedDelta(a % Resolution, b % Resolution) = a - b
<1> DEFINE r == a % Resolution
           s == b % Resolution
<1>1. r \in Encoder /\ s \in Encoder
  BY Remainder
<1>2. PICK m \in Int : r - s = (a - b) + m * Resolution
  BY CountsDiffer
<1>3. WrappedDelta(r, s) = IF r - s > Half THEN (r - s) - Resolution
                           ELSE IF s - r > Half THEN (r - s) + Resolution
                           ELSE r - s
  BY <1>1, WrappedCounts
<1> HIDE DEF r, s
<1>4. r \in Int /\ s \in Int /\ 0 <= r /\ 0 <= s /\ r < Resolution /\ s < Resolution
  BY <1>1, Circle DEF Encoder
<1> DEFINE turns == m * Resolution
<1>5. turns \in Int /\ (m >= 1 => turns >= Resolution) /\ (m >= 2 => turns >= 2 * Resolution)
      /\ (m <= -1 => turns <= -Resolution) /\ (m = 0 => turns = 0)
      /\ (m = 1 => turns = Resolution) /\ (m = -1 => turns = -Resolution)
      /\ (m <= -2 => turns <= -(2 * Resolution))
  BY Multiples, Circle
<1>6. r - s = (a - b) + turns
  BY <1>2
<1> HIDE DEF turns
<1>7. m \in {-1, 0, 1}
  BY <1>4, <1>5, <1>6, Circle
<1> QED
  BY <1>3, <1>4, <1>5, <1>6, <1>7, Circle DEF r, s

LEMMA Distance ==
    ASSUME NEW a \in Int, NEW b \in Int
    PROVE  /\ Abs(a - b) \in Nat /\ a - b <= Abs(a - b) /\ b - a <= Abs(a - b)
           /\ a = b => Abs(a - b) = 0
           /\ \A c, s, t \in Int : Abs(a - b) <= s /\ Abs(b - c) <= t => Abs(a - c) <= s + t
  BY DEF Abs

-----------------------------------------------------------------------------
(* Types, readings and duties.                                             *)

LEMMA GuardTypes ==
    ASSUME GuardTypeOK
    PROVE  /\ x \in Int /\ readAt \in Int /\ origin \in Int /\ offset \in Int
           /\ prevPos \in Encoder /\ unseen \in Nat /\ unseen <= MaxUnseen
           /\ offset # Unknown /\ mode \in {0, 2}
           /\ Step \in Nat /\ MaxUnseen \in Nat /\ PwmMax \in Nat
           /\ PosMin \in Int /\ PosMax \in Int /\ PosMin < PosMax /\ 0 <= PosMin
           /\ PosMax < Resolution
  BY TravelAssumption, LawAssumption, UnknownAssumption, Circle
  DEF GuardTypeOK, Modes, Encoder

\* The limits judge a reading in the corrected frame, whichever it came in.
LEMMA ReportIsJudged ==
    ASSUME GuardTypeOK, NEW where \in Int
    PROVE  /\ Report(where) \in Encoder
           /\ LimitPosition(Report(where)) = (where - offset) % Resolution
<1>1. offset \in Int /\ offset # Unknown /\ mode \in {0, 2}
  BY GuardTypes
<1>2. CASE mode = 0
  <2>1. Report(where) = (where - offset) % Resolution
    BY <1>2 DEF Report
  <2>2. (where - offset) % Resolution \in Encoder
    BY <1>1, Remainder
  <2> QED
    BY <1>2, <2>1, <2>2 DEF LimitPosition, SoftLimitPosition, FrameOfMode
<1>3. CASE mode = 2
  <2> DEFINE raw == where % Resolution
  <2>1. Report(where) = raw /\ raw \in Encoder
    BY <1>3, Remainder DEF Report
  <2>2. LimitPosition(Report(where)) = (raw - offset) % Resolution
    BY <1>1, <1>3, <2>1 DEF LimitPosition, SoftLimitPosition, FrameOfMode
  <2>3. PICK q \in Int : where = q * Resolution + raw
    BY Remainder, Zenon
  <2>4. (where - offset) % Resolution = (raw - offset) % Resolution
    <3> HIDE DEF raw
    <3>1. raw \in Int /\ Resolution \in Int
      BY <2>1, Circle DEF Encoder
    <3>2. where - offset \in Int /\ raw - offset \in Int
          /\ where - offset = (raw - offset) + q * Resolution
      BY <1>1, <2>3, <3>1
    <3> QED
      BY <3>2, SameRemainder, Zenon
  <2> QED
    BY <2>1, <2>2, <2>4
<1> QED
  BY <1>1, <1>2, <1>3

LEMMA JudgedOnEncoder ==
    ASSUME GuardTypeOK, NEW reading \in Encoder
    PROVE  LimitPosition(reading) \in Encoder
<1>1. offset \in Int /\ reading \in Int /\ reading - offset \in Int
  BY GuardTypes, Circle DEF Encoder
<1>2. (reading - offset) % Resolution \in Encoder
  BY <1>1, Remainder
<1> QED
  BY <1>2 DEF LimitPosition, SoftLimitPosition

LEMMA InhibitionBounds ==
    ASSUME NEW p \in Int, NEW limit \in Nat, -limit <= p, p <= limit, NEW current \in Int
    PROVE  TendonInhibition(p, current, Threshold, Gain) \in -limit .. limit
<1> DEFINE m == Clamp(Abs(p) - Gain * (Abs(current) - Threshold), 0, Abs(p))
<1>1. Abs(p) \in Nat /\ Abs(p) <= limit /\ Gain * (Abs(current) - Threshold) \in Int
  BY LawAssumption DEF Abs
<1>2. m \in 0 .. Abs(p)
  BY <1>1 DEF Clamp
<1>3. m \in 0 .. limit
  <2> HIDE DEF m
  <2> QED
    BY <1>1, <1>2
<1>4. TendonInhibition(p, current, Threshold, Gain) \in {p, m, -m}
  BY DEF TendonInhibition
<1> HIDE DEF m
<1> QED
  BY <1>3, <1>4

\* Past the limits and with a memory of them, what the soft limits leave of a
\* duty is nothing, or leads the shorter way to the place remembered.
LEMMA SoftLimitsLeadBack ==
    ASSUME NEW p \in Int, NEW pos \in Int, NEW back, ~Within(pos),
           back # Unknown, SoftLimits(p, pos, PosMin, PosMax, back) # 0,
           PosMin \in Int, PosMax \in Int
    PROVE  LET out == SoftLimits(p, pos, PosMin, PosMax, back)
               escape == WrappedDelta(back, pos)
           IN  out = p /\ (escape = 0 \/ (p > 0 /\ escape > 0) \/ (p < 0 /\ escape < 0))
  BY DEF SoftLimits, Within

LEMMA DutyFacts ==
    ASSUME GuardTypeOK, NEW reading \in Encoder, Drive(reading)
    PROVE  /\ pwm' \in -PwmMax .. PwmMax
           /\ ~Within(LimitPosition(reading)) /\ inRange' # Unknown /\ inRange' \in Encoder
                => /\ pwm' > 0 => WrappedDelta(inRange', LimitPosition(reading)) >= 0
                   /\ pwm' < 0 => WrappedDelta(inRange', LimitPosition(reading)) <= 0
<1> DEFINE pos == LimitPosition(reading)
<1>1. PICK target \in Targets, current \in Currents :
        pwm' = SoftLimits(TendonInhibition(ImpedancePwm(K, D, target, reading, 0,
                                             WrappedDelta(reading, prevPos), PwmMax),
                                           current, Threshold, Gain),
                          pos, PosMin, PosMax, inRange')
  BY DEF Drive
<1> DEFINE law == ImpedancePwm(K, D, target, reading, 0, WrappedDelta(reading, prevPos), PwmMax)
           folded == TendonInhibition(law, current, Threshold, Gain)
<1>2. /\ target \in Int /\ current \in Int /\ reading \in Int /\ prevPos \in Int
      /\ K \in Nat /\ D \in Nat /\ PwmMax \in Nat /\ PosMin \in Int /\ PosMax \in Int
  BY LawAssumption, GuardTypes, Circle DEF Encoder
<1>3. law \in Int /\ -PwmMax <= law /\ law <= PwmMax
  <2>1. WrappedDelta(target, reading) \in Int /\ WrappedDelta(reading, prevPos) \in Int
    BY <1>2, WrappedIsInt
  <2>2. K * WrappedDelta(target, reading) + D * (0 - WrappedDelta(reading, prevPos)) \in Int
    BY <1>2, <2>1
  <2> QED
    BY <1>2, <2>2 DEF ImpedancePwm, Clamp
<1>4. folded \in -PwmMax .. PwmMax
  <2> HIDE DEF law
  <2> QED
    BY <1>2, <1>3, InhibitionBounds
<1>5. pwm' = SoftLimits(folded, pos, PosMin, PosMax, inRange')
  BY <1>1
<1>6. pos \in Encoder /\ pos \in Int
  BY JudgedOnEncoder, Circle DEF Encoder
<1> HIDE DEF folded, pos
<1>7. folded \in Int
  BY <1>2, <1>4
<1>8. pwm' \in {folded, 0}
  BY <1>5 DEF SoftLimits
<1>9. pwm' \in -PwmMax .. PwmMax
  BY <1>2, <1>4, <1>8
<1>10. ASSUME ~Within(pos), inRange' # Unknown, inRange' \in Encoder
       PROVE  /\ pwm' > 0 => WrappedDelta(inRange', pos) >= 0
              /\ pwm' < 0 => WrappedDelta(inRange', pos) <= 0
  <2>1. WrappedDelta(inRange', pos) \in Int
    BY <1>6, <1>10, WrappedIsInt, Circle DEF Encoder
  <2>2. CASE pwm' = 0
    BY <2>2
  <2>3. CASE pwm' # 0
    <3>1. /\ pwm' = folded
          /\ \/ WrappedDelta(inRange', pos) = 0
             \/ folded > 0 /\ WrappedDelta(inRange', pos) > 0
             \/ folded < 0 /\ WrappedDelta(inRange', pos) < 0
      BY <1>2, <1>5, <1>6, <1>7, <1>10, <2>3, SoftLimitsLeadBack
    <3> QED
      BY <1>7, <2>1, <3>1
  <2> QED
    BY <2>2, <2>3
<1> QED
  BY <1>9, <1>10 DEF pos

\* What a tick does to the memory of the limits.
LEMMA DriveFacts ==
    ASSUME GuardTypeOK, NEW reading \in Encoder, Drive(reading),
           readAt' \in Stops, crossed' \in BOOLEAN
    PROVE  /\ prevPos' = reading /\ UNCHANGED <<mode, offset>>
           /\ Within(LimitPosition(reading))
                => inRange' = LimitPosition(reading) /\ origin' = readAt' /\ stale' = crossed'
           /\ ~Within(LimitPosition(reading)) => UNCHANGED <<inRange, origin, stale>>
           /\ inRange' \in Encoder \union {Unknown} /\ origin' \in Stops /\ stale' \in BOOLEAN
<1>1. /\ prevPos' = reading /\ UNCHANGED <<mode, offset>>
      /\ Within(LimitPosition(reading))
           => inRange' = LimitPosition(reading) /\ origin' = readAt' /\ stale' = crossed'
      /\ ~Within(LimitPosition(reading)) => UNCHANGED <<inRange, origin, stale>>
  BY DEF Drive
<1>2. LimitPosition(reading) \in Encoder
  BY JudgedOnEncoder
<1> QED
  BY <1>1, <1>2 DEF GuardTypeOK

LEMMA Products ==
    ASSUME NEW a \in Nat, NEW b \in Nat, NEW c \in Nat, a <= b
    PROVE  /\ a * c \in Nat /\ b * c \in Nat /\ a * c <= b * c
           /\ (a + 1) * c = a * c + c /\ (b + 1) * c = b * c + c
<1>1. a * c \in Nat /\ b * c \in Nat /\ (b - a) * c \in Nat
  BY Z3
<1>2. b * c = a * c + (b - a) * c
  OBVIOUS
<1> QED
  BY <1>1, <1>2

-----------------------------------------------------------------------------
(* The memory is where the joint was.                                      *)

\* How far the joint is moved in a tick.
LEMMA MovesFacts ==
    ASSUME GuardTypeOK, ReadInv, Moves
    PROVE  /\ x' \in Stops /\ x' \in Int
           /\ Abs(x' - readAt) <= (unseen + 1) * Step
           /\ Abs(x' - readAt) <= Travel /\ Travel \in Nat
<1>1. /\ x \in Int /\ readAt \in Int /\ unseen \in Nat /\ unseen <= MaxUnseen
      /\ MaxUnseen \in Nat /\ Step \in Nat
  BY GuardTypes
<1>2. x' \in Stops /\ x' \in Int /\ Abs(x' - x) <= Step
  BY TravelAssumption DEF Moves
<1> DEFINE far == unseen * Step
           most == MaxUnseen * Step
<1>3. /\ far \in Nat /\ most \in Nat /\ far <= most /\ (unseen + 1) * Step = far + Step
      /\ (MaxUnseen + 1) * Step = most + Step
  BY <1>1, Products
<1>4. Abs(x - readAt) <= far
  BY DEF ReadInv
<1>5. Travel = most + Step
  BY <1>3 DEF Travel
<1> HIDE DEF far, most
<1>6. Abs(x' - readAt) <= far + Step
  BY <1>1, <1>2, <1>3, <1>4, Distance
<1>7. Abs(x' - readAt) \in Int
  BY <1>1, <1>2, Distance
<1> QED
  BY <1>1, <1>2, <1>3, <1>5, <1>6, <1>7

LEMMA GuardSeen ==
    ASSUME GuardInv, SeenTick
    PROVE  GuardInv'
<1> DEFINE reading == Report(x')
<1>1. GuardTypeOK /\ ReadInv /\ RemembersWhereItWas
  BY DEF GuardInv
<1>2. /\ Moves /\ unseen' = 0 /\ readAt' = x' /\ crossed' = FALSE /\ Drive(reading)
  BY DEF SeenTick
<1>3. x' \in Stops /\ x' \in Int
  BY <1>1, <1>2, MovesFacts
<1>4. reading \in Encoder /\ LimitPosition(reading) = (x' - offset) % Resolution
  BY <1>1, <1>3, ReportIsJudged
<1>5. /\ prevPos' = reading /\ UNCHANGED <<mode, offset>>
      /\ Within(LimitPosition(reading))
           => inRange' = LimitPosition(reading) /\ origin' = readAt' /\ stale' = crossed'
      /\ ~Within(LimitPosition(reading)) => UNCHANGED <<inRange, origin, stale>>
      /\ inRange' \in Encoder \union {Unknown} /\ origin' \in Stops /\ stale' \in BOOLEAN
  BY <1>1, <1>2, <1>3, <1>4, DriveFacts
<1>6. /\ pwm' \in -PwmMax .. PwmMax
      /\ ~Within(LimitPosition(reading)) /\ inRange' # Unknown /\ inRange' \in Encoder
           => /\ pwm' > 0 => WrappedDelta(inRange', LimitPosition(reading)) >= 0
              /\ pwm' < 0 => WrappedDelta(inRange', LimitPosition(reading)) <= 0
  BY <1>1, <1>2, <1>4, DutyFacts
<1>7. LimitPosition(prevPos)' = LimitPosition(reading) /\ Report(readAt)' = reading
  BY <1>2, <1>5 DEF LimitPosition, Report
<1> HIDE DEF reading
<1>8. GuardTypeOK'
  <2>1. unseen' \in 0 .. MaxUnseen
    BY <1>2, TravelAssumption
  <2> QED
    BY <1>1, <1>2, <1>3, <1>4, <1>5, <1>6, <2>1 DEF GuardTypeOK
<1>9. ReadInv'
  <2>1. Abs(x' - readAt') = 0 /\ unseen' * Step = 0
    BY <1>2, <1>3, TravelAssumption, Distance
  <2> QED
    BY <1>5, <1>7, <2>1 DEF ReadInv
<1>10. RemembersWhereItWas'
  BY <1>1, <1>2, <1>4, <1>5 DEF RemembersWhereItWas, Within
<1>11. PwmInv'
  BY <1>2, <1>5, <1>6, <1>7 DEF PwmInv, PastLimits, Within
<1> QED
  BY <1>8, <1>9, <1>10, <1>11 DEF GuardInv

LEMMA GuardUnseen ==
    ASSUME GuardInv, UnseenTick
    PROVE  GuardInv'
<1>1. GuardTypeOK /\ ReadInv /\ RemembersWhereItWas
  BY DEF GuardInv
<1>2. /\ Moves /\ unseen < MaxUnseen /\ unseen' = unseen + 1
      /\ UNCHANGED <<readAt, crossed>> /\ Drive(prevPos)
  BY DEF UnseenTick
<1>3. /\ unseen \in Nat /\ MaxUnseen \in Nat /\ prevPos \in Encoder /\ readAt \in Int
      /\ readAt' \in Stops /\ crossed' \in BOOLEAN
  BY <1>1, <1>2, GuardTypes DEF GuardTypeOK
<1>4. x' \in Stops /\ Abs(x' - readAt) <= (unseen + 1) * Step
  BY <1>1, <1>2, MovesFacts
<1>5. /\ prevPos' = prevPos /\ UNCHANGED <<mode, offset>>
      /\ Within(LimitPosition(prevPos))
           => inRange' = LimitPosition(prevPos) /\ origin' = readAt' /\ stale' = crossed'
      /\ ~Within(LimitPosition(prevPos)) => UNCHANGED <<inRange, origin, stale>>
      /\ inRange' \in Encoder \union {Unknown} /\ origin' \in Stops /\ stale' \in BOOLEAN
  BY <1>1, <1>2, <1>3, DriveFacts
<1>6. pwm' \in -PwmMax .. PwmMax
  BY <1>1, <1>2, <1>3, DutyFacts
<1>7. GuardTypeOK'
  BY <1>1, <1>2, <1>3, <1>4, <1>5, <1>6 DEF GuardTypeOK
<1>8. ReadInv'
  BY <1>1, <1>2, <1>4, <1>5 DEF ReadInv, Report
<1>9. RemembersWhereItWas'
  <2>1. CASE ~Within(LimitPosition(prevPos))
    BY <1>1, <1>5, <2>1 DEF RemembersWhereItWas, Within
  <2>2. CASE Within(LimitPosition(prevPos))
    <3>1. ASSUME ~stale'
          PROVE  LimitPosition(prevPos) = (readAt - offset) % Resolution
      BY <1>1, <1>2, <1>3, <1>5, <2>2, <3>1, ReportIsJudged DEF ReadInv
    <3> QED
      BY <1>2, <1>5, <2>2, <3>1 DEF RemembersWhereItWas, Within
  <2> QED
    BY <2>1, <2>2
<1>10. PwmInv'
  BY <1>2, <1>3 DEF PwmInv
<1> QED
  BY <1>7, <1>8, <1>9, <1>10 DEF GuardInv

LEMMA GuardStep ==
    ASSUME GuardInv, [GuardNext]_guardVars
    PROVE  GuardInv'
<1>1. CASE SetOperatingMode
  <2>1. /\ mode' \in Modes /\ crossed' = TRUE
        /\ UNCHANGED <<x, offset, prevPos, unseen, inRange, pwm, readAt, origin, stale>>
    BY <1>1 DEF SetOperatingMode, loop
  <2>2. GuardTypeOK'
    BY <2>1 DEF GuardInv, GuardTypeOK
  <2> QED
    BY <2>1, <2>2 DEF GuardInv, ReadInv, RemembersWhereItWas, Within, PwmInv
<1>2. CASE SetCalibration
  <2>1. /\ offset' \in Offsets /\ crossed' = TRUE /\ stale' = TRUE
        /\ UNCHANGED <<x, mode, prevPos, unseen, inRange, pwm, readAt, origin>>
    BY <1>2 DEF SetCalibration, loop
  <2>2. GuardTypeOK'
    BY <2>1 DEF GuardInv, GuardTypeOK
  <2> QED
    BY <2>1, <2>2 DEF GuardInv, ReadInv, RemembersWhereItWas, PwmInv
<1>3. CASE UNCHANGED guardVars
  BY <1>3 DEF guardVars, loop, history, GuardInv, GuardTypeOK, ReadInv, RemembersWhereItWas,
      Within, PwmInv, PastLimits, LimitPosition, Report
<1> QED
  BY <1>1, <1>2, <1>3, GuardSeen, GuardUnseen DEF GuardNext

LEMMA GuardInitial ==
    ASSUME GuardInit
    PROVE  GuardInv
<1>1. 0 \in Encoder /\ 0 \in 0 .. MaxUnseen /\ 0 \in -PwmMax .. PwmMax
  BY TravelAssumption, LawAssumption, Circle DEF Encoder
<1>2. GuardTypeOK
  BY <1>1 DEF GuardInit, GuardTypeOK
<1>3. Abs(x - readAt) = 0 /\ unseen * Step = 0
  <2>1. x \in Int /\ readAt = x /\ unseen = 0 /\ Step \in Nat
    BY TravelAssumption DEF GuardInit
  <2> QED
    BY <2>1 DEF Abs
<1>4. ReadInv
  BY <1>3 DEF GuardInit, ReadInv
<1> QED
  BY <1>2, <1>4 DEF GuardInit, GuardInv, RemembersWhereItWas, PwmInv

LEMMA GuardInvariant == GuardSpec => []GuardInv
  BY GuardInitial, GuardStep, PTL DEF GuardSpec

\* The duty keeps to its limit and what the loop remembers is a count of the
\* encoder, whatever the gains, the currents, the offsets and the travel.
THEOREM GuardTypesHold == GuardSpec => []GuardTypeOK
<1>1. GuardInv => GuardTypeOK
  BY DEF GuardInv
<1> QED
  BY <1>1, GuardInvariant, PTL

\* What the loop remembers as in range is where the joint was, in the frame of
\* the limits, unless mode or calibration changed under the reading.
THEOREM GuardRemembers == GuardSpec => []RemembersWhereItWas
<1>1. GuardInv => RemembersWhereItWas
  BY DEF GuardInv
<1> QED
  BY <1>1, GuardInvariant, PTL

-----------------------------------------------------------------------------
(* The way back.                                                           *)

\* A place not within the limits is in a gap between them.
LEMMA BeyondLimits ==
    ASSUME GuardTypeOK, NEW where \in Int, ~Within((where - offset) % Resolution)
    PROVE  Beyond(where) \in 0 .. Gap
<1> DEFINE pos == (where - offset) % Resolution
<1>1. /\ offset \in Int /\ where - offset \in Int /\ PosMin \in Int /\ PosMax \in Int
      /\ PosMin < PosMax /\ 0 <= PosMin /\ PosMax < Resolution
  BY GuardTypes
<1>2. pos \in Encoder
  BY <1>1, Remainder
<1>3. PICK q \in Int : where - offset = q * Resolution + pos
  BY <1>1, Remainder, Zenon
<1>4. pos <= PosMin \/ pos >= PosMax
  BY <1>1, <1>2, Circle DEF Within, Encoder
<1> HIDE DEF pos
<1>5. pos \in Int /\ 0 <= pos /\ pos < Resolution
  BY <1>2, Circle DEF Encoder
<1>6. CASE pos >= PosMax
  <2>1. pos - PosMax \in Encoder /\ pos - PosMax \in 0 .. Gap
    BY <1>1, <1>5, <1>6, Circle DEF Encoder, Gap
  <2>2. where - offset - PosMax = q * Resolution + (pos - PosMax)
    BY <1>1, <1>3, <1>5, Multiples
  <2>3. (q * Resolution + (pos - PosMax)) % Resolution = pos - PosMax
    BY <2>1, RemainderIsUnique
  <2> QED
    BY <2>1, <2>2, <2>3 DEF Beyond
<1>7. CASE pos <= PosMin
  <2> DEFINE r == pos - PosMax + Resolution
  <2>1. r \in Encoder /\ r \in 0 .. Gap
    BY <1>1, <1>5, <1>7, Circle DEF Encoder, Gap
  <2>2. q - 1 \in Int /\ where - offset - PosMax = (q - 1) * Resolution + r
    BY <1>1, <1>3, <1>5, Circle
  <2>3. ((q - 1) * Resolution + r) % Resolution = r
    <3> HIDE DEF r
    <3> QED
      BY <2>1, <2>2, RemainderIsUnique
  <2> QED
    BY <2>1, <2>2, <2>3 DEF Beyond
<1> QED
  BY <1>4, <1>6, <1>7

\* Two places of gaps, no further apart than a travel, are in the same gap:
\* the limits are too far apart for the joint to have passed from one to the
\* other unseen.
LEMMA SameGap ==
    ASSUME GuardTypeOK, GapIsNarrow, NEW u \in Int, NEW v \in Int,
           Beyond(u) \in 0 .. Gap, Beyond(v) \in 0 .. Gap,
           Travel \in Nat, Abs(u - v) <= Travel
    PROVE  Beyond(u) - Beyond(v) = u - v
<1>1. offset \in Int /\ PosMax \in Int /\ PosMin \in Int
  BY GuardTypes
<1>2. PICK m \in Int :
        Beyond(u) - Beyond(v) = ((u - offset - PosMax) - (v - offset - PosMax)) + m * Resolution
  <2>1. u - offset - PosMax \in Int /\ v - offset - PosMax \in Int
    BY <1>1
  <2> QED
    BY <2>1, CountsDiffer DEF Beyond
<1> DEFINE turns == m * Resolution
<1>3. turns \in Int /\ (m >= 1 => turns >= Resolution) /\ (m <= -1 => turns <= -Resolution)
      /\ (m = 0 => turns = 0)
  BY Multiples, Circle
<1>4. Beyond(u) - Beyond(v) = (u - v) + turns
  BY <1>1, <1>2, <1>3
<1> HIDE DEF turns
<1> DEFINE a == Beyond(u)
           b == Beyond(v)
<1>5. a \in Int /\ b \in Int /\ 0 <= a /\ 0 <= b /\ a <= Gap /\ b <= Gap /\ Gap \in Int
  BY <1>1, Circle DEF Gap
<1> HIDE DEF a, b
<1>6. a - b = (u - v) + turns
  BY <1>4 DEF a, b
<1>7. Gap + Travel < Half
  BY DEF GapIsNarrow
<1>8. u - v <= Travel /\ v - u <= Travel
  BY DEF Abs
<1>9. m = 0
  BY <1>3, <1>5, <1>6, <1>7, <1>8, Circle
<1> QED
  BY <1>3, <1>6, <1>9 DEF a, b

\* The first place past the limits.
LEMMA GapEntered ==
    ASSUME NEW b \in Int, NEW r \in Int, NEW y \in Int, NEW gap \in Int, NEW far \in Int,
           b \in 0 .. gap, y - r <= far, r - y <= far
    PROVE  b + (r - y) \in -far .. gap + far
  OBVIOUS

\* From one place past the limits to the next.
LEMMA GapKept ==
    ASSUME NEW a \in Int, NEW b \in Int, NEW from \in Int, NEW r \in Int, NEW y \in Int,
           NEW gap \in Int, NEW far \in Int,
           b - a = y - r, a + (from - r) \in -far .. gap + far
    PROVE  b + (from - y) \in -far .. gap + far
  OBVIOUS

LEMMA OriginStep ==
    ASSUME GapIsNarrow, GuardInv, OriginInv, [GuardNext]_guardVars
    PROVE  OriginInv'
<1>1. GuardTypeOK /\ ReadInv
  BY DEF GuardInv
<1>2. CASE SeenTick
  <2> DEFINE reading == Report(x')
  <2>1. Moves /\ readAt' = x' /\ crossed' = FALSE /\ Drive(reading)
    BY <1>2 DEF SeenTick
  <2>2. x' \in Stops /\ x' \in Int /\ Abs(x' - readAt) <= Travel /\ Travel \in Nat
    BY <1>1, <2>1, MovesFacts
  <2>3. reading \in Encoder /\ LimitPosition(reading) = (x' - offset) % Resolution
    BY <1>1, <2>2, ReportIsJudged
  <2>4. /\ UNCHANGED offset
        /\ Within(LimitPosition(reading)) => origin' = readAt'
        /\ ~Within(LimitPosition(reading)) => UNCHANGED <<inRange, origin, stale>>
    BY <1>1, <2>1, <2>2, <2>3, DriveFacts
  <2> HIDE DEF reading
  <2> DEFINE b == (x' - offset - PosMax) % Resolution
  <2> SUFFICES ASSUME inRange' # Unknown, ~stale', readAt' # origin'
               PROVE  b \in 0 .. Gap /\ b + (origin' - x') \in -Travel .. Gap + Travel
    BY <2>1, <2>4 DEF OriginInv, Beyond
  <2>5. ~Within((x' - offset) % Resolution) /\ UNCHANGED <<inRange, origin, stale>>
    BY <2>3, <2>4
  <2>6. b \in 0 .. Gap
    BY <1>1, <2>2, <2>5, BeyondLimits DEF Beyond
  <2>7. /\ Gap \in Int /\ b \in Int /\ origin \in Int /\ readAt \in Int
        /\ x' - readAt <= Travel /\ readAt - x' <= Travel
    BY <1>1, <2>2, <2>6, GuardTypes, Circle DEF Gap, Abs
  <2>8. b + (origin - x') \in -Travel .. Gap + Travel
    <3>1. CASE readAt = origin
      <4> HIDE DEF b
      <4>1. b + (readAt - x') \in -Travel .. Gap + Travel
        <5>1. Travel \in Int /\ x' \in Int
          BY <2>2
        <5> QED
          BY <2>6, <2>7, <5>1, GapEntered
      <4> QED
        BY <3>1, <4>1
    <3>2. CASE readAt # origin
      <4>1. /\ Beyond(readAt) \in 0 .. Gap
            /\ Beyond(readAt) + (origin - readAt) \in -Travel .. Gap + Travel
        BY <2>5, <3>2 DEF OriginInv
      <4>2. b - Beyond(readAt) = x' - readAt
        <5>1. Beyond(x') \in 0 .. Gap
          BY <2>6 DEF Beyond
        <5> QED
          BY <1>1, <2>2, <2>7, <4>1, <5>1, SameGap DEF Beyond
      <4>3. Beyond(readAt) \in Int
        BY <2>7, <4>1
      <4> QED
        BY <2>2, <2>7, <4>1, <4>2, <4>3, GapKept
    <3> QED
      BY <3>1, <3>2
  <2> QED
    BY <2>5, <2>6, <2>8
<1>3. CASE UnseenTick
  <2>1. UNCHANGED <<readAt, crossed>> /\ Drive(prevPos)
    BY <1>3 DEF UnseenTick
  <2>2. prevPos \in Encoder /\ readAt' \in Stops /\ crossed' \in BOOLEAN
    BY <1>1, <2>1 DEF GuardTypeOK
  <2>3. /\ UNCHANGED offset
        /\ Within(LimitPosition(prevPos)) => origin' = readAt'
        /\ ~Within(LimitPosition(prevPos)) => UNCHANGED <<inRange, origin, stale>>
    BY <1>1, <2>1, <2>2, DriveFacts
  <2> QED
    BY <2>1, <2>3 DEF OriginInv, Beyond
<1>4. CASE SetOperatingMode
  BY <1>4 DEF SetOperatingMode, loop, OriginInv, Beyond
<1>5. CASE SetCalibration
  BY <1>5 DEF SetCalibration, OriginInv
<1>6. CASE UNCHANGED guardVars
  BY <1>6 DEF guardVars, loop, history, OriginInv, Beyond
<1> QED
  BY <1>2, <1>3, <1>4, <1>5, <1>6 DEF GuardNext

\* A joint seen past its limits is driven only toward the place it left them
\* from, also across the seam and against the spring: whenever half a turn is
\* more than the gap between the limits and what the joint can be moved between
\* two readings.
THEOREM GuardDrivesBack ==
    ASSUME GapIsNarrow
    PROVE  GuardSpec => []DrivenBackTheWayItLeft
<1>1. GuardInit => OriginInv
  BY DEF GuardInit, OriginInv
<1>2. GuardInv /\ OriginInv /\ [GuardNext]_guardVars => OriginInv'
  BY OriginStep
<1>3. ASSUME GuardInv, OriginInv PROVE DrivenBackTheWayItLeft
  <2> SUFFICES ASSUME ~stale, unseen = 0, ~crossed, PastLimits, inRange # Unknown
               PROVE  (pwm > 0 => origin > x) /\ (pwm < 0 => origin < x)
    BY DEF DrivenBackTheWayItLeft, DrivesBack
  <2>1. GuardTypeOK /\ ReadInv /\ RemembersWhereItWas /\ PwmInv
    BY <1>3 DEF GuardInv
  <2>2. /\ x \in Int /\ origin \in Int /\ offset \in Int /\ x - offset \in Int
        /\ origin - offset \in Int /\ pwm \in Int
        /\ PosMin \in Int /\ PosMax \in Int /\ Step \in Nat /\ MaxUnseen \in Nat
    BY <2>1, GuardTypes DEF GuardTypeOK
  <2>3. x = readAt /\ prevPos = Report(x)
    BY <2>1 DEF PwmInv, ReadInv
  <2>4. LimitPosition(prevPos) = (x - offset) % Resolution
    BY <2>1, <2>2, <2>3, ReportIsJudged
  <2>5. inRange = (origin - offset) % Resolution /\ Within(inRange)
    BY <2>1 DEF RemembersWhereItWas
  <2>6. origin # x
    BY <2>4, <2>5 DEF PastLimits
  <2> DEFINE b == Beyond(x)
  <2>7. b \in 0 .. Gap /\ b + (origin - x) \in -Travel .. Gap + Travel
    BY <1>3, <2>3, <2>6 DEF OriginInv
  <2>8. Gap \in Int /\ Travel \in Nat /\ Gap + Travel < Half
    BY <2>2, Products, Circle DEF Gap, Travel, GapIsNarrow
  <2> HIDE DEF b
  <2>9. origin - x < Half /\ x - origin < Half
    BY <2>2, <2>7, <2>8, Circle
  <2>10. (origin - offset) - (x - offset) < Half /\ (x - offset) - (origin - offset) < Half
    BY <2>2, <2>9
  <2>11. WrappedDelta(inRange, LimitPosition(prevPos)) = (origin - offset) - (x - offset)
    BY <2>2, <2>4, <2>5, <2>10, WrappedNear
  <2>12. /\ pwm > 0 => WrappedDelta(inRange, LimitPosition(prevPos)) >= 0
         /\ pwm < 0 => WrappedDelta(inRange, LimitPosition(prevPos)) <= 0
    BY <2>1 DEF PwmInv
  <2> QED
    BY <2>2, <2>6, <2>11, <2>12
<1> QED
  BY <1>1, <1>2, <1>3, GuardInvariant, PTL DEF GuardSpec
=============================================================================

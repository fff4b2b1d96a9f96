--------------------------- MODULE ReleaseProofs ----------------------------
(***************************************************************************)
(* That the daemon lets go of the arm or says that it did not, for any     *)
(* number of servos, any modes and any number of faults.                   *)
(*                                                                         *)
(* Neither property is inductive.  What carries them is how far each stage *)
(* of release_all has got: a servo the torque stage is past is released    *)
(* unless one of its transactions slipped, and an energised one that the   *)
(* readback is past comes after one in stillOn, or is one.  The first that *)
(* another's answer passed for comes after the one whose readback timed    *)
(* out, and that one is named; so an answer on its way is always of a      *)
(* servo that comes after a named one.                                     *)
(***************************************************************************)
EXTENDS Release, TLAPS

\* Servos the torque stage has dealt with.
Cleared ==
    IF pc = "torque" THEN 1 .. at - 1
    ELSE IF pc \in {"readback", "exited"} THEN Servos
    ELSE {}

\* Servos that have been read back.
ReadBack ==
    IF pc = "readback" THEN 1 .. at - 1
    ELSE IF pc = "exited" THEN Servos
    ELSE {}

ClearedAreReleased == \A i \in Cleared : i \notin slipped => servo[i].torque = 0

\* A servo of the report is this one or one before it.
NamedBy(i) == \E j \in 1 .. i : j \in stillOn

EnergisedComeAfterNamed == \A i \in ReadBack : servo[i].torque # 0 => NamedBy(i)

\* An answer that is late is of a servo that has been read back.
LateComesAfterNamed ==
    /\ pc \in {"drive", "check", "duty", "torque"} => late = 0
    /\ pc = "readback" /\ late # 0 => late < at /\ NamedBy(late)

KilledBySecond == pc # "killed" => signals < 2

IInv ==
    /\ TypeOK
    /\ KilledBySecond
    /\ ClearedAreReleased
    /\ EnergisedComeAfterNamed
    /\ LateComesAfterNamed
    /\ ReleasedUnlessSlipped

\* A write of the duty or of the torque leaves a servo a servo, and the write
\* of 0 to the torque releases it: the register is not in EPROM.
LEMMA WrittenIsServo ==
    ASSUME NEW s \in Servo, NEW register \in {"duty", "torque"}
    PROVE  /\ Written(s, register, 0) \subseteq Servo
           /\ register = "torque" => \A t \in Written(s, register, 0) : t.torque = 0
<1>1. CASE register = "duty"
  <2>1. [s EXCEPT !.torque = 1] \in Servo
    BY DEF Servo, Registers
  <2> QED BY <1>1, <2>1 DEF Written
<1>2. CASE register = "torque"
  <2>1. Written(s, register, 0) = {[s EXCEPT ![register] = 0]}
    BY <1>2 DEF Written, Registers, Eprom
  <2>2. [s EXCEPT ![register] = 0] \in Servo /\ [s EXCEPT ![register] = 0].torque = 0
    BY <1>2 DEF Servo, Registers
  <2> QED BY <2>1, <2>2
<1> QED BY <1>1, <1>2

\* Where a stage of release_all goes from servo `at`.
LEMMA AdvanceSteps ==
    ASSUME TypeOK, Advance, pc \in {"duty", "torque", "readback"}
    PROVE  \/ at < N /\ at' = at + 1 /\ pc' = pc
           \/ /\ at = N /\ at' = 1
              /\ \/ pc = "duty" /\ pc' = "torque"
                 \/ pc = "torque" /\ pc' = "readback"
                 \/ pc = "readback" /\ pc' = "exited"
<1>1. at \in 1 .. N /\ N \in Nat
  BY SizeAssumption DEF TypeOK, Servos
<1>2. CASE at < N
  BY <1>2 DEF Advance
<1>3. CASE ~(at < N)
  <2>1. at = N /\ at' = 1
    BY <1>1, <1>3 DEF Advance
  <2>2. PICK k \in 1 .. 3 : pc = Stages[k] /\ pc' = Stages[k + 1]
    BY <1>3 DEF Advance
  <2>3. /\ Stages[1] = "duty" /\ Stages[2] = "torque"
        /\ Stages[3] = "readback" /\ Stages[4] = "exited"
    BY DEF Stages
  <2>4. k = 1 \/ k = 2 \/ k = 3
    OBVIOUS
  <2> QED BY <2>1, <2>2, <2>3, <2>4
<1> QED BY <1>2, <1>3

\* The daemon starts in the loop, with nothing released and nothing to report.
LEMMA InitInv == Init => IInv
<1> SUFFICES ASSUME Init PROVE IInv
  OBVIOUS
<1>1. N \in Nat \ {0} /\ MaxFaults \in Nat
  BY SizeAssumption
<1>2. \A m \in Modes : Limp(m) \in Servo
  BY SizeAssumption DEF Limp, Servo, Registers
<1>3. servo \in [Servos -> Servo]
  <2>1. servo \in [Servos -> {Limp(m) : m \in Modes}]
    BY DEF Init
  <2>2. {Limp(m) : m \in Modes} \subseteq Servo
    BY <1>2
  <2> QED BY <2>1, <2>2
<1>4. 1 \in Servos /\ 0 \in 0 .. MaxFaults /\ 0 \in 0 .. N
  BY <1>1 DEF Servos
<1>5. pc \in {"drive", "check", "duty", "torque", "readback", "exited", "killed"}
  BY DEF Init
<1>6. stillOn \subseteq Servos /\ slipped \subseteq Servos
  BY DEF Init
<1>7. commanded \in BOOLEAN
  BY Zenon DEF Init
<1>8. at \in Servos /\ signals \in 0 .. 2 /\ faults \in 0 .. MaxFaults /\ late \in 0 .. N
  BY <1>4 DEF Init
<1>9. TypeOK
  BY <1>3, <1>5, <1>6, <1>7, <1>8, Zenon DEF TypeOK
<1> QED
  BY <1>9 DEF Init, IInv, KilledBySecond, ClearedAreReleased, Cleared, EnergisedComeAfterNamed,
              ReadBack, LateComesAfterNamed, ReleasedUnlessSlipped

\* In the loop and between its stages nothing is cleared or read back yet, so
\* only the types have to be kept.
LEMMA LoopInv ==
    ASSUME IInv, Drive \/ Continue \/ Leave
    PROVE  IInv'
<1> USE DEF IInv
<1>1. CASE Drive
  <2>1. servo' \in [Servos -> Servo]
    <3>1. PICK reached \in SUBSET Servos :
             servo' \in {s \in [Servos -> UNION {Written(servo[i], "duty", 0) \union {servo[i]} :
                                                i \in Servos}] :
                          \A i \in Servos :
                             IF i \in reached THEN s[i] \in Written(servo[i], "duty", 0)
                                              ELSE s[i] = servo[i]}
      BY <1>1 DEF Drive
    <3>2. \A i \in Servos : Written(servo[i], "duty", 0) \subseteq Servo
      BY WrittenIsServo DEF TypeOK
    <3>3. \A i \in Servos : servo'[i] \in Servo
      BY <3>1, <3>2 DEF TypeOK
    <3> QED BY <3>1, <3>3
  <2>2. TypeOK'
    BY <1>1, <2>1 DEF Drive, TypeOK
  <2> QED
    BY <1>1, <2>2 DEF Drive, KilledBySecond, ClearedAreReleased, Cleared,
                      EnergisedComeAfterNamed, ReadBack, LateComesAfterNamed, NamedBy,
                      ReleasedUnlessSlipped
<1>2. CASE Continue
  BY <1>2 DEF Continue, TypeOK, KilledBySecond, ClearedAreReleased, Cleared,
              EnergisedComeAfterNamed, ReadBack, LateComesAfterNamed, NamedBy,
              ReleasedUnlessSlipped
<1>3. CASE Leave
  <2>1. pc' = "duty"
    BY <1>3 DEF Leave, Stages
  <2> QED
    BY <1>3, <2>1 DEF Leave, TypeOK, KilledBySecond, ClearedAreReleased, Cleared,
                      EnergisedComeAfterNamed, ReadBack, LateComesAfterNamed, NamedBy,
                      ReleasedUnlessSlipped
<1> QED BY <1>1, <1>2, <1>3

\* A second signal leaves with whatever has been done, and promises nothing.
LEMMA SignalInv ==
    ASSUME IInv, Signal
    PROVE  IInv'
<1> USE DEF IInv
<1>1. signals \in {0, 1} /\ signals' = signals + 1
  BY DEF Signal, KilledBySecond, TypeOK
<1>2. CASE signals = 0
  BY <1>1, <1>2 DEF Signal, TypeOK, KilledBySecond, ClearedAreReleased, Cleared,
                    EnergisedComeAfterNamed, ReadBack, LateComesAfterNamed, NamedBy,
                    ReleasedUnlessSlipped
<1>3. CASE signals = 1
  BY <1>1, <1>3 DEF Signal, TypeOK, KilledBySecond, ClearedAreReleased, Cleared,
                    EnergisedComeAfterNamed, ReadBack, LateComesAfterNamed, NamedBy,
                    ReleasedUnlessSlipped
<1> QED BY <1>1, <1>2, <1>3

\* A write of release_all, whether it slipped or not.
LEMMA ReleaseWriteInv ==
    ASSUME IInv, ReleaseWrite
    PROVE  IInv'
<1> USE DEF IInv
<1>1. /\ pc \in {"duty", "torque"} /\ at \in Servos
      /\ servo[at] \in Servo /\ slipped \subseteq Servos /\ N \in Nat
  BY SizeAssumption DEF ReleaseWrite, TypeOK
<1>2. /\ Written(servo[at], pc, 0) \subseteq Servo
      /\ pc = "torque" => \A t \in Written(servo[at], pc, 0) : t.torque = 0
  BY <1>1, WrittenIsServo
<1>3. \/ /\ slipped' = slipped /\ faults' = faults
         /\ \E t \in Written(servo[at], pc, 0) : servo' = [servo EXCEPT ![at] = t]
      \/ /\ slipped' = slipped \union {at} /\ faults < MaxFaults /\ faults' = faults + 1
         /\ \E t \in Written(servo[at], pc, 0) \union {servo[at]} :
               servo' = [servo EXCEPT ![at] = t]
  BY DEF ReleaseWrite, Fault, NoFault, WriteTakes, WriteSlips
<1>4. PICK t \in Servo : servo' = [servo EXCEPT ![at] = t]
  BY <1>1, <1>2, <1>3
<1>5. \/ at < N /\ at' = at + 1 /\ pc' = pc
      \/ /\ at = N /\ at' = 1
         /\ \/ pc = "duty" /\ pc' = "torque"
            \/ pc = "torque" /\ pc' = "readback"
  BY AdvanceSteps, <1>1 DEF ReleaseWrite
<1>6. TypeOK'
  <2>1. servo' \in [Servos -> Servo]
    BY <1>4 DEF TypeOK
  <2>2. at' \in Servos
    BY <1>1, <1>5 DEF Servos
  <2>3. slipped' \subseteq Servos /\ faults' \in 0 .. MaxFaults
    BY <1>1, <1>3, SizeAssumption DEF TypeOK
  <2> QED BY <1>1, <1>5, <2>1, <2>2, <2>3 DEF ReleaseWrite, TypeOK
<1>7. ClearedAreReleased'
  <2>1. \A i \in Servos \ {at} : servo'[i] = servo[i] /\ (i \notin slipped' => i \notin slipped)
    BY <1>1, <1>3 DEF TypeOK
  <2>2. pc = "torque" /\ at \notin slipped' => servo'[at].torque = 0
    BY <1>1, <1>2, <1>3 DEF TypeOK
  <2>3. Cleared' \subseteq Cleared \union (IF pc = "torque" THEN {at} ELSE {})
    BY <1>1, <1>5 DEF Cleared, Servos
  <2>4. Cleared \subseteq Servos /\ at \notin Cleared
    BY <1>1 DEF Cleared, Servos
  <2> QED BY <1>1, <2>1, <2>2, <2>3, <2>4 DEF ClearedAreReleased
<1>8. EnergisedComeAfterNamed'
  <2>1. ReadBack' = {}
    BY <1>1, <1>5 DEF ReadBack
  <2> QED BY <2>1 DEF EnergisedComeAfterNamed
<1>9. KilledBySecond' /\ ReleasedUnlessSlipped'
  BY <1>1, <1>3, <1>5 DEF ReleaseWrite, KilledBySecond, ReleasedUnlessSlipped
<1>10. LateComesAfterNamed'
  BY <1>1 DEF ReleaseWrite, LateComesAfterNamed
<1> QED BY <1>6, <1>7, <1>8, <1>9, <1>10

\* A readback of release_all, answered by its servo, by none, or by one read
\* before.
LEMMA ReleaseReadInv ==
    ASSUME IInv, ReleaseRead
    PROVE  IInv'
<1> USE DEF IInv
<1>1. /\ pc = "readback" /\ at \in Servos /\ slipped \subseteq Servos
      /\ servo' = servo /\ signals' = signals /\ commanded' = commanded /\ N \in Nat
      /\ late \in 0 .. N
  BY SizeAssumption DEF ReleaseRead, TypeOK
<1>2. \/ at < N /\ at' = at + 1 /\ pc' = "readback"
      \/ at = N /\ at' = 1 /\ pc' = "exited"
  BY AdvanceSteps, <1>1 DEF ReleaseRead
<1> DEFINE Own  == /\ slipped' = slipped /\ faults' = faults
                   /\ stillOn' = IF servo[at].torque = 0 THEN stillOn ELSE stillOn \union {at}
                   /\ late' \in {0, late}
           None == /\ slipped' = slipped \union {at}
                   /\ faults < MaxFaults /\ faults' = faults + 1
                   /\ stillOn' = stillOn \union {at}
                   /\ late' \in {0, late, at}
           Past == /\ late # 0
                   /\ slipped' = slipped \union {at} /\ faults' = faults
                   /\ stillOn' = IF servo[late].torque = 0 THEN stillOn ELSE stillOn \union {at}
                   /\ late' \in {0, at}
<1>3. Own \/ None \/ Past
  BY DEF ReleaseRead, Fault, NoFault, StillOn
<1>4. at \notin slipped => servo[at].torque = 0
  BY <1>1 DEF ClearedAreReleased, Cleared
<1>5. TypeOK'
  <2>1. at' \in Servos
    BY <1>1, <1>2 DEF Servos
  <2>2. stillOn' \subseteq Servos /\ slipped' \subseteq Servos
    BY <1>1, <1>3 DEF TypeOK
  <2>3. faults' \in 0 .. MaxFaults
    BY <1>3, SizeAssumption DEF TypeOK
  <2>4. late' \in 0 .. N
    BY <1>1, <1>3 DEF Servos
  <2> QED BY <1>1, <1>2, <2>1, <2>2, <2>3, <2>4 DEF TypeOK
<1>6. ClearedAreReleased'
  <2>1. slipped \subseteq slipped'
    BY <1>3
  <2> QED BY <1>1, <1>2, <2>1 DEF ClearedAreReleased, Cleared
\* Whoever answered, the servo or one before it is in the report now if it is
\* energised, or if its own answer is yet to come.
<1>7. stillOn \subseteq stillOn'
  BY <1>3
<1>8. ASSUME servo[at].torque # 0 \/ (late' = at /\ late # at)
      PROVE  \E j \in 1 .. at : j \in stillOn'
  <2>1. at \in 1 .. at
    BY <1>1 DEF Servos
  <2>2. CASE at \in stillOn'
    BY <2>1, <2>2
  <2>3. CASE at \notin stillOn'
    <3>1. Past
      BY <1>1, <1>3, <1>8, <2>3 DEF Servos
    <3>2. PICK j \in 1 .. late : j \in stillOn
      BY <1>1, <3>1 DEF LateComesAfterNamed, NamedBy
    <3>3. late < at
      BY <1>1, <3>1 DEF LateComesAfterNamed
    <3>4. j \in 1 .. at
      BY <1>1, <3>2, <3>3 DEF Servos
    <3> QED BY <1>7, <3>2, <3>4
  <2> QED BY <2>2, <2>3
<1>9. EnergisedComeAfterNamed'
  <2>1. ReadBack' \subseteq ReadBack \union {at}
    BY <1>1, <1>2 DEF ReadBack, Servos
  <2> QED BY <1>1, <1>7, <1>8, <2>1 DEF EnergisedComeAfterNamed, NamedBy
<1>10. LateComesAfterNamed'
  <2>1. SUFFICES ASSUME pc' = "readback", late' # 0
                 PROVE  late' < at' /\ NamedBy(late)'
    BY <1>2 DEF LateComesAfterNamed
  <2>2. late' = late \/ late' = at
    BY <1>3, <2>1
  <2>3. at' = at + 1
    BY <1>2, <2>1
  <2>4. late # 0 => late < at /\ \E j \in 1 .. late : j \in stillOn
    BY <1>1 DEF LateComesAfterNamed, NamedBy
  <2>5. CASE late' = late
    BY <1>1, <1>7, <2>1, <2>3, <2>4, <2>5 DEF NamedBy, Servos
  <2>6. CASE late' # late
    <3>1. late' = at /\ late # at
      BY <2>2, <2>6
    <3>2. \E j \in 1 .. at : j \in stillOn'
      BY <1>8, <3>1
    <3> QED BY <1>1, <2>3, <3>1, <3>2 DEF NamedBy, Servos
  <2> QED BY <2>5, <2>6
<1>11. ReleasedUnlessSlipped'
  BY <1>3, <1>4 DEF ReleasedUnlessSlipped
<1>12. KilledBySecond'
  BY <1>1, <1>2 DEF KilledBySecond
<1> QED BY <1>5, <1>6, <1>9, <1>10, <1>11, <1>12

\* The strengthened invariant is inductive.
LEMMA NextInv ==
    ASSUME IInv, [Next]_vars
    PROVE  IInv'
<1>1. CASE Daemon
  BY <1>1, LoopInv, ReleaseWriteInv, ReleaseReadInv DEF Daemon
<1>2. CASE Signal
  BY <1>2, SignalInv
<1>3. CASE UNCHANGED vars
  BY <1>3 DEF vars, IInv, TypeOK, KilledBySecond, ClearedAreReleased, Cleared,
              EnergisedComeAfterNamed, ReadBack, LateComesAfterNamed, NamedBy,
              ReleasedUnlessSlipped
<1> QED BY <1>1, <1>2, <1>3 DEF Next

\* The first state has the invariant and every step keeps it.
LEMMA Invariance == Spec => []IInv
<1>1. IInv /\ [Next]_vars => IInv'
  BY NextInv
<1> QED BY InitInv, <1>1, PTL DEF Spec

-----------------------------------------------------------------------------

\* The variables of the shutdown keep their types, and no signal is counted
\* after the one that ends the process.
THEOREM ReleaseTypeOK == Spec => []TypeOK
<1>1. IInv => TypeOK
  BY DEF IInv
<1> QED BY Invariance, <1>1, PTL

\* release_all names a servo at or before every one it leaves energised, so it
\* never takes a driven arm for a released one: for any number of servos,
\* however many transactions go wrong and whichever answers pass for others.
THEOREM ReleaseReportsEnergised == Spec => []EnergisedFollowsNamed
<1>1. IInv => EnergisedFollowsNamed
  BY DEF IInv, EnergisedComeAfterNamed, NamedBy, ReadBack, EnergisedFollowsNamed
<1> QED BY Invariance, <1>1, PTL

\* release_all clears duty and torque in the order that works: a servo it
\* reports had a transaction of its own go wrong.
THEOREM ReleaseReleases == Spec => []ReleasedUnlessSlipped
<1>1. IInv => ReleasedUnlessSlipped
  BY DEF IInv
<1> QED BY Invariance, <1>1, PTL

=============================================================================

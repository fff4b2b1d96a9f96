------------------------------ MODULE Release -------------------------------
(***************************************************************************)
(* How the daemon lets go of the arm.  Each tick it hands every servo a    *)
(* duty in one SYNC_WRITE that nobody answers and that re-arms the torque; *)
(* once a signal or the Shutdown command asks it to, it leaves the loop    *)
(* and runs release_all: every duty, then every torque, then a readback of *)
(* every torque.  The bus goes wrong in the ways of module ServoBus.       *)
(***************************************************************************)
EXTENDS ServoBus

CONSTANTS
    N,              \* servos, with ids 1 .. N
    Modes,          \* operating modes the servos may be left in
    MaxFaults       \* bound: bus transactions that go wrong

ASSUME SizeAssumption == N \in Nat \ {0} /\ Modes \subseteq Nat /\ MaxFaults \in Nat

VARIABLES
    pc,             \* "drive", "check", a stage of release_all, or its end
    at,             \* the servo the stage has come to
    stillOn,        \* still_on
    signals,        \* SIGINT and SIGTERM received
    commanded,      \* this tick applied the Shutdown command
    servo,          \* per servo, the registers kept
    late,           \* servo whose answer to a readback is on its way after
                    \* the daemon gave it up, or 0
    \* History, but for the guard that names the bound.
    slipped,        \* servos with a faulty transaction in release_all
    faults          \* transactions that went wrong

vars == <<pc, at, stillOn, signals, commanded, servo, late, slipped, faults>>

Servos == 1 .. N

\* Slip: torque off first, as a reader who does not know about the re-arming
\* would write it.
StagesTorqueFirst == <<"torque", "duty", "readback", "exited">>

Stages == <<"duty", "torque", "readback", "exited">>

TypeOK ==
    /\ pc \in {"drive", "check", "duty", "torque", "readback", "exited", "killed"}
    /\ at \in Servos
    /\ stillOn \subseteq Servos
    /\ signals \in 0 .. 2
    /\ commanded \in BOOLEAN
    /\ servo \in [Servos -> Servo]
    /\ late \in 0 .. N
    /\ slipped \subseteq Servos
    /\ faults \in 0 .. MaxFaults

Init ==
    /\ pc = "drive"
    /\ at = 1
    /\ stillOn = {}
    /\ signals = 0
    /\ commanded = FALSE
    /\ servo \in [Servos -> {Limp(m) : m \in Modes}]
    /\ late = 0
    /\ slipped = {}
    /\ faults = 0

-----------------------------------------------------------------------------
(* The loop.                                                               *)

\* One tick up to its last statement, with whatever part of the SYNC_WRITE
\* the servos caught.
Drive ==
    /\ pc = "drive"
    /\ commanded' \in BOOLEAN
    /\ \E reached \in SUBSET Servos :
          servo' \in {s \in [Servos -> UNION {Written(servo[i], "duty", 0) \union {servo[i]} :
                                              i \in Servos}] :
                        \A i \in Servos :
                           IF i \in reached THEN s[i] \in Written(servo[i], "duty", 0)
                                            ELSE s[i] = servo[i]}
    /\ pc' = "check"
    /\ UNCHANGED <<at, stillOn, signals, late, slipped, faults>>

\* Slip: only the signal is asked about once a command has been applied.
AskedToStopBySignal == signals > 0 /\ ~commanded

AskedToStop == signals > 0 \/ commanded

Continue ==
    /\ pc = "check"
    /\ ~AskedToStop
    /\ pc' = "drive"
    /\ UNCHANGED <<at, stillOn, signals, commanded, servo, late, slipped, faults>>

Leave ==
    /\ pc = "check"
    /\ AskedToStop
    /\ pc' = Stages[1]
    /\ UNCHANGED <<at, stillOn, signals, commanded, servo, late, slipped, faults>>

\* Slip: the second signal is noted like the first.
SignalOnlyNoted ==
    /\ pc \notin {"exited", "killed"}
    /\ signals' = signals + 1
    /\ UNCHANGED <<pc, at, stillOn, commanded, servo, late, slipped, faults>>

\* The handler notes the first signal, and leaves on the spot at the second.
Signal ==
    /\ pc \notin {"exited", "killed"}
    /\ signals' = signals + 1
    /\ pc' = IF signals = 0 THEN pc ELSE "killed"
    /\ UNCHANGED <<at, stillOn, commanded, servo, late, slipped, faults>>

-----------------------------------------------------------------------------
(* release_all.                                                            *)

\* On to the next servo, or to the next stage with the first.
Advance ==
    IF at < N
    THEN at' = at + 1 /\ UNCHANGED pc
    ELSE at' = 1 /\ \E k \in 1 .. 3 : pc = Stages[k] /\ pc' = Stages[k + 1]

Fault ==
    /\ faults < MaxFaults
    /\ faults' = faults + 1
    /\ slipped' = slipped \union {at}

NoFault == UNCHANGED <<faults, slipped>>

\* An error is only logged.
ReleaseWrite ==
    /\ pc \in {"duty", "torque"}
    /\ \/ NoFault /\ \E o \in WriteTakes(servo[at], pc, 0) : servo' = [servo EXCEPT ![at] = o.servo]
       \/ Fault /\ \E o \in WriteSlips(servo[at], pc, 0) : servo' = [servo EXCEPT ![at] = o.servo]
    /\ Advance
    /\ UNCHANGED <<stillOn, signals, commanded, late>>

\* Slip: a readback that failed is not counted against the servo.
StillOnIfRead(answered, who) ==
    IF answered /\ servo[who].torque # 0 THEN stillOn \union {at} ELSE stillOn

\* What a readback of servo `at` that was answered by servo `who`, or by
\* none, makes of still_on.
StillOn(answered, who) ==
    IF answered /\ servo[who].torque = 0 THEN stillOn ELSE stillOn \union {at}

\* read_register does not look at the id in the reply: the one a servo read
\* before sends late passes for the one it waits for, which is then late in
\* its turn.  The acks of the writes before are too short to pass.
ReleaseRead ==
    /\ pc = "readback"
    /\ \/ /\ NoFault
          /\ stillOn' = StillOn(TRUE, at)
          /\ late' \in {0, late}
       \/ /\ Fault
          /\ stillOn' = StillOn(FALSE, at)
          /\ late' \in {0, late, at}
       \/ /\ late # 0
          /\ stillOn' = StillOn(TRUE, late)
          /\ slipped' = slipped \union {at}
          /\ late' \in {0, at}
          /\ UNCHANGED faults
    /\ Advance
    /\ UNCHANGED <<signals, commanded, servo>>

Daemon == Drive \/ Continue \/ Leave \/ ReleaseWrite \/ ReleaseRead

Next == Daemon \/ Signal

\* No transaction outlasts its timeout.
Spec == Init /\ [][Next]_vars /\ WF_vars(Daemon)

-----------------------------------------------------------------------------
(* Properties.                                                             *)

\* A servo that release_all leaves energised is named, or a servo before it
\* is: "all motors released" is never said of an arm with one still driven,
\* though an answer that comes late passes for another servo's.
EnergisedFollowsNamed ==
    pc = "exited" =>
        \A i \in Servos : servo[i].torque # 0 => \E j \in 1 .. i : j \in stillOn

\* As the code has it: "read back rather than assume: this is the last thing
\* standing between a driven arm and an unattended one".
EnergisedIsReported ==
    pc = "exited" => \A i \in Servos : servo[i].torque # 0 => i \in stillOn

\* It names only servos of which a transaction went wrong on the way: duty
\* and torque are cleared in the order that works, whatever tick the stop
\* came in and whatever part of its SYNC_WRITE the servos caught.
ReleasedUnlessSlipped == stillOn \subseteq slipped

\* Once asked by a signal the daemon is out of the loop and done.
StopEnds == signals > 0 ~> pc \in {"exited", "killed"}

=============================================================================

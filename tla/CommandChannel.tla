--------------------------- MODULE CommandChannel ---------------------------
(***************************************************************************)
(* The command region of the shared memory, the daemon's loop around it,   *)
(* and the servos' registers: how a command of the client reaches a servo  *)
(* over a bus that loses packets, what the daemon believes of the servos   *)
(* afterwards.                                                             *)
(*                                                                         *)
(* The client fills in the fields one store at a time and then moves       *)
(* cmd_seq; the daemon polls once a tick, carries the command out in a     *)
(* script of bus transactions, and stores the status and then ack_seq.     *)
(* Then it drives the servos with one SYNC_WRITE.  Module Release has how  *)
(* it stops; the faults of the bus are those of module ServoBus.           *)
(***************************************************************************)
EXTENDS ServoBus, Sequences

CONSTANTS
    N,              \* servos, with ids 1 .. N
    Initial,        \* what a servo may hold when the loop starts
    Commands,       \* commands [kind, motor, value] the client may send
    ModeAttempts,   \* OPERATING_MODE_ATTEMPTS
    MaxCommands,    \* bound: commands posted
    MaxFaults,      \* bound: bus transactions that go wrong
    Unknown         \* Option::None

Kinds == {"None", "SetOperatingMode", "SetPidCoefficients", "SetTorqueEnable",
          "SetCalibration", "Shutdown"}

ASSUME SizeAssumption ==
    N \in Nat \ {0} /\ ModeAttempts \in Nat \ {0} /\ MaxCommands \in Nat /\ MaxFaults \in Nat
ASSUME CommandAssumption == Commands \subseteq [kind: Kinds, motor: Nat, value: Int]
ASSUME ServoAssumption == Initial \subseteq [Registers -> {0, 1, 2}]
ASSUME UnknownAssumption == Unknown \notin Int

VARIABLES
    channel,        \* CommandRegion: seq, ack, status, kind, motor, value
    \* The client.
    cpc,            \* "idle", the field it writes next, "post" or "wait"
    want,           \* the command it sends
    result,         \* the last command it was told the status of, or Unknown
    \* The daemon.
    dpc,            \* where its loop is
    taken,          \* the command of this tick (AppliedCommand), or Unknown
    step, attempt,  \* the transaction of its script, the try of the script
    status,         \* what the script came to
    belief,         \* per servo, its position frame and homing offset
    \* The servos.
    servo,          \* per servo, the registers kept
    \* History, but for the guard that names the bound.
    posted,         \* the command last posted
    doubt,          \* tracked commands that failed last, by kind and servo
    faults          \* transactions that went wrong

client == <<cpc, want, result, posted>>
executor == <<taken, step, attempt, status>>
vars == <<channel, client, dpc, executor, belief, servo, doubt, faults>>

Servos == 1 .. N
Tracked == {"SetOperatingMode", "SetCalibration"} \X Servos
Fields == <<"kind", "motor", "value">>

FrameOfMode(mode) ==
    CASE mode = 0 -> "Corrected"
      [] mode = 2 -> "Raw"
      [] OTHER -> Unknown

TypeOK ==
    /\ channel.seq \in 0 .. MaxCommands /\ channel.ack \in 0 .. channel.seq
    /\ channel.status \in {0, 1}
    /\ cpc \in {"idle", "kind", "motor", "value", "post", "wait"}
    /\ want \in Commands \union {Unknown}
    /\ result \in [command: Commands, status: {0, 1}] \union {Unknown}
    /\ dpc \in {"poll", "execute", "status", "ack", "believe", "drive", "check",
                "left"}
    /\ taken # Unknown => taken.seq \in 1 .. MaxCommands
    /\ step \in 1 .. 6 /\ attempt \in 1 .. ModeAttempts /\ status \in {0, 1}
    /\ belief \in [Servos -> [frame: {"Corrected", "Raw", Unknown}, offset: Int \union {Unknown}]]
    /\ servo \in [Servos -> Servo]
    /\ posted \in Commands \union {Unknown}
    /\ doubt \subseteq Tracked
    /\ faults \in 0 .. MaxFaults

\* The daemon has tried to configure the servos, and read what it could of
\* them; an error in either is logged and it goes on.
Init ==
    /\ channel = [seq |-> 0, ack |-> 0, status |-> 0,
                  kind |-> "None", motor |-> 0, value |-> 0]
    /\ cpc = "idle" /\ want = Unknown /\ result = Unknown
    /\ dpc = "poll" /\ taken = Unknown /\ step = 1 /\ attempt = 1 /\ status = 0
    /\ servo \in [Servos -> Initial]
    /\ belief \in {b \in [Servos -> [frame: {"Corrected", "Raw", Unknown},
                                     offset: {Unknown} \union {s.offset : s \in Initial}]] :
                     \A i \in Servos : b[i].frame \in {Unknown, FrameOfMode(servo[i].mode)}
                                    /\ b[i].offset \in {Unknown, servo[i].offset}}
    /\ posted = Unknown /\ doubt = {} /\ faults = 0

-----------------------------------------------------------------------------
(* The client: send_command and wait_for_ack.                              *)

Begin ==
    /\ cpc = "idle"
    /\ channel.seq < MaxCommands
    /\ want' \in Commands
    /\ cpc' = "kind"
    /\ result' = Unknown
    /\ UNCHANGED <<channel, posted, dpc, executor, belief, servo, doubt, faults>>

WriteField ==
    \E i \in 1 .. 3 :
        /\ cpc = Fields[i]
        /\ channel' = [channel EXCEPT ![cpc] = want[cpc]]
        /\ cpc' = IF i < 3 THEN Fields[i + 1] ELSE "post"
        /\ UNCHANGED <<want, result, posted, dpc, executor, belief, servo, doubt, faults>>

Post ==
    /\ cpc = "post"
    /\ channel' = [channel EXCEPT !.seq = @ + 1]
    /\ posted' = want
    /\ want' = Unknown
    /\ cpc' = "wait"
    /\ UNCHANGED <<result, dpc, executor, belief, servo, doubt, faults>>

SeeAck ==
    /\ cpc = "wait"
    /\ channel.ack = channel.seq
    /\ result' = [command |-> posted, status |-> channel.status]
    /\ cpc' = "idle"
    /\ UNCHANGED <<channel, want, posted, dpc, executor, belief, servo,
                   doubt, faults>>

\* wait_for_ack times out, or the client is killed and another attaches.
GiveUp ==
    /\ cpc # "idle"
    /\ cpc' = "idle"
    /\ want' = Unknown
    /\ UNCHANGED <<channel, result, posted, dpc, executor, belief, servo, doubt, faults>>

-----------------------------------------------------------------------------
(* poll_and_apply_commands.                                                *)

W(register, value) == [write |-> TRUE, register |-> register, value |-> value]
R(register, value) == [write |-> FALSE, register |-> register, value |-> value]

\* Slip: the mode is written and taken to have taken.
ModeScriptUnverified(mode) == <<W("torque", 0), W("lock", 0), W("mode", mode)>>

\* One attempt of set_operating_mode.
ModeScript(mode) == <<W("torque", 0), W("lock", 0), W("mode", mode), R("mode", mode)>>

\* apply_command, as the transactions it makes in order until one fails.
Script(c) ==
    CASE c.kind = "SetOperatingMode" -> ModeScript(c.value)
      [] c.kind = "SetTorqueEnable" ->
            <<W("torque", c.value), W("lock", c.value)>>
      [] c.kind = "SetPidCoefficients" ->
            <<W("p", c.value), W("i", c.value), W("d", c.value)>>
      [] c.kind = "SetCalibration" ->
            <<W("torque", 0), W("lock", 0), W("offset", c.value),
              W("min_limit", c.value), W("max_limit", c.value), R("offset", c.value)>>
      [] OTHER -> <<>>

Attempts(c) == IF c.kind = "SetOperatingMode" THEN ModeAttempts ELSE 1

PollNothing ==
    /\ dpc = "poll"
    /\ channel.seq = channel.ack
    /\ dpc' = "drive"
    /\ UNCHANGED <<channel, client, executor, belief, servo, doubt, faults>>

Poll ==
    /\ dpc = "poll"
    /\ channel.seq # channel.ack
    /\ taken' = [seq |-> channel.seq, kind |-> channel.kind, motor |-> channel.motor,
                 value |-> channel.value]
    /\ step' = 1 /\ attempt' = 1 /\ status' = 0
    /\ dpc' = IF Script(taken') = <<>> THEN "status" ELSE "execute"
    /\ UNCHANGED <<channel, client, belief, servo, doubt, faults>>

Succeed ==
    IF step < Len(Script(taken))
    THEN step' = step + 1 /\ UNCHANGED <<dpc, attempt, status>>
    ELSE dpc' = "status" /\ status' = 0 /\ UNCHANGED <<step, attempt>>

\* Slip: one attempt too many.
FailLate ==
    IF attempt <= Attempts(taken)
    THEN step' = 1 /\ attempt' = attempt + 1 /\ UNCHANGED <<dpc, status>>
    ELSE dpc' = "status" /\ status' = 1 /\ UNCHANGED <<step, attempt>>

\* Slip: the attempts are not counted.
FailUncounted ==
    IF attempt < Attempts(taken)
    THEN step' = 1 /\ UNCHANGED <<dpc, attempt, status>>
    ELSE dpc' = "status" /\ status' = 1 /\ UNCHANGED <<step, attempt>>

Fail ==
    IF attempt < Attempts(taken)
    THEN step' = 1 /\ attempt' = attempt + 1 /\ UNCHANGED <<dpc, status>>
    ELSE dpc' = "status" /\ status' = 1 /\ UNCHANGED <<step, attempt>>

Fault == faults < MaxFaults /\ faults' = faults + 1

Ends(o) ==
    /\ servo' = [servo EXCEPT ![taken.motor] = o.servo]
    /\ IF o.ok THEN Succeed ELSE Fail

\* Nobody answers to an id that is no servo's.
TransactNobody ==
    /\ dpc = "execute"
    /\ taken.motor \notin Servos
    /\ Fail
    /\ UNCHANGED <<channel, client, taken, belief, servo, doubt, faults>>

TransactWrite ==
    /\ dpc = "execute"
    /\ taken.motor \in Servos
    /\ LET t == Script(taken)[step]
           s == servo[taken.motor]
       IN  /\ t.write
           /\ \/ /\ \E o \in WriteTakes(s, t.register, t.value) : Ends(o)
                 /\ UNCHANGED faults
              \/ /\ \E o \in WriteSlips(s, t.register, t.value) : Ends(o)
                 /\ Fault
    /\ UNCHANGED <<channel, client, taken, belief, doubt>>

\* A readback, compared with what was wanted.
TransactRead ==
    /\ dpc = "execute"
    /\ taken.motor \in Servos
    /\ LET t == Script(taken)[step]
       IN  /\ ~t.write
           /\ \/ /\ IF servo[taken.motor][t.register] = t.value THEN Succeed ELSE Fail
                 /\ UNCHANGED faults
              \/ Fail /\ Fault
    /\ UNCHANGED <<channel, client, taken, belief, servo, doubt>>

StoreStatus ==
    /\ dpc = "status"
    /\ channel' = [channel EXCEPT !.status = status]
    /\ dpc' = "ack"
    /\ UNCHANGED <<client, executor, belief, servo, doubt, faults>>

StoreAck ==
    /\ dpc = "ack"
    /\ channel' = [channel EXCEPT !.ack = taken.seq]
    /\ dpc' = "believe"
    /\ UNCHANGED <<client, executor, belief, servo, doubt, faults>>

-----------------------------------------------------------------------------
(* The rest of the tick.                                                   *)

\* Slip: the fields are read again, after the ack has let the client go on.
AppliedReread == [taken EXCEPT !.kind = channel.kind, !.motor = channel.motor,
                               !.value = channel.value]

\* The command as it was carried out.
Applied == taken

\* The two kinds that change what the loop must believe about the arm.
Believe ==
    /\ dpc = "believe"
    /\ LET c == Applied
           i == c.motor
       IN  belief' =
             IF status # 0 \/ i \notin Servos THEN belief
             ELSE IF c.kind = "SetOperatingMode"
             THEN [belief EXCEPT ![i].frame = FrameOfMode(c.value)]
             ELSE IF c.kind = "SetCalibration"
             THEN [belief EXCEPT ![i].offset = c.value]
             ELSE belief
    /\ doubt' = LET d == {<<taken.kind, taken.motor>>} \intersect Tracked
                IN  IF status = 0 THEN doubt \ d ELSE doubt \union d
    /\ dpc' = "drive"
    /\ step' = 1 /\ attempt' = 1 /\ status' = 0
    /\ UNCHANGED <<channel, client, taken, servo, faults>>

\* SYNC_WRITE of Goal_PWM: nobody answers it, and any servo may miss it.
\* What duty it carries makes no difference to what is kept here.
Drive ==
    /\ dpc = "drive"
    /\ servo' \in {s \in [Servos -> UNION {Written(servo[i], "duty", 0) \union {servo[i]} :
                                        i \in Servos}] :
                    \A i \in Servos : s[i] \in Written(servo[i], "duty", 0) \union {servo[i]}}
    /\ dpc' = "check"
    /\ UNCHANGED <<channel, client, executor, belief, doubt, faults>>

\* The Shutdown command ends the loop once the tick is done.
Check ==
    /\ dpc = "check"
    /\ dpc' = IF taken # Unknown /\ taken.kind = "Shutdown" THEN "left" ELSE "poll"
    /\ taken' = Unknown
    /\ UNCHANGED <<channel, client, step, attempt, status, belief, servo, doubt, faults>>

Client == Begin \/ WriteField \/ Post \/ SeeAck \/ GiveUp

Daemon ==
    \/ PollNothing \/ Poll
    \/ TransactNobody \/ TransactWrite \/ TransactRead
    \/ StoreStatus \/ StoreAck \/ Believe
    \/ Drive \/ Check

Next == Client \/ Daemon

\* The loop never waits for the client, and no bus transaction outlasts its
\* timeout.  Nothing is assumed of the client.
Spec == Init /\ [][Next]_vars /\ WF_vars(Daemon)

-----------------------------------------------------------------------------
(* Properties.                                                             *)

\* A client told that its SetOperatingMode took finds the servo in that mode:
\* however packets and acks were lost or mistaken on the way, whatever was
\* left in the fields by a command given up before, and however the stores of
\* the status and the ack fall between its loads.
AckedModeIsSet ==
    result # Unknown /\ result.status = 0 /\ result.command.kind = "SetOperatingMode"
        => servo[result.command.motor].mode = result.command.value

\* While the loop drives, what it believes of a servo is what the servo holds
\* unless the last command to change it failed, also when the client is
\* already writing its next command into the fields.
BeliefHoldsUnlessFailed ==
    dpc = "drive" =>
        \A i \in Servos :
            /\ \/ <<"SetOperatingMode", i>> \in doubt
               \/ belief[i].frame \in {Unknown, FrameOfMode(servo[i].mode)}
            /\ \/ <<"SetCalibration", i>> \in doubt
               \/ belief[i].offset \in {Unknown, servo[i].offset}

\* The comment on read_position_frames: "its belief stays exact".
BeliefIsExact ==
    dpc = "drive" =>
        \A i \in Servos : belief[i].frame \in {Unknown, FrameOfMode(servo[i].mode)}

\* The header of shm.rs: a command is "observed exactly once".  What the
\* daemon carries out under a sequence number is what was posted under it.
TakenAsSent ==
    [][dpc = "poll" /\ dpc' \in {"execute", "status"}
        => [kind |-> taken'.kind, motor |-> taken'.motor, value |-> taken'.value] = posted]_vars

\* A command the daemon has taken is acked, whatever the bus does to its
\* transactions: the client's wait is for the daemon, never for a servo.
TakenIsAcked == dpc = "execute" ~> channel.ack = channel.seq \/ cpc # "wait"

=============================================================================

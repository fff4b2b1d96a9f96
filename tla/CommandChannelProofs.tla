------------------------ MODULE CommandChannelProofs ------------------------
(***************************************************************************)
(* Proofs about CommandChannel, for any number of servos and commands, any *)
(* number of faults on the bus and of attempts: what a client that was     *)
(* told of a success may rely on, and what the loop may believe of a servo *)
(* while it drives.                                                        *)
(***************************************************************************)
EXTENDS CommandChannel, TLAPS

AppliedCommand == [seq: Nat, kind: Kinds, motor: Nat, value: Int]
Writing == {"kind", "motor", "value", "post"}
Busy == {"execute", "status", "ack", "believe"}
Carried == {"status", "ack", "believe"}

\* The types, with those TypeOK leaves to the bounds of the model.
TypeInv ==
    /\ TypeOK
    /\ channel \in [seq: Nat, ack: Nat, status: {0, 1}, kind: Kinds, motor: Nat, value: Int]
    /\ dpc \in Busy => taken \in AppliedCommand
    /\ dpc = "execute" => step <= Len(Script(taken))

\* The fields the client has written are those of its command, and stay so
\* while it waits.
FieldsInv ==
    /\ cpc \in Writing => want \in Commands /\ channel.seq < MaxCommands
    /\ cpc \in {"motor", "value", "post"} => channel.kind = want.kind
    /\ cpc \in {"value", "post"} => channel.motor = want.motor
    /\ cpc = "post" => channel.value = want.value
    /\ cpc = "wait" => posted \in Commands /\ channel.kind = posted.kind
                       /\ channel.motor = posted.motor /\ channel.value = posted.value

\* What the daemon carries out under the sequence number the client waits for
\* is what the client posted.
TakenInv ==
    /\ dpc \in Busy => taken.seq <= channel.seq
    /\ dpc \in {"execute", "status", "ack"} => channel.ack < taken.seq
    /\ dpc \in Busy /\ cpc = "wait" /\ taken.seq = channel.seq =>
           taken.kind = posted.kind /\ taken.motor = posted.motor /\ taken.value = posted.value
    /\ dpc = "ack" => channel.status = status

\* A script that came to an end without an error left in the servo what it
\* was to leave there.
ModeTook(c) == c.motor \in Servos /\ servo[c.motor].mode = c.value
OffsetTook(c) == c.motor \in Servos /\ servo[c.motor].offset = c.value

CarriedInv ==
    dpc \in Carried /\ status = 0 =>
        /\ taken.kind = "SetOperatingMode" => ModeTook(taken)
        /\ taken.kind = "SetCalibration" => OffsetTook(taken)

\* From the ack on the success is the client's to see, and nothing undoes it
\* before it sends its next command.
AckedInv ==
    /\ cpc = "wait" /\ channel.ack = channel.seq /\ channel.status = 0
          /\ posted.kind = "SetOperatingMode" => ModeTook(posted)
    /\ result # Unknown => cpc = "idle" /\ channel.ack = channel.seq

ToldInv ==
    result # Unknown /\ result.status = 0 /\ result.command.kind = "SetOperatingMode"
        => ModeTook(result.command)

\* A belief is right, or unknown, or in doubt, or about to be put right by the
\* command in hand.
FrameBelieved(i) ==
    \/ <<"SetOperatingMode", i>> \in doubt
    \/ belief[i].frame \in {Unknown, FrameOfMode(servo[i].mode)}
OffsetBelieved(i) ==
    \/ <<"SetCalibration", i>> \in doubt
    \/ belief[i].offset \in {Unknown, servo[i].offset}
InHand(kind, i) == dpc \in Busy /\ taken.kind = kind /\ taken.motor = i

BeliefInv ==
    \A i \in Servos :
        /\ InHand("SetOperatingMode", i) \/ FrameBelieved(i)
        /\ InHand("SetCalibration", i) \/ OffsetBelieved(i)

ChannelInv ==
    TypeInv /\ FieldsInv /\ TakenInv /\ CarriedInv /\ AckedInv /\ ToldInv /\ BeliefInv

-----------------------------------------------------------------------------
(* The bus and the scripts.                                                *)

\* A write changes the register it names, if any, and the duty's only torque.
LEMMA WrittenFacts ==
  ASSUME NEW s \in Servo, NEW register, NEW value \in Int,
         NEW t \in Written(s, register, value)
  PROVE  /\ t \in Servo
         /\ register # "mode" => t.mode = s.mode
         /\ register # "offset" => t.offset = s.offset
<1>1. CASE register = "duty"
  <2>1. t \in {[s EXCEPT !.torque = 1], s}
    BY <1>1 DEF Written
  <2>2. [s EXCEPT !.torque = 1] \in Servo
    BY DEF Servo, Registers
  <2>3. [s EXCEPT !.torque = 1].mode = s.mode /\ [s EXCEPT !.torque = 1].offset = s.offset
    BY DEF Servo, Registers
  <2> QED  BY <2>1, <2>2, <2>3
<1>2. CASE register # "duty" /\ t = s
  BY <1>2
<1>3. CASE register # "duty" /\ t # s
  <2>1. t = [s EXCEPT ![register] = value] /\ register \in Registers
    BY <1>3 DEF Written
  <2> QED  BY <2>1 DEF Servo, Registers
<1> QED  BY <1>1, <1>2, <1>3

\* Whatever becomes of a write, the servo is as it was or as the write makes it.
LEMMA OutcomeFacts ==
  ASSUME NEW s \in Servo, NEW register, NEW value \in Int,
         NEW o \in WriteTakes(s, register, value) \union WriteSlips(s, register, value)
  PROVE  /\ o.servo \in Servo
         /\ register # "mode" => o.servo.mode = s.mode
         /\ register # "offset" => o.servo.offset = s.offset
<1>1. o.servo \in Written(s, register, value) \union {s}
  BY DEF WriteTakes, WriteSlips
<1> QED  BY <1>1, WrittenFacts

\* Only SetOperatingMode writes the mode and only SetCalibration the offset,
\* and each ends by reading back what it wrote.
LEMMA ModeScriptFacts ==
  ASSUME NEW c, c.kind = "SetOperatingMode"
  PROVE  /\ Script(c) = <<W("torque", 0), W("lock", 0), W("mode", c.value), R("mode", c.value)>>
         /\ Len(Script(c)) = 4
         /\ Script(c)[4] = R("mode", c.value)
  BY DEF Script, ModeScript

LEMMA CalibrationScriptFacts ==
  ASSUME NEW c, c.kind = "SetCalibration"
  PROVE  /\ Script(c) = <<W("torque", 0), W("lock", 0), W("offset", c.value),
                          W("min_limit", c.value), W("max_limit", c.value), R("offset", c.value)>>
         /\ Len(Script(c)) = 6
         /\ Script(c)[6] = R("offset", c.value)
  BY DEF Script

LEMMA OtherScriptFacts ==
  ASSUME NEW c, c.kind # "SetOperatingMode", c.kind # "SetCalibration"
  PROVE  \/ Script(c) = <<W("torque", c.value), W("lock", c.value)>> /\ Len(Script(c)) = 2
         \/ Script(c) = <<W("p", c.value), W("i", c.value), W("d", c.value)>> /\ Len(Script(c)) = 3
         \/ Script(c) = <<>> /\ Len(Script(c)) = 0
  BY DEF Script

LEMMA ScriptFacts ==
  ASSUME NEW c, c.value \in Int
  PROVE  /\ Len(Script(c)) \in 0 .. 6
         /\ Script(c) = <<>> <=> Len(Script(c)) = 0
         /\ \A i \in 1 .. Len(Script(c)) :
               /\ Script(c)[i].value \in Int
               /\ Script(c)[i].write /\ Script(c)[i].register = "mode"
                     => c.kind = "SetOperatingMode"
               /\ Script(c)[i].write /\ Script(c)[i].register = "offset"
                     => c.kind = "SetCalibration"
<1>1. CASE c.kind = "SetOperatingMode"
  <2>1. /\ Script(c)[1] = W("torque", 0) /\ Script(c)[2] = W("lock", 0)
        /\ Script(c)[3] = W("mode", c.value) /\ Script(c)[4] = R("mode", c.value)
        /\ Len(Script(c)) = 4 /\ Script(c) # <<>>
    BY <1>1, ModeScriptFacts
  <2>2. 1 .. Len(Script(c)) = {1, 2, 3, 4}
    BY <2>1
  <2> QED  BY <1>1, <2>1, <2>2 DEF W, R
<1>2. CASE c.kind = "SetCalibration"
  <2>1. /\ Script(c)[1] = W("torque", 0) /\ Script(c)[2] = W("lock", 0)
        /\ Script(c)[3] = W("offset", c.value) /\ Script(c)[4] = W("min_limit", c.value)
        /\ Script(c)[5] = W("max_limit", c.value) /\ Script(c)[6] = R("offset", c.value)
        /\ Len(Script(c)) = 6 /\ Script(c) # <<>>
    BY <1>2, CalibrationScriptFacts
  <2>2. 1 .. Len(Script(c)) = {1, 2, 3, 4, 5, 6}
    BY <2>1
  <2> QED  BY <1>2, <2>1, <2>2 DEF W, R
<1>3. CASE c.kind # "SetOperatingMode" /\ c.kind # "SetCalibration"
  BY <1>3, OtherScriptFacts DEF W, R
<1> QED  BY <1>1, <1>2, <1>3

LEMMA AttemptsFacts ==
  ASSUME NEW c
  PROVE  Attempts(c) \in 1 .. ModeAttempts
  BY SizeAssumption DEF Attempts

-----------------------------------------------------------------------------
(* Init and the client.                                                    *)

LEMMA InitInv == Init => ChannelInv
<1> SUFFICES ASSUME Init PROVE ChannelInv  OBVIOUS
<1>1. TypeInv
  <2>1. \A s \in Initial : s \in Servo /\ s.mode \in Int /\ s.offset \in Int
    BY ServoAssumption DEF Servo, Registers
  <2>2. servo \in [Servos -> Servo]
    BY <2>1 DEF Init
  <2>3. belief \in [Servos -> [frame: {"Corrected", "Raw", Unknown},
                              offset: Int \union {Unknown}]]
    <3>1. {s.offset : s \in Initial} \subseteq Int
      BY <2>1
    <3> QED  BY <3>1 DEF Init
  <2>4. channel \in [seq: Nat, ack: Nat, status: {0, 1}, kind: Kinds, motor: Nat, value: Int]
    BY DEF Init, Kinds
  <2>5. channel.seq \in 0 .. MaxCommands /\ channel.ack \in 0 .. channel.seq
        /\ channel.status \in {0, 1}
    BY SizeAssumption DEF Init
  <2>6. TypeOK
    BY <2>2, <2>3, <2>5, SizeAssumption DEF Init, TypeOK
  <2> QED  BY <2>4, <2>6 DEF Init, TypeInv, Busy
<1>2. FieldsInv /\ TakenInv /\ CarriedInv /\ AckedInv /\ ToldInv
  BY DEF Init, FieldsInv, TakenInv, CarriedInv, AckedInv, ToldInv, ModeTook, Writing,
     Busy, Carried
<1>3. BeliefInv
  BY DEF Init, BeliefInv, FrameBelieved, OffsetBelieved
<1> QED  BY <1>1, <1>2, <1>3 DEF ChannelInv

\* The client touches neither the servos nor what the daemon holds.
LEMMA ClientLeaves ==
  ASSUME ChannelInv, UNCHANGED <<dpc, executor, belief, servo, doubt>>
  PROVE  CarriedInv' /\ BeliefInv'
  BY DEF ChannelInv, CarriedInv, BeliefInv, ModeTook, OffsetTook, FrameBelieved,
     OffsetBelieved, InHand, executor

LEMMA BeginStep ==
  ASSUME ChannelInv, Begin
  PROVE  ChannelInv'
<1>1. CarriedInv' /\ BeliefInv'
  BY ClientLeaves DEF Begin
<1>2. TypeInv'
  BY DEF ChannelInv, TypeInv, TypeOK, Begin, executor
<1>3. FieldsInv' /\ TakenInv' /\ AckedInv' /\ ToldInv'
  BY DEF ChannelInv, TypeInv, TypeOK, FieldsInv, TakenInv, AckedInv, ToldInv,
     ModeTook, Writing, Busy, Begin, executor
<1> QED  BY <1>1, <1>2, <1>3 DEF ChannelInv

LEMMA WriteFieldStep ==
  ASSUME ChannelInv, WriteField
  PROVE  ChannelInv'
<1>1. CarriedInv' /\ BeliefInv'
  BY ClientLeaves DEF WriteField
<1>2. TypeInv /\ FieldsInv /\ TakenInv /\ AckedInv /\ ToldInv
  BY DEF ChannelInv
<1>3. PICK i \in 1 .. 3 :
        /\ cpc = Fields[i]
        /\ channel' = [channel EXCEPT ![cpc] = want[cpc]]
        /\ cpc' = IF i < 3 THEN Fields[i + 1] ELSE "post"
  BY DEF WriteField
<1>4. \/ cpc = "kind" /\ cpc' = "motor"
      \/ cpc = "motor" /\ cpc' = "value"
      \/ cpc = "value" /\ cpc' = "post"
  <2>1. Fields[1] = "kind" /\ Fields[2] = "motor" /\ Fields[3] = "value"
    BY DEF Fields
  <2>2. i = 1 \/ i = 2 \/ i = 3
    OBVIOUS
  <2> QED  BY <1>3, <2>1, <2>2
<1>5. want \in [kind: Kinds, motor: Nat, value: Int] /\ want \in Commands
  BY <1>2, <1>4, CommandAssumption DEF FieldsInv, Writing
<1>6. channel \in [seq: Nat, ack: Nat, status: {0, 1}, kind: Kinds, motor: Nat, value: Int]
  BY <1>2 DEF TypeInv
<1>7. /\ channel' \in [seq: Nat, ack: Nat, status: {0, 1}, kind: Kinds, motor: Nat, value: Int]
      /\ channel'.seq = channel.seq /\ channel'.ack = channel.ack
      /\ channel'.status = channel.status
      /\ channel'.kind = IF cpc = "kind" THEN want.kind ELSE channel.kind
      /\ channel'.motor = IF cpc = "motor" THEN want.motor ELSE channel.motor
      /\ channel'.value = IF cpc = "value" THEN want.value ELSE channel.value
  BY <1>3, <1>4, <1>5, <1>6
<1>8. UNCHANGED <<want, result, posted, dpc, taken, step, attempt, status, belief, servo,
                  doubt, faults>>
  BY DEF WriteField, executor
<1>9. TypeInv'
  <2>1. TypeOK'
    BY <1>2, <1>4, <1>7, <1>8 DEF TypeInv, TypeOK
  <2> QED  BY <1>2, <1>7, <1>8, <2>1 DEF TypeInv
<1>10. FieldsInv'
  BY <1>2, <1>4, <1>7, <1>8 DEF FieldsInv, Writing
<1>11. TakenInv' /\ AckedInv' /\ ToldInv'
  BY <1>2, <1>4, <1>7, <1>8 DEF TakenInv, AckedInv, ToldInv, ModeTook
<1> QED  BY <1>1, <1>9, <1>10, <1>11 DEF ChannelInv

\* The new sequence number is the client's alone until the daemon polls.
LEMMA PostStep ==
  ASSUME ChannelInv, Post
  PROVE  ChannelInv'
<1>1. CarriedInv' /\ BeliefInv'
  BY ClientLeaves DEF Post
<1>2. TypeInv /\ FieldsInv /\ TakenInv /\ AckedInv /\ ToldInv
  BY DEF ChannelInv
<1>3. channel \in [seq: Nat, ack: Nat, status: {0, 1}, kind: Kinds, motor: Nat, value: Int]
  BY <1>2 DEF TypeInv
<1>4. /\ channel' \in [seq: Nat, ack: Nat, status: {0, 1}, kind: Kinds, motor: Nat, value: Int]
      /\ channel'.seq = channel.seq + 1 /\ channel'.ack = channel.ack
      /\ channel'.status = channel.status /\ channel'.kind = channel.kind
      /\ channel'.motor = channel.motor /\ channel'.value = channel.value
  BY <1>3 DEF Post
<1>5. /\ cpc = "post" /\ cpc' = "wait" /\ posted' = want /\ want' = Unknown
      /\ UNCHANGED <<result, dpc, taken, step, attempt, status, belief, servo, doubt, faults>>
  BY DEF Post, executor
<1>6. want \in Commands /\ channel.seq < MaxCommands /\ channel.ack \in 0 .. channel.seq
      /\ channel.seq \in 0 .. MaxCommands
  BY <1>2, <1>5 DEF TypeInv, TypeOK, FieldsInv, Writing
<1>7. TypeInv'
  <2>1. channel'.seq \in 0 .. MaxCommands /\ channel'.ack \in 0 .. channel'.seq
    BY <1>3, <1>4, <1>6, SizeAssumption
  <2>2. TypeOK'
    BY <1>2, <1>4, <1>5, <1>6, <2>1 DEF TypeInv, TypeOK
  <2> QED  BY <1>2, <1>4, <1>5, <2>2 DEF TypeInv
<1>8. FieldsInv'
  BY <1>2, <1>4, <1>5, <1>6 DEF FieldsInv, Writing
<1>9. TakenInv'
  <2>1. dpc \in Busy => taken.seq \in Nat
    BY <1>2 DEF TypeInv, AppliedCommand
  <2> QED  BY <1>2, <1>3, <1>4, <1>5, <2>1 DEF TakenInv, Busy
<1>10. AckedInv' /\ ToldInv'
  BY <1>2, <1>3, <1>4, <1>5, <1>6 DEF AckedInv, ToldInv, ModeTook
<1> QED  BY <1>1, <1>7, <1>8, <1>9, <1>10 DEF ChannelInv

LEMMA SeeAckStep ==
  ASSUME ChannelInv, SeeAck
  PROVE  ChannelInv'
<1>1. CarriedInv' /\ BeliefInv'
  BY ClientLeaves DEF SeeAck
<1>2. TypeInv /\ FieldsInv /\ TakenInv /\ AckedInv
  BY DEF ChannelInv
<1>3. posted \in Commands /\ channel.status \in {0, 1}
  BY <1>2 DEF TypeInv, TypeOK, FieldsInv, SeeAck
<1>4. result' = [command |-> posted, status |-> channel.status]
  BY DEF SeeAck
<1>5. TypeInv'
  BY <1>2, <1>3, <1>4 DEF TypeInv, TypeOK, SeeAck, executor
<1>6. FieldsInv' /\ TakenInv' /\ AckedInv'
  BY <1>2 DEF FieldsInv, TakenInv, AckedInv, Writing, SeeAck, executor
<1>7. ToldInv'
  <2>1. result'.status = channel.status /\ result'.command = posted
    BY <1>4
  <2> QED  BY <1>2, <2>1 DEF AckedInv, ToldInv, ModeTook, SeeAck
<1> QED  BY <1>1, <1>5, <1>6, <1>7 DEF ChannelInv

LEMMA GiveUpStep ==
  ASSUME ChannelInv, GiveUp
  PROVE  ChannelInv'
<1>1. CarriedInv' /\ BeliefInv'
  BY ClientLeaves DEF GiveUp
<1>2. TypeInv'
  BY DEF ChannelInv, TypeInv, TypeOK, GiveUp, executor
<1>3. FieldsInv' /\ TakenInv' /\ AckedInv' /\ ToldInv'
  BY DEF ChannelInv, FieldsInv, TakenInv, AckedInv, ToldInv, ModeTook, Writing, Busy,
     GiveUp, executor
<1> QED  BY <1>1, <1>2, <1>3 DEF ChannelInv

-----------------------------------------------------------------------------
(* The daemon.                                                             *)

LEMMA PollNothingStep ==
  ASSUME ChannelInv, PollNothing
  PROVE  ChannelInv'
<1>1. TypeInv'
  BY DEF ChannelInv, TypeInv, TypeOK, Busy, PollNothing, client, executor
<1>2. FieldsInv' /\ TakenInv' /\ CarriedInv' /\ AckedInv' /\ ToldInv'
  BY DEF ChannelInv, FieldsInv, TakenInv, CarriedInv, AckedInv, ToldInv, ModeTook,
     OffsetTook, Busy, Carried, PollNothing, client, executor
<1>3. BeliefInv'
  BY DEF ChannelInv, BeliefInv, FrameBelieved, OffsetBelieved, InHand, Busy, PollNothing
<1> QED  BY <1>1, <1>2, <1>3 DEF ChannelInv

\* If the client waits for this sequence number, its fields are its command.
LEMMA PollStep ==
  ASSUME ChannelInv, Poll
  PROVE  ChannelInv'
<1>1. TypeInv /\ FieldsInv /\ AckedInv /\ ToldInv /\ BeliefInv
  BY DEF ChannelInv
<1>2. channel \in [seq: Nat, ack: Nat, status: {0, 1}, kind: Kinds, motor: Nat, value: Int]
  BY <1>1 DEF TypeInv
<1>3. /\ taken' = [seq |-> channel.seq, kind |-> channel.kind, motor |-> channel.motor,
                   value |-> channel.value]
      /\ step' = 1 /\ attempt' = 1 /\ status' = 0
      /\ dpc = "poll" /\ channel.seq # channel.ack
      /\ dpc' = IF Script(taken') = <<>> THEN "status" ELSE "execute"
      /\ UNCHANGED <<channel, cpc, want, result, posted, belief, servo, doubt, faults>>
  BY DEF Poll, client
<1>4. /\ taken' \in AppliedCommand
      /\ taken'.seq = channel.seq /\ taken'.kind = channel.kind
      /\ taken'.motor = channel.motor /\ taken'.value = channel.value
  BY <1>2, <1>3 DEF AppliedCommand
<1>5. channel.ack < channel.seq /\ channel.seq \in 1 .. MaxCommands
  <2>1. channel.seq \in 0 .. MaxCommands /\ channel.ack \in 0 .. channel.seq
    BY <1>1 DEF TypeInv, TypeOK
  <2> QED  BY <1>2, <1>3, <2>1, SizeAssumption
<1>6. /\ Len(Script(taken')) \in 0 .. 6
      /\ Script(taken') = <<>> <=> Len(Script(taken')) = 0
  BY <1>2, <1>4, ScriptFacts
<1>7. dpc' \in {"status", "execute"}
  BY <1>3
<1>8. TypeInv'
  <2>1. TypeOK'
    BY <1>1, <1>3, <1>4, <1>5, <1>7, SizeAssumption DEF TypeInv, TypeOK
  <2>2. dpc' = "execute" => step' <= Len(Script(taken'))
    BY <1>3, <1>6
  <2> QED  BY <1>2, <1>3, <1>4, <2>1, <2>2 DEF TypeInv
<1>9. FieldsInv'
  BY <1>1, <1>3 DEF FieldsInv
<1>10. TakenInv'
  BY <1>1, <1>2, <1>3, <1>4, <1>5, <1>7 DEF TakenInv, FieldsInv
<1>11. CarriedInv'
  <2>1. dpc' = "status" => taken'.kind # "SetOperatingMode" /\ taken'.kind # "SetCalibration"
    BY <1>3, <1>6, ModeScriptFacts, CalibrationScriptFacts
  <2> QED  BY <1>7, <2>1 DEF CarriedInv, Carried
<1>12. AckedInv' /\ ToldInv'
  BY <1>1, <1>3 DEF AckedInv, ToldInv, ModeTook
<1>13. BeliefInv'
  BY <1>1, <1>3 DEF BeliefInv, FrameBelieved, OffsetBelieved, InHand, Busy
<1> QED  BY <1>8, <1>9, <1>10, <1>11, <1>12, <1>13 DEF ChannelInv

\* A transaction moves the script on, starts it over or ends it.
LEMMA ScriptMoves ==
  ASSUME TypeInv, dpc = "execute", Succeed \/ Fail
  PROVE  /\ step' \in 1 .. 6 /\ step' <= Len(Script(taken))
         /\ attempt' \in 1 .. ModeAttempts /\ status' \in {0, 1}
         /\ dpc' \in {"execute", "status"}
         /\ dpc' = "status" /\ status' = 0 => step = Len(Script(taken)) /\ ~Fail
<1>1. /\ step \in 1 .. 6 /\ step <= Len(Script(taken))
      /\ attempt \in 1 .. ModeAttempts /\ status \in {0, 1}
      /\ taken \in AppliedCommand
  BY DEF TypeInv, TypeOK, Busy
<1>2. Len(Script(taken)) \in 0 .. 6
  BY <1>1, ScriptFacts DEF AppliedCommand
<1>3. Attempts(taken) \in 1 .. ModeAttempts
  BY AttemptsFacts
<1>4. CASE Succeed
  <2>1. CASE step < Len(Script(taken))
    <3>1. step' = step + 1 /\ dpc' = "execute" /\ attempt' = attempt /\ status' = status
      BY <1>4, <2>1 DEF Succeed
    <3>2. step' \in 1 .. 6 /\ step' <= Len(Script(taken))
      <4>1. step < 6 /\ step + 1 <= Len(Script(taken))
        <5> DEFINE n == Len(Script(taken))
        <5> HIDE DEF n
        <5>1. n \in 0 .. 6 /\ step < n /\ step \in 1 .. 6
          BY <1>1, <1>2, <2>1 DEF n
        <5>2. step < 6 /\ step + 1 <= n
          BY <5>1
        <5> QED  BY <5>2 DEF n
      <4> QED  BY <1>1, <3>1, <4>1
    <3>3. dpc' # "status"
      BY <3>1
    <3> QED  BY <1>1, <3>1, <3>2, <3>3
  <2>2. CASE ~(step < Len(Script(taken)))
    <3>1. step' = step /\ dpc' = "status" /\ attempt' = attempt /\ status' = 0
      BY <1>4, <2>2 DEF Succeed
    <3>2. ~Fail
      BY <3>1 DEF Fail
    <3>3. step = Len(Script(taken))
      BY <1>1, <1>2, <2>2
    <3> QED  BY <1>1, <3>1, <3>2, <3>3
  <2> QED  BY <2>1, <2>2
<1>5. CASE Fail
  BY <1>1, <1>2, <1>3, <1>5, SizeAssumption DEF Fail
<1> QED  BY <1>4, <1>5

\* What every transaction has in common: while it runs the client has no ack
\* to rely on, and only the belief of the command in hand is at stake.
LEMMA TransactStep ==
  ASSUME ChannelInv, dpc = "execute", Succeed \/ Fail,
         UNCHANGED <<channel, client, taken, belief, doubt>>, faults' \in 0 .. MaxFaults,
         servo' \in [Servos -> Servo],
         \A i \in Servos :
            /\ servo'[i].mode = servo[i].mode
                  \/ (taken.kind = "SetOperatingMode" /\ taken.motor = i)
            /\ servo'[i].offset = servo[i].offset
                  \/ (taken.kind = "SetCalibration" /\ taken.motor = i),
         dpc' = "status" /\ status' = 0 =>
            /\ taken.kind = "SetOperatingMode" => ModeTook(taken)'
            /\ taken.kind = "SetCalibration" => OffsetTook(taken)'
  PROVE  ChannelInv'
<1>1. TypeInv /\ FieldsInv /\ TakenInv /\ AckedInv /\ ToldInv /\ BeliefInv
  BY DEF ChannelInv
<1>2. /\ step' \in 1 .. 6 /\ step' <= Len(Script(taken))
      /\ attempt' \in 1 .. ModeAttempts /\ status' \in {0, 1}
      /\ dpc' \in {"execute", "status"}
  BY <1>1, ScriptMoves
<1>3. UNCHANGED <<channel, cpc, want, result, posted, taken, belief, doubt>>
  BY DEF client
<1>4. channel.ack < channel.seq
  <2>1. /\ channel.ack < taken.seq /\ taken.seq <= channel.seq
        /\ taken.seq \in Nat /\ channel.ack \in Nat /\ channel.seq \in Nat
    BY <1>1 DEF TakenInv, TypeInv, Busy, AppliedCommand
  <2> QED  BY <2>1
<1>5. TypeInv'
  <2>1. TypeOK'
    BY <1>1, <1>2, <1>3 DEF TypeInv, TypeOK
  <2> QED  BY <1>1, <1>2, <1>3, <2>1 DEF TypeInv, Busy
<1>6. FieldsInv' /\ TakenInv'
  BY <1>1, <1>2, <1>3 DEF FieldsInv, TakenInv, Busy
<1>7. CarriedInv'
  BY <1>2, <1>3 DEF CarriedInv, Carried, ModeTook, OffsetTook
<1>8. AckedInv' /\ ToldInv'
  <2>1. channel.ack # channel.seq /\ channel'.ack # channel'.seq
    <3>1. channel.ack \in Nat /\ channel.seq \in Nat
      BY <1>1 DEF TypeInv
    <3> QED  BY <1>3, <1>4, <3>1
  <2> QED  BY <1>1, <1>3, <2>1 DEF AckedInv, ToldInv, ModeTook
<1>9. BeliefInv'
  <2> SUFFICES ASSUME NEW i \in Servos
               PROVE  /\ InHand("SetOperatingMode", i)' \/ FrameBelieved(i)'
                      /\ InHand("SetCalibration", i)' \/ OffsetBelieved(i)'
    BY DEF BeliefInv
  <2>1. /\ InHand("SetOperatingMode", i) \/ FrameBelieved(i)
        /\ InHand("SetCalibration", i) \/ OffsetBelieved(i)
    BY <1>1 DEF BeliefInv
  <2> QED  BY <1>2, <1>3, <2>1 DEF FrameBelieved, OffsetBelieved, InHand, Busy
<1> QED  BY <1>5, <1>6, <1>7, <1>8, <1>9 DEF ChannelInv

\* A command for a servo that is not there fails, and changes nothing.
LEMMA TransactNobodyStep ==
  ASSUME ChannelInv, TransactNobody
  PROVE  ChannelInv'
<1>1. TypeInv
  BY DEF ChannelInv
<1>2. /\ dpc = "execute" /\ Fail
      /\ UNCHANGED <<channel, client, taken, belief, servo, doubt, faults>>
  BY DEF TransactNobody
<1>3. ~(dpc' = "status" /\ status' = 0)
  BY <1>1, <1>2, ScriptMoves
<1>4. servo' \in [Servos -> Servo] /\ faults' \in 0 .. MaxFaults
  BY <1>1, <1>2 DEF TypeInv, TypeOK
<1> QED  BY <1>2, <1>3, <1>4, TransactStep

\* No script ends with a write, so none that ends well has just written.
LEMMA TransactWriteStep ==
  ASSUME ChannelInv, TransactWrite
  PROVE  ChannelInv'
<1> DEFINE t == Script(taken)[step]
           s == servo[taken.motor]
<1>1. TypeInv
  BY DEF ChannelInv
<1>2. /\ dpc = "execute" /\ taken.motor \in Servos /\ t.write
      /\ UNCHANGED <<channel, client, taken, belief, doubt>>
  BY DEF TransactWrite
<1>3. /\ taken \in AppliedCommand /\ servo \in [Servos -> Servo] /\ faults \in 0 .. MaxFaults
      /\ step \in 1 .. 6 /\ step <= Len(Script(taken))
  BY <1>1, <1>2 DEF TypeInv, TypeOK, Busy
<1>4. Len(Script(taken)) \in 0 .. 6 /\ step \in 1 .. Len(Script(taken)) /\ taken.value \in Int
  BY <1>3, ScriptFacts DEF AppliedCommand
<1>5. /\ t.value \in Int
      /\ t.register = "mode" => taken.kind = "SetOperatingMode"
      /\ t.register = "offset" => taken.kind = "SetCalibration"
  BY <1>2, <1>4, ScriptFacts
<1>6. PICK o \in WriteTakes(s, t.register, t.value) \union WriteSlips(s, t.register, t.value) :
         Ends(o) /\ (UNCHANGED faults \/ Fault)
  BY DEF TransactWrite
<1>7. faults' \in 0 .. MaxFaults
  BY <1>3, <1>6, SizeAssumption DEF Fault
<1>8. servo' = [servo EXCEPT ![taken.motor] = o.servo] /\ (Succeed \/ Fail)
  BY <1>6 DEF Ends
<1>9. s \in Servo
  BY <1>2, <1>3
<1>10. /\ o.servo \in Servo
       /\ t.register # "mode" => o.servo.mode = s.mode
       /\ t.register # "offset" => o.servo.offset = s.offset
  <2> HIDE DEF t, s
  <2> QED  BY <1>5, <1>6, <1>9, OutcomeFacts
<1>11. servo' \in [Servos -> Servo]
  BY <1>3, <1>8, <1>10
<1>12. \A i \in Servos :
          /\ servo'[i].mode = servo[i].mode
                \/ (taken.kind = "SetOperatingMode" /\ taken.motor = i)
          /\ servo'[i].offset = servo[i].offset
                \/ (taken.kind = "SetCalibration" /\ taken.motor = i)
  <2> TAKE i \in Servos
  <2>1. CASE i = taken.motor
    <3>1. servo'[i] = o.servo
      BY <1>3, <1>8, <2>1
    <3> QED  BY <1>5, <1>10, <2>1, <3>1
  <2>2. CASE i # taken.motor
    BY <1>3, <1>8, <2>2
  <2> QED  BY <2>1, <2>2
<1>13. dpc' = "status" /\ status' = 0 =>
          taken.kind # "SetOperatingMode" /\ taken.kind # "SetCalibration"
  <2>1. dpc' = "status" /\ status' = 0 => step = Len(Script(taken))
    BY <1>1, <1>2, <1>8, ScriptMoves
  <2>2. step = Len(Script(taken)) /\ taken.kind = "SetOperatingMode" => ~t.write
    <3>1. R("mode", taken.value).write = FALSE
      BY DEF R
    <3> QED  BY <3>1, ModeScriptFacts
  <2>3. step = Len(Script(taken)) /\ taken.kind = "SetCalibration" => ~t.write
    <3>1. R("offset", taken.value).write = FALSE
      BY DEF R
    <3> QED  BY <3>1, CalibrationScriptFacts
  <2> QED  BY <1>2, <2>1, <2>2, <2>3
<1> QED  BY <1>2, <1>7, <1>8, <1>11, <1>12, <1>13, TransactStep

\* A script for a mode or an offset ends well only on reading it back.
LEMMA TransactReadStep ==
  ASSUME ChannelInv, TransactRead
  PROVE  ChannelInv'
<1> DEFINE t == Script(taken)[step]
<1>1. TypeInv
  BY DEF ChannelInv
<1>2. /\ dpc = "execute" /\ taken.motor \in Servos
      /\ UNCHANGED <<channel, client, taken, belief, servo, doubt>>
      /\ \/ servo[taken.motor][t.register] = t.value /\ Succeed /\ UNCHANGED faults
         \/ Fail /\ (UNCHANGED faults \/ Fault)
  BY DEF TransactRead
<1>3. servo' \in [Servos -> Servo] /\ faults \in 0 .. MaxFaults
  BY <1>1, <1>2 DEF TypeInv, TypeOK
<1>4. faults' \in 0 .. MaxFaults
  BY <1>2, <1>3, SizeAssumption DEF Fault
<1>5. ASSUME dpc' = "status", status' = 0
      PROVE  /\ taken.kind = "SetOperatingMode" => ModeTook(taken)'
             /\ taken.kind = "SetCalibration" => OffsetTook(taken)'
  <2>1. step = Len(Script(taken)) /\ servo[taken.motor][t.register] = t.value
    BY <1>1, <1>2, <1>5, ScriptMoves
  <2>2. taken.kind = "SetOperatingMode" => servo[taken.motor].mode = taken.value
    <3>1. R("mode", taken.value).register = "mode" /\ R("mode", taken.value).value = taken.value
      BY DEF R
    <3>2. taken.kind = "SetOperatingMode" => t = R("mode", taken.value)
      BY <2>1, ModeScriptFacts
    <3> QED  BY <2>1, <3>1, <3>2
  <2>3. taken.kind = "SetCalibration" => servo[taken.motor].offset = taken.value
    <3>1. /\ R("offset", taken.value).register = "offset"
          /\ R("offset", taken.value).value = taken.value
      BY DEF R
    <3>2. taken.kind = "SetCalibration" => t = R("offset", taken.value)
      BY <2>1, CalibrationScriptFacts
    <3> QED  BY <2>1, <3>1, <3>2
  <2> QED  BY <1>2, <2>2, <2>3 DEF ModeTook, OffsetTook
<1> QED  BY <1>2, <1>3, <1>4, <1>5, TransactStep

LEMMA StoreStatusStep ==
  ASSUME ChannelInv, StoreStatus
  PROVE  ChannelInv'
<1>1. TypeInv /\ FieldsInv /\ TakenInv /\ CarriedInv /\ AckedInv /\ ToldInv /\ BeliefInv
  BY DEF ChannelInv
<1>2. channel \in [seq: Nat, ack: Nat, status: {0, 1}, kind: Kinds, motor: Nat, value: Int]
      /\ status \in {0, 1}
  BY <1>1 DEF TypeInv, TypeOK
<1>3. /\ channel' \in [seq: Nat, ack: Nat, status: {0, 1}, kind: Kinds, motor: Nat, value: Int]
      /\ channel'.seq = channel.seq /\ channel'.ack = channel.ack
      /\ channel'.status = status /\ channel'.kind = channel.kind
      /\ channel'.motor = channel.motor /\ channel'.value = channel.value
  BY <1>2 DEF StoreStatus
<1>4. /\ dpc = "status" /\ dpc' = "ack"
      /\ UNCHANGED <<cpc, want, result, posted, taken, step, attempt, status, belief, servo,
                     doubt, faults>>
  BY DEF StoreStatus, client, executor
<1>5. channel.ack # channel.seq
  <2>1. /\ channel.ack < taken.seq /\ taken.seq <= channel.seq
        /\ taken.seq \in Nat /\ channel.ack \in Nat /\ channel.seq \in Nat
    BY <1>1, <1>4 DEF TakenInv, TypeInv, Busy, AppliedCommand
  <2> QED  BY <2>1
<1>6. TypeInv'
  <2>1. TypeOK'
    BY <1>1, <1>2, <1>3, <1>4 DEF TypeInv, TypeOK
  <2> QED  BY <1>1, <1>3, <1>4, <2>1 DEF TypeInv, Busy
<1>7. FieldsInv' /\ TakenInv' /\ CarriedInv'
  BY <1>1, <1>3, <1>4 DEF FieldsInv, TakenInv, CarriedInv, Busy, Carried, ModeTook, OffsetTook
<1>8. AckedInv' /\ ToldInv'
  BY <1>1, <1>3, <1>4, <1>5 DEF AckedInv, ToldInv, ModeTook
<1>9. BeliefInv'
  BY <1>1, <1>4 DEF BeliefInv, FrameBelieved, OffsetBelieved, InHand, Busy
<1> QED  BY <1>6, <1>7, <1>8, <1>9 DEF ChannelInv

\* The ack comes after the status, and names the command it is the status of.
LEMMA StoreAckStep ==
  ASSUME ChannelInv, StoreAck
  PROVE  ChannelInv'
<1>1. TypeInv /\ FieldsInv /\ TakenInv /\ CarriedInv /\ AckedInv /\ ToldInv /\ BeliefInv
  BY DEF ChannelInv
<1>2. /\ channel \in [seq: Nat, ack: Nat, status: {0, 1}, kind: Kinds, motor: Nat, value: Int]
      /\ taken \in AppliedCommand
      /\ channel.seq \in 0 .. MaxCommands /\ channel.ack \in 0 .. channel.seq
  BY <1>1 DEF TypeInv, TypeOK, StoreAck, Busy
<1>3. /\ channel' \in [seq: Nat, ack: Nat, status: {0, 1}, kind: Kinds, motor: Nat, value: Int]
      /\ channel'.seq = channel.seq /\ channel'.ack = taken.seq
      /\ channel'.status = channel.status /\ channel'.kind = channel.kind
      /\ channel'.motor = channel.motor /\ channel'.value = channel.value
  BY <1>2 DEF StoreAck, AppliedCommand
<1>4. /\ dpc = "ack" /\ dpc' = "believe"
      /\ UNCHANGED <<cpc, want, result, posted, taken, step, attempt, status, belief, servo,
                     doubt, faults>>
  BY DEF StoreAck, client, executor
<1>5. channel.ack < taken.seq /\ taken.seq <= channel.seq /\ taken.seq \in Nat
      /\ channel.status = status
  BY <1>1, <1>2, <1>4 DEF TakenInv, Busy, AppliedCommand
<1>6. TypeInv'
  <2>1. channel'.ack \in 0 .. channel'.seq
    BY <1>2, <1>3, <1>5
  <2>2. TypeOK'
    BY <1>1, <1>2, <1>3, <1>4, <2>1 DEF TypeInv, TypeOK
  <2> QED  BY <1>1, <1>3, <1>4, <2>2 DEF TypeInv, Busy
<1>7. FieldsInv' /\ TakenInv' /\ CarriedInv'
  BY <1>1, <1>3, <1>4 DEF FieldsInv, TakenInv, CarriedInv, Busy, Carried, ModeTook, OffsetTook
<1>8. result = Unknown
  <2>1. channel.ack # channel.seq
    BY <1>2, <1>5
  <2> QED  BY <1>1, <2>1 DEF AckedInv
<1>9. AckedInv' /\ ToldInv'
  <2>1. ASSUME cpc = "wait", taken.seq = channel.seq, status = 0,
               posted.kind = "SetOperatingMode"
        PROVE  ModeTook(posted)
    <3>1. taken.kind = posted.kind /\ taken.motor = posted.motor /\ taken.value = posted.value
      BY <1>1, <1>4, <2>1 DEF TakenInv, Busy
    <3>2. ModeTook(taken)
      BY <1>1, <1>4, <2>1, <3>1 DEF CarriedInv, Carried
    <3> QED  BY <3>1, <3>2 DEF ModeTook
  <2> QED  BY <1>3, <1>4, <1>5, <1>8, <2>1 DEF AckedInv, ToldInv, ModeTook
<1>10. BeliefInv'
  BY <1>1, <1>4 DEF BeliefInv, FrameBelieved, OffsetBelieved, InHand, Busy
<1> QED  BY <1>6, <1>7, <1>9, <1>10 DEF ChannelInv

\* The command in hand settles the belief it is about, one way or the other.
LEMMA BelieveStep ==
  ASSUME ChannelInv, Believe
  PROVE  ChannelInv'
<1> DEFINE i == taken.motor
           d == {<<taken.kind, taken.motor>>} \intersect Tracked
<1>1. TypeInv /\ FieldsInv /\ TakenInv /\ CarriedInv /\ AckedInv /\ ToldInv /\ BeliefInv
  BY DEF ChannelInv
<1>2. /\ dpc = "believe" /\ dpc' = "drive" /\ step' = 1 /\ attempt' = 1 /\ status' = 0
      /\ UNCHANGED <<channel, cpc, want, result, posted, taken, servo, faults>>
  BY DEF Believe, client
<1>3. belief' =
        IF status # 0 \/ i \notin Servos THEN belief
        ELSE IF taken.kind = "SetOperatingMode"
        THEN [belief EXCEPT ![i].frame = FrameOfMode(taken.value)]
        ELSE IF taken.kind = "SetCalibration"
        THEN [belief EXCEPT ![i].offset = taken.value]
        ELSE belief
  BY DEF Believe, Applied
<1>4. doubt' = IF status = 0 THEN doubt \ d ELSE doubt \union d
  BY DEF Believe
<1>5. /\ taken \in AppliedCommand /\ doubt \subseteq Tracked /\ servo \in [Servos -> Servo]
      /\ belief \in [Servos -> [frame: {"Corrected", "Raw", Unknown},
                                offset: Int \union {Unknown}]]
  BY <1>1, <1>2 DEF TypeInv, TypeOK, Busy
<1>6. FrameOfMode(taken.value) \in {"Corrected", "Raw", Unknown}
  BY DEF FrameOfMode
<1>7. belief' \in [Servos -> [frame: {"Corrected", "Raw", Unknown},
                              offset: Int \union {Unknown}]]
  BY <1>3, <1>5, <1>6 DEF AppliedCommand
<1>8. TypeInv'
  <2>1. doubt' \subseteq Tracked
    BY <1>4, <1>5
  <2>2. TypeOK'
    BY <1>1, <1>2, <1>7, <2>1, SizeAssumption DEF TypeInv, TypeOK
  <2> QED  BY <1>1, <1>2, <2>2 DEF TypeInv, Busy
<1>9. FieldsInv' /\ TakenInv' /\ CarriedInv' /\ AckedInv' /\ ToldInv'
  BY <1>1, <1>2 DEF FieldsInv, TakenInv, CarriedInv, AckedInv, ToldInv, Busy, Carried,
     ModeTook
<1>10. BeliefInv'
  <2> SUFFICES ASSUME NEW j \in Servos
               PROVE  FrameBelieved(j)' /\ OffsetBelieved(j)'
    BY DEF BeliefInv
  <2>1. /\ (taken.kind = "SetOperatingMode" /\ i = j) \/ FrameBelieved(j)
        /\ (taken.kind = "SetCalibration" /\ i = j) \/ OffsetBelieved(j)
    BY <1>1 DEF BeliefInv, InHand
  <2>2. FrameBelieved(j)'
    <3>1. CASE taken.kind = "SetOperatingMode" /\ i = j /\ status = 0
      <4>1. servo[j].mode = taken.value
        BY <1>1, <1>2, <3>1 DEF CarriedInv, Carried, ModeTook
      <4>2. belief'[j].frame = FrameOfMode(taken.value)
        BY <1>3, <1>5, <3>1
      <4> QED  BY <1>2, <4>1, <4>2 DEF FrameBelieved
    <3>2. CASE taken.kind = "SetOperatingMode" /\ i = j /\ status # 0
      <4>1. <<"SetOperatingMode", j>> \in Tracked
        BY DEF Tracked
      <4> QED  BY <1>4, <3>2, <4>1 DEF FrameBelieved
    <3>3. CASE ~(taken.kind = "SetOperatingMode" /\ i = j)
      <4>1. belief'[j].frame = belief[j].frame
        BY <1>3, <1>5, <3>3
      <4>2. <<"SetOperatingMode", j>> \in doubt => <<"SetOperatingMode", j>> \in doubt'
        BY <1>4, <3>3
      <4> QED  BY <1>2, <2>1, <3>3, <4>1, <4>2 DEF FrameBelieved
    <3> QED  BY <3>1, <3>2, <3>3
  <2>3. OffsetBelieved(j)'
    <3>1. CASE taken.kind = "SetCalibration" /\ i = j /\ status = 0
      <4>1. servo[j].offset = taken.value
        BY <1>1, <1>2, <3>1 DEF CarriedInv, Carried, OffsetTook
      <4>2. belief'[j].offset = taken.value
        BY <1>3, <1>5, <3>1
      <4> QED  BY <1>2, <4>1, <4>2 DEF OffsetBelieved
    <3>2. CASE taken.kind = "SetCalibration" /\ i = j /\ status # 0
      <4>1. <<"SetCalibration", j>> \in Tracked
        BY DEF Tracked
      <4> QED  BY <1>4, <3>2, <4>1 DEF OffsetBelieved
    <3>3. CASE ~(taken.kind = "SetCalibration" /\ i = j)
      <4>1. belief'[j].offset = belief[j].offset
        BY <1>3, <1>5, <3>3
      <4>2. <<"SetCalibration", j>> \in doubt => <<"SetCalibration", j>> \in doubt'
        BY <1>4, <3>3
      <4> QED  BY <1>2, <2>1, <3>3, <4>1, <4>2 DEF OffsetBelieved
    <3> QED  BY <3>1, <3>2, <3>3
  <2> QED  BY <2>2, <2>3
<1> QED  BY <1>8, <1>9, <1>10 DEF ChannelInv

\* A duty re-arms a servo, and leaves its mode and its offset alone.
LEMMA DriveStep ==
  ASSUME ChannelInv, Drive
  PROVE  ChannelInv'
<1>1. TypeInv /\ FieldsInv /\ TakenInv /\ CarriedInv /\ AckedInv /\ ToldInv /\ BeliefInv
  BY DEF ChannelInv
<1>2. /\ dpc = "drive" /\ dpc' = "check"
      /\ UNCHANGED <<channel, cpc, want, result, posted, taken, step, attempt, status, belief,
                     doubt, faults>>
  BY DEF Drive, client, executor
<1>3. /\ DOMAIN servo' = Servos /\ servo' = [j \in Servos |-> servo'[j]]
      /\ \A j \in Servos : servo'[j] \in Written(servo[j], "duty", 0) \union {servo[j]}
  BY DEF Drive
<1>4. \A j \in Servos :
         servo'[j] \in Servo /\ servo'[j].mode = servo[j].mode
            /\ servo'[j].offset = servo[j].offset
  <2> TAKE j \in Servos
  <2>1. servo[j] \in Servo
    BY <1>1 DEF TypeInv, TypeOK
  <2>2. CASE servo'[j] = servo[j]
    BY <2>1, <2>2
  <2>3. CASE servo'[j] \in Written(servo[j], "duty", 0)
    BY <2>1, <2>3, WrittenFacts
  <2> QED  BY <1>3, <2>2, <2>3
<1>5. servo' \in [Servos -> Servo]
  BY <1>3, <1>4
<1>6. TypeInv'
  <2>1. TypeOK'
    BY <1>1, <1>2, <1>5 DEF TypeInv, TypeOK
  <2> QED  BY <1>1, <1>2, <2>1 DEF TypeInv, Busy
<1>7. FieldsInv' /\ TakenInv' /\ CarriedInv'
  BY <1>1, <1>2 DEF FieldsInv, TakenInv, CarriedInv, Busy, Carried
<1>8. AckedInv'
  BY <1>1, <1>2, <1>4 DEF AckedInv, ModeTook
<1>9. ToldInv'
  BY <1>1, <1>2, <1>4 DEF ToldInv, ModeTook
<1>10. BeliefInv'
  BY <1>1, <1>2, <1>4 DEF BeliefInv, FrameBelieved, OffsetBelieved, InHand, Busy
<1> QED  BY <1>6, <1>7, <1>8, <1>9, <1>10 DEF ChannelInv

LEMMA CheckStep ==
  ASSUME ChannelInv, Check
  PROVE  ChannelInv'
<1>1. TypeInv'
  BY DEF ChannelInv, TypeInv, TypeOK, Busy, Check, client
<1>2. FieldsInv' /\ TakenInv' /\ CarriedInv' /\ AckedInv' /\ ToldInv'
  BY DEF ChannelInv, FieldsInv, TakenInv, CarriedInv, AckedInv, ToldInv, ModeTook,
     Busy, Carried, Check, client
<1>3. BeliefInv'
  BY DEF ChannelInv, BeliefInv, FrameBelieved, OffsetBelieved, InHand, Busy, Check
<1> QED  BY <1>1, <1>2, <1>3 DEF ChannelInv

-----------------------------------------------------------------------------

LEMMA Inductive == ChannelInv /\ [Next]_vars => ChannelInv'
<1> SUFFICES ASSUME ChannelInv, [Next]_vars PROVE ChannelInv'  OBVIOUS
<1>1. CASE Client
  BY <1>1, BeginStep, WriteFieldStep, PostStep, SeeAckStep, GiveUpStep DEF Client
<1>2. CASE Daemon
  BY <1>2, PollNothingStep, PollStep, TransactNobodyStep, TransactWriteStep,
     TransactReadStep, StoreStatusStep, StoreAckStep, BelieveStep, DriveStep, CheckStep
     DEF Daemon
<1>3. CASE UNCHANGED vars
  <2> USE <1>3 DEF vars, client, executor
  <2>1. TypeInv'
    BY DEF ChannelInv, TypeInv, TypeOK
  <2>2. FieldsInv' /\ TakenInv' /\ CarriedInv' /\ AckedInv' /\ ToldInv'
    BY DEF ChannelInv, FieldsInv, TakenInv, CarriedInv, AckedInv, ToldInv, ModeTook,
       OffsetTook
  <2>3. BeliefInv'
    BY DEF ChannelInv, BeliefInv, FrameBelieved, OffsetBelieved, InHand
  <2> QED  BY <2>1, <2>2, <2>3 DEF ChannelInv
<1> QED  BY <1>1, <1>2, <1>3 DEF Next

LEMMA InvHolds == Spec => []ChannelInv
  BY InitInv, Inductive, PTL DEF Spec

\* The channel and both its ends keep their types: the ack never runs ahead of
\* the sequence number, and a script never runs past its end or its attempts.
THEOREM TypesHold == Spec => []TypeOK
<1>1. ChannelInv => TypeOK
  BY DEF ChannelInv, TypeInv
<1> QED  BY InvHolds, <1>1, PTL

\* A client told that its SetOperatingMode took finds the servo in that mode:
\* whatever the bus lost or mistook, and whatever a command given up before
\* left in the fields.
THEOREM AckedModesAreSet == Spec => []AckedModeIsSet
<1>1. ChannelInv => AckedModeIsSet
  BY DEF ChannelInv, ToldInv, ModeTook, AckedModeIsSet
<1> QED  BY InvHolds, <1>1, PTL

\* While the loop drives, what it believes of a servo's mode and offset is
\* unknown or what the servo holds, unless the last command to change it
\* failed.
THEOREM BeliefsHold == Spec => []BeliefHoldsUnlessFailed
<1>1. ChannelInv => BeliefHoldsUnlessFailed
  BY DEF ChannelInv, BeliefInv, FrameBelieved, OffsetBelieved, InHand, Busy,
     BeliefHoldsUnlessFailed
<1> QED  BY InvHolds, <1>1, PTL

\* What the daemon carries out under the sequence number a client is waiting
\* for is what that client posted.  A mixture of two commands is carried out
\* only under a number nobody waits for.
WaitedForIsAsPosted ==
    dpc \in Busy /\ cpc = "wait" /\ taken.seq = channel.seq =>
        taken.kind = posted.kind /\ taken.motor = posted.motor /\ taken.value = posted.value

\* For any number of commands, servos, retries and clients that die or give
\* up: a client is never answered for a command it did not post.
THEOREM WaitedForIsCarriedOut == Spec => []WaitedForIsAsPosted
<1>1. ChannelInv => WaitedForIsAsPosted
  BY DEF ChannelInv, TakenInv, WaitedForIsAsPosted
<1> QED  BY InvHolds, <1>1, PTL

=============================================================================

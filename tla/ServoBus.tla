------------------------------ MODULE ServoBus ------------------------------
(***************************************************************************)
(* A servo's registers and what a transaction on the half-duplex bus makes *)
(* of them (feetech.rs: write_register, read_register; what the servo does *)
(* with a write is as control.rs and its measurements describe it).        *)
(*                                                                         *)
(* Registers nothing here depends on may be written but are not kept.  Of  *)
(* the duty only its effect on the torque is.                              *)
(***************************************************************************)
EXTENDS Integers

Registers == {"mode", "torque", "lock", "offset"}
Eprom == {"mode", "offset"}
Servo == [Registers -> Int]
PwmMode == 2

\* A servo that holds no torque and no lock, in the mode it was left in.
Limp(mode) == [r \in Registers |-> IF r = "mode" THEN mode ELSE 0]

\* What a write that reaches servo s makes of it.  EPROM is write-protected
\* unless torque is off and Lock is clear.  Writing the duty re-arms the
\* torque; outside PWM mode its address is Goal_Time, and what that does to
\* the torque has not been measured.
Written(s, register, value) ==
    IF register = "duty"
    THEN {[s EXCEPT !.torque = 1]} \union (IF s.mode = PwmMode THEN {} ELSE {s})
    ELSE IF register \notin Registers \/ (register \in Eprom /\ (s.torque # 0 \/ s.lock # 0))
    THEN {s}
    ELSE {[s EXCEPT ![register] = value]}

\* write_register that goes as it should.
WriteTakes(s, register, value) ==
    {[servo |-> t, ok |-> TRUE] : t \in Written(s, register, value)}

\* It is lost on the way, its ack is lost, or the late ack of an earlier
\* write passes for its own and the write is lost.
WriteSlips(s, register, value) ==
    {[servo |-> t, ok |-> FALSE] : t \in Written(s, register, value) \union {s}}
        \union {[servo |-> s, ok |-> TRUE]}

=============================================================================

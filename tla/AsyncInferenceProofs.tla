------------------------ MODULE AsyncInferenceProofs ------------------------
(***************************************************************************)
(* For any chunk, any refill threshold, any length of an episode and any   *)
(* number of failed calls and of clients killed and started again: that    *)
(* must_go is not lost between the client and the server, and, unless a    *)
(* handler outlives its client, that the queue follows the arm.            *)
(*                                                                         *)
(* Neither is inductive.  That the event may be cleared rests on where the *)
(* must-go observation is while the control loop is about to clear it.     *)
(* That the queue lacks no timestep rests on the chunk being taken in      *)
(* lacking none, whose first rests on the observation it answers being no  *)
(* further than the arm was.                                               *)
(***************************************************************************)
EXTENDS AsyncInference, TLAPS

\* The observation between Mark and Clear is one: not the absence of one.
Sending == {"mark", "send", "enqueue", "evict", "sent"}

TypeInv ==
    /\ queue \in Seq(Int) /\ future \in Seq(Int) /\ next \in Int
    /\ latest \in Int /\ held \in Int
    /\ serving \in [t: Int, mustGo: BOOLEAN] \union {None}
    /\ waiting \in [t: Int, mustGo: BOOLEAN] \union {None}
    /\ mustGo \in BOOLEAN /\ lapse \in BOOLEAN
    /\ obs \in [t: Int, mustGo: BOOLEAN] \union {None}
    /\ cpc \in Sending => obs # None
    /\ rpc \in {"infer", "scan", "scanning", "filter"} => serving # None

OwedInv ==
    /\ TypeInv
    /\ rpc = "dead" => lapse
    /\ ~lapse /\ (~mustGo \/ ClearsNext)
         => waiting # None \/ rpc \notin {"call", "dead"}

\* One of the two is the latest timestep an observation is made at.
LEMMA MaxOfTwo ==
    ASSUME NEW a \in Int
    PROVE  Max({a, 0}) \in Int
<1>1. \E x \in {a, 0} : \A y \in {a, 0} : x >= y
  <2>1. CASE a >= 0
    BY <2>1
  <2>2. CASE ~(a >= 0)
    BY <2>2
  <2> QED
    BY <2>1, <2>2
<1> QED
  BY <1>1 DEF Max

-----------------------------------------------------------------------------
(* Types. *)

LEMMA TypeControl ==
    ASSUME TypeInv, ControlStep \/ SendFails
    PROVE  TypeInv'
<1>1. CASE Look \/ PopEmpty
  BY <1>1 DEF Look, PopEmpty, ControlAt, TypeInv, Sending, receiver, server
<1>2. CASE Pop
  BY <1>2 DEF Pop, ControlAt, TypeInv, Sending, receiver, server
<1>3. CASE Record
  BY <1>3 DEF Record, ControlAt, TypeInv, Sending, receiver, server
<1>4. CASE Ready
  <2>1. [t |-> Max({latest, 0}), mustGo |-> FALSE] \in [t: Int, mustGo: BOOLEAN]
    BY MaxOfTwo DEF TypeInv
  <2> QED
    BY <1>4, <2>1, NoneAssumption DEF Ready, TypeInv, Sending, receiver, server
<1>5. CASE Mark
  <2>1. obs \in [t: Int, mustGo: BOOLEAN] /\ Qualifies \in BOOLEAN
    BY <1>5 DEF Mark, ControlAt, Qualifies, TypeInv, Sending
  <2>2. obs' \in [t: Int, mustGo: BOOLEAN]
    BY <1>5, <2>1 DEF Mark
  <2> QED
    BY <1>5, <2>2, NoneAssumption DEF Mark, ControlAt, TypeInv, Sending, receiver, server
<1>6. CASE Send \/ Enqueue \/ Evict
  BY <1>6 DEF Send, Enqueue, Evict, ControlAt, TypeInv, Sending, receiver, server
<1>7. CASE Clear
  BY <1>7 DEF Clear, Clears, ControlAt, TypeInv, Sending, receiver, server
<1>8. CASE SendFails
  BY <1>8 DEF SendFails, ControlAt, TypeInv, Sending, receiver, server
<1> QED
  BY <1>1, <1>2, <1>3, <1>4, <1>5, <1>6, <1>7, <1>8 DEF ControlStep

LEMMA TypeReceiver ==
    ASSUME TypeInv, ReceiverStep \/ InferFails
    PROVE  TypeInv'
<1>1. CASE Take \/ InferFails
  BY <1>1, NoneAssumption DEF Take, InferFails, ReceiverAt, TypeInv, Sending, control
<1>2. CASE Infer
  <2>1. serving \in [t: Int, mustGo: BOOLEAN]
    BY <1>2 DEF Infer, ReceiverAt, TypeInv
  <2> QED
    BY <1>2, <2>1 DEF Infer, ChunkStart, ReceiverAt, TypeInv, Sending, control
<1>3. CASE Scan \/ Scanned
  BY <1>3 DEF Scan, Scanned, TypeInv, Sending, control, server
<1>4. CASE Filter
  BY <1>4 DEF Filter, TypeInv, Sending, control, server
<1>5. CASE Replace
  <2>1. <<>> \in Seq(Int) /\ 0 \in Int
    OBVIOUS
  <2> QED
    BY <1>5, <2>1 DEF Replace, ReceiverAt, TypeInv, Sending, control, server
<1>6. CASE Signal
  BY <1>6 DEF Signal, ReceiverAt, TypeInv, Sending, control, server
<1> QED
  BY <1>1, <1>2, <1>3, <1>4, <1>5, <1>6 DEF ReceiverStep

-----------------------------------------------------------------------------
(* Who owes the must-go. *)

\* The control loop clears the event only when its observation is waiting, or
\* being answered.
LEMMA OwedControl ==
    ASSUME OwedInv, ControlStep \/ SendFails
    PROVE  OwedInv'
<1>1. TypeInv'
  BY TypeControl DEF OwedInv
<1>2. CASE Look \/ Pop \/ PopEmpty \/ Record \/ Ready \/ Mark
  <2>1. cpc' # "sent" /\ UNCHANGED <<mustGo, waiting, rpc>> /\ (lapse => lapse')
    BY <1>2
    DEF Look, Pop, PopEmpty, Record, Ready, Mark, ControlAt, OwedInv, receiver, server
  <2> QED
    BY <1>1, <2>1 DEF OwedInv, ClearsNext
<1>3. CASE Send
  <2>1. cpc' = "sent" => ~obs.mustGo
    BY <1>3 DEF Send, Accepts
  <2> QED
    BY <1>1, <1>3, <2>1 DEF Send, ClearsNext, OwedInv, receiver, server
<1>4. CASE SendFails
  BY <1>1, <1>4 DEF SendFails, ControlAt, Quiet, ClearsNext, OwedInv, receiver, server
<1>5. CASE Enqueue
  BY <1>1, <1>5 DEF Enqueue, ClearsNext, OwedInv, TypeInv, Sending, receiver
<1>6. CASE Evict
  BY <1>1, <1>6
  DEF Evict, ControlAt, Quiet, ClearsNext, OwedInv, TypeInv, Sending, receiver
<1>7. CASE Clear
  BY <1>1, <1>7
  DEF Clear, Clears, ControlAt, ClearsNext, OwedInv, receiver, server
<1> QED
  BY <1>1, <1>2, <1>3, <1>4, <1>5, <1>6, <1>7 DEF ControlStep, OwedInv

\* The receiver gives the event back before it makes the next call.
LEMMA OwedReceiver ==
    ASSUME OwedInv, ReceiverStep \/ InferFails
    PROVE  OwedInv'
<1>1. TypeInv'
  BY TypeReceiver DEF OwedInv
<1>2. CASE Take \/ Infer \/ Scan \/ Filter \/ Replace
  BY <1>1, <1>2
  DEF Take, Infer, Scan, Filter, Replace, ReceiverAt, ClearsNext, OwedInv,
      control, server
<1>3. CASE Scanned
  BY <1>1, <1>3 DEF Scanned, ClearsNext, OwedInv, TypeInv, control, server
<1>4. CASE Signal
  BY <1>1, <1>4 DEF Signal, ReceiverAt, ClearsNext, OwedInv, TypeInv, control, server
<1>5. CASE InferFails
  BY <1>1, <1>5 DEF InferFails, ReceiverAt, ClearsNext, OwedInv, TypeInv, control
<1> QED
  BY <1>2, <1>3, <1>4, <1>5 DEF ReceiverStep

\* A client that is started again owes nothing: its event is set.
LEMMA OwedRestart ==
    ASSUME OwedInv, Restart
    PROVE  OwedInv'
<1>1. cpc' = "act" /\ rpc' = "call" /\ mustGo' = TRUE /\ lapse' = FALSE
  BY DEF Restart
<1>2. queue' \in Seq(Int) /\ future' \in Seq(Int)
  <2>1. <<>> \in Seq(Int)
    OBVIOUS
  <2> QED
    BY <2>1 DEF Restart
<1>3. next' \in Int /\ latest' \in Int /\ held' \in Int
  BY DEF Restart
<1>4. serving' = None /\ obs' = None
  BY DEF Restart
<1>5. waiting' \in [t: Int, mustGo: BOOLEAN] \union {None}
  BY DEF Restart, Flush, OwedInv, TypeInv
<1>6. TypeInv'
  BY <1>1, <1>2, <1>3, <1>4, <1>5 DEF TypeInv, Sending
<1> QED
  BY <1>1, <1>6 DEF OwedInv, ClearsNext

LEMMA OwedStep ==
    ASSUME OwedInv, [Next]_vars
    PROVE  OwedInv'
<1>1. CASE UNCHANGED vars
  BY <1>1
  DEF vars, OwedInv, TypeInv, Sending, ClearsNext, control, receiver, server
<1> QED
  BY <1>1, OwedControl, OwedReceiver, OwedRestart DEF Next

LEMMA OwedInit ==
    ASSUME Init
    PROVE  OwedInv
<1>1. latest \in Int /\ held \in Int /\ next \in Int
  BY DEF Init
<1>2. queue \in Seq(Int) /\ future \in Seq(Int)
  <2>1. <<>> \in Seq(Int)
    OBVIOUS
  <2> QED
    BY <2>1 DEF Init
<1>3. mustGo = TRUE /\ lapse = FALSE /\ cpc = "act" /\ rpc = "call"
      /\ serving = None /\ waiting = None /\ obs = None
  BY DEF Init
<1>4. TypeInv
  BY <1>1, <1>2, <1>3 DEF TypeInv, Sending
<1> QED
  BY <1>3, <1>4 DEF OwedInv, ClearsNext

\* While the event is clear an observation is on its way that will set it
\* again, unless an answer was lost or came before the event was cleared.
THEOREM MustGoIsHandedOn == Spec => []MustGoIsOwed
<1>1. OwedInv => MustGoIsOwed
  BY DEF OwedInv, MustGoIsOwed
<1> QED
  BY <1>1, OwedInit, OwedStep, PTL DEF Spec

-----------------------------------------------------------------------------
(* The queue follows the arm.                                              *)

\* What is performed is never more than one timestep beyond what was performed
\* before, and every observation is made no further than that.
ArmInv ==
    /\ done \in -1 .. MaxStep /\ latest \in -1 .. done /\ held \in -1 .. done
    /\ cpc = "pop" => done < MaxStep

ObsInv ==
    \A o \in {obs, waiting, serving} \ {None} :
        o \in [t: 0 .. MaxStep, mustGo: BOOLEAN] /\ o.t <= done + 1

Ordered(s) == \A i, j \in DOMAIN s : i < j => s[i] < s[j]

\* The actions of s go on where d was performed, up to the timestep top.
Covers(s, d, top) == d + 1 .. top \subseteq Range(s)

QueueInv ==
    /\ queue \in Seq(Steps) /\ Len(queue) <= Chunk /\ Ordered(queue)
    /\ queue # <<>> => Covers(queue, done, queue[Len(queue)])

\* The actions kept of a chunk lack only what was performed since.
FutureInv ==
    /\ next \in Steps /\ future \in Seq(Steps) /\ Len(future) <= Chunk
    /\ Ordered(future) /\ \A i \in DOMAIN future : future[i] < next
    /\ Covers(future, done, next - 1)
    /\ rpc \in {"scan", "scanning", "filter"}
         => next \in serving.t .. serving.t + Chunk /\ Len(future) <= next - serving.t

RestInv ==
    /\ seen \in Seq(Steps) /\ predicted \subseteq 0 .. MaxStep
    /\ processed \in BOOLEAN /\ faults \in 0 .. MaxFaults
    /\ cpc \in {"act", "pop", "record", "ready", "mark", "send", "enqueue",
                "evict", "sent", "dead"}
    /\ rpc \in {"call", "infer", "scan", "scanning", "filter", "signal", "dead"}

ArmQueueInv == TypeInv /\ ArmInv /\ ObsInv /\ QueueInv /\ FutureInv /\ RestInv

LEMMA MaxOf ==
    ASSUME NEW a \in Int, NEW b \in Int
    PROVE  Max({a, b}) = IF a >= b THEN a ELSE b
<1>1. \E x \in {a, b} : \A y \in {a, b} : x >= y
  <2>1. CASE a >= b
    BY <2>1
  <2>2. CASE ~(a >= b)
    BY <2>2
  <2> QED
    BY <2>1, <2>2
<1>2. Max({a, b}) \in {a, b} /\ \A y \in {a, b} : Max({a, b}) >= y
  BY <1>1 DEF Max
<1> QED
  BY <1>2

\* The first action that goes on where d was performed is at most d + 1; and
\* what is left when it was performed goes on from there.
LEMMA TailCovers ==
    ASSUME NEW s \in Seq(Int), s # <<>>, Ordered(s), NEW d \in Int,
           Covers(s, d, s[Len(s)]), NEW e \in Int, e >= d, e >= Head(s)
    PROVE  /\ Head(s) <= d + 1 /\ Ordered(Tail(s))
           /\ Tail(s) # <<>> => Covers(Tail(s), e, Tail(s)[Len(Tail(s))])
<1>1. /\ Len(s) \in Nat \ {0} /\ DOMAIN s = 1 .. Len(s) /\ Head(s) = s[1]
      /\ \A i \in 1 .. Len(s) : s[i] \in Int
  OBVIOUS
<1>2. /\ Tail(s) \in Seq(Int) /\ Len(Tail(s)) = Len(s) - 1
      /\ DOMAIN Tail(s) = 1 .. Len(s) - 1
      /\ \A i \in 1 .. Len(s) - 1 : Tail(s)[i] = s[i + 1]
  OBVIOUS
<1>3. Head(s) <= d + 1
  <2> SUFFICES ASSUME d + 1 < s[1] PROVE FALSE
    BY <1>1
  <2>1. s[1] <= s[Len(s)]
    BY <1>1 DEF Ordered
  <2>2. d + 1 \in d + 1 .. s[Len(s)]
    BY <1>1, <2>1
  <2>3. PICK i \in 1 .. Len(s) : s[i] = d + 1
    BY <1>1, <2>2 DEF Covers, Range
  <2>4. s[1] <= s[i]
    <3>1. CASE i = 1
      BY <1>1, <3>1
    <3>2. CASE 1 < i
      BY <1>1, <3>2 DEF Ordered
    <3> QED
      BY <1>1, <2>3, <3>1, <3>2
  <2> QED
    BY <1>1, <2>3, <2>4
<1>4. Ordered(Tail(s))
  <2> SUFFICES ASSUME NEW i \in 1 .. Len(s) - 1, NEW j \in 1 .. Len(s) - 1, i < j
               PROVE  Tail(s)[i] < Tail(s)[j]
    BY <1>2 DEF Ordered
  <2>1. i + 1 \in 1 .. Len(s) /\ j + 1 \in 1 .. Len(s) /\ i + 1 < j + 1
    BY <1>1
  <2>2. s[i + 1] < s[j + 1]
    BY <1>1, <2>1 DEF Ordered
  <2> QED
    BY <1>2, <2>2
<1>5. ASSUME Tail(s) # <<>> PROVE Covers(Tail(s), e, Tail(s)[Len(Tail(s))])
  <2>1. Len(s) > 1 /\ Tail(s)[Len(Tail(s))] = s[Len(s)]
    BY <1>1, <1>2, <1>5
  <2> SUFFICES ASSUME NEW x \in e + 1 .. s[Len(s)]
               PROVE  \E i \in 1 .. Len(s) - 1 : Tail(s)[i] = x
    BY <1>2, <2>1 DEF Covers, Range
  <2>2. PICK i \in 1 .. Len(s) : s[i] = x
    BY <1>1 DEF Covers, Range
  <2>3. i # 1
    BY <1>1, <2>2
  <2>4. i - 1 \in 1 .. Len(s) - 1 /\ Tail(s)[i - 1] = x
    BY <1>1, <1>2, <2>2, <2>3
  <2> QED
    BY <2>4
<1> QED
  BY <1>3, <1>4, <1>5

LEMMA AppendCovers ==
    ASSUME NEW s \in Seq(Int), NEW n \in Int, Ordered(s),
           \A i \in DOMAIN s : s[i] < n, NEW d \in Int, Covers(s, d, n - 1)
    PROVE  /\ Ordered(Append(s, n)) /\ \A i \in DOMAIN Append(s, n) : Append(s, n)[i] < n + 1
           /\ Covers(Append(s, n), d, n)
<1>1. /\ Len(s) \in Nat /\ DOMAIN s = 1 .. Len(s)
      /\ \A i \in 1 .. Len(s) : s[i] \in Int
  OBVIOUS
<1>2. /\ Append(s, n) \in Seq(Int) /\ Len(Append(s, n)) = Len(s) + 1
      /\ DOMAIN Append(s, n) = 1 .. Len(s) + 1
      /\ \A i \in 1 .. Len(s) : Append(s, n)[i] = s[i]
      /\ Append(s, n)[Len(s) + 1] = n
  OBVIOUS
<1>3. Ordered(Append(s, n)) /\ \A i \in DOMAIN Append(s, n) : Append(s, n)[i] < n + 1
  BY <1>1, <1>2 DEF Ordered
<1>4. Covers(Append(s, n), d, n)
  <2> SUFFICES ASSUME NEW x \in d + 1 .. n
               PROVE  \E i \in 1 .. Len(s) + 1 : Append(s, n)[i] = x
    BY <1>2 DEF Covers, Range
  <2>1. CASE x = n
    BY <1>1, <1>2, <2>1
  <2>2. CASE x # n
    <3>1. PICK i \in 1 .. Len(s) : s[i] = x
      BY <1>1, <2>2 DEF Covers, Range
    <3> QED
      BY <1>1, <1>2, <3>1
  <2> QED
    BY <2>1, <2>2
<1> QED
  BY <1>3, <1>4

LEMMA TypesOfArm ==
    ASSUME ArmInv
    PROVE  /\ done \in Int /\ done >= -1 /\ done <= MaxStep
           /\ latest \in Int /\ latest >= -1 /\ latest <= done
           /\ held \in Int /\ held >= -1 /\ held <= done
           /\ MaxStep \in Nat /\ Chunk \in Nat \ {0} /\ Steps = 0 .. MaxStep + Chunk
  BY BoundAssumption, ChunkAssumption DEF ArmInv, Steps

\* A timestep that is performed is not performed beyond.
LEMMA CoversOn ==
    ASSUME NEW s \in Seq(Int), NEW d \in Int, NEW e \in Int, e >= d, NEW top \in Int,
           Covers(s, d, top)
    PROVE  Covers(s, e, top)
  BY DEF Covers

\* The arm performs the first action of the queue.
LEMMA ArmPops ==
    ASSUME ArmQueueInv, Pop
    PROVE  ArmInv' /\ ObsInv' /\ QueueInv' /\ FutureInv' /\ RestInv'
<1> DEFINE head == Head(queue)
<1>1. /\ cpc = "pop" /\ cpc' = "record" /\ queue # <<>> /\ held' = head
      /\ queue' = Tail(queue) /\ done' = Max({done, head})
      /\ UNCHANGED <<latest, obs, receiver, server, faults>>
  BY DEF Pop, ControlAt
<1>2. /\ done \in Int /\ done >= -1 /\ latest \in Int /\ latest >= -1 /\ latest <= done
      /\ done < MaxStep /\ MaxStep \in Nat /\ Chunk \in Nat \ {0}
      /\ Steps = 0 .. MaxStep + Chunk
  BY <1>1, TypesOfArm DEF ArmQueueInv, ArmInv
<1>3. queue \in Seq(Steps) /\ queue \in Seq(Int) /\ head \in Steps /\ Len(queue) <= Chunk
  BY <1>1 DEF ArmQueueInv, QueueInv, TypeInv
<1>4. done' = IF done >= head THEN done ELSE head
  BY <1>1, <1>2, <1>3, MaxOf
<1>5. done' \in Int /\ done' >= done /\ done' >= head
  BY <1>2, <1>3, <1>4
<1>6. /\ head <= done + 1 /\ Ordered(Tail(queue))
      /\ Tail(queue) # <<>> => Covers(Tail(queue), done', Tail(queue)[Len(Tail(queue))])
  BY <1>1, <1>2, <1>3, <1>5, TailCovers DEF ArmQueueInv, QueueInv
<1>7. ArmInv'
  <2> HIDE DEF head
  <2>1. head \in Int /\ head >= 0 /\ head <= done + 1
    BY <1>2, <1>3, <1>6 DEF head
  <2>2. done' \in -1 .. MaxStep /\ held' \in -1 .. done' /\ latest' \in -1 .. done'
    BY <1>1, <1>2, <1>4, <2>1
  <2> QED
    BY <1>1, <2>2 DEF ArmInv
<1>8. ObsInv'
  <2> SUFFICES ASSUME NEW o \in {obs, waiting, serving} \ {None}
               PROVE  o \in [t: 0 .. MaxStep, mustGo: BOOLEAN] /\ o.t <= done' + 1
    BY <1>1 DEF ObsInv, receiver, server
  <2>1. o \in [t: 0 .. MaxStep, mustGo: BOOLEAN] /\ o.t <= done + 1
    BY DEF ArmQueueInv, ObsInv
  <2>2. o.t \in Int
    BY <2>1
  <2> QED
    BY <1>2, <1>5, <2>1, <2>2
<1>9. QueueInv'
  <2>1. Tail(queue) \in Seq(Steps) /\ Len(Tail(queue)) = Len(queue) - 1 /\ Len(queue) \in Nat
    BY <1>1, <1>3
  <2> QED
    BY <1>1, <1>2, <1>3, <1>6, <2>1 DEF QueueInv, Steps
<1>10. FutureInv'
  <2>1. UNCHANGED <<rpc, serving, next, future>>
    BY <1>1 DEF receiver
  <2>2. FutureInv /\ future \in Seq(Int) /\ next \in Int
    BY DEF ArmQueueInv, TypeInv
  <2>3. Covers(future, done', next - 1)
    BY <1>2, <1>5, <2>2, CoversOn DEF FutureInv
  <2> QED
    BY <2>1, <2>2, <2>3 DEF FutureInv, Steps
<1>11. RestInv'
  BY <1>1 DEF ArmQueueInv, RestInv, receiver, server, Steps
<1> QED
  BY <1>7, <1>8, <1>9, <1>10, <1>11

\* The rest of the control loop leaves the queue and the arm alone; what it
\* observes is at the latest action.
LEMMA ArmControl ==
    ASSUME ArmQueueInv, ControlStep \/ SendFails, ~Pop
    PROVE  ArmInv' /\ ObsInv' /\ QueueInv' /\ FutureInv' /\ RestInv'
<1>1. UNCHANGED <<queue, rpc, serving, seen, next, future, done>>
  BY DEF ControlStep, SendFails, Look, PopEmpty, Record, Ready, Mark, Send, Enqueue, Evict,
         Clear, receiver
<1>2. /\ done \in Int /\ done >= -1 /\ latest \in Int /\ latest >= -1 /\ latest <= done
      /\ held \in Int /\ held >= -1 /\ held <= done /\ done <= MaxStep /\ MaxStep \in Nat
  BY TypesOfArm DEF ArmQueueInv
<1>3. QueueInv' /\ FutureInv'
  BY <1>1 DEF ArmQueueInv, QueueInv, FutureInv, Steps, Ordered, Covers
<1>4. /\ latest' \in {latest, held} /\ UNCHANGED <<held, predicted, processed>>
      /\ cpc' = "pop" => cpc = "pop" \/ done < MaxStep
  BY <1>1 DEF ControlStep, SendFails, Look, PopEmpty, Record, Ready, Mark, Send, Enqueue, Evict,
         Clear, ControlAt, server
<1>5. ArmInv'
  BY <1>1, <1>2, <1>4 DEF ArmQueueInv, ArmInv
<1>6. RestInv'
  <2>1. faults' \in 0 .. MaxFaults
    <3>1. faults' = faults \/ (faults < MaxFaults /\ faults' = faults + 1)
      BY DEF ControlStep, SendFails, Look, PopEmpty, Record, Ready, Mark, Send, Enqueue,
             Evict, Clear, Fault
    <3> QED
      BY <3>1, BoundAssumption DEF ArmQueueInv, RestInv
  <2>2. cpc' \in {"act", "pop", "record", "ready", "mark", "send", "enqueue",
                  "evict", "sent", "dead"}
    BY DEF ControlStep, SendFails, Look, PopEmpty, Record, Ready, Mark, Send, Enqueue, Evict,
        Clear, ControlAt
  <2> QED
    BY <1>1, <1>4, <2>1, <2>2 DEF ArmQueueInv, RestInv, Steps
<1>7. ASSUME waiting' \in {waiting, obs, None}, obs' \in {obs, None} PROVE ObsInv'
  BY <1>1, <1>7 DEF ArmQueueInv, ObsInv
<1>8. ObsInv'
  <2>1. CASE Look \/ PopEmpty \/ Record \/ Send \/ SendFails \/ Enqueue \/ Evict \/ Clear
    <3>1. waiting' \in {waiting, obs, None} /\ obs' \in {obs, None}
      BY <2>1 DEF Look, PopEmpty, Record, Send, SendFails, Enqueue, Evict, Clear, server
    <3> QED
      BY <1>7, <3>1
  <2>2. CASE Ready
    <3>1. waiting' = waiting
      BY <2>2 DEF Ready, server
    <3>2. CASE obs' = obs
      BY <1>7, <3>1, <3>2
    <3>3. CASE obs' = [t |-> Max({latest, 0}), mustGo |-> FALSE]
      <4>1. Max({latest, 0}) \in 0 .. MaxStep /\ Max({latest, 0}) <= done + 1
        BY <1>2, MaxOf
      <4>2. obs' \in [t: 0 .. MaxStep, mustGo: BOOLEAN] /\ obs'.t <= done + 1
        BY <3>3, <4>1
      <4> QED
        BY <1>1, <3>1, <4>2 DEF ArmQueueInv, ObsInv
    <3> QED
      BY <2>2, <3>2, <3>3 DEF Ready
  <2>3. CASE Mark
    <3>1. waiting' = waiting /\ obs' = [obs EXCEPT !.mustGo = Qualifies] /\ cpc = "mark"
      BY <2>3 DEF Mark, ControlAt, server
    <3>2. obs # None /\ Qualifies \in BOOLEAN
      BY <3>1 DEF ArmQueueInv, TypeInv, Sending, Qualifies
    <3>3. obs \in [t: 0 .. MaxStep, mustGo: BOOLEAN] /\ obs.t <= done + 1
      BY <3>2 DEF ArmQueueInv, ObsInv
    <3>4. obs' \in [t: 0 .. MaxStep, mustGo: BOOLEAN] /\ obs'.t <= done + 1
      BY <3>1, <3>2, <3>3
    <3> QED
      BY <1>1, <3>1, <3>4 DEF ArmQueueInv, ObsInv
  <2> QED
    BY <2>1, <2>2, <2>3 DEF ControlStep
<1> QED
  BY <1>3, <1>5, <1>6, <1>8

\* The receiver keeps of a chunk what goes on where the arm is by then.
LEMMA ArmReceiver ==
    ASSUME ArmQueueInv, ReceiverStep \/ InferFails
    PROVE  ArmInv' /\ ObsInv' /\ QueueInv' /\ FutureInv' /\ RestInv'
<1>1. UNCHANGED <<done, latest, held, cpc, obs>>
  BY DEF ReceiverStep, InferFails, Take, Infer, Scan, Scanned, Filter, Replace, Signal, control
<1>2. /\ done \in Int /\ done >= -1 /\ latest \in Int /\ latest <= done
      /\ MaxStep \in Nat /\ Chunk \in Nat \ {0} /\ Steps = 0 .. MaxStep + Chunk
  BY TypesOfArm DEF ArmQueueInv
<1>3. ArmInv'
  BY <1>1 DEF ArmQueueInv, ArmInv
<1>4. ObsInv'
  <2>1. waiting' \in {waiting, None} /\ serving' \in {serving, waiting, None}
    BY DEF ReceiverStep, InferFails, Take, Infer, Scan, Scanned, Filter, Replace, Signal, server
  <2> QED
    BY <1>1, <2>1 DEF ArmQueueInv, ObsInv
<1>5. RestInv'
  <2>1. faults' \in 0 .. MaxFaults
    <3>1. faults' = faults \/ (faults < MaxFaults /\ faults' = faults + 1)
      BY DEF ReceiverStep, InferFails, Take, Infer, Scan, Scanned, Filter, Replace, Signal,
             Fault
    <3> QED
      BY <3>1, BoundAssumption DEF ArmQueueInv, RestInv
  <2>2. rpc' \in {"call", "infer", "scan", "scanning", "filter", "signal", "dead"}
    BY DEF ReceiverStep, InferFails, Take, Infer, Scan, Scanned, Filter, Replace, Signal,
        ReceiverAt, ArmQueueInv, RestInv
  <2>3. seen' \in Seq(Steps)
    <3>1. <<>> \in Seq(Steps)
      OBVIOUS
    <3>2. seen' \in {seen, queue, <<>>}
      BY DEF ReceiverStep, InferFails, Take, Infer, Scan, Scanned, Filter, Replace, Signal
    <3> QED
      BY <3>1, <3>2 DEF ArmQueueInv, RestInv, QueueInv
  <2>4. predicted' \subseteq 0 .. MaxStep
    <3>1. CASE Take
      <4>1. waiting.t \in 0 .. MaxStep
        BY <3>1 DEF Take, ArmQueueInv, ObsInv
      <4> QED
        BY <3>1, <4>1 DEF Take, ArmQueueInv, RestInv
    <3>2. CASE ~Take
      BY <3>2 DEF ReceiverStep, InferFails, Infer, Scan, Scanned, Filter, Replace, Signal,
          server, ArmQueueInv, RestInv
    <3> QED
      BY <3>1, <3>2
  <2>5. processed' \in BOOLEAN
    BY DEF ReceiverStep, InferFails, Take, Infer, Scan, Scanned, Filter, Replace, Signal,
        server, ArmQueueInv, RestInv
  <2> QED
    BY <1>1, <2>1, <2>2, <2>3, <2>4, <2>5 DEF ArmQueueInv, RestInv, Steps
<1>6. CASE Take \/ InferFails \/ Signal
  <2>1. /\ UNCHANGED <<queue, next, future>> /\ rpc' \notin {"scan", "scanning", "filter"}
    BY <1>6 DEF Take, InferFails, Signal, ReceiverAt
  <2>2. QueueInv' /\ FutureInv'
    BY <1>1, <2>1 DEF ArmQueueInv, QueueInv, FutureInv, Steps
  <2> QED
    BY <1>3, <1>4, <1>5, <2>2
<1>7. CASE Infer
  <2>1. /\ rpc = "infer" /\ rpc' = "scan" /\ next' = serving.t /\ future' = <<>>
        /\ UNCHANGED <<queue, serving>>
    BY <1>7 DEF Infer, ReceiverAt, ChunkStart
  <2>2. serving.t \in 0 .. MaxStep /\ serving.t <= done + 1
    BY <2>1 DEF ArmQueueInv, TypeInv, ObsInv
  <2>3. <<>> \in Seq(Steps) /\ Len(<<>>) = 0 /\ DOMAIN <<>> = {}
    OBVIOUS
  <2>4. done + 1 .. serving.t - 1 = {}
    BY <1>2, <2>2
  <2>5. FutureInv'
    BY <1>1, <1>2, <2>1, <2>2, <2>3, <2>4 DEF FutureInv, Covers, Ordered, Steps
  <2>6. QueueInv'
    BY <1>1, <2>1 DEF ArmQueueInv, QueueInv, Steps
  <2> QED
    BY <1>3, <1>4, <1>5, <2>5, <2>6
<1>8. CASE Scan \/ Scanned
  <2>1. /\ UNCHANGED <<queue, next, future, serving>>
        /\ rpc \in {"scan", "scanning"}
    BY <1>8 DEF Scan, Scanned
  <2>2. QueueInv' /\ FutureInv'
    BY <1>1, <2>1 DEF ArmQueueInv, QueueInv, FutureInv, Steps
  <2> QED
    BY <1>3, <1>4, <1>5, <2>2
<1>9. CASE Filter
  <2>1. /\ rpc = "filter" /\ next <= serving.t + Chunk - 1 /\ next' = next + 1
        /\ future' = IF next <= latest THEN future ELSE Append(future, next)
        /\ UNCHANGED <<queue, serving, rpc>>
    BY <1>9 DEF Filter, ChunkEnd, ChunkStart, Stale
  <2>2. /\ next \in Steps /\ next \in Int /\ future \in Seq(Steps) /\ future \in Seq(Int)
        /\ Ordered(future) /\ \A i \in DOMAIN future : future[i] < next
        /\ Covers(future, done, next - 1) /\ Len(future) \in Nat
        /\ next \in serving.t .. serving.t + Chunk /\ Len(future) <= next - serving.t
    BY <2>1 DEF ArmQueueInv, TypeInv, FutureInv
  <2>3. serving.t \in 0 .. MaxStep
    BY <2>1 DEF ArmQueueInv, TypeInv, ObsInv
  <2>4. /\ next' \in Steps /\ next' \in serving.t .. serving.t + Chunk
        /\ next' - 1 = next
    BY <1>2, <2>1, <2>2, <2>3
  <2>5. ASSUME next <= latest PROVE FutureInv'
    <3>1. \A i \in DOMAIN future : future[i] < next + 1
      BY <2>2
    <3>2. done + 1 .. next = {}
      BY <1>2, <2>2, <2>5
    <3>3. Covers(future, done, next)
      BY <3>2 DEF Covers
    <3>4. Len(future) <= next + 1 - serving.t /\ Len(future) <= Chunk
      BY <1>2, <2>2, <2>3, <2>1
    <3> QED
      <4>1. future' = future /\ next' = next + 1
        BY <2>1, <2>5
      <4>2. Covers(future', done', next' - 1)
        BY <1>1, <2>4, <4>1, <3>3
      <4>3. Len(future') <= next' - serving.t /\ Len(future') <= Chunk
        BY <4>1, <2>2, <2>3, <3>4
      <4>4. Ordered(future') /\ \A i \in DOMAIN future' : future'[i] < next'
        BY <2>2, <4>1, <3>1
      <4>5. future' \in Seq(Steps)
        BY <2>2, <4>1
      <4> QED
        BY <2>1, <2>4, <4>2, <4>3, <4>4, <4>5 DEF FutureInv, Steps
  <2>6. ASSUME ~(next <= latest) PROVE FutureInv'
    <3>1. /\ Ordered(Append(future, next)) /\ Covers(Append(future, next), done, next)
          /\ \A i \in DOMAIN Append(future, next) : Append(future, next)[i] < next + 1
      BY <1>2, <2>2, AppendCovers
    <3>2. Append(future, next) \in Seq(Steps) /\ Len(Append(future, next)) = Len(future) + 1
      BY <2>2
    <3>3. /\ Len(Append(future, next)) <= next + 1 - serving.t
          /\ Len(Append(future, next)) <= Chunk
      BY <1>2, <2>2, <2>3, <2>1, <3>2
    <3> QED
      <4>1. future' = Append(future, next) /\ next' = next + 1
        BY <2>1, <2>6
      <4>2. Covers(future', done', next' - 1)
        BY <1>1, <2>4, <4>1, <3>1
      <4>3. Len(future') <= next' - serving.t /\ Len(future') <= Chunk
        BY <4>1, <2>2, <2>3, <3>2, <3>3
      <4>4. Ordered(future') /\ \A i \in DOMAIN future' : future'[i] < next'
        BY <2>2, <4>1, <3>1
      <4>5. future' \in Seq(Steps)
        BY <2>2, <4>1, <3>2
      <4> QED
        BY <2>1, <2>4, <4>2, <4>3, <4>4, <4>5 DEF FutureInv, Steps
  <2>7. FutureInv'
    BY <2>5, <2>6
  <2>8. QueueInv'
    BY <1>1, <2>1 DEF ArmQueueInv, QueueInv, Steps
  <2> QED
    BY <1>3, <1>4, <1>5, <2>7, <2>8
<1>10. CASE Replace
  <2>1. rpc' = "signal" /\ queue' = future /\ future' = <<>> /\ next' = 0
    BY <1>10 DEF Replace, ReceiverAt
  <2>2. /\ future \in Seq(Steps) /\ future \in Seq(Int) /\ next \in Int
        /\ Len(future) <= Chunk /\ Ordered(future)
        /\ \A i \in DOMAIN future : future[i] < next
        /\ Covers(future, done, next - 1)
    BY DEF ArmQueueInv, TypeInv, FutureInv
  <2>3. ASSUME future # <<>> PROVE Covers(future, done, future[Len(future)])
    <3>1. future[Len(future)] < next /\ future[Len(future)] \in Int
      BY <2>2, <2>3
    <3> QED
      BY <1>2, <2>2, <3>1 DEF Covers
  <2>4. QueueInv'
    BY <1>1, <2>1, <2>2, <2>3 DEF QueueInv, Steps
  <2>5. <<>> \in Seq(Steps) /\ Len(<<>>) = 0 /\ DOMAIN <<>> = {}
    OBVIOUS
  <2>6. done + 1 .. 0 - 1 = {} /\ 0 \in Steps
    BY <1>2
  <2>7. FutureInv'
    BY <1>1, <1>2, <2>1, <2>5, <2>6 DEF FutureInv, Covers, Ordered, Steps
  <2> QED
    BY <1>3, <1>4, <1>5, <2>4, <2>7
<1> QED
  BY <1>6, <1>7, <1>8, <1>9, <1>10 DEF ReceiverStep

LEMMA ArmRestart ==
    ASSUME ArmQueueInv, Restart, ~Straggler
    PROVE  ArmInv' /\ ObsInv' /\ QueueInv' /\ FutureInv' /\ RestInv'
<1>1. /\ queue' = <<>> /\ future' = <<>> /\ seen' = <<>> /\ next' = 0 /\ done' = -1
      /\ latest' = -1 /\ held' = -1 /\ cpc' = "act" /\ rpc' = "call" /\ obs' = None
      /\ serving' = None /\ waiting' = None /\ predicted' = {}
      /\ faults < MaxFaults /\ faults' = faults + 1
      /\ processed' \in {processed, processed \/ rpc = "infer"}
  BY DEF Restart, Flush, Fault
<1>2. MaxStep \in Nat /\ Chunk \in Nat \ {0} /\ Steps = 0 .. MaxStep + Chunk
  BY TypesOfArm DEF ArmQueueInv
<1>3. <<>> \in Seq(Steps) /\ Len(<<>>) = 0 /\ DOMAIN <<>> = {}
  OBVIOUS
<1>4. ArmInv'
  BY <1>1, <1>2 DEF ArmInv
<1>5. ObsInv'
  BY <1>1 DEF ObsInv
<1>6. QueueInv'
  BY <1>1, <1>2, <1>3 DEF QueueInv, Ordered, Steps
<1>7. FutureInv'
  <2>1. -1 + 1 .. 0 - 1 = {} /\ 0 \in Steps
    BY <1>2
  <2> QED
    BY <1>1, <1>2, <1>3, <2>1 DEF FutureInv, Covers, Ordered, Steps
<1>8. RestInv'
  <2>1. faults' \in 0 .. MaxFaults
    BY <1>1, BoundAssumption DEF ArmQueueInv, RestInv
  <2> QED
    BY <1>1, <1>3, <2>1 DEF ArmQueueInv, RestInv, Steps
<1> QED
  BY <1>4, <1>5, <1>6, <1>7, <1>8

LEMMA ArmStep ==
    ASSUME ArmQueueInv, OwedInv, [Next]_vars, ~Straggler
    PROVE  ArmQueueInv'
<1>1. OwedInv'
  BY OwedStep
<1>2. ASSUME ArmInv' /\ ObsInv' /\ QueueInv' /\ FutureInv' /\ RestInv'
      PROVE  ArmQueueInv'
  BY <1>1, <1>2 DEF ArmQueueInv, OwedInv
<1>3. CASE UNCHANGED vars
  BY <1>2, <1>3
  DEF vars, control, receiver, server, ArmQueueInv, ArmInv, ObsInv, QueueInv, FutureInv,
      RestInv, Steps
<1>4. CASE Pop
  BY <1>2, <1>4, ArmPops
<1>5. CASE (ControlStep \/ SendFails) /\ ~Pop
  BY <1>2, <1>5, ArmControl
<1>6. CASE ReceiverStep \/ InferFails
  BY <1>2, <1>6, ArmReceiver
<1>7. CASE Restart
  BY <1>2, <1>7, ArmRestart
<1> QED
  BY <1>3, <1>4, <1>5, <1>6, <1>7 DEF Next

LEMMA ArmInit ==
    ASSUME Init
    PROVE  ArmQueueInv
<1>1. /\ queue = <<>> /\ future = <<>> /\ seen = <<>> /\ next = 0 /\ done = -1
      /\ latest = -1 /\ held = -1 /\ cpc = "act" /\ rpc = "call" /\ obs = None
      /\ serving = None /\ waiting = None /\ predicted = {} /\ faults = 0
      /\ processed = FALSE /\ mustGo = TRUE /\ lapse = FALSE
  BY DEF Init
<1>2. MaxStep \in Nat /\ Chunk \in Nat \ {0} /\ Steps = 0 .. MaxStep + Chunk
  BY BoundAssumption, ChunkAssumption DEF Steps
<1>3. /\ <<>> \in Seq(Steps) /\ <<>> \in Seq(Int)
      /\ Len(<<>>) = 0 /\ DOMAIN <<>> = {}
  OBVIOUS
<1>4. TypeInv
  BY OwedInit DEF OwedInv
<1>5. ArmInv
  BY <1>1, <1>2 DEF ArmInv
<1>6. ObsInv
  BY <1>1 DEF ObsInv
<1>7. QueueInv
  BY <1>1, <1>2, <1>3 DEF QueueInv, Ordered
<1>8. FutureInv
  <2>1. done + 1 .. next - 1 = {} /\ 0 \in Steps
    BY <1>1, <1>2
  <2> QED
    BY <1>1, <1>2, <1>3, <2>1 DEF FutureInv, Covers, Ordered
<1>9. RestInv
  <2>1. seen \in Seq(Steps) /\ predicted \subseteq 0 .. MaxStep
    BY <1>1, <1>3
  <2>2. faults \in 0 .. MaxFaults
    BY <1>1, BoundAssumption
  <2>3. processed \in BOOLEAN
    BY <1>1
  <2> QED
    BY <1>1, <2>1, <2>2, <2>3 DEF RestInv
<1> QED
  BY <1>4, <1>5, <1>6, <1>7, <1>8, <1>9 DEF ArmQueueInv

LEMMA ArmQueueInvariant ==
    ASSUME ~Straggler
    PROVE  Spec => []ArmQueueInv
<1>1. Init => OwedInv
  BY OwedInit
<1>2. OwedInv /\ [Next]_vars => OwedInv'
  BY OwedStep
<1>3. Init => ArmQueueInv
  BY ArmInit
<1>4. ArmQueueInv /\ OwedInv /\ [Next]_vars => ArmQueueInv'
  BY ArmStep
<1> QED
  BY <1>1, <1>2, <1>3, <1>4, PTL DEF Spec

\* The types, among them that no queue of the client is longer than a chunk.
THEOREM TypesHold ==
    ASSUME ~Straggler
    PROVE  Spec => []TypeOK
<1>1. ASSUME ArmQueueInv PROVE TypeOK
  <2>1. /\ done \in Int /\ done >= -1 /\ latest \in Int /\ latest >= -1 /\ latest <= done
        /\ held \in Int /\ held >= -1 /\ held <= done /\ done <= MaxStep /\ MaxStep \in Nat
        /\ Chunk \in Nat \ {0} /\ Steps = 0 .. MaxStep + Chunk
    BY <1>1, TypesOfArm DEF ArmQueueInv
  <2>2. [t: 0 .. MaxStep, mustGo: BOOLEAN] \subseteq Observation
    BY <2>1 DEF Observation
  <2>3. {obs, serving, waiting} \subseteq Observation \union {None}
    BY <1>1, <2>2 DEF ArmQueueInv, ObsInv
  <2>4. /\ latest \in -1 .. MaxStep + Chunk /\ held \in -1 .. MaxStep + Chunk
        /\ done \in latest .. MaxStep + Chunk
    BY <2>1
  <2> QED
    BY <1>1, <2>3, <2>4 DEF ArmQueueInv, TypeInv, QueueInv, FutureInv, RestInv, TypeOK
<1> QED
  BY <1>1, ArmQueueInvariant, PTL

\* However late a chunk comes and whatever is performed while it is taken in,
\* the queue is in order and lacks no timestep after the furthest performed:
\* if no handler of a killed client outlives the start of the next.
THEOREM QueueFollows ==
    ASSUME ~Straggler
    PROVE  Spec => []QueueFollowsArm
<1>1. ArmQueueInv => QueueFollowsArm
  BY DEF ArmQueueInv, QueueInv, Ordered, Covers, QueueFollowsArm
<1> QED
  BY <1>1, ArmQueueInvariant, PTL

\* No action of the episode is skipped: the one the arm performs is the one
\* after the furthest performed, or one up to there again.
NoneSkipped == [][ControlAt("pop", "record") => held' <= done + 1]_vars

\* For any chunk length, threshold and episode: what the aggregation keeps of
\* two chunks goes on where the arm is, if no handler of a killed client
\* outlives the start of the next.
THEOREM PerformsEveryStep ==
    ASSUME ~Straggler
    PROVE  Spec => NoneSkipped
<1>1. ASSUME ArmQueueInv, [Next]_vars
      PROVE  [ControlAt("pop", "record") => held' <= done + 1]_vars
  <2> SUFFICES ASSUME Next, ControlAt("pop", "record") PROVE held' <= done + 1
    BY <1>1
  <2>1. Pop
    BY DEF Next, ControlStep, ReceiverStep, Look, Pop, PopEmpty, Record, Ready, Mark, Send,
           Enqueue, Evict, Clear, Take, Infer, Scan, Scanned, Filter, Replace, Signal,
           SendFails, InferFails, Restart, ControlAt, control
  <2>2. /\ held' = Head(queue) /\ queue # <<>> /\ queue \in Seq(Int) /\ Ordered(queue)
        /\ Covers(queue, done, queue[Len(queue)]) /\ done \in Int
    BY <1>1, <2>1, TypesOfArm DEF Pop, ArmQueueInv, TypeInv, QueueInv
  <2>3. Head(queue) \in Int
    BY <2>2
  <2>4. PICK e \in Int : e >= done /\ e >= Head(queue)
    <3>1. CASE done >= Head(queue)
      BY <2>2, <3>1
    <3>2. CASE ~(done >= Head(queue))
      BY <2>2, <2>3, <3>2
    <3> QED
      BY <3>1, <3>2
  <2>5. Head(queue) <= done + 1
    BY <2>2, <2>4, TailCovers
  <2> QED
    BY <2>2, <2>5
<1> QED
  BY <1>1, ArmQueueInvariant, PTL DEF Spec, NoneSkipped
=============================================================================

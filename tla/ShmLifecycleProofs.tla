-------------------------- MODULE ShmLifecycleProofs ------------------------
(***************************************************************************)
(* Proofs about ShmLifecycle, for any number of daemons and segments: a    *)
(* client that has attached never sees the header change under it, and a   *)
(* file of somebody else is left alone, however launches overlap; and the  *)
(* daemon that drives is behind the name when they do not, and when the    *)
(* inspection reads its timestamp.                                         *)
(***************************************************************************)
EXTENDS ShmLifecycle, TLAPS

\* A daemon that has not driven yet.
Starting == {"create", "size", "init", "inspect", "reclaim", "recreate", "bringup"}

\* A daemon that owns a segment.
Owning == {"size", "init", "bringup", "loop", "exit"}

Headers == {"free", "short", "zero", "ready", "foreign"}

TypeInv ==
    /\ name \in Segment \union {None}
    /\ header \in [Segment -> Headers]
    /\ age \in [Segment -> 0 .. Old]
    /\ pc \in [Daemon -> Starting \union {"off", "loop", "exit"}]
    /\ own \in [Daemon -> Segment \union {None}]
    /\ \A d \in Daemon : own[d] # None <=> pc[d] \in Owning

-----------------------------------------------------------------------------
(* Types. *)

\* Appear puts a segment behind the name that nobody has.
LEMMA AppearTakesUnused ==
    ASSUME NEW d \in Daemon, TypeInv, Appear(d)
    PROVE  \E s \in Segment \ InUse :
             /\ name = None /\ name' = s
             /\ header' = [header EXCEPT ![s] = "short"]
             /\ age' = [age EXCEPT ![s] = Old]
             /\ own' = [own EXCEPT ![d] = s]
<1> DEFINE s == CHOOSE t \in Segment : t \notin InUse
<1>1. s \in Segment \ InUse
  BY DEF Appear
<1> HIDE DEF s
<1> QED
  BY <1>1 DEF Appear, s

LEMMA TypeDaemon ==
    ASSUME TypeInv, NEW d \in Daemon, DaemonStep(d)
    PROVE  TypeInv'
<1> Old \in Nat /\ 0 \in 0 .. Old /\ Old \in 0 .. Old
  BY LivenessAssumption DEF Old
<1>1. CASE Launch(d) \/ InspectStale(d) \/ Refuse(d) \/ LeaveLoop(d)
  BY <1>1 DEF Launch, InspectStale, Refuse, LeaveLoop, At, TypeInv, Headers, Starting, Owning
<1>2. CASE Create(d) \/ Recreate(d)
  <2>1. CASE Appear(d)
    <3>1. PICK s \in Segment \ InUse :
             /\ name' = s
             /\ header' = [header EXCEPT ![s] = "short"]
             /\ age' = [age EXCEPT ![s] = Old]
             /\ own' = [own EXCEPT ![d] = s]
      BY <2>1, AppearTakesUnused
    <3>2. pc' = [pc EXCEPT ![d] = "size"] \/ pc' = [pc EXCEPT ![d] = "inspect"]
      BY <1>2 DEF Create, Recreate, At
    <3>3. pc' = [pc EXCEPT ![d] = "size"]
      BY <1>2, <2>1 DEF Create, Recreate, At, Appear
    <3> QED
      BY <3>1, <3>3, SegmentAssumption DEF TypeInv, Headers, Starting, Owning
  <2>2. CASE ~Appear(d)
    BY <1>2, <2>2 DEF Create, Recreate, At, TypeInv, Headers, Starting, Owning
  <2> QED
    BY <2>1, <2>2
<1>3. CASE Size(d) \/ Initialise(d)
  BY <1>3 DEF Size, Initialise, At, TypeInv, Headers, Starting, Owning
<1>4. CASE Reclaim(d)
  BY <1>4 DEF Reclaim, At, TypeInv, Headers, Starting, Owning
<1>5. CASE FirstTick(d) \/ Tick(d)
  BY <1>5 DEF FirstTick, Tick, At, TypeInv, Headers, Starting, Owning, daemons
<1>6. CASE End(d) \/ Kill(d)
  BY <1>6 DEF End, Kill, At, TypeInv, Headers, Starting, Owning
<1> QED
  BY <1>1, <1>2, <1>3, <1>4, <1>5, <1>6 DEF DaemonStep

LEMMA TypePass ==
    ASSUME TypeInv, Pass
    PROVE  TypeInv'
<1>1. \A n \in 0 .. Old : n # Old => n + 1 \in 0 .. Old
  BY LivenessAssumption DEF Old
<1>2. age' \in [Segment -> 0 .. Old]
  BY <1>1 DEF Pass, TypeInv
<1> QED
  BY <1>2 DEF Pass, TypeInv, daemons

\* The client leaves everything the daemons have.
LEMMA ClientLeaves ==
    ASSUME Open \/ Check \/ Close \/ UNCHANGED vars
    PROVE  UNCHANGED <<name, header, age, pc, own>>
BY DEF Open, Check, Close, vars, daemons

LEMMA TypeStep ==
    ASSUME TypeInv, [Next]_vars
    PROVE  TypeInv'
<1>1. CASE Open \/ Check \/ Close \/ UNCHANGED vars
  BY <1>1, ClientLeaves DEF TypeInv
<1> QED
  BY <1>1, TypeDaemon, TypePass DEF Next

LEMMA TypeInit ==
    ASSUME Init
    PROVE  TypeInv
BY LivenessAssumption DEF Init, TypeInv, Headers, Starting, Owning, Old

-----------------------------------------------------------------------------
(* The client's segment. *)

\* A segment is prepared by one daemon, from a file that nobody has, and what
\* a client has attached to is never prepared again.
ClientInv ==
    /\ cpc \in {"idle", "opened", "attached", "refused"}
    /\ mapped \in Segment \union {None}
    /\ mapped # None <=> cpc \in {"opened", "attached"}
    /\ cpc = "attached" => header[mapped] = "ready"
    /\ \A d \in Daemon : pc[d] = "size" => header[own[d]] = "short"
    /\ \A d, e \in Daemon : own[d] # None /\ own[d] = own[e] => d = e

LEMMA ClientSeesCreation ==
    ASSUME TypeInv, ClientInv, NEW d \in Daemon, Create(d) \/ Recreate(d)
    PROVE  ClientInv'
<1> cpc' = cpc /\ mapped' = mapped
  BY DEF Create, Recreate, client
<1>1. CASE Appear(d)
  <2>1. PICK s \in Segment \ InUse :
           /\ header' = [header EXCEPT ![s] = "short"]
           /\ own' = [own EXCEPT ![d] = s]
    BY <1>1, AppearTakesUnused
  <2>2. pc' = [pc EXCEPT ![d] = "size"]
    BY <1>1 DEF Create, Recreate, At, Appear
  <2>3. s # mapped /\ \A e \in Daemon : s # own[e]
    BY <2>1 DEF InUse
  <2>4. cpc = "attached" => header'[mapped] = "ready"
    BY <2>1, <2>3, SegmentAssumption DEF TypeInv, ClientInv
  <2>5. \A e \in Daemon : pc'[e] = "size" => header'[own'[e]] = "short"
    <3> SUFFICES ASSUME NEW e \in Daemon, pc'[e] = "size"
                 PROVE  header'[own'[e]] = "short"
      OBVIOUS
    <3>1. CASE e = d
      BY <2>1, <3>1 DEF TypeInv
    <3>2. CASE e # d
      <4>1. pc[e] = "size" /\ own'[e] = own[e]
        BY <2>1, <2>2, <3>2 DEF TypeInv
      <4> QED
        BY <2>1, <2>3, <4>1 DEF TypeInv, ClientInv
    <3> QED
      BY <3>1, <3>2
  <2>6. \A e, f \in Daemon : own'[e] # None /\ own'[e] = own'[f] => e = f
    BY <2>1, <2>3 DEF TypeInv, ClientInv
  <2> QED
    BY <2>4, <2>5, <2>6 DEF ClientInv
<1>2. CASE ~Appear(d)
  BY <1>2 DEF Create, Recreate, At, ClientInv, TypeInv
<1> QED
  BY <1>1, <1>2

LEMMA ClientSeesDaemon ==
    ASSUME TypeInv, ClientInv, NEW d \in Daemon, DaemonStep(d)
    PROVE  ClientInv'
<1>1. CASE Create(d) \/ Recreate(d)
  BY <1>1, ClientSeesCreation
<1>2. CASE Size(d) \/ Initialise(d)
  <2>1. PICK h \in {"zero", "ready"} : header' = [header EXCEPT ![own[d]] = h]
    BY <1>2 DEF Size, Initialise
  <2>2. /\ cpc' = cpc /\ mapped' = mapped /\ own' = own /\ own[d] # None
        /\ \A e \in Daemon : e # d => pc'[e] = pc[e]
        /\ pc'[d] # "size"
    BY <1>2 DEF Size, Initialise, At, TypeInv, client, Owning
  <2>3. cpc = "attached" => header'[mapped] = "ready"
    <3>1. CASE Size(d)
      <4>1. header[own[d]] = "short"
        BY <3>1 DEF Size, At, ClientInv
      <4> QED
        BY <2>1, <4>1 DEF ClientInv, TypeInv
    <3>2. CASE Initialise(d)
      BY <3>2 DEF Initialise, ClientInv, TypeInv
    <3> QED
      BY <1>2, <3>1, <3>2
  <2>4. \A e \in Daemon : pc'[e] = "size" => header'[own'[e]] = "short"
    BY <2>1, <2>2 DEF ClientInv, TypeInv
  <2> QED
    BY <2>2, <2>3, <2>4 DEF ClientInv
<1>3. CASE End(d) \/ Kill(d)
  BY <1>3 DEF End, Kill, At, ClientInv, TypeInv, Owning, client
<1>4. CASE \/ Launch(d) \/ InspectStale(d) \/ Reclaim(d) \/ Refuse(d)
           \/ FirstTick(d) \/ Tick(d) \/ LeaveLoop(d)
  <2>1. /\ UNCHANGED <<header, own, cpc, mapped>>
        /\ \A e \in Daemon : pc'[e] = "size" => pc[e] = "size"
    BY <1>4 DEF Launch, InspectStale, Reclaim, Refuse, FirstTick, Tick, LeaveLoop, At,
        TypeInv, client, daemons
  <2> QED
    BY <2>1 DEF ClientInv
<1> QED
  BY <1>1, <1>2, <1>3, <1>4 DEF DaemonStep

LEMMA ClientStep ==
    ASSUME TypeInv, ClientInv, [Next]_vars
    PROVE  ClientInv'
<1>1. CASE Open \/ Check \/ Close
  <2>1. UNCHANGED <<header, pc, own>>
    BY <1>1, ClientLeaves
  <2>2. CASE Open
    BY <2>1, <2>2 DEF Open, ClientInv, TypeInv
  <2>3. CASE Check
    BY <2>1, <2>3 DEF Check, ClientInv
  <2>4. CASE Close
    BY <2>1, <2>4 DEF Close, ClientInv
  <2> QED
    BY <1>1, <2>2, <2>3, <2>4
<1>2. CASE Pass \/ UNCHANGED vars
  BY <1>2 DEF Pass, ClientInv, daemons, client, vars
<1> QED
  BY <1>1, <1>2, ClientSeesDaemon DEF Next

\* However daemons are launched, killed and ended: what a client has attached
\* to keeps the header it checked, for no daemon prepares a segment that is
\* mapped, and none prepares another's.
THEOREM TypesHold == Spec => []TypeOK
<1>1. Init => TypeInv /\ ClientInv
  BY TypeInit DEF Init, ClientInv
<1>2. TypeInv /\ ClientInv => TypeOK
  BY DEF TypeInv, ClientInv, TypeOK, Headers, Starting, Owning
<1> QED
  BY <1>1, <1>2, TypeStep, ClientStep, PTL DEF Spec

-----------------------------------------------------------------------------
(* Somebody else's file. *)

\* While it stands behind the name no daemon gets further than to inspect it.
ForeignInv ==
    \A s \in Segment : header[s] = "foreign" =>
        /\ name = s
        /\ \A d \in Daemon : pc[d] \in {"off", "create", "inspect"}

LEMMA ForeignDaemon ==
    ASSUME TypeInv, ForeignInv, NEW d \in Daemon, DaemonStep(d),
           NEW s \in Segment, header[s] = "foreign"
    PROVE  /\ header'[s] = "foreign" /\ name' = s
           /\ \A e \in Daemon : pc'[e] \in {"off", "create", "inspect"}
<1>1. name = s /\ s # None /\ \A e \in Daemon : pc[e] \in {"off", "create", "inspect"}
  BY SegmentAssumption DEF ForeignInv
<1>2. ~Appear(d)
  BY <1>1 DEF Appear
<1>3. ~LooksOurs(s)
  BY DEF LooksOurs
<1>4. Launch(d) \/ Create(d) \/ Refuse(d) \/ Kill(d)
  BY <1>1, <1>2, <1>3
  DEF DaemonStep, Size, Initialise, InspectStale, Reclaim, Recreate, FirstTick,
      Tick, LeaveLoop, End, At
<1> QED
  BY <1>1, <1>2, <1>4 DEF Launch, Create, Refuse, Kill, At, TypeInv

\* No step makes a file foreign.
LEMMA NoneBecomesForeign ==
    ASSUME TypeInv, NEW d \in Daemon, DaemonStep(d),
           NEW s \in Segment, header[s] # "foreign"
    PROVE  header'[s] # "foreign"
<1>1. CASE Appear(d)
  BY <1>1, AppearTakesUnused DEF TypeInv
<1>2. CASE ~Appear(d)
  BY <1>2 DEF DaemonStep, Launch, Create, Size, Initialise, InspectStale, Reclaim,
      Recreate, Refuse, FirstTick, Tick, LeaveLoop, End, Kill, TypeInv
<1> QED
  BY <1>1, <1>2

LEMMA ForeignStep ==
    ASSUME TypeInv, ForeignInv, [Next]_vars
    PROVE  ForeignInv'
<1>1. CASE Open \/ Check \/ Close \/ UNCHANGED vars
  BY <1>1, ClientLeaves DEF ForeignInv
<1>2. CASE Pass
  BY <1>2 DEF Pass, ForeignInv, daemons
<1>3. ASSUME NEW d \in Daemon, DaemonStep(d) PROVE ForeignInv'
  BY <1>3, ForeignDaemon, NoneBecomesForeign DEF ForeignInv
<1> QED
  BY <1>1, <1>2, <1>3 DEF Next

\* A file that is not a segment of ours is never removed or written, whatever
\* is launched, killed or left, and however launches overlap.
THEOREM ForeignIsSafe == Spec => ForeignIsLeftAlone
<1>1. Init => ForeignInv
  BY SegmentAssumption DEF Init, ForeignInv
<1>2. TypeInv /\ ForeignInv /\ [Next]_vars =>
        [\A s \in Segment : header[s] = "foreign" =>
           header'[s] = "foreign" /\ (name = s => name' = s)]_vars
  <2> SUFFICES ASSUME TypeInv, ForeignInv, [Next]_vars,
                      NEW s \in Segment, header[s] = "foreign"
               PROVE  header'[s] = "foreign" /\ (name = s => name' = s)
    OBVIOUS
  <2>1. CASE Open \/ Check \/ Close \/ UNCHANGED vars
    BY <2>1, ClientLeaves
  <2>2. CASE Pass
    BY <2>2 DEF Pass
  <2>3. ASSUME NEW d \in Daemon, DaemonStep(d)
        PROVE  header'[s] = "foreign" /\ (name = s => name' = s)
    BY <2>3, ForeignDaemon
  <2> QED
    BY <2>1, <2>2, <2>3 DEF Next
<1> QED
  BY <1>1, <1>2, TypeInit, TypeStep, ForeignStep, PTL DEF Spec, ForeignIsLeftAlone

-----------------------------------------------------------------------------
(* The daemon that drives. *)

\* Whoever owns a segment is behind the name; no two daemons start at once;
\* a daemon in its loop, or on its way out, was heard of recently; and one
\* that removes a segment has seen that nobody owns any.
OwnerInv ==
    /\ \A d \in Daemon : own[d] # None => name = own[d]
    /\ \A d, e \in Daemon : pc[d] \in Starting /\ pc[e] \in Starting => d = e
    /\ \A d, e \in Daemon : own[d] # None /\ own[e] # None => d = e
    /\ \A d \in Daemon : pc[d] \in {"loop", "exit"} => age[own[d]] <= Liveness
    /\ \A d, e \in Daemon : pc[d] \in {"reclaim", "recreate"} => own[e] = None

Careful == ~Overlap /\ ~TornGlance

\* The steps at which a daemon comes to own a segment.
LEMMA OwnerCreates ==
    ASSUME TypeInv, OwnerInv, NEW d \in Daemon, Create(d) \/ Recreate(d)
    PROVE  OwnerInv'
<1>1. CASE Appear(d)
  <2>1. PICK s \in Segment \ InUse :
           /\ name = None /\ name' = s
           /\ age' = [age EXCEPT ![s] = Old]
           /\ own' = [own EXCEPT ![d] = s]
    BY <1>1, AppearTakesUnused
  <2>2. pc' = [pc EXCEPT ![d] = "size"] /\ pc[d] \in {"create", "recreate"}
    BY <1>1 DEF Create, Recreate, At, Appear
  <2>3. \A e \in Daemon : own[e] = None
    BY <2>1 DEF OwnerInv, TypeInv
  <2> QED
    BY <2>1, <2>2, <2>3, SegmentAssumption DEF OwnerInv, TypeInv, Headers, Starting, Owning
<1>2. CASE ~Appear(d)
  BY <1>2 DEF Create, Recreate, At, OwnerInv, TypeInv, Headers, Starting, Owning
<1> QED
  BY <1>1, <1>2

LEMMA OwnerDaemon ==
    ASSUME TypeInv, OwnerInv, Careful, NEW d \in Daemon, DaemonStep(d)
    PROVE  OwnerInv'
<1>1. CASE Launch(d)
  BY <1>1 DEF Launch, At, Careful, OwnerInv, TypeInv, Headers, Starting, Owning
<1>2. CASE Create(d) \/ Recreate(d)
  BY <1>2, OwnerCreates
<1>3. CASE InspectStale(d)
  <2>1. pc[d] = "inspect" /\ pc' = [pc EXCEPT ![d] = "reclaim"]
        /\ name # None /\ age[name] > Liveness /\ UNCHANGED <<name, age, own>>
    BY <1>3, LivenessAssumption
    DEF InspectStale, At, MayLookStale, LooksAlive, Careful, TypeInv, Old
  <2>2. \A e \in Daemon : own[e] = None
    <3> SUFFICES ASSUME NEW e \in Daemon, own[e] # None PROVE FALSE
      OBVIOUS
    <3>1. name = own[e] /\ pc[e] \in Owning
      BY DEF OwnerInv, TypeInv
    <3>2. CASE pc[e] \in {"loop", "exit"}
      BY <2>1, <3>1, <3>2, LivenessAssumption DEF OwnerInv, TypeInv, Old
    <3>3. CASE pc[e] \in {"size", "init", "bringup"}
      BY <2>1, <3>3 DEF OwnerInv, Starting
    <3> QED
      BY <3>1, <3>2, <3>3 DEF Owning
  <2> QED
    BY <2>1, <2>2 DEF OwnerInv, TypeInv, Headers, Starting, Owning
<1>4. CASE Size(d) \/ Initialise(d)
  BY <1>4 DEF Size, Initialise, At, OwnerInv, TypeInv, Headers, Starting, Owning
<1>5. CASE Reclaim(d)
  BY <1>5 DEF Reclaim, At, OwnerInv, TypeInv, Headers, Starting, Owning
<1>6. CASE Refuse(d)
  BY <1>6 DEF Refuse, OwnerInv, TypeInv, Headers, Starting, Owning
<1>7. CASE FirstTick(d) \/ Tick(d)
  <2>1. age' = [age EXCEPT ![own[d]] = 0] /\ own[d] \in Segment
        /\ UNCHANGED <<name, own>> /\ pc[d] \in {"bringup", "loop"}
        /\ pc' = [pc EXCEPT ![d] = "loop"]
    BY <1>7 DEF FirstTick, Tick, At, TypeInv, Owning, daemons
  <2>2. \A e \in Daemon : pc'[e] \in {"loop", "exit"} => e = d
    BY <2>1 DEF OwnerInv, TypeInv, Owning
  <2> QED
    BY <2>1, <2>2, LivenessAssumption DEF OwnerInv, TypeInv, Headers, Starting, Owning
<1>8. CASE LeaveLoop(d)
  BY <1>8 DEF LeaveLoop, At, OwnerInv, TypeInv, Headers, Starting, Owning
<1>9. CASE End(d)
  BY <1>9 DEF End, At, OwnerInv, TypeInv, Headers, Starting, Owning
<1>10. CASE Kill(d)
  BY <1>10 DEF Kill, OwnerInv, TypeInv, Headers, Starting, Owning
<1> QED
  BY <1>1, <1>2, <1>3, <1>4, <1>5, <1>6, <1>7, <1>8, <1>9, <1>10 DEF DaemonStep

\* Time does not pass over a loop that has not ticked, nor over a slow exit.
LEMMA OwnerPass ==
    ASSUME TypeInv, OwnerInv, Careful, Pass
    PROVE  OwnerInv'
<1>1. UNCHANGED <<name, pc, own>>
  BY DEF Pass, daemons
<1>2. ASSUME NEW d \in Daemon, pc[d] \in {"loop", "exit"}
      PROVE  age'[own[d]] <= Liveness
  <2>1. own[d] \in Segment /\ age[own[d]] \in Nat
    BY <1>2 DEF TypeInv, Owning
  <2>2. age[own[d]] < Liveness /\ age[own[d]] # Old
    BY <1>2, <2>1, LivenessAssumption DEF Pass, Careful, Old
  <2>3. age'[own[d]] = age[own[d]] + 1
    BY <2>1, <2>2 DEF Pass
  <2> QED
    BY <2>1, <2>2, <2>3, LivenessAssumption
<1> QED
  BY <1>1, <1>2 DEF OwnerInv

LEMMA OwnerStep ==
    ASSUME TypeInv, OwnerInv, Careful, [Next]_vars
    PROVE  OwnerInv'
<1>1. CASE Open \/ Check \/ Close \/ UNCHANGED vars
  BY <1>1, ClientLeaves DEF OwnerInv
<1> QED
  BY <1>1, OwnerDaemon, OwnerPass DEF Next

\* Where launches do not overlap and an inspection reads its timestamp, a
\* daemon that drives the arm is behind the name.
THEOREM DriverIsReachable ==
    ASSUME Careful
    PROVE  Spec => []DriverIsBehindName
<1>1. Init => OwnerInv
  BY DEF Init, OwnerInv, Starting
<1>2. TypeInv /\ OwnerInv => DriverIsBehindName
  BY SegmentAssumption DEF TypeInv, OwnerInv, DriverIsBehindName, Owning
<1>3. TypeInv /\ OwnerInv /\ [Next]_vars => OwnerInv'
  BY OwnerStep
<1> QED
  BY <1>1, <1>2, <1>3, TypeInit, TypeStep, PTL DEF Spec
=============================================================================

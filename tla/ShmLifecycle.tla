---------------------------- MODULE ShmLifecycle ----------------------------
(***************************************************************************)
(* The life of the shared-memory segment: how a daemon creates it, finds   *)
(* one already there and decides whose it is, reclaims an abandoned one    *)
(* and removes its own; how daemons are killed at any of these steps; how  *)
(* a client attaches and what it can tell afterwards.                      *)
(*                                                                         *)
(* The contents of a segment are modules Seqlock and CommandChannel; here  *)
(* it is its header and how long ago its telemetry was written.            *)
(***************************************************************************)
EXTENDS Naturals, FiniteSets

CONSTANTS
    Daemon,         \* launches of so101_impedance_ctrl with one --shm-name
    Segment,        \* the files that may come to stand behind the name
    None,           \* no segment
    Liveness,       \* SHM_LIVENESS_TIMEOUT, in units of is_output_fresh's 0.5 s
    Overlap,        \* a daemon may be launched while another starts or stops
    TornGlance      \* all 8 tries of the inspection may meet a write

ASSUME SegmentAssumption == None \notin Segment
ASSUME LivenessAssumption == Liveness \in Nat \ {0}
ASSUME LaunchAssumption == Overlap \in BOOLEAN /\ TornGlance \in BOOLEAN

VARIABLES
    name,           \* the segment behind /dev/shm/<shm-name>, or None
    header,         \* per segment, what its first bytes say
    age,            \* per segment, how old its telemetry timestamp is
    pc, own,        \* per daemon, where it is, and the segment it created
    cpc, mapped     \* the client, and the segment it has mapped

daemons == <<pc, own>>
client == <<cpc, mapped>>
vars == <<name, header, age, daemons, client>>

\* A timestamp of 0, never written, is as old as the machine: older than any
\* timeout.
Old == Liveness + 1
FreshAge == 1       \* max_staleness_s of is_output_fresh

TypeOK ==
    /\ name \in Segment \union {None}
    /\ header \in [Segment -> {"free", "short", "zero", "ready", "foreign"}]
    /\ age \in [Segment -> 0 .. Old]
    /\ pc \in [Daemon -> {"off", "create", "size", "init", "inspect",
                          "reclaim", "recreate", "bringup", "loop", "exit"}]
    /\ own \in [Daemon -> Segment \union {None}]
    /\ cpc \in {"idle", "opened", "attached", "refused"}
    /\ mapped \in Segment \union {None}
    /\ \A d \in Daemon : own[d] # None <=>
         pc[d] \in {"size", "init", "bringup", "loop", "exit"}
    /\ mapped # None <=> cpc \in {"opened", "attached"}
    /\ cpc = "attached" => header[mapped] = "ready"

\* Nothing there, somebody else's file, or what a killed daemon left.
Init ==
    /\ \/ name = None /\ header = [s \in Segment |-> "free"]
       \/ \E s \in Segment, h \in {"foreign", "ready"} :
            /\ name = s
            /\ header = [t \in Segment |-> IF t = s THEN h ELSE "free"]
    /\ age = [s \in Segment |-> Old]
    /\ pc = [d \in Daemon |-> "off"] /\ own = [d \in Daemon |-> None]
    /\ cpc = "idle" /\ mapped = None

-----------------------------------------------------------------------------
(* The daemon. *)

InUse == {name, mapped} \union {own[d] : d \in Daemon}
At(d, from, to) == pc[d] = from /\ pc' = [pc EXCEPT ![d] = to]

Launch(d) ==
    /\ At(d, "off", "create")
    /\ Overlap \/ \A e \in Daemon : pc[e] \in {"off", "loop"}
    /\ UNCHANGED <<name, header, age, own, client>>

\* shm_open with O_CREAT | O_EXCL: the file is there, with no bytes in it.
Appear(d) ==
    LET s == CHOOSE t \in Segment : t \notin InUse IN
        /\ Segment \ InUse # {}
        /\ name = None /\ name' = s
        /\ header' = [header EXCEPT ![s] = "short"]
        /\ age' = [age EXCEPT ![s] = Old]
        /\ own' = [own EXCEPT ![d] = s]

Create(d) ==
    /\ \/ At(d, "create", "size") /\ Appear(d)
       \/ At(d, "create", "inspect") /\ name # None /\ UNCHANGED <<name, header, age, own>>
    /\ UNCHANGED client

Size(d) ==
    /\ At(d, "size", "init")
    /\ header' = [header EXCEPT ![own[d]] = "zero"]
    /\ UNCHANGED <<name, age, own, client>>

\* init_in_place.  The telemetry timestamp is 0 until the first tick.
Initialise(d) ==
    /\ At(d, "init", "bringup")
    /\ header' = [header EXCEPT ![own[d]] = "ready"]
    /\ UNCHANGED <<name, age, own, client>>

\* Slip: the magic is not compared, and any segment of the size is ours.
LooksOursBySize(s) == header[s] \in {"zero", "ready", "foreign"}

LooksOurs(s) == header[s] = "ready"

\* Slip: a telemetry timestamp that cannot be old enough to be stale is
\* compared the wrong way round.
LooksAliveIfOld(s) == age[s] > Liveness

\* The age inspect_existing_shm comes to: a timestamp it could not read
\* without meeting a write counts as 0.
LooksAlive(s) == age[s] <= Liveness
MayLookStale(s) == ~LooksAlive(s) \/ TornGlance

InspectStale(d) ==
    /\ At(d, "inspect", "reclaim")
    /\ name # None /\ LooksOurs(name) /\ MayLookStale(name)
    /\ UNCHANGED <<name, header, age, own, client>>

\* remove_file by name: whatever stands there by now.
Reclaim(d) ==
    /\ At(d, "reclaim", "recreate")
    /\ name # None /\ name' = None
    /\ UNCHANGED <<header, age, own, client>>

Recreate(d) == At(d, "recreate", "size") /\ Appear(d) /\ UNCHANGED client

\* A panic, with nothing created: LiveDaemon, Foreign (a segment gone again is
\* one that cannot be opened), no file to remove, a file there once more.
Refuse(d) ==
    /\ \/ pc[d] = "inspect" /\ (name # None => ~LooksOurs(name) \/ LooksAlive(name))
       \/ pc[d] = "reclaim" /\ name = None
       \/ pc[d] = "recreate" /\ name # None
    /\ pc' = [pc EXCEPT ![d] = "off"]
    /\ UNCHANGED <<name, header, age, own, client>>

\* The cerebellum's GPU, the serial port, the servos' registers; then the
\* first tick, which publishes.
FirstTick(d) ==
    /\ At(d, "bringup", "loop")
    /\ age' = [age EXCEPT ![own[d]] = 0]
    /\ UNCHANGED <<name, header, own, client>>

Tick(d) ==
    /\ pc[d] = "loop" /\ age' = [age EXCEPT ![own[d]] = 0]
    /\ UNCHANGED <<name, header, daemons, client>>

\* The loop is left; the release and the cerebellum's weights come first.
LeaveLoop(d) ==
    /\ At(d, "loop", "exit")
    /\ UNCHANGED <<name, header, age, own, client>>

\* main returns, or a panic of the bring-up unwinds: the owner of a Shmem
\* unlinks it when dropped, by name.
End(d) ==
    /\ At(d, "exit", "off") \/ At(d, "bringup", "off")
    /\ name' = None /\ own' = [own EXCEPT ![d] = None]
    /\ UNCHANGED <<header, age, client>>

\* SIGKILL, or power: the file stays as it is.
Kill(d) ==
    /\ pc[d] # "off"
    /\ pc' = [pc EXCEPT ![d] = "off"] /\ own' = [own EXCEPT ![d] = None]
    /\ UNCHANGED <<name, header, age, client>>
-----------------------------------------------------------------------------
(* The client: ImpedanceShmClient. *)

\* FileNotFoundError is retried, for attach_timeout_s.
Open ==
    /\ cpc = "idle" /\ name # None
    /\ cpc' = "opened" /\ mapped' = name
    /\ UNCHANGED <<name, header, age, daemons>>

\* Slip: attached before the header is looked at.
CheckNothing ==
    /\ cpc = "opened" /\ cpc' = "attached"
    /\ UNCHANGED <<name, header, age, daemons, mapped>>

\* Size, magic and layout version, tested once.
Check ==
    /\ cpc = "opened"
    /\ IF header[mapped] = "ready"
         THEN cpc' = "attached" /\ UNCHANGED mapped
         ELSE cpc' = "refused" /\ mapped' = None
    /\ UNCHANGED <<name, header, age, daemons>>

Close ==
    /\ cpc \in {"attached", "refused"}
    /\ cpc' = "idle" /\ mapped' = None
    /\ UNCHANGED <<name, header, age, daemons>>

\* Slip: the snapshot's own arrival is timed, not the telemetry in it.
OutputFreshOnArrival == cpc = "attached"

\* is_output_fresh: get_observation warns when it is false.
OutputFresh == cpc = "attached" /\ age[mapped] <= FreshAge
-----------------------------------------------------------------------------
(* The clock: a loop publishes well within each unit; an exit takes no     *)
(* longer than the liveness timeout unless launches overlap.               *)

Pass ==
    /\ \A d \in Daemon :
         /\ pc[d] = "loop" => age[own[d]] = 0
         /\ pc[d] = "exit" => Overlap \/ age[own[d]] < Liveness
    /\ age' = [s \in Segment |-> IF age[s] = Old THEN Old ELSE age[s] + 1]
    /\ UNCHANGED <<name, header, daemons, client>>

DaemonStep(d) ==
    \/ Launch(d) \/ Create(d) \/ Size(d) \/ Initialise(d)
    \/ InspectStale(d) \/ Reclaim(d) \/ Recreate(d) \/ Refuse(d)
    \/ FirstTick(d) \/ Tick(d) \/ LeaveLoop(d) \/ End(d) \/ Kill(d)

Next == (\E d \in Daemon : DaemonStep(d)) \/ Open \/ Check \/ Close \/ Pass

\* Time passes, and a loop that is in its loop ticks.
Fairness == WF_vars(Pass) /\ \A d \in Daemon : WF_vars(Tick(d))

Spec == Init /\ [][Next]_vars /\ Fairness
-----------------------------------------------------------------------------

\* A daemon that drives the arm is behind the name: a client that attaches
\* reaches it, and a second daemon that starts finds it.
\* create_shm_reclaiming_stale, Shmem's drop.
DriverIsBehindName == \A d \in Daemon : pc[d] = "loop" => name = own[d]

\* A file that is not a segment of ours is never removed or written, by any
\* order of launches, kills and exits (ExistingShm::Foreign: "Never
\* auto-delete this").
ForeignIsLeftAlone ==
    [][\A s \in Segment : header[s] = "foreign" =>
         header'[s] = "foreign" /\ (name = s => name' = s)]_vars

\* A client left with the segment of a daemon that is gone is told, or
\* leaves: its observations do not stay fresh (get_observation's warning).
Orphaned == cpc = "attached" /\ \A d \in Daemon : own[d] # mapped
OrphanIsTold == Orphaned ~> ~OutputFresh

\* What the documentation of ImpedanceShmClient says of attaching: it goes on
\* trying "in case Python starts slightly before the daemon".  It does not
\* when the file is already there and the header is not.
ClientWaitsForDaemon ==
    [][cpc = "opened" /\ cpc' = "refused" => header[mapped] = "foreign"]_vars
=============================================================================

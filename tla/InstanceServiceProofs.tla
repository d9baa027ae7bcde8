------------------------ MODULE InstanceServiceProofs ------------------------
(***************************************************************************)
(* Proofs about the life of an instance on the edge, for any number of     *)
(* launches and requests and under every fault: its types, that the        *)
(* registered launch is never one that goes down, that a launch always     *)
(* learns of the loss of its container, and that nobody waits for nothing. *)
(* Then what one disturbance of whatever kind but a crash leaves behind:   *)
(* no container that nobody can stop (OnceInv), and if nothing but an edit *)
(* came, a status that is true (WriteInv).                                 *)
(***************************************************************************)
EXTENDS InstanceService, TLAPS

(* The types, in parts: what only the mothership, its stream and the flags   *)
(* hold, and what the daemon and Docker hold.                                *)
Api    == [at : At, lowered : BOOLEAN, shut : BOOLEAN]
Caller == [at : Waiting \cup {"none", "served", "failed"},
           on : Launches \cup {NoLaunch}, behind : BOOLEAN]

RecordOK == record \in [power : Power, status : Status, owner : BOOLEAN]
StreamOK == stream \in Seq(Event)
MirrorOK == mirror \in [power : Power, owner : BOOLEAN]
BoxOK    == box \in [Launches -> Seq(Status)]
FlagsOK  == /\ loose \subseteq Status
            /\ cooldown \in BOOLEAN
            /\ locked \in BOOLEAN
            /\ events \in 0..MaxEvents
            /\ faults \in Environments
ApiOK    == /\ registry \in Launches \cup {NoLaunch}
            /\ api \in [Launches -> Api]
HostOK   == /\ host \in [by : Launches \cup {NoLaunch}, state : {"none", "up", "stopping"}]
            /\ exits \subseteq Launches
CallerOK == caller \in [Callers -> Caller]

(* There is a container exactly when some launch made it. *)
HostFits == host.state = "none" <=> host.by = NoLaunch

DataOK  == RecordOK /\ StreamOK /\ MirrorOK /\ BoxOK /\ FlagsOK
EdgeInv == /\ ApiOK /\ HostOK /\ CallerOK /\ HostFits
           /\ RegisteredIsRaised /\ ContainerAccounted /\ WaitsOnLive
IInv    == DataOK /\ EdgeInv

\* The parts of the inductive invariant make up TypeOK.
LEMMA TypeParts == IInv => TypeOK
BY DEF IInv, DataOK, EdgeInv, RecordOK, StreamOK, MirrorOK, BoxOK, FlagsOK, ApiOK, Api,
       HostOK, CallerOK, Caller, TypeOK

-----------------------------------------------------------------------------
(* The initial states.                                                     *)

\* Every initial state satisfies the inductive invariant.
LEMMA InitIInv == Init => IInv
<1> SUFFICES ASSUME Init PROVE IInv
  OBVIOUS
<1>1. RecordOK /\ MirrorOK
  <2>1. \E p \in Power :
           record = [power |-> p, status |-> "idle", owner |-> TRUE]
    BY DEF Init, Power
  <2>2. \E p \in Power : mirror = [power |-> p, owner |-> TRUE]
    BY DEF Init, Power
  <2> QED BY <2>1, <2>2 DEF RecordOK, MirrorOK, Status
<1>2. StreamOK
  <2>1. <<"instance", "on", "idle">> \in Event BY DEF Event, Power, Status
  <2>2. stream = <<>> \/ stream = <<<<"instance", "on", "idle">>>> BY DEF Init
  <2>3. <<>> \in Seq(Event) /\ \A e \in Event : <<e>> \in Seq(Event) OBVIOUS
  <2> QED BY <2>1, <2>2, <2>3 DEF StreamOK
<1>3. BoxOK BY DEF Init, BoxOK
<1>4. FlagsOK
  <2>1. cooldown \in BOOLEAN /\ locked \in BOOLEAN BY DEF Init
  <2>2. loose \subseteq Status /\ faults \in Environments BY DEF Init
  <2>3. events = 0 BY DEF Init
  <2>4. events \in 0..MaxEvents BY <2>3, BoundAssumption
  <2> QED BY <2>1, <2>2, <2>4 DEF FlagsOK
<1>5. ApiOK BY DEF Init, ApiOK, Api, At, Unused
<1>6. HostOK /\ HostFits BY DEF Init, HostOK, HostFits, NoBox
<1>7. CallerOK BY DEF Init, CallerOK, Caller, Off
<1>8. RegisteredIsRaised BY DEF Init, RegisteredIsRaised
<1>9. ContainerAccounted BY DEF Init, ContainerAccounted, CountsOnIt, Unused
<1>10. WaitsOnLive BY DEF Init, WaitsOnLive, Off
<1> QED BY <1>1, <1>2, <1>3, <1>4, <1>5, <1>6, <1>7, <1>8, <1>9, <1>10
       DEF IInv, DataOK, EdgeInv

-----------------------------------------------------------------------------
(* What the pieces of the handlers do to the daemon's maps and to Docker.    *)

\* What leaves the daemon's maps and the container alone keeps EdgeInv.
LEMMA EdgeSame ==
  ASSUME EdgeInv, UNCHANGED <<registry, api, caller, host, exits>>
  PROVE  EdgeInv'
BY DEF EdgeInv, ApiOK, HostOK, CallerOK, HostFits, RegisteredIsRaised,
       ContainerAccounted, CountsOnIt, WaitsOnLive

\* mkInstanceApiPromise: a new launch is registered in the raised state.
LEMMA LaunchKeeps ==
  ASSUME EdgeInv, NEW c \in Callers, LaunchBy(c), UNCHANGED <<host, exits>>
  PROVE  EdgeInv'
<1> USE DEF EdgeInv
<1>1. PICK a \in Free(c) :
        /\ registry' = a
        /\ api' = [api EXCEPT ![a] = [at |-> "spawn", lowered |-> FALSE, shut |-> FALSE]]
        /\ caller' = [caller EXCEPT ![c] = [at |-> "await", on |-> a, behind |-> FALSE]]
  BY DEF LaunchBy
<1>2. /\ a \in Launches /\ a # NoLaunch /\ api[a].at = "gone"
      /\ \A d \in Callers \ {c} : caller[d].on # a
  BY LaunchAssumption DEF Free
<1>3. ApiOK' BY <1>1, <1>2 DEF ApiOK, Api, At, Raising
<1>4. CallerOK' BY <1>1, <1>2 DEF CallerOK, Caller, Waiting
<1>5. HostOK' /\ HostFits' BY DEF HostOK, HostFits
<1>6. RegisteredIsRaised' BY <1>1, <1>2 DEF RegisteredIsRaised, ApiOK, Raising
<1>7. ContainerAccounted' BY <1>1, <1>2 DEF ContainerAccounted, CountsOnIt, ApiOK
<1>8. WaitsOnLive' BY <1>1, <1>2 DEF WaitsOnLive, ApiOK, CallerOK, Raising
<1> QED BY <1>3, <1>4, <1>5, <1>6, <1>7, <1>8

\* ensureInstanceApi: a caller launches, is served, or waits for what is registered.
LEMMA EnterKeeps ==
  ASSUME EdgeInv, NEW c \in Callers, Enter(c), UNCHANGED <<host, exits>>
  PROVE  EdgeInv'
<1>1. CASE LaunchBy(c) BY <1>1, LaunchKeeps
<1>2. CASE /\ registry # NoLaunch
           /\ caller' = [caller EXCEPT ![c] =
                IF api[registry].at = "ready" THEN Off("served")
                ELSE [at |-> "await", on |-> registry, behind |-> api[registry].shut]]
           /\ UNCHANGED <<registry, api, box>>
  <2> USE DEF EdgeInv
  <2>1. registry \in Launches /\ api[registry] \in Api BY <1>2 DEF ApiOK
  <2>2. CallerOK' BY <1>2, <2>1 DEF CallerOK, Caller, Api, Off, Waiting
  <2>3. WaitsOnLive'
    BY <1>2, <2>1 DEF WaitsOnLive, CallerOK, RegisteredIsRaised, Off
  <2>4. ApiOK' /\ HostOK' /\ HostFits' /\ RegisteredIsRaised' /\ ContainerAccounted'
    BY <1>2 DEF ApiOK, HostOK, HostFits, RegisteredIsRaised, ContainerAccounted, CountsOnIt
  <2> QED BY <2>2, <2>3, <2>4
<1> QED BY <1>1, <1>2 DEF Enter

\* A kill only changes the state of a container, not whose it is.
LEMMA KillKeeps ==
  ASSUME HostOK, HostFits, NEW a \in Launches, Kill(a), UNCHANGED exits
  PROVE  HostOK' /\ HostFits' /\ host'.by = host.by
BY LaunchAssumption DEF HostOK, HostFits, Kill, NoLaunch

\* shutdownRunningInstance takes the launch it lowers out of the registry.
LEMMA ShutKeeps ==
  ASSUME EdgeInv, ShutRegistered, UNCHANGED <<exits, caller>>
  PROVE  EdgeInv'
<1> USE DEF EdgeInv
<1>1. CASE registry = NoLaunch
  BY <1>1, EdgeSame DEF ShutRegistered, Shutdown
<1>2. CASE registry # NoLaunch /\ api[registry].at = "ready" /\ Shutdown(registry)
  <2>1. /\ registry \in Launches /\ ~api[registry].lowered /\ registry' = NoLaunch
        /\ api' = [api EXCEPT ![registry].lowered = TRUE] /\ Kill(registry)
    BY <1>2 DEF Shutdown, Unregister, ApiOK
  <2>2. ApiOK' BY <2>1 DEF ApiOK, Api
  <2>3. HostOK' /\ HostFits' /\ host'.by = host.by BY <2>1, KillKeeps
  <2>4. CallerOK' /\ RegisteredIsRaised' BY <2>1 DEF CallerOK, RegisteredIsRaised
  <2>5. ContainerAccounted'
    BY <2>1, <2>3 DEF ContainerAccounted, CountsOnIt, ApiOK, Api
  <2>6. WaitsOnLive' BY <1>2, <2>1 DEF WaitsOnLive, ApiOK, Api
  <2> QED BY <2>2, <2>3, <2>4, <2>5, <2>6
<1>3. CASE /\ registry # NoLaunch
           /\ api' = [api EXCEPT ![registry].shut = TRUE]
           /\ UNCHANGED <<registry, box, host>>
  <2>1. registry \in Launches BY <1>3 DEF ApiOK
  <2>2. ApiOK' /\ HostOK' /\ HostFits' /\ CallerOK'
    BY <1>3, <2>1 DEF ApiOK, Api, HostOK, HostFits, CallerOK
  <2>3. RegisteredIsRaised' BY <1>3, <2>1 DEF RegisteredIsRaised, ApiOK, Api
  <2>4. ContainerAccounted' BY <1>3, <2>1 DEF ContainerAccounted, CountsOnIt, ApiOK, Api
  <2>5. WaitsOnLive' BY <1>3, <2>1 DEF WaitsOnLive, ApiOK, Api
  <2> QED BY <2>2, <2>3, <2>4, <2>5
<1> QED BY <1>1, <1>2, <1>3 DEF ShutRegistered

\* createInstanceApi's catch takes the launch it fails out of the registry.
LEMMA FailKeeps ==
  ASSUME EdgeInv, NEW a \in Launches, api[a].at \in Raising, Fail(a),
         UNCHANGED <<exits, caller>>
  PROVE  EdgeInv'
<1> USE DEF EdgeInv
<1>1. /\ api' = [api EXCEPT ![a] = [@ EXCEPT !.at = "failing", !.lowered = TRUE]]
      /\ registry' = IF api[a].lowered THEN registry ELSE NoLaunch
      /\ Kill(a)
  BY DEF Fail, Unregister
<1>2. ApiOK' BY <1>1 DEF ApiOK, Api, At
<1>3. HostOK' /\ HostFits' /\ host'.by = host.by BY <1>1, KillKeeps
<1>4. CallerOK' BY DEF CallerOK
<1>5. RegisteredIsRaised' BY <1>1 DEF RegisteredIsRaised, ApiOK, Api
<1>6. ContainerAccounted' BY <1>1, <1>3 DEF ContainerAccounted, CountsOnIt, ApiOK, Api
<1>7. WaitsOnLive'
  <2>1. \A b \in Launches : /\ b # a => api'[b] = api[b]
                            /\ api'[b].shut = api[b].shut
                            /\ api[b].lowered => api'[b].lowered
    BY <1>1 DEF ApiOK, Api
  <2>2. api'[a].at = "failing" BY <1>1 DEF ApiOK, Api
  <2>3. api[a].at # "gone" /\ api[a].at # "ready" BY DEF Raising
  <2> QED BY <2>1, <2>2, <2>3 DEF WaitsOnLive, CallerOK, Caller
<1> QED BY <1>2, <1>3, <1>4, <1>5, <1>6, <1>7

\* A rejection leaves nobody waiting for the launch that is over.
LEMMA RejectsKeeps ==
  ASSUME EdgeInv, NEW a \in Launches, api[a].at \in Raising \cup {"failing"}, Rejects(a),
         UNCHANGED <<host, exits>>
  PROVE  EdgeInv'
<1> USE DEF EdgeInv
<1>1. /\ registry' = NoLaunch /\ api' = [api EXCEPT ![a] = Unused]
      /\ caller' = [c \in Callers |->
           IF caller[c].on # a THEN caller[c] ELSE Off(IF c = Warm THEN "none" ELSE "failed")]
  BY DEF Rejects
<1>2. ApiOK' BY <1>1 DEF ApiOK, Api, At, Unused
<1>3. HostOK' /\ HostFits' BY DEF HostOK, HostFits
<1>4. CallerOK' BY <1>1 DEF CallerOK, Caller, Off
<1>5. RegisteredIsRaised' BY <1>1 DEF RegisteredIsRaised
<1>6. ContainerAccounted' BY <1>1 DEF ContainerAccounted, CountsOnIt, ApiOK, Unused
<1>7. WaitsOnLive' BY <1>1 DEF WaitsOnLive, ApiOK, CallerOK, Unused, Off
<1> QED BY <1>2, <1>3, <1>4, <1>5, <1>6, <1>7

\* A container that goes away leaves its launch among those to be told.
LEMMA VanishKeeps ==
  ASSUME EdgeInv, host.state # "none", Vanish
  PROVE  EdgeInv'
<1> USE DEF EdgeInv
<1>1. /\ host.by \in Launches /\ exits' = exits \cup {host.by} /\ host' = NoBox
      /\ UNCHANGED <<registry, api, caller>>
  BY DEF Vanish, Aside, HostOK, HostFits
<1>2. HostOK' /\ HostFits' BY <1>1 DEF HostOK, HostFits, NoBox
<1>3. ApiOK' /\ CallerOK' /\ RegisteredIsRaised' BY <1>1 DEF ApiOK, CallerOK, RegisteredIsRaised
<1>4. ContainerAccounted' BY <1>1 DEF ContainerAccounted, CountsOnIt
<1>5. WaitsOnLive' BY <1>1 DEF WaitsOnLive
<1> QED BY <1>2, <1>3, <1>4, <1>5

\* A step of a raising launch from one await to the next keeps EdgeInv, if it
\* loses no container and counts on no container that it has not made.
LEMMA MoveKeeps ==
  ASSUME EdgeInv, NEW a \in Launches, NEW pc \in Raising, At1(a, pc),
         api[a].at \in Raising, UNCHANGED <<registry, caller>>, HostOK', HostFits',
         \A b \in Launches : host.by = b \/ b \in exits => host'.by = b \/ b \in exits',
         pc \in {"health", "fetch", "fetched"} =>
           host'.by = a \/ api[a].at \in {"health", "fetch", "fetched"}
  PROVE  EdgeInv'
<1> USE DEF EdgeInv
<1>1. api' = [api EXCEPT ![a].at = pc] BY DEF At1
<1>2. ApiOK' BY <1>1 DEF ApiOK, Api, At
<1>3. CallerOK' BY DEF CallerOK
<1>4. RegisteredIsRaised' BY <1>1 DEF RegisteredIsRaised, ApiOK, Api
<1>5. ContainerAccounted' BY <1>1 DEF ContainerAccounted, CountsOnIt, ApiOK, Api, Raising
<1>6. WaitsOnLive' BY <1>1 DEF WaitsOnLive, ApiOK, Api, Raising
<1> QED BY <1>2, <1>3, <1>4, <1>5, <1>6

-----------------------------------------------------------------------------
(* The data that the steps carry along.                                     *)

\* A limiter queues statuses.
LEMMA SendType ==
  ASSUME BoxOK, NEW a \in Launches, NEW s \in Status, Send(a, s)
  PROVE  BoxOK'
BY DEF BoxOK, Send

\* The stream carries events.
LEMMA EmitType ==
  ASSUME StreamOK, NEW e \in Event, Emit(e)
  PROVE  StreamOK'
BY DEF StreamOK, Emit

\* An instance event of any power and status is an event.
LEMMA InstanceEvents == \A p \in Power, s \in Status : <<"instance", p, s>> \in Event
BY DEF Event

\* Taking the oldest event leaves a stream.
LEMMA ReceivedType ==
  ASSUME StreamOK, NEW kind, Received(kind)
  PROVE  StreamOK'
BY DEF StreamOK, Received

\* The count of edits and mishaps stays within its bound.
LEMMA HappensType ==
  ASSUME FlagsOK, Happens
  PROVE  events' \in 0..MaxEvents
BY BoundAssumption DEF FlagsOK, Happens

\* A status write that lands, or is lost, keeps the record and the stream.
LEMMA AnsweredType ==
  ASSUME RecordOK, StreamOK, FlagsOK, NEW s \in Status, Answered(s)
  PROVE  RecordOK' /\ StreamOK' /\ events' \in 0..MaxEvents
<1>1. CASE Landed(s) /\ UNCHANGED events
  <2>1. events' \in 0..MaxEvents BY <1>1 DEF FlagsOK
  <2>2. CASE record.power = "gone"
    BY <1>1, <2>1, <2>2 DEF Landed, RecordOK, StreamOK
  <2>3. CASE record.power # "gone"
    <3>1. /\ record' = [record EXCEPT !.status = s]
          /\ Emit(<<"instance", record.power, s>>)
      BY <1>1, <2>3 DEF Landed
    <3>2. RecordOK' BY <3>1 DEF RecordOK
    <3>3. record.power \in Power BY DEF RecordOK
    <3>4. StreamOK' BY <3>1, <3>3, InstanceEvents, EmitType
    <3> QED BY <2>1, <3>2, <3>4
  <2> QED BY <2>2, <2>3
<1>2. CASE Happens /\ UNCHANGED <<record, stream>>
  BY <1>2, HappensType DEF RecordOK, StreamOK
<1> QED BY <1>1, <1>2 DEF Answered

\* What leaves the data alone keeps its types.
LEMMA DataSame ==
  ASSUME DataOK, UNCHANGED <<record, stream, mirror, loose, cooldown, locked, events, faults>>
  PROVE  RecordOK' /\ StreamOK' /\ MirrorOK' /\ FlagsOK'
BY DEF DataOK, RecordOK, StreamOK, MirrorOK, FlagsOK

\* A new launch keeps the types of the queues of status writes.
LEMMA LaunchBox ==
  ASSUME BoxOK, NEW c \in Callers, LaunchBy(c)
  PROVE  BoxOK'
BY SendType DEF LaunchBy, Free, Status

\* A shutdown keeps the types of the queues of status writes.
LEMMA ShutBox ==
  ASSUME BoxOK, ApiOK, ShutRegistered
  PROVE  BoxOK'
<1>1. CASE registry # NoLaunch /\ api[registry].at = "ready" /\ Shutdown(registry)
  BY <1>1, SendType DEF Shutdown, ApiOK, Status
<1>2. CASE UNCHANGED box BY <1>2 DEF BoxOK
<1> QED BY <1>1, <1>2 DEF ShutRegistered

-----------------------------------------------------------------------------
(* Users, the mothership and the mirror's listeners.                        *)

\* Edits of users keep the inductive invariant.
LEMMA UsersStep == ASSUME IInv, Users PROVE IInv'
<1> USE DEF IInv, DataOK
<1>1. UNCHANGED <<mirror, registry, api, caller, cooldown, box, loose, host, exits, locked, faults>>
  BY DEF Users, UserPower, UserDelete, OwnerChange, daemon
<1>2. EdgeInv' /\ MirrorOK' /\ BoxOK' BY <1>1, EdgeSame DEF MirrorOK, BoxOK
<1>3. FlagsOK'
  <2>1. events' \in 0..MaxEvents BY HappensType DEF Users, UserPower, UserDelete, OwnerChange
  <2> QED BY <1>1, <2>1 DEF FlagsOK
<1>4. RecordOK' /\ StreamOK'
  <2>1. ASSUME NEW p \in {"on", "off"}, UserPower(p) PROVE RecordOK' /\ StreamOK'
    <3>1. record.status \in Status /\ p \in Power BY DEF RecordOK, Power
    <3>2. RecordOK' BY <2>1, <3>1 DEF UserPower, RecordOK
    <3>3. StreamOK' BY <2>1, <3>1, InstanceEvents, EmitType DEF UserPower
    <3> QED BY <3>2, <3>3
  <2>2. CASE UserDelete
    <3>1. "gone" \in Power /\ "idle" \in Status BY DEF Power, Status
    <3>2. RecordOK' BY <2>2, <3>1 DEF UserDelete, RecordOK
    <3>3. StreamOK' BY <2>2, <3>1, InstanceEvents, EmitType DEF UserDelete
    <3> QED BY <3>2, <3>3
  <2>3. ASSUME NEW ok \in BOOLEAN, OwnerChange(ok) PROVE RecordOK' /\ StreamOK'
    <3>1. RecordOK' BY <2>3 DEF OwnerChange, RecordOK
    <3>2. <<"owner", ok>> \in Event BY DEF Event
    <3>3. StreamOK' BY <2>3, <3>2, EmitType DEF OwnerChange
    <3> QED BY <3>1, <3>3
  <2> QED BY <2>1, <2>2, <2>3 DEF Users
<1> QED BY <1>2, <1>3, <1>4

\* Status writes that reach the mothership keep the inductive invariant.
LEMMA WritesStep == ASSUME IInv, Writes PROVE IInv'
<1> USE DEF IInv, DataOK
<1>1. ASSUME NEW a \in Launches, BoxLands(a) PROVE IInv'
  <2>1. /\ UNCHANGED <<mirror, registry, api, caller, cooldown, loose, host, exits, locked, faults>>
        /\ box[a] # <<>> /\ box' = [box EXCEPT ![a] = Tail(@)] /\ Answered(Head(box[a]))
    BY <1>1 DEF BoxLands, daemon
  <2>2. EdgeInv' /\ MirrorOK' BY <2>1, EdgeSame DEF MirrorOK
  <2>3. box[a] \in Seq(Status) BY DEF BoxOK
  <2>4. Head(box[a]) \in Status /\ Tail(box[a]) \in Seq(Status) BY <2>1, <2>3
  <2>5. BoxOK' BY <2>1, <2>4 DEF BoxOK
  <2>6. RecordOK' /\ StreamOK' /\ events' \in 0..MaxEvents BY <2>1, <2>4, AnsweredType
  <2>7. FlagsOK' BY <2>1, <2>6 DEF FlagsOK
  <2> QED BY <2>2, <2>5, <2>6, <2>7
<1>2. ASSUME NEW s \in Status, LooseLands(s) PROVE IInv'
  <2>1. /\ UNCHANGED <<mirror, registry, api, caller, cooldown, box, host, exits, locked, faults>>
        /\ loose' = loose \ {s} /\ Answered(s)
    BY <1>2 DEF LooseLands, daemon
  <2>2. EdgeInv' /\ MirrorOK' /\ BoxOK' BY <2>1, EdgeSame DEF MirrorOK, BoxOK
  <2>3. RecordOK' /\ StreamOK' /\ events' \in 0..MaxEvents BY <2>1, AnsweredType
  <2>4. FlagsOK' BY <2>1, <2>3 DEF FlagsOK
  <2> QED BY <2>2, <2>3, <2>4
<1> QED BY <1>1, <1>2 DEF Writes

\* The mirror's listeners keep the inductive invariant.
LEMMA ListenerStep == ASSUME IInv, Listener PROVE IInv'
<1> USE DEF IInv, DataOK
<1>1. StreamOK' BY ReceivedType DEF Listener, HearsPowerOn, HearsPowerOff, HearsDeleted,
                                    HearsOwnerBad, HearsOwnerOk
<1>2. UNCHANGED <<record, exits, cooldown, locked, events, faults>>
  BY DEF Listener, HearsPowerOn, HearsPowerOff, HearsDeleted, HearsOwnerBad, HearsOwnerOk
<1>3. RecordOK' BY <1>2 DEF RecordOK
<1>4. ASSUME mirror' = [mirror EXCEPT !.power = "on"] \/ mirror' = [mirror EXCEPT !.owner = TRUE],
             WarmUp(mirror'), UNCHANGED <<loose, host>>
      PROVE  IInv'
  <2>1. MirrorOK' BY <1>4 DEF MirrorOK, Power
  <2>2. FlagsOK' BY <1>2, <1>4 DEF FlagsOK
  <2>3. CASE LaunchBy(Warm)
    <3>1. Warm \in Callers BY DEF Callers
    <3>2. EdgeInv' /\ BoxOK' BY <1>2, <1>4, <2>3, <3>1, LaunchKeeps, LaunchBox
    <3> QED BY <1>1, <1>3, <2>1, <2>2, <3>2
  <2>4. CASE UNCHANGED <<registry, api, box, caller>>
    <3>1. EdgeInv' BY <1>2, <1>4, <2>4, EdgeSame
    <3>2. BoxOK' BY <2>4 DEF BoxOK
    <3> QED BY <1>1, <1>3, <2>1, <2>2, <3>1, <3>2
  <2> QED BY <1>4, <2>3, <2>4 DEF WarmUp
<1>5. ASSUME \/ mirror' = [mirror EXCEPT !.power = "off"]
             \/ mirror' = [mirror EXCEPT !.power = "gone"]
             \/ mirror' = [mirror EXCEPT !.owner = FALSE],
             ShutRegistered \/ UNCHANGED <<registry, api, box, host>>,
             loose' = loose \/ loose' = loose \cup {"idle"}, UNCHANGED caller
      PROVE  IInv'
  <2>1. MirrorOK' BY <1>5 DEF MirrorOK, Power
  <2>2. FlagsOK' BY <1>2, <1>5 DEF FlagsOK, Status
  <2>3. CASE ShutRegistered
    <3>1. EdgeInv' BY <1>2, <1>5, <2>3, ShutKeeps
    <3>2. BoxOK' BY <2>3, ShutBox DEF EdgeInv
    <3> QED BY <1>1, <1>3, <2>1, <2>2, <3>1, <3>2
  <2>4. CASE UNCHANGED <<registry, api, box, host>>
    <3>1. EdgeInv' BY <1>2, <1>5, <2>4, EdgeSame
    <3>2. BoxOK' BY <2>4 DEF BoxOK
    <3> QED BY <1>1, <1>3, <2>1, <2>2, <3>1, <3>2
  <2> QED BY <1>5, <2>3, <2>4
<1>6. CASE HearsPowerOn  BY <1>4, <1>6 DEF HearsPowerOn
<1>7. CASE HearsOwnerOk  BY <1>4, <1>7 DEF HearsOwnerOk
<1>8. CASE HearsPowerOff BY <1>5, <1>8 DEF HearsPowerOff
<1>9. CASE HearsDeleted  BY <1>5, <1>9 DEF HearsDeleted
<1>10. CASE HearsOwnerBad BY <1>5, <1>10 DEF HearsOwnerBad
<1> QED BY <1>6, <1>7, <1>8, <1>9, <1>10 DEF Listener

-----------------------------------------------------------------------------
(* Requests and waiting callers.                                            *)

\* Requests, and callers that waited for a lowering, keep the inductive invariant.
LEMMA CallersStep ==
  ASSUME IInv, (\E r \in Requests : Request(r)) \/ \E c \in Callers : AfterLowered(c)
  PROVE  IInv'
<1> USE DEF IInv, DataOK
<1>1. UNCHANGED <<record, stream, mirror, loose, host, exits, cooldown, locked, events, faults>>
  BY DEF Request, Arrive, LockWaitOver, AfterLowered
<1>2. RecordOK' /\ StreamOK' /\ MirrorOK' /\ FlagsOK' BY <1>1, DataSame
<1>3. ASSUME NEW c \in Callers, Enter(c) PROVE EdgeInv' /\ BoxOK'
  <2>1. EdgeInv' BY <1>1, <1>3, EnterKeeps
  <2>2. BoxOK' BY <1>3, LaunchBox DEF Enter, BoxOK
  <2> QED BY <2>1, <2>2
<1>4. ASSUME NEW c \in Callers, NEW pc \in {"failed", "locked"},
             caller' = [caller EXCEPT ![c] = Off(pc)], UNCHANGED <<registry, api, box>>
      PROVE  EdgeInv' /\ BoxOK'
  <2> USE DEF EdgeInv
  <2>1. BoxOK' /\ ApiOK' /\ HostOK' /\ HostFits' /\ RegisteredIsRaised' /\ ContainerAccounted'
    BY <1>1, <1>4 DEF BoxOK, ApiOK, HostOK, HostFits, RegisteredIsRaised, ContainerAccounted,
                      CountsOnIt
  <2>2. CallerOK' BY <1>4 DEF CallerOK, Caller, Off, Waiting
  <2>3. WaitsOnLive' BY <1>4 DEF WaitsOnLive, CallerOK, Off
  <2> QED BY <2>1, <2>2, <2>3
<1>5. ASSUME NEW r \in Requests, Request(r) PROVE IInv'
  <2>1. r \in Callers BY DEF Callers
  <2> QED BY <1>2, <1>3, <1>4, <1>5, <2>1 DEF Request, Arrive, LockWaitOver
<1>6. ASSUME NEW c \in Callers, AfterLowered(c) PROVE IInv'
  <2>1. EdgeInv' /\ BoxOK' BY <1>1, <1>6, LaunchKeeps, LaunchBox DEF AfterLowered
  <2> QED BY <1>2, <2>1
<1> QED BY <1>5, <1>6

-----------------------------------------------------------------------------
(* The steps of a launch.                                                   *)

\* A launch's dealings with Docker keep the inductive invariant.
LEMMA SpawnStep == ASSUME IInv, NEW a \in Launches, Spawn(a) \/ SpawnFails(a) PROVE IInv'
<1> USE DEF IInv, DataOK
<1>1. ASSUME NEW pc \in Raising, At1(a, pc), api[a].at \in Raising, HostOK', HostFits',
             Elsewhere, UNCHANGED <<registry, box>>,
             \A b \in Launches : host.by = b \/ b \in exits => host'.by = b \/ b \in exits',
             pc \in {"health", "fetch", "fetched"} =>
               host'.by = a \/ api[a].at \in {"health", "fetch", "fetched"}
      PROVE  IInv'
  <2>1. EdgeInv' BY <1>1, MoveKeeps DEF Elsewhere, Aside
  <2>2. RecordOK' /\ StreamOK' /\ MirrorOK' /\ FlagsOK' BY <1>1, DataSame DEF Elsewhere, Aside
  <2>3. BoxOK' BY <1>1 DEF BoxOK
  <2> QED BY <2>1, <2>2, <2>3
<1>2. ASSUME FailsBare(a), api[a].at \in Raising, UNCHANGED events \/ Happens PROVE IInv'
  <2>1. EdgeInv' BY <1>2, RejectsKeeps DEF FailsBare
  <2>2. BoxOK' BY <1>2, SendType DEF FailsBare, Status
  <2>3. RecordOK' /\ StreamOK' /\ MirrorOK'
    BY <1>2 DEF FailsBare, RecordOK, StreamOK, MirrorOK
  <2>4. FlagsOK'
    <3>1. events' \in 0..MaxEvents BY <1>2, HappensType DEF FlagsOK
    <3>2. cooldown' \in BOOLEAN BY <1>2 DEF FailsBare, Rejects
    <3> QED BY <1>2, <3>1, <3>2 DEF FailsBare, FlagsOK
  <2> QED BY <2>1, <2>2, <2>3, <2>4
<1>3. CASE NoOld(a) \/ Conflicts(a) \/ ConflictOver(a)
  <2>1. HostOK' /\ HostFits'
    BY <1>3 DEF NoOld, Conflicts, ConflictOver, JustMoves, HostOK, HostFits, EdgeInv
  <2> QED BY <1>1, <1>3, <2>1 DEF NoOld, Conflicts, ConflictOver, JustMoves, Raising
<1>4. CASE StopsOld(a)
  <2>1. HostOK' /\ HostFits' /\ host'.by = host.by
    BY <1>4 DEF StopsOld, HostOK, HostFits, EdgeInv
  <2> QED BY <1>1, <1>4, <2>1 DEF StopsOld, Raising
<1>5. CASE RemovesOld(a)
  <2>1. /\ api[a].at = "clear" /\ At1(a, "create") /\ Elsewhere /\ UNCHANGED <<registry, box>>
        /\ host' = NoBox
        /\ exits' = exits \cup (IF host.state = "none" THEN {} ELSE {host.by})
    BY <1>5 DEF RemovesOld
  <2>2. host.by \in Launches \/ (host.by = NoLaunch /\ host.state = "none")
    BY DEF HostOK, HostFits, EdgeInv
  <2>3. HostOK' /\ HostFits'
    <3>1. exits' \subseteq Launches
      BY <2>1, <2>2, LaunchAssumption DEF HostOK, HostFits, EdgeInv
    <3> QED BY <2>1, <3>1 DEF HostOK, HostFits, NoBox
  <2>4. \A b \in Launches : host.by = b \/ b \in exits => host'.by = b \/ b \in exits'
    BY <2>1, <2>2, LaunchAssumption DEF HostFits, EdgeInv
  <2> QED BY <1>1, <2>1, <2>3, <2>4 DEF Raising
<1>6. CASE Creates(a)
  <2>1. HostOK' /\ HostFits' BY <1>6, LaunchAssumption DEF Creates, HostOK, HostFits, EdgeInv
  <2>2. host.by = NoLaunch BY <1>6 DEF Creates, HostFits, EdgeInv
  <2> QED BY <1>1, <1>6, <2>1, <2>2, LaunchAssumption DEF Creates, Raising
<1>7. CASE ConflictTimesOut(a) BY <1>2, <1>7 DEF ConflictTimesOut, Raising
<1>8. CASE SpawnFails(a) BY <1>2, <1>8 DEF SpawnFails, Raising
<1> QED BY <1>3, <1>4, <1>5, <1>6, <1>7, <1>8 DEF Spawn

\* A launch's health check keeps the inductive invariant.
LEMMA HealthStep == ASSUME IInv, NEW a \in Launches, Health(a) PROVE IInv'
<1> USE DEF IInv, DataOK
<1>1. Elsewhere /\ UNCHANGED exits
  BY DEF Health, Preflight, FetchFails, FetchAnswered, JustMoves
<1>2. RecordOK' /\ StreamOK' /\ MirrorOK' /\ FlagsOK' BY <1>1, DataSame DEF Elsewhere, Aside
<1>3. ASSUME NEW pc \in {"health", "fetch", "fetched"}, At1(a, pc),
             api[a].at \in {"health", "fetch"}, UNCHANGED <<registry, box, host>>
      PROVE  IInv'
  <2>1. HostOK' /\ HostFits' BY <1>1, <1>3 DEF HostOK, HostFits, EdgeInv
  <2>2. EdgeInv' BY <1>1, <1>3, <2>1, MoveKeeps DEF Elsewhere, Aside, Raising
  <2>3. BoxOK' BY <1>3 DEF BoxOK
  <2> QED BY <1>2, <2>2, <2>3
<1>4. CASE Preflight(a) /\ Fail(a)
  <2>1. EdgeInv' BY <1>1, <1>4, FailKeeps DEF Preflight, Elsewhere, Aside, Raising
  <2>2. BoxOK' BY <1>4, SendType DEF Fail, Status
  <2> QED BY <1>2, <2>1, <2>2
<1>5. CASE Preflight(a) /\ ~Fail(a) BY <1>3, <1>5 DEF Preflight
<1>6. CASE FetchFails(a) BY <1>3, <1>6 DEF FetchFails, JustMoves
<1>7. CASE FetchAnswered(a) BY <1>3, <1>7 DEF FetchAnswered, JustMoves
<1> QED BY <1>4, <1>5, <1>6, <1>7 DEF Health

\* A launch that becomes ready keeps the inductive invariant, also when a
\* shutdown waited for it or its container is already gone.
LEMMA ReadyStep == ASSUME IInv, NEW a \in Launches, Ready(a) PROVE IInv'
<1> USE DEF IInv, DataOK, EdgeInv
<1> DEFINE shut == api[a].shut /\ ~api[a].lowered
           back == api[a].lowered
<1>1. /\ api[a].at = "fetched"
      /\ api' = [api EXCEPT ![a] = [at |-> IF back THEN "gone" ELSE "ready",
                                    lowered |-> back \/ shut, shut |-> FALSE]]
      /\ registry' = IF shut THEN NoLaunch ELSE registry
      /\ box' = [box EXCEPT ![a] = @ \o ReadyWrites(shut)]
      /\ IF shut THEN Kill(a) ELSE UNCHANGED host
      /\ caller' = [c \in Callers |->
           IF caller[c].on # a \/ caller[c].at # "await" THEN caller[c]
           ELSE IF back \/ caller[c].behind
                THEN [caller[c] EXCEPT !.at = "lowering", !.behind = FALSE]
                ELSE Off(IF c = Warm THEN "none" ELSE "served")]
      /\ cooldown' \in BOOLEAN
      /\ UNCHANGED <<record, stream, mirror, loose, exits, locked, events, faults>>
  BY DEF Ready, FlagsOK
<1> HIDE DEF shut, back
<1>2. back \in BOOLEAN /\ shut \in BOOLEAN BY DEF shut, back, ApiOK, Api
<1>3. RecordOK' /\ StreamOK' /\ MirrorOK' BY <1>1 DEF RecordOK, StreamOK, MirrorOK
<1>4. FlagsOK' BY <1>1 DEF FlagsOK
<1>5. BoxOK'
  <2>1. ReadyWrites(shut) = <<"running", "idle">> \/ ReadyWrites(shut) = <<"running">>
    BY DEF ReadyWrites
  <2>2. <<"running", "idle">> \in Seq(Status) /\ <<"running">> \in Seq(Status) BY DEF Status
  <2>3. \A t \in Seq(Status) : box[a] \o t \in Seq(Status) BY DEF BoxOK
  <2>4. box[a] \o ReadyWrites(shut) \in Seq(Status) BY <2>1, <2>2, <2>3
  <2> QED BY <1>1, <2>4 DEF BoxOK
<1>6. ApiOK' BY <1>1, <1>2 DEF ApiOK, Api, At
<1>7. HostOK' /\ HostFits' /\ host'.by = host.by
  <2>1. CASE shut BY <1>1, <2>1, KillKeeps
  <2>2. CASE ~shut BY <1>1, <2>2 DEF HostOK, HostFits
  <2> QED BY <2>1, <2>2
<1>8. CallerOK' BY <1>1 DEF CallerOK, Caller, Off, Waiting
<1>9. RegisteredIsRaised'
  <2>1. registry = a => ~back BY LaunchAssumption DEF RegisteredIsRaised, back
  <2> QED BY <1>1, <2>1 DEF RegisteredIsRaised, ApiOK
<1>10. ContainerAccounted'
  <2>1. CASE back BY <1>1, <1>7, <2>1 DEF ContainerAccounted, CountsOnIt, ApiOK
  <2>2. CASE ~back
    <3>1. CountsOnIt(a) BY <1>1, <2>2 DEF CountsOnIt, back
    <3> QED BY <1>1, <1>7, <3>1 DEF ContainerAccounted, CountsOnIt, ApiOK
  <2> QED BY <2>1, <2>2
<1>11. WaitsOnLive'
  <2>1. \A c \in Callers : caller[c].on = a /\ caller[c].at = "await" /\ caller[c].behind
                             => back \/ shut
    BY DEF WaitsOnLive, back, shut
  <2>2. \A c \in Callers : caller[c].on = a => caller[c].at # "lowering"
    BY <1>1 DEF WaitsOnLive
  <2> SUFFICES ASSUME NEW c \in Callers
               PROVE  /\ caller'[c].at = "await" =>
                           /\ caller'[c].on # NoLaunch
                           /\ api'[caller'[c].on].at \in Raising \cup {"failing"}
                           /\ caller'[c].behind =>
                                api'[caller'[c].on].shut \/ api'[caller'[c].on].lowered
                      /\ caller'[c].at = "lowering" =>
                           /\ caller'[c].on # NoLaunch
                           /\ \/ api'[caller'[c].on].at = "gone"
                              \/ api'[caller'[c].on].at = "ready" /\ api'[caller'[c].on].lowered
    BY DEF WaitsOnLive
  <2>3. CASE caller[c].on # a \/ caller[c].at # "await"
    <3>1. caller'[c] = caller[c] BY <1>1, <2>3
    <3>2. caller[c].at \in {"await", "lowering"} =>
            /\ caller[c].on \in Launches /\ api'[caller[c].on] = api[caller[c].on]
      BY <1>1, <2>2, <2>3 DEF WaitsOnLive, CallerOK, Caller, ApiOK
    <3> QED BY <3>1, <3>2 DEF WaitsOnLive
  <2>4. CASE caller[c].on = a /\ caller[c].at = "await" /\ (back \/ caller[c].behind)
    <3>1. caller'[c].at = "lowering" /\ caller'[c].on = a
      BY <1>1, <2>4 DEF CallerOK, Caller
    <3>2. api'[a].at = "gone" \/ (api'[a].at = "ready" /\ api'[a].lowered)
      BY <1>1, <1>2, <2>1, <2>4 DEF ApiOK
    <3> QED BY <3>1, <3>2, LaunchAssumption
  <2>5. CASE caller[c].on = a /\ caller[c].at = "await" /\ ~(back \/ caller[c].behind)
    BY <1>1, <2>5 DEF Off
  <2> QED BY <2>3, <2>4, <2>5
<1> QED BY <1>3, <1>4, <1>5, <1>6, <1>7, <1>8, <1>9, <1>10, <1>11

\* The exit handler keeps the inductive invariant.
LEMMA ExitStep == ASSUME IInv, NEW a \in Launches, ExitSeen(a) PROVE IInv'
<1> USE DEF IInv, DataOK
<1>1. /\ a \in exits /\ exits' = exits \ {a}
      /\ api' = [api EXCEPT ![a] = IF @.at = "ready" THEN Unused ELSE [@ EXCEPT !.lowered = TRUE]]
      /\ registry' = IF api[a].lowered THEN registry ELSE NoLaunch
      /\ UNCHANGED <<host, caller>> /\ Elsewhere
  BY DEF ExitSeen, Unregister, Elsewhere, Aside
<1>2. RecordOK' /\ StreamOK' /\ MirrorOK' /\ FlagsOK' BY <1>1, DataSame DEF Elsewhere, Aside
<1>3. BoxOK' BY SendType DEF ExitSeen, BoxOK, Status
<1> USE DEF EdgeInv
<1>4. ApiOK' BY <1>1 DEF ApiOK, Api, At, Unused
<1>5. HostOK' /\ HostFits' /\ CallerOK' BY <1>1 DEF HostOK, HostFits, CallerOK
<1>6. RegisteredIsRaised' BY <1>1 DEF RegisteredIsRaised, ApiOK, Api
<1>7. ContainerAccounted' BY <1>1 DEF ContainerAccounted, CountsOnIt, ApiOK, Api, Unused
<1>8. WaitsOnLive' BY <1>1 DEF WaitsOnLive, ApiOK, Api, Unused, CallerOK, Caller, Raising
<1> QED BY <1>2, <1>3, <1>4, <1>5, <1>6, <1>7, <1>8

\* Every step of a launch keeps the inductive invariant.
LEMMA LaunchStep == ASSUME IInv, NEW a \in Launches, Launch(a) PROVE IInv'
<1>1. CASE FailDone(a)
  <2> USE DEF IInv, DataOK
  <2>1. EdgeInv' BY <1>1, RejectsKeeps DEF FailDone
  <2>2. cooldown' \in BOOLEAN BY <1>1 DEF FailDone, Rejects
  <2>3. RecordOK' /\ StreamOK' /\ MirrorOK' /\ BoxOK' /\ FlagsOK'
    BY <1>1, <2>2 DEF FailDone, RecordOK, StreamOK, MirrorOK, BoxOK, FlagsOK
  <2> QED BY <2>1, <2>3
<1> QED BY <1>1, SpawnStep, HealthStep, ReadyStep, ExitStep DEF Launch

-----------------------------------------------------------------------------
(* The clock, Docker and the vacuum lock.                                   *)

\* The cooldown, Docker and the vacuum lock keep the inductive invariant.
LEMMA OutsideStep == ASSUME IInv, CooldownOver \/ Docker \/ Vacuum PROVE IInv'
<1> USE DEF IInv, DataOK
<1>1. RecordOK' /\ StreamOK' /\ MirrorOK' /\ BoxOK'
  BY DEF CooldownOver, Docker, ContainerStops, ContainerCrashes, Vanish, Aside, Vacuum, VacuumLocks,
         VacuumUnlocks, RecordOK, StreamOK, MirrorOK, BoxOK
<1>2. FlagsOK'
  <2>1. events' \in 0..MaxEvents
    BY HappensType DEF CooldownOver, Docker, ContainerStops, ContainerCrashes, Vacuum, VacuumLocks,
                       VacuumUnlocks, FlagsOK
  <2>2. UNCHANGED faults /\ cooldown' \in BOOLEAN /\ locked' \in BOOLEAN
    BY DEF CooldownOver, Docker, ContainerStops, ContainerCrashes, Vanish, Aside, Vacuum, VacuumLocks,
           VacuumUnlocks, daemon, FlagsOK
  <2>3. loose' \subseteq Status
    BY DEF CooldownOver, Docker, ContainerStops, ContainerCrashes, Vanish, Aside, Vacuum, VacuumLocks,
           VacuumUnlocks, FlagsOK, Status
  <2> QED BY <2>1, <2>2, <2>3 DEF FlagsOK
<1>3. EdgeInv'
  <2>1. CASE CooldownOver \/ Vacuum
    BY <2>1, EdgeSame DEF CooldownOver, Vacuum, VacuumLocks, VacuumUnlocks, daemon
  <2>2. CASE Docker
    BY <2>2, VanishKeeps DEF Docker, ContainerStops, ContainerCrashes
  <2> QED BY <2>1, <2>2
<1> QED BY <1>1, <1>2, <1>3

-----------------------------------------------------------------------------

\* Every reachable state satisfies the inductive invariant: the parts of TypeOK,
\* the three safety invariants, and that a container always has a launch that made it.
THEOREM Invariant == Spec => []IInv
<1>1. IInv /\ [Next]_vars => IInv'
  <2> SUFFICES ASSUME IInv, [Next]_vars PROVE IInv'
    OBVIOUS
  <2>1. CASE UNCHANGED vars
    <3> USE <2>1 DEF IInv, DataOK, vars
    <3>1. EdgeInv' BY EdgeSame
    <3>2. RecordOK' /\ StreamOK' /\ MirrorOK' /\ FlagsOK' BY DataSame
    <3>3. BoxOK' BY DEF BoxOK
    <3> QED BY <3>1, <3>2, <3>3
  <2> QED BY <2>1, UsersStep, WritesStep, ListenerStep, CallersStep, LaunchStep, OutsideStep
          DEF Next
<1> QED BY <1>1, InitIInv, PTL DEF Spec

\* TypeOK holds: every handler leaves the service's maps, the launches' write queues
\* and the stream within their types.
THEOREM TypeCorrect == Spec => []TypeOK
BY Invariant, TypeParts, PTL

\* The entry of instanceApis is never a launch that was lowered or failed.
THEOREM RegisteredLaunchIsRaised == Spec => []RegisteredIsRaised
<1>1. IInv => RegisteredIsRaised BY DEF IInv, EdgeInv
<1> QED BY <1>1, Invariant, PTL

\* A launch that counts on its container has it or is about to learn of its loss.
THEOREM ContainersAreAccounted == Spec => []ContainerAccounted
<1>1. IInv => ContainerAccounted BY DEF IInv, EdgeInv
<1> QED BY <1>1, Invariant, PTL

\* Whoever waits in ensureInstanceApi waits for a launch that settles or goes down.
THEOREM CallersWaitOnLive == Spec => []WaitsOnLive
<1>1. IInv => WaitsOnLive BY DEF IInv, EdgeInv
<1> QED BY <1>1, Invariant, PTL

-----------------------------------------------------------------------------
(* One disturbance.                                                        *)
(*                                                                         *)
(* The service forgets whose entry it deletes and when, so two edits can    *)
(* leave a container that nobody can stop.  One edit, refused launch, lost  *)
(* write or vacuum cannot: then the power and the owner change at most      *)
(* once, what the stream carries only leads up to that change, and a launch *)
(* that goes down is followed by no other.                                  *)

Once == events <= 1 /\ "crash" \notin faults

Raisable == mirror = [power |-> "on", owner |-> TRUE]

Places        == 1..Len(stream)
IsInstance(i) == stream[i][1] = "instance"

(* No launch is there; if nothing can fail there never was one.             *)
Unwritten ==
  /\ \A a \in Launches : box[a] = <<>>
  /\ loose = {} /\ record.status = "idle"
  /\ \A i \in Places : IsInstance(i) => stream[i][3] = "idle"

Still == /\ registry = NoLaunch /\ \A a \in Launches : api[a].at = "gone"
         /\ faults = {} => Unwritten
Fresh == mirror.power # "on" /\ Still

(* An owner who lost the right does not get it back.                        *)
OwnerFits ==
  /\ \A i \in Places : stream[i][1] = "owner" => ~stream[i][2]
  /\ ~mirror.owner \/ (\E i \in Places : stream[i][1] = "owner") => ~record.owner
  /\ ~record.owner => events # 0

(* Nobody edited the instance yet.                                          *)
Clean == /\ record.owner /\ mirror.power \in {"gone", record.power}
         /\ \A i \in Places : IsInstance(i) => stream[i][2] = record.power

CleanFits == events = 0 => Clean /\ (Still \/ record.power = "on")

(* The power changes at most once: from one value, to that of the record.   *)
Settles ==
  \A i, j \in Places :
    i < j /\ IsInstance(i) /\ IsInstance(j) /\ stream[i][2] = record.power =>
      stream[j][2] = record.power

OneOther ==
  \A i, j \in Places :
    IsInstance(i) /\ IsInstance(j) /\ stream[i][2] # record.power /\ stream[j][2] # record.power =>
      stream[i][2] = stream[j][2]

(* The power that the first launch saw was on.                              *)
PowerOnce ==
  Fresh \/ /\ mirror.power \in {"on", record.power}
           /\ \A i \in Places : IsInstance(i) => stream[i][2] \in {mirror.power, record.power}

(* The vacuum is the disturbance.                                           *)
LockFits ==
  /\ locked => events # 0 /\ Clean /\ faults # {}
  /\ \A c \in Callers : caller[c].at = "locked" => events # 0 /\ Clean /\ Raisable

StreamFits == OwnerFits /\ CleanFits /\ Settles /\ OneOther /\ PowerOnce /\ LockFits

(* A launch that goes down, or will, is the last.                           *)
GoingDown(a) ==
  \/ api[a].at \in Raising /\ api[a].shut
  \/ api[a].at = "failing"
  \/ api[a].at = "ready" /\ api[a].lowered

DownFits == \A a \in Launches : GoingDown(a) => ~Raisable

OneLaunch ==
  /\ \A a, b \in Launches : api[a].at # "gone" /\ api[b].at # "gone" => a = b
  /\ \A a \in Launches : api[a].at # "gone" =>
       \/ registry = a
       \/ registry = NoLaunch /\ api[a].lowered /\ api[a].at \in {"failing", "ready"}

NoneBehind == \A c \in Callers : ~caller[c].behind /\ caller[c].at # "lowering"

Made == {"health", "fetch", "fetched", "ready", "failing"}
HostOne ==
  /\ host.by # NoLaunch => api[host.by].at \in Made /\ host.by \notin exits
  /\ host.state = "up" => registry = host.by
  /\ host.state = "stopping" => api[host.by].lowered
  /\ \A a \in exits : api[a].lowered /\ api[a].at \in {"ready", "failing", "gone"}
  /\ \A a \in Launches : api[a].at \notin {"clear", "conflict"}

DaemonFits == DownFits /\ OneLaunch /\ NoneBehind /\ HostOne

OnceInv == Once => StreamFits /\ DaemonFits

\* Disturbances are counted, and what may fail does not change.
LEMMA Counted ==
  ASSUME IInv, Next
  PROVE  events' >= events /\ {events, events'} \subseteq Nat /\ faults' = faults /\ (Once' => Once)
<1>1. events \in Nat
  BY BoundAssumption DEF IInv, DataOK, FlagsOK
<1>2. events' = events \/ events' = events + 1
  <2>1. UNCHANGED events \/ Happens
    BY DEF Next, Users, UserPower, UserDelete, OwnerChange, Writes, BoxLands, LooseLands, Answered,
           Listener, HearsPowerOn, HearsPowerOff, HearsDeleted, HearsOwnerBad, HearsOwnerOk,
           CooldownOver, Docker, ContainerStops, ContainerCrashes, Vacuum, VacuumLocks, VacuumUnlocks,
           Launch, Spawn, StopsOld, NoOld, RemovesOld, Creates, Conflicts, ConflictOver,
           ConflictTimesOut, SpawnFails, Health, Preflight, FetchFails, FetchAnswered, Ready, FailDone,
           ExitSeen, JustMoves, Elsewhere, Request, Arrive, LockWaitOver, AfterLowered
  <2> QED BY <2>1 DEF Happens
<1>3. faults' = faults
  BY DEF Next, Users, UserPower, UserDelete, OwnerChange, Writes, BoxLands, LooseLands,
         Listener, HearsPowerOn, HearsPowerOff, HearsDeleted, HearsOwnerBad, HearsOwnerOk,
         CooldownOver, Docker, ContainerStops, ContainerCrashes, Vacuum, VacuumLocks, VacuumUnlocks,
         Launch, Spawn, StopsOld, NoOld, RemovesOld, Creates, Conflicts, ConflictOver,
         ConflictTimesOut, SpawnFails, Health, Preflight, FetchFails, FetchAnswered, Ready, FailDone,
         ExitSeen, JustMoves, Elsewhere, FailsBare, Vanish, Aside, Request, Arrive, LockWaitOver,
         AfterLowered
<1> QED BY <1>1, <1>2, <1>3 DEF Once

\* An event is added at the end of the stream, and taken from its front.
LEMMA EmitPlaces ==
  ASSUME StreamOK, NEW e \in Event, Emit(e)
  PROVE  \A i \in Places' : \/ i \in Places /\ stream'[i] = stream[i]
                            \/ stream'[i] = e /\ \A j \in Places' : j <= i
<1>1. stream \in Seq(Event) /\ stream' = Append(stream, e)
  BY DEF StreamOK, Emit
<1>2. ASSUME NEW S, NEW s \in Seq(S), NEW x \in S, NEW i \in 1..Len(Append(s, x))
      PROVE  \/ i \in 1..Len(s) /\ Append(s, x)[i] = s[i]
             \/ Append(s, x)[i] = x /\ \A j \in 1..Len(Append(s, x)) : j <= i
  OBVIOUS
<1> QED BY <1>1, <1>2 DEF Places

LEMMA TailPlaces ==
  ASSUME StreamOK, stream # <<>>, stream' = Tail(stream)
  PROVE  /\ 1 \in Places /\ Head(stream) = stream[1]
         /\ \A i \in Places' : i + 1 \in Places /\ 1 < i + 1 /\ stream'[i] = stream[i + 1] /\ i \in Nat
BY DEF StreamOK, Places

\* Where nothing is streamed and nobody edits, only a launch or a caller moved.
LEMMA StreamKept ==
  ASSUME IInv, StreamFits, UNCHANGED <<record, stream, mirror, faults>>,
         events' >= events, events' \in Nat, locked' => locked,
         \A c \in Callers : caller'[c].at = "locked" =>
            caller[c].at = "locked" \/ (locked /\ Raisable),
         Still => Still' \/ Raisable
  PROVE  StreamFits'
<1> USE DEF StreamFits
<1>1. events \in Nat BY BoundAssumption DEF IInv, DataOK, FlagsOK
<1>2. UNCHANGED <<Places, Clean, Raisable>> /\ \A i : IsInstance(i)' = IsInstance(i)
  BY DEF Places, Clean, Raisable, IsInstance
<1>3. OwnerFits' /\ Settles' /\ OneOther'
  BY <1>1, <1>2 DEF OwnerFits, Settles, OneOther, IsInstance, Places
<1>4. CleanFits' BY <1>1, <1>2 DEF CleanFits, Clean, Raisable
<1>5. PowerOnce' BY <1>2 DEF PowerOnce, Fresh, Raisable
<1>6. LockFits' BY <1>1, <1>2 DEF LockFits
<1> QED BY <1>3, <1>4, <1>5, <1>6

\* A write that lands streams the power that the record has.
LEMMA LandedFits ==
  ASSUME IInv, StreamFits, NEW status \in Status, Landed(status),
         UNCHANGED <<mirror, locked, caller, events, faults>>, Still => Still'
  PROVE  StreamFits'
<1> USE DEF StreamFits
<1>1. CASE record.power = "gone"
  <2>1. UNCHANGED <<record, stream>> BY <1>1 DEF Landed
  <2>2. events' >= events /\ events' \in Nat BY BoundAssumption DEF IInv, DataOK, FlagsOK
  <2> HIDE DEF StreamFits
  <2>3. locked' => locked OBVIOUS
  <2> QED BY <2>1, <2>2, <2>3, StreamKept
<1>2. CASE record.power # "gone"
  <2> DEFINE e == <<"instance", record.power, status>>
  <2>1. /\ record.power \in Power /\ e \in Event /\ StreamOK /\ Emit(e)
        /\ record'.power = record.power /\ record'.owner = record.owner
    BY <1>2, InstanceEvents DEF Landed, IInv, DataOK, RecordOK
  <2>2. \A i \in Places' : \/ i \in Places /\ stream'[i] = stream[i]
                           \/ stream'[i] = e /\ \A j \in Places' : j <= i
    BY <2>1, EmitPlaces
  <2>3. Places' \subseteq Nat BY DEF Places
  <2>4. e[1] = "instance" /\ e[2] = record.power OBVIOUS
  <2> HIDE DEF e
  <2>5. OwnerFits' BY <2>1, <2>2, <2>4 DEF OwnerFits
  <2>6. Clean => Clean' BY <2>1, <2>2, <2>4 DEF Clean, IsInstance
  <2>7. CleanFits' BY <2>1, <2>6 DEF CleanFits
  <2>8. Settles' BY <2>1, <2>2, <2>3, <2>4 DEF Settles, IsInstance
  <2>9. OneOther' BY <2>1, <2>2, <2>4 DEF OneOther, IsInstance
  <2>10. PowerOnce' BY <2>1, <2>2, <2>4 DEF PowerOnce, Fresh, IsInstance
  <2>11. LockFits' BY <2>6 DEF LockFits, Raisable
  <2> QED BY <2>5, <2>7, <2>8, <2>9, <2>10, <2>11
<1> QED BY <1>1, <1>2

\* The first edit: the power changes, or the instance is deleted.
LEMMA EditFits ==
  ASSUME IInv, StreamFits, events = 0, NEW p \in Power, p # record.power,
         record' = [record EXCEPT !.power = p], Emit(<<"instance", p, record.status>>),
         UNCHANGED <<mirror, registry, api, box, loose, locked, caller, faults>>, events' = 1
  PROVE  StreamFits'
<1> USE DEF StreamFits
<1> DEFINE e == <<"instance", p, record.status>>
<1>1. /\ e \in Event /\ StreamOK /\ Emit(e)
      /\ record'.power = p /\ record'.owner = record.owner /\ record'.status = record.status
  BY InstanceEvents DEF IInv, DataOK, RecordOK
<1>2. \A i \in Places' : \/ i \in Places /\ stream'[i] = stream[i]
                         \/ stream'[i] = e /\ \A j \in Places' : j <= i
  BY <1>1, EmitPlaces
<1>3. Places' \subseteq Nat BY DEF Places
<1>4. e[1] = "instance" /\ e[2] = p /\ e[3] = record.status OBVIOUS
<1> HIDE DEF e
<1>5. Clean /\ (Still \/ record.power = "on") BY DEF CleanFits
<1>6. OwnerFits' BY <1>1, <1>2, <1>4, <1>5 DEF OwnerFits, Clean
<1>7. CleanFits' BY DEF CleanFits
<1>8. Settles' BY <1>1, <1>2, <1>3, <1>4, <1>5 DEF Settles, Clean, IsInstance
<1>9. OneOther' BY <1>1, <1>2, <1>4, <1>5 DEF OneOther, Clean, IsInstance
<1>10. PowerOnce'
  <2>1. CASE Fresh
    <3>1. Still' BY <1>1, <1>2, <1>4, <2>1 DEF Fresh, Still, Unwritten, IsInstance
    <3> QED BY <2>1, <3>1 DEF PowerOnce, Fresh
  <2>2. CASE ~Fresh
    <3>1. mirror.power = "on" /\ record.power = "on"
      BY <1>5, <2>2 DEF PowerOnce, Fresh, Clean, MirrorOK, IInv, DataOK, Power
    <3> QED BY <1>1, <1>2, <1>4, <1>5, <3>1 DEF PowerOnce, Clean, IsInstance
  <2> QED BY <2>1, <2>2
<1>11. LockFits' BY DEF LockFits
<1> QED BY <1>6, <1>7, <1>8, <1>9, <1>10, <1>11

\* The first edit: the owner may not run instances any more.
LEMMA OwnerFitsEdit ==
  ASSUME IInv, StreamFits, events = 0, NEW ok \in BOOLEAN, record.owner # ok,
         record' = [record EXCEPT !.owner = ok], Emit(<<"owner", ok>>),
         UNCHANGED <<mirror, registry, api, box, loose, locked, caller, faults>>, events' = 1
  PROVE  StreamFits'
<1> USE DEF StreamFits
<1> DEFINE e == <<"owner", ok>>
<1>1. /\ e \in Event /\ StreamOK /\ Emit(e)
      /\ record'.power = record.power /\ record'.owner = ok /\ record'.status = record.status
  BY DEF IInv, DataOK, RecordOK, Event
<1>2. \A i \in Places' : \/ i \in Places /\ stream'[i] = stream[i]
                         \/ stream'[i] = e /\ \A j \in Places' : j <= i
  BY <1>1, EmitPlaces
<1>3. e[1] = "owner" /\ e[2] = ok OBVIOUS
<1> HIDE DEF e
<1>4. Clean BY DEF CleanFits
<1>5. ~ok BY <1>4 DEF Clean
<1>6. OwnerFits' BY <1>1, <1>2, <1>3, <1>4, <1>5 DEF OwnerFits, Clean
<1>7. CleanFits' BY DEF CleanFits
<1>8. Settles' BY <1>1, <1>2, <1>3 DEF Settles, IsInstance
<1>9. OneOther' BY <1>1, <1>2, <1>3 DEF OneOther, IsInstance
<1>10. PowerOnce'
  <2>1. Still => Still' BY <1>1, <1>2, <1>3 DEF Still, Unwritten, IsInstance
  <2> QED BY <1>1, <1>2, <1>3, <2>1 DEF PowerOnce, Fresh, IsInstance
<1>11. LockFits' BY DEF LockFits
<1> QED BY <1>6, <1>7, <1>8, <1>9, <1>10, <1>11

\* Who leaves the launches, their callers and Docker alone disturbs nothing there.
LEMMA DaemonSame ==
  ASSUME DaemonFits, UNCHANGED <<registry, api, caller, host, exits>>, Raisable' => Raisable
  PROVE  DaemonFits'
BY DEF DaemonFits, DownFits, GoingDown, OneLaunch, NoneBehind, HostOne

\* Users: what they change is the disturbance.
LEMMA UsersOnce ==
  ASSUME IInv, OnceInv, Users, Once'
  PROVE  StreamFits' /\ DaemonFits'
<1>1. Once /\ events = 0 /\ events' = 1
  <2>1. Happens BY DEF Users, UserPower, UserDelete, OwnerChange
  <2>2. UNCHANGED faults BY DEF Users, UserPower, UserDelete, OwnerChange
  <2>3. events \in Nat BY BoundAssumption DEF IInv, DataOK, FlagsOK
  <2> QED BY <2>1, <2>2, <2>3 DEF Happens, Once
<1>2. StreamFits /\ DaemonFits BY <1>1 DEF OnceInv
<1>3. UNCHANGED <<mirror, registry, api, box, loose, host, exits, locked, caller, faults>>
  BY DEF Users, UserPower, UserDelete, OwnerChange, daemon
<1>4. DaemonFits'
  BY <1>2, <1>3, DaemonSame DEF Raisable
<1>5. ASSUME NEW p \in {"on", "off"}, UserPower(p) PROVE StreamFits'
  BY <1>1, <1>2, <1>3, <1>5, EditFits DEF UserPower, Power
<1>6. CASE UserDelete
  <2>1. "gone" \in Power /\ "gone" # record.power BY <1>6 DEF UserDelete, Power
  <2>2. /\ record' = [record EXCEPT !.power = "gone"]
        /\ Emit(<<"instance", "gone", record.status>>)
    BY <1>6 DEF UserDelete
  <2> QED BY <1>1, <1>2, <1>3, <1>4, <2>1, <2>2, EditFits
<1>7. ASSUME NEW ok \in BOOLEAN, OwnerChange(ok) PROVE StreamFits'
  BY <1>1, <1>2, <1>3, <1>7, OwnerFitsEdit DEF OwnerChange
<1> QED BY <1>4, <1>5, <1>6, <1>7 DEF Users

\* Status writes.
LEMMA WritesOnce ==
  ASSUME IInv, OnceInv, Writes, Once'
  PROVE  StreamFits' /\ DaemonFits'
<1>1. Once /\ events' >= events /\ events' \in Nat
  <2>1. Next BY DEF Next
  <2> QED BY <2>1, Counted DEF Once
<1>2. StreamFits /\ DaemonFits BY <1>1 DEF OnceInv
<1>3. UNCHANGED <<mirror, registry, api, host, exits, locked, caller, faults>>
  BY DEF Writes, BoxLands, LooseLands, daemon
<1>4. DaemonFits'
  BY <1>2, <1>3, DaemonSame DEF Raisable
<1>5. Still => Still'
  BY <1>3 DEF Writes, BoxLands, LooseLands, Still, Unwritten
<1>6. \E status \in Status : Answered(status)
  <2>1. ASSUME NEW a \in Launches, BoxLands(a) PROVE Head(box[a]) \in Status
    BY <2>1 DEF BoxLands, IInv, DataOK, BoxOK
  <2> QED BY <2>1 DEF Writes, BoxLands, LooseLands
<1>7. PICK status \in Status : Answered(status) BY <1>6
<1>8. CASE Landed(status) /\ UNCHANGED events
  BY <1>2, <1>3, <1>4, <1>5, <1>8, LandedFits
<1>9. CASE UNCHANGED <<record, stream>>
  BY <1>1, <1>2, <1>3, <1>4, <1>5, <1>9, StreamKept
<1> QED BY <1>4, <1>7, <1>8, <1>9 DEF Answered

\* A launch that is not gone and not going down is the registered one, and raised.
LEMMA RegisteredAlone ==
  ASSUME IInv, DaemonFits, NEW a \in Launches, api[a].at # "gone"
  PROVE  /\ \A b \in Launches : b # a => api[b].at = "gone"
         /\ \/ registry = a /\ ~api[a].lowered
            \/ registry = NoLaunch /\ GoingDown(a) /\ api[a].at \notin Raising
         /\ host.by \in {NoLaunch, a}
<1>1. a # NoLaunch BY LaunchAssumption
<1>2. \A b \in Launches : b # a => api[b].at = "gone"
  BY DEF DaemonFits, OneLaunch
<1>3. \/ registry = a /\ ~api[a].lowered
      \/ registry = NoLaunch /\ GoingDown(a) /\ api[a].at \notin Raising
  BY <1>1 DEF IInv, EdgeInv, RegisteredIsRaised, DaemonFits, OneLaunch, GoingDown, Raising
<1>4. host.by \in {NoLaunch, a}
  BY <1>2 DEF IInv, EdgeInv, HostOK, DaemonFits, HostOne, Made
<1> QED BY <1>2, <1>3, <1>4

\* shutdownRunningInstance, when the mirror says that the instance is to be down.
LEMMA ShutAlone ==
  ASSUME IInv, DaemonFits, ShutRegistered, ~Raisable', UNCHANGED <<exits, caller>>
  PROVE  DaemonFits'
<1> USE DEF DaemonFits
<1>1. CASE registry = NoLaunch
  <2>1. UNCHANGED <<registry, api, host>> BY <1>1 DEF ShutRegistered, Shutdown
  <2> QED BY <2>1, DaemonSame
<1>2. registry # NoLaunch => registry \in Launches /\ api[registry] \in Api /\ ApiOK
                             /\ api[registry].at # "gone" /\ ~api[registry].lowered
  BY DEF IInv, EdgeInv, ApiOK, RegisteredIsRaised, Raising
<1>3. DownFits' /\ NoneBehind' BY DEF DownFits, NoneBehind
<1>4. CASE registry # NoLaunch /\ api[registry].at = "ready" /\ Shutdown(registry)
  <2>1. /\ registry' = NoLaunch /\ Kill(registry)
        /\ api' = [api EXCEPT ![registry].lowered = TRUE]
    BY <1>4 DEF Shutdown, Unregister
  <2>2. \A b \in Launches : /\ api'[b].at = api[b].at
                            /\ api'[b].lowered = (api[b].lowered \/ b = registry)
    BY <1>2, <1>4, <2>1 DEF ApiOK, Api
  <2>3. OneLaunch' BY <1>2, <1>4, <2>1, <2>2 DEF OneLaunch
  <2>4. /\ host'.by = host.by
        /\ host'.state # host.state => host'.state = "stopping" /\ host.by = registry
    BY <1>2, <1>4, <2>1, KillKeeps DEF Kill, IInv, EdgeInv, HostOK
  <2>5. host'.state # "up"
    BY <1>2, <1>4, <2>1, LaunchAssumption DEF Kill, HostOne, IInv, EdgeInv, HostOK
  <2>6. HostOne'
    BY <1>2, <1>4, <2>2, <2>4, <2>5, LaunchAssumption DEF HostOne, IInv, EdgeInv, HostOK, HostFits, NoLaunch
  <2> QED BY <1>3, <2>3, <2>6
<1>5. CASE /\ registry # NoLaunch
           /\ api' = [api EXCEPT ![registry].shut = TRUE]
           /\ UNCHANGED <<registry, box, host>>
  <2>1. \A b \in Launches : api'[b].at = api[b].at /\ api'[b].lowered = api[b].lowered
    BY <1>2, <1>5 DEF ApiOK, Api
  <2>2. OneLaunch' BY <1>5, <2>1 DEF OneLaunch
  <2>3. HostOne'
    BY <1>5, <2>1, LaunchAssumption DEF HostOne, IInv, EdgeInv, HostOK, HostFits, NoLaunch
  <2> QED BY <1>3, <2>2, <2>3
<1> QED BY <1>1, <1>4, <1>5 DEF ShutRegistered

\* A launch where there is none.
LEMMA LaunchAlone ==
  ASSUME IInv, DaemonFits, NEW c \in Callers, LaunchBy(c), UNCHANGED <<host, exits>>,
         \A a \in Launches : api[a].at = "gone"
  PROVE  DaemonFits'
<1> USE DEF DaemonFits
<1>1. PICK a \in Free(c) :
        /\ registry' = a
        /\ api' = [api EXCEPT ![a] = [at |-> "spawn", lowered |-> FALSE, shut |-> FALSE]]
        /\ caller' = [caller EXCEPT ![c] = [at |-> "await", on |-> a, behind |-> FALSE]]
  BY DEF LaunchBy
<1>2. a \in Launches /\ a # NoLaunch /\ a \notin exits BY LaunchAssumption DEF Free
<1>3. /\ api'[a] = [at |-> "spawn", lowered |-> FALSE, shut |-> FALSE]
      /\ \A b \in Launches : b # a => api'[b] = api[b]
  BY <1>1, <1>2 DEF IInv, EdgeInv, ApiOK
<1>4. DownFits' BY <1>3 DEF DownFits, GoingDown, Raising
<1>5. OneLaunch' BY <1>1, <1>3 DEF OneLaunch
<1>6. NoneBehind' BY <1>1 DEF NoneBehind, IInv, EdgeInv, CallerOK
<1>7. host.by = NoLaunch /\ host.state = "none"
  BY DEF IInv, EdgeInv, HostOK, HostFits, HostOne, Made
<1>8. HostOne' BY <1>2, <1>3, <1>7 DEF HostOne, IInv, EdgeInv, HostOK
<1> QED BY <1>4, <1>5, <1>6, <1>8

\* A caller of ensureInstanceApi while the instance may be raised.
LEMMA EnterAlone ==
  ASSUME IInv, DaemonFits, Raisable, NEW c \in Callers, Enter(c),
         UNCHANGED <<mirror, host, exits>>
  PROVE  DaemonFits'
<1> USE DEF DaemonFits
<1>1. CASE registry = NoLaunch /\ LaunchBy(c)
  <2>1. \A a \in Launches : api[a].at = "gone" BY <1>1, RegisteredAlone, LaunchAssumption DEF DownFits
  <2> QED BY <1>1, <2>1, LaunchAlone
<1>2. CASE /\ registry # NoLaunch
           /\ caller' = [caller EXCEPT ![c] =
                IF api[registry].at = "ready" THEN Off("served")
                ELSE [at |-> "await", on |-> registry, behind |-> api[registry].shut]]
           /\ UNCHANGED <<registry, api, box>>
  <2>1. registry \in Launches /\ (api[registry].at = "ready" \/ ~api[registry].shut)
    BY <1>2 DEF IInv, EdgeInv, ApiOK, RegisteredIsRaised, DownFits, GoingDown
  <2>2. NoneBehind' BY <1>2, <2>1 DEF NoneBehind, IInv, EdgeInv, CallerOK, Off
  <2> QED BY <1>2, <2>2 DEF DownFits, GoingDown, Raisable, OneLaunch, HostOne
<1> QED BY <1>1, <1>2 DEF Enter

\* A launch makes progress.
LEMMA MoveAlone ==
  ASSUME IInv, DaemonFits, NEW a \in Launches, NEW pc \in Raising \ {"clear", "conflict"},
         api[a].at \in Raising, host.by = a => pc \in Made,
         At1(a, pc), UNCHANGED <<mirror, registry, caller, host, exits>>
  PROVE  DaemonFits'
<1> USE DEF DaemonFits
<1>1. /\ ApiOK /\ HostOK /\ HostFits
      /\ \A b \in Launches : /\ b # a => api'[b] = api[b]
                             /\ api'[b].lowered = api[b].lowered /\ api'[b].shut = api[b].shut
      /\ api'[a].at = pc
  BY DEF At1, IInv, EdgeInv, ApiOK, Api
<1>2. pc # "gone" /\ pc # "failing" /\ pc # "ready" BY DEF Raising
<1>3. DownFits' BY <1>1, <1>2 DEF DownFits, GoingDown, Raisable, Raising
<1>4. OneLaunch' BY <1>1, <1>2 DEF OneLaunch, Raising
<1>5. NoneBehind' BY DEF NoneBehind
<1>6. HostOne' BY <1>1, <1>2 DEF HostOne, HostOK, HostFits, Raising
<1> QED BY <1>3, <1>4, <1>5, <1>6

\* A launch ends without a container.
LEMMA RejectsAlone ==
  ASSUME IInv, DaemonFits, NEW a \in Launches, api[a].at # "gone", host.by # a, Rejects(a),
         UNCHANGED <<mirror, host, exits>>
  PROVE  DaemonFits'
<1> USE DEF DaemonFits
<1>1. /\ ApiOK /\ HostOK /\ HostFits /\ CallerOK
      /\ registry' = NoLaunch /\ api' = [api EXCEPT ![a] = Unused]
      /\ \A c \in Callers : caller'[c] = caller[c] \/ \E pc \in {"none", "failed"} : caller'[c] = Off(pc)
  BY DEF Rejects, IInv, EdgeInv
<1>2. host.by = NoLaunch /\ host.state = "none" BY <1>1, RegisteredAlone DEF HostFits, HostOK
<1>3. \A b \in Launches : /\ api'[b].at = "gone"
                          /\ b # a => api'[b] = api[b]
                          /\ b = a => api'[b].lowered
  BY <1>1, RegisteredAlone DEF ApiOK, Unused
<1>4. DownFits' BY <1>3 DEF DownFits, GoingDown, Raising
<1>5. OneLaunch' BY <1>3 DEF OneLaunch
<1>6. NoneBehind' BY <1>1 DEF NoneBehind, Off
<1>7. HostOne' BY <1>1, <1>2, <1>3 DEF HostOne, HostOK
<1> QED BY <1>4, <1>5, <1>6, <1>7

\* A launch whose instance was powered off meanwhile fails.
LEMMA FailAlone ==
  ASSUME IInv, DaemonFits, NEW a \in Launches, api[a].at = "health", ~Raisable, Fail(a),
         UNCHANGED <<mirror, caller, exits>>
  PROVE  DaemonFits'
<1> USE DEF DaemonFits
<1>1. registry = a /\ ~api[a].lowered BY RegisteredAlone DEF Raising
<1>2. /\ ApiOK /\ HostOK /\ HostFits /\ Kill(a) /\ host'.by = host.by
      /\ registry' = NoLaunch
      /\ \A b \in Launches : b # a => api'[b] = api[b]
      /\ api'[a].at = "failing" /\ api'[a].lowered
  BY <1>1, KillKeeps DEF Fail, Unregister, IInv, EdgeInv, ApiOK, Api
<1>3. DownFits' BY DEF DownFits, Raisable
<1>4. OneLaunch' BY <1>2 DEF OneLaunch
<1>5. NoneBehind' BY DEF NoneBehind
<1>6. host'.state # "up"
  BY <1>1, <1>2 DEF Kill, HostOne, HostOK
<1>7. host'.state = "stopping" => host.state = "stopping" \/ host.by = a
  BY <1>2 DEF Kill, HostOK
<1>8. HostOne'
  BY <1>2, <1>6, <1>7, LaunchAssumption DEF HostOne, HostOK, HostFits, Made, NoLaunch
<1> QED BY <1>3, <1>4, <1>5, <1>8

\* The steps of a launch that has no other beside it.
LEMMA SpawnAlone ==
  ASSUME IInv, DaemonFits, NEW a \in Launches, Spawn(a) \/ SpawnFails(a)
  PROVE  DaemonFits'
<1>1. UNCHANGED mirror
  BY DEF Spawn, StopsOld, NoOld, RemovesOld, Creates, Conflicts, ConflictOver, ConflictTimesOut,
         SpawnFails, FailsBare, JustMoves, Elsewhere, Aside
<1>2. HostOK /\ HostFits /\ api[a].at \notin {"clear", "conflict"}
  BY DEF IInv, EdgeInv, DaemonFits, HostOne
<1>3. ASSUME api[a].at \in {"spawn", "create"} PROVE host.by = NoLaunch /\ host.state = "none"
  BY <1>2, <1>3, RegisteredAlone, LaunchAssumption DEF HostOK, HostFits, DaemonFits, HostOne, Made
<1>4. ~StopsOld(a) /\ ~RemovesOld(a) /\ ~Conflicts(a) /\ ~ConflictOver(a) /\ ~ConflictTimesOut(a)
  BY <1>2, <1>3 DEF StopsOld, RemovesOld, Conflicts, ConflictOver, ConflictTimesOut
<1>5. CASE NoOld(a)
  <2>1. /\ api[a].at \in Raising /\ "create" \in Raising \ {"clear", "conflict"} /\ At1(a, "create")
        /\ UNCHANGED <<registry, caller, host, exits>>
    BY <1>5 DEF NoOld, Raising, JustMoves, Elsewhere, Aside
  <2>2. host.by # a BY <1>3, <1>5, LaunchAssumption DEF NoOld
  <2> QED BY <1>1, <2>1, <2>2, MoveAlone
<1>6. CASE Creates(a)
  <2> USE DEF DaemonFits
  <2>1. /\ api[a].at = "create" /\ host' = [by |-> a, state |-> "up"]
        /\ UNCHANGED <<registry, exits, caller>>
        /\ ApiOK /\ \A b \in Launches : /\ b # a => api'[b] = api[b]
                                        /\ api'[b].lowered = api[b].lowered
                                        /\ api'[b].shut = api[b].shut
        /\ api'[a].at = "health"
    BY <1>6 DEF Creates, At1, Elsewhere, Aside, IInv, EdgeInv, ApiOK, Api
  <2>2. registry = a /\ a \notin exits BY <2>1 DEF OneLaunch, HostOne
  <2>3. DownFits' BY <1>1, <2>1 DEF DownFits, GoingDown, Raisable, Raising
  <2>4. OneLaunch' BY <2>1 DEF OneLaunch
  <2>5. NoneBehind' BY <2>1 DEF NoneBehind
  <2>6. HostOne' BY <1>2, <2>1, <2>2 DEF HostOne, Made, HostOK
  <2> QED BY <2>3, <2>4, <2>5, <2>6
<1>7. CASE SpawnFails(a)
  <2>1. /\ api[a].at \in {"spawn", "create"} /\ Rejects(a) /\ UNCHANGED <<host, exits>>
    BY <1>2, <1>7 DEF SpawnFails, FailsBare
  <2>2. host.by # a BY <1>3, <2>1, LaunchAssumption
  <2> QED BY <1>1, <2>1, <2>2, RejectsAlone
<1> QED BY <1>4, <1>5, <1>6, <1>7 DEF Spawn

LEMMA HealthAlone ==
  ASSUME IInv, DaemonFits, NEW a \in Launches, Health(a)
  PROVE  DaemonFits'
<1>1. UNCHANGED <<mirror, caller, exits>> /\ api[a].at \in {"health", "fetch"}
  BY DEF Health, Preflight, FetchFails, FetchAnswered, JustMoves, Elsewhere, Aside
<1>2. {"health", "fetch", "fetched"} \subseteq (Raising \ {"clear", "conflict"}) \cap Made
  BY DEF Raising, Made
<1>3. ASSUME NEW pc \in {"health", "fetch", "fetched"}, At1(a, pc), UNCHANGED <<registry, host>>
      PROVE DaemonFits'
  BY <1>1, <1>2, <1>3, MoveAlone
<1>4. CASE Preflight(a) /\ (mirror.power = "off" \/ api[a].lowered)
  <2>1. ~api[a].lowered
    BY <1>1, <1>4, RegisteredAlone DEF Raising
  <2>2. ~Raisable BY <1>4, <2>1 DEF Raisable
  <2> QED BY <1>1, <1>4, <2>2, FailAlone DEF Preflight
<1>5. CASE Preflight(a) /\ ~(mirror.power = "off" \/ api[a].lowered)
  BY <1>3, <1>5 DEF Preflight
<1>6. CASE FetchFails(a) \/ FetchAnswered(a)
  BY <1>3, <1>6 DEF FetchFails, FetchAnswered, JustMoves
<1> QED BY <1>4, <1>5, <1>6 DEF Health

LEMMA ReadyAlone ==
  ASSUME IInv, DaemonFits, NEW a \in Launches, Ready(a)
  PROVE  DaemonFits'
<1> USE DEF DaemonFits
<1> DEFINE shut == api[a].shut
<1>1. api[a].at = "fetched" /\ registry = a /\ ~api[a].lowered /\ a # NoLaunch
  BY LaunchAssumption DEF Ready, OneLaunch, IInv, EdgeInv, RegisteredIsRaised
<1>2. /\ ApiOK /\ HostOK /\ HostFits /\ CallerOK
      /\ UNCHANGED <<mirror, exits>>
      /\ api' = [api EXCEPT ![a] = [at |-> "ready", lowered |-> shut, shut |-> FALSE]]
      /\ registry' = IF shut THEN NoLaunch ELSE registry
      /\ IF shut THEN Kill(a) ELSE UNCHANGED host
      /\ caller' = [c \in Callers |->
           IF caller[c].on # a \/ caller[c].at # "await" THEN caller[c]
           ELSE IF caller[c].behind
                THEN [caller[c] EXCEPT !.at = "lowering", !.behind = FALSE]
                ELSE Off(IF c = Warm THEN "none" ELSE "served")]
  <2>1. shut \in BOOLEAN BY DEF IInv, EdgeInv, ApiOK, Api
  <2> QED BY <1>1, <2>1 DEF Ready, IInv, EdgeInv
<1>3. shut => ~Raisable BY <1>1 DEF DownFits, GoingDown, Raising
<1>4. /\ shut \in BOOLEAN
      /\ \A b \in Launches : b # a => api'[b] = api[b]
      /\ api'[a].at = "ready" /\ (api'[a].lowered <=> shut)
  BY <1>2 DEF ApiOK, Api
<1> HIDE DEF shut
<1>5. DownFits' BY <1>2, <1>3, <1>4 DEF DownFits, GoingDown, Raisable, Raising
<1>6. OneLaunch' BY <1>1, <1>2, <1>4 DEF OneLaunch
<1>7. NoneBehind' BY <1>2 DEF NoneBehind, Off
<1>8. host'.by = host.by /\ (shut => host'.state # "up")
  BY <1>1, <1>2, KillKeeps DEF Kill, HostOne, HostOK
<1>9. /\ ~shut => host'.state = host.state
      /\ host'.state = "stopping" => host.state = "stopping" \/ (shut /\ host.by = a)
  BY <1>2 DEF Kill, HostOK
<1>10. host.state = "stopping" => host.by # a
  BY <1>1 DEF HostOne
<1>11. HostOne'
  BY <1>1, <1>2, <1>4, <1>8, <1>9, <1>10 DEF HostOne, HostOK, HostFits, Made, NoLaunch
<1> QED BY <1>5, <1>6, <1>7, <1>11

\* Only a launch that was lowered is told that its container is gone.
LEMMA ExitAlone ==
  ASSUME IInv, DaemonFits, NEW a \in Launches, ExitSeen(a)
  PROVE  /\ DaemonFits' /\ UNCHANGED <<registry, box>>
         /\ \A b \in Launches : api[b].at = "gone" => api'[b].at = "gone"
<1> USE DEF DaemonFits
<1>1. api[a].lowered /\ api[a].at \in {"ready", "failing", "gone"}
  BY DEF ExitSeen, HostOne
<1>2. /\ ApiOK /\ HostOK /\ HostFits
      /\ UNCHANGED <<mirror, registry, box, host, caller>> /\ exits' = exits \ {a} /\ a \in exits
      /\ \A b \in Launches : b # a => api'[b] = api[b]
      /\ api'[a] = IF api[a].at = "ready" THEN Unused ELSE [api[a] EXCEPT !.lowered = TRUE]
  BY <1>1 DEF ExitSeen, Unregister, Elsewhere, Aside, IInv, EdgeInv, ApiOK
<1>3. /\ api'[a].lowered
      /\ api[a].at = "gone" => api'[a].at = "gone"
      /\ api'[a].at \in {"failing", "gone"}
      /\ api'[a].at = "failing" => api[a].at = "failing"
  BY <1>1, <1>2 DEF Unused, ApiOK, Api
<1>4. DownFits' BY <1>2, <1>3 DEF DownFits, GoingDown, Raisable, Raising
<1>5. OneLaunch'
  <2>1. \A b \in Launches : /\ api'[b].at # "gone" => api'[b].at = api[b].at
                            /\ api[b].lowered => api'[b].lowered
    BY <1>2, <1>3
  <2> QED BY <1>2, <2>1 DEF OneLaunch
<1>6. NoneBehind' BY <1>2 DEF NoneBehind
<1>7. HostOne' BY <1>1, <1>2, <1>3 DEF HostOne, HostOK, HostFits, Made
<1> QED BY <1>2, <1>3, <1>4, <1>5, <1>6, <1>7

\* Launches and the callers that they serve.
LEMMA LaunchOnce ==
  ASSUME IInv, OnceInv, NEW a \in Launches, Launch(a), Once'
  PROVE  StreamFits' /\ DaemonFits'
<1>1. Once /\ events' >= events /\ events' \in Nat
  <2>1. Next BY DEF Next
  <2> QED BY <2>1, Counted DEF Once
<1>2. StreamFits /\ DaemonFits BY <1>1 DEF OnceInv
<1>3. DaemonFits' /\ (Still => Still')
  <2>1. CASE api[a].at \in Raising \cup {"failing"} /\ ~ExitSeen(a)
    <3>1. ~Still BY <2>1 DEF Still, Raising
    <3>2. CASE Ready(a) BY <1>2, <3>1, <3>2, ReadyAlone
    <3>3. CASE FailDone(a)
      <4>1. api[a].at # "gone" /\ host.by # a /\ Rejects(a) /\ UNCHANGED <<mirror, host, exits>>
        BY <3>3 DEF FailDone
      <4> QED BY <1>2, <3>1, <4>1, RejectsAlone
    <3> QED BY <1>2, <2>1, <3>1, <3>2, <3>3, SpawnAlone, HealthAlone DEF Launch
  <2>2. CASE ExitSeen(a)
    <3>1. DaemonFits' BY <1>2, <2>2, ExitAlone
    <3>2. /\ UNCHANGED <<record, stream, loose, faults, registry, box>>
          /\ \A b \in Launches : api[b].at = "gone" => api'[b].at = "gone"
      BY <1>2, <2>2, ExitAlone DEF ExitSeen, Elsewhere, Aside
    <3> QED BY <3>1, <3>2 DEF Still, Unwritten, Places, IsInstance
  <2>3. api[a].at \in Raising \cup {"failing"} \/ ExitSeen(a)
    BY DEF Launch, Spawn, StopsOld, NoOld, RemovesOld, Creates, Conflicts, ConflictOver,
           ConflictTimesOut, SpawnFails, Health, Preflight, FetchFails, FetchAnswered, Ready, FailDone,
           Raising
  <2> QED BY <2>1, <2>2, <2>3
<1>4. UNCHANGED <<record, stream, mirror, locked, faults>>
  BY DEF Launch, Spawn, StopsOld, NoOld, RemovesOld, Creates, Conflicts, ConflictOver,
         ConflictTimesOut, SpawnFails, FailsBare, Health, Preflight, FetchFails, FetchAnswered, Ready,
         FailDone, ExitSeen, JustMoves, Elsewhere, Aside
<1>5. ASSUME NEW c \in Callers, caller'[c].at = "locked" PROVE caller[c].at = "locked"
  <2>1. UNCHANGED caller \/ Rejects(a) \/ Ready(a)
    BY DEF Launch, Spawn, StopsOld, NoOld, RemovesOld, Creates, Conflicts, ConflictOver,
           ConflictTimesOut, SpawnFails, FailsBare, Health, Preflight, FetchFails, FetchAnswered,
           FailDone, ExitSeen, JustMoves, Elsewhere, Aside
  <2>2. CASE UNCHANGED caller BY <1>5, <2>2
  <2>3. CASE Rejects(a) BY <1>5, <2>3 DEF Rejects, Off
  <2>4. CASE Ready(a)
    <3>1. caller[c] \in Caller BY DEF IInv, EdgeInv, CallerOK
    <3>2. [caller[c] EXCEPT !.at = "lowering", !.behind = FALSE].at = "lowering"
      BY <3>1 DEF Caller
    <3>3. \/ caller'[c] = caller[c]
          \/ caller'[c] = [caller[c] EXCEPT !.at = "lowering", !.behind = FALSE]
          \/ caller'[c] \in {Off("none"), Off("served")}
      BY <2>4 DEF Ready
    <3>4. Off("none").at = "none" /\ Off("served").at = "served" BY DEF Off
    <3> QED BY ONLY <1>5, <3>2, <3>3, <3>4
  <2> QED BY <2>1, <2>2, <2>3, <2>4
<1> QED BY <1>1, <1>2, <1>3, <1>4, <1>5, StreamKept

\* Requests.
LEMMA RequestOnce ==
  ASSUME IInv, OnceInv, NEW r \in Requests, Request(r), Once'
  PROVE  StreamFits' /\ DaemonFits'
<1>1. UNCHANGED <<record, stream, mirror, loose, host, exits, locked, events, faults>>
  BY DEF Request, Arrive, LockWaitOver
<1>2. events' >= events /\ events' \in Nat
  BY <1>1, BoundAssumption DEF IInv, DataOK, FlagsOK
<1>3. Once /\ StreamFits /\ DaemonFits BY <1>1 DEF OnceInv, Once
<1>4. r \in Callers BY DEF Callers
<1>5. CallerOK BY DEF IInv, EdgeInv
<1>6. ASSUME UNCHANGED <<registry, api, box>>, NEW pc \in {"locked", "failed"},
             caller' = [caller EXCEPT ![r] = Off(pc)], pc = "locked" => locked /\ Raisable
      PROVE StreamFits' /\ DaemonFits'
  <2>1. \A c \in Callers : \/ caller'[c] = caller[c]
                           \/ caller'[c] = Off(pc)
    BY <1>5, <1>6 DEF CallerOK
  <2>2. \A c \in Callers : caller'[c].at = "locked" =>
          caller[c].at = "locked" \/ (locked /\ Raisable)
    BY <1>6, <2>1 DEF Off
  <2>3. Still' = Still BY <1>1, <1>6 DEF Still, Unwritten, Places, IsInstance
  <2>4. NoneBehind' BY <1>3, <1>6, <2>1 DEF DaemonFits, NoneBehind, Off
  <2>5. DaemonFits'
    BY <1>1, <1>3, <1>6, <2>4 DEF DaemonFits, DownFits, GoingDown, Raisable, OneLaunch, HostOne
  <2> QED BY <1>1, <1>2, <1>3, <2>2, <2>3, <2>5, StreamKept
<1>7. ASSUME Raisable, Enter(r) PROVE StreamFits' /\ DaemonFits'
  <2>1. DaemonFits' BY <1>1, <1>3, <1>4, <1>7, EnterAlone
  <2>2. \A c \in Callers : caller'[c].at = "locked" => caller[c].at = "locked"
    BY <1>4, <1>5, <1>7 DEF CallerOK, Enter, LaunchBy, Off
  <2> QED BY <1>1, <1>2, <1>3, <1>7, <2>1, <2>2, StreamKept
<1>8. CASE Arrive(r)
  BY <1>6, <1>7, <1>8 DEF Arrive, Raisable
<1>9. CASE LockWaitOver(r)
  <2>1. Raisable BY <1>3, <1>4, <1>9 DEF LockWaitOver, StreamFits, LockFits
  <2> QED BY <1>6, <1>7, <1>9, <2>1 DEF LockWaitOver
<1> QED BY <1>8, <1>9 DEF Request

\* The clock, Docker and the vacuum.
LEMMA OutsideOnce ==
  ASSUME IInv, OnceInv, CooldownOver \/ Docker \/ Vacuum, Once'
  PROVE  StreamFits' /\ DaemonFits'
<1>1. Once /\ events' >= events /\ {events, events'} \subseteq Nat
  <2>1. Next BY DEF Next
  <2> QED BY <2>1, Counted DEF Once
<1>2. StreamFits /\ DaemonFits BY <1>1 DEF OnceInv
<1>3. UNCHANGED <<record, stream, mirror, registry, api, box, caller, faults>>
  BY DEF CooldownOver, Docker, ContainerStops, ContainerCrashes, Vanish, Aside, Vacuum, VacuumLocks,
         VacuumUnlocks, daemon
<1>4. CASE CooldownOver
  <2>1. UNCHANGED <<loose, host, exits, locked>> BY <1>4 DEF CooldownOver
  <2>2. Still' = Still BY <1>3, <2>1 DEF Still, Unwritten, Places, IsInstance
  <2>3. DaemonFits' BY <1>2, <1>3, <2>1, DaemonSame DEF Raisable
  <2> QED BY <1>1, <1>2, <1>3, <2>1, <2>2, <2>3, StreamKept
<1>5. CASE Docker
  <2>1. ContainerStops BY <1>1, <1>5 DEF Docker, ContainerCrashes, Once
  <2>2. /\ host.state = "stopping" /\ exits' = exits \cup {host.by} /\ host' = NoBox
        /\ UNCHANGED <<loose, locked>>
    BY <2>1 DEF ContainerStops, Vanish, Aside
  <2>3. host.by \in Launches BY <2>2 DEF IInv, EdgeInv, HostOK, HostFits
  <2>4. api[host.by].at \in Made /\ api[host.by].lowered
    BY <1>2, <2>2, <2>3, LaunchAssumption DEF DaemonFits, HostOne
  <2>5. api[host.by].at \in {"ready", "failing"}
    BY <2>3, <2>4, RegisteredAlone, <1>2 DEF Made, Raising
  <2>6. HostOne' BY <1>2, <1>3, <2>2, <2>4, <2>5 DEF DaemonFits, HostOne, NoBox
  <2>7. DaemonFits'
    BY <1>2, <1>3, <2>6 DEF DaemonFits, DownFits, GoingDown, Raisable, OneLaunch, NoneBehind
  <2>8. Still' = Still BY <1>3, <2>2 DEF Still, Unwritten, Places, IsInstance
  <2> QED BY <1>1, <1>2, <1>3, <2>2, <2>7, <2>8, StreamKept
<1>6. CASE VacuumUnlocks
  <2>1. locked /\ locked' = FALSE /\ UNCHANGED <<host, exits, events>> BY <1>6 DEF VacuumUnlocks
  <2>2. faults # {} BY <1>2, <2>1 DEF StreamFits, LockFits
  <2>3. Still => Still' BY <1>3, <2>2 DEF Still
  <2>4. DaemonFits' BY <1>2, <1>3, <2>1, DaemonSame DEF Raisable
  <2> QED BY <1>1, <1>2, <1>3, <2>1, <2>3, <2>4, StreamKept
<1>7. CASE VacuumLocks
  <2> USE DEF StreamFits
  <2>1. /\ faults # {} /\ events = 0 /\ events' = 1 /\ locked' = TRUE
        /\ UNCHANGED <<host, exits>>
    BY <1>1, <1>7 DEF VacuumLocks, Happens, Once
  <2>2. DaemonFits' BY <1>2, <1>3, <2>1, DaemonSame DEF Raisable
  <2>3. UNCHANGED <<Places, Clean, Raisable>> /\ \A i : IsInstance(i)' = IsInstance(i)
    BY <1>3 DEF Places, Clean, Raisable, IsInstance
  <2>4. Clean' BY <1>2, <2>1, <2>3 DEF CleanFits
  <2>5. Still' = Still BY <1>3, <2>1 DEF Still
  <2>6. OwnerFits' /\ Settles' /\ OneOther' /\ PowerOnce'
    BY <1>2, <1>3, <2>1, <2>3, <2>5 DEF OwnerFits, Settles, OneOther, PowerOnce, Fresh
  <2>7. CleanFits' /\ LockFits'
    BY <1>2, <1>3, <2>1, <2>4 DEF CleanFits, LockFits
  <2> QED BY <2>2, <2>6, <2>7
<1> QED BY <1>4, <1>5, <1>6, <1>7 DEF Vacuum

\* The listener takes an instance event: the mirror follows the record.
LEMMA HeardFits ==
  ASSUME IInv, StreamFits, NEW q \in Power,
         Received("instance"), Head(stream)[2] = q, mirror' = [mirror EXCEPT !.power = q],
         UNCHANGED <<record, locked, events, faults>>,
         \A c \in Callers : caller'[c].at = "locked" => caller[c].at = "locked",
         Still => Still' \/ q = "on"
  PROVE  /\ StreamFits'
         /\ q # "on" \/ Still \/ mirror.power = "on"
<1> USE DEF StreamFits
<1>1. /\ StreamOK /\ stream # <<>> /\ stream' = Tail(stream) /\ 1 \in Places
      /\ stream[1][1] = "instance" /\ stream[1][2] = q
      /\ \A i \in Places' : i + 1 \in Places /\ 1 < i + 1 /\ stream'[i] = stream[i + 1] /\ i \in Nat
  BY TailPlaces DEF Received, IInv, DataOK
<1>2. mirror'.power = q /\ mirror'.owner = mirror.owner /\ mirror.power \in Power
  BY DEF IInv, DataOK, MirrorOK
<1>3. \A i, j \in Places' : i < j => i + 1 < j + 1 BY <1>1
<1>4. OwnerFits' BY <1>1, <1>2 DEF OwnerFits
<1>5. Clean => Clean'
  <2>1. IsInstance(1) BY <1>1 DEF IsInstance
  <2>2. \A i \in Places' : IsInstance(i)' => IsInstance(i + 1) /\ stream'[i][2] = stream[i + 1][2]
    BY <1>1 DEF IsInstance
  <2> QED BY <1>1, <1>2, <2>1, <2>2 DEF Clean
<1>6. CleanFits' BY <1>1, <1>5 DEF CleanFits, Clean, IsInstance
<1>7. Settles' BY <1>1, <1>3 DEF Settles, IsInstance
<1>8. OneOther'
  <2> SUFFICES ASSUME NEW i \in Places', NEW j \in Places', IsInstance(i)', IsInstance(j)',
                      stream'[i][2] # record.power, stream'[j][2] # record.power
               PROVE  stream'[i][2] = stream'[j][2]
    BY DEF OneOther
  <2>1. i + 1 \in Places /\ j + 1 \in Places /\ IsInstance(i + 1) /\ IsInstance(j + 1)
    BY <1>1 DEF IsInstance
  <2>2. stream'[i] = stream[i + 1] /\ stream'[j] = stream[j + 1] BY <1>1
  <2> QED BY <2>1, <2>2 DEF OneOther
<1>9. ASSUME NEW i \in Places', IsInstance(i)' PROVE stream'[i][2] \in {q, record.power}
  <2>1. IsInstance(1) /\ IsInstance(i + 1) BY <1>1, <1>9 DEF IsInstance
  <2>2. CASE q = record.power BY <1>1, <2>1, <2>2 DEF Settles
  <2>3. CASE q # record.power BY <1>1, <2>1, <2>3 DEF OneOther
  <2> QED BY <2>2, <2>3
<1>10. q \in {mirror.power, record.power} \/ Still BY <1>1 DEF PowerOnce, Fresh, IsInstance
<1>11. PowerOnce'
  <2>1. CASE q \in {"on", record.power} BY <1>2, <1>9, <2>1 DEF PowerOnce
  <2>2. CASE q \notin {"on", record.power}
    <3>1. Still BY <1>1, <2>2 DEF PowerOnce, Fresh, IsInstance
    <3> QED BY <1>2, <2>2, <3>1 DEF PowerOnce, Fresh
  <2> QED BY <2>1, <2>2
<1>12. LockFits'
  <2>1. Clean /\ Raisable => Raisable'
    BY <1>1, <1>2 DEF Clean, Raisable, IsInstance, IInv, DataOK, MirrorOK
  <2> QED BY <1>5, <2>1 DEF LockFits
<1>13. q # "on" \/ Still \/ mirror.power = "on"
  BY <1>1 DEF PowerOnce, Fresh, IsInstance
<1> QED BY <1>4, <1>6, <1>7, <1>8, <1>11, <1>12, <1>13

\* The listener takes an owner event: it comes once, and forbids.
LEMMA OwnerHeardFits ==
  ASSUME IInv, StreamFits, Received("owner"), mirror' = [mirror EXCEPT !.owner = FALSE],
         UNCHANGED <<record, locked, events, faults, caller>>, Still => Still'
  PROVE  StreamFits'
<1> USE DEF StreamFits
<1>1. /\ StreamOK /\ stream # <<>> /\ stream' = Tail(stream) /\ 1 \in Places
      /\ stream[1][1] = "owner"
      /\ \A i \in Places' : i + 1 \in Places /\ 1 < i + 1 /\ stream'[i] = stream[i + 1] /\ i \in Nat
  BY TailPlaces DEF Received, IInv, DataOK
<1>2. mirror'.power = mirror.power BY DEF IInv, DataOK, MirrorOK
<1>3. \A i, j \in Places' : i < j => i + 1 < j + 1 BY <1>1
<1>4. ~record.owner BY <1>1 DEF OwnerFits
<1>5. OwnerFits' BY <1>1, <1>4 DEF OwnerFits
<1>6. CleanFits' /\ LockFits' BY <1>4 DEF CleanFits, LockFits, Clean
<1>7. Settles' BY <1>1, <1>3 DEF Settles, IsInstance
<1>8. OneOther'
  <2> SUFFICES ASSUME NEW i \in Places', NEW j \in Places', IsInstance(i)', IsInstance(j)',
                      stream'[i][2] # record.power, stream'[j][2] # record.power
               PROVE  stream'[i][2] = stream'[j][2]
    BY DEF OneOther
  <2>1. i + 1 \in Places /\ j + 1 \in Places /\ IsInstance(i + 1) /\ IsInstance(j + 1)
    BY <1>1 DEF IsInstance
  <2>2. stream'[i] = stream[i + 1] /\ stream'[j] = stream[j + 1] BY <1>1
  <2> QED BY <2>1, <2>2 DEF OneOther
<1>9. PowerOnce' BY <1>1, <1>2 DEF PowerOnce, Fresh, IsInstance
<1> QED BY <1>5, <1>6, <1>7, <1>8, <1>9

\* The mirror's listener: it raises the instance once, and takes it down once.
LEMMA ListenerOnce ==
  ASSUME IInv, OnceInv, Listener, Once'
  PROVE  StreamFits' /\ DaemonFits'
<1>1. UNCHANGED <<record, exits, locked, events, faults>>
  BY DEF Listener, HearsPowerOn, HearsPowerOff, HearsDeleted, HearsOwnerBad, HearsOwnerOk
<1>2. Once /\ StreamFits /\ DaemonFits BY <1>1 DEF OnceInv, Once
<1>3. stream # <<>> /\ stream' = Tail(stream) /\ StreamOK
  BY DEF Listener, HearsPowerOn, HearsPowerOff, HearsDeleted, HearsOwnerBad, HearsOwnerOk, Received,
         IInv, DataOK
<1>4. MirrorOK /\ CallerOK BY DEF IInv, DataOK, EdgeInv
<1>5. 1 \in Places /\ Head(stream) = stream[1]
  BY <1>3, TailPlaces
<1>6. \A i \in Places' : i + 1 \in Places /\ stream'[i] = stream[i + 1]
  BY <1>3, TailPlaces
<1>7. ~HearsOwnerOk BY <1>2, <1>5 DEF HearsOwnerOk, Received, StreamFits, OwnerFits
<1>8. ASSUME ShutRegistered, ~Raisable', UNCHANGED caller PROVE DaemonFits'
  BY <1>1, <1>2, <1>8, ShutAlone
<1>9. ASSUME Still, UNCHANGED <<registry, api, box>>, faults # {} \/ UNCHANGED loose PROVE Still'
  BY <1>1, <1>6, <1>9 DEF Still, Unwritten, IsInstance
<1>10. ShutRegistered /\ Still => UNCHANGED <<registry, api, box, host>>
  BY DEF ShutRegistered, Shutdown, Still
<1>11. CASE HearsPowerOn
  <2>1. /\ Received("instance") /\ Head(stream)[2] = "on" /\ "on" \in Power
        /\ mirror' = [mirror EXCEPT !.power = "on"] /\ WarmUp(mirror') /\ UNCHANGED host
    BY <1>11 DEF HearsPowerOn, Power
  <2>2. \A c \in Callers : caller'[c].at = "locked" => caller[c].at = "locked"
    BY <1>4, <2>1 DEF WarmUp, LaunchBy, CallerOK
  <2>3. StreamFits' /\ (Still \/ mirror.power = "on") BY <1>1, <1>2, <2>1, <2>2, HeardFits
  <2>4. /\ Raisable' = (mirror.owner = TRUE)
        /\ mirror.power = "on" => mirror' = mirror
    BY <1>4, <2>1 DEF MirrorOK, Raisable
  <2>5. DownFits /\ (Still => \A a \in Launches : ~GoingDown(a))
    BY <1>2 DEF DaemonFits, Still, GoingDown, Raising
  <2>6. CASE LaunchBy(Warm) /\ Raisable' /\ registry = NoLaunch
    <3>1. \A a \in Launches : api[a].at = "gone"
      BY <1>2, <2>3, <2>4, <2>5, <2>6, RegisteredAlone, LaunchAssumption DEF Still, DownFits, Raisable
    <3>2. Warm \in Callers BY DEF Callers
    <3> QED BY <1>1, <1>2, <2>1, <2>3, <2>6, <3>1, <3>2, LaunchAlone
  <2>7. CASE UNCHANGED <<registry, api, box, caller>>
    <3>1. DownFits' BY <2>3, <2>4, <2>5, <2>7 DEF DownFits, GoingDown, Raisable, Still, Raising
    <3> QED BY <1>1, <1>2, <2>1, <2>3, <2>7, <3>1 DEF DaemonFits, OneLaunch, NoneBehind, HostOne
  <2>8. WarmUp(mirror') => \/ LaunchBy(Warm) /\ Raisable' /\ registry = NoLaunch
                           \/ UNCHANGED <<registry, api, box, caller>>
    BY <1>4, <2>1 DEF WarmUp, Raisable, MirrorOK
  <2> QED BY <2>1, <2>6, <2>7, <2>8
<1>12. CASE HearsPowerOff
  <2>1. /\ Received("instance") /\ Head(stream)[2] = "off" /\ "off" \in Power
        /\ mirror' = [mirror EXCEPT !.power = "off"] /\ UNCHANGED caller
    BY <1>12 DEF HearsPowerOff, Power
  <2>2. ~Raisable' BY <1>4, <2>1 DEF MirrorOK, Raisable
  <2>3. \/ ShutRegistered /\ UNCHANGED loose
        \/ UNCHANGED <<registry, api, box, host, loose>> /\ Head(stream)[3] = "idle"
        \/ UNCHANGED <<registry, api, box, host>> /\ Head(stream)[3] # "idle"
    BY <1>12 DEF HearsPowerOff
  <2>4. DaemonFits' BY <1>1, <1>2, <1>8, <2>1, <2>2, <2>3, DaemonSame
  <2>5. Head(stream)[3] # "idle" /\ Still => faults # {}
    BY <1>5, <2>1 DEF Still, Unwritten, IsInstance, Received
  <2>6. Still => Still' BY <1>9, <1>10, <2>3, <2>5
  <2> QED BY <1>1, <1>2, <2>1, <2>4, <2>6, HeardFits
<1>13. CASE HearsDeleted
  <2>1. /\ Received("instance") /\ Head(stream)[2] = "gone" /\ "gone" \in Power
        /\ mirror' = [mirror EXCEPT !.power = "gone"] /\ UNCHANGED <<caller, loose>>
        /\ ShutRegistered
    BY <1>13 DEF HearsDeleted, Power
  <2>2. ~Raisable' BY <1>4, <2>1 DEF MirrorOK, Raisable
  <2>3. DaemonFits' BY <1>8, <2>1, <2>2
  <2>4. Still => Still' BY <1>9, <1>10, <2>1
  <2> QED BY <1>1, <1>2, <2>1, <2>3, <2>4, HeardFits
<1>14. CASE HearsOwnerBad
  <2>1. /\ Received("owner") /\ mirror' = [mirror EXCEPT !.owner = FALSE]
        /\ UNCHANGED <<caller, loose>>
        /\ ShutRegistered \/ UNCHANGED <<registry, api, box, host>>
    BY <1>14 DEF HearsOwnerBad
  <2>2. ~Raisable' BY <1>4, <2>1 DEF MirrorOK, Raisable
  <2>3. DaemonFits' BY <1>1, <1>2, <1>8, <2>1, <2>2, DaemonSame
  <2>4. Still => Still' BY <1>9, <1>10, <2>1
  <2> QED BY <1>1, <1>2, <2>1, <2>3, <2>4, OwnerHeardFits
<1> QED BY <1>7, <1>11, <1>12, <1>13, <1>14 DEF Listener

\* Nobody has done anything yet.
LEMMA InitOnce == Init => OnceInv
<1> SUFFICES ASSUME Init PROVE StreamFits /\ DaemonFits
  BY DEF OnceInv
<1>1. \A a \in Launches : api[a] = Unused BY DEF Init
<1>2. \A c \in Callers : caller[c] = Off("none") BY DEF Init
<1>3. /\ record \in [power : {"on", "off"}, status : {"idle"}, owner : {TRUE}]
      /\ mirror \in [power : {"gone", record.power}, owner : {TRUE}] /\ mirror.power # "on"
      /\ \A i \in Places : stream[i] = <<"instance", record.power, "idle">>
  <2>1. CASE /\ record = [power |-> "on", status |-> "idle", owner |-> TRUE]
             /\ stream = <<<<"instance", "on", "idle">>>>
             /\ mirror = [power |-> "gone", owner |-> TRUE]
    <3>1. Places = {1} BY <2>1 DEF Places
    <3> QED BY <2>1, <3>1
  <2>2. CASE /\ record = [power |-> "off", status |-> "idle", owner |-> TRUE]
             /\ stream = <<>>
             /\ mirror = [power |-> "off", owner |-> TRUE]
    <3>1. Places = {} BY <2>2 DEF Places
    <3> QED BY <2>2, <3>1
  <2> QED BY <2>1, <2>2 DEF Init
<1>4. DaemonFits
  BY <1>1, <1>2 DEF Init, DaemonFits, DownFits, GoingDown, OneLaunch, NoneBehind, HostOne, Unused, Off,
     NoBox, Raising
<1>5. Still /\ Clean
  BY <1>1, <1>3 DEF Init, Still, Unwritten, Unused, Clean, IsInstance
<1>6. OwnerFits /\ CleanFits
  <2>1. \A i \in Places : stream[i][1] = "instance" BY <1>3
  <2>2. mirror.owner /\ record.owner BY <1>3
  <2> QED BY <1>5, <2>1, <2>2 DEF OwnerFits, CleanFits
<1>7. Settles /\ OneOther BY <1>3 DEF Settles, OneOther
<1>8. PowerOnce BY <1>3, <1>5 DEF PowerOnce, Fresh
<1>9. LockFits BY <1>2 DEF Init, LockFits, Off
<1> QED BY <1>4, <1>6, <1>7, <1>8, <1>9 DEF StreamFits

\* Every step keeps the invariant.
LEMMA OnceStep == ASSUME IInv, OnceInv, [Next]_vars PROVE OnceInv'
<1>1. CASE UNCHANGED vars
  <2>1. UNCHANGED Once BY <1>1 DEF Once, vars
  <2>2. StreamFits /\ Once => StreamFits'
    <3>1. events' >= events /\ events' \in Nat
      BY <1>1, BoundAssumption DEF IInv, DataOK, FlagsOK, vars
    <3>2. UNCHANGED Still BY <1>1 DEF Still, Unwritten, Places, IsInstance, vars
    <3> QED BY <1>1, <3>1, <3>2, StreamKept DEF vars
  <2>3. DaemonFits => DaemonFits' BY <1>1, DaemonSame DEF vars, Raisable
  <2> QED BY <2>1, <2>2, <2>3 DEF OnceInv
<1>2. CASE Next
  <2> SUFFICES ASSUME Once' PROVE StreamFits' /\ DaemonFits'
    BY DEF OnceInv
  <2>1. DaemonFits BY <1>2, Counted DEF OnceInv
  <2>2. \A c \in Callers : ~AfterLowered(c) BY <2>1 DEF AfterLowered, DaemonFits, NoneBehind
  <2> QED BY <1>2, <2>2, UsersOnce, WritesOnce, ListenerOnce, OutsideOnce, LaunchOnce, RequestOnce
          DEF Next
<1> QED BY <1>1, <1>2

THEOREM OnceInvariant == Spec => []OnceInv
<1>1. IInv /\ OnceInv /\ [Next]_vars => OnceInv' BY OnceStep
<1> QED BY InitOnce, <1>1, Invariant, PTL DEF Spec

\* After one edit, refused launch, lost write or vacuum, when all is quiet, the
\* container that is up is the one that the registered launch made, however the
\* event, the launch and the requests crossed.
THEOREM OneDisturbanceLeavesNoOrphan == Spec => [](events <= 1 => NoOrphan)
<1>1. IInv /\ OnceInv => (events <= 1 => NoOrphan)
  BY DEF OnceInv, Once, NoOrphan, DaemonFits, HostOne
<1> QED BY <1>1, Invariant, OnceInvariant, PTL

-----------------------------------------------------------------------------
(***************************************************************************)
(* The status, when no write is lost.  Each launch writes from a queue of   *)
(* its own and the listener writes beside them; they do not overtake one    *)
(* another because only one queue is ever filled, a launch that is taken     *)
(* out of the registry writes idle last, and nobody launches after it.      *)
(***************************************************************************)
Latest(s) == s[Len(s)]

Written(status) == record.power = "gone" \/ record.status = status

(* Whoever is not registered has idle to say, or has said it.               *)
QueuesFit ==
  /\ \A a, b \in Launches : box[a] # <<>> /\ box[b] # <<>> => a = b
  /\ \A a \in Launches : box[a] # <<>> /\ registry # a => Latest(box[a]) = "idle"
  /\ loose \subseteq {"idle"}
  /\ registry = NoLaunch /\ (\A a \in Launches : box[a] = <<>>) => Written("idle")

(* The registered launch writes alone, and running once it is ready.        *)
RegisteredFits ==
  registry # NoLaunch =>
    /\ loose = {}
    /\ \A a \in Launches \ {registry} : box[a] = <<>>
    /\ api[registry].at = "ready" =>
         IF box[registry] = <<>> THEN Written("running") ELSE Latest(box[registry]) = "running"

LastLaunch == Still \/ registry # NoLaunch \/ ~Raisable

WriteFits == LastLaunch /\ QueuesFit /\ RegisteredFits

WriteInv == Once /\ faults = {} => WriteFits

\* The last of a queue that grows, and of one that shrinks.
LEMMA LatestAdded ==
  ASSUME NEW s \in Seq(Status), NEW x \in Status
  PROVE  Append(s, x) # <<>> /\ Latest(Append(s, x)) = x
BY DEF Latest

LEMMA LatestOfTwo ==
  ASSUME NEW s \in Seq(Status), NEW x \in Status, NEW y \in Status
  PROVE  /\ s \o <<x>> # <<>> /\ Latest(s \o <<x>>) = x
         /\ s \o <<x, y>> # <<>> /\ Latest(s \o <<x, y>>) = y
BY DEF Latest

LEMMA LatestLeft ==
  ASSUME NEW s \in Seq(Status), s # <<>>
  PROVE  /\ Tail(s) # <<>> => Latest(Tail(s)) = Latest(s)
         /\ Tail(s) = <<>> => Head(s) = Latest(s)
<1>1. Len(s) \in Nat \ {0} /\ Len(Tail(s)) = Len(s) - 1 /\ Head(s) = s[1]
  OBVIOUS
<1>2. \A i \in 1..Len(Tail(s)) : Tail(s)[i] = s[i + 1]
  OBVIOUS
<1> DEFINE t == Tail(s)
<1>3. t \in Seq(Status) /\ (t = <<>> <=> Len(t) = 0)
  <2>1. t \in Seq(Status) OBVIOUS
  <2> HIDE DEF t
  <2> QED BY <2>1
<1>4. CASE Len(s) = 1
  <2>1. Len(Tail(s)) = 0 BY <1>1, <1>4
  <2>2. Tail(s) = <<>> BY <1>3, <2>1
  <2> QED BY <1>1, <1>4, <2>2 DEF Latest
<1>5. CASE Len(s) # 1
  <2>1. Len(Tail(s)) \in 1..Len(Tail(s)) /\ Len(Tail(s)) + 1 = Len(s) BY <1>1, <1>5
  <2>2. Tail(s) # <<>> BY <1>3, <2>1
  <2> QED BY <1>2, <2>1, <2>2 DEF Latest
<1> QED BY <1>4, <1>5

\* Neither the record nor the writes nor the registry changes.
LEMMA WriteSame ==
  ASSUME WriteFits, UNCHANGED <<record, box, loose, registry>>,
         Still => Still', Raisable' => Raisable,
         registry # NoLaunch /\ api'[registry].at = "ready" => api[registry].at = "ready"
  PROVE  WriteFits'
<1>1. LastLaunch' BY DEF WriteFits, LastLaunch
<1>2. QueuesFit' BY DEF WriteFits, QueuesFit, Written
<1>3. RegisteredFits' BY DEF WriteFits, RegisteredFits, Written
<1> QED BY <1>1, <1>2, <1>3 DEF WriteFits

\* The registered launch leaves the registry, and idle is the last that it writes.
LEMMA LastWrites ==
  ASSUME IInv, WriteFits, NEW a \in Launches, registry = a, registry' = NoLaunch, ~Raisable',
         NEW s \in Seq(Status), s # <<>>, Latest(s) = "idle", box' = [box EXCEPT ![a] = s],
         UNCHANGED <<record, loose>>
  PROVE  WriteFits'
<1>1. BoxOK /\ a # NoLaunch BY LaunchAssumption DEF IInv, DataOK
<1>2. box'[a] = s /\ \A b \in Launches : b # a => box'[b] = <<>>
  BY <1>1 DEF BoxOK, WriteFits, RegisteredFits
<1>3. QueuesFit' BY <1>1, <1>2 DEF WriteFits, QueuesFit, Written, RegisteredFits
<1> QED BY <1>3 DEF WriteFits, LastLaunch, RegisteredFits

\* A launch where nothing was written.
LEMMA LaunchWrites ==
  ASSUME IInv, WriteFits, faults = {}, Still, NEW c \in Callers, LaunchBy(c),
         UNCHANGED <<record, loose>>
  PROVE  WriteFits'
<1>1. PICK a \in Free(c) :
        /\ registry' = a
        /\ api' = [api EXCEPT ![a] = [at |-> "spawn", lowered |-> FALSE, shut |-> FALSE]]
        /\ Send(a, "starting")
  BY DEF LaunchBy
<1>2. a \in Launches /\ a # NoLaunch /\ api'[a].at = "spawn"
  BY <1>1, LaunchAssumption DEF Free, IInv, EdgeInv, ApiOK
<1>3. \A b \in Launches : b # a => box'[b] = <<>>
  BY <1>1 DEF Still, Unwritten, Send, IInv, DataOK, BoxOK
<1>4. QueuesFit' BY <1>1, <1>2, <1>3 DEF WriteFits, QueuesFit
<1>5. RegisteredFits' BY <1>1, <1>2, <1>3 DEF RegisteredFits, Still, Unwritten
<1> QED BY <1>1, <1>2, <1>4, <1>5 DEF WriteFits, LastLaunch

\* shutdownRunningInstance: a launch that is up writes idle.
LEMMA ShutWrites ==
  ASSUME IInv, WriteFits, ShutRegistered, ~Raisable', UNCHANGED <<record, loose>>
  PROVE  WriteFits'
<1>1. CASE registry = NoLaunch
  <2>1. UNCHANGED <<registry, api, box>> BY <1>1 DEF ShutRegistered, Shutdown
  <2> QED BY <1>1, <2>1 DEF WriteFits, LastLaunch, QueuesFit, RegisteredFits, Written
<1>2. registry # NoLaunch => registry \in Launches /\ ApiOK /\ ~api[registry].lowered
                             /\ box \in [Launches -> Seq(Status)]
  BY DEF IInv, EdgeInv, ApiOK, RegisteredIsRaised, DataOK, BoxOK
<1>3. CASE registry # NoLaunch /\ Shutdown(registry)
  <2> DEFINE s == Append(box[registry], "idle")
  <2>1. registry' = NoLaunch /\ box' = [box EXCEPT ![registry] = s]
    BY <1>2, <1>3 DEF Shutdown, Unregister, Send
  <2>2. s \in Seq(Status) /\ s # <<>> /\ Latest(s) = "idle"
    BY <1>2, <1>3, LatestAdded DEF Status
  <2> HIDE DEF s
  <2> QED BY <1>2, <1>3, <2>1, <2>2, LastWrites
<1>4. CASE /\ registry # NoLaunch
           /\ api' = [api EXCEPT ![registry].shut = TRUE]
           /\ UNCHANGED <<registry, box, host>>
  <2>1. api'[registry].at = api[registry].at BY <1>2, <1>4 DEF ApiOK, Api
  <2>2. QueuesFit' /\ RegisteredFits' 
    BY <1>4, <2>1 DEF WriteFits, QueuesFit, RegisteredFits, Written
  <2> QED BY <2>2 DEF WriteFits, LastLaunch
<1> QED BY <1>1, <1>3, <1>4 DEF ShutRegistered

\* Users: an edit changes no status.
LEMMA UsersWrite ==
  ASSUME IInv, WriteFits, Users
  PROVE  WriteFits'
<1>1. RecordOK /\ StreamOK BY DEF IInv, DataOK
<1>2. UNCHANGED <<mirror, registry, api, box, loose, faults>>
  BY DEF Users, UserPower, UserDelete, OwnerChange, daemon
<1>3. record.power # "gone" \/ record'.power = "gone"
  BY <1>1 DEF Users, UserPower, UserDelete, OwnerChange, RecordOK
<1>4. record'.status = record.status
  BY <1>1 DEF Users, UserPower, UserDelete, OwnerChange, RecordOK
<1>5. \E e \in Event : Emit(e) /\ (e[1] = "instance" => e[3] = record.status)
  <2>1. ASSUME NEW p \in Power, NEW s \in Status
        PROVE <<"instance", p, s>> \in Event /\ <<"instance", p, s>>[3] = s
    BY InstanceEvents
  <2>2. ASSUME NEW ok \in BOOLEAN
        PROVE <<"owner", ok>> \in Event /\ <<"owner", ok>>[1] = "owner"
    BY DEF Event
  <2>3. CASE \E p \in {"on", "off"} : UserPower(p)
    BY <1>1, <2>1, <2>3 DEF UserPower, RecordOK, Power
  <2>4. CASE UserDelete
    <3>1. Emit(<<"instance", "gone", record.status>>) /\ "gone" \in Power
      BY <2>4 DEF UserDelete, Power
    <3> QED BY <1>1, <2>1, <3>1 DEF RecordOK
  <2>5. CASE \E ok \in BOOLEAN : OwnerChange(ok)
    BY <2>2, <2>5 DEF OwnerChange
  <2> QED BY <2>3, <2>4, <2>5 DEF Users
<1>6. Still => Still'
  <2>1. PICK e \in Event : Emit(e) /\ (e[1] = "instance" => e[3] = record.status) BY <1>5
  <2>2. \A i \in Places' : \/ i \in Places /\ stream'[i] = stream[i]
                           \/ stream'[i] = e
    BY <1>1, <2>1, EmitPlaces
  <2> QED BY <1>2, <1>4, <2>1, <2>2 DEF Still, Unwritten, IsInstance
<1>7. LastLaunch' BY <1>2, <1>6 DEF WriteFits, LastLaunch, Raisable
<1>8. QueuesFit' BY <1>2, <1>3, <1>4 DEF WriteFits, QueuesFit, Written
<1>9. RegisteredFits' BY <1>2, <1>3, <1>4 DEF WriteFits, RegisteredFits, Written
<1> QED BY <1>7, <1>8, <1>9 DEF WriteFits

\* A write that lands is what the record says from then on.
LEMMA LandsWrite ==
  ASSUME IInv, WriteFits, faults = {}, Writes
  PROVE  WriteFits'
<1>1. RecordOK /\ BoxOK BY DEF IInv, DataOK
<1>2. UNCHANGED <<mirror, registry, api>> BY DEF Writes, BoxLands, LooseLands, daemon
<1>3. ASSUME NEW status \in Status, Answered(status) PROVE Written(status)'
  BY <1>1, <1>3 DEF Answered, Landed, Written, RecordOK
<1>4. ~Still BY DEF Still, Unwritten, Writes, BoxLands, LooseLands
<1>5. LastLaunch' BY <1>2, <1>4 DEF WriteFits, LastLaunch, Raisable
<1>6. CASE \E a \in Launches : BoxLands(a)
  <2>1. PICK a \in Launches : BoxLands(a) BY <1>6
  <2>2. /\ box[a] \in Seq(Status) /\ box[a] # <<>> /\ box'[a] = Tail(box[a])
        /\ \A b \in Launches : b # a => box'[b] = box[b] /\ box[b] = <<>>
        /\ UNCHANGED loose
    BY <1>1, <2>1 DEF BoxLands, BoxOK, WriteFits, QueuesFit
  <2>3. /\ Tail(box[a]) # <<>> => Latest(box'[a]) = Latest(box[a])
        /\ Tail(box[a]) = <<>> => Head(box[a]) = Latest(box[a])
    BY <2>2, LatestLeft
  <2>4. PICK h \in Status : h = Head(box[a]) BY <2>2
  <2>5. Written(h)' BY <1>3, <2>1, <2>4 DEF BoxLands
  <2>6. QueuesFit'
    BY <1>2, <2>2, <2>3, <2>4, <2>5, LaunchAssumption DEF WriteFits, QueuesFit, Written
  <2>7. registry # NoLaunch => registry = a BY <2>2 DEF WriteFits, RegisteredFits
  <2>8. RegisteredFits'
    BY <1>2, <2>2, <2>3, <2>4, <2>5, <2>7 DEF WriteFits, RegisteredFits, Written
  <2> QED BY <1>5, <2>6, <2>8 DEF WriteFits
<1>7. CASE \E s \in Status : LooseLands(s)
  <2>1. PICK s \in Status : LooseLands(s) BY <1>7
  <2>2. s = "idle" /\ registry = NoLaunch /\ loose' = loose \ {s} /\ UNCHANGED box
    BY <2>1 DEF LooseLands, WriteFits, QueuesFit, RegisteredFits
  <2>3. Written("idle")' BY <1>3, <2>1, <2>2 DEF LooseLands
  <2>4. QueuesFit' BY <1>2, <2>2, <2>3 DEF WriteFits, QueuesFit
  <2>5. RegisteredFits' BY <1>2, <2>2 DEF RegisteredFits
  <2> QED BY <1>5, <2>4, <2>5 DEF WriteFits
<1> QED BY <1>6, <1>7 DEF Writes

\* Callers of ensureInstanceApi launch only where nobody wrote.
LEMMA RequestWrites ==
  ASSUME IInv, StreamFits, WriteFits, faults = {}, NEW r \in Requests, Request(r)
  PROVE  WriteFits'
<1>1. UNCHANGED <<record, stream, mirror, loose, faults>> /\ r \in Callers
  BY DEF Request, Arrive, LockWaitOver, Callers
<1>2. Raisable \/ UNCHANGED <<registry, api, box>>
  BY <1>1 DEF Request, Arrive, LockWaitOver, Raisable, StreamFits, LockFits
<1>3. CASE UNCHANGED <<registry, api, box>>
  <2>1. Still' = Still BY <1>1, <1>3 DEF Still, Unwritten, Places, IsInstance
  <2> QED BY <1>1, <1>3, <2>1, WriteSame DEF Raisable
<1>4. CASE Raisable /\ LaunchBy(r) /\ registry = NoLaunch
  <2>1. Still BY <1>4 DEF WriteFits, LastLaunch
  <2> QED BY <1>1, <1>4, <2>1, LaunchWrites
<1> QED BY <1>2, <1>3, <1>4 DEF Request, Arrive, LockWaitOver, Enter

\* A launch and its container.
LEMMA SpawnWrites ==
  ASSUME IInv, DaemonFits, WriteFits, faults = {}, NEW a \in Launches, Launch(a)
  PROVE  WriteFits'
<1>1. UNCHANGED <<record, stream, mirror, loose, faults>> /\ ApiOK /\ BoxOK
  BY DEF Launch, Spawn, StopsOld, NoOld, RemovesOld, Creates, Conflicts, ConflictOver,
         ConflictTimesOut, SpawnFails, FailsBare, Health, Preflight, FetchFails, FetchAnswered, Ready,
         FailDone, ExitSeen, JustMoves, Elsewhere, Aside, IInv, DataOK, EdgeInv
<1>2. box[a] \in Seq(Status) BY <1>1 DEF BoxOK
<1>3. ASSUME api[a].at # "gone", UNCHANGED <<registry, box>>, NEW pc \in Raising, At1(a, pc)
      PROVE WriteFits'
  <2>1. ~Still BY <1>3 DEF Still
  <2>2. registry # NoLaunch /\ api'[registry].at = "ready" => api[registry].at = "ready"
    BY <1>1, <1>3 DEF At1, ApiOK, Api, Raising
  <2> QED BY <1>1, <1>3, <2>1, <2>2, WriteSame DEF Raisable
<1>4. CASE Spawn(a) \/ SpawnFails(a)
  <2>1. ~SpawnFails(a) BY DEF SpawnFails
  <2>2. HostOK /\ HostFits /\ api[a].at \notin {"clear", "conflict"}
    BY DEF IInv, EdgeInv, DaemonFits, HostOne
  <2>3. ~ConflictTimesOut(a) BY <2>2 DEF ConflictTimesOut
  <2> QED BY <1>3, <1>4, <2>1, <2>3 DEF Spawn, StopsOld, NoOld, RemovesOld, Creates, Conflicts,
             ConflictOver, JustMoves, Raising
<1>5. CASE Health(a)
  <2>1. CASE Fail(a) /\ Preflight(a)
    <3> DEFINE s == Append(box[a], "idle")
    <3>1. registry = a /\ ~api[a].lowered /\ a # NoLaunch
      BY <2>1, RegisteredAlone, LaunchAssumption DEF Preflight, Raising
    <3>2. mirror.power = "off" \/ registry' # NoLaunch
      BY <2>1, <3>1 DEF Preflight, At1
    <3>3. registry' = NoLaunch /\ box' = [box EXCEPT ![a] = s]
      BY <2>1, <3>1 DEF Fail, Unregister, Send
    <3>4. s \in Seq(Status) /\ s # <<>> /\ Latest(s) = "idle"
      BY <1>2, LatestAdded DEF Status
    <3>5. ~Raisable' BY <1>1, <3>2, <3>3 DEF Raisable
    <3> HIDE DEF s
    <3> QED BY <1>1, <3>1, <3>3, <3>4, <3>5, LastWrites
  <2>2. \/ Fail(a) /\ Preflight(a)
        \/ \E pc \in Raising : At1(a, pc) /\ UNCHANGED <<registry, box>>
    BY <1>5 DEF Health, Preflight, FetchFails, FetchAnswered, JustMoves, Raising
  <2>3. api[a].at # "gone" BY <1>5 DEF Health, Preflight, FetchFails, FetchAnswered
  <2> QED BY <1>3, <2>1, <2>2, <2>3
<1>6. CASE Ready(a)
  <2>1. registry = a /\ ~api[a].lowered /\ api[a].at = "fetched" /\ a # NoLaunch
    BY <1>6, RegisteredAlone, LaunchAssumption DEF Ready, Raising
  <2>2. CASE api[a].shut
    <3> DEFINE s == box[a] \o <<"running", "idle">>
    <3>1. registry' = NoLaunch /\ box' = [box EXCEPT ![a] = s]
      BY <1>6, <2>1, <2>2 DEF Ready, ReadyWrites
    <3>2. s \in Seq(Status) /\ s # <<>> /\ Latest(s) = "idle"
      BY <1>2, LatestOfTwo DEF Status
    <3>3. ~Raisable' BY <1>1, <2>1, <2>2 DEF DaemonFits, DownFits, GoingDown, Raising, Raisable
    <3> HIDE DEF s
    <3> QED BY <1>1, <2>1, <3>1, <3>2, <3>3, LastWrites
  <2>3. CASE ~api[a].shut
    <3> DEFINE s == box[a] \o <<"running">>
    <3>1. registry' = a /\ box'[a] = s /\ \A b \in Launches : b # a => box'[b] = box[b]
      BY <1>1, <1>6, <2>1, <2>3 DEF Ready, ReadyWrites, BoxOK
    <3>2. s # <<>> /\ Latest(s) = "running"
      BY <1>2, LatestOfTwo DEF Status
    <3> HIDE DEF s
    <3>3. QueuesFit' BY <1>1, <2>1, <3>1, <3>2 DEF WriteFits, QueuesFit, RegisteredFits
    <3>4. RegisteredFits' BY <1>1, <2>1, <3>1, <3>2 DEF WriteFits, RegisteredFits
    <3> QED BY <2>1, <3>1, <3>3, <3>4 DEF WriteFits, LastLaunch
  <2> QED BY <2>2, <2>3
<1>7. CASE FailDone(a)
  <2>1. api[a].at = "failing" /\ registry' = NoLaunch /\ UNCHANGED box
    BY <1>7 DEF FailDone, Rejects
  <2>2. ~Raisable BY <2>1 DEF DaemonFits, DownFits, GoingDown
  <2>3. registry = NoLaunch
    BY <2>1, RegisteredAlone DEF IInv, EdgeInv, RegisteredIsRaised, Raising
  <2>4. QueuesFit' /\ RegisteredFits'
    BY <1>1, <2>1, <2>3 DEF WriteFits, QueuesFit, RegisteredFits, Written
  <2> QED BY <1>1, <2>2, <2>4 DEF WriteFits, LastLaunch, Raisable
<1>8. CASE ExitSeen(a)
  <2>1. /\ UNCHANGED <<registry, box>>
        /\ \A b \in Launches : api[b].at = "gone" => api'[b].at = "gone"
    BY <1>8, ExitAlone
  <2>2. Still => Still' BY <1>1, <2>1 DEF Still, Unwritten, Places, IsInstance
  <2>3. registry # NoLaunch /\ api'[registry].at = "ready" => api[registry].at = "ready"
    BY <1>1, <1>8 DEF ExitSeen, ApiOK, Api, Unused
  <2> QED BY <1>1, <2>1, <2>2, <2>3, WriteSame DEF Raisable
<1> QED BY <1>4, <1>5, <1>6, <1>7, <1>8 DEF Launch

\* The clock, Docker and the vacuum write nothing when nothing can fail.
LEMMA OutsideWrites ==
  ASSUME IInv, StreamFits, WriteFits, faults = {}, CooldownOver \/ Docker \/ Vacuum
  PROVE  WriteFits'
<1>1. ~Vacuum BY DEF Vacuum, VacuumLocks, VacuumUnlocks, StreamFits, LockFits
<1>2. UNCHANGED <<record, stream, mirror, registry, api, box, loose, faults>>
  BY <1>1 DEF CooldownOver, Docker, ContainerStops, ContainerCrashes, Vanish, Aside
<1>3. Still' = Still BY <1>2 DEF Still, Unwritten, Places, IsInstance
<1> QED BY <1>2, <1>3, WriteSame DEF Raisable

\* The listener: it writes idle itself only where no launch is registered.
LEMMA ListenerWrites ==
  ASSUME IInv, StreamFits, DaemonFits, WriteFits, faults = {}, Listener
  PROVE  WriteFits'
<1>1. UNCHANGED <<record, locked, events, faults>>
  BY DEF Listener, HearsPowerOn, HearsPowerOff, HearsDeleted, HearsOwnerBad, HearsOwnerOk
<1>2. StreamOK /\ MirrorOK /\ CallerOK /\ stream # <<>> /\ stream' = Tail(stream)
  BY DEF Listener, HearsPowerOn, HearsPowerOff, HearsDeleted, HearsOwnerBad, HearsOwnerOk, Received,
         IInv, DataOK, EdgeInv
<1>3. Head(stream) = stream[1] /\ 1 \in Places BY <1>2, TailPlaces
<1>4. \A i \in Places' : i + 1 \in Places /\ stream'[i] = stream[i + 1] BY <1>2, TailPlaces
<1>5. ~HearsOwnerOk BY <1>3 DEF HearsOwnerOk, Received, StreamFits, OwnerFits
<1>6. CASE HearsPowerOn
  <2>1. /\ Received("instance") /\ Head(stream)[2] = "on" /\ "on" \in Power
        /\ mirror' = [mirror EXCEPT !.power = "on"] /\ WarmUp(mirror') /\ UNCHANGED loose
    BY <1>6 DEF HearsPowerOn, Power
  <2>2. \A c \in Callers : caller'[c].at = "locked" => caller[c].at = "locked"
    BY <1>2, <2>1 DEF WarmUp, LaunchBy, CallerOK
  <2>3. Still \/ mirror.power = "on" BY <1>1, <2>1, <2>2, HeardFits
  <2>4. mirror.power = "on" => mirror' = mirror BY <1>2, <2>1 DEF MirrorOK
  <2>5. Still \/ registry # NoLaunch \/ ~Raisable'
    BY <2>3, <2>4 DEF WriteFits, LastLaunch, Raisable
  <2>6. CASE LaunchBy(Warm) /\ Raisable' /\ registry = NoLaunch
    <3>1. Warm \in Callers BY DEF Callers
    <3> QED BY <1>1, <2>1, <2>5, <2>6, <3>1, LaunchWrites
  <2>7. CASE UNCHANGED <<registry, api, box, caller>>
    <3>1. Still => Still' BY <1>1, <1>4, <2>1, <2>7 DEF Still, Unwritten, IsInstance
    <3>2. QueuesFit' /\ RegisteredFits'
      BY <1>1, <2>1, <2>7 DEF WriteFits, QueuesFit, RegisteredFits, Written
    <3> QED BY <2>5, <2>7, <3>1, <3>2 DEF WriteFits, LastLaunch
  <2>8. \/ LaunchBy(Warm) /\ Raisable' /\ registry = NoLaunch
        \/ UNCHANGED <<registry, api, box, caller>>
    BY <1>2, <2>1 DEF WarmUp, Raisable, MirrorOK
  <2> QED BY <2>6, <2>7, <2>8
<1>7. CASE HearsPowerOff \/ HearsDeleted \/ HearsOwnerBad
  <2>1. ~Raisable'
    BY <1>2, <1>7 DEF HearsPowerOff, HearsDeleted, HearsOwnerBad, MirrorOK, Raisable
  <2>2. \/ ShutRegistered /\ UNCHANGED loose
        \/ UNCHANGED <<registry, api, box, loose>>
        \/ /\ UNCHANGED <<registry, api, box>> /\ registry = NoLaunch
           /\ loose' = loose \cup {"idle"}
    BY <1>7 DEF HearsPowerOff, HearsDeleted, HearsOwnerBad
  <2>3. CASE ShutRegistered /\ UNCHANGED loose BY <1>1, <2>1, <2>3, ShutWrites
  <2>4. CASE UNCHANGED <<registry, api, box>> /\ (registry # NoLaunch => UNCHANGED loose)
             /\ loose' \subseteq loose \cup {"idle"}
    BY <1>1, <2>1, <2>4 DEF WriteFits, LastLaunch, QueuesFit, RegisteredFits, Written
  <2> QED BY <2>2, <2>3, <2>4
<1> QED BY <1>5, <1>6, <1>7 DEF Listener

LEMMA InitWrite == Init => WriteInv
<1> SUFFICES ASSUME Init PROVE WriteFits
  BY DEF WriteInv
<1>1. record.status = "idle" /\ registry = NoLaunch /\ loose = {} /\ mirror.power # "on"
      /\ \A a \in Launches : box[a] = <<>>
  BY DEF Init
<1> QED BY <1>1 DEF WriteFits, LastLaunch, QueuesFit, RegisteredFits, Written, Raisable

\* Every step keeps the invariant.
LEMMA WriteStep == ASSUME IInv, OnceInv, WriteInv, [Next]_vars PROVE WriteInv'
<1>1. CASE UNCHANGED vars
  <2>1. UNCHANGED <<Once, faults>> BY <1>1 DEF Once, vars
  <2>2. UNCHANGED <<record, box, loose, registry, api, Still, Raisable>>
    BY <1>1 DEF vars, Still, Unwritten, Places, IsInstance, Raisable
  <2>3. WriteFits => WriteFits' BY <2>2, WriteSame
  <2> QED BY <2>1, <2>3 DEF WriteInv
<1>2. CASE Next
  <2> SUFFICES ASSUME Once', faults' = {} PROVE WriteFits'
    BY DEF WriteInv
  <2>1. Once /\ faults = {} BY <1>2, Counted
  <2>2. StreamFits /\ DaemonFits /\ WriteFits BY <2>1 DEF OnceInv, WriteInv
  <2>3. \A c \in Callers : ~AfterLowered(c) BY <2>2 DEF AfterLowered, DaemonFits, NoneBehind
  <2> QED BY <1>2, <2>1, <2>2, <2>3, UsersWrite, LandsWrite, ListenerWrites, OutsideWrites,
             SpawnWrites, RequestWrites
          DEF Next
<1> QED BY <1>1, <1>2

THEOREM WriteInvariant == Spec => []WriteInv
<1>1. IInv /\ OnceInv /\ WriteInv /\ [Next]_vars => WriteInv' BY WriteStep
<1> QED BY InitWrite, <1>1, Invariant, OnceInvariant, PTL DEF Spec

\* After one edit, and if no write is lost, the record that is left says running
\* exactly when there is a container, whichever queue the writes went through.
THEOREM OneEditLeavesStatus == Spec => [](events <= 1 => StatusFits)
<1>1. ASSUME IInv, OnceInv, WriteInv, events <= 1, faults = {}, Quiet, record.power # "gone"
      PROVE (record.status = "running") = (host.state = "up")
  <2>1. WriteFits /\ HostOne /\ HostOK /\ HostFits /\ RegisteredIsRaised /\ ContainerAccounted
    BY <1>1 DEF WriteInv, OnceInv, Once, DaemonFits, IInv, EdgeInv
  <2>2. CASE registry = NoLaunch
    <3>1. record.status = "idle"
      BY <1>1, <2>1, <2>2 DEF Quiet, WriteFits, QueuesFit, Written
    <3>2. host.state # "up" BY <2>1, <2>2 DEF HostOne, HostFits
    <3> QED BY <3>1, <3>2
  <2>3. CASE registry # NoLaunch
    <3>1. registry \in Launches /\ api[registry].at = "ready" /\ box[registry] = <<>>
      BY <1>1, <2>1, <2>3 DEF Quiet, RegisteredIsRaised, Raising, IInv, EdgeInv, ApiOK
    <3>2. record.status = "running"
      BY <1>1, <2>1, <2>3, <3>1 DEF WriteFits, RegisteredFits, Written
    <3>3. host.by = registry
      BY <1>1, <2>1, <3>1 DEF ContainerAccounted, CountsOnIt, Quiet
    <3>4. host.state = "up" BY <1>1, <2>1, <2>3, <3>3 DEF Quiet, HostOK, HostFits
    <3> QED BY <3>2, <3>4
  <2> QED BY <2>2, <2>3
<1>2. IInv /\ OnceInv /\ WriteInv => (events <= 1 => StatusFits)
  BY <1>1 DEF StatusFits
<1> QED BY <1>2, Invariant, OnceInvariant, WriteInvariant, PTL

=============================================================================

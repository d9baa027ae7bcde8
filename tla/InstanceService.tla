--------------------------- MODULE InstanceService ---------------------------
(***************************************************************************)
(* The life of one customer instance on the edge: InstanceService and the  *)
(* parts of PocketBaseService it drives, the instance record the mothership *)
(* keeps and streams to the edge, the container Docker runs, and the       *)
(* requests and warm starts that raise the instance.                       *)
(*                                                                         *)
(* Every map of the service (instanceApis, warmStarts, warmStartFailedAt,  *)
(* locks) is keyed by instance id and a container is named by it, so the   *)
(* module has one instance.  A step is what runs between two awaits that   *)
(* let another task in: code that only waits for settled promises is one   *)
(* step with what precedes it.                                             *)
(***************************************************************************)
EXTENDS Naturals, Sequences, FiniteSets

CONSTANTS
  Launches,   \* identities of createInstanceApi calls that can overlap, 1..n
  Requests,   \* HTTP requests for the instance
  MaxEvents,  \* bound on what users and mishaps do: edits, crashes, refused launches
  MaxStream,  \* bound on realtime events under way to the edge
  Environments \* sets of Hazards; a behaviour meets those of one of the sets

\* "crash": PocketBase exits by itself; "spawn": Docker refuses a launch;
\* "vacuum": the instance is vacuum-locked at times; "loss": status writes fail.
Hazards == {"crash", "spawn", "vacuum", "loss"}

NoLaunch == 0
Warm     == "warm"
Callers  == Requests \cup {Warm}

ASSUME LaunchAssumption  == Launches \subseteq Nat \ {NoLaunch} /\ IsFiniteSet(Launches)
ASSUME RequestAssumption == Warm \notin Requests
ASSUME BoundAssumption   == {MaxEvents, MaxStream} \subseteq Nat
ASSUME FaultAssumption   == Environments \subseteq SUBSET Hazards

VARIABLES
  record,    \* the mothership's instance: [power, status, owner (may run instances)]
  stream,    \* realtime events under way to the edge, oldest first
  mirror,    \* the edge's copy: [power, owner]
  registry,  \* instanceApis[id]: the launch whose promise it holds, or NoLaunch
  api,       \* each launch: [at, lowered, shut]
  box,       \* each launch's status writes, which its limiter sends one by one
  loose,     \* status writes outside any limiter
  host,      \* Docker: [by: the launch that made the container, state]
  exits,     \* launches whose container is gone and who have not been told
  caller,    \* each caller of ensureInstanceApi: [at, on, behind]
  cooldown,  \* warmStartFailedAt is less than warmStartRetryMs ago
  locked,    \* the instance is vacuum-locked
  events,     \* how many of the things that MaxEvents bounds happened
  faults      \* what may go wrong in this behaviour (it never changes)

daemon == <<registry, api, caller, cooldown>>
vars   == <<record, stream, mirror, registry, api, box, loose, host, exits,
            caller, cooldown, locked, events, faults>>

Power   == {"on", "off", "gone"}
Status  == {"idle", "starting", "running", "vacuuming"}
Raising == {"spawn", "clear", "create", "conflict", "health", "fetch", "fetched"}
At      == Raising \cup {"failing", "ready", "gone"}
Waiting == {"locked", "await", "lowering"}
Event   == ({"instance"} \X Power \X Status) \cup ({"owner"} \X BOOLEAN)

\* The record, the edge's maps of the instance, its container, and what is under way.
TypeOK ==
  /\ record \in [power : Power, status : Status, owner : BOOLEAN]
  /\ stream \in Seq(Event)
  /\ mirror \in [power : Power, owner : BOOLEAN]
  /\ registry \in Launches \cup {NoLaunch}
  /\ api \in [Launches -> [at : At, lowered : BOOLEAN, shut : BOOLEAN]]
  /\ box \in [Launches -> Seq(Status)]
  /\ loose \subseteq Status
  /\ host \in [by : Launches \cup {NoLaunch}, state : {"none", "up", "stopping"}]
  /\ exits \subseteq Launches
  /\ caller \in [Callers -> [at : Waiting \cup {"none", "served", "failed"},
                             on : Launches \cup {NoLaunch}, behind : BOOLEAN]]
  /\ cooldown \in BOOLEAN
  /\ locked \in BOOLEAN
  /\ events \in 0..MaxEvents
  /\ faults \in Environments

Unused   == [at |-> "gone", lowered |-> TRUE, shut |-> FALSE]
NoBox    == [by |-> NoLaunch, state |-> "none"]
Off(pc)  == [at |-> pc, on |-> NoLaunch, behind |-> FALSE]

\* The user just created the instance and the event is on its way to the edge;
\* or the instance has been off for a while.
Init ==
  /\ \/ /\ record = [power |-> "on", status |-> "idle", owner |-> TRUE]
        /\ stream = <<<<"instance", "on", "idle">>>>
        /\ mirror = [power |-> "gone", owner |-> TRUE]
     \/ /\ record = [power |-> "off", status |-> "idle", owner |-> TRUE]
        /\ stream = <<>>
        /\ mirror = [power |-> "off", owner |-> TRUE]
  /\ registry = NoLaunch
  /\ api = [a \in Launches |-> Unused]
  /\ box = [a \in Launches |-> <<>>]
  /\ loose = {}
  /\ host = NoBox
  /\ exits = {}
  /\ caller = [c \in Callers |-> Off("none")]
  /\ cooldown = FALSE
  /\ locked = FALSE
  /\ events = 0
  /\ faults \in Environments

-----------------------------------------------------------------------------
(* Pieces of the handlers. *)

Emit(e) == Len(stream) < MaxStream /\ stream' = Append(stream, e)

\* Something that a bounded behaviour can only see so often.
Happens == events < MaxEvents /\ events' = events + 1

\* Mutant of Send: a status that the collection does not know.
SendUnknown(a, status) == box' = [box EXCEPT ![a] = Append(@, "stopped")]

Send(a, status) == box' = [box EXCEPT ![a] = Append(@, status)]

\* childProcess.kill(): SIGINT, then SIGKILL after the stop timeout.
Kill(a) == host' = IF host.by = a /\ host.state = "up"
                   THEN [host EXCEPT !.state = "stopping"] ELSE host

\* Identities a new createInstanceApi call of caller c may take: nothing refers
\* to their last use.  The lowest is taken.
Free(c) == {a \in Launches : /\ api[a].at = "gone"
                             /\ box[a] = <<>>
                             /\ a \notin exits
                             /\ \A d \in Callers \ {c} : caller[d].on # a}

\* mkInstanceApiPromise: register the promise; createInstanceApi's first step.
LaunchBy(c) == \E a \in Free(c) :
  /\ \A b \in Free(c) : a <= b
  /\ registry' = a
  /\ api' = [api EXCEPT ![a] = [at |-> "spawn", lowered |-> FALSE, shut |-> FALSE]]
  /\ Send(a, "starting")
  /\ caller' = [caller EXCEPT ![c] = [at |-> "await", on |-> a, behind |-> FALSE]]

\* Mutant of Unregister: the entry stays until the container has exited.
UnregisterNot(a) == registry' = registry

\* lowerDrawbridge deletes the registered promise, whosever it is, once a launch.
Unregister(a) == registry' = IF api[a].lowered THEN registry ELSE NoLaunch

\* Mutant of Shutdown: the container is left to itself.
ShutdownKeepsContainer(a) ==
  /\ ~api[a].lowered
  /\ api' = [api EXCEPT ![a].lowered = TRUE]
  /\ Unregister(a)
  /\ Send(a, "idle")
  /\ UNCHANGED host

\* api.shutdown() of a launch that is up.
Shutdown(a) ==
  /\ ~api[a].lowered
  /\ api' = [api EXCEPT ![a].lowered = TRUE]
  /\ Unregister(a)
  /\ Send(a, "idle")
  /\ Kill(a)

\* Mutant of ShutRegistered: a launch that is still pending is not shut down.
ShutRegisteredIfReady ==
  IF registry # NoLaunch /\ api[registry].at = "ready"
  THEN Shutdown(registry)
  ELSE UNCHANGED <<registry, api, box, host>>

\* shutdownRunningInstance: at once, or when the pending promise settles.
ShutRegistered ==
  \/ /\ registry = NoLaunch
     /\ UNCHANGED <<registry, api, box, host>>
  \/ /\ registry # NoLaunch /\ api[registry].at = "ready"
     /\ Shutdown(registry)
  \/ /\ registry # NoLaunch /\ api[registry].at # "ready"
     /\ api' = [api EXCEPT ![registry].shut = TRUE]
     /\ UNCHANGED <<registry, box, host>>

\* The catch of createInstanceApi up to its await.
Fail(a) ==
  /\ api' = [api EXCEPT ![a] = [@ EXCEPT !.at = "failing", !.lowered = TRUE]]
  /\ Unregister(a)
  /\ Send(a, "idle")
  /\ Kill(a)

\* Mutant of Rejects: the rejection reaches only the warm start.
RejectsWarmOnly(a) ==
  /\ registry' = NoLaunch
  /\ api' = [api EXCEPT ![a] = Unused]
  /\ caller' = [caller EXCEPT ![Warm] = IF @.on = a THEN Off("none") ELSE @]
  /\ cooldown' = (cooldown \/ caller[Warm].on = a)

\* The promise rejects: its catch deletes the registered promise, whosever it is,
\* and its waiters fail.
Rejects(a) ==
  /\ registry' = NoLaunch
  /\ api' = [api EXCEPT ![a] = Unused]
  /\ caller' = [c \in Callers |->
       IF caller[c].on # a THEN caller[c] ELSE Off(IF c = Warm THEN "none" ELSE "failed")]
  /\ cooldown' = (cooldown \/ caller[Warm].on = a)

\* Mutant of WarmUp: the cooldown's comparison is turned round.
WarmUpWhenCooling(m) ==
  IF m.power = "on" /\ m.owner /\ registry = NoLaunch
       /\ caller[Warm].at = "none" /\ cooldown
  THEN LaunchBy(Warm)
  ELSE UNCHANGED <<registry, api, box, caller>>

\* warmPoweredInstance, with the mirror m as it is after the event.
WarmUp(m) ==
  IF m.power = "on" /\ m.owner /\ registry = NoLaunch
       /\ caller[Warm].at = "none" /\ ~cooldown
  THEN LaunchBy(Warm)
  ELSE UNCHANGED <<registry, api, box, caller>>

\* ensureInstanceApi, first round.
Enter(c) ==
  \/ registry = NoLaunch /\ LaunchBy(c)
  \/ /\ registry # NoLaunch
     /\ caller' = [caller EXCEPT ![c] =
          IF api[registry].at = "ready" THEN Off("served")
          ELSE [at |-> "await", on |-> registry, behind |-> api[registry].shut]]
     /\ UNCHANGED <<registry, api, box>>

-----------------------------------------------------------------------------
(* Users and the mothership. *)

UserPower(p) ==
  /\ Happens
  /\ record.power # "gone" /\ record.power # p
  /\ record' = [record EXCEPT !.power = p]
  /\ Emit(<<"instance", p, record.status>>)
  /\ UNCHANGED <<mirror, daemon, box, loose, host, exits, locked, faults>>

\* HandleInstanceDelete asks for status idle only, and removes the files too.
UserDelete ==
  /\ Happens
  /\ record.power # "gone" /\ record.status = "idle"
  /\ record' = [record EXCEPT !.power = "gone"]
  /\ Emit(<<"instance", "gone", "idle">>)
  /\ UNCHANGED <<mirror, daemon, box, loose, host, exits, locked, faults>>

OwnerChange(ok) ==
  /\ Happens
  /\ record.owner # ok
  /\ record' = [record EXCEPT !.owner = ok]
  /\ Emit(<<"owner", ok>>)
  /\ UNCHANGED <<mirror, daemon, box, loose, host, exits, locked, faults>>

\* A status write reaches the mothership, whose update is streamed back.
Landed(status) ==
  IF record.power = "gone" THEN UNCHANGED <<record, stream>>
  ELSE /\ record' = [record EXCEPT !.status = status]
       /\ Emit(<<"instance", record.power, status>>)

Answered(status) == \/ Landed(status) /\ UNCHANGED events
                    \/ "loss" \in faults /\ Happens /\ UNCHANGED <<record, stream>>

BoxLands(a) ==
  /\ box[a] # <<>>
  /\ box' = [box EXCEPT ![a] = Tail(@)]
  /\ Answered(Head(box[a]))
  /\ UNCHANGED <<mirror, daemon, loose, host, exits, locked, faults>>

LooseLands(status) ==
  /\ status \in loose
  /\ loose' = loose \ {status}
  /\ Answered(status)
  /\ UNCHANGED <<mirror, daemon, box, host, exits, locked, faults>>

-----------------------------------------------------------------------------
(* The mirror's listeners. *)

Received(kind) == /\ stream # <<>>
                  /\ Head(stream)[1] = kind
                  /\ stream' = Tail(stream)

HearsPowerOn ==
  /\ Received("instance") /\ Head(stream)[2] = "on"
  /\ mirror' = [mirror EXCEPT !.power = "on"]
  /\ WarmUp(mirror')
  /\ UNCHANGED <<record, loose, host, exits, cooldown, locked, events, faults>>

HearsPowerOff ==
  /\ Received("instance") /\ Head(stream)[2] = "off"
  /\ mirror' = [mirror EXCEPT !.power = "off"]
  /\ \/ /\ Head(stream)[3] = "idle"
        /\ UNCHANGED <<registry, api, box, host, loose>>
     \/ /\ Head(stream)[3] # "idle" /\ registry # NoLaunch
        /\ ShutRegistered
        /\ UNCHANGED loose
     \/ /\ Head(stream)[3] # "idle" /\ registry = NoLaunch
        /\ loose' = loose \cup {"idle"}
        /\ UNCHANGED <<registry, api, box, host>>
  /\ UNCHANGED <<record, exits, caller, cooldown, locked, events, faults>>

HearsDeleted ==
  /\ Received("instance") /\ Head(stream)[2] = "gone"
  /\ mirror' = [mirror EXCEPT !.power = "gone"]
  /\ ShutRegistered
  /\ UNCHANGED <<record, loose, exits, caller, cooldown, locked, events, faults>>

HearsOwnerBad ==
  /\ Received("owner") /\ ~Head(stream)[2]
  /\ mirror' = [mirror EXCEPT !.owner = FALSE]
  /\ IF mirror.power # "gone" THEN ShutRegistered ELSE UNCHANGED <<registry, api, box, host>>
  /\ UNCHANGED <<record, loose, exits, caller, cooldown, locked, events, faults>>

HearsOwnerOk ==
  /\ Received("owner") /\ Head(stream)[2]
  /\ mirror' = [mirror EXCEPT !.owner = TRUE]
  /\ WarmUp(mirror')
  /\ UNCHANGED <<record, loose, host, exits, cooldown, locked, events, faults>>

CooldownOver ==
  /\ cooldown
  /\ cooldown' = FALSE
  /\ UNCHANGED <<record, stream, mirror, registry, api, box, loose, host, exits,
                 caller, locked, events, faults>>

-----------------------------------------------------------------------------
(* Requests. *)

Arrive(r) ==
  /\ caller[r].at = "none"
  /\ \/ /\ mirror # [power |-> "on", owner |-> TRUE]
        /\ caller' = [caller EXCEPT ![r] = Off("failed")]
        /\ UNCHANGED <<registry, api, box>>
     \/ /\ mirror = [power |-> "on", owner |-> TRUE]
        /\ locked
        /\ caller' = [caller EXCEPT ![r] = Off("locked")]
        /\ UNCHANGED <<registry, api, box>>
     \/ /\ mirror = [power |-> "on", owner |-> TRUE]
        /\ ~locked
        /\ Enter(r)
  /\ UNCHANGED <<record, stream, mirror, loose, host, exits, cooldown, locked, events, faults>>

\* waitUntilVacuumUnlocked is over; the record was read before it.
LockWaitOver(r) ==
  /\ caller[r].at = "locked"
  /\ \/ ~locked /\ Enter(r)
     \/ /\ locked
        /\ caller' = [caller EXCEPT ![r] = Off("failed")]
        /\ UNCHANGED <<registry, api, box>>
  /\ UNCHANGED <<record, stream, mirror, loose, host, exits, cooldown, locked, events, faults>>

\* api.whenLowered() resolved: delete the registered promise, whosever it is, and raise.
AfterLowered(c) ==
  /\ caller[c].at = "lowering"
  /\ api[caller[c].on].at = "gone"
  /\ LaunchBy(c)
  /\ UNCHANGED <<record, stream, mirror, loose, host, exits, cooldown, locked, events, faults>>

-----------------------------------------------------------------------------
(* A launch. *)

At1(a, pc) == api' = [api EXCEPT ![a].at = pc]
Aside      == UNCHANGED <<record, stream, mirror, loose, caller, cooldown, locked, faults>>
Elsewhere  == Aside /\ UNCHANGED events
JustMoves  == UNCHANGED <<registry, box, host, exits>> /\ Elsewhere

\* removeNamedContainer: stop whatever container has the instance's name...
StopsOld(a) ==
  /\ api[a].at = "spawn" /\ host.state # "none"
  /\ At1(a, "clear")
  /\ host' = [host EXCEPT !.state = "stopping"]
  /\ UNCHANGED <<registry, box, exits>> /\ Elsewhere

NoOld(a) ==
  /\ api[a].at = "spawn" /\ host.state = "none"
  /\ At1(a, "create") /\ JustMoves

\* ...and remove what has it once that stop is done.
RemovesOld(a) ==
  /\ api[a].at = "clear" /\ host.state # "stopping"
  /\ At1(a, "create")
  /\ host' = NoBox
  /\ exits' = exits \cup (IF host.state = "none" THEN {} ELSE {host.by})
  /\ UNCHANGED <<registry, box>> /\ Elsewhere

\* docker.run, up to its 'start' event and the inspection.
Creates(a) ==
  /\ api[a].at = "create" /\ host.state = "none"
  /\ At1(a, "health")
  /\ host' = [by |-> a, state |-> "up"]
  /\ UNCHANGED <<registry, box, exits>> /\ Elsewhere

\* 409: the name is taken; wait for it to be free and start over, or give up.
Conflicts(a) ==
  /\ api[a].at = "create" /\ host.state # "none"
  /\ At1(a, "conflict") /\ JustMoves

ConflictOver(a) ==
  /\ api[a].at = "conflict" /\ host.state = "none"
  /\ At1(a, "spawn") /\ JustMoves

\* No container was made: the failed launch has nothing to wait for.
FailsBare(a) ==
  /\ Rejects(a)
  /\ Send(a, "idle")
  /\ UNCHANGED <<record, stream, mirror, loose, host, exits, locked, faults>>

ConflictTimesOut(a) ==
  /\ api[a].at = "conflict" /\ host.state # "none"
  /\ FailsBare(a) /\ UNCHANGED events

SpawnFails(a) ==
  /\ "spawn" \in faults /\ Happens
  /\ api[a].at \in {"spawn", "clear", "create"}
  /\ FailsBare(a)

\* tryFetch's preflight; a mirror without the record does not stop it.
Preflight(a) ==
  /\ api[a].at = "health"
  /\ IF mirror.power = "off" \/ api[a].lowered
     THEN Fail(a)
     ELSE At1(a, "fetch") /\ UNCHANGED <<registry, box, host>>
  /\ UNCHANGED exits /\ Elsewhere

FetchFails(a) ==
  /\ api[a].at = "fetch"
  /\ At1(a, "health") /\ JustMoves

FetchAnswered(a) ==
  /\ api[a].at = "fetch" /\ host = [by |-> a, state |-> "up"]
  /\ At1(a, "fetched") /\ JustMoves

\* Mutant of ReadyWrites: the shutdown that waited reports before the launch does.
ReadyWritesSwapped(shut) == IF shut THEN <<"idle", "running">> ELSE <<"running">>

ReadyWrites(shut) == IF shut THEN <<"running", "idle">> ELSE <<"running">>

\* The promise resolves: its waiters run in the order they came, so those that
\* came after a shutdown that waits find the launch lowering.
Ready(a) ==
  /\ api[a].at = "fetched"
  /\ LET shut == api[a].shut /\ ~api[a].lowered IN
     /\ api' = [api EXCEPT ![a] =
                  [at |-> IF api[a].lowered THEN "gone" ELSE "ready",
                   lowered |-> api[a].lowered \/ shut, shut |-> FALSE]]
     /\ registry' = IF shut THEN NoLaunch ELSE registry
     /\ box' = [box EXCEPT ![a] = @ \o ReadyWrites(shut)]
     /\ IF shut THEN Kill(a) ELSE UNCHANGED host
     /\ caller' = [c \in Callers |->
          IF caller[c].on # a \/ caller[c].at # "await" THEN caller[c]
          ELSE IF api[a].lowered \/ caller[c].behind
               THEN [caller[c] EXCEPT !.at = "lowering", !.behind = FALSE]
               ELSE Off(IF c = Warm THEN "none" ELSE "served")]
     /\ cooldown' = (cooldown /\ ~(caller[Warm].on = a /\ caller'[Warm].at = "none"))
  /\ UNCHANGED <<record, stream, mirror, loose, exits, locked, events, faults>>

\* kill() is over.
FailDone(a) ==
  /\ api[a].at = "failing"
  /\ host.by # a
  /\ Rejects(a)
  /\ UNCHANGED <<record, stream, mirror, box, loose, host, exits, locked, events, faults>>

\* Mutant of ExitSeen: the handler deletes the entry without lowering the bridge.
ExitSeenForgets(a) ==
  /\ a \in exits
  /\ exits' = exits \ {a}
  /\ api' = [api EXCEPT ![a] = IF @.at = "ready" THEN Unused ELSE @]
  /\ Unregister(a)
  /\ IF api[a].lowered THEN UNCHANGED box ELSE Send(a, "idle")
  /\ UNCHANGED host /\ Elsewhere

\* Docker tells the daemon that the container of launch a is gone.
ExitSeen(a) ==
  /\ a \in exits
  /\ exits' = exits \ {a}
  /\ api' = [api EXCEPT ![a] = IF @.at = "ready" THEN Unused ELSE [@ EXCEPT !.lowered = TRUE]]
  /\ Unregister(a)
  /\ IF api[a].lowered THEN UNCHANGED box ELSE Send(a, "idle")
  /\ UNCHANGED host /\ Elsewhere

-----------------------------------------------------------------------------
(* Docker and the vacuum lock. *)

Vanish == /\ exits' = exits \cup {host.by}
          /\ host' = NoBox
          /\ UNCHANGED <<registry, api, box>> /\ Aside

ContainerStops   == host.state = "stopping" /\ Vanish /\ UNCHANGED events
ContainerCrashes == "crash" \in faults /\ Happens /\ host.state = "up" /\ Vanish

\* tryGrantLock; the job has found files, so the edge has known the instance.
VacuumLocks ==
  /\ "vacuum" \in faults /\ Happens
  /\ mirror.power # "gone"
  /\ ~locked /\ registry = NoLaunch /\ host.state = "none"
  /\ locked' = TRUE
  /\ loose' = loose \cup {"vacuuming"}
  /\ UNCHANGED <<record, stream, mirror, daemon, box, host, exits, faults>>

VacuumUnlocks ==
  /\ locked
  /\ locked' = FALSE
  /\ loose' = loose \cup {"idle"}
  /\ UNCHANGED <<record, stream, mirror, daemon, box, host, exits, events, faults>>

-----------------------------------------------------------------------------
Users     == \/ \E p \in {"on", "off"} : UserPower(p)
             \/ UserDelete
             \/ \E ok \in BOOLEAN : OwnerChange(ok)
Writes    == (\E a \in Launches : BoxLands(a)) \/ (\E s \in Status : LooseLands(s))
Listener  == HearsPowerOn \/ HearsPowerOff \/ HearsDeleted \/ HearsOwnerBad \/ HearsOwnerOk
Spawn(a)  == \/ StopsOld(a) \/ NoOld(a) \/ RemovesOld(a) \/ Creates(a) \/ Conflicts(a)
             \/ ConflictOver(a) \/ ConflictTimesOut(a)
Health(a) == Preflight(a) \/ FetchFails(a) \/ FetchAnswered(a)
Launch(a) == Spawn(a) \/ SpawnFails(a) \/ Health(a) \/ Ready(a) \/ FailDone(a) \/ ExitSeen(a)
Request(r) == Arrive(r) \/ LockWaitOver(r)
Docker    == ContainerStops \/ ContainerCrashes
Vacuum    == VacuumLocks \/ VacuumUnlocks

Next == \/ Users \/ Writes \/ Listener \/ CooldownOver \/ Docker \/ Vacuum
        \/ \E a \in Launches : Launch(a)
        \/ \E r \in Requests : Request(r)
        \/ \E c \in Callers : AfterLowered(c)

Spec == Init /\ [][Next]_vars

(***************************************************************************)
(* The daemon and Docker take their steps, writes are answered, the clock  *)
(* moves on, a vacuum ends; a container that is up and polled for ever     *)
(* answers in the end.  Nothing makes users act, requests come or          *)
(* containers crash.                                                       *)
(***************************************************************************)
Fairness ==
  /\ WF_vars(Listener)
  /\ WF_vars(CooldownOver)
  /\ WF_vars(ContainerStops)
  /\ WF_vars(VacuumUnlocks)
  /\ \A a \in Launches : /\ WF_vars(BoxLands(a))
                          /\ WF_vars(Spawn(a))
                          /\ WF_vars(Health(a))
                          /\ SF_vars(FetchAnswered(a))
                          /\ WF_vars(Ready(a))
                          /\ WF_vars(FailDone(a))
                          /\ WF_vars(ExitSeen(a))
  /\ \A s \in Status : WF_vars(LooseLands(s))
  /\ \A r \in Requests : WF_vars(LockWaitOver(r))
  /\ \A c \in Callers : WF_vars(AfterLowered(c))

FairSpec == Spec /\ Fairness
-----------------------------------------------------------------------------
(* Safety, whatever happens. *)

\* The launch in instanceApis has not been lowered and has not failed: nobody
\* who looks there is handed an instance that is going down, although four
\* different continuations delete the entry without looking whose it is.
RegisteredIsRaised ==
  registry # NoLaunch =>
    ~api[registry].lowered /\ api[registry].at \in Raising \cup {"ready"}

\* A launch that has made its container and counts on it still has it, or will
\* be told that it is gone: whoever stops, removes or outlives a container,
\* the launch that made it learns of it through exitCode.
CountsOnIt(a) == \/ api[a].at = "ready"
                 \/ api[a].at \in {"health", "fetch", "fetched"} /\ ~api[a].lowered

ContainerAccounted ==
  \A a \in Launches : CountsOnIt(a) => host.by = a \/ a \in exits

\* Who waits in ensureInstanceApi waits for something that comes: a launch that
\* will settle or, for whenLowered, one that is going down or is down.
WaitsOnLive ==
  \A c \in Callers :
    /\ caller[c].at = "await" =>
         /\ caller[c].on # NoLaunch
         /\ api[caller[c].on].at \in Raising \cup {"failing"}
         /\ caller[c].behind => api[caller[c].on].shut \/ api[caller[c].on].lowered
    /\ caller[c].at = "lowering" =>
         /\ caller[c].on # NoLaunch
         /\ \/ api[caller[c].on].at = "gone"
            \/ api[caller[c].on].at = "ready" /\ api[caller[c].on].lowered

-----------------------------------------------------------------------------
(* What one edit, crash, refusal, lost write or vacuum does not break.      *)

\* Nothing is on its way and nobody waits.
Quiet == /\ stream = <<>> /\ loose = {} /\ exits = {}
         /\ host.state # "stopping"
         /\ \A a \in Launches : api[a].at \in {"ready", "gone"} /\ box[a] = <<>>
         /\ \A c \in Callers : caller[c].at \notin Waiting

\* When all is quiet a container that is up is the registered one, which the
\* next power-off, deletion or owner change can stop.
NoOrphan == "crash" \notin faults /\ Quiet /\ host.state = "up" =>
              registry = host.by

\* When all is quiet and no write was lost, the record says running exactly when
\* the container is up, although each launch writes from a queue of its own.
StatusFits ==
  faults = {} /\ Quiet /\ record.power # "gone" =>
    (record.status = "running") = (host.state = "up")

\* A request that waits in ensureInstanceApi, or for the vacuum, is answered.
RequestAnswered ==
  "crash" \notin faults =>
    \A r \in Requests :
      caller[r].at \in Waiting ~> caller[r].at \in {"served", "failed"}

\* An instance that stays on, with an owner who may run it, ends up running: a
\* request, an unlock or an edit that comes at a bad time does not leave it down.
StaysWarm ==
  faults \cap {"crash", "spawn"} = {} =>
    (<>[](record.power = "on" /\ record.owner) => <>[](host.state = "up"))

\* An instance that stays off, or is deleted, ends up without a container, also
\* when the event finds it starting, failing, crashed or vacuum-locked.
PowerOffStops == <>[](record.power # "on") => <>[](host.state = "none")

-----------------------------------------------------------------------------
(* What the documents say and the code does not do. *)

\* MEMORY.md: the mirror listener shuts down the running container when power is
\* false or the instance is deleted.  When all is quiet, off means down.
OffIsDown == Quiet /\ record.power # "on" => host.state = "none"

\* MEMORY.md: the vacuum lock blocks spawns while locked.  Warm starts do not
\* look at it, so a container can be made over the files being vacuumed.
LockKeepsDown == locked => host.state = "none"
=============================================================================

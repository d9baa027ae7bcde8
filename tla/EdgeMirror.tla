------------------------------ MODULE EdgeMirror ------------------------------
(***************************************************************************)
(* How an edge daemon follows the power of one instance it did not hear    *)
(* about from the start: the record of the mothership, its realtime        *)
(* events, the dump the mirror asks for at boot and after a reconnection   *)
(* (MothershipMirrorService), the containers that outlive the daemon and   *)
(* are looked up when it boots (reconcilePreservedContainers), and the     *)
(* launches and shutdowns that follow (InstanceService).                   *)
(*                                                                         *)
(* InstanceService.tla has the launches in detail and a stream that loses  *)
(* nothing; here a launch is coarse (the status "live" stands for starting *)
(* and running) and the connection, the daemon and the mothership may fail.*)
(***************************************************************************)
EXTENDS Naturals, Sequences, FiniteSets

CONSTANTS
  Dir,          \* the directories of the instance that a backup holds
  MaxVersion,   \* bound on versions of their content
  MaxToggles,   \* bound on how often a user switches the power
  MaxMishaps,   \* bound on failures
  Environments  \* sets of Hazards; a behaviour meets those of one of the sets

\* "toggle": a user switches the power; "drop": the realtime connection is lost;
\* "loss": a status write is; "launch": a launch fails; "daemon", "mothership":
\* the process restarts; "lookup": a question asked while booting fails; "drain": a
\* container still writes while it stops; "disk": a command or a rename fails;
\* "again": a second operation is asked for, and with "race" at the same time.
Hazards == {"toggle", "drop", "loss", "launch", "daemon", "mothership", "lookup",
            "drain", "disk", "again", "race"}

ASSUME MirrorBounds == {MaxVersion, MaxToggles, MaxMishaps} \subseteq Nat
ASSUME FirstVersion == MaxVersion >= 2
ASSUME SomeDir      == Dir # {}
ASSUME Environment  == Environments \subseteq SUBSET Hazards

VARIABLES
  record,    \* the instance's record: [power, status]
  stream,    \* realtime events under way: the record as it was saved
  link,      \* the daemon's realtime connection
  dump,      \* the mirror's question under way (does the instance live?), or the power
             \* in the answer
  mirror,    \* the mirror's copy of the power
  daemon,    \* [at, launch: what instanceApis holds, shut: to be shut down when ready,
             \* cool: a launch failed less than half a minute ago]
  writes,    \* status writes of the daemon under way
  box,       \* the container
  disk,      \* the content of each directory
  toggles, mishaps, faults,  \* what users and failures did, and what they may do
  blind      \* the daemon in service was not told of a power off

edge == <<record, stream, link, dump, mirror, daemon, writes, box, disk,
          toggles, mishaps, faults, blind>>

Power   == {"on", "off"}
Status  == {"idle", "live"}
Records == [power : Power, status : Status]

\* Contents of a directory: not there, empty, then versions of the data.
Missing == 0
Empty   == 1
Image   == [Dir -> 0..MaxVersion]

DaemonType == [at : {"down", "boot", "adopt", "sync", "wait", "on"},
               launch : {"none", "spawn", "health", "ready"},
               shut : BOOLEAN, cool : BOOLEAN]

EdgeTypeOK ==
  /\ record \in Records
  /\ stream \in Seq(Records)
  /\ link \in {"never", "up", "lost"}
  /\ dump \in Power \cup {"none", "ask", "asklive"}
  /\ mirror \in Power \cup {"unknown"}
  /\ daemon \in DaemonType
  /\ writes \in Seq(Status)
  /\ box \in {"none", "up", "stopping"}
  /\ disk \in Image
  /\ toggles \in 0..MaxToggles
  /\ mishaps \in 0..MaxMishaps
  /\ faults \in Environments
  /\ blind \in BOOLEAN

\* The instance runs, or has been off for a while.
EdgeInit ==
  /\ \/ /\ record = [power |-> "on", status |-> "live"]
        /\ daemon = [at |-> "on", launch |-> "ready", shut |-> FALSE, cool |-> FALSE]
        /\ mirror = "on" /\ box = "up"
     \/ /\ record = [power |-> "off", status |-> "idle"]
        /\ daemon = [at |-> "on", launch |-> "none", shut |-> FALSE, cool |-> FALSE]
        /\ mirror = "off" /\ box = "none"
  /\ stream = <<>> /\ writes = <<>>
  /\ link = "up" /\ dump = "none"
  /\ disk = [d \in Dir |-> 2]
  /\ toggles = 0 /\ mishaps = 0
  /\ faults \in Environments
  /\ blind = FALSE

Mishap(f) == f \in faults /\ mishaps < MaxMishaps /\ mishaps' = mishaps + 1

-----------------------------------------------------------------------------
(* The mothership's record and what it streams. *)

\* The daemon has looked for what it should know: an event it misses is missed.
InService == daemon.at \in {"adopt", "sync", "wait", "on"}

Offs(events) == \E i \in 1..Len(events) : events[i].power = "off"

\* The record is saved, and streamed to a daemon that is connected.
Save(r) ==
  /\ record' = r
  /\ IF link = "up"
     THEN stream' = Append(stream, r) /\ UNCHANGED blind
     ELSE UNCHANGED stream /\ blind' = (blind \/ (InService /\ r.power = "off"))

\* HandleInstanceUpdate of the power.
UserPower(p) ==
  /\ "toggle" \in faults /\ toggles < MaxToggles
  /\ toggles' = toggles + 1
  /\ record.power # p
  /\ Save([record EXCEPT !.power = p])
  /\ UNCHANGED <<link, dump, mirror, daemon, writes, box, disk, mishaps, faults>>

\* A status write of the daemon arrives, or is lost.
Lands ==
  /\ writes # <<>>
  /\ writes' = Tail(writes)
  /\ \/ Save([record EXCEPT !.status = Head(writes)]) /\ UNCHANGED mishaps
     \/ Mishap("loss") /\ UNCHANGED <<record, stream, blind>>
  /\ UNCHANGED <<link, dump, mirror, daemon, box, disk, toggles, faults>>

\* HandleMirrorSync: the statuses are reset, then those of the instances said to
\* live are set if their power is on.
Synced(reset, live) ==
  [record EXCEPT !.status = IF live /\ record.power = "on" THEN "live"
                            ELSE IF reset THEN "idle" ELSE @]

\* The answer to the mirror: the records as they now are.
Dumps(reset, live) ==
  /\ dump' = record.power
  /\ IF Synced(reset, live) = record THEN UNCHANGED <<record, stream, blind>>
     ELSE Save(Synced(reset, live))

Lives == daemon.launch # "none"

-----------------------------------------------------------------------------
(* Launches and shutdowns. *)

\* Whoever updates the mirror creates the directories that are missing.
Ensured == [d \in Dir |-> IF disk[d] = Missing THEN Empty ELSE disk[d]]

Sends(status) == writes' = Append(writes, status)

Launch ==
  /\ daemon' = [daemon EXCEPT !.launch = "spawn", !.shut = FALSE,
                              !.at = "on"]
  /\ Sends("live")

\* api.shutdown(): the status is written before the container is stopped.
Shutdown ==
  /\ daemon' = [daemon EXCEPT !.launch = "none", !.shut = FALSE]
  /\ Sends("idle")
  /\ box' = IF box = "up" THEN "stopping" ELSE box

\* handlePowerOff.
PowersOff(status) ==
  \/ status = "idle" /\ UNCHANGED <<daemon, writes, box>>
  \/ status # "idle" /\ daemon.launch = "ready" /\ Shutdown
  \/ /\ status # "idle" /\ daemon.launch \in {"spawn", "health"}
     /\ daemon' = [daemon EXCEPT !.shut = TRUE]
     /\ UNCHANGED <<writes, box>>
  \/ /\ status # "idle" /\ daemon.launch = "none"
     /\ Sends("idle")
     /\ UNCHANGED <<daemon, box>>

\* Mutant of WarmsUp: an instance whose container still stops is not warmed up.
WarmsUpStopped ==
  \/ /\ daemon.at = "on" /\ daemon.launch = "none" /\ box = "none"
     /\ Launch
  \/ /\ daemon.at # "on" \/ daemon.launch # "none" \/ daemon.cool \/ box # "none"
     /\ UNCHANGED <<daemon, writes>>

\* warmPoweredInstance, which does nothing before the owner is mirrored, and for
\* half a minute after a launch that failed.
WarmsUp ==
  \/ /\ daemon.at = "on" /\ daemon.launch = "none"
     /\ Launch
  \/ /\ daemon.at # "on" \/ daemon.launch # "none" \/ daemon.cool
     /\ UNCHANGED <<daemon, writes>>

\* Mutant of Hears: an event that does not change the power is left alone.
HearsChanges ==
  /\ stream # <<>> /\ daemon.at # "down"
  /\ stream' = Tail(stream)
  /\ mirror' = Head(stream).power
  /\ disk' = Ensured
  /\ IF mirror = Head(stream).power THEN UNCHANGED <<daemon, writes, box>>
     ELSE IF Head(stream).power = "off" THEN PowersOff(Head(stream).status)
     ELSE WarmsUp /\ UNCHANGED box
  /\ UNCHANGED <<record, link, dump, toggles, mishaps, faults, blind>>

\* The realtime subscription's listener.
Hears ==
  /\ stream # <<>> /\ daemon.at # "down"
  /\ stream' = Tail(stream)
  /\ mirror' = Head(stream).power
  /\ disk' = Ensured
  /\ IF Head(stream).power = "off"
     THEN PowersOff(Head(stream).status)
     ELSE WarmsUp /\ UNCHANGED box
  /\ UNCHANGED <<record, link, dump, toggles, mishaps, faults, blind>>

\* An HTTP request raises the instance.
Request ==
  /\ daemon.at = "on" /\ mirror = "on" /\ daemon.launch = "none"
  /\ Launch
  /\ UNCHANGED <<record, stream, link, dump, mirror, box, disk, toggles, mishaps, faults, blind>>

\* pbService.spawn: a container of that name is removed, then one is created.
Spawn ==
  /\ daemon.launch = "spawn"
  /\ \/ box = "up" /\ box' = "stopping" /\ UNCHANGED <<daemon, disk>>
     \/ /\ box = "none" /\ box' = "up"
        /\ daemon' = [daemon EXCEPT !.launch = "health"]
        /\ disk' = Ensured
  /\ UNCHANGED <<record, stream, link, dump, mirror, writes, toggles, mishaps, faults, blind>>

\* An adopted container is ready before the boot goes on.
Settled == IF daemon.at = "adopt" THEN "sync" ELSE daemon.at

\* The health check passes; its preflight looks at the mirror.  A power off that
\* waits for the launch shuts it down at once.
Ready ==
  /\ daemon.launch = "health" /\ box = "up" /\ mirror # "off"
  /\ \/ /\ ~daemon.shut
        /\ daemon' = [daemon EXCEPT !.launch = "ready", !.at = Settled]
        /\ writes' = Append(writes, "live")
        /\ UNCHANGED box
     \/ /\ daemon.shut
        /\ daemon' = [daemon EXCEPT !.launch = "none", !.shut = FALSE, !.at = Settled]
        /\ writes' = writes \o <<"live", "idle">>
        /\ box' = "stopping"
  /\ UNCHANGED <<record, stream, link, dump, mirror, disk, toggles, mishaps, faults, blind>>

LaunchFails ==
  /\ \/ daemon.launch = "health" /\ mirror = "off" /\ UNCHANGED mishaps
     \/ daemon.launch \in {"spawn", "health"} /\ Mishap("launch")
  /\ daemon' = [daemon EXCEPT !.launch = "none", !.shut = FALSE, !.cool = TRUE,
                              !.at = IF @ = "adopt" THEN "boot" ELSE @]
  /\ Sends("idle")
  /\ box' = IF box = "up" THEN "stopping" ELSE box
  /\ UNCHANGED <<record, stream, link, dump, mirror, disk, toggles, faults, blind>>

BoxStops ==
  /\ box = "stopping"
  /\ box' = "none"
  /\ UNCHANGED <<record, stream, link, dump, mirror, daemon, writes, disk, toggles, mishaps, faults, blind>>

\* The instance writes to its directories.
BoxWrites ==
  /\ box = "up" \/ (box = "stopping" /\ "drain" \in faults)
  /\ \E v \in 3..MaxVersion :
       /\ \A d \in Dir : disk[d] < v
       /\ \A w \in 3..MaxVersion : (\A d \in Dir : disk[d] < w) => v <= w
       /\ disk' = [d \in Dir |-> IF disk[d] = Missing THEN Missing ELSE v]
       /\ disk' # disk
  /\ UNCHANGED <<record, stream, link, dump, mirror, daemon, writes, box, toggles, mishaps, faults, blind>>

-----------------------------------------------------------------------------
(* The connection, the daemon and the mothership come and go. *)

Drops ==
  /\ Mishap("drop")
  /\ link = "up" /\ link' = "lost"
  /\ stream' = <<>>
  /\ blind' = (blind \/ (InService /\ Offs(stream)))
  /\ UNCHANGED <<record, dump, mirror, daemon, writes, box, disk, toggles, faults>>

\* PB_CONNECT: silent the first time, then onResynced asks for a dump.
Connects ==
  /\ daemon.at # "down" /\ dump = "none" /\ link # "up"
  /\ link' = "up"
  /\ dump' = IF link = "never" THEN dump ELSE IF Lives THEN "asklive" ELSE "ask"
  /\ UNCHANGED <<record, stream, mirror, daemon, writes, box, disk, toggles, mishaps, faults, blind>>

Resync ==
  /\ dump \in {"ask", "asklive"}
  /\ Dumps(FALSE, dump = "asklive")
  /\ UNCHANGED <<link, mirror, daemon, writes, box, disk, toggles, mishaps, faults>>

\* Docker's containers stay.
DaemonStops ==
  /\ Mishap("daemon")
  /\ daemon.at # "down"
  /\ daemon' = [at |-> "down", launch |-> "none", shut |-> FALSE, cool |-> FALSE]
  /\ link' = "never" /\ stream' = <<>> /\ dump' = "none" /\ writes' = <<>>
  /\ mirror' = "unknown"
  /\ blind' = FALSE
  /\ UNCHANGED <<record, box, disk, toggles, faults>>

DaemonStarts ==
  /\ daemon.at = "down"
  /\ daemon' = [daemon EXCEPT !.at = "boot"]
  /\ UNCHANGED <<record, stream, link, dump, mirror, writes, box, disk, toggles, mishaps, faults, blind>>

\* reconcilePreservedContainers: the record is asked for, and no answer means an
\* orphan; a container that has to stop is waited for.
Reconcile ==
  /\ daemon.at = "boot"
  /\ \/ /\ box = "up" /\ record.power = "on"
        /\ daemon' = [daemon EXCEPT !.at = "adopt", !.launch = "health"]
        /\ UNCHANGED <<box, mishaps, blind>>
     \/ /\ box = "up"
        /\ \/ record.power = "off" /\ UNCHANGED mishaps
           \/ Mishap("lookup")
        /\ box' = "stopping"
        /\ UNCHANGED <<daemon, blind>>
     \/ /\ box = "none"
        /\ daemon' = [daemon EXCEPT !.at = "sync"]
        /\ UNCHANGED <<box, mishaps, blind>>
     \/ /\ Mishap("lookup")
        /\ daemon' = [daemon EXCEPT !.at = "sync"]
        /\ blind' = TRUE
        /\ UNCHANGED box
  /\ UNCHANGED <<record, stream, link, dump, mirror, writes, disk, toggles, faults>>

\* mirror.bootSync({ resetIdle: true, ... }).
BootSync ==
  /\ daemon.at = "sync" /\ dump = "none"
  /\ daemon' = [daemon EXCEPT !.at = "wait"]
  /\ Dumps(TRUE, Lives)
  /\ UNCHANGED <<link, mirror, writes, box, disk, toggles, mishaps, faults>>

\* applyMirrorDump fires no listener; at boot the warm starts follow.
AppliesDump ==
  /\ dump \in Power
  /\ mirror' = dump /\ dump' = "none"
  /\ disk' = Ensured
  /\ \/ daemon.at # "wait" /\ UNCHANGED <<daemon, writes>>
     \/ daemon.at = "wait" /\ dump = "on" /\ daemon.launch = "none" /\ Launch
     \/ /\ daemon.at = "wait" /\ (dump = "off" \/ daemon.launch # "none")
        /\ daemon' = [daemon EXCEPT !.at = "on"] /\ UNCHANGED writes
  /\ UNCHANGED <<record, stream, link, box, toggles, mishaps, faults, blind>>

\* The mothership restarts and resets every status (HandleInstancesResetIdle).
MothershipStops ==
  /\ Mishap("mothership")
  /\ dump = "none"
  /\ record' = [record EXCEPT !.status = "idle"]
  /\ link' = IF link = "up" THEN "lost" ELSE link
  /\ stream' = <<>> /\ writes' = <<>>
  /\ blind' = (blind \/ (InService /\ Offs(stream)))
  /\ UNCHANGED <<dump, mirror, daemon, box, disk, toggles, faults>>

EdgeProgress ==
  Lands \/ Hears \/ Spawn \/ Ready \/ LaunchFails \/ BoxStops
  \/ Connects \/ Resync \/ DaemonStarts \/ Reconcile \/ BootSync \/ AppliesDump

EdgeNext ==
  \/ EdgeProgress \/ Request \/ BoxWrites \/ Drops \/ DaemonStops
  \/ \E p \in Power : UserPower(p)

-----------------------------------------------------------------------------
\* Nothing is under way between the mothership and the daemon.
Quiet == /\ daemon.at = "on" /\ daemon.launch \in {"none", "ready"}
         /\ link = "up" /\ stream = <<>> /\ dump = "none" /\ writes = <<>>

\* Switching an instance off stops its container: a dump that is applied after
\* newer events and a container adopted on an older look-up do no harm, as long
\* as the daemon in service was told, and told a status that is right.
PowerOffObeyed ==
  /\ Quiet /\ record.power = "off" /\ ~blind
  /\ faults \cap {"loss", "mothership"} = {}
  => box # "up"
=============================================================================

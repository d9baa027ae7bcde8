------------------------- MODULE InstanceBackupProofs -------------------------
(***************************************************************************)
(* Theorems about InstanceBackup, for any number of operations, backups,   *)
(* directories, switches of the power and failures, and any of the faults. *)
(* The theorems that need the container to be stopped are in               *)
(* InstanceBackupStopProofs; liveness stays with TLC.                      *)
(*                                                                         *)
(* Three arguments.  An operation that has something to lose is the only   *)
(* one that may touch the directories (OneAtATime), because the record it  *)
(* wrote says running as long as it is under way (HeldFits) and every      *)
(* other one has to see that it does not.  The edge daemon and the         *)
(* container only add to a directory.  So what a restore found can be      *)
(* followed through its renames (KeptFits).                                *)
(*                                                                         *)
(* A container that is up is followed to the power off that concerns it:   *)
(* the daemon has it registered, or is raising it, and an event that stops *)
(* it is on its way or the status tells the one that comes to act          *)
(* (PowerInv).                                                             *)
(*                                                                         *)
(* Alone, and when nobody else switches it, an operation finds the power   *)
(* as it noted it, keeps it off while it works and then has given it back  *)
(* (PowersFit).                                                            *)
(***************************************************************************)
EXTENDS InstanceBackup, TLAPS, SequenceTheorems

-----------------------------------------------------------------------------
(* The inductive invariant. *)

\* Where only a restore goes, and what its loops rely on.
OfRestore == {"guard", "halt", "unpack", "aside", "install", "undo", "back", "commit", "fail"}

Shaped(p) ==
  /\ op[p].at \in OfRestore => op[p].kind = "restore"
  /\ op[p].kind = "restore" => op[p].from \in Backup
  /\ op[p].at \in {"aside", "install"} => op[p].todo # {}

ShapeFits == \A p \in Op : Shaped(p)

\* An operation stands in the way of others until it is over; a backup until its
\* record is complete.
Holds(p) ==
  op[p].at \in Working /\ (op[p].kind = "restore" \/ op[p].at \notin {"restart", "end"})

Held(p) ==
  Holds(p) /\ op[p].at # "begin" =>
    \/ op[p].kind = "restore" /\ backup[op[p].from].restoring = "running"
    \/ /\ op[p].kind = "backup" /\ op[p].made \in Backup
       /\ backup[op[p].made].status = "running"

HeldFits == "race" \notin faults => \A p \in Op : Held(p)

\* Operations begin in their order, and none before the ones in the way are over.
OneAtATime ==
  "race" \notin faults =>
    \A p, q \in Op : q < p /\ op[p].at # "rest" => op[q].at # "rest" /\ ~Holds(q)

Last(p) == \A q \in Op : q > p => op[q].at = "rest"

\* What was found in d is aside, or in its place.
IsAside(p, d) == op[p].aside[d] # Missing /\ op[p].aside[d] >= op[p].seen[d]
InPlace(p, d) == disk[d] >= op[p].seen[d]

Kept(p) ==
  /\ op[p].at \notin {"aside", "install", "undo", "back", "commit", "fail", "failed", "dead"}
       => op[p].moved = {}
  /\ op[p].at = "aside" => \A d \in op[p].todo : InPlace(p, d)
  /\ op[p].at \in {"aside", "install", "undo", "commit"} =>
       \A d \in op[p].moved : IsAside(p, d)
  /\ op[p].at = "back" => \A d \in op[p].moved \cap op[p].todo : IsAside(p, d)
  /\ op[p].at \in {"back", "fail", "failed", "dead"} /\ Last(p) =>
       \A d \in op[p].moved : op[p].aside[d] # Missing \/ InPlace(p, d)

KeptFits == "race" \notin faults => \A p \in Op : Kept(p)

IInv == TypeOK /\ ShapeFits /\ HeldFits /\ OneAtATime /\ KeptFits

-----------------------------------------------------------------------------
(* What a step of the edge leaves: its types, and directories that only gain. *)

Gains == /\ faults' = faults
         /\ \A d \in Dir : disk'[d] >= disk[d]

LEMMA SaveFits ==
  ASSUME EdgeTypeOK, NEW r \in Records, Save(r)
  PROVE  record' \in Records /\ stream' \in Seq(Records) /\ blind' \in BOOLEAN
<1>1. CASE link = "up"
  <2>1. stream \in Seq(Records) /\ blind \in BOOLEAN
    BY DEF EdgeTypeOK
  <2>2. record' = r /\ stream' = Append(stream, r) /\ blind' = blind
    BY <1>1 DEF Save
  <2> QED BY <2>1, <2>2
<1>2. CASE link # "up"
  BY <1>2 DEF Save, EdgeTypeOK
<1> QED BY <1>1, <1>2

LEMMA EnsuredFits ==
  ASSUME EdgeTypeOK
  PROVE  Ensured \in Image /\ \A d \in Dir : Ensured[d] >= disk[d]
BY FirstVersion, MirrorBounds DEF EdgeTypeOK, Ensured, Image, Missing, Empty

LEMMA MishapFits ==
  ASSUME EdgeTypeOK, NEW f, Mishap(f)
  PROVE  mishaps' \in 0..MaxMishaps
BY MirrorBounds DEF EdgeTypeOK, Mishap

LEMMA QueueFits ==
  ASSUME NEW S, NEW s \in Seq(S), s # <<>>
  PROVE  Head(s) \in S /\ Tail(s) \in Seq(S)
OBVIOUS

LEMMA DumpsFit ==
  ASSUME EdgeTypeOK, NEW reset \in BOOLEAN, NEW live \in BOOLEAN, Dumps(reset, live)
  PROVE  /\ record' \in Records /\ stream' \in Seq(Records) /\ blind' \in BOOLEAN
         /\ dump' \in Power \cup {"none", "ask", "asklive"}
<1>1. Synced(reset, live) \in Records
  BY DEF Synced, EdgeTypeOK, Records, Power, Status
<1>2. CASE Synced(reset, live) = record
  BY <1>2 DEF Dumps, EdgeTypeOK, Records
<1>3. CASE Synced(reset, live) # record
  BY <1>1, <1>3, SaveFits DEF Dumps, EdgeTypeOK, Records
<1> QED BY <1>2, <1>3

LEMMA SendsFits ==
  ASSUME EdgeTypeOK, NEW s \in Status, Sends(s)
  PROVE  writes' \in Seq(Status)
BY DEF EdgeTypeOK, Sends

LEMMA LaunchFits ==
  ASSUME EdgeTypeOK, Launch
  PROVE  daemon' \in DaemonType /\ writes' \in Seq(Status)
BY SendsFits DEF Launch, EdgeTypeOK, DaemonType, Status

LEMMA LandsFits == ASSUME EdgeTypeOK, Lands PROVE EdgeTypeOK' /\ Gains
<1>1. Head(writes) \in Status /\ writes' \in Seq(Status)
  BY QueueFits DEF Lands, EdgeTypeOK
<1>2. /\ record' \in Records /\ stream' \in Seq(Records) /\ blind' \in BOOLEAN
      /\ mishaps' \in 0..MaxMishaps
  <2>1. CASE Save([record EXCEPT !.status = Head(writes)]) /\ UNCHANGED mishaps
    <3>1. [record EXCEPT !.status = Head(writes)] \in Records
      BY <1>1 DEF EdgeTypeOK, Records
    <3> QED BY <2>1, <3>1, SaveFits DEF EdgeTypeOK
  <2>2. CASE Mishap("loss") /\ UNCHANGED <<record, stream, blind>>
    BY <2>2, MishapFits DEF EdgeTypeOK
  <2> QED BY <2>1, <2>2 DEF Lands
<1>3. UNCHANGED <<link, dump, mirror, daemon, box, disk, toggles, faults>>
  BY DEF Lands
<1> QED BY <1>1, <1>2, <1>3 DEF EdgeTypeOK, Gains, Image

LEMMA UserPowerFits ==
  ASSUME EdgeTypeOK, NEW q \in Power, UserPower(q) PROVE EdgeTypeOK' /\ Gains
<1>1. [record EXCEPT !.power = q] \in Records
  BY DEF EdgeTypeOK, Records
<1>2. record' \in Records /\ stream' \in Seq(Records) /\ blind' \in BOOLEAN
  BY <1>1, SaveFits DEF UserPower
<1>3. toggles' \in 0..MaxToggles
  BY MirrorBounds DEF UserPower, EdgeTypeOK
<1>4. UNCHANGED <<link, dump, mirror, daemon, writes, box, disk, mishaps, faults>>
  BY DEF UserPower
<1> QED BY <1>2, <1>3, <1>4 DEF EdgeTypeOK, Gains, Image

LEMMA ShutdownFits ==
  ASSUME EdgeTypeOK, Shutdown
  PROVE  daemon' \in DaemonType /\ writes' \in Seq(Status) /\ box' \in {"none", "up", "stopping"}
<1>1. writes' \in Seq(Status)
  BY SendsFits DEF Shutdown, Status
<1>2. daemon' \in DaemonType
  BY DEF Shutdown, EdgeTypeOK, DaemonType
<1> QED BY <1>1, <1>2 DEF Shutdown, EdgeTypeOK

LEMMA HearsFits == ASSUME EdgeTypeOK, Hears PROVE EdgeTypeOK' /\ Gains
<1>1. Head(stream) \in Records /\ stream' \in Seq(Records)
  BY QueueFits DEF Hears, EdgeTypeOK
<1>2. mirror' \in Power \cup {"unknown"}
  BY <1>1 DEF Hears, Records
<1>3. disk' \in Image /\ \A d \in Dir : disk'[d] >= disk[d]
  BY EnsuredFits DEF Hears
<1>4. daemon' \in DaemonType /\ writes' \in Seq(Status) /\ box' \in {"none", "up", "stopping"}
  <2>1. CASE Head(stream).power = "off"
    <3>1. PowersOff(Head(stream).status)
      BY <2>1 DEF Hears
    <3>2. CASE UNCHANGED <<daemon, writes, box>>
      BY <3>2 DEF EdgeTypeOK
    <3>3. CASE Shutdown
      BY <3>3, ShutdownFits
    <3>4. CASE daemon' = [daemon EXCEPT !.shut = TRUE] /\ UNCHANGED <<writes, box>>
      BY <3>4 DEF EdgeTypeOK, DaemonType
    <3>5. CASE Sends("idle") /\ UNCHANGED <<daemon, box>>
      BY <3>5, SendsFits DEF EdgeTypeOK, Status
    <3> QED BY <3>1, <3>2, <3>3, <3>4, <3>5 DEF PowersOff
  <2>2. CASE Head(stream).power # "off"
    <3>1. WarmsUp /\ UNCHANGED box
      BY <2>2 DEF Hears
    <3>2. CASE Launch
      BY <3>1, <3>2, LaunchFits DEF EdgeTypeOK
    <3>3. CASE UNCHANGED <<daemon, writes>>
      BY <3>1, <3>3 DEF EdgeTypeOK
    <3> QED BY <3>1, <3>2, <3>3 DEF WarmsUp
  <2> QED BY <2>1, <2>2
<1>5. UNCHANGED <<record, link, dump, toggles, mishaps, faults, blind>>
  BY DEF Hears
<1> QED BY <1>1, <1>2, <1>3, <1>4, <1>5 DEF EdgeTypeOK, Gains

LEMMA RequestFits == ASSUME EdgeTypeOK, Request PROVE EdgeTypeOK' /\ Gains
BY LaunchFits DEF Request, EdgeTypeOK, Gains, Image

LEMMA SpawnFits == ASSUME EdgeTypeOK, Spawn PROVE EdgeTypeOK' /\ Gains
<1>1. CASE box' = "stopping" /\ UNCHANGED <<daemon, disk>>
  BY <1>1 DEF Spawn, EdgeTypeOK, Gains, Image
<1>2. CASE /\ box' = "up" /\ daemon' = [daemon EXCEPT !.launch = "health"]
           /\ disk' = Ensured
  <2>1. daemon' \in DaemonType
    BY <1>2 DEF EdgeTypeOK, DaemonType
  <2> QED BY <1>2, <2>1, EnsuredFits DEF Spawn, EdgeTypeOK, Gains
<1> QED BY <1>1, <1>2 DEF Spawn

LEMMA ReadyFits == ASSUME EdgeTypeOK, Ready PROVE EdgeTypeOK' /\ Gains
<1>1. Settled \in {"down", "boot", "adopt", "sync", "wait", "on"}
  BY DEF Settled, EdgeTypeOK, DaemonType
<1>2. daemon' \in DaemonType
  BY <1>1 DEF Ready, EdgeTypeOK, DaemonType
<1>3. writes' \in Seq(Status) /\ box' \in {"none", "up", "stopping"}
  <2>1. writes \in Seq(Status) /\ <<"live", "idle">> \in Seq(Status)
    BY DEF EdgeTypeOK, Status
  <2>2. CASE writes' = Append(writes, "live") /\ UNCHANGED box
    BY <2>1, <2>2 DEF EdgeTypeOK, Status
  <2>3. CASE writes' = writes \o <<"live", "idle">> /\ box' = "stopping"
    BY <2>1, <2>3
  <2> QED BY <2>2, <2>3 DEF Ready
<1>4. UNCHANGED <<record, stream, link, dump, mirror, disk, toggles, mishaps, faults, blind>>
  BY DEF Ready
<1> QED BY <1>2, <1>3, <1>4 DEF EdgeTypeOK, Gains, Image

LEMMA LaunchFailsFits == ASSUME EdgeTypeOK, LaunchFails PROVE EdgeTypeOK' /\ Gains
<1>1. mishaps' \in 0..MaxMishaps
  <2>1. CASE UNCHANGED mishaps
    BY <2>1 DEF EdgeTypeOK
  <2>2. CASE Mishap("launch")
    BY <2>2, MishapFits
  <2> QED BY <2>1, <2>2 DEF LaunchFails
<1>2. writes' \in Seq(Status)
  BY SendsFits DEF LaunchFails, Status
<1>3. daemon' \in DaemonType
  BY DEF LaunchFails, EdgeTypeOK, DaemonType
<1>4. box' \in {"none", "up", "stopping"}
  BY DEF LaunchFails, EdgeTypeOK
<1>5. UNCHANGED <<record, stream, link, dump, mirror, disk, toggles, faults, blind>>
  BY DEF LaunchFails
<1> QED BY <1>1, <1>2, <1>3, <1>4, <1>5 DEF EdgeTypeOK, Gains, Image

LEMMA BoxFits == ASSUME EdgeTypeOK, BoxStops \/ BoxWrites PROVE EdgeTypeOK' /\ Gains
<1>1. CASE BoxStops
  BY <1>1 DEF BoxStops, EdgeTypeOK, Gains, Image
<1>2. CASE BoxWrites
  <2>1. PICK v \in 3..MaxVersion :
          /\ \A d \in Dir : disk[d] < v
          /\ disk' = [d \in Dir |-> IF disk[d] = Missing THEN Missing ELSE v]
    BY <1>2 DEF BoxWrites
  <2>2. disk \in Image
    BY DEF EdgeTypeOK
  <2>3. disk' \in Image /\ \A d \in Dir : disk'[d] >= disk[d]
    BY <2>1, <2>2, MirrorBounds DEF Image, Missing
  <2>4. UNCHANGED <<record, stream, link, dump, mirror, daemon, writes, box, toggles, mishaps, faults, blind>>
    BY <1>2 DEF BoxWrites
  <2> QED BY <2>3, <2>4 DEF EdgeTypeOK, Gains
<1> QED BY <1>1, <1>2

LEMMA DropsFits == ASSUME EdgeTypeOK, Drops PROVE EdgeTypeOK' /\ Gains
<1>1. mishaps' \in 0..MaxMishaps
  BY MishapFits DEF Drops
<1>2. blind' \in BOOLEAN
  BY DEF Drops
<1>3. stream' \in Seq(Records) /\ link' = "lost"
  BY DEF Drops
<1>4. UNCHANGED <<record, dump, mirror, daemon, writes, box, disk, toggles, faults>>
  BY DEF Drops
<1> QED BY <1>1, <1>2, <1>3, <1>4 DEF EdgeTypeOK, Gains, Image

LEMMA ConnectsFits == ASSUME EdgeTypeOK, Connects \/ Resync PROVE EdgeTypeOK' /\ Gains
<1>1. CASE Connects
  <2>1. link' = "up" /\ dump' \in Power \cup {"none", "ask", "asklive"}
    BY <1>1 DEF Connects, EdgeTypeOK
  <2> QED BY <1>1, <2>1 DEF Connects, EdgeTypeOK, Gains, Image
<1>2. CASE Resync
  <2>1. FALSE \in BOOLEAN /\ (dump = "asklive") \in BOOLEAN
    OBVIOUS
  <2>2. /\ record' \in Records /\ stream' \in Seq(Records) /\ blind' \in BOOLEAN
        /\ dump' \in Power \cup {"none", "ask", "asklive"}
    BY <1>2, <2>1, DumpsFit DEF Resync
  <2> QED BY <1>2, <2>2 DEF Resync, EdgeTypeOK, Gains, Image
<1> QED BY <1>1, <1>2

LEMMA DaemonFits ==
  ASSUME EdgeTypeOK, DaemonStops \/ DaemonStarts PROVE EdgeTypeOK' /\ Gains
<1>1. CASE DaemonStops
  <2>1. mishaps' \in 0..MaxMishaps
    BY <1>1, MishapFits DEF DaemonStops
  <2>2. daemon' \in DaemonType
    BY <1>1 DEF DaemonStops, DaemonType
  <2>3. stream' \in Seq(Records) /\ writes' \in Seq(Status)
    BY <1>1 DEF DaemonStops
  <2>4. blind' \in BOOLEAN
    BY <1>1, Zenon DEF DaemonStops
  <2>5. /\ link' = "never" /\ dump' = "none" /\ mirror' = "unknown"
        /\ UNCHANGED <<record, box, disk, toggles, faults>>
    BY <1>1 DEF DaemonStops
  <2> QED BY <2>1, <2>2, <2>3, <2>4, <2>5 DEF EdgeTypeOK, Gains, Image
<1>2. CASE DaemonStarts
  <2>1. daemon' \in DaemonType
    BY <1>2 DEF DaemonStarts, EdgeTypeOK, DaemonType
  <2>2. UNCHANGED <<record, stream, link, dump, mirror, writes, box, disk, toggles, mishaps, faults, blind>>
    BY <1>2 DEF DaemonStarts
  <2> QED BY <2>1, <2>2 DEF EdgeTypeOK, Gains, Image
<1> QED BY <1>1, <1>2

LEMMA ReconcileFits == ASSUME EdgeTypeOK, Reconcile PROVE EdgeTypeOK' /\ Gains
<1>1. mishaps' \in 0..MaxMishaps
  <2>1. CASE UNCHANGED mishaps
    BY <2>1 DEF EdgeTypeOK
  <2>2. CASE Mishap("lookup")
    BY <2>2, MishapFits
  <2> QED BY <2>1, <2>2 DEF Reconcile
<1>2. daemon' \in DaemonType
  BY DEF Reconcile, EdgeTypeOK, DaemonType
<1>3. box' \in {"none", "up", "stopping"} /\ blind' \in BOOLEAN
  BY DEF Reconcile, EdgeTypeOK
<1>4. UNCHANGED <<record, stream, link, dump, mirror, writes, disk, toggles, faults>>
  BY DEF Reconcile
<1> QED BY <1>1, <1>2, <1>3, <1>4 DEF EdgeTypeOK, Gains, Image

LEMMA BootFits ==
  ASSUME EdgeTypeOK, BootSync \/ AppliesDump PROVE EdgeTypeOK' /\ Gains
<1>1. CASE BootSync
  <2>1. TRUE \in BOOLEAN /\ Lives \in BOOLEAN
    BY DEF Lives
  <2>2. /\ record' \in Records /\ stream' \in Seq(Records) /\ blind' \in BOOLEAN
        /\ dump' \in Power \cup {"none", "ask", "asklive"}
    BY <1>1, <2>1, DumpsFit DEF BootSync
  <2>3. daemon' \in DaemonType
    BY <1>1 DEF BootSync, EdgeTypeOK, DaemonType
  <2> QED BY <1>1, <2>2, <2>3 DEF BootSync, EdgeTypeOK, Gains, Image
<1>2. CASE AppliesDump
  <2>1. disk' \in Image /\ \A d \in Dir : disk'[d] >= disk[d]
    BY <1>2, EnsuredFits DEF AppliesDump
  <2>2. mirror' \in Power \cup {"unknown"} /\ dump' = "none"
    BY <1>2 DEF AppliesDump
  <2>3. daemon' \in DaemonType /\ writes' \in Seq(Status)
    <3>1. CASE UNCHANGED <<daemon, writes>>
      BY <3>1 DEF EdgeTypeOK
    <3>2. CASE Launch
      BY <3>2, LaunchFits
    <3>3. CASE daemon' = [daemon EXCEPT !.at = "on"] /\ UNCHANGED writes
      BY <3>3 DEF EdgeTypeOK, DaemonType
    <3> QED BY <1>2, <3>1, <3>2, <3>3 DEF AppliesDump
  <2> QED BY <1>2, <2>1, <2>2, <2>3 DEF AppliesDump, EdgeTypeOK, Gains
<1> QED BY <1>1, <1>2

LEMMA EdgeFits == ASSUME EdgeTypeOK, EdgeNext PROVE EdgeTypeOK' /\ Gains
BY LandsFits, UserPowerFits, HearsFits, RequestFits, SpawnFits, ReadyFits, LaunchFailsFits,
   BoxFits, DropsFits, ConnectsFits, DaemonFits, ReconcileFits, BootFits
   DEF EdgeNext, EdgeProgress

LEMMA MothershipFits ==
  ASSUME EdgeTypeOK, MothershipStops PROVE EdgeTypeOK' /\ Gains /\ disk' = disk
<1>1. mishaps' \in 0..MaxMishaps
  BY MishapFits DEF MothershipStops
<1>2. record' \in Records
  BY DEF MothershipStops, EdgeTypeOK, Records, Status
<1>3. link' \in {"never", "up", "lost"}
  BY DEF MothershipStops, EdgeTypeOK
<1>4. stream' \in Seq(Records) /\ writes' \in Seq(Status) /\ blind' \in BOOLEAN
  BY DEF MothershipStops
<1>5. UNCHANGED <<dump, mirror, daemon, box, disk, toggles, faults>>
  BY DEF MothershipStops
<1> QED BY <1>1, <1>2, <1>3, <1>4, <1>5 DEF EdgeTypeOK, Gains, Image

-----------------------------------------------------------------------------
(* What a step of an operation leaves: types, and the other operations. *)

Own(p) ==
  /\ faults' = faults
  /\ op[p].at \in Working /\ op'[p].at # "rest"
  /\ op'[p].kind = op[p].kind /\ op'[p].from = op[p].from
  /\ \A q \in Op \ {p} : op'[q] = op[q]

OpsFit == /\ op' \in [Op -> OpType]
          /\ backup' \in [Backup -> BackupType]

LEMMA Opens ==
  ASSUME TypeOK
  PROVE  /\ EdgeTypeOK /\ disk \in Image /\ mishaps \in 0..MaxMishaps
         /\ op \in [Op -> OpType] /\ backup \in [Backup -> BackupType]
BY DEF TypeOK, EdgeTypeOK

LEMMA FrameFits ==
  ASSUME EdgeTypeOK, UNCHANGED edgeOnly,
         record' \in Records, stream' \in Seq(Records), blind' \in BOOLEAN,
         disk' \in Image, mishaps' \in 0..MaxMishaps
  PROVE  EdgeTypeOK'
BY DEF EdgeTypeOK, edgeOnly

LEMMA FilesFrame ==
  ASSUME EdgeTypeOK, UNCHANGED <<record, stream, blind, edgeOnly>>,
         disk' \in Image, mishaps' \in 0..MaxMishaps
  PROVE  EdgeTypeOK'
BY FrameFits DEF EdgeTypeOK

LEMMA SavedFrame ==
  ASSUME EdgeTypeOK, UNCHANGED <<edgeOnly, disk>>, NEW r \in Records,
         Save(r) \/ UNCHANGED <<record, stream, blind>>, mishaps' \in 0..MaxMishaps
  PROVE  EdgeTypeOK'
<1>1. record' \in Records /\ stream' \in Seq(Records) /\ blind' \in BOOLEAN
  <2>1. CASE Save(r)
    BY <2>1, SaveFits
  <2>2. CASE UNCHANGED <<record, stream, blind>>
    BY <2>2 DEF EdgeTypeOK
  <2> QED BY <2>1, <2>2
<1>2. disk' \in Image
  BY DEF EdgeTypeOK
<1> QED BY <1>1, <1>2, FrameFits

LEMMA EdgeFrame == ASSUME EdgeTypeOK, UNCHANGED edge PROVE EdgeTypeOK'
BY DEF EdgeTypeOK, edge, Image

LEMMA GotoFits ==
  ASSUME op \in [Op -> OpType], NEW p \in Op, op[p].at \in Working,
         NEW place \in Working \cup {"done", "failed"}, Goto(p, place)
  PROVE  /\ op' \in [Op -> OpType] /\ op'[p] = [op[p] EXCEPT !.at = place]
         /\ op'[p].at = place /\ place # "rest"
         /\ \A q \in Op \ {p} : op'[q] = op[q]
<1>1. op[p] \in OpType
  OBVIOUS
<1>2. [op[p] EXCEPT !.at = place] \in OpType
  BY <1>1 DEF OpType
<1>3. place # "rest"
  BY DEF Working, Files
<1> QED BY <1>1, <1>2, <1>3 DEF Goto, OpType

LEMMA GotoOwns ==
  ASSUME op \in [Op -> OpType], NEW p \in Op, op[p].at \in Working,
         NEW place \in Working \cup {"done", "failed"}, Goto(p, place), faults' = faults
  PROVE  op' \in [Op -> OpType] /\ Own(p)
<1>1. op[p] \in OpType
  OBVIOUS
<1>2. /\ op' \in [Op -> OpType] /\ op'[p] = [op[p] EXCEPT !.at = place]
      /\ op'[p].at # "rest"
      /\ \A q \in Op \ {p} : op'[q] = op[q]
  BY GotoFits
<1>3. op'[p].kind = op[p].kind /\ op'[p].from = op[p].from
  BY <1>1, <1>2 DEF OpType
<1> QED BY <1>2, <1>3 DEF Own

LEMMA BeginsFit ==
  ASSUME NEW t \in OpType, NEW kind \in {"backup", "restore"}, NEW from \in Backup \cup {0},
         NEW r \in BOOLEAN, NEW c \in BOOLEAN, NEW n \in Nat
  PROVE  [t EXCEPT !.at = "begin", !.kind = kind, !.from = from, !.restart = r,
                   !.calm = c, !.since = n] \in OpType
<1>1. [t EXCEPT !.at = "begin"] \in OpType
  BY DEF OpType, Working
<1>2. \A u \in OpType : [u EXCEPT !.kind = kind, !.from = from] \in OpType
  BY DEF OpType
<1>3. \A u \in OpType : [u EXCEPT !.restart = r, !.calm = c] \in OpType
  BY DEF OpType
<1>4. \A u \in OpType : [u EXCEPT !.since = n] \in OpType
  BY DEF OpType
<1> DEFINE u == [[[[t EXCEPT !.at = "begin"]
                     EXCEPT !.kind = kind, !.from = from]
                     EXCEPT !.restart = r, !.calm = c]
                     EXCEPT !.since = n]
<1>5. u \in OpType
  BY <1>1, <1>2, <1>3, <1>4
<1>6. u = [t EXCEPT !.at = "begin", !.kind = kind, !.from = from, !.restart = r,
                   !.calm = c, !.since = n]
  BY DEF OpType
<1> QED BY <1>5, <1>6

LEMMA CheckFits == ASSUME TypeOK, NEW p \in Op, Check(p) PROVE EdgeTypeOK' /\ OpsFit
<1>1. EdgeTypeOK'
  BY EdgeFrame, Opens DEF Check
<1>2. backup' \in [Backup -> BackupType]
  BY Opens DEF Check
<1>3. PICK kind \in {"backup", "restore"}, b \in Backup :
        op' = [op EXCEPT ![p] =
                 [@ EXCEPT !.at = "begin", !.kind = kind,
                           !.from = IF kind = "restore" THEN b ELSE 0,
                           !.restart = (record.power = "on"),
                           !.calm = Calm, !.since = toggles]]
  BY DEF Check
<1>4. toggles \in Nat
  BY Opens, MirrorBounds DEF EdgeTypeOK
<1>5. Calm \in BOOLEAN /\ (record.power = "on") \in BOOLEAN
  BY DEF Calm, Quiet
<1>6. op[p] \in OpType
  BY Opens
<1>7. ASSUME NEW from \in Backup \cup {0}, NEW r \in BOOLEAN, NEW c \in BOOLEAN, NEW n \in Nat
      PROVE  [op[p] EXCEPT !.at = "begin", !.kind = kind, !.from = from, !.restart = r,
                           !.calm = c, !.since = n] \in OpType
  BY <1>6, <1>7, BeginsFit, Zenon
<1>8. op' \in [Op -> OpType]
  <2> DEFINE from == IF kind = "restore" THEN b ELSE 0
             o == [op[p] EXCEPT !.at = "begin", !.kind = kind, !.from = from,
                                !.restart = (record.power = "on"), !.calm = Calm, !.since = toggles]
  <2>1. o \in OpType
    <3>1. from \in Backup \cup {0}
      OBVIOUS
    <3> HIDE DEF from
    <3> QED BY <1>4, <1>5, <1>7, <3>1
  <2>2. op' = [op EXCEPT ![p] = o]
    BY <1>3
  <2> HIDE DEF o
  <2> QED BY <2>1, <2>2, Opens
<1> QED BY <1>1, <1>2, <1>8 DEF OpsFit

LEMMA SetsOwn ==
  ASSUME op \in [Op -> OpType], NEW p \in Op, op[p].at \in Working, faults' = faults,
         NEW o \in OpType, o.at # "rest", o.kind = op[p].kind, o.from = op[p].from,
         op' = [op EXCEPT ![p] = o]
  PROVE  op' \in [Op -> OpType] /\ op'[p] = o /\ Own(p)
<1>1. op' \in [Op -> OpType] /\ op'[p] = o /\ \A q \in Op \ {p} : op'[q] = op[q]
  OBVIOUS
<1> QED BY <1>1 DEF Own

LEMMA WorkPlaces ==
  /\ Working \cup {"done", "failed"} =
       {"copy", "pack", "unpack", "aside", "install", "undo", "back", "begin", "stop", "wait",
        "guard", "halt", "commit", "fail", "restart", "end", "done", "failed"}
BY DEF Working, Files

LEMMA BeginFits ==
  ASSUME TypeOK, ShapeFits, NEW p \in Op, Begin(p)
  PROVE  EdgeTypeOK' /\ OpsFit /\ Own(p) /\ Shaped(p)'
<1>1. EdgeTypeOK' /\ faults' = faults
  BY EdgeFrame, Opens DEF Begin, edge
<1>2. op[p] \in OpType /\ op[p].at \in Working /\ Shaped(p)
  BY Opens DEF Begin, At, Working, ShapeFits
<1>3. CASE op[p].kind = "backup"
  <2>1. PICK b \in Backup :
          /\ backup' = [backup EXCEPT ![b].status = "running"]
          /\ op' = [op EXCEPT ![p] = [@ EXCEPT !.at = "stop", !.made = b]]
    BY <1>3 DEF Begin
  <2>2. [op[p] EXCEPT !.at = "stop", !.made = b] \in OpType
    BY <1>2 DEF OpType, Working
  <2>3. op' = [op EXCEPT ![p] = [op[p] EXCEPT !.at = "stop", !.made = b]]
    BY <2>1, Opens DEF OpType
  <2>4. op' \in [Op -> OpType] /\ op'[p] = [op[p] EXCEPT !.at = "stop", !.made = b] /\ Own(p)
    BY <1>1, <1>2, <2>2, <2>3, SetsOwn, Opens DEF OpType
  <2>5. backup' \in [Backup -> BackupType]
    BY <2>1, Opens DEF BackupType
  <2>6. op'[p].at = "stop"
    BY <1>2, <2>4 DEF OpType
  <2>7. Shaped(p)'
    BY <1>2, <2>4, <2>6 DEF Shaped, Own, OfRestore
  <2> QED BY <1>1, <2>4, <2>5, <2>7 DEF OpsFit
<1>4. CASE op[p].kind = "restore"
  <2>1. backup' = [backup EXCEPT ![op[p].from].restoring = "running"] /\ Goto(p, "stop")
    BY <1>2, <1>4 DEF Begin
  <2>2. op' \in [Op -> OpType] /\ Own(p) /\ op'[p].at = "stop"
    BY <1>1, <1>2, <2>1, GotoFits, GotoOwns, Opens, WorkPlaces
  <2>3. backup' \in [Backup -> BackupType]
    BY <2>1, Opens DEF BackupType
  <2>4. Shaped(p)'
    BY <1>2, <2>2 DEF Shaped, Own, OfRestore
  <2> QED BY <1>1, <2>2, <2>3, <2>4 DEF OpsFit
<1> QED BY <1>2, <1>3, <1>4 DEF OpType

\* A step that only changes the place of an operation.
LEMMA Moves ==
  ASSUME TypeOK, ShapeFits, NEW p \in Op, op[p].at \in Working,
         NEW place \in (Working \cup {"done", "failed"}) \ {"aside", "install"},
         place \in OfRestore => op[p].kind = "restore",
         Goto(p, place), EdgeTypeOK', faults' = faults, backup' \in [Backup -> BackupType]
  PROVE  /\ EdgeTypeOK' /\ OpsFit /\ Own(p) /\ Shaped(p)'
         /\ op'[p] = [op[p] EXCEPT !.at = place]
<1>1. op' \in [Op -> OpType] /\ Own(p) /\ op'[p] = [op[p] EXCEPT !.at = place] /\ op'[p].at = place
  BY GotoFits, GotoOwns, Opens
<1>2. Shaped(p)'
  BY <1>1 DEF Shaped, Own, ShapeFits
<1> QED BY <1>1, <1>2 DEF OpsFit

LEMMA StopFits ==
  ASSUME TypeOK, ShapeFits, NEW p \in Op, Stop(p) \/ Insist(p)
  PROVE  EdgeTypeOK' /\ OpsFit /\ Own(p) /\ Shaped(p)'
<1>1. [record EXCEPT !.power = "off"] \in Records
  BY Opens DEF EdgeTypeOK, Records, Power
<1>2. EdgeTypeOK' /\ faults' = faults
  <2>1. UNCHANGED <<edgeOnly, disk>> /\ mishaps' \in 0..MaxMishaps
    BY Opens DEF Stop, Insist
  <2>2. Save([record EXCEPT !.power = "off"]) \/ UNCHANGED <<record, stream, blind>>
    BY DEF Stop, Insist
  <2> QED BY <1>1, <2>1, <2>2, SavedFrame, Opens DEF edgeOnly
<1>3. backup' \in [Backup -> BackupType] /\ op[p].at \in Working /\ op[p] \in OpType
  BY Opens DEF Stop, Insist, Waits, At, Working
<1>4. CASE Stop(p)
  BY <1>2, <1>3, <1>4, Moves, WorkPlaces DEF Stop, OfRestore
<1>5. CASE Insist(p)
  <2>1. op' = op
    BY <1>5 DEF Insist
  <2>2. op[p].at # "rest"
    BY <1>5 DEF Insist, Waits
  <2> QED BY <1>2, <1>3, <2>1, <2>2, Opens DEF OpsFit, Own, ShapeFits, Shaped
<1> QED BY <1>4, <1>5

LEMMA HaltedFits ==
  ASSUME TypeOK, ShapeFits, NEW p \in Op, Halted(p)
  PROVE  EdgeTypeOK' /\ OpsFit /\ Own(p) /\ Shaped(p)'
<1>1. EdgeTypeOK' /\ faults' = faults /\ backup' \in [Backup -> BackupType]
  BY EdgeFrame, Opens DEF Halted, edge
<1>2. op[p].at \in Working
  BY DEF Halted, Waits, Working
<1>3. CASE Goto(p, "guard") /\ op[p].kind = "restore"
  BY <1>1, <1>2, <1>3, Moves, WorkPlaces
<1>4. CASE Goto(p, "copy")
  BY <1>1, <1>2, <1>4, Moves, WorkPlaces DEF OfRestore
<1> QED BY <1>3, <1>4 DEF Halted

LEMMA FailsBackupFits ==
  ASSUME TypeOK, ShapeFits, NEW p \in Op, NEW then \in {"failed", "restart"},
         op[p].at \in Working, EdgeTypeOK', faults' = faults, FailsBackup(p, then)
  PROVE  EdgeTypeOK' /\ OpsFit /\ Own(p) /\ Shaped(p)'
<1>1. backup' \in [Backup -> BackupType]
  BY Opens DEF FailsBackup, BackupType
<1>2. CASE Goto(p, "fail") /\ op[p].kind = "restore"
  BY <1>1, <1>2, Moves, WorkPlaces
<1>3. CASE Goto(p, then)
  BY <1>1, <1>3, Moves, WorkPlaces DEF OfRestore
<1> QED BY <1>2, <1>3 DEF FailsBackup, Goto

LEMMA TimesOutFits ==
  ASSUME TypeOK, ShapeFits, NEW p \in Op, TimesOut(p)
  PROVE  EdgeTypeOK' /\ OpsFit /\ Own(p) /\ Shaped(p)'
BY EdgeFrame, Opens, FailsBackupFits DEF TimesOut, edge, Waits, Working

LEMMA GuardFits ==
  ASSUME TypeOK, ShapeFits, NEW p \in Op, Guard(p)
  PROVE  EdgeTypeOK' /\ OpsFit /\ Own(p) /\ Shaped(p)'
<1>1. EdgeTypeOK' /\ faults' = faults
  BY EdgeFrame, Opens DEF Guard, edge
<1>2. op[p] \in OpType /\ op[p].at \in Working /\ Shaped(p) /\ op[p].kind = "restore"
  BY Opens DEF Guard, At, Working, ShapeFits, Shaped, OfRestore
<1>3. PICK b \in Backup :
        /\ backup' = [backup EXCEPT ![b].status = "running"]
        /\ op' = [op EXCEPT ![p] = [@ EXCEPT !.at = "halt", !.made = b]]
  BY DEF Guard
<1>4. [op[p] EXCEPT !.at = "halt", !.made = b] \in OpType
  BY <1>2 DEF OpType, Working
<1>5. op' = [op EXCEPT ![p] = [op[p] EXCEPT !.at = "halt", !.made = b]]
  BY <1>3, Opens DEF OpType
<1>6. op' \in [Op -> OpType] /\ op'[p] = [op[p] EXCEPT !.at = "halt", !.made = b] /\ Own(p)
  BY <1>1, <1>2, <1>4, <1>5, SetsOwn, Opens DEF OpType
<1>7. backup' \in [Backup -> BackupType]
  BY <1>3, Opens DEF BackupType
<1>8. op'[p].at = "halt"
  BY <1>2, <1>6 DEF OpType
<1>9. Shaped(p)'
  BY <1>2, <1>6, <1>8 DEF Shaped, Own
<1> QED BY <1>1, <1>6, <1>7, <1>9 DEF OpsFit

LEMMA CopyFits ==
  ASSUME TypeOK, ShapeFits, NEW p \in Op, Copy(p)
  PROVE  EdgeTypeOK' /\ OpsFit /\ Own(p) /\ Shaped(p)'
<1>1. EdgeTypeOK' /\ faults' = faults /\ Ensured \in Image
  BY FilesFrame, EnsuredFits, Opens DEF Copy, edgeOnly
<1>2. op[p] \in OpType /\ op[p].at \in Working /\ Shaped(p)
  BY Opens DEF Copy, At, Working, Files, ShapeFits
<1>3. [op[p] EXCEPT !.at = "pack", !.seen = Ensured] \in OpType
  BY <1>1, <1>2 DEF OpType, Working, Files
<1>4. op' = [op EXCEPT ![p] = [op[p] EXCEPT !.at = "pack", !.seen = Ensured]]
  BY Opens DEF Copy, OpType
<1>5. op' \in [Op -> OpType] /\ op'[p] = [op[p] EXCEPT !.at = "pack", !.seen = Ensured] /\ Own(p)
  BY <1>1, <1>2, <1>3, <1>4, SetsOwn, Opens DEF OpType
<1>6. op'[p].at = "pack" /\ backup' \in [Backup -> BackupType]
  BY <1>2, <1>5, Opens DEF OpType, Copy
<1>7. Shaped(p)'
  BY <1>2, <1>5, <1>6 DEF Shaped, Own, OfRestore
<1> QED BY <1>1, <1>5, <1>6, <1>7 DEF OpsFit

LEMMA PackFits ==
  ASSUME TypeOK, ShapeFits, NEW p \in Op, Pack(p)
  PROVE  EdgeTypeOK' /\ OpsFit /\ Own(p) /\ Shaped(p)'
<1>1. op[p].at \in Working
  BY DEF Pack, At, Working, Files
<1>2. faults' = faults /\ UNCHANGED <<record, stream, blind, edgeOnly>> /\ disk' \in Image
  BY Opens DEF Pack, edgeOnly
<1>3. CASE /\ \E c \in Image :
                backup' = [backup EXCEPT ![op[p].made] = [@ EXCEPT !.status = "ready",
                                         !.content = c]]
           /\ Goto(p, IF op[p].kind = "restore" THEN "unpack" ELSE "restart")
           /\ UNCHANGED mishaps
  <2>1. EdgeTypeOK'
    BY <1>2, <1>3, FilesFrame, Opens
  <2>2. backup' \in [Backup -> BackupType]
    <3>1. PICK c \in Image : backup' = [backup EXCEPT ![op[p].made] = [@ EXCEPT !.status = "ready",
                                                     !.content = c]]
      BY <1>3
    <3>2. \A b \in Backup : [backup[b] EXCEPT !.status = "ready", !.content = c] \in BackupType
      BY Opens DEF BackupType
    <3>3. backup' = [backup EXCEPT ![op[p].made] =
                       [backup[op[p].made] EXCEPT !.status = "ready", !.content = c]]
      BY <3>1, Opens DEF BackupType
    <3> QED BY <3>2, <3>3, Opens
  <2>3. CASE Goto(p, "unpack") /\ op[p].kind = "restore"
    BY <1>1, <1>2, <2>1, <2>2, <2>3, Moves, WorkPlaces
  <2>4. CASE Goto(p, "restart")
    BY <1>1, <1>2, <2>1, <2>2, <2>4, Moves, WorkPlaces DEF OfRestore
  <2> QED BY <1>3, <2>3, <2>4
<1>4. CASE Mishap("disk") /\ FailsBackup(p, "restart")
  <2>1. EdgeTypeOK'
    BY <1>2, <1>4, FilesFrame, MishapFits, Opens
  <2> QED BY <1>1, <1>2, <1>4, <2>1, FailsBackupFits
<1> QED BY <1>3, <1>4 DEF Pack

\* A step of the loops over directories, which leave the records alone.
LEMMA LoopFits ==
  ASSUME TypeOK, ShapeFits, NEW p \in Op,
         op[p].at \in {"unpack", "aside", "install", "undo", "back", "commit"},
         UNCHANGED <<record, stream, blind, edgeOnly>>, disk' \in Image,
         mishaps' \in 0..MaxMishaps, UNCHANGED backup,
         NEW o \in OpType,
         o.at \in OfRestore \cup {"restart"}, o.at \in {"aside", "install"} => o.todo # {},
         o.kind = op[p].kind, o.from = op[p].from,
         op' = [op EXCEPT ![p] = o]
  PROVE  EdgeTypeOK' /\ OpsFit /\ Own(p) /\ Shaped(p)' /\ op'[p] = o
<1>1. EdgeTypeOK' /\ faults' = faults
  BY FilesFrame, Opens DEF edgeOnly
<1>2. op[p].at \in Working /\ op[p].kind = "restore" /\ op[p].from \in Backup /\ o.at # "rest"
  BY DEF Working, Files, ShapeFits, Shaped, OfRestore
<1>3. op' \in [Op -> OpType] /\ op'[p] = o /\ Own(p)
  BY <1>1, <1>2, SetsOwn, Opens
<1>4. Shaped(p)'
  BY <1>2, <1>3 DEF Shaped, Own
<1> QED BY <1>1, <1>3, <1>4, Opens DEF OpsFit

\* o is what the loop that p is in leaves of it.
Turn(p, o, place, then, rest) ==
  /\ First(p) \in op[p].todo /\ First(p) \in Dir
  /\ o \in OpType
  /\ o = [op[p] EXCEPT !.todo = o.todo, !.at = o.at]
  /\ o.at \in {place, then}
  /\ o.at \in {"aside", "install"} => o.todo # {}
  /\ o.at = place /\ place # then => o.todo = op[p].todo \ {First(p)}

LEMMA LoopOps ==
  ASSUME TypeOK, ShapeFits, NEW p \in Op, op[p].todo # {},
         NEW place \in {"aside", "install", "undo", "back"},
         NEW then \in {"install", "back", "commit", "fail"},
         NEW rest \in SUBSET Dir, then = "install" => rest # {}
  PROVE  Turn(p, Advance(p, place, then, rest), place, then, rest)
<1> DEFINE o == Advance(p, place, then, rest)
<1>1. op[p] \in OpType
  BY Opens
<1>2. First(p) \in op[p].todo /\ First(p) \in Dir
  <2>1. \E d \in op[p].todo : TRUE
    OBVIOUS
  <2>2. First(p) \in op[p].todo
    BY <2>1, Zenon DEF First
  <2> QED BY <1>1, <2>2 DEF OpType
<1>3. CASE op[p].todo = {First(p)}
  <2>1. o = [op[p] EXCEPT !.todo = rest, !.at = then]
    BY <1>1, <1>3 DEF Advance, OpType
  <2>2. o.todo = rest /\ o.at = then
    BY <1>1, <2>1 DEF OpType
  <2>3. o \in OpType
    BY <1>1, <2>1 DEF OpType, Working, Files
  <2> QED BY <1>2, <1>3, <2>1, <2>2, <2>3 DEF Turn
<1>4. CASE op[p].todo # {First(p)}
  <2>1. o = [op[p] EXCEPT !.todo = op[p].todo \ {First(p)}, !.at = place]
    BY <1>1, <1>4 DEF Advance, OpType
  <2>2. o.todo = op[p].todo \ {First(p)} /\ o.at = place
    BY <1>1, <2>1 DEF OpType
  <2>3. o \in OpType
    BY <1>1, <2>1 DEF OpType, Working, Files
  <2>4. o.todo # {}
    BY <1>2, <1>4, <2>2
  <2> QED BY <1>2, <1>4, <2>1, <2>2, <2>3, <2>4 DEF Turn
<1> QED BY <1>3, <1>4

-----------------------------------------------------------------------------
(* The loops of a restore, and what they keep. *)

OpFits(p) == /\ EdgeTypeOK' /\ OpsFit /\ Own(p) /\ Shaped(p)'
             /\ Kept(p) => Kept(p)'

LEMMA LastOwn ==
  ASSUME NEW p \in Op, Own(p)
  PROVE  Last(p)' => Last(p)
BY DEF Own, Last, Op

LEMMA UnpackFits == ASSUME TypeOK, ShapeFits, NEW p \in Op, Unpack(p) PROVE OpFits(p)
<1>1. op[p] \in OpType /\ op[p].at = "unpack"
  BY Opens DEF Unpack, At
<1>2. disk' = disk /\ backup' = backup /\ UNCHANGED <<record, stream, blind, edgeOnly>>
      /\ mishaps' \in 0..MaxMishaps
  BY Opens, MishapFits DEF Unpack
<1>3. CASE op' = [op EXCEPT ![p] = [@ EXCEPT !.at = "aside", !.todo = Dir, !.seen = disk]]
  <2> DEFINE o == [op[p] EXCEPT !.at = "aside", !.todo = Dir, !.seen = disk]
  <2>1. o \in OpType /\ o.at = "aside" /\ o.todo = Dir /\ o.seen = disk
        /\ o.kind = op[p].kind /\ o.from = op[p].from /\ o.moved = op[p].moved
    BY <1>1, Opens DEF OpType, Working, Files
  <2>2. op' = [op EXCEPT ![p] = o]
    BY <1>3, Opens DEF OpType
  <2>3. EdgeTypeOK' /\ OpsFit /\ Own(p) /\ Shaped(p)' /\ op'[p] = o
    BY <1>1, <1>2, <2>1, <2>2, LoopFits, SomeDir, Opens DEF OfRestore
  <2>4. Kept(p) => op[p].moved = {}
    BY <1>1 DEF Kept
  <2>5. \A d \in Dir : disk[d] >= disk[d]
    BY Opens, MirrorBounds DEF Image
  <2>6. Kept(p) => Kept(p)'
    BY <1>2, <2>1, <2>3, <2>4, <2>5 DEF Kept, InPlace
  <2> QED BY <2>3, <2>6 DEF OpFits
<1>4. CASE Goto(p, "fail")
  <2> DEFINE o == [op[p] EXCEPT !.at = "fail"]
  <2>1. o \in OpType /\ o.at = "fail"
        /\ o.kind = op[p].kind /\ o.from = op[p].from /\ o.moved = op[p].moved
    BY <1>1 DEF OpType, Working, Files
  <2>2. op' = [op EXCEPT ![p] = o]
    BY <1>4, Opens DEF Goto, OpType
  <2>3. EdgeTypeOK' /\ OpsFit /\ Own(p) /\ Shaped(p)' /\ op'[p] = o
    BY <1>1, <1>2, <2>1, <2>2, LoopFits, Opens DEF OfRestore
  <2>4. Kept(p) => Kept(p)'
    BY <1>1, <2>1, <2>3 DEF Kept
  <2> QED BY <2>3, <2>4 DEF OpFits
<1> QED BY <1>3, <1>4 DEF Unpack

\* A rename that fails, while everything that was moved is aside.
LEMMA RevertFits ==
  ASSUME TypeOK, ShapeFits, NEW p \in Op, op[p].at \in {"aside", "install"},
         UNCHANGED <<record, stream, blind, edgeOnly, backup, disk>>,
         mishaps' \in 0..MaxMishaps, Revert(p)
  PROVE  OpFits(p)
<1> DEFINE o == [op[p] EXCEPT !.at = "undo", !.todo = op[p].installed]
<1>1. op[p] \in OpType
  BY Opens
<1>2. o \in OpType /\ o.at = "undo" /\ o.kind = op[p].kind /\ o.from = op[p].from
      /\ o.moved = op[p].moved /\ o.aside = op[p].aside /\ o.seen = op[p].seen
  BY <1>1 DEF OpType, Working, Files
<1>3. op' = [op EXCEPT ![p] = o]
  BY Opens DEF Revert, OpType
<1>4. EdgeTypeOK' /\ OpsFit /\ Own(p) /\ Shaped(p)' /\ op'[p] = o
  BY <1>2, <1>3, LoopFits, Opens DEF OfRestore
<1>5. Kept(p) => Kept(p)'
  BY <1>2, <1>4 DEF Kept, IsAside
<1> QED BY <1>4, <1>5 DEF OpFits

LEMMA AsideFits == ASSUME TypeOK, ShapeFits, NEW p \in Op, Aside(p) PROVE OpFits(p)
<1> DEFINE d == First(p)
           o == Advance(p, "aside", "install", Dir)
<1>1. op[p] \in OpType /\ op[p].at = "aside" /\ op[p].todo # {}
  BY Opens DEF Aside, At, ShapeFits, Shaped
<1>2. backup' = backup /\ UNCHANGED <<record, stream, blind, edgeOnly>>
  BY DEF Aside
<1>3. /\ d \in op[p].todo /\ d \in Dir /\ o \in OpType /\ o.at \in {"aside", "install"}
      /\ o.todo # {} /\ o = [op[p] EXCEPT !.todo = o.todo, !.at = o.at]
      /\ o.at = "aside" => o.todo = op[p].todo \ {d}
  <2>1. Turn(p, o, "aside", "install", Dir)
    BY <1>1, SomeDir, LoopOps
  <2> QED BY <2>1 DEF Turn
<1>4. /\ o.kind = op[p].kind /\ o.from = op[p].from
      /\ o.moved = op[p].moved /\ o.aside = op[p].aside /\ o.seen = op[p].seen
  BY <1>1, <1>3 DEF OpType
<1>5. CASE op' = [op EXCEPT ![p] = o] /\ UNCHANGED <<disk, mishaps>>
  <2>1. EdgeTypeOK' /\ OpsFit /\ Own(p) /\ Shaped(p)' /\ op'[p] = o
    BY <1>1, <1>2, <1>3, <1>4, <1>5, LoopFits, Opens DEF OfRestore
  <2>2. Kept(p) => Kept(p)'
    BY <1>1, <1>3, <1>4, <1>5, <2>1 DEF Kept, IsAside, InPlace
  <2> QED BY <2>1, <2>2 DEF OpFits
<1>6. CASE /\ disk[d] # Missing
           /\ op' = [op EXCEPT ![p] = [o EXCEPT !.moved = @ \cup {d}, !.aside[d] = disk[d]]]
           /\ disk' = [disk EXCEPT ![d] = Missing]
           /\ UNCHANGED mishaps
  <2> DEFINE n == [o EXCEPT !.moved = o.moved \cup {d}, !.aside = [o.aside EXCEPT ![d] = disk[d]]]
  <2>1. disk \in Image /\ disk' \in Image /\ o.aside \in Image
    BY <1>3, <1>6, Opens, MirrorBounds DEF Image, Missing, OpType
  <2>2. [o.aside EXCEPT ![d] = disk[d]] \in Image
    BY <1>3, <2>1 DEF Image
  <2>3. n \in OpType /\ n.at = o.at /\ n.todo = o.todo /\ n.kind = o.kind /\ n.from = o.from
        /\ n.moved = o.moved \cup {d} /\ n.aside = [o.aside EXCEPT ![d] = disk[d]]
        /\ n.seen = o.seen
    BY <1>3, <2>2 DEF OpType
  <2>4. op' = [op EXCEPT ![p] = n]
    BY <1>3, <1>6 DEF OpType
  <2> HIDE DEF n
  <2>5. EdgeTypeOK' /\ OpsFit /\ Own(p) /\ Shaped(p)' /\ op'[p] = n
    <3>1. n.at \in OfRestore \cup {"restart"} /\ n.todo # {}
          /\ n.kind = op[p].kind /\ n.from = op[p].from
      BY <1>3, <1>4, <2>3 DEF OfRestore
    <3>2. mishaps' \in 0..MaxMishaps
      BY <1>6, Opens
    <3> QED BY <1>1, <1>2, <2>1, <2>3, <2>4, <3>1, <3>2, LoopFits
  <2>6. ASSUME Kept(p) PROVE Kept(p)'
    <3>1. /\ \A e \in op[p].todo : InPlace(p, e)
          /\ \A e \in op[p].moved : IsAside(p, e)
      BY <1>1, <2>6 DEF Kept
    <3>2. \A e \in n.moved : n.aside[e] # Missing /\ n.aside[e] >= n.seen[e]
      <4>1. n.aside[d] = disk[d] /\ disk[d] >= n.seen[d]
        BY <1>3, <1>4, <2>1, <2>3, <3>1 DEF Image, InPlace
      <4>2. \A e \in op[p].moved \ {d} : n.aside[e] = op[p].aside[e] /\ n.seen[e] = op[p].seen[e]
        BY <1>1, <1>4, <2>1, <2>3 DEF Image, OpType
      <4> QED BY <1>4, <1>6, <2>3, <3>1, <4>1, <4>2 DEF IsAside
    <3>3. n.at = "aside" => \A e \in n.todo : disk'[e] >= n.seen[e]
      <4>1. n.at = "aside" => \A e \in n.todo : e \in op[p].todo /\ e # d /\ e \in Dir
        BY <1>1, <1>3, <2>3 DEF OpType
      <4>2. \A e \in Dir \ {d} : disk'[e] = disk[e]
        BY <1>6, <2>1 DEF Image
      <4> QED BY <1>4, <2>3, <3>1, <4>1, <4>2 DEF InPlace
    <3> QED BY <1>3, <2>3, <2>5, <3>2, <3>3 DEF Kept, IsAside, InPlace
  <2> QED BY <2>5, <2>6 DEF OpFits
<1>7. CASE Mishap("disk") /\ Revert(p) /\ UNCHANGED disk
  BY <1>1, <1>2, <1>7, RevertFits, MishapFits, Opens
<1> QED BY <1>5, <1>6, <1>7 DEF Aside

LEMMA InstallFits == ASSUME TypeOK, ShapeFits, NEW p \in Op, Install(p) PROVE OpFits(p)
<1> DEFINE d == First(p)
           o == Advance(p, "install", "commit", {})
<1>1. op[p] \in OpType /\ op[p].at = "install" /\ op[p].todo # {} /\ op[p].from \in Backup
  BY Opens DEF Install, At, ShapeFits, Shaped, OfRestore
<1>2. backup' = backup /\ UNCHANGED <<record, stream, blind, edgeOnly>>
  BY DEF Install
<1>3. /\ d \in Dir /\ o \in OpType /\ o.at \in {"install", "commit"}
      /\ o.at = "install" => o.todo # {}
      /\ o = [op[p] EXCEPT !.todo = o.todo, !.at = o.at]
  <2>1. Turn(p, o, "install", "commit", {})
    BY <1>1, LoopOps
  <2> QED BY <2>1 DEF Turn
<1>4. /\ o.kind = op[p].kind /\ o.from = op[p].from
      /\ o.moved = op[p].moved /\ o.aside = op[p].aside /\ o.seen = op[p].seen
  BY <1>1, <1>3 DEF OpType
<1>5. CASE /\ op' = [op EXCEPT ![p] = [o EXCEPT !.installed = @ \cup {d}]]
           /\ disk' = [disk EXCEPT ![d] = backup[op[p].from].content[d]]
           /\ UNCHANGED mishaps
  <2> DEFINE n == [o EXCEPT !.installed = o.installed \cup {d}]
  <2>1. backup[op[p].from].content \in Image
    BY <1>1, Opens DEF BackupType
  <2>2. disk' \in Image
    BY <1>3, <1>5, <2>1, Opens DEF Image
  <2>3. n \in OpType /\ n.at = o.at /\ n.todo = o.todo /\ n.kind = o.kind /\ n.from = o.from
        /\ n.moved = o.moved /\ n.aside = o.aside /\ n.seen = o.seen
    BY <1>3 DEF OpType
  <2>4. op' = [op EXCEPT ![p] = n]
    BY <1>3, <1>5 DEF OpType
  <2> HIDE DEF n
  <2>5. EdgeTypeOK' /\ OpsFit /\ Own(p) /\ Shaped(p)' /\ op'[p] = n
    <3>1. n.at \in OfRestore \cup {"restart"} /\ (n.at \in {"aside", "install"} => n.todo # {})
          /\ n.kind = op[p].kind /\ n.from = op[p].from
      BY <1>3, <1>4, <2>3 DEF OfRestore
    <3>2. mishaps' \in 0..MaxMishaps
      BY <1>5, Opens
    <3> QED BY <1>1, <1>2, <2>2, <2>3, <2>4, <3>1, <3>2, LoopFits
  <2>6. Kept(p) => Kept(p)'
    BY <1>1, <1>3, <1>4, <2>3, <2>5 DEF Kept, IsAside
  <2> QED BY <2>5, <2>6 DEF OpFits
<1>6. CASE Revert(p) /\ UNCHANGED disk /\ mishaps' \in 0..MaxMishaps
  BY <1>1, <1>2, <1>6, RevertFits, Opens
<1> QED BY <1>5, <1>6, MishapFits, Opens DEF Install

LEMMA UndoFits == ASSUME TypeOK, ShapeFits, NEW p \in Op, Undo(p) PROVE OpFits(p)
<1>1. op[p] \in OpType /\ op[p].at = "undo"
  BY Opens DEF Undo, At
<1>2. backup' = backup /\ UNCHANGED <<record, stream, blind, edgeOnly>> /\ mishaps' \in 0..MaxMishaps
  BY Opens DEF Undo
<1>3. SUFFICES ASSUME disk' \in Image, NEW o \in OpType, op' = [op EXCEPT ![p] = o],
                      o.at \in {"undo", "back"}, o.kind = op[p].kind, o.from = op[p].from,
                      o.moved = op[p].moved, o.aside = op[p].aside, o.seen = op[p].seen
               PROVE  OpFits(p)
  <2>1. CASE op[p].todo = {}
    <3> DEFINE o == [op[p] EXCEPT !.at = "back", !.todo = op[p].moved]
    <3>1. /\ o \in OpType /\ o.at = "back" /\ o.kind = op[p].kind /\ o.from = op[p].from
          /\ o.moved = op[p].moved /\ o.aside = op[p].aside /\ o.seen = op[p].seen
      BY <1>1 DEF OpType, Working, Files
    <3>2. op' = [op EXCEPT ![p] = o] /\ disk' \in Image
      BY <2>1, Opens DEF Undo, OpType
    <3> QED BY <1>3, <3>1, <3>2
  <2>2. CASE op[p].todo # {}
    <3> DEFINE o == Advance(p, "undo", "back", op[p].moved)
    <3>1. op[p].moved \in SUBSET Dir
      BY <1>1 DEF OpType
    <3>2. /\ First(p) \in Dir /\ o \in OpType /\ o.at \in {"undo", "back"}
          /\ o = [op[p] EXCEPT !.todo = o.todo, !.at = o.at]
      <4>1. Turn(p, o, "undo", "back", op[p].moved)
        BY <2>2, <3>1, LoopOps
      <4> QED BY <4>1 DEF Turn
    <3>3. /\ o.kind = op[p].kind /\ o.from = op[p].from
          /\ o.moved = op[p].moved /\ o.aside = op[p].aside /\ o.seen = op[p].seen
      BY <1>1, <3>2 DEF OpType
    <3>4. op' = [op EXCEPT ![p] = o] /\ disk' = [disk EXCEPT ![First(p)] = Missing]
      BY <2>2 DEF Undo
    <3>5. disk' \in Image
      BY <3>2, <3>4, Opens, MirrorBounds DEF Image, Missing
    <3> QED BY <1>3, <3>2, <3>3, <3>4, <3>5
  <2> QED BY <2>1, <2>2
<1>4. EdgeTypeOK' /\ OpsFit /\ Own(p) /\ Shaped(p)' /\ op'[p] = o
  BY <1>1, <1>2, <1>3, LoopFits, Opens DEF OfRestore
<1>5. Kept(p) => Kept(p)'
  BY <1>1, <1>3, <1>4 DEF Kept, IsAside
<1> QED BY <1>4, <1>5 DEF OpFits

\* A directory goes back, or its former content stays aside.
LEMMA BackFits == ASSUME TypeOK, ShapeFits, NEW p \in Op, Back(p) PROVE OpFits(p)
<1> DEFINE d == First(p)
           o == Advance(p, "back", "fail", {})
<1>1. op[p] \in OpType /\ op[p].at = "back"
  BY Opens DEF Back, At
<1>2. backup' = backup /\ UNCHANGED <<record, stream, blind, edgeOnly>> /\ mishaps' \in 0..MaxMishaps
  BY Opens DEF Back
<1>3. CASE op[p].todo = {} /\ Goto(p, "fail") /\ UNCHANGED disk
  <2> DEFINE n == [op[p] EXCEPT !.at = "fail"]
  <2>1. n \in OpType /\ n.at = "fail" /\ n.kind = op[p].kind /\ n.from = op[p].from
        /\ n.moved = op[p].moved /\ n.aside = op[p].aside /\ n.seen = op[p].seen
    BY <1>1 DEF OpType, Working
  <2>2. op' = [op EXCEPT ![p] = n] /\ disk' \in Image
    BY <1>3, Opens DEF Goto, OpType
  <2>3. EdgeTypeOK' /\ OpsFit /\ Own(p) /\ Shaped(p)' /\ op'[p] = n
    BY <1>1, <1>2, <2>1, <2>2, LoopFits DEF OfRestore
  <2>4. Kept(p) => Kept(p)'
    BY <1>1, <1>3, <2>1, <2>3, LastOwn DEF Kept, InPlace
  <2> QED BY <2>3, <2>4 DEF OpFits
<1>4. ASSUME op[p].todo # {} PROVE OpFits(p)
  <2>1. Turn(p, o, "back", "fail", {})
    BY <1>4, LoopOps
  <2>2. /\ d \in op[p].todo /\ d \in Dir /\ o \in OpType /\ o.at \in {"back", "fail"}
        /\ o = [op[p] EXCEPT !.todo = o.todo, !.at = o.at]
        /\ o.at = "back" => o.todo = op[p].todo \ {d}
    BY <2>1 DEF Turn
  <2>3. /\ o.kind = op[p].kind /\ o.from = op[p].from
        /\ o.moved = op[p].moved /\ o.aside = op[p].aside /\ o.seen = op[p].seen
    BY <1>1, <2>2 DEF OpType
  <2>4. CASE /\ disk[d] = Missing
             /\ disk' = [disk EXCEPT ![d] = op[p].aside[d]]
             /\ op' = [op EXCEPT ![p] = [o EXCEPT !.aside[d] = Missing]]
    <3> DEFINE n == [o EXCEPT !.aside = [o.aside EXCEPT ![d] = Missing]]
    <3>1. op[p].aside \in Image /\ op[p].seen \in Image /\ op[p].moved \subseteq Dir
      BY <1>1 DEF OpType
    <3>2. disk' \in Image /\ [o.aside EXCEPT ![d] = Missing] \in Image
      BY <2>2, <2>3, <2>4, <3>1, Opens, MirrorBounds DEF Image, Missing
    <3>3. n \in OpType /\ n.at = o.at /\ n.todo = o.todo /\ n.kind = o.kind /\ n.from = o.from
          /\ n.moved = o.moved /\ n.seen = o.seen /\ n.aside = [o.aside EXCEPT ![d] = Missing]
      BY <2>2, <3>2 DEF OpType
    <3>4. op' = [op EXCEPT ![p] = n]
      BY <2>2, <2>4 DEF OpType
    <3> HIDE DEF n
    <3>5. EdgeTypeOK' /\ OpsFit /\ Own(p) /\ Shaped(p)' /\ op'[p] = n
      <4>1. n.at \in OfRestore \cup {"restart"} /\ n.at \notin {"aside", "install"}
            /\ n.kind = op[p].kind /\ n.from = op[p].from
        BY <2>2, <2>3, <3>3 DEF OfRestore
      <4> QED BY <1>1, <1>2, <3>2, <3>3, <3>4, <4>1, LoopFits
    <3>6. ASSUME Kept(p) PROVE Kept(p)'
      <4>1. \A e \in op[p].moved \cap op[p].todo : IsAside(p, e)
        BY <1>1, <3>6 DEF Kept
      <4>2. d \in op[p].moved => disk'[d] >= n.seen[d]
        BY <2>2, <2>3, <2>4, <3>3, <4>1, Opens DEF IsAside, Image
      <4>3. \A e \in op[p].moved \ {d} :
              disk'[e] = disk[e] /\ n.aside[e] = op[p].aside[e] /\ n.seen[e] = op[p].seen[e]
        BY <2>3, <2>4, <3>1, <3>3, Opens DEF Image
      <4>4. Last(p)' => Last(p)
        BY <3>5, LastOwn
      <4>5. Last(p)' => \A e \in n.moved : n.aside[e] # Missing \/ disk'[e] >= n.seen[e]
        BY <1>1, <2>3, <3>3, <3>6, <4>2, <4>3, <4>4 DEF Kept, InPlace
      <4>6. n.at = "back" =>
              \A e \in n.moved \cap n.todo : n.aside[e] # Missing /\ n.aside[e] >= n.seen[e]
        BY <2>2, <2>3, <3>3, <4>1, <4>3 DEF IsAside
      <4> QED BY <2>2, <3>3, <3>5, <4>5, <4>6 DEF Kept, IsAside, InPlace
    <3> QED BY <3>5, <3>6 DEF OpFits
  <2>5. CASE op' = [op EXCEPT ![p] = o] /\ UNCHANGED disk
    <3>1. EdgeTypeOK' /\ OpsFit /\ Own(p) /\ Shaped(p)' /\ op'[p] = o
      BY <1>1, <1>2, <2>2, <2>3, <2>5, LoopFits, Opens DEF OfRestore
    <3>2. Kept(p) => Kept(p)'
      BY <1>1, <2>2, <2>3, <2>5, <3>1, LastOwn DEF Kept, IsAside, InPlace
    <3> QED BY <3>1, <3>2 DEF OpFits
  <2> QED BY <1>4, <2>4, <2>5 DEF Back
<1> QED BY <1>3, <1>4 DEF Back

LEMMA CommitFits == ASSUME TypeOK, ShapeFits, NEW p \in Op, Commit(p) PROVE OpFits(p)
<1> DEFINE o == [op[p] EXCEPT !.at = "restart", !.aside = Nowhere, !.moved = {}]
<1>1. op[p] \in OpType /\ op[p].at = "commit" /\ Shaped(p)
  BY Opens DEF Commit, At, ShapeFits
<1>2. Nowhere \in Image
  BY MirrorBounds DEF Nowhere, Image, Missing
<1>3. o \in OpType /\ o.at = "restart" /\ o.kind = op[p].kind /\ o.from = op[p].from /\ o.moved = {}
  BY <1>1, <1>2 DEF OpType, Working
<1>4. op' = [op EXCEPT ![p] = o]
  BY Opens DEF Commit, OpType
<1>5. EdgeTypeOK' /\ faults' = faults
  <2>1. record \in Records /\ mishaps' \in 0..MaxMishaps
    BY Opens DEF EdgeTypeOK, Commit
  <2> QED BY <2>1, SavedFrame, Opens DEF Commit, edgeOnly
<1>6. op' \in [Op -> OpType] /\ op'[p] = o /\ Own(p)
  <2>1. op[p].at \in Working /\ o.at # "rest"
    BY <1>1, <1>3 DEF Working
  <2> QED BY <1>3, <1>4, <1>5, <2>1, SetsOwn, Opens
<1>7. backup' \in [Backup -> BackupType]
  BY Opens DEF Commit
<1>8. Shaped(p)' /\ Kept(p)'
  BY <1>1, <1>3, <1>6 DEF Shaped, Own, OfRestore, Kept
<1> QED BY <1>5, <1>6, <1>7, <1>8 DEF OpFits, OpsFit

LEMMA FailFits == ASSUME TypeOK, ShapeFits, NEW p \in Op, Fail(p) PROVE OpFits(p)
<1>1. op[p] \in OpType /\ op[p].at = "fail" /\ op[p].at \in Working
  BY Opens DEF Fail, At, Working
<1>2. EdgeTypeOK' /\ faults' = faults /\ disk' = disk
  BY EdgeFrame, Opens DEF Fail, edge
<1>3. backup' \in [Backup -> BackupType] /\ Goto(p, "failed")
  BY Opens DEF Fail, BackupType
<1>4. EdgeTypeOK' /\ OpsFit /\ Own(p) /\ Shaped(p)' /\ op'[p] = [op[p] EXCEPT !.at = "failed"]
  BY <1>1, <1>2, <1>3, Moves, WorkPlaces DEF OfRestore
<1>5. /\ op'[p].at = "failed" /\ op'[p].moved = op[p].moved
      /\ op'[p].aside = op[p].aside /\ op'[p].seen = op[p].seen
  BY <1>1, <1>4 DEF OpType
<1>6. Kept(p) => Kept(p)'
  BY <1>1, <1>2, <1>4, <1>5, LastOwn DEF Kept, InPlace
<1> QED BY <1>4, <1>6 DEF OpFits

LEMMA RestartFits ==
  ASSUME TypeOK, ShapeFits, NEW p \in Op, Restart(p)
  PROVE  EdgeTypeOK' /\ OpsFit /\ Own(p) /\ Shaped(p)'
<1>1. [record EXCEPT !.power = "on"] \in Records
  BY Opens DEF EdgeTypeOK, Records, Power
<1>2. /\ Save([record EXCEPT !.power = "on"]) \/ UNCHANGED <<record, stream, blind>>
      /\ mishaps' \in 0..MaxMishaps /\ UNCHANGED <<edgeOnly, disk>>
  BY MishapFits, Opens DEF Restart
<1>3. EdgeTypeOK' /\ faults' = faults
  BY <1>1, <1>2, SavedFrame, Opens DEF edgeOnly
<1>4. op[p].at \in Working /\ backup' \in [Backup -> BackupType] /\ Goto(p, "end")
  BY Opens DEF Restart, At, Working
<1> QED BY <1>3, <1>4, Moves, WorkPlaces DEF OfRestore

LEMMA EndFits ==
  ASSUME TypeOK, ShapeFits, NEW p \in Op, End(p)
  PROVE  EdgeTypeOK' /\ OpsFit /\ Own(p) /\ Shaped(p)'
<1>1. EdgeTypeOK' /\ faults' = faults
  BY EdgeFrame, Opens DEF End, edge
<1>2. op[p].at \in Working /\ backup' \in [Backup -> BackupType]
  BY Opens DEF End, At, Working, BackupType
<1>3. Goto(p, "done") \/ Goto(p, "failed")
  BY DEF End
<1> QED BY <1>1, <1>2, <1>3, Moves, WorkPlaces DEF OfRestore

\* Where nothing has been moved aside, nothing is lost.
LEMMA EarlyKept ==
  ASSUME NEW p \in Op,
         op[p].at \notin {"aside", "install", "undo", "back", "commit", "fail", "failed", "dead"},
         op'[p].moved = op[p].moved, op'[p].at # "aside"
  PROVE  Kept(p) => Kept(p)'
BY DEF Kept

\* runBackup and runRestore: from the first step an operation goes on to the power off.
LEMMA BeginGoes ==
  ASSUME NEW p \in Op, op[p] \in OpType, op \in [Op -> OpType], Begin(p)
  PROVE  /\ op[p].at = "begin" /\ op'[p].at = "stop"
         /\ op'[p].moved = op[p].moved /\ op'[p].restart = op[p].restart
<1>1. op[p].at = "begin" BY DEF Begin, At
<1>2. \/ \E b \in Backup : op' = [op EXCEPT ![p] = [@ EXCEPT !.at = "stop", !.made = b]]
      \/ op' = [op EXCEPT ![p].at = "stop"]
  BY DEF Begin, Goto
<1>3. ASSUME NEW b \in Backup, op' = [op EXCEPT ![p] = [@ EXCEPT !.at = "stop", !.made = b]]
      PROVE  op'[p].at = "stop" /\ op'[p].moved = op[p].moved /\ op'[p].restart = op[p].restart
  <2>1. op'[p] = [op[p] EXCEPT !.at = "stop", !.made = b] BY <1>3
  <2> QED BY <2>1 DEF OpType
<1>4. ASSUME op' = [op EXCEPT ![p].at = "stop"]
      PROVE  op'[p].at = "stop" /\ op'[p].moved = op[p].moved /\ op'[p].restart = op[p].restart
  <2>1. op'[p] = [op[p] EXCEPT !.at = "stop"] BY <1>4
  <2> QED BY <2>1 DEF OpType
<1> QED BY <1>1, <1>2, <1>3, <1>4

LEMMA EarlyFits ==
  ASSUME TypeOK, ShapeFits, NEW p \in Op,
         \/ Begin(p) \/ Stop(p) \/ Insist(p) \/ Halted(p) \/ TimesOut(p) \/ Guard(p)
         \/ Copy(p) \/ Pack(p) \/ Restart(p) \/ End(p)
  PROVE  OpFits(p)
<1>1. EdgeTypeOK' /\ OpsFit /\ Own(p) /\ Shaped(p)'
  BY BeginFits, StopFits, HaltedFits, TimesOutFits, GuardFits, CopyFits, PackFits, RestartFits, EndFits
<1>2. op[p].at \in {"begin", "stop", "wait", "halt", "guard", "copy", "pack", "restart", "end"}
  BY DEF Begin, Stop, Insist, Halted, TimesOut, Guard, Copy, Pack, Restart, End, At, Waits
<1>3. op[p] \in OpType /\ op \in [Op -> OpType]
  BY Opens
<1>4. op'[p].moved = op[p].moved /\ op'[p].at # "aside"
  <2>1. CASE Begin(p) BY <1>3, <2>1, BeginGoes
  <2>2. CASE Stop(p)
    BY <1>3, <2>2 DEF Stop, Goto, OpType
  <2>3. CASE Insist(p)
    BY <1>2, <1>3, <2>3 DEF Insist
  <2>4. CASE Halted(p)
    BY <1>3, <2>4 DEF Halted, Goto, OpType
  <2>5. CASE TimesOut(p)
    BY <1>3, <2>5 DEF TimesOut, FailsBackup, OpType
  <2>6. CASE Guard(p)
    <3>1. \E b \in Backup : op' = [op EXCEPT ![p] = [@ EXCEPT !.at = "halt", !.made = b]]
      BY <2>6 DEF Guard
    <3> QED BY <1>3, <3>1 DEF OpType
  <2>7. CASE Copy(p)
    BY <1>3, <2>7 DEF Copy, OpType
  <2>8. CASE Pack(p)
    <3>1. \E place \in {"unpack", "restart", "fail"} : op' = [op EXCEPT ![p].at = place]
      BY <2>8 DEF Pack, Goto, FailsBackup
    <3> QED BY <1>3, <3>1 DEF OpType
  <2>9. CASE Restart(p) \/ End(p)
    BY <1>3, <2>9 DEF Restart, End, Goto, OpType
  <2> QED BY <2>1, <2>2, <2>3, <2>4, <2>5, <2>6, <2>7, <2>8, <2>9
<1>5. Kept(p) => Kept(p)'
  BY <1>2, <1>4, EarlyKept
<1> QED BY <1>1, <1>5 DEF OpFits

LEMMA StepFits == ASSUME TypeOK, ShapeFits, NEW p \in Op, Step(p) PROVE OpFits(p)
BY EarlyFits, UnpackFits, AsideFits, InstallFits, UndoFits, BackFits, CommitFits, FailFits DEF Step

-----------------------------------------------------------------------------
(* One operation at a time. *)

LEMMA OverIsIdle ==
  ASSUME TypeOK, ShapeFits, NEW p \in Op, Step(p), ~Holds(p)
  PROVE  disk' = disk /\ backup' = backup /\ ~Holds(p)'
<1>1. op[p] \in OpType /\ op \in [Op -> OpType]
  BY Opens
<1>2. op[p].at \in {"restart", "end"} /\ op[p].kind = "backup"
  <2>1. op[p].at \in Working
    BY StepFits DEF OpFits, Own
  <2> QED BY <1>1, <2>1 DEF Holds, OpType
<1>3. Restart(p) \/ End(p)
  BY <1>2 DEF Step, Begin, Stop, Insist, Halted, TimesOut, Guard, Copy, Pack, Unpack, Aside,
     Install, Undo, Back, Commit, Fail, At, Waits
<1>4. CASE Restart(p)
  <2>1. disk' = disk /\ backup' = backup /\ Goto(p, "end")
    BY <1>4 DEF Restart, edgeOnly
  <2>2. op'[p].kind = "backup" /\ op'[p].at = "end"
    BY <1>1, <1>2, <2>1 DEF Goto, OpType
  <2> QED BY <2>1, <2>2 DEF Holds
<1>5. CASE End(p)
  <2>1. disk' = disk /\ backup' = backup
    BY <1>2, <1>5 DEF End, edge
  <2>2. op'[p].at \in {"done", "failed"}
    BY <1>1, <1>5 DEF End, Goto, OpType
  <2> QED BY <2>1, <2>2, WorkPlaces DEF Holds, Working, Files
<1> QED BY <1>3, <1>4, <1>5

LEMMA OwnHeld ==
  ASSUME TypeOK, ShapeFits, NEW p \in Op, Step(p), Held(p)
  PROVE  Held(p)'
<1>1. /\ op[p] \in OpType /\ op \in [Op -> OpType] /\ Shaped(p)
      /\ backup \in [Backup -> BackupType]
  BY Opens DEF ShapeFits
<1>2. Own(p)
  BY StepFits DEF OpFits
<1>3. SUFFICES ASSUME Holds(p)'
               PROVE  \/ op[p].kind = "restore" /\ backup'[op[p].from].restoring = "running"
                      \/ /\ op[p].kind = "backup" /\ op'[p].made \in Backup
                         /\ backup'[op'[p].made].status = "running"
  BY <1>2 DEF Held, Own
<1>4. op'[p].at \in Working
  BY <1>3 DEF Holds
<1>5. Holds(p)
  BY <1>3, OverIsIdle
<1>6. CASE Begin(p)
  <2>1. CASE op[p].kind = "backup"
    <3>1. PICK b \in Backup :
            /\ backup' = [backup EXCEPT ![b].status = "running"]
            /\ op' = [op EXCEPT ![p] = [@ EXCEPT !.at = "stop", !.made = b]]
      BY <1>6, <2>1 DEF Begin
    <3>2. op'[p].made = b /\ backup'[b].status = "running"
      BY <1>1, <3>1 DEF OpType, BackupType
    <3> QED BY <2>1, <3>2
  <2>2. CASE op[p].kind = "restore"
    BY <1>1, <1>6, <2>2 DEF Begin, Shaped, BackupType
  <2> QED BY <1>1, <2>1, <2>2 DEF OpType
<1>7. CASE ~Begin(p)
  <2>1. /\ op[p].kind = "restore" => backup[op[p].from].restoring = "running"
        /\ op[p].kind = "backup" => /\ op[p].made \in Backup
                                    /\ backup[op[p].made].status = "running"
    <3>1. op[p].at # "begin"
      BY <1>7 DEF Step, Begin, Stop, Insist, Halted, TimesOut, Guard, Copy, Pack, Unpack, Aside,
         Install, Undo, Back, Commit, Fail, Restart, End, At, Waits
    <3> QED BY <1>5, <3>1 DEF Held
  <2>2. CASE op[p].kind = "restore"
    <3>1. op[p].from \in Backup
      BY <1>1, <2>2 DEF Shaped
    <3>2. CASE Guard(p)
      <4>1. \E b \in Backup : backup' = [backup EXCEPT ![b].status = "running"]
        BY <3>2 DEF Guard
      <4> QED BY <1>1, <2>1, <2>2, <3>1, <4>1 DEF BackupType
    <3>3. CASE Pack(p)
      <4>1. CASE \E c \in Image : backup' = [backup EXCEPT ![op[p].made] = [@ EXCEPT !.status = "ready",
                                                           !.content = c]]
        BY <1>1, <2>1, <2>2, <3>1, <4>1 DEF BackupType
      <4>2. CASE FailsBackup(p, "restart")
        BY <1>1, <2>1, <2>2, <3>1, <4>2 DEF FailsBackup, BackupType
      <4> QED BY <3>3, <4>1, <4>2 DEF Pack
    <3>4. CASE TimesOut(p)
      BY <1>1, <2>1, <2>2, <3>1, <3>4 DEF TimesOut, FailsBackup, BackupType
    <3>5. CASE Fail(p) \/ End(p)
      <4>1. op'[p].at \in {"done", "failed"}
        BY <1>1, <3>5 DEF Fail, End, Goto, OpType
      <4> QED BY <1>4, <4>1 DEF Working, Files
    <3>6. CASE backup' = backup
      BY <2>1, <2>2, <3>6
    <3>7. Guard(p) \/ Pack(p) \/ TimesOut(p) \/ Fail(p) \/ End(p) \/ backup' = backup
      BY <1>7 DEF Step, Stop, Insist, Halted, Copy, Unpack, Aside, Install, Undo, Back, Commit, Restart
    <3> QED BY <3>2, <3>3, <3>4, <3>5, <3>6, <3>7
  <2>3. CASE op[p].kind = "backup"
    <3>1. op[p].at \in {"stop", "wait", "copy", "pack"}
      <4>1. op[p].at \notin OfRestore
        BY <1>1, <2>3 DEF Shaped
      <4>2. op[p].at \notin {"begin", "restart", "end"}
        BY <1>5, <1>7, <2>3 DEF Holds, Step, Begin, Stop, Insist, Halted, TimesOut, Guard, Copy,
           Pack, Unpack, Aside, Install, Undo, Back, Commit, Fail, Restart, End, At, Waits
      <4> QED BY <1>5, <4>1, <4>2 DEF Holds, Working, Files, OfRestore
    <3>2. Stop(p) \/ Insist(p) \/ Halted(p) \/ TimesOut(p) \/ Copy(p) \/ Pack(p)
      BY <3>1 DEF Step, Begin, Guard, Unpack, Aside, Install, Undo, Back, Commit, Fail,
         Restart, End, At
    <3>3. CASE Stop(p) \/ Insist(p) \/ Halted(p) \/ Copy(p)
      <4>1. backup' = backup
        BY <3>3 DEF Stop, Insist, Halted, Copy
      <4>2. op'[p].made = op[p].made
        <5>1. CASE Stop(p) \/ Halted(p)
          <6>1. \E at \in {"wait", "guard", "copy"} : op' = [op EXCEPT ![p].at = at]
            BY <5>1 DEF Stop, Halted, Goto
          <6> QED BY <1>1, <6>1 DEF OpType
        <5>2. CASE Copy(p) BY <1>1, <5>2 DEF Copy, OpType
        <5>3. CASE Insist(p) BY <5>3 DEF Insist
        <5> QED BY <3>3, <5>1, <5>2, <5>3
      <4> QED BY <2>1, <2>3, <4>1, <4>2
    <3>4. CASE TimesOut(p)
      <4>1. op'[p].at = "failed"
        BY <1>1, <2>3, <3>4 DEF TimesOut, FailsBackup, OpType
      <4> QED BY <1>4, <4>1 DEF Working, Files
    <3>5. CASE Pack(p)
      <4>1. op'[p].at = "restart"
        <5>1. op' = [op EXCEPT ![p].at = "restart"]
          BY <2>3, <3>5 DEF Pack, Goto, FailsBackup
        <5> QED BY <1>1, <5>1 DEF OpType
      <4> QED BY <1>2, <1>3, <2>3, <4>1 DEF Holds, Own
    <3> QED BY <3>2, <3>3, <3>4, <3>5
  <2> QED BY <1>1, <2>2, <2>3 DEF OpType
<1> QED BY <1>6, <1>7

-----------------------------------------------------------------------------
(* The invariant, action by action. *)

\* What an operation does to another one that stands in the way: nothing.
LEMMA LeavesAlone ==
  ASSUME IInv, "race" \notin faults, NEW p \in Op, Step(p), NEW q \in Op \ {p},
         Holds(q) \/ (op[q].at # "rest" /\ Last(q)')
  PROVE  disk' = disk /\ backup' = backup
<1>1. Own(p)
  BY StepFits DEF OpFits, IInv
<1>2. op[p].at # "rest" /\ op'[p].at # "rest"
  BY <1>1, WorkPlaces DEF Own, Working, Files
<1>3. op[q].at # "rest"
  BY WorkPlaces DEF Holds, Working, Files
<1>4. p < q \/ q < p
  BY BackupBounds DEF Op
<1>5. ~Holds(p)
  BY <1>2, <1>3, <1>4 DEF IInv, OneAtATime, Last
<1> QED BY <1>5, OverIsIdle DEF IInv

LEMMA EdgeKeeps == ASSUME IInv, EdgeNext, UNCHANGED <<op, backup>> PROVE IInv'
<1>1. EdgeTypeOK' /\ Gains
  BY EdgeFits DEF IInv, TypeOK
<1>2. TypeOK' /\ ShapeFits' /\ HeldFits' /\ OneAtATime'
  BY <1>1 DEF IInv, TypeOK, ShapeFits, Shaped, HeldFits, Held, OneAtATime, Holds, Gains
<1>3. ASSUME NEW p \in Op, Kept(p) PROVE Kept(p)'
  <2>1. op[p] \in OpType /\ disk \in Image /\ disk' \in Image
    BY <1>1, Opens DEF IInv, EdgeTypeOK
  <2>2. \A d \in Dir : InPlace(p, d) => InPlace(p, d)'
    BY <1>1, <2>1, MirrorBounds DEF InPlace, Gains, Image, OpType
  <2>3. op[p].moved \subseteq Dir /\ op[p].todo \subseteq Dir
    BY <2>1 DEF OpType
  <2> QED BY <1>3, <2>2, <2>3 DEF Kept, IsAside, Last
<1> QED BY <1>1, <1>2, <1>3 DEF IInv, KeptFits, Gains

LEMMA CheckKeeps == ASSUME IInv, NEW p \in Op, Check(p) PROVE IInv'
<1>1. TypeOK'
  BY CheckFits DEF OpsFit, IInv, TypeOK
<1>2. /\ op[p].at = "rest" /\ disk' = disk /\ backup' = backup /\ faults' = faults
      /\ \A q \in Op : q < p => op[q].at # "rest"
      /\ "race" \notin faults => \A q \in Op : op[q].at # "begin"
      /\ \A b \in Backup : ~Running(b)
  BY DEF Check, At, edge
<1>3. op[p] \in OpType /\ op \in [Op -> OpType]
  BY Opens DEF IInv
<1>4. /\ op'[p].at = "begin" /\ op'[p].moved = op[p].moved
      /\ op'[p].kind = "restore" => op'[p].from \in Backup
      /\ \A q \in Op \ {p} : op'[q] = op[q]
  BY <1>3 DEF Check, OpType
<1>5. ShapeFits'
  <2>1. Shaped(p)'
    BY <1>4 DEF Shaped, OfRestore
  <2>2. \A q \in Op \ {p} : Shaped(q)'
    BY <1>4 DEF Shaped, ShapeFits, IInv
  <2> QED BY <2>1, <2>2 DEF ShapeFits
<1>6. ASSUME "race" \notin faults, NEW q \in Op \ {p} PROVE ~Holds(q)
  <2>1. Shaped(q) /\ Held(q) /\ op[q].at # "begin"
    BY <1>2, <1>6 DEF IInv, HeldFits, ShapeFits
  <2> QED BY <1>2, <2>1 DEF Held, Shaped, Running
<1>7. HeldFits'
  <2>1. Held(p)'
    BY <1>4 DEF Held
  <2>2. "race" \notin faults => \A q \in Op \ {p} : Held(q)'
    BY <1>4, <1>6 DEF Held, Holds
  <2> QED BY <1>2, <2>1, <2>2 DEF HeldFits
<1>8. OneAtATime'
  <2>1. SUFFICES ASSUME "race" \notin faults, NEW a \in Op, NEW b \in Op, b < a, op'[a].at # "rest"
                 PROVE  op'[b].at # "rest" /\ ~Holds(b)'
    BY <1>2 DEF OneAtATime
  <2>2. b # p
    BY <1>2, <1>4, <2>1, BackupBounds DEF IInv, OneAtATime, Op
  <2>3. op'[b] = op[b] /\ ~Holds(b)
    BY <1>4, <1>6, <2>1, <2>2
  <2>4. op[b].at # "rest"
    BY <1>2, <1>4, <2>1, <2>2 DEF IInv, OneAtATime
  <2> QED BY <2>3, <2>4 DEF Holds
<1>9. KeptFits'
  <2>1. ASSUME NEW q \in Op, Kept(q), op'[q] = op[q] PROVE Kept(q)'
    <3>1. Last(q)' => Last(q)
      BY <1>2, <1>4 DEF Last
    <3> QED BY <1>2, <2>1, <3>1 DEF Kept, IsAside, InPlace
  <2>2. ASSUME Kept(p) PROVE Kept(p)'
    BY <1>2, <1>4, <2>2, EarlyKept
  <2> QED BY <1>2, <1>4, <2>1, <2>2 DEF KeptFits, IInv
<1> QED BY <1>1, <1>5, <1>7, <1>8, <1>9 DEF IInv

LEMMA StepKeeps == ASSUME IInv, NEW p \in Op, Step(p) PROVE IInv'
<1>1. OpFits(p) /\ Own(p) /\ faults' = faults
  BY StepFits DEF IInv, OpFits, Own
<1>2. TypeOK'
  BY <1>1 DEF OpFits, OpsFit, TypeOK
<1>3. /\ op[p].at # "rest" /\ op'[p].at # "rest"
      /\ \A q \in Op \ {p} : op'[q] = op[q]
  BY <1>1, WorkPlaces DEF Own, Working, Files
<1>4. ShapeFits'
  <2>1. \A q \in Op \ {p} : Shaped(q)'
    BY <1>3 DEF Shaped, ShapeFits, IInv
  <2> QED BY <1>1, <2>1 DEF ShapeFits, OpFits
<1>5. HeldFits'
  <2>1. SUFFICES ASSUME "race" \notin faults, NEW q \in Op PROVE Held(q)'
    BY <1>1 DEF HeldFits
  <2>2. Held(q)
    BY <2>1 DEF IInv, HeldFits
  <2>3. CASE q = p
    BY <2>2, <2>3, OwnHeld DEF IInv
  <2>4. CASE q # p
    <3>1. Holds(q) => backup' = backup
      BY <2>1, <2>4, LeavesAlone
    <3> QED BY <1>3, <2>2, <2>4, <3>1 DEF Held, Holds
  <2> QED BY <2>3, <2>4
<1>6. OneAtATime'
  <2>1. SUFFICES ASSUME "race" \notin faults, NEW a \in Op, NEW b \in Op, b < a, op'[a].at # "rest"
                 PROVE  op'[b].at # "rest" /\ ~Holds(b)'
    BY <1>1 DEF OneAtATime
  <2>2. op[b].at # "rest" /\ ~Holds(b)
    BY <1>3, <2>1 DEF IInv, OneAtATime
  <2>3. CASE b = p
    BY <1>3, <2>2, <2>3, OverIsIdle DEF IInv
  <2>4. CASE b # p
    BY <1>3, <2>2, <2>4 DEF Holds
  <2> QED BY <2>3, <2>4
<1>7. KeptFits'
  <2>1. SUFFICES ASSUME "race" \notin faults, NEW q \in Op PROVE Kept(q)'
    BY <1>1 DEF KeptFits
  <2>2. Kept(q)
    BY <2>1 DEF IInv, KeptFits
  <2>3. CASE q = p
    BY <1>1, <2>2, <2>3 DEF OpFits
  <2>4. CASE q # p
    <3>1. op'[q] = op[q]
      BY <1>3, <2>4
    <3>2. Last(q)' => Last(q)
      BY <1>3 DEF Last
    <3>3. CASE op[q].moved = {} /\ op[q].at # "aside"
      BY <3>1, <3>3 DEF Kept
    <3>4. CASE op[q].at \in OfRestore
      <4>1. Holds(q)
        BY <3>4 DEF Holds, IInv, ShapeFits, Shaped, Working, Files, OfRestore
      <4>2. disk' = disk
        BY <2>1, <2>4, <4>1, LeavesAlone
      <4> QED BY <2>2, <3>1, <3>2, <4>2 DEF Kept, IsAside, InPlace
    <3>5. CASE op[q].at \in {"failed", "dead"}
      <4>1. Last(q)' => disk' = disk
        BY <2>1, <2>4, <3>5, LeavesAlone
      <4> QED BY <2>2, <3>1, <3>2, <3>5, <4>1 DEF Kept, InPlace
    <3> QED BY <2>2, <3>3, <3>4, <3>5 DEF Kept, OfRestore
  <2> QED BY <2>3, <2>4
<1> QED BY <1>2, <1>4, <1>5, <1>6, <1>7 DEF IInv

LEMMA MothershipKeeps == ASSUME IInv, MothershipRestarts PROVE IInv'
<1>1. EdgeTypeOK' /\ Gains /\ disk' = disk /\ backup' = backup
  BY MothershipFits DEF MothershipRestarts, IInv, TypeOK
<1>2. op \in [Op -> OpType] /\ backup \in [Backup -> BackupType]
  BY Opens DEF IInv
<1>3. op' = [p \in Op |-> IF op[p].at \in Working THEN [op[p] EXCEPT !.at = "dead"] ELSE op[p]]
  BY DEF MothershipRestarts
<1>4. ASSUME NEW p \in Op
      PROVE  /\ op'[p] \in OpType /\ op'[p].at \notin Working
             /\ op[p].at \in Working => op'[p].at = "dead"
             /\ op[p].at \notin Working => op'[p] = op[p]
             /\ op'[p].kind = op[p].kind /\ op'[p].from = op[p].from
             /\ op'[p].moved = op[p].moved /\ op'[p].aside = op[p].aside /\ op'[p].seen = op[p].seen
  <2>1. op[p] \in OpType
    BY <1>2
  <2>2. CASE op[p].at \in Working
    <3>1. op'[p] = [op[p] EXCEPT !.at = "dead"]
      BY <1>3, <2>2
    <3>2. op'[p] \in OpType /\ op'[p].at = "dead"
      BY <2>1, <3>1 DEF OpType
    <3>3. "dead" \notin Working
      BY DEF Working, Files
    <3> QED BY <2>1, <2>2, <3>1, <3>2, <3>3 DEF OpType
  <2>3. CASE op[p].at \notin Working
    BY <1>3, <2>1, <2>3
  <2> QED BY <2>2, <2>3
<1>5. "rest" \notin Working /\ "begin" \in Working /\ OfRestore \subseteq Working
      /\ "dead" \notin OfRestore \cup {"rest"}
  BY DEF Working, Files, OfRestore
<1>6. TypeOK'
  <2>1. op' \in [Op -> OpType]
    BY <1>3, <1>4
  <2> QED BY <1>1, <1>2, <2>1 DEF TypeOK
<1>7. ShapeFits'
  BY <1>4, <1>5 DEF IInv, ShapeFits, Shaped, OfRestore
<1>8. HeldFits'
  BY <1>4 DEF HeldFits, Held, Holds
<1>9. OneAtATime'
  <2>1. \A p \in Op : op'[p].at = "rest" <=> op[p].at = "rest"
    BY <1>4, <1>5
  <2> QED BY <1>1, <1>4, <2>1 DEF OneAtATime, Holds, IInv, Gains
<1>10. KeptFits'
  <2>1. SUFFICES ASSUME "race" \notin faults, NEW q \in Op PROVE Kept(q)'
    BY <1>1 DEF KeptFits, Gains
  <2>2. Kept(q)
    BY <2>1 DEF IInv, KeptFits
  <2>3. Last(q)' => Last(q)
    BY <1>4, <1>5 DEF Last
  <2>4. CASE op[q].at \in Working
    BY <1>1, <1>4, <2>2, <2>3, <2>4 DEF Kept, IsAside, InPlace
  <2>5. CASE op[q].at \notin Working
    BY <1>1, <1>4, <2>2, <2>3, <2>5 DEF Kept, IsAside, InPlace
  <2> QED BY <2>4, <2>5
<1> QED BY <1>6, <1>7, <1>8, <1>9, <1>10 DEF IInv

LEMMA InitFits == ASSUME Init PROVE IInv
<1>1. EdgeTypeOK
  <2>1. record \in Records /\ daemon \in DaemonType /\ mirror \in Power \cup {"unknown"}
        /\ box \in {"none", "up", "stopping"}
    <3>1. CASE /\ record = [power |-> "on", status |-> "live"]
               /\ daemon = [at |-> "on", launch |-> "ready", shut |-> FALSE, cool |-> FALSE]
               /\ mirror = "on" /\ box = "up"
      <4>1. record \in Records
        BY <3>1 DEF Records, Power, Status
      <4>2. daemon \in DaemonType
        BY <3>1 DEF DaemonType
      <4> QED BY <3>1, <4>1, <4>2 DEF Power
    <3>2. CASE /\ record = [power |-> "off", status |-> "idle"]
               /\ daemon = [at |-> "on", launch |-> "none", shut |-> FALSE, cool |-> FALSE]
               /\ mirror = "off" /\ box = "none"
      <4>1. record \in Records
        BY <3>2 DEF Records, Power, Status
      <4>2. daemon \in DaemonType
        BY <3>2 DEF DaemonType
      <4> QED BY <3>2, <4>1, <4>2 DEF Power
    <3> QED BY <3>1, <3>2, Zenon DEF Init, EdgeInit
  <2>2. disk \in Image
    BY FirstVersion, MirrorBounds DEF Init, EdgeInit, Image
  <2>3. toggles \in 0..MaxToggles /\ mishaps \in 0..MaxMishaps
    BY MirrorBounds DEF Init, EdgeInit
  <2>4. stream \in Seq(Records) /\ writes \in Seq(Status) /\ link = "up" /\ dump = "none"
        /\ faults \in Environments
    BY DEF Init, EdgeInit
  <2>5. blind \in BOOLEAN
    BY Zenon DEF Init, EdgeInit
  <2> QED BY <2>1, <2>2, <2>3, <2>4, <2>5 DEF EdgeTypeOK
<1>2. Nowhere \in Image
  BY MirrorBounds DEF Nowhere, Image, Missing
<1>3. Request0 \in OpType
  BY <1>2 DEF Request0, OpType
<1>4. op \in [Op -> OpType] /\ \A p \in Op : op[p] = Request0
  BY <1>3 DEF Init
<1>5. backup \in [Backup -> BackupType]
  BY <1>1, <1>2 DEF Init, NoBackup, BackupType, EdgeTypeOK
<1>6. \A p \in Op : op[p].at = "rest" /\ op[p].kind = "backup" /\ op[p].moved = {}
  BY <1>4 DEF Request0
<1>7. "rest" \notin Working \cup OfRestore
  BY DEF Working, Files, OfRestore
<1> QED BY <1>1, <1>4, <1>5, <1>6, <1>7 DEF IInv, TypeOK, ShapeFits, Shaped, HeldFits, Held, Holds,
        OneAtATime, KeptFits, Kept

LEMMA NextKeeps == ASSUME IInv, [Next]_vars PROVE IInv'
<1>1. CASE Next
  BY <1>1, EdgeKeeps, MothershipKeeps, CheckKeeps, StepKeeps DEF Next
<1>2. CASE UNCHANGED vars
  BY <1>2 DEF vars, edge, IInv, TypeOK, EdgeTypeOK, Image, ShapeFits, Shaped, HeldFits, Held, Holds,
     OneAtATime, KeptFits, Kept, IsAside, InPlace, Last
<1> QED BY <1>1, <1>2

LEMMA Invariant == Spec => []IInv
<1>1. Init => IInv
  BY InitFits
<1>2. IInv /\ [Next]_vars => IInv'
  BY NextKeeps
<1> QED BY <1>1, <1>2, PTL DEF Spec

-----------------------------------------------------------------------------
\* The instance's record, the daemon, the directories, the operations and the
\* backups keep their types, for any bounds and any failures.
THEOREM TypeCorrect == Spec => []TypeOK
<1>1. IInv => TypeOK
  BY DEF IInv
<1> QED BY <1>1, Invariant, PTL

\* As long as no two requests pass the check together, an operation that is under
\* way is the only one that may touch the files or its records.
THEOREM Alone == Spec => []OneAtATime
<1>1. IInv => OneAtATime
  BY DEF IInv
<1> QED BY <1>1, Invariant, PTL

\* A restore that fails, or dies with the mothership, at whichever rename, leaves
\* what it found: in its place, aside, or overwritten by the instance itself.
THEOREM RestoreLosesNothing == Spec => []NothingLost
<1>1. ASSUME IInv PROVE NothingLost
  <2>1. SUFFICES ASSUME NEW p \in Op, "race" \notin faults, Last(p),
                        op[p].at \in {"aside", "install", "undo", "back", "fail", "failed", "dead"}
                 PROVE  \A d \in op[p].moved : op[p].aside[d] # Missing \/ disk[d] >= op[p].seen[d]
    BY DEF NothingLost, Last, At
  <2>2. Kept(p)
    BY <1>1, <2>1 DEF IInv, KeptFits
  <2> QED BY <2>1, <2>2 DEF Kept, IsAside, InPlace
<1> QED BY <1>1, Invariant, PTL

-----------------------------------------------------------------------------
(* Switching an instance off stops its container.  What the daemon holds is   *)
(* followed from the write that says so to the event that will stop it.       *)

Told == ~blind /\ faults \cap {"loss", "mothership"} = {}

\* The last status on its way to the record is live; a power off is on its way
\* back that will find an instance to stop.
LiveComes == writes # <<>> /\ writes[Len(writes)] = "live"
OffComes  == \E i \in 1..Len(stream) : stream[i] = [power |-> "off", status |-> "live"]
LiveKnown == writes = <<>> /\ record = [power |-> "on", status |-> "live"]

BootFirst ==
  /\ daemon.at \in {"down", "boot"} => daemon.launch = "none"
  /\ daemon.at = "adopt" => daemon.launch = "health"

NoStray ==
  Told /\ daemon.at \in {"sync", "wait", "on"} /\ daemon.launch = "none" => box # "up"

WillHear ==
  Told /\ daemon.launch = "ready" => LiveComes \/ OffComes \/ LiveKnown

PowerInv == BootFirst /\ NoStray /\ WillHear

LEMMA AppendLast ==
  ASSUME NEW S, NEW s \in Seq(S), NEW e \in S
  PROVE  /\ Append(s, e) # <<>> /\ Append(s, e)[Len(Append(s, e))] = e
         /\ \A i \in 1..Len(s) : i \in 1..Len(Append(s, e)) /\ Append(s, e)[i] = s[i]
         /\ Len(s) + 1 \in 1..Len(Append(s, e)) /\ Append(s, e)[Len(s) + 1] = e
OBVIOUS

LEMMA LastOne ==
  ASSUME NEW S, NEW s \in Seq(S), s # <<>>
  PROVE  \/ Tail(s) = <<>> /\ Head(s) = s[Len(s)]
         \/ Tail(s) # <<>> /\ Tail(s)[Len(Tail(s))] = s[Len(s)]
<1>1. /\ Tail(s) \in Seq(S) /\ Len(Tail(s)) = Len(s) - 1
      /\ \A i \in 1..Len(Tail(s)) : Tail(s)[i] = s[i + 1]
  BY HeadTailProperties
<1>2. Len(s) \in Nat \ {0}
  BY EmptySeq, LenProperties
<1>3. CASE Len(s) = 1
  <2>1. Tail(s) # <<>> => Len(Tail(s)) \in Nat \ {0}
    BY <1>1, EmptySeq
  <2>2. Len(Tail(s)) = 0
    BY <1>1, <1>3
  <2>3. Tail(s) = <<>>
    BY <2>1, <2>2
  <2>4. Head(s) = s[1]
    OBVIOUS
  <2> QED BY <1>3, <2>3, <2>4
<1>4. CASE Len(s) # 1
  <2>1. Len(Tail(s)) \in 1..Len(Tail(s))
    BY <1>1, <1>2, <1>4
  <2>2. Len(<<>>) = 0 /\ Len(Tail(s)) # 0
    BY <1>1, <1>2, <1>4, EmptySeq
  <2>3. Tail(s) # <<>>
    BY <2>2, Zenon
  <2> QED BY <1>1, <1>2, <2>1, <2>3
<1> QED BY <1>3, <1>4

LEMMA SaveTold ==
  ASSUME EdgeTypeOK, NEW r \in Records, Save(r)
  PROVE  /\ record' = r /\ (blind => blind')
         /\ OffComes => OffComes' \/ blind'
         /\ InService /\ r = [power |-> "off", status |-> "live"] => OffComes' \/ blind'
<1>1. stream \in Seq(Records) /\ record' = r
  BY DEF EdgeTypeOK, Save
<1>2. CASE link = "up"
  <2>1. stream' = Append(stream, r) /\ blind' = blind
    BY <1>2 DEF Save
  <2>2. OffComes => OffComes'
    BY <1>1, <2>1, AppendLast DEF OffComes
  <2>3. r = [power |-> "off", status |-> "live"] => OffComes'
    BY <1>1, <2>1, AppendLast DEF OffComes
  <2> QED BY <1>1, <2>1, <2>2, <2>3
<1>3. CASE link # "up"
  <2>1. stream' = stream /\ blind' = (blind \/ (InService /\ r.power = "off"))
    BY <1>3 DEF Save
  <2>2. OffComes => OffComes'
    BY <2>1 DEF OffComes
  <2>3. r = [power |-> "off", status |-> "live"] => r.power = "off"
    OBVIOUS
  <2> QED BY <1>1, <2>1, <2>2, <2>3
<1> QED BY <1>2, <1>3

Serving == {"sync", "wait", "on"}

\* A save by anyone, or none.
LEMMA SaveHeard ==
  ASSUME EdgeTypeOK, PowerInv, faults' = faults, box' = box, writes' = writes,
         daemon'.launch = daemon.launch,
         daemon' = daemon \/ (daemon.at \in Serving /\ daemon'.at \in Serving),
         \/ UNCHANGED <<record, stream, blind>>
         \/ \E r \in Records : Save(r) /\ (LiveKnown /\ daemon.launch = "ready" => r.status = "live")
  PROVE  PowerInv'
<1>1. Told' => Told
  <2>1. blind => blind'
    BY SaveTold
  <2> QED BY <2>1 DEF Told
<1>2. BootFirst' /\ NoStray'
  BY <1>1 DEF PowerInv, BootFirst, NoStray, Serving
<1>3. WillHear'
  <2>1. SUFFICES ASSUME Told', daemon.launch = "ready"
                 PROVE  LiveComes' \/ OffComes' \/ LiveKnown'
    BY DEF WillHear
  <2>2. Told /\ ~blind' /\ (LiveComes \/ OffComes \/ LiveKnown)
    BY <1>1, <2>1 DEF PowerInv, WillHear, Told
  <2>3. CASE LiveComes
    BY <2>3 DEF LiveComes
  <2>4. CASE UNCHANGED <<record, stream, blind>>
    BY <2>2, <2>4 DEF LiveComes, OffComes, LiveKnown
  <2>5. CASE \E r \in Records : Save(r) /\ (LiveKnown /\ daemon.launch = "ready" => r.status = "live")
    <3>1. PICK r \in Records : Save(r) /\ (LiveKnown /\ daemon.launch = "ready" => r.status = "live")
      BY <2>5
    <3>2. CASE OffComes
      BY <2>2, <3>1, <3>2, SaveTold
    <3>3. CASE LiveKnown
      <4>1. r = [power |-> "on", status |-> "live"] \/ r = [power |-> "off", status |-> "live"]
        BY <2>1, <3>1, <3>3 DEF Records, Power
      <4>2. InService
        BY <2>1 DEF PowerInv, BootFirst, InService, EdgeTypeOK, DaemonType
      <4>3. CASE r = [power |-> "on", status |-> "live"]
        BY <3>1, <3>3, <4>3, SaveTold DEF LiveKnown
      <4>4. CASE r = [power |-> "off", status |-> "live"]
        BY <2>2, <3>1, <4>2, <4>4, SaveTold
      <4> QED BY <4>1, <4>3, <4>4
    <3> QED BY <2>2, <2>3, <3>2, <3>3
  <2> QED BY <2>4, <2>5
<1> QED BY <1>2, <1>3 DEF PowerInv

LEMMA PowerHeard ==
  ASSUME EdgeTypeOK, PowerInv, UNCHANGED <<daemon, box, writes, faults>>, NEW q \in Power,
         Save([record EXCEPT !.power = q])
  PROVE  PowerInv'
<1>1. [record EXCEPT !.power = q] \in Records
  BY DEF EdgeTypeOK, Records
<1>2. LiveKnown => [record EXCEPT !.power = q].status = "live"
  BY DEF LiveKnown
<1> QED BY <1>1, <1>2, SaveHeard

LEMMA DumpHeard ==
  ASSUME EdgeTypeOK, PowerInv, faults' = faults, box' = box, writes' = writes,
         daemon'.launch = daemon.launch,
         daemon' = daemon \/ (daemon.at \in Serving /\ daemon'.at \in Serving),
         NEW reset \in BOOLEAN, NEW live \in BOOLEAN, Dumps(reset, live),
         reset => live = Lives
  PROVE  PowerInv'
<1>1. Synced(reset, live) \in Records
  BY DEF Synced, EdgeTypeOK, Records, Power, Status
<1>2. LiveKnown /\ daemon.launch = "ready" => Synced(reset, live).status = "live"
  BY DEF LiveKnown, Synced, Lives
<1>3. UNCHANGED <<record, stream, blind>> \/ Save(Synced(reset, live))
  BY DEF Dumps
<1> QED BY <1>1, <1>2, <1>3, SaveHeard

LEMMA LandsHeard == ASSUME EdgeTypeOK, PowerInv, Lands PROVE PowerInv'
<1>1. /\ writes \in Seq(Status) /\ writes # <<>> /\ writes' = Tail(writes) /\ Head(writes) \in Status
      /\ UNCHANGED <<daemon, box, faults>>
  BY QueueFits DEF Lands, EdgeTypeOK
<1> DEFINE r == [record EXCEPT !.status = Head(writes)]
<1>2. CASE Save(r)
  <2>1. r \in Records /\ r.power = record.power /\ r.status = Head(writes)
    BY <1>1 DEF EdgeTypeOK, Records
  <2>2. record' = r /\ (blind => blind') /\ (OffComes => OffComes' \/ blind')
        /\ (InService /\ r = [power |-> "off", status |-> "live"] => OffComes' \/ blind')
    BY <1>2, <2>1, SaveTold
  <2>3. Told' => Told
    BY <1>1, <2>2 DEF Told
  <2>4. BootFirst' /\ NoStray'
    BY <1>1, <2>3 DEF PowerInv, BootFirst, NoStray
  <2>5. ASSUME Told', daemon.launch = "ready" PROVE LiveComes' \/ OffComes' \/ LiveKnown'
    <3>1. LiveComes \/ OffComes
      BY <1>1, <2>3, <2>5 DEF PowerInv, WillHear, LiveKnown
    <3>2. ~blind' /\ InService
      BY <2>5 DEF Told, PowerInv, BootFirst, InService, EdgeTypeOK, DaemonType
    <3>3. CASE OffComes
      BY <2>2, <3>2, <3>3
    <3>4. CASE LiveComes /\ Tail(writes) # <<>>
      BY <1>1, <3>4, LastOne DEF LiveComes
    <3>5. CASE LiveComes /\ Tail(writes) = <<>>
      <4>1. writes' = <<>> /\ Head(writes) = "live"
        BY <1>1, <3>5, LastOne DEF LiveComes
      <4>2. r = [power |-> "on", status |-> "live"] \/ r = [power |-> "off", status |-> "live"]
        BY <2>1, <4>1 DEF Records, Power
      <4> QED BY <2>2, <3>2, <4>1, <4>2 DEF LiveKnown
    <3> QED BY <3>1, <3>3, <3>4, <3>5
  <2>6. WillHear'
    BY <1>1, <2>5 DEF WillHear
  <2> QED BY <2>4, <2>6 DEF PowerInv
<1>3. CASE Mishap("loss") /\ UNCHANGED <<record, stream, blind>>
  <2>1. ~Told'
    BY <1>1, <1>3 DEF Told, Mishap
  <2> QED BY <1>1, <2>1 DEF PowerInv, BootFirst, NoStray, WillHear
<1> QED BY <1>2, <1>3 DEF Lands

\* A step of the daemon that tells the mothership nothing yet: where what it
\* holds is ready, so it was before.
LEMMA QuietHeard ==
  ASSUME EdgeTypeOK, PowerInv, faults' = faults, (blind => blind'),
         BootFirst', NoStray',
         Told' /\ daemon'.launch = "ready" =>
           /\ daemon.launch = "ready" /\ UNCHANGED <<record, writes>>
           /\ OffComes => OffComes'
  PROVE  PowerInv'
<1>1. Told' => Told
  BY DEF Told
<1>2. WillHear'
  BY <1>1 DEF PowerInv, WillHear, LiveComes, LiveKnown
<1> QED BY <1>2 DEF PowerInv

LEMMA HearsHeard == ASSUME EdgeTypeOK, PowerInv, Hears PROVE PowerInv'
<1>1. /\ stream \in Seq(Records) /\ stream # <<>> /\ stream' = Tail(stream)
      /\ daemon \in DaemonType /\ daemon.at # "down"
      /\ UNCHANGED <<record, faults, blind>>
  BY DEF Hears, EdgeTypeOK
<1>2. OffComes => OffComes' \/ Head(stream) = [power |-> "off", status |-> "live"]
  <2>1. ASSUME NEW i \in 1..Len(stream), i # 1
        PROVE  i - 1 \in 1..Len(Tail(stream)) /\ Tail(stream)[i - 1] = stream[i]
    BY <1>1, <2>1
  <2>2. Head(stream) = stream[1]
    BY <1>1
  <2> QED BY <1>1, <2>1, <2>2 DEF OffComes
<1>3. CASE UNCHANGED <<daemon, writes, box>> /\ (Head(stream).status = "live" => daemon.launch # "ready")
  <2>1. OffComes /\ daemon.launch = "ready" => OffComes'
    BY <1>2, <1>3
  <2>2. BootFirst' /\ NoStray'
    BY <1>1, <1>3 DEF PowerInv, BootFirst, NoStray, Told
  <2> QED BY <1>1, <1>3, <2>1, <2>2, QuietHeard
<1>4. CASE daemon.launch = "ready" /\ Shutdown
  <2>1. daemon'.launch = "none" /\ daemon'.at = daemon.at /\ box' # "up"
    BY <1>1, <1>4 DEF Shutdown, DaemonType
  <2>2. BootFirst' /\ NoStray'
    BY <1>4, <2>1 DEF PowerInv, BootFirst, NoStray
  <2> QED BY <1>1, <2>1, <2>2, QuietHeard
<1>5. CASE daemon.launch \in {"spawn", "health"} /\ daemon' = [daemon EXCEPT !.shut = TRUE]
           /\ UNCHANGED <<writes, box>>
  <2>1. daemon'.launch = daemon.launch /\ daemon'.at = daemon.at
    BY <1>1, <1>5 DEF DaemonType
  <2>2. BootFirst' /\ NoStray'
    BY <1>5, <2>1 DEF PowerInv, BootFirst, NoStray
  <2> QED BY <1>1, <1>5, <2>1, <2>2, QuietHeard
<1>6. CASE daemon.launch = "none" /\ UNCHANGED <<daemon, box>>
  <2>1. BootFirst' /\ NoStray'
    BY <1>1, <1>6 DEF PowerInv, BootFirst, NoStray, Told
  <2> QED BY <1>1, <1>6, <2>1, QuietHeard
<1>7. CASE daemon.at = "on" /\ Launch
  <2>1. daemon'.launch = "spawn" /\ daemon'.at = "on"
    BY <1>1, <1>7 DEF Launch, DaemonType
  <2>2. BootFirst' /\ NoStray'
    BY <2>1 DEF BootFirst, NoStray
  <2> QED BY <1>1, <2>1, <2>2, QuietHeard
<1>8. CASE Head(stream).power # "off" /\ UNCHANGED <<daemon, writes, box>>
  <2>1. OffComes => OffComes'
    BY <1>2, <1>8
  <2>2. BootFirst' /\ NoStray'
    BY <1>1, <1>8 DEF PowerInv, BootFirst, NoStray, Told
  <2> QED BY <1>1, <1>8, <2>1, <2>2, QuietHeard
<1>9. CASE Head(stream).power = "off"
  <2>1. PowersOff(Head(stream).status)
    BY <1>9 DEF Hears
  <2> QED BY <1>3, <1>4, <1>5, <1>6, <2>1 DEF PowersOff
<1>10. CASE Head(stream).power # "off"
  <2>1. WarmsUp /\ UNCHANGED box
    BY <1>10 DEF Hears
  <2> QED BY <1>7, <1>8, <1>10, <2>1 DEF WarmsUp
<1> QED BY <1>9, <1>10

LEMMA LaunchHeard ==
  ASSUME EdgeTypeOK, PowerInv, Request \/ Spawn \/ Ready \/ LaunchFails
  PROVE  PowerInv'
<1>1. daemon \in DaemonType /\ UNCHANGED <<record, stream, faults, blind>>
  BY DEF EdgeTypeOK, Request, Spawn, Ready, LaunchFails
<1>2. CASE Request
  <2>1. daemon'.launch = "spawn" /\ daemon'.at = "on"
    BY <1>1, <1>2 DEF Request, Launch, DaemonType
  <2>2. BootFirst' /\ NoStray'
    BY <2>1 DEF BootFirst, NoStray
  <2> QED BY <1>1, <2>1, <2>2, QuietHeard
<1>3. CASE Spawn
  <2>1. daemon'.launch \in {"spawn", "health"} /\ daemon'.at = daemon.at /\ daemon.launch = "spawn"
    BY <1>1, <1>3 DEF Spawn, DaemonType
  <2>2. BootFirst' /\ NoStray'
    BY <2>1 DEF PowerInv, BootFirst, NoStray
  <2> QED BY <1>1, <2>1, <2>2, QuietHeard
<1>4. CASE Ready
  <2>1. daemon.launch = "health" /\ daemon'.at = Settled /\ Settled \notin {"down", "boot", "adopt"}
    BY <1>1, <1>4 DEF Ready, Settled, DaemonType, PowerInv, BootFirst
  <2>2. CASE daemon'.launch = "ready" /\ writes' = Append(writes, "live")
    <3>1. writes \in Seq(Status) /\ "live" \in Status
      BY DEF EdgeTypeOK, Status
    <3>2. LiveComes'
      BY <2>2, <3>1, AppendLast DEF LiveComes
    <3>3. BootFirst' /\ NoStray'
      BY <2>1, <2>2 DEF BootFirst, NoStray
    <3> QED BY <3>2, <3>3 DEF PowerInv, WillHear
  <2>3. CASE daemon'.launch = "none" /\ box' = "stopping"
    <3>1. BootFirst' /\ NoStray'
      BY <2>1, <2>3 DEF BootFirst, NoStray
    <3> QED BY <1>1, <2>3, <3>1, QuietHeard
  <2>4. \/ daemon'.launch = "ready" /\ writes' = Append(writes, "live")
        \/ daemon'.launch = "none" /\ box' = "stopping"
    BY <1>1, <1>4 DEF Ready, DaemonType
  <2> QED BY <2>2, <2>3, <2>4
<1>5. CASE LaunchFails
  <2>1. daemon'.launch = "none" /\ daemon'.at # "adopt" /\ box' # "up"
    BY <1>1, <1>5 DEF LaunchFails, DaemonType
  <2>2. BootFirst' /\ NoStray'
    BY <2>1 DEF BootFirst, NoStray
  <2> QED BY <1>1, <2>1, <2>2, QuietHeard
<1> QED BY <1>2, <1>3, <1>4, <1>5

LEMMA BoxHeard ==
  ASSUME EdgeTypeOK, PowerInv, BoxStops \/ BoxWrites \/ Drops \/ Connects
  PROVE  PowerInv'
<1>1. UNCHANGED <<record, daemon, writes, faults>> /\ (blind => blind')
  <2>1. CASE BoxStops \/ BoxWrites \/ Connects
    BY <2>1 DEF BoxStops, BoxWrites, Connects
  <2>2. CASE Drops
    <3>1. UNCHANGED <<record, daemon, writes, faults>>
      BY <2>2 DEF Drops
    <3>2. blind => blind'
      BY <2>2, Zenon DEF Drops
    <3> QED BY <3>1, <3>2
  <2> QED BY <2>1, <2>2
<1>2. BootFirst' /\ NoStray'
  <2>1. Told' => Told
    BY <1>1 DEF Told
  <2>2. box' = box \/ box' = "none"
    BY DEF BoxStops, BoxWrites, Drops, Connects
  <2> QED BY <1>1, <2>1, <2>2 DEF PowerInv, BootFirst, NoStray
<1>3. CASE UNCHANGED stream
  <2>1. OffComes => OffComes'
    BY <1>3 DEF OffComes
  <2> QED BY <1>1, <1>2, <2>1, QuietHeard
<1>4. CASE Drops
  <2>1. blind' = (blind \/ (InService /\ Offs(stream)))
    BY <1>4 DEF Drops
  <2>2. OffComes => Offs(stream)
    BY DEF OffComes, Offs
  <2>3. daemon.launch = "ready" => InService
    BY DEF PowerInv, BootFirst, InService, EdgeTypeOK, DaemonType
  <2>4. Told' /\ daemon.launch = "ready" => ~OffComes
    BY <2>1, <2>2, <2>3 DEF Told
  <2> QED BY <1>1, <1>2, <2>4, QuietHeard
<1> QED BY <1>3, <1>4 DEF BoxStops, BoxWrites, Connects

LEMMA DaemonHeard ==
  ASSUME EdgeTypeOK, PowerInv, DaemonStops \/ DaemonStarts \/ Reconcile \/ AppliesDump
  PROVE  PowerInv'
<1>1. daemon \in DaemonType /\ faults' = faults
  BY DEF EdgeTypeOK, DaemonStops, DaemonStarts, Reconcile, AppliesDump
<1>2. CASE DaemonStops
  <2>1. daemon'.launch = "none" /\ daemon'.at = "down"
    BY <1>2 DEF DaemonStops
  <2> QED BY <2>1 DEF PowerInv, BootFirst, NoStray, WillHear
<1>3. CASE DaemonStarts
  <2>1. daemon.launch = "none"
    BY <1>3 DEF DaemonStarts, PowerInv, BootFirst
  <2>2. daemon'.launch = "none" /\ daemon'.at = "boot"
    BY <1>1, <1>3, <2>1 DEF DaemonStarts, DaemonType
  <2> QED BY <2>2 DEF PowerInv, BootFirst, NoStray, WillHear
<1>4. CASE Reconcile
  <2>1. daemon.launch = "none" /\ daemon.at = "boot"
    BY <1>4 DEF Reconcile, PowerInv, BootFirst
  <2>2. \/ daemon'.at = "adopt" /\ daemon'.launch = "health"
        \/ daemon' = daemon
        \/ daemon'.at = "sync" /\ daemon'.launch = "none" /\ (box' = "none" \/ blind' = TRUE)
    BY <1>1, <1>4, <2>1 DEF Reconcile, DaemonType
  <2> QED BY <2>1, <2>2 DEF PowerInv, BootFirst, NoStray, WillHear, Told
<1>5. CASE AppliesDump
  <2>1. UNCHANGED <<record, stream, box, blind>>
    BY <1>5 DEF AppliesDump
  <2>2. \/ UNCHANGED <<daemon, writes>>
        \/ daemon'.launch = "spawn" /\ daemon'.at = "on"
        \/ /\ daemon'.at = "on" /\ daemon.at = "wait" /\ daemon'.launch = daemon.launch
           /\ UNCHANGED writes
    BY <1>1, <1>5 DEF AppliesDump, Launch, DaemonType
  <2>3. OffComes => OffComes'
    BY <2>1 DEF OffComes
  <2>4. BootFirst' /\ NoStray'
    BY <1>1, <2>1, <2>2 DEF PowerInv, BootFirst, NoStray, Told
  <2> QED BY <1>1, <2>1, <2>2, <2>3, <2>4, QuietHeard
<1> QED BY <1>2, <1>3, <1>4, <1>5

LEMMA EdgeHeard == ASSUME EdgeTypeOK, PowerInv, EdgeNext PROVE PowerInv'
<1>1. ASSUME NEW q \in Power, UserPower(q) PROVE PowerInv'
  BY <1>1, PowerHeard DEF UserPower
<1>2. CASE Resync
  <2>1. FALSE \in BOOLEAN /\ (dump = "asklive") \in BOOLEAN
    OBVIOUS
  <2> QED BY <1>2, <2>1, DumpHeard DEF Resync
<1>3. CASE BootSync
  <2>1. TRUE \in BOOLEAN /\ Lives \in BOOLEAN
    BY DEF Lives
  <2>2. daemon'.launch = daemon.launch /\ daemon.at \in Serving /\ daemon'.at \in Serving
    BY <1>3 DEF BootSync, EdgeTypeOK, DaemonType, Serving
  <2> QED BY <1>3, <2>1, <2>2, DumpHeard DEF BootSync
<1> QED BY <1>1, <1>2, <1>3, LandsHeard, HearsHeard, LaunchHeard, BoxHeard, DaemonHeard
        DEF EdgeNext, EdgeProgress

LEMMA StepHeard == ASSUME TypeOK, PowerInv, NEW p \in Op, Step(p) PROVE PowerInv'
<1>1. EdgeTypeOK /\ record \in Records
  BY Opens DEF EdgeTypeOK
<1>2. UNCHANGED <<daemon, box, writes, faults>>
  BY DEF Step, Begin, Stop, Insist, Halted, TimesOut, Guard, Copy, Pack, Unpack, Aside, Install,
     Undo, Back, Commit, Fail, Restart, End, edge, edgeOnly
<1>3. \/ UNCHANGED <<record, stream, blind>>
      \/ Save(record)
      \/ \E q \in Power : Save([record EXCEPT !.power = q])
  BY DEF Step, Begin, Stop, Insist, Halted, TimesOut, Guard, Copy, Pack, Unpack, Aside, Install,
     Undo, Back, Commit, Fail, Restart, End, edge, Power
<1>4. LiveKnown => record.status = "live"
  BY DEF LiveKnown
<1> QED BY <1>1, <1>2, <1>3, <1>4, SaveHeard, PowerHeard

LEMMA RestHeard ==
  ASSUME TypeOK, PowerInv,
         (\E p \in Op : Check(p)) \/ MothershipRestarts \/ UNCHANGED vars
  PROVE  PowerInv'
<1>1. CASE MothershipRestarts
  <2>1. daemon' = daemon /\ faults' = faults /\ "mothership" \in faults
    BY <1>1 DEF MothershipRestarts, MothershipStops, Mishap
  <2>2. ~Told'
    BY <2>1 DEF Told
  <2> QED BY <2>1, <2>2 DEF PowerInv, BootFirst, NoStray, WillHear
<1>2. CASE UNCHANGED edge
  BY <1>2 DEF edge, PowerInv, BootFirst, NoStray, WillHear, Told, LiveComes, OffComes, LiveKnown
<1> QED BY <1>1, <1>2 DEF Check, vars

LEMMA InitHeard == ASSUME Init PROVE PowerInv
<1>1. daemon.at = "on" /\ stream = <<>> /\ writes = <<>>
  BY DEF Init, EdgeInit
<1>2. daemon.launch = "ready" => record = [power |-> "on", status |-> "live"]
  BY DEF Init, EdgeInit
<1>3. daemon.launch = "none" => box = "none"
  BY DEF Init, EdgeInit
<1> QED BY <1>1, <1>2, <1>3 DEF PowerInv, BootFirst, NoStray, WillHear, LiveKnown

\* Switching an instance off stops its container, whatever connections drop, daemons
\* restart, look-ups or launches fail and operations switch the power meanwhile, if
\* the daemon in service was told.
THEOREM OffIsObeyed == Spec => []PowerOffObeyed
<1>1. Init => PowerInv
  BY InitHeard
<1>2. TypeOK /\ PowerInv /\ [Next]_vars => PowerInv'
  <2> SUFFICES ASSUME TypeOK, PowerInv, [Next]_vars PROVE PowerInv'
    OBVIOUS
  <2>1. CASE EdgeNext
    BY <2>1, EdgeHeard, Opens
  <2> QED BY <2>1, StepHeard, RestHeard DEF Next
<1>3. TypeOK /\ PowerInv => PowerOffObeyed
  <2> SUFFICES ASSUME TypeOK, PowerInv, Quiet, record.power = "off", Told
               PROVE  box # "up"
    BY DEF PowerOffObeyed, Told
  <2>1. daemon.launch # "ready"
    <3>1. ~OffComes
      BY DEF Quiet, OffComes
    <3>2. ~LiveComes
      BY DEF Quiet, LiveComes
    <3>3. ~LiveKnown
      BY DEF LiveKnown
    <3> QED BY <3>1, <3>2, <3>3 DEF PowerInv, WillHear
  <2> QED BY <2>1 DEF Quiet, PowerInv, NoStray
<1> QED BY <1>1, <1>2, <1>3, TypeCorrect, PTL DEF Spec

-----------------------------------------------------------------------------
(* The power is given back as it was found. *)

Only(p) == \A q \in Op \ {p} : op[q].at = "rest"

PowerFits(p) ==
  /\ op[p].since <= toggles
  /\ Only(p) /\ op[p].since = toggles /\ "disk" \notin faults =>
       /\ op[p].at \in {"begin", "stop"} => (op[p].restart <=> record.power = "on")
       /\ op[p].at \in Working \ {"begin", "stop", "end"} => record.power = "off"
       /\ op[p].at \in {"end", "done"} => record.power = IF op[p].restart THEN "on" ELSE "off"

PowersFit == \A p \in Op : PowerFits(p)

LEMMA EdgePowers ==
  ASSUME TypeOK, PowersFit, EdgeNext, UNCHANGED <<op, backup>> PROVE PowersFit'
<1>1. EdgeTypeOK' /\ EdgeTypeOK /\ faults' = faults
  BY EdgeFits, Opens DEF Gains
<1>2. toggles \in Nat /\ \A p \in Op : op[p].since \in Nat
  BY <1>1, MirrorBounds, Opens DEF EdgeTypeOK, OpType
<1>3. CASE \E q \in Power : UserPower(q)
  <2>1. toggles' = toggles + 1
    BY <1>3 DEF UserPower
  <2> QED BY <1>2, <2>1 DEF PowersFit, PowerFits
<1>4. CASE ~\E q \in Power : UserPower(q)
  <2>1. toggles' = toggles
    BY <1>4 DEF EdgeNext, EdgeProgress, Lands, Hears, Spawn, Ready, LaunchFails, BoxStops, Connects,
       Resync, DaemonStarts, Reconcile, BootSync, AppliesDump, Request, BoxWrites, Drops, DaemonStops
  <2>2. \A status \in Status : [record EXCEPT !.status = status].power = record.power
    BY <1>1 DEF EdgeTypeOK, Records
  <2>3. record'.power = record.power
    <3>1. CASE Lands
      <4>1. Head(writes) \in Status
        BY <1>1, <3>1, QueueFits DEF Lands, EdgeTypeOK
      <4> QED BY <2>2, <3>1, <4>1 DEF Lands, Save
    <3>2. ASSUME NEW reset \in BOOLEAN, NEW live \in BOOLEAN, Dumps(reset, live)
          PROVE  record'.power = record.power
      <4>1. Synced(reset, live).power = record.power
        BY <1>1 DEF Synced, EdgeTypeOK, Records
      <4> QED BY <3>2, <4>1 DEF Dumps, Save
    <3>3. CASE Resync \/ BootSync
      <4>1. FALSE \in BOOLEAN /\ TRUE \in BOOLEAN /\ (dump = "asklive") \in BOOLEAN /\ Lives \in BOOLEAN
        BY DEF Lives
      <4> QED BY <3>2, <3>3, <4>1 DEF Resync, BootSync
    <3>4. CASE UNCHANGED record
      BY <3>4
    <3> QED BY <1>4, <3>1, <3>3, <3>4 DEF EdgeNext, EdgeProgress, Hears, Spawn, Ready, LaunchFails,
         BoxStops, Connects, DaemonStarts, Reconcile, AppliesDump, Request, BoxWrites, Drops, DaemonStops
  <2> QED BY <1>1, <2>1, <2>3 DEF PowersFit, PowerFits, Only
<1> QED BY <1>3, <1>4

\* What an operation notes when it begins.
LEMMA CheckNotes ==
  ASSUME TypeOK, NEW p \in Op, Check(p)
  PROVE  /\ UNCHANGED <<edge, backup>>
         /\ op[p].at = "rest" /\ op'[p].at = "begin" /\ op'[p].since = toggles
         /\ op'[p].restart <=> record.power = "on"
         /\ op'[p].calm <=> Calm
         /\ \A q \in Op \ {p} : op'[q] = op[q]
<1>1. PICK kind \in {"backup", "restore"}, b \in Backup :
        op' = [op EXCEPT ![p] = [@ EXCEPT !.at = "begin", !.kind = kind,
                                          !.from = IF kind = "restore" THEN b ELSE 0,
                                          !.restart = (record.power = "on"),
                                          !.calm = Calm, !.since = toggles]]
  BY DEF Check
<1>2. op[p] \in OpType
  BY Opens
<1> DEFINE from == IF kind = "restore" THEN b ELSE 0
           r == record.power = "on"
           c == Calm
<1> DEFINE o == [op[p] EXCEPT !.at = "begin", !.kind = kind, !.from = from,
                              !.restart = r, !.calm = c, !.since = toggles]
<1>3. op'[p] = o /\ \A q \in Op \ {p} : op'[q] = op[q]
  BY <1>1, Opens
<1>4. o.at = "begin" /\ o.since = toggles
  BY <1>2 DEF OpType
<1> HIDE DEF c
<1>5. o.restart = r /\ o.calm = c
  BY <1>2 DEF OpType
<1> HIDE DEF o
<1>6. (op'[p].restart <=> record.power = "on") /\ op'[p].calm = c
  BY <1>3, <1>5
<1>7. op'[p].calm <=> Calm
  BY <1>6, Zenon DEF c
<1> QED BY <1>3, <1>4, <1>6, <1>7 DEF Check, At

LEMMA CheckPowers ==
  ASSUME TypeOK, PowersFit, NEW p \in Op, Check(p) PROVE PowersFit'
<1>1. UNCHANGED <<toggles, record, faults>> /\ op[p] \in OpType /\ toggles \in Nat
  BY Opens, MirrorBounds DEF Check, edge, EdgeTypeOK
<1>2. /\ op'[p].at = "begin" /\ op'[p].since = toggles /\ (op'[p].restart <=> record.power = "on")
      /\ \A q \in Op \ {p} : op'[q] = op[q]
  BY CheckNotes
<1>3. PowerFits(p)'
  <2>1. op'[p].at \notin Working \ {"begin", "stop", "end"} /\ op'[p].at \notin {"end", "done"}
    BY <1>2
  <2>2. op'[p].since <= toggles'
    BY <1>1, <1>2
  <2>3. op'[p].restart <=> record'.power = "on"
    BY <1>1, <1>2
  <2> QED BY <2>1, <2>2, <2>3 DEF PowerFits
<1>4. ASSUME NEW q \in Op \ {p} PROVE PowerFits(q)'
  <2>1. ~Only(q)'
    BY <1>2, <1>4 DEF Only
  <2> QED BY <1>1, <1>2, <1>4, <2>1 DEF PowersFit, PowerFits
<1> QED BY <1>3, <1>4 DEF PowersFit

\* What an operation notes of the power when it begins stays, wherever it goes.
Noted(p, places) ==
  /\ op'[p].since = op[p].since /\ op'[p].restart = op[p].restart /\ op'[p].calm = op[p].calm
  /\ op'[p].at \in places

\* It steps to o, which differs from it in the place and in what else it does.
LEMMA Notes ==
  ASSUME op \in [Op -> OpType], NEW p \in Op, NEW o, op' = [op EXCEPT ![p] = o],
         o.since = op[p].since, o.restart = op[p].restart, o.calm = op[p].calm, NEW places, o.at \in places
  PROVE  Noted(p, places)
BY DEF Noted

RenamePlaces == {"aside", "install", "undo", "back", "commit", "fail"}

\* In the loops it notes nothing new, of the files neither.
Renamed(p) ==
  Noted(p, RenamePlaces) /\ op'[p].made = op[p].made /\ op'[p].seen = op[p].seen

LEMMA LoopNotes ==
  ASSUME TypeOK, ShapeFits, NEW p \in Op, Aside(p) \/ Install(p) \/ Undo(p) \/ Back(p)
  PROVE  Renamed(p)
<1>1. op[p] \in OpType /\ op \in [Op -> OpType]
  BY Opens
<1>2. ASSUME NEW place \in {"aside", "install", "undo", "back"},
             NEW then \in {"install", "back", "commit", "fail"},
             NEW rest \in SUBSET Dir, then = "install" => rest # {}, op[p].todo # {},
             NEW o, o = Advance(p, place, then, rest)
      PROVE  /\ o \in OpType /\ o.at \in RenamePlaces
             /\ o.since = op[p].since /\ o.restart = op[p].restart /\ o.calm = op[p].calm
             /\ o.made = op[p].made /\ o.seen = op[p].seen
  <2>1. Turn(p, o, place, then, rest)
    BY <1>2, LoopOps
  <2>2. /\ o \in OpType /\ o.at \in {place, then}
        /\ o = [op[p] EXCEPT !.todo = o.todo, !.at = o.at]
    BY <2>1 DEF Turn
  <2>3. /\ o.since = op[p].since /\ o.restart = op[p].restart /\ o.calm = op[p].calm
        /\ o.made = op[p].made /\ o.seen = op[p].seen
    BY <1>1, <2>2 DEF OpType
  <2> QED BY <2>2, <2>3 DEF RenamePlaces
<1>3. ASSUME NEW o \in OpType, NEW n, o.at \in RenamePlaces,
             o.since = op[p].since, o.restart = op[p].restart, o.calm = op[p].calm,
             o.made = op[p].made, o.seen = op[p].seen,
             n = o \/ \E m, i, a : n = [o EXCEPT !.moved = m, !.installed = i, !.aside = a],
             op' = [op EXCEPT ![p] = n]
      PROVE  Renamed(p)
  <2>1. /\ n.at = o.at /\ n.since = o.since /\ n.restart = o.restart /\ n.calm = o.calm
        /\ n.made = o.made /\ n.seen = o.seen
    BY <1>3 DEF OpType
  <2>2. Noted(p, RenamePlaces)
    BY <1>1, <1>3, <2>1, Notes
  <2> QED BY <1>1, <1>3, <2>1, <2>2 DEF Renamed
<1>4. ASSUME NEW place \in RenamePlaces, NEW rest, op' = [op EXCEPT ![p] = [@ EXCEPT !.at = place, !.todo = rest]]
      PROVE  Renamed(p)
  <2>1. op' = [op EXCEPT ![p] = [op[p] EXCEPT !.at = place, !.todo = rest]]
    BY <1>1, <1>4
  <2>2. /\ [op[p] EXCEPT !.at = place, !.todo = rest].at = place
        /\ [op[p] EXCEPT !.at = place, !.todo = rest].since = op[p].since
        /\ [op[p] EXCEPT !.at = place, !.todo = rest].restart = op[p].restart
        /\ [op[p] EXCEPT !.at = place, !.todo = rest].calm = op[p].calm
        /\ [op[p] EXCEPT !.at = place, !.todo = rest].made = op[p].made
        /\ [op[p] EXCEPT !.at = place, !.todo = rest].seen = op[p].seen
    BY <1>1 DEF OpType
  <2>3. Noted(p, RenamePlaces)
    BY <1>1, <2>1, <2>2, Notes
  <2> QED BY <1>1, <2>1, <2>2, <2>3 DEF Renamed
<1>5. CASE Aside(p)
  <2> DEFINE o == Advance(p, "aside", "install", Dir)
             n == [o EXCEPT !.moved = o.moved \cup {First(p)},
                            !.aside = [o.aside EXCEPT ![First(p)] = disk[First(p)]]]
  <2>1. op[p].todo # {}
    BY <1>5 DEF Aside, At, ShapeFits, Shaped
  <2>2. /\ o \in OpType /\ o.at \in RenamePlaces
        /\ o.since = op[p].since /\ o.restart = op[p].restart /\ o.calm = op[p].calm
        /\ o.made = op[p].made /\ o.seen = op[p].seen
    BY <1>2, <2>1, SomeDir
  <2>3. \/ op' = [op EXCEPT ![p] = o]
        \/ op' = [op EXCEPT ![p] = n]
        \/ Revert(p)
    BY <1>5, <2>2 DEF Aside, OpType
  <2>4. n = [o EXCEPT !.moved = n.moved, !.installed = n.installed, !.aside = n.aside]
    BY <2>2 DEF OpType
  <2> HIDE DEF o, n
  <2>5. CASE op' = [op EXCEPT ![p] = o]
    BY <1>3, <2>2, <2>5
  <2>6. CASE op' = [op EXCEPT ![p] = n]
    BY <1>3, <2>2, <2>4, <2>6
  <2>7. CASE Revert(p)
    BY <1>4, <2>7 DEF Revert, RenamePlaces
  <2> QED BY <2>3, <2>5, <2>6, <2>7
<1>6. CASE Install(p)
  <2> DEFINE o == Advance(p, "install", "commit", {})
             n == [o EXCEPT !.installed = o.installed \cup {First(p)}]
  <2>1. op[p].todo # {}
    BY <1>6 DEF Install, At, ShapeFits, Shaped
  <2>2. /\ o \in OpType /\ o.at \in RenamePlaces
        /\ o.since = op[p].since /\ o.restart = op[p].restart /\ o.calm = op[p].calm
        /\ o.made = op[p].made /\ o.seen = op[p].seen
    BY <1>2, <2>1
  <2>3. \/ op' = [op EXCEPT ![p] = n]
        \/ Revert(p)
    BY <1>6, <2>2 DEF Install, OpType
  <2>4. n = [o EXCEPT !.moved = n.moved, !.installed = n.installed, !.aside = n.aside]
    BY <2>2 DEF OpType
  <2> HIDE DEF o, n
  <2>5. CASE op' = [op EXCEPT ![p] = n]
    BY <1>3, <2>2, <2>4, <2>5
  <2>6. CASE Revert(p)
    BY <1>4, <2>6 DEF Revert, RenamePlaces
  <2> QED BY <2>3, <2>5, <2>6
<1>7. CASE Undo(p)
  <2> DEFINE o == Advance(p, "undo", "back", op[p].moved)
  <2>1. CASE op[p].todo = {}
    BY <1>4, <1>7, <2>1 DEF Undo, RenamePlaces
  <2>2. CASE op[p].todo # {}
    <3>1. op' = [op EXCEPT ![p] = o] /\ op[p].moved \in SUBSET Dir
      BY <1>1, <1>7, <2>2 DEF Undo, OpType
    <3>2. /\ o \in OpType /\ o.at \in RenamePlaces
          /\ o.since = op[p].since /\ o.restart = op[p].restart /\ o.calm = op[p].calm
          /\ o.made = op[p].made /\ o.seen = op[p].seen
      BY <1>2, <2>2, <3>1
    <3> HIDE DEF o
    <3> QED BY <1>3, <3>1, <3>2
  <2> QED BY <2>1, <2>2
<1>8. CASE Back(p)
  <2> DEFINE o == Advance(p, "back", "fail", {})
             n == [o EXCEPT !.aside = [o.aside EXCEPT ![First(p)] = Missing]]
  <2>1. CASE Goto(p, "fail")
    <3>1. op' = [op EXCEPT ![p] = [@ EXCEPT !.at = "fail", !.todo = op[p].todo]]
      BY <1>1, <2>1 DEF Goto, OpType
    <3> QED BY <1>4, <3>1 DEF RenamePlaces
  <2>2. CASE op[p].todo # {}
    <3>1. /\ o \in OpType /\ o.at \in RenamePlaces
          /\ o.since = op[p].since /\ o.restart = op[p].restart /\ o.calm = op[p].calm
          /\ o.made = op[p].made /\ o.seen = op[p].seen
      BY <1>2, <2>2
    <3>2. op' = [op EXCEPT ![p] = o] \/ op' = [op EXCEPT ![p] = n]
      BY <1>8, <2>2, <3>1 DEF Back, OpType
    <3>3. n = [o EXCEPT !.moved = n.moved, !.installed = n.installed, !.aside = n.aside]
      BY <3>1 DEF OpType
    <3> HIDE DEF o, n
    <3>4. CASE op' = [op EXCEPT ![p] = o]
      BY <1>3, <3>1, <3>4
    <3>5. CASE op' = [op EXCEPT ![p] = n]
      BY <1>3, <3>1, <3>3, <3>5
    <3> QED BY <3>2, <3>4, <3>5
  <2> QED BY <1>8, <2>1, <2>2 DEF Back
<1> QED BY <1>5, <1>6, <1>7, <1>8

\* Wherever else it goes, it does not come back to where the power is switched.
LEMMA StepNotes ==
  ASSUME TypeOK, ShapeFits, NEW p \in Op, Step(p)
  PROVE  /\ op'[p].since = op[p].since /\ op'[p].restart = op[p].restart /\ op'[p].calm = op[p].calm
         /\ Begin(p) \/ op'[p].at # "begin"
         /\ Begin(p) \/ op'[p].at # "stop"
         /\ Restart(p) \/ op'[p].at # "end"
         /\ End(p) \/ op'[p].at # "done"
<1>1. op[p] \in OpType /\ op \in [Op -> OpType]
  BY Opens
<1>2. ASSUME NEW place, Goto(p, place) PROVE Noted(p, {place})
  <2>1. op' = [op EXCEPT ![p] = [op[p] EXCEPT !.at = place]]
    BY <1>1, <1>2 DEF Goto
  <2>2. /\ [op[p] EXCEPT !.at = place].at = place
        /\ [op[p] EXCEPT !.at = place].since = op[p].since
        /\ [op[p] EXCEPT !.at = place].restart = op[p].restart
        /\ [op[p] EXCEPT !.at = place].calm = op[p].calm
    BY <1>1 DEF OpType
  <2> QED BY <1>1, <2>1, <2>2, Notes
<1>3. ASSUME NEW place, NEW made, op' = [op EXCEPT ![p] = [@ EXCEPT !.at = place, !.made = made]]
      PROVE  Noted(p, {place})
  <2>1. op' = [op EXCEPT ![p] = [op[p] EXCEPT !.at = place, !.made = made]]
    BY <1>1, <1>3
  <2>2. /\ [op[p] EXCEPT !.at = place, !.made = made].at = place
        /\ [op[p] EXCEPT !.at = place, !.made = made].since = op[p].since
        /\ [op[p] EXCEPT !.at = place, !.made = made].restart = op[p].restart
        /\ [op[p] EXCEPT !.at = place, !.made = made].calm = op[p].calm
    BY <1>1 DEF OpType
  <2> QED BY <1>1, <2>1, <2>2, Notes
<1>4. ASSUME NEW place, NEW todo, NEW moved, NEW aside, NEW seen, NEW o,
             o = [op[p] EXCEPT !.at = place, !.todo = todo, !.moved = moved, !.aside = aside, !.seen = seen],
             op' = [op EXCEPT ![p] = o]
      PROVE  Noted(p, {place})
  <2>1. o.at = place /\ o.since = op[p].since /\ o.restart = op[p].restart /\ o.calm = op[p].calm
    BY <1>1, <1>4 DEF OpType
  <2> QED BY <1>1, <1>4, <2>1, Notes
<1>5. CASE Begin(p)
  <2>1. Noted(p, {"stop"})
    BY <1>2, <1>3, <1>5 DEF Begin
  <2> QED BY <1>5, <2>1 DEF Noted
<1>6. CASE Stop(p)
  <2>1. Noted(p, {"wait"})
    BY <1>2, <1>6 DEF Stop
  <2> QED BY <2>1 DEF Noted
<1>7. CASE Insist(p)
  BY <1>1, <1>7 DEF Insist, Waits
<1>8. CASE Halted(p)
  <2>1. Noted(p, {"guard"}) \/ Noted(p, {"copy"})
    BY <1>2, <1>8 DEF Halted
  <2> QED BY <2>1 DEF Noted
<1>9. ASSUME NEW then \in {"failed", "restart"}, FailsBackup(p, then)
      PROVE  Noted(p, {"fail"}) \/ Noted(p, {then})
  BY <1>2, <1>9 DEF FailsBackup, Goto
<1>10. CASE TimesOut(p)
  <2>1. Noted(p, {"fail"}) \/ Noted(p, {"failed"})
    BY <1>9, <1>10 DEF TimesOut
  <2> QED BY <2>1 DEF Noted
<1>11. CASE Guard(p)
  <2>1. Noted(p, {"halt"})
    BY <1>3, <1>11 DEF Guard
  <2> QED BY <2>1 DEF Noted
<1>12. CASE Copy(p)
  <2> DEFINE o == [op[p] EXCEPT !.at = "pack", !.todo = op[p].todo, !.moved = op[p].moved,
                                !.aside = op[p].aside, !.seen = Ensured]
  <2>1. op' = [op EXCEPT ![p] = o]
    BY <1>1, <1>12 DEF Copy, OpType
  <2> HIDE DEF o
  <2>2. Noted(p, {"pack"})
    BY <1>4, <2>1 DEF o
  <2> QED BY <2>2 DEF Noted
<1>13. CASE Pack(p)
  <2>1. Noted(p, {"unpack"}) \/ Noted(p, {"restart"}) \/ Noted(p, {"fail"})
    BY <1>2, <1>9, <1>13 DEF Pack
  <2> QED BY <2>1 DEF Noted
<1>14. CASE Unpack(p)
  <2>1. CASE op' = [op EXCEPT ![p] = [@ EXCEPT !.at = "aside", !.todo = Dir, !.seen = disk]]
    <3> DEFINE o == [op[p] EXCEPT !.at = "aside", !.todo = Dir, !.moved = op[p].moved,
                                  !.aside = op[p].aside, !.seen = disk]
    <3>1. op' = [op EXCEPT ![p] = o]
      BY <1>1, <2>1 DEF OpType
    <3> HIDE DEF o
    <3>2. Noted(p, {"aside"})
      BY <1>4, <3>1 DEF o
    <3> QED BY <3>2 DEF Noted
  <2>2. CASE Goto(p, "fail")
    <3>1. Noted(p, {"fail"})
      BY <1>2, <2>2
    <3> QED BY <3>1 DEF Noted
  <2> QED BY <1>14, <2>1, <2>2 DEF Unpack
<1>15. CASE Aside(p) \/ Install(p) \/ Undo(p) \/ Back(p)
  BY <1>15, LoopNotes DEF Renamed, Noted, RenamePlaces
<1>16. CASE Commit(p)
  <2> DEFINE o == [op[p] EXCEPT !.at = "restart", !.todo = op[p].todo, !.moved = {},
                                !.aside = Nowhere, !.seen = op[p].seen]
  <2>1. op' = [op EXCEPT ![p] = o]
    BY <1>1, <1>16 DEF Commit, OpType
  <2> HIDE DEF o
  <2>2. Noted(p, {"restart"})
    BY <1>4, <2>1 DEF o
  <2> QED BY <2>2 DEF Noted
<1>17. CASE Fail(p)
  <2>1. Noted(p, {"failed"})
    BY <1>2, <1>17 DEF Fail
  <2> QED BY <2>1 DEF Noted
<1>18. CASE Restart(p)
  <2>1. Noted(p, {"end"})
    BY <1>2, <1>18 DEF Restart
  <2> QED BY <1>18, <2>1 DEF Noted
<1>19. CASE End(p)
  <2>1. Noted(p, {"done"}) \/ Noted(p, {"failed"})
    BY <1>2, <1>19 DEF End
  <2> QED BY <1>19, <2>1 DEF Noted
<1> QED BY <1>5, <1>6, <1>7, <1>8, <1>10, <1>11, <1>12, <1>13, <1>14, <1>15, <1>16, <1>17, <1>18, <1>19 DEF Step

LEMMA StepPowers ==
  ASSUME TypeOK, ShapeFits, PowersFit, NEW p \in Op, Step(p) PROVE PowersFit'
<1>1. OpsFit /\ Own(p) /\ EdgeTypeOK'
  BY StepFits DEF OpFits
<1>2. /\ faults' = faults /\ toggles' = toggles
      /\ op[p].at # "rest" /\ op'[p].at # "rest" /\ \A q \in Op \ {p} : op'[q] = op[q]
  <2>1. toggles' = toggles
    BY DEF Step, Begin, Stop, Insist, Halted, TimesOut, Guard, Copy, Pack, Unpack, Aside, Install,
       Undo, Back, Commit, Fail, Restart, End, edge, edgeOnly
  <2> QED BY <1>1, <2>1, WorkPlaces DEF Own, Working, Files
<1>3. ASSUME NEW q \in Op \ {p} PROVE PowerFits(q)'
  <2>1. ~Only(q)'
    BY <1>2, <1>3 DEF Only
  <2> QED BY <1>2, <1>3, <2>1 DEF PowersFit, PowerFits
<1>4. op[p] \in OpType /\ op \in [Op -> OpType] /\ record \in Records
  BY Opens DEF EdgeTypeOK
<1>5. op'[p].since = op[p].since /\ op'[p].restart = op[p].restart
  BY StepNotes
<1>6. PowerFits(p)'
  <2>1. SUFFICES ASSUME Only(p), op[p].since = toggles, "disk" \notin faults
                 PROVE  /\ op'[p].at \in {"begin", "stop"} => (op[p].restart <=> record'.power = "on")
                        /\ op'[p].at \in Working \ {"begin", "stop", "end"} => record'.power = "off"
                        /\ op'[p].at \in {"end", "done"} =>
                             record'.power = IF op[p].restart THEN "on" ELSE "off"
    BY <1>2, <1>5 DEF PowersFit, PowerFits, Only
  <2>2. /\ op[p].at \in {"begin", "stop"} => (op[p].restart <=> record.power = "on")
        /\ op[p].at \in Working \ {"begin", "stop", "end"} => record.power = "off"
        /\ op[p].at \in {"end", "done"} => record.power = IF op[p].restart THEN "on" ELSE "off"
    BY <2>1 DEF PowersFit, PowerFits
  <2>3. CASE Begin(p)
    <3>1. op[p].at = "begin" /\ op'[p].at = "stop" /\ record' = record
      <4>1. op[p].at = "begin" /\ op'[p].at = "stop"
        BY <1>4, <2>3, BeginGoes
      <4>2. record' = record
        BY <2>3 DEF Begin, edge
      <4> QED BY <4>1, <4>2
    <3> QED BY <2>2, <3>1, WorkPlaces DEF Working, Files
  <2>4. CASE Stop(p)
    <3>1. op[p].at = "stop" /\ op'[p].at = "wait"
      BY <1>4, <2>4 DEF Stop, Goto, At, OpType
    <3>2. record'.power = "off"
      BY <1>4, <2>2, <2>4, <3>1 DEF Stop, Save, Records, Power
    <3> QED BY <3>1, <3>2
  <2>5. CASE Restart(p)
    <3>1. op[p].at = "restart" /\ op'[p].at = "end" /\ record.power = "off"
      BY <1>4, <2>2, <2>5 DEF Restart, Goto, At, OpType, Working
    <3>2. record'.power = IF op[p].restart THEN "on" ELSE "off"
      BY <1>4, <2>1, <2>5, <3>1 DEF Restart, Save, Records, Mishap
    <3> QED BY <3>1, <3>2
  <2>6. CASE End(p)
    <3>1. op[p].at = "end" /\ op'[p].at \in {"done", "failed"} /\ record' = record
      BY <1>4, <2>6 DEF End, Goto, At, OpType, edge
    <3> QED BY <2>2, <3>1, WorkPlaces DEF Working, Files
  <2>7. CASE ~(Begin(p) \/ Stop(p) \/ Restart(p) \/ End(p))
    <3>1. op[p].at \in Working \ {"begin", "stop", "end"}
      BY <2>7, WorkPlaces DEF Step, Insist, Halted, TimesOut, Guard, Copy, Pack, Unpack, Aside,
         Install, Undo, Back, Commit, Fail, At, Waits, Working, Files
    <3>2. record'.power = "off"
      BY <1>4, <2>2, <2>7, <3>1 DEF Step, Insist, Halted, TimesOut, Guard, Copy, Pack, Unpack, Aside,
         Install, Undo, Back, Commit, Fail, Save, edge, Records
    <3>3. op'[p].at \notin {"begin", "stop", "end", "done"}
      BY <2>7, StepNotes
    <3> QED BY <3>2, <3>3
  <2> QED BY <2>3, <2>4, <2>5, <2>6, <2>7
<1> QED BY <1>3, <1>6 DEF PowersFit

LEMMA MothershipPowers ==
  ASSUME TypeOK, PowersFit, MothershipRestarts PROVE PowersFit'
<1>1. record'.power = record.power /\ UNCHANGED <<toggles, faults>>
  <2>1. [record EXCEPT !.status = "idle"].power = record.power
    BY Opens DEF EdgeTypeOK, Records
  <2> QED BY <2>1 DEF MothershipRestarts, MothershipStops
<1>2. ASSUME NEW p \in Op PROVE PowerFits(p)'
  <2>1. op[p] \in OpType
    BY Opens
  <2>2. CASE op[p].at \in Working
    <3>1. op'[p].at = "dead" /\ op'[p].since = op[p].since
      BY <2>1, <2>2 DEF MothershipRestarts, OpType
    <3> QED BY <1>1, <3>1, WorkPlaces DEF PowersFit, PowerFits
  <2>3. CASE op[p].at \notin Working
    <3>1. op'[p] = op[p] /\ (Only(p)' => Only(p))
      <4>1. ASSUME NEW q \in Op, op'[q].at = "rest" PROVE op[q].at = "rest"
        <5>1. op[q] \in OpType
          BY Opens
        <5> QED BY <4>1, <5>1 DEF MothershipRestarts, OpType
      <4> QED BY <2>3, <4>1 DEF MothershipRestarts, Only
    <3> QED BY <1>1, <3>1 DEF PowersFit, PowerFits
  <2> QED BY <2>2, <2>3
<1> QED BY <1>2 DEF PowersFit

LEMMA PowersKept == ASSUME TypeOK, ShapeFits, PowersFit, [Next]_vars PROVE PowersFit'
<1>1. CASE EdgeNext /\ UNCHANGED <<op, backup>>
  BY <1>1, EdgePowers
<1>2. CASE MothershipRestarts
  BY <1>2, MothershipPowers
<1>3. ASSUME NEW p \in Op, Check(p) PROVE PowersFit'
  BY <1>3, CheckPowers
<1>4. ASSUME NEW p \in Op, Step(p) PROVE PowersFit'
  BY <1>4, StepPowers
<1>5. CASE UNCHANGED vars
  BY <1>5 DEF vars, edge, PowersFit, PowerFits, Only
<1> QED BY <1>1, <1>2, <1>3, <1>4, <1>5 DEF Next

LEMMA PowersInvariant == Spec => []PowersFit
<1>1. Init => PowersFit
  BY MirrorBounds DEF Init, EdgeInit, PowersFit, PowerFits, Request0, Working, Files
<1>2. IInv /\ PowersFit /\ [Next]_vars => PowersFit'
  BY PowersKept DEF IInv
<1> QED BY <1>1, <1>2, Invariant, PTL DEF Spec

\* An operation that did not fail, and that nothing came between, leaves the power
\* as it found it.
THEOREM PowerReturned == Spec => []PowerGivenBack
<1>1. PowersFit => PowerGivenBack
  <2> SUFFICES ASSUME PowersFit, NEW p \in Op, op[p].at = "done", op[p].since = toggles,
                      "disk" \notin faults, Only(p)
               PROVE  record.power = IF op[p].restart THEN "on" ELSE "off"
    BY DEF PowerGivenBack, At, Only
  <2> QED BY DEF PowersFit, PowerFits
<1> QED BY <1>1, PowersInvariant, PTL

=============================================================================

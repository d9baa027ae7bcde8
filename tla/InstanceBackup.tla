---------------------------- MODULE InstanceBackup ----------------------------
(***************************************************************************)
(* Backups of an instance and restores in place, on the mothership         *)
(* (HandleInstanceBackups.ts), composed with the edge daemon that follows  *)
(* the power they switch off and on (EdgeMirror.tla).  An operation cannot *)
(* stop the container itself: it saves the power, waits until the status   *)
(* comes back idle, copies or replaces the directories the container and   *)
(* the mirror use too, and gives the power back.                           *)
(*                                                                         *)
(* An operation is one request: it runs once, and dies with its            *)
(* mothership.                                                             *)
(***************************************************************************)
EXTENDS EdgeMirror

CONSTANTS
  MaxOps,     \* bound on requests for an operation
  MaxBackups  \* bound on backup records

ASSUME BackupBounds == {MaxOps, MaxBackups} \subseteq Nat \ {0}

VARIABLES
  op,      \* each operation: a program counter and its variables (OpType)
  backup   \* instance_backups: [status, restoring (restoreState), content]

vars == <<edge, op, backup>>

Op     == 1..MaxOps    \* in the order of their arrival
Backup == 1..MaxBackups

\* The steps at which an operation is under way, and those where it has the files.
Files   == {"copy", "pack", "unpack", "aside", "install", "undo", "back"}
Working == Files \cup {"begin", "stop", "wait", "guard", "halt", "commit", "fail", "restart", "end"}

OpType ==
  [at : Working \cup {"rest", "done", "failed", "dead"},
   kind : {"backup", "restore"},
   restart : BOOLEAN,               \* the power was on: managedPower
   made : Backup \cup {0},          \* the record it writes: of a restore, its safety backup
   from : Backup \cup {0},          \* the backup that a restore unpacks
   todo : SUBSET Dir,               \* directories left in the loop under way
   moved : SUBSET Dir,              \* movedCurrentDirs
   installed : SUBSET Dir,          \* installedDirs
   aside : Image,                   \* its rollback directory, which may outlive it
   seen : Image,                    \* what the directories held when it looked
   calm : BOOLEAN,                  \* it began when nothing was half done
   since : Nat]                     \* and after so many toggles

BackupType ==
  [status : {"none", "running", "ready", "failed"},
   restoring : {"no", "running", "ready", "failed"},
   content : Image]

TypeOK ==
  /\ EdgeTypeOK
  /\ op \in [Op -> OpType]
  /\ backup \in [Backup -> BackupType]

Nowhere  == [d \in Dir |-> Missing]
NoBackup == [status |-> "none", restoring |-> "no", content |-> Nowhere]
Request0 == [at |-> "rest", kind |-> "backup", restart |-> FALSE, made |-> 0, from |-> 0,
             todo |-> {}, moved |-> {}, installed |-> {}, aside |-> Nowhere,
             seen |-> Nowhere, calm |-> FALSE, since |-> 0]

\* There is one backup, of the data as they are.
Init ==
  /\ EdgeInit
  /\ op = [p \in Op |-> Request0]
  /\ backup = [b \in Backup |->
                 IF b = 1 THEN [status |-> "ready", restoring |-> "no", content |-> disk]
                 ELSE NoBackup]

At(p, place) == op[p].at = place
Goto(p, place) == op' = [op EXCEPT ![p].at = place]

\* The daemon, its connection and the container.
edgeOnly == <<link, dump, mirror, daemon, writes, box, toggles, faults>>

\* Nothing of what the container, the daemon and other operations do is half done.
Calm == /\ Quiet
        /\ \A p \in Op : op[p].at \notin Working
        /\ IF record.power = "on"
           THEN record.status = "live" /\ daemon.launch = "ready"
           ELSE box = "none" /\ daemon.launch = "none"

-----------------------------------------------------------------------------
(* The beginning: the check, the record, the power. *)

Running(b) == backup[b].status = "running" \/ backup[b].restoring = "running"

\* assertNoRunningOperation, a query before anything is saved.  The instance, and
\* so its power, was loaded before.
Check(p) ==
  /\ At(p, "rest") /\ \A q \in Op : q < p => ~At(q, "rest")
  /\ \A b \in Backup : ~Running(b)
  /\ p = 1 \/ "again" \in faults
  /\ "race" \in faults \/ \A q \in Op : ~At(q, "begin")
  /\ \E kind \in {"backup", "restore"}, b \in Backup :
       /\ backup[b].status = "ready"
       /\ op' = [op EXCEPT ![p] =
                   [@ EXCEPT !.at = "begin", !.kind = kind,
                             !.from = IF kind = "restore" THEN b ELSE 0,
                             !.restart = (record.power = "on"),
                             !.calm = Calm, !.since = toggles]]
  /\ UNCHANGED <<edge, backup>>

\* Mutant of Begin: restoreState takes the name of the phase.
BeginPhase(p) ==
  /\ At(p, "begin") /\ op[p].kind = "restore"
  /\ backup' = [backup EXCEPT ![op[p].from].restoring = "stopping"]
  /\ Goto(p, "stop")
  /\ UNCHANGED edge

\* createBackupRecord: b is the record made.
Creates(p, b) == /\ backup[b].status = "none"
                 /\ \A c \in Backup : c < b => backup[c].status # "none"

Begin(p) ==
  /\ At(p, "begin")
  /\ \/ /\ op[p].kind = "backup"
        /\ \E b \in Backup :
             /\ Creates(p, b)
             /\ backup' = [backup EXCEPT ![b].status = "running"]
             /\ op' = [op EXCEPT ![p] = [@ EXCEPT !.at = "stop", !.made = b]]
     \/ /\ op[p].kind = "restore"
        /\ backup' = [backup EXCEPT ![op[p].from].restoring = "running"]
        /\ Goto(p, "stop")
  /\ UNCHANGED edge

\* stopForFilesystemOperation switches the power off if it was on.
Stop(p) ==
  /\ At(p, "stop")
  /\ IF op[p].restart THEN Save([record EXCEPT !.power = "off"])
     ELSE UNCHANGED <<record, stream, blind>>
  /\ Goto(p, "wait")
  /\ UNCHANGED <<edgeOnly, disk, mishaps, backup>>

-----------------------------------------------------------------------------
(* waitUntilIdle, of the operation ("wait") and of its safety backup ("halt"). *)

Waits(p) == op[p].at \in {"wait", "halt"}

\* A daemon's save that carried the power of before, or a user, switched it on.
Insist(p) ==
  /\ Waits(p) /\ record.power = "on"
  /\ Save([record EXCEPT !.power = "off"])
  /\ UNCHANGED <<edgeOnly, disk, mishaps, op, backup>>

Stopped == record = [power |-> "off", status |-> "idle"]

\* Mutant of Halted: it is enough that the power is off.
HaltedAtOnce(p) ==
  /\ Waits(p) /\ record.power = "off"
  /\ Goto(p, IF op[p].kind = "restore" /\ At(p, "wait") THEN "guard" ELSE "copy")
  /\ UNCHANGED <<edge, backup>>

Halted(p) ==
  /\ Waits(p) /\ Stopped
  /\ Goto(p, IF op[p].kind = "restore" /\ At(p, "wait") THEN "guard" ELSE "copy")
  /\ UNCHANGED <<edge, backup>>

\* Mutant of FailsBackup: a restore goes on without its safety backup.
FailsBackupOnly(p, then) ==
  /\ backup' = IF op[p].made = 0 THEN backup
               ELSE [backup EXCEPT ![op[p].made].status = "failed"]
  /\ op' = [op EXCEPT ![p].at = IF op[p].kind = "restore" THEN "unpack" ELSE then]

\* The backup it writes has failed; so has the restore that it was made for.
FailsBackup(p, then) ==
  /\ backup' = IF op[p].made = 0 THEN backup
               ELSE [backup EXCEPT ![op[p].made].status = "failed"]
  /\ op' = [op EXCEPT ![p].at = IF op[p].kind = "restore" THEN "fail" ELSE then]

\* After two minutes.  The power is not known to have been switched off by then,
\* and stays off.
TimesOut(p) ==
  /\ Waits(p) /\ ~Stopped
  /\ FailsBackup(p, "failed")
  /\ UNCHANGED edge

\* The record of the backup 'pre-restore', made without a check.
Guard(p) ==
  /\ At(p, "guard")
  /\ \E b \in Backup :
       /\ Creates(p, b)
       /\ backup' = [backup EXCEPT ![b].status = "running"]
       /\ op' = [op EXCEPT ![p] = [@ EXCEPT !.at = "halt", !.made = b]]
  /\ UNCHANGED edge

-----------------------------------------------------------------------------
(* createArchive. *)

\* ensureInstanceDirs, then tar starts reading.
Copy(p) ==
  /\ At(p, "copy")
  /\ disk' = Ensured
  /\ op' = [op EXCEPT ![p] = [@ EXCEPT !.at = "pack", !.seen = Ensured]]
  /\ UNCHANGED <<record, stream, blind, edgeOnly, mishaps, backup>>

\* The archive is complete: of a directory that changed meanwhile, of either
\* content; markBackupReady or markBackupFailed.
Pack(p) ==
  /\ At(p, "pack")
  /\ \/ /\ \E c \in Image :
             /\ \A d \in Dir : c[d] \in {op[p].seen[d], disk[d]}
             /\ backup' = [backup EXCEPT ![op[p].made] = [@ EXCEPT !.status = "ready",
                                                                  !.content = c]]
        /\ Goto(p, IF op[p].kind = "restore" THEN "unpack" ELSE "restart")
        /\ UNCHANGED mishaps
     \/ Mishap("disk") /\ FailsBackup(p, "restart")
  /\ UNCHANGED <<record, stream, blind, disk, edgeOnly>>

-----------------------------------------------------------------------------
(* restoreArchive. *)

\* The archive is validated and unpacked next to the directories.
Unpack(p) ==
  /\ At(p, "unpack")
  /\ \/ /\ op' = [op EXCEPT ![p] = [@ EXCEPT !.at = "aside", !.todo = Dir, !.seen = disk]]
        /\ UNCHANGED mishaps
     \/ Mishap("disk") /\ Goto(p, "fail")
  /\ UNCHANGED <<record, stream, blind, disk, edgeOnly, backup>>

\* A loop over directories; all take them in the same order.  The one it is at,
\* and where it goes after that.
First(p) == CHOOSE d \in op[p].todo : TRUE
Advance(p, place, then, rest) ==
  [op[p] EXCEPT !.todo = IF @ = {First(p)} THEN rest ELSE @ \ {First(p)},
                !.at   = IF op[p].todo = {First(p)} THEN then ELSE place]

\* A rename fails: what was installed is undone, and what was moved goes back.
Revert(p) ==
  op' = [op EXCEPT ![p] = [@ EXCEPT !.at = "undo", !.todo = op[p].installed]]

\* Those that exist are renamed into the rollback directory.
Aside(p) ==
  /\ At(p, "aside")
  /\ LET d == First(p)  o == Advance(p, "aside", "install", Dir) IN
     \/ /\ disk[d] = Missing
        /\ op' = [op EXCEPT ![p] = o]
        /\ UNCHANGED <<disk, mishaps>>
     \/ /\ disk[d] # Missing
        /\ op' = [op EXCEPT ![p] = [o EXCEPT !.moved = @ \cup {d}, !.aside[d] = disk[d]]]
        /\ disk' = [disk EXCEPT ![d] = Missing]
        /\ UNCHANGED mishaps
     \/ Mishap("disk") /\ Revert(p) /\ UNCHANGED disk
  /\ UNCHANGED <<record, stream, blind, edgeOnly, backup>>

\* Those of the archive take their places.  A rename onto a directory that came
\* back meanwhile, even empty, fails.
Install(p) ==
  /\ At(p, "install")
  /\ LET d == First(p)  o == Advance(p, "install", "commit", {}) IN
     \/ /\ disk[d] = Missing
        /\ op' = [op EXCEPT ![p] = [o EXCEPT !.installed = @ \cup {d}]]
        /\ disk' = [disk EXCEPT ![d] = backup[op[p].from].content[d]]
        /\ UNCHANGED mishaps
     \/ disk[d] # Missing /\ Revert(p) /\ UNCHANGED <<disk, mishaps>>
     \/ Mishap("disk") /\ Revert(p) /\ UNCHANGED disk
  /\ UNCHANGED <<record, stream, blind, edgeOnly, backup>>

Undo(p) ==
  /\ At(p, "undo")
  /\ \/ /\ op[p].todo = {}
        /\ op' = [op EXCEPT ![p] = [@ EXCEPT !.at = "back", !.todo = op[p].moved]]
        /\ UNCHANGED disk
     \/ /\ op[p].todo # {}
        /\ disk' = [disk EXCEPT ![First(p)] = Missing]
        /\ op' = [op EXCEPT ![p] = Advance(p, "undo", "back", op[p].moved)]
  /\ UNCHANGED <<record, stream, blind, mishaps, edgeOnly, backup>>

\* Mutant of Back: the rollback directory is removed in any case.
BackCleans(p) ==
  /\ At(p, "back")
  /\ LET d == First(p)  o == Advance(p, "back", "fail", {}) IN
     \/ op[p].todo = {} /\ Goto(p, "fail") /\ UNCHANGED disk
     \/ /\ op[p].todo # {}
        /\ disk' = [disk EXCEPT ![d] = IF @ = Missing THEN op[p].aside[d] ELSE @]
        /\ op' = [op EXCEPT ![p] = [o EXCEPT !.aside[d] = Missing]]
  /\ UNCHANGED <<record, stream, blind, mishaps, edgeOnly, backup>>

\* Where the directory is there again, its former content stays in the rollback
\* directory, and the error says so.
Back(p) ==
  /\ At(p, "back")
  /\ LET d == First(p)  o == Advance(p, "back", "fail", {}) IN
     \/ op[p].todo = {} /\ Goto(p, "fail") /\ UNCHANGED disk
     \/ /\ op[p].todo # {} /\ disk[d] = Missing
        /\ disk' = [disk EXCEPT ![d] = op[p].aside[d]]
        /\ op' = [op EXCEPT ![p] = [o EXCEPT !.aside[d] = Missing]]
     \/ /\ op[p].todo # {} /\ disk[d] # Missing
        /\ op' = [op EXCEPT ![p] = o]
        /\ UNCHANGED disk
  /\ UNCHANGED <<record, stream, blind, mishaps, edgeOnly, backup>>

-----------------------------------------------------------------------------
(* The end. *)

\* The rollback directory goes, and the version of the archive is saved.
Commit(p) ==
  /\ At(p, "commit")
  /\ Save(record)
  /\ op' = [op EXCEPT ![p] = [@ EXCEPT !.at = "restart", !.aside = Nowhere, !.moved = {}]]
  /\ UNCHANGED <<edgeOnly, disk, mishaps, backup>>

\* A restore that failed does not give the power back.
Fail(p) ==
  /\ At(p, "fail")
  /\ backup' = [backup EXCEPT ![op[p].from].restoring = "failed"]
  /\ Goto(p, "failed")
  /\ UNCHANGED edge

\* Mutant of Restart: the power is read again when it is to be given back.
RestartReads(p) ==
  /\ At(p, "restart")
  /\ Save(record)
  /\ Goto(p, "end")
  /\ UNCHANGED <<edgeOnly, disk, mishaps, backup>>

\* restartIfNeeded, whose error is swallowed.
Restart(p) ==
  /\ At(p, "restart")
  /\ \/ /\ op[p].restart
        /\ Save([record EXCEPT !.power = "on"])
        /\ UNCHANGED mishaps
     \/ ~op[p].restart /\ UNCHANGED <<record, stream, blind, mishaps>>
     \/ op[p].restart /\ Mishap("disk") /\ UNCHANGED <<record, stream, blind>>
  /\ Goto(p, "end")
  /\ UNCHANGED <<edgeOnly, disk, backup>>

End(p) ==
  /\ At(p, "end")
  /\ backup' = IF op[p].kind = "restore"
               THEN [backup EXCEPT ![op[p].from].restoring = "ready"] ELSE backup
  /\ Goto(p, IF backup[op[p].made].status = "ready" THEN "done" ELSE "failed")
  /\ UNCHANGED edge

\* The mothership restarts: nothing goes on where an operation was.
MothershipRestarts ==
  /\ MothershipStops
  /\ op' = [p \in Op |-> IF op[p].at \in Working THEN [op[p] EXCEPT !.at = "dead"] ELSE op[p]]
  /\ UNCHANGED backup

Step(p) ==
  \/ Begin(p) \/ Stop(p) \/ Insist(p) \/ Halted(p) \/ TimesOut(p) \/ Guard(p)
  \/ Copy(p) \/ Pack(p) \/ Unpack(p) \/ Aside(p) \/ Install(p) \/ Undo(p) \/ Back(p)
  \/ Commit(p) \/ Fail(p) \/ Restart(p) \/ End(p)

Next == \/ EdgeNext /\ UNCHANGED <<op, backup>>
        \/ MothershipRestarts
        \/ \E p \in Op : Check(p) \/ Step(p)

Spec == /\ Init /\ [][Next]_vars
        /\ WF_vars(EdgeProgress /\ UNCHANGED <<op, backup>>)
        /\ \A p \in Op : WF_vars(Step(p))

-----------------------------------------------------------------------------
(* Properties. *)

\* An operation that was let to do its work: it began when nothing was under way,
\* alone, and since then nobody switched the power and no stale dump arrived.
Undisturbed(p) ==
  /\ op[p].calm /\ op[p].since = toggles
  /\ faults \cap {"race", "drop", "daemon", "mothership"} = {}

\* While an operation copies or replaces the files, no container uses them but one
\* that is stopping, and none is launched.
StaysStopped ==
  \A p \in Op : op[p].at \in Files /\ Undisturbed(p) => box # "up" /\ daemon.launch = "none"

\* What a restore replaces is in its safety backup first, which is ready.
ReplacedIsSaved ==
  \A p \in Op :
    op[p].moved # {} /\ op[p].at \in Files /\ Undisturbed(p) /\ "drain" \notin faults =>
      /\ op[p].made # 0
      /\ backup[op[p].made].status = "ready"
      /\ backup[op[p].made].content = op[p].seen

\* Whatever fails or dies in a restore that was not committed, and as long as no
\* operation follows, what it found in a directory is there, has been written to
\* since, or is kept aside.
NothingLost ==
  \A p \in Op :
    /\ op[p].at \in {"aside", "install", "undo", "back", "fail", "failed", "dead"}
    /\ "race" \notin faults
    /\ \A q \in Op : q > p => At(q, "rest")
    =>
      \A d \in op[p].moved : op[p].aside[d] # Missing \/ disk[d] >= op[p].seen[d]

\* An operation that did not fail leaves the power as it found it.
PowerGivenBack ==
  \A p \in Op :
    /\ At(p, "done") /\ op[p].since = toggles /\ "disk" \notin faults
    /\ \A q \in Op \ {p} : At(q, "rest")
    => record.power = IF op[p].restart THEN "on" ELSE "off"

\* In the end an instance that is switched on runs, as long as nothing failed.
PoweredRuns ==
  <>[](record.power = "on" /\ mishaps = 0 /\ ~daemon.cool => box = "up" /\ daemon.launch = "ready")
=============================================================================

----------------------------- MODULE VacuumLock -----------------------------
(***************************************************************************)
(* The vacuum lock of one instance: VacuumLockService in the edge daemon,  *)
(* the `edge vacuum' jobs that call it over HTTP, and the status writes it *)
(* sends to the mothership without waiting for them.                       *)
(*                                                                         *)
(* Every map of the service is keyed by instance id and no handler relates *)
(* two instances, so the module has one instance.  A grant's random token  *)
(* is used by exactly one job, so the job stands for its token.            *)
(***************************************************************************)
EXTENDS Naturals, FiniteSets

CONSTANTS
  Clients,      \* vacuum jobs for this instance (vacuumOneInstance calls)
  NoOne,        \* "not locked"
  MaxRestarts,  \* bound on daemon restarts
  Faults        \* what may disturb the lock, a subset of Disturbances

\* "warm": warm starts, which do not look at the lock, happen;
\* "slow": a job may take longer than LOCK_TTL_MS; "restart": the daemon may restart.
Disturbances == {"warm", "slow", "restart"}

ASSUME NoOneAssumption   == NoOne \notin Clients
ASSUME RestartAssumption == MaxRestarts \in Nat
ASSUME FaultsAssumption  == Faults \subseteq Disturbances

VARIABLES
  lock,      \* locks.get(id): the job whose token it holds, or NoOne
  aged,      \* now - acquiredAt > LOCK_TTL_MS
  pc,        \* where each job is
  ask,       \* each job's POST /lock: "none", "sent", or its answer
  unlocks,   \* POST /unlock calls on their way to the daemon
  writes,    \* status writes on their way to the mothership: <<job, status>>
  status,    \* the instance record's status, as far as the lock sets it
  live,      \* Boolean(instanceApis[id]), what registerIsLive reports
  running,   \* docker ps shows the instance's container
  restarts,  \* daemon restarts so far
  faults     \* the disturbances of this behaviour (chosen at the start)

daemon == <<lock, aged>>
env    == <<live, running, faults>>
vars   == <<lock, aged, pc, ask, unlocks, writes, status, live, running, restarts,
            faults>>

Active  == {"asking", "granted", "vacuuming"}
PcState == Active \cup {"idle", "skipped", "failed", "dead", "leaving"}
Answer  == {"none", "sent", "granted", "denied", "error"}
Status  == {"idle", "vacuuming"}

\* The lock, its callers, the calls and writes under way, and the instance.
TypeOK == /\ lock \in Clients \cup {NoOne}
          /\ aged \in BOOLEAN
          /\ pc \in [Clients -> PcState]
          /\ ask \in [Clients -> Answer]
          /\ unlocks \subseteq Clients
          /\ writes \subseteq Clients \X Status
          /\ status \in Status
          /\ live \in BOOLEAN
          /\ running \in BOOLEAN
          /\ restarts \in 0..MaxRestarts
          /\ faults \subseteq Faults

Init == /\ lock = NoOne
        /\ aged = FALSE
        /\ pc = [c \in Clients |-> "idle"]
        /\ ask = [c \in Clients |-> "none"]
        /\ unlocks = {}
        /\ writes = {}
        /\ status = "idle"
        /\ live = FALSE
        /\ running \in BOOLEAN
        /\ restarts = 0
        /\ faults \in SUBSET Faults

-----------------------------------------------------------------------------
(* The vacuum job: lock, look at docker again, VACUUM, unlock in `finally'. *)

LockCall(c) ==
  /\ pc[c] = "idle"
  /\ pc' = [pc EXCEPT ![c] = "asking"]
  /\ ask' = [ask EXCEPT ![c] = "sent"]
  /\ UNCHANGED <<daemon, unlocks, writes, status, env, restarts>>

Answered(c) ==
  /\ pc[c] = "asking"
  /\ ask[c] \in {"granted", "denied", "error"}
  /\ pc' = [pc EXCEPT ![c] = CASE ask[c] = "granted" -> "granted"
                               [] ask[c] = "denied"  -> "skipped"
                               [] ask[c] = "error"   -> "failed"]
  /\ UNCHANGED <<daemon, ask, unlocks, writes, status, env, restarts>>

\* AbortSignal.timeout(10_000): the call may have been served all the same.
GivesUp(c) ==
  /\ pc[c] = "asking"
  /\ pc' = [pc EXCEPT ![c] = "failed"]
  /\ UNCHANGED <<daemon, ask, unlocks, writes, status, env, restarts>>

CallsUnlock(c) ==
  /\ pc' = [pc EXCEPT ![c] = "leaving"]
  /\ unlocks' = unlocks \cup {c}

\* getRunningInstanceIds after the grant; it throws when docker is unavailable.
ChecksDocker(c) ==
  /\ pc[c] = "granted"
  /\ \/ /\ ~running
        /\ pc' = [pc EXCEPT ![c] = "vacuuming"]
        /\ UNCHANGED unlocks
     \/ CallsUnlock(c)
  /\ UNCHANGED <<daemon, ask, writes, status, env, restarts>>

VacuumEnds(c) ==
  /\ pc[c] = "vacuuming"
  /\ CallsUnlock(c)
  /\ UNCHANGED <<daemon, ask, writes, status, env, restarts>>

JobKilled(c) ==
  /\ pc[c] \in Active
  /\ pc' = [pc EXCEPT ![c] = "dead"]
  /\ UNCHANGED <<daemon, ask, unlocks, writes, status, env, restarts>>

-----------------------------------------------------------------------------
(* The service in the daemon.                                              *)

\* Mutant of Grantable: the grant forgets the instances that are still raising.
GrantableWhileRaising == lock = NoOne /\ ~running

Grantable == lock = NoOne /\ ~live /\ ~running

\* Mutant of SyncStatus: a status the collection does not have.
SyncUnknownStatus(c, s) == writes' = writes \cup {<<c, "maintenance">>}

\* syncInstanceStatus: sent, not awaited, never retried.
SyncStatus(c, s) == writes' = writes \cup {<<c, s>>}

HandleLock(c) ==
  /\ ask[c] = "sent"
  /\ \/ /\ Grantable
        /\ lock' = c
        /\ aged' = FALSE
        /\ ask' = [ask EXCEPT ![c] = "granted"]
        /\ SyncStatus(c, "vacuuming")
     \/ /\ ~Grantable
        /\ ask' = [ask EXCEPT ![c] = "denied"]
        /\ UNCHANGED <<daemon, writes>>
     \/ /\ lock = NoOne /\ ~live         \* docker ps itself failed: HTTP 500
        /\ ask' = [ask EXCEPT ![c] = "error"]
        /\ UNCHANGED <<daemon, writes>>
  /\ UNCHANGED <<pc, unlocks, status, env, restarts>>

Unlocked(c) == /\ lock' = NoOne
               /\ aged' = FALSE
               /\ SyncStatus(c, "idle")

\* Mutant of HandleUnlock: any token releases the lock.
HandleUnlockAnyToken(c) ==
  /\ c \in unlocks
  /\ unlocks' = unlocks \ {c}
  /\ IF lock # NoOne THEN Unlocked(c) ELSE UNCHANGED <<daemon, writes>>
  /\ UNCHANGED <<pc, ask, status, env, restarts>>

HandleUnlock(c) ==
  /\ c \in unlocks
  /\ unlocks' = unlocks \ {c}
  /\ IF lock = c THEN Unlocked(c) ELSE UNCHANGED <<daemon, writes>>
  /\ UNCHANGED <<pc, ask, status, env, restarts>>

\* The clock: LOCK_TTL_MS passes.  A job that is still at work is that slow
\* only when "slow" is among the faults.
Ages ==
  /\ lock # NoOne /\ ~aged
  /\ pc[lock] \in Active => "slow" \in faults
  /\ aged' = TRUE
  /\ UNCHANGED <<lock, pc, ask, unlocks, writes, status, env, restarts>>

\* Mutants of Sweep: every lock is swept; the age is subtracted the wrong way
\* round, so no lock ever is.
SweepEveryLock == /\ lock # NoOne
                  /\ Unlocked(lock)
                  /\ UNCHANGED <<pc, ask, unlocks, status, env, restarts>>

SweepNoLock == FALSE

Sweep ==
  /\ lock # NoOne
  /\ aged
  /\ Unlocked(lock)
  /\ UNCHANGED <<pc, ask, unlocks, status, env, restarts>>

\* A new daemon: no locks, the calls it had not answered fail, the instance is
\* adopted when its container runs, and bootSync resets the status to idle.
\* Writes the old process had sent may still land.
Restart ==
  /\ "restart" \in faults
  /\ restarts < MaxRestarts
  /\ restarts' = restarts + 1
  /\ lock' = NoOne
  /\ aged' = FALSE
  /\ ask' = [c \in Clients |-> IF ask[c] = "sent" THEN "error" ELSE ask[c]]
  /\ unlocks' = {}
  /\ status' = "idle"
  /\ live' = running
  /\ UNCHANGED <<pc, writes, running, faults>>

-----------------------------------------------------------------------------
(* Around them: the mothership's record, and the instance (InstanceService *)
(* models it; here it only comes and goes).                                *)

WriteLands == \E w \in writes : /\ status' = w[2]
                                /\ writes' = writes \ {w}
                                /\ UNCHANGED <<daemon, pc, ask, unlocks, env, restarts>>

\* A request passes the gate only when the instance is not locked.
RequestRaises == /\ ~live
                 /\ lock = NoOne
                 /\ live' = TRUE
                 /\ UNCHANGED <<daemon, pc, ask, unlocks, writes, status, running, restarts, faults>>

\* warmPoweredInstance has no such gate.
WarmRaises == /\ "warm" \in faults
              /\ ~live
              /\ live' = TRUE
              /\ UNCHANGED <<daemon, pc, ask, unlocks, writes, status, running, restarts, faults>>

ContainerStarts == /\ live
                   /\ ~running
                   /\ running' = TRUE
                   /\ UNCHANGED <<daemon, pc, ask, unlocks, writes, status, live, restarts, faults>>

Lowers == /\ live
          /\ live' = FALSE
          /\ UNCHANGED <<daemon, pc, ask, unlocks, writes, status, running, restarts, faults>>

ContainerStops == /\ running
                  /\ running' = FALSE
                  /\ UNCHANGED <<daemon, pc, ask, unlocks, writes, status, live, restarts, faults>>

-----------------------------------------------------------------------------
Job(c)     == \/ LockCall(c) \/ Answered(c) \/ GivesUp(c) \/ ChecksDocker(c)
              \/ VacuumEnds(c) \/ JobKilled(c)
Service(c) == HandleLock(c) \/ HandleUnlock(c)
Instance   == \/ RequestRaises \/ WarmRaises \/ ContainerStarts \/ Lowers
              \/ ContainerStops

Next == \/ \E c \in Clients : Job(c) \/ Service(c)
        \/ Ages \/ Sweep \/ Restart \/ WriteLands \/ Instance

Spec == Init /\ [][Next]_vars

(***************************************************************************)
(* The daemon answers calls, the sweeper is an interval timer, the clock   *)
(* moves on, and a job that asks or vacuums gets somewhere.  Nothing makes *)
(* a job start, and nothing makes the instance move.                       *)
(***************************************************************************)
Fairness == /\ WF_vars(Ages)
            /\ WF_vars(Sweep)
            /\ WF_vars(WriteLands)
            /\ \A c \in Clients : /\ WF_vars(Service(c))
                                  /\ WF_vars(Answered(c) \/ GivesUp(c))
                                  /\ WF_vars(ChecksDocker(c))
                                  /\ WF_vars(VacuumEnds(c))

FairSpec == Spec /\ Fairness
-----------------------------------------------------------------------------
(***************************************************************************)
(* The point of the lock: while a job runs VACUUM it is the lock's holder  *)
(* (so no other job does) and no container has the database open, unless   *)
(* the daemon restarted, the job outlived its lock or a warm start raised  *)
(* the instance.  The grant rules, the token check of /unlock, the second  *)
(* look at docker and the request gate give it together.                   *)
(***************************************************************************)
VacuumAlone == faults = {} => \A c \in Clients :
                 pc[c] = "vacuuming" => lock = c /\ ~running

(***************************************************************************)
(* Even then a job that still holds the lock is alone: only a warm start   *)
(* gets past a lock that is held (a restart or the sweeper drops it first).*)
(***************************************************************************)
HolderAlone == "warm" \notin faults => \A c \in Clients :
                 pc[c] = "vacuuming" /\ lock = c => ~running

(***************************************************************************)
(* VACUUM and a PocketBase container never have the same database open     *)
(* (vacuum-plan.md says an edge restart is a safe reset of the locks).     *)
(***************************************************************************)
VacuumNeverShared == \A c \in Clients : pc[c] = "vacuuming" => ~running

(***************************************************************************)
(* A lock is never kept for ever: a job that crashed, gave up on a call    *)
(* that was granted, or whose /unlock was lost, is swept after its TTL.    *)
(***************************************************************************)
LockReleased == lock # NoOne ~> lock = NoOne

(***************************************************************************)
(* The service and its clients implement the abstract mutex: a /unlock     *)
(* with another job's token, a late /lock, the sweeper and a restart do    *)
(* nothing to the holder that VacuumMutex does not allow.                  *)
(***************************************************************************)
Mutex == INSTANCE VacuumMutex WITH
           holder  <- lock,
           held    <- {c \in Clients : ask[c] = "granted"},
           leaving <- {c \in Clients : pc[c] = "leaving"},
           expired <- aged,
           epoch   <- restarts

IsMutex == Mutex!Spec
=============================================================================

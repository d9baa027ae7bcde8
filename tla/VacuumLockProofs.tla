-------------------------- MODULE VacuumLockProofs --------------------------
(***************************************************************************)
(* Proofs about the vacuum lock, for any number of jobs and any bound on   *)
(* restarts: its types, that VACUUM runs alone, and that the service       *)
(* implements VacuumMutex.                                                 *)
(***************************************************************************)
EXTENDS VacuumLock, TLAPS

(* What the answers a job got say about where it is. *)
AsksFit == \A c \in Clients :
  /\ pc[c] = "idle" => ask[c] = "none"
  /\ pc[c] \in {"granted", "vacuuming", "leaving"} => ask[c] = "granted"
  /\ c \in unlocks => pc[c] = "leaving"

(* Whoever the lock names was granted it. *)
HolderGranted == lock # NoOne => ask[lock] = "granted"

(* While the instance is locked only a warm start could raise it. *)
LockedIsDown == "warm" \notin faults /\ lock # NoOne => ~live /\ ~running

(* Undisturbed, a job that holds a grant and has not released it is the holder. *)
GrantHolds == faults = {} => \A c \in Clients :
  pc[c] \in Active /\ ask[c] = "granted" => lock = c

(* Undisturbed, a lock only ages past its TTL when its job is gone. *)
AgedIsAbandoned == faults = {} /\ aged => lock # NoOne /\ pc[lock] \notin Active

IInv == TypeOK /\ AsksFit /\ HolderGranted /\ LockedIsDown /\ GrantHolds
               /\ AgedIsAbandoned

\* Every initial state satisfies the inductive invariant.
LEMMA InitIInv == Init => IInv
<1> SUFFICES ASSUME Init PROVE IInv
  OBVIOUS
<1>1. TypeOK
  <2>1. restarts \in 0..MaxRestarts BY RestartAssumption DEF Init
  <2>2. pc \in [Clients -> PcState] BY DEF Init, PcState
  <2>3. ask \in [Clients -> Answer] BY DEF Init, Answer
  <2>4. unlocks \subseteq Clients /\ writes \subseteq Clients \X Status BY DEF Init
  <2> QED BY <2>1, <2>2, <2>3, <2>4 DEF Init, TypeOK, Status
<1>2. AsksFit BY DEF Init, AsksFit
<1>3. GrantHolds BY DEF Init, GrantHolds, Active
<1>4. HolderGranted /\ LockedIsDown /\ AgedIsAbandoned
  BY DEF Init, HolderGranted, LockedIsDown, AgedIsAbandoned
<1> QED BY <1>1, <1>2, <1>3, <1>4 DEF IInv

\* The steps of a vacuum job keep the inductive invariant.
LEMMA JobStep == ASSUME IInv, NEW c \in Clients, Job(c) PROVE IInv'
<1> USE NoOneAssumption DEF IInv, TypeOK, AsksFit, HolderGranted, LockedIsDown, GrantHolds,
            AgedIsAbandoned, PcState, Answer, Status, Active, vars, daemon, env
<1>1. CASE LockCall(c)     BY <1>1 DEF LockCall
<1>2. CASE Answered(c)     BY <1>2 DEF Answered
<1>3. CASE GivesUp(c)      BY <1>3 DEF GivesUp
<1>4. CASE ChecksDocker(c) BY <1>4 DEF ChecksDocker, CallsUnlock
<1>5. CASE VacuumEnds(c)   BY <1>5 DEF VacuumEnds, CallsUnlock
<1>6. CASE JobKilled(c)    BY <1>6 DEF JobKilled
<1> QED BY <1>1, <1>2, <1>3, <1>4, <1>5, <1>6 DEF Job

\* POST /lock and POST /unlock keep the inductive invariant.
LEMMA ServiceStep == ASSUME IInv, NEW c \in Clients, Service(c) PROVE IInv'
<1> USE NoOneAssumption DEF IInv, TypeOK, AsksFit, HolderGranted, LockedIsDown, GrantHolds,
            AgedIsAbandoned, PcState, Answer, Status, Active, vars, daemon, env
<1>1. CASE HandleLock(c)
  <2>1. CASE Grantable /\ lock' = c
    <3>1. ask' = [ask EXCEPT ![c] = "granted"] /\ aged' = FALSE /\ UNCHANGED <<pc, unlocks, env>>
      BY <1>1, <2>1 DEF HandleLock, Grantable
    <3>2. writes' \subseteq Clients \X Status
      BY <1>1, <2>1 DEF HandleLock, Grantable, SyncStatus
    <3>3. TypeOK' BY <1>1, <2>1, <3>1, <3>2 DEF HandleLock
    <3>4. AsksFit' /\ HolderGranted'
      <4>1. ask[c] = "sent" BY <1>1 DEF HandleLock
      <4>2. \A d \in Clients : ask'[d] = IF d = c THEN "granted" ELSE ask[d] BY <3>1
      <4> QED BY <2>1, <3>1, <4>1, <4>2
    <3>8. AgedIsAbandoned' BY <3>1
    <3>5. LockedIsDown' BY <2>1, <3>1 DEF Grantable
    <3>6. GrantHolds' BY <2>1, <3>1 DEF Grantable
    <3> QED BY <3>3, <3>4, <3>5, <3>6, <3>8
  <2>2. CASE UNCHANGED <<daemon, writes>> BY <1>1, <2>2 DEF HandleLock
  <2> QED BY <1>1, <2>1, <2>2 DEF HandleLock
<1>2. CASE HandleUnlock(c)
  <2>1. CASE lock = c
    <3>1. lock' = NoOne /\ aged' = FALSE /\ UNCHANGED <<pc, ask, env>>
      BY <1>2, <2>1 DEF HandleUnlock, Unlocked
    <3>2. writes' \subseteq Clients \X Status
      BY <1>2, <2>1 DEF HandleUnlock, Unlocked, SyncStatus
    <3>3. TypeOK' BY <1>2, <3>1, <3>2 DEF HandleUnlock
    <3>4. AsksFit' BY <1>2, <3>1 DEF HandleUnlock
    <3>5. HolderGranted' /\ LockedIsDown' /\ AgedIsAbandoned' BY <3>1
    <3>6. pc[c] = "leaving" BY <1>2 DEF HandleUnlock
    <3>7. GrantHolds' BY <2>1, <3>1, <3>6
    <3> QED BY <3>3, <3>4, <3>5, <3>7
  <2>2. CASE lock # c BY <1>2, <2>2 DEF HandleUnlock
  <2> QED BY <2>1, <2>2
<1> QED BY <1>1, <1>2 DEF Service

\* The clock, the sweeper, a restart and a status write keep the inductive invariant.
LEMMA ClockStep == ASSUME IInv, Ages \/ Sweep \/ Restart \/ WriteLands PROVE IInv'
<1> USE NoOneAssumption DEF IInv, TypeOK, AsksFit, HolderGranted, LockedIsDown, GrantHolds,
            AgedIsAbandoned, PcState, Answer, Status, Active, vars, daemon, env
<1>1. CASE Ages       BY <1>1 DEF Ages
<1>2. CASE Sweep
  <2>1. lock' = NoOne /\ aged' = FALSE /\ UNCHANGED <<pc, ask, unlocks, status, env, restarts>>
    BY <1>2 DEF Sweep, Unlocked
  <2>2. writes' \subseteq Clients \X Status
    BY <1>2 DEF Sweep, Unlocked, SyncStatus
  <2>3. TypeOK' /\ AsksFit' /\ HolderGranted' /\ LockedIsDown' /\ AgedIsAbandoned'
    BY <2>1, <2>2
  <2>4. GrantHolds' BY <1>2, <2>1 DEF Sweep
  <2> QED BY <2>3, <2>4
<1>3. CASE Restart
  <2>1. TypeOK'
    <3>1. ask' \in [Clients -> Answer] BY <1>3 DEF Restart
    <3>2. restarts' \in 0..MaxRestarts BY <1>3, RestartAssumption DEF Restart
    <3> QED BY <1>3, <3>1, <3>2 DEF Restart
  <2>2. AsksFit' BY <1>3 DEF Restart
  <2>3. HolderGranted' /\ LockedIsDown' /\ GrantHolds' /\ AgedIsAbandoned'
    BY <1>3 DEF Restart
  <2> QED BY <2>1, <2>2, <2>3
<1>4. CASE WriteLands
  <2>1. PICK w \in writes : status' = w[2] /\ writes' = writes \ {w}
    BY <1>4 DEF WriteLands
  <2>2. status' \in Status BY <2>1
  <2>3. UNCHANGED <<lock, aged, pc, ask, unlocks, live, running, faults, restarts>>
    BY <1>4 DEF WriteLands
  <2>4. TypeOK' BY <2>2, <2>1, <2>3
  <2>5. AsksFit' /\ HolderGranted' BY <2>3
  <2>6. LockedIsDown' /\ GrantHolds' /\ AgedIsAbandoned' BY <2>3
  <2> QED BY <2>4, <2>5, <2>6
<1> QED BY <1>1, <1>2, <1>3, <1>4

\* The instance's comings and goings keep the inductive invariant.
LEMMA InstanceStep == ASSUME IInv, Instance PROVE IInv'
<1> USE NoOneAssumption DEF IInv, TypeOK, AsksFit, HolderGranted, LockedIsDown, GrantHolds,
            AgedIsAbandoned, PcState, Answer, Status, Active, vars, daemon, env
<1>1. CASE RequestRaises   BY <1>1 DEF RequestRaises
<1>2. CASE WarmRaises      BY <1>2 DEF WarmRaises
<1>3. CASE ContainerStarts BY <1>3 DEF ContainerStarts
<1>4. CASE Lowers          BY <1>4 DEF Lowers
<1>5. CASE ContainerStops  BY <1>5 DEF ContainerStops
<1> QED BY <1>1, <1>2, <1>3, <1>4, <1>5 DEF Instance

\* Every step keeps the inductive invariant.
LEMMA Inductive == IInv /\ [Next]_vars => IInv'
<1> SUFFICES ASSUME IInv, [Next]_vars PROVE IInv'
  OBVIOUS
<1>1. CASE UNCHANGED vars
  BY <1>1 DEF IInv, TypeOK, AsksFit, HolderGranted, LockedIsDown, GrantHolds,
     AgedIsAbandoned, vars, daemon, env
<1> QED BY <1>1, JobStep, ServiceStep, ClockStep, InstanceStep DEF Next

\* The inductive invariant holds in every reachable state.
THEOREM Invariant == Spec => []IInv
BY InitIInv, Inductive, PTL DEF Spec

(***************************************************************************)
(* The service, its jobs and the instance keep their types.                *)
(***************************************************************************)
THEOREM TypeCorrect == Spec => []TypeOK
<1>1. IInv => TypeOK BY DEF IInv
<1> QED BY <1>1, Invariant, PTL

(***************************************************************************)
(* Undisturbed, VACUUM runs under its job's lock and with no container up, *)
(* whatever the number of jobs, crashes and timed-out calls.               *)
(***************************************************************************)
THEOREM VacuumRunsAlone == Spec => []VacuumAlone
<1>1. IInv => VacuumAlone
  BY NoOneAssumption DEF IInv, TypeOK, AsksFit, LockedIsDown, GrantHolds, VacuumAlone, Active
<1> QED BY <1>1, Invariant, PTL

(***************************************************************************)
(* With restarts and overlong jobs too, the lock's holder is alone with    *)
(* the database as long as no warm start raises the instance.              *)
(***************************************************************************)
THEOREM HolderRunsAlone == Spec => []HolderAlone
<1>1. IInv => HolderAlone
  BY NoOneAssumption DEF IInv, LockedIsDown, HolderAlone
<1> QED BY <1>1, Invariant, PTL

-----------------------------------------------------------------------------
(* The refinement: each step of the service is a step of the mutex, or none. *)

\* A job's step asks the mutex to release its hold, or does nothing to it.
LEMMA MutexJob == ASSUME IInv, NEW c \in Clients, Job(c) PROVE [Mutex!Next]_(Mutex!vars)
<1> USE DEF IInv, TypeOK, AsksFit, Mutex!vars, daemon, env
<1>1. CASE LockCall(c)   BY <1>1 DEF LockCall
<1>2. CASE Answered(c) \/ GivesUp(c) \/ JobKilled(c)
  BY <1>2 DEF Answered, GivesUp, JobKilled, Active
<1>3. CASE ChecksDocker(c) \/ VacuumEnds(c)
  <2>1. CASE CallsUnlock(c)
    <3>1. {d \in Clients : pc[d] = "leaving"}' = {d \in Clients : pc[d] = "leaving"} \cup {c}
      BY <2>1 DEF CallsUnlock
    <3>2. ask[c] = "granted" BY <1>3 DEF ChecksDocker, VacuumEnds
    <3>3. Mutex!Leave(c) BY <1>3, <3>1, <3>2 DEF Mutex!Leave, ChecksDocker, VacuumEnds
    <3> QED BY <3>3 DEF Mutex!Next
  <2>2. CASE pc' = [pc EXCEPT ![c] = "vacuuming"] /\ pc[c] = "granted" /\ UNCHANGED unlocks
    BY <1>3, <2>2 DEF ChecksDocker, VacuumEnds, CallsUnlock
  <2> QED BY <1>3, <2>1, <2>2 DEF ChecksDocker, VacuumEnds
<1> QED BY <1>1, <1>2, <1>3 DEF Job

\* A handler's step is a grant or a release of the mutex, or does nothing to it.
LEMMA MutexService == ASSUME IInv, NEW c \in Clients, Service(c)
                      PROVE  [Mutex!Next]_(Mutex!vars)
<1> USE NoOneAssumption DEF IInv, TypeOK, AsksFit, Mutex!vars, daemon, env
<1>1. CASE HandleLock(c)
  <2>1. CASE ask' = [ask EXCEPT ![c] = "granted"]
    <3>1. {d \in Clients : ask[d] = "granted"}' = {d \in Clients : ask[d] = "granted"} \cup {c}
      BY <2>1
    <3>2. Mutex!Acquire(c)
      BY <1>1, <2>1, <3>1 DEF HandleLock, Grantable, SyncStatus, Mutex!Acquire
    <3> QED BY <3>2 DEF Mutex!Next
  <2>2. CASE ask' = [ask EXCEPT ![c] = "denied"] \/ ask' = [ask EXCEPT ![c] = "error"]
    BY <1>1, <2>2 DEF HandleLock
  <2> QED BY <1>1, <2>1, <2>2 DEF HandleLock
<1>2. CASE HandleUnlock(c)
  <2>1. CASE lock = c
    <3>1. Mutex!Release(c)
      BY <1>2, <2>1 DEF HandleUnlock, Unlocked, Mutex!Release, Mutex!Drop
    <3> QED BY <3>1 DEF Mutex!Next
  <2>2. CASE lock # c BY <1>2, <2>2 DEF HandleUnlock
  <2> QED BY <2>1, <2>2
<1> QED BY <1>1, <1>2 DEF Service

\* Age, sweep and restart expire, evict and forget; the rest does nothing to the mutex.
LEMMA MutexRest == ASSUME IInv, Ages \/ Sweep \/ Restart \/ WriteLands \/ Instance
                   PROVE  [Mutex!Next]_(Mutex!vars)
<1> USE DEF IInv, TypeOK, Mutex!vars, daemon, env
<1>1. CASE Ages
  <2>1. Mutex!Expire BY <1>1 DEF Ages, Mutex!Expire
  <2> QED BY <2>1 DEF Mutex!Next
<1>2. CASE Sweep
  <2>1. Mutex!Evict BY <1>2 DEF Sweep, Unlocked, Mutex!Evict, Mutex!Drop
  <2> QED BY <2>1 DEF Mutex!Next
<1>3. CASE Restart
  <2>1. {d \in Clients : ask[d] = "granted"}' = {d \in Clients : ask[d] = "granted"}
    BY <1>3 DEF Restart
  <2>2. Mutex!Restart BY <1>3, <2>1 DEF Restart, Mutex!Restart, Mutex!Drop
  <2> QED BY <2>2 DEF Mutex!Next
<1>4. CASE WriteLands \/ Instance
  BY <1>4 DEF WriteLands, Instance, RequestRaises, WarmRaises, ContainerStarts, Lowers,
     ContainerStops
<1> QED BY <1>1, <1>2, <1>3, <1>4

(***************************************************************************)
(* VacuumLockService and its callers implement the abstract mutex: a hold  *)
(* ends only by its holder's release, its expiry or a restart, and no job  *)
(* is granted the lock twice.                                              *)
(***************************************************************************)
THEOREM ImplementsMutex == Spec => IsMutex
<1>1. Init => Mutex!Init
  BY DEF Init, Mutex!Init
<1>2. IInv /\ [Next]_vars => [Mutex!Next]_(Mutex!vars)
  <2> SUFFICES ASSUME IInv, [Next]_vars PROVE [Mutex!Next]_(Mutex!vars)
    OBVIOUS
  <2>1. CASE UNCHANGED vars BY <2>1 DEF vars, Mutex!vars
  <2> QED BY <2>1, MutexJob, MutexService, MutexRest DEF Next
<1> QED BY <1>1, <1>2, Invariant, PTL DEF Spec, IsMutex, Mutex!Spec
=============================================================================

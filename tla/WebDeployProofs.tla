--------------------------- MODULE WebDeployProofs ---------------------------
(***************************************************************************)
(* Theorems about WebDeploy, for any applications, revisions, quotas and   *)
(* any number of deployments and mishaps: its types, what the worker holds *)
(* is still running on record, nothing cancelled is shown, visitors are    *)
(* shown what is recorded as published, and the publication implements     *)
(* WebSite.                                                                *)
(***************************************************************************)
EXTENDS WebDeploy, FiniteSetTheorems, TLAPS

\* Where the worker has a deployment and its marker.
InHand == Places \ {"idle", "mark", "erase", "raze", "erased"}

HandFits ==
  /\ worker.at \in InHand => worker.on \in Job /\ marker.on = worker.on
  /\ worker.at = "mark" => worker.on \in Job /\ marker.on = None
  /\ worker.at \in {"erase", "raze", "erased"} =>
       marker.on = None /\ deletion[worker.erasing] # "no"
  /\ worker.at \in {"route", "verify", "halt", "report", "confirm", "retire"} => marker.saved
  /\ worker.at \in Building \cup {"save"} => ~marker.saved
  /\ marker.on = None => ~marker.saved
  /\ worker.at = "retire" => job[worker.on].status = "ready"

Held1 == TypeOK /\ HandFits /\ LeaseIsHeld

(***************************************************************************)
(* What the steps do to deployments.                                       *)
(***************************************************************************)

\* A deployment that may be shown: nothing can cancel it any more.
Publishable(i) == /\ job[i].status # "none" /\ ~job[i].cancel
                  /\ job[i].action = "deploy" => job[i].gate

\* Nothing but its progress changes of a deployment that exists.
JobsKept ==
  /\ job' \in [Job -> JobType]
  /\ \A k \in Job : job[k].status # "none" =>
       /\ job'[k].app = job[k].app /\ job'[k].action = job[k].action
       /\ job'[k].commit = job[k].commit
       /\ job'[k].status # "none"
       /\ Publishable(k) => Publishable(k)'
  /\ \A k \in Job : job'[k].action # "deploy" /\ job'[k].cancel =>
       job[k].action # "deploy" /\ job[k].cancel

\* Whether a deployment is running or ready stays as it is, for all but those of S.
OutcomesKept(S) ==
  \A k \in Job \ S : job'[k].status \in {"running", "ready"} \/ job[k].status \in {"running", "ready"}
                     => job'[k].status = job[k].status

\* A heartbeat and the report of stage 'publish' change no status.
LEMMA BeatEffect ==
  ASSUME TypeOK, NEW i \in Job, job[i].status = "running",
         job' = Beaten(i) \/ job' = Admitted(i)
  PROVE  JobsKept /\ OutcomesKept({}) /\ \A k \in Job : job'[k].status = job[k].status
<1>1. CASE job' = Beaten(i)
  <2> DEFINE c == Obsolete(i)
  <2>1. c \in BOOLEAN
    BY DEF TypeOK, JobType, Obsolete, Superseded
  <2>2. job' = [job EXCEPT ![i].cancel = c]
    BY <1>1 DEF Beaten
  <2>3. Publishable(i) => (c <=> FALSE)
    BY DEF Publishable, Obsolete, Superseded, Cancellable
  <2>4. job[i].action # "deploy" /\ c => job[i].cancel
    BY DEF Obsolete, Superseded, Cancellable
  <2> HIDE DEF c
  <2> QED
    BY <2>1, <2>2, <2>3, <2>4 DEF TypeOK, JobType, JobsKept, OutcomesKept, Publishable
<1>2. CASE job' = Admitted(i)
  <2> DEFINE c == Obsolete(i)
             g == job[i].action = "deploy" /\ ~c
             j == [job[i] EXCEPT !.cancel = c, !.gate = g]
  <2>1. c \in BOOLEAN /\ g \in BOOLEAN
    BY DEF TypeOK, JobType, Obsolete, Superseded
  <2>4. job' = [job EXCEPT ![i] = j]
    BY <1>2 DEF Admitted
  <2>5. Publishable(i) => (c <=> FALSE) /\ (job[i].action = "deploy" => (g <=> TRUE))
    BY DEF Publishable, Obsolete, Superseded, Cancellable
  <2>6. job[i].action # "deploy" /\ c => job[i].cancel
    BY DEF Obsolete, Superseded, Cancellable
  <2> HIDE DEF c, g
  <2>2. job[i] \in JobType
    BY DEF TypeOK
  <2>3. /\ j \in JobType /\ j.app = job[i].app /\ j.action = job[i].action
        /\ j.commit = job[i].commit /\ j.status = job[i].status
        /\ j.cancel = c /\ j.gate = g
    BY <2>1, <2>2 DEF JobType
  <2> HIDE DEF j
  <2>7. job' \in [Job -> JobType]
    BY <2>3, <2>4 DEF TypeOK
  <2>8. \A k \in Job \ {i} : job'[k] = job[k]
    BY <2>4 DEF TypeOK
  <2>9. /\ job'[i].app = job[i].app /\ job'[i].action = job[i].action
        /\ job'[i].commit = job[i].commit /\ job'[i].status = job[i].status
        /\ job'[i].cancel = c /\ job'[i].gate = g
    BY <2>3, <2>4 DEF TypeOK
  <2> QED
    BY <2>1, <2>5, <2>6, <2>7, <2>8, <2>9 DEF JobsKept, OutcomesKept, Publishable
<1> QED
  BY <1>1, <1>2

\* A deployment ends.
LEMMA EndEffect ==
  ASSUME TypeOK, NEW i \in Job, job[i].status = "running",
         NEW o \in {"ready", "failed", "cancelled"}, job' = [job EXCEPT ![i].status = o]
  PROVE  JobsKept /\ OutcomesKept({i}) /\ job'[i].status = o
BY DEF TypeOK, JobType, Ended, JobsKept, OutcomesKept, Publishable

LEMMA FinishedEffect ==
  ASSUME TypeOK, NEW i \in Job, job[i].status = "running", NEW o \in {"failed", "cancelled"},
         job' = Finished(i, o)
  PROVE  JobsKept /\ OutcomesKept({i}) /\ job'[i].status \in {"failed", "cancelled"}
<1> DEFINE e == IF job[i].cancel /\ job[i].action = "deploy" THEN "cancelled" ELSE o
<1>1. job' = [job EXCEPT ![i].status = e]
  BY DEF Finished
<1>2. e \in {"failed", "cancelled"}
  OBVIOUS
<1> HIDE DEF e
<1> QED
  BY <1>1, <1>2, EndEffect

\* The queue is changed: a deployment is added, and some that wait are cancelled.
LEMMA CancelEffect ==
  ASSUME TypeOK, NEW S \in SUBSET Queued, job' = [i \in Job |-> CancelOne(job[i], i \in S)]
  PROVE  JobsKept /\ OutcomesKept({})
BY DEF TypeOK, JobType, Ended, Queued, CancelOne, JobsKept, OutcomesKept, Publishable

LEMMA EnqueueEffect ==
  ASSUME TypeOK, NEW a \in App, NEW act \in {"deploy", "republish", "stop"},
         NEW c \in Commit \cup {NoCommit}, Enqueue(a, act, c)
  PROVE  JobsKept /\ OutcomesKept({})
<1> DEFINE replaced == IF act = "deploy" THEN Deploys(a) ELSE {}
           New == [app |-> a, action |-> act, commit |-> c, status |-> "queued",
                   cancel |-> FALSE, gate |-> FALSE]
<1>1. replaced \subseteq Queued
  BY DEF Deploys, Queued, Is
<1>2. PICK n \in Job :
        /\ job[n].status = "none"
        /\ job' = [i \in Job |-> IF i = n THEN New ELSE CancelOne(job[i], i \in replaced)]
  BY DEF Enqueue
<1>3. New \in JobType
  BY DEF JobType, Live
<1>4. \A i \in Job : CancelOne(job[i], i \in replaced) \in JobType
  BY DEF TypeOK, JobType, CancelOne, Ended
<1>5. job' \in [Job -> JobType]
  BY <1>2, <1>3, <1>4
<1>6. ASSUME NEW k \in Job, k # n
      PROVE  job'[k] = CancelOne(job[k], k \in replaced)
  BY <1>2, <1>6
<1>7. job'[n].status = "queued" /\ ~job'[n].cancel
  BY <1>2
<1> HIDE DEF replaced, New
<1>8. ASSUME NEW k \in Job, k # n
      PROVE  /\ job'[k].app = job[k].app /\ job'[k].action = job[k].action
             /\ job'[k].commit = job[k].commit
             /\ job'[k].cancel = job[k].cancel /\ job'[k].gate = job[k].gate
             /\ \/ job'[k].status = job[k].status
                \/ job[k].status = "queued" /\ job'[k].status = "cancelled"
  BY <1>1, <1>6, <1>8 DEF TypeOK, JobType, CancelOne, Queued
<1> QED
  BY <1>2, <1>5, <1>7, <1>8 DEF JobsKept, OutcomesKept, Publishable

\* What users ask leaves the worker and what is published alone.
LEMMA UserEffect ==
  ASSUME TypeOK, User
  PROVE  /\ JobsKept /\ OutcomesKept({})
         /\ site' \in [App -> SiteType]
         /\ \A a \in App : site'[a].active = site[a].active /\ site'[a].stopped = site[a].stopped
         /\ deletion' \in [App -> {"no", "queued", "running", "failed", "done"}]
         /\ \A a \in App : deletion[a] # "no" => deletion'[a] # "no"
         /\ UNCHANGED <<worker, marker, routes, up, mishaps>>
<1> USE DEF vars, records, host
<1>1. CASE \E a \in App, c \in Commit : Deploy(a, c)
  <2>1. PICK a \in App, c \in Commit : Deploy(a, c)
    BY <1>1
  <2>2. JobsKept /\ OutcomesKept({})
    BY <2>1, EnqueueEffect DEF Deploy
  <2> QED
    BY <2>1, <2>2 DEF Deploy, TypeOK, SiteType
<1>2. CASE \E a \in App, c \in Commit : Push(a, c)
  <2>1. PICK a \in App, c \in Commit : Push(a, c)
    BY <1>2
  <2>2. JobsKept /\ OutcomesKept({})
    <3>1. CASE Enqueue(a, "deploy", c)
      BY <3>1, EnqueueEffect
    <3>2. CASE job' = [i \in Job |-> CancelOne(job[i], Is(i, a, {"queued"}) /\ job[i].commit # c)]
      <4> DEFINE S == {i \in Queued : job[i].app = a /\ job[i].commit # c}
      <4>1. \A i \in Job : (Is(i, a, {"queued"}) /\ job[i].commit # c) <=> i \in S
        BY DEF Is, Queued
      <4>2. \A i \in Job : CancelOne(job[i], Is(i, a, {"queued"}) /\ job[i].commit # c)
                           = CancelOne(job[i], i \in S)
        BY <4>1, Zenon DEF CancelOne
      <4>3. S \in SUBSET Queued
        OBVIOUS
      <4> HIDE DEF S
      <4> QED
        BY <3>2, <4>2, <4>3, CancelEffect
    <3> QED
      BY <2>1, <3>1, <3>2 DEF Push
  <2> QED
    BY <2>1, <2>2 DEF Push, TypeOK, SiteType
<1>3. CASE \E a \in App, i \in Job : Republish(a, i)
  <2>1. PICK a \in App, i \in Job : Republish(a, i)
    BY <1>3
  <2>2. job[i].commit \in Commit \cup {NoCommit}
    BY DEF TypeOK, JobType
  <2>3. JobsKept /\ OutcomesKept({})
    BY <2>1, <2>2, EnqueueEffect DEF Republish
  <2> QED
    BY <2>1, <2>3 DEF Republish, TypeOK
<1>4. CASE \E a \in App : Stop(a)
  <2>1. PICK a \in App : Stop(a)
    BY <1>4
  <2>2. site[a].desired \in Commit \cup {NoCommit}
    BY DEF TypeOK, SiteType
  <2>3. JobsKept /\ OutcomesKept({})
    BY <2>1, <2>2, EnqueueEffect DEF Stop
  <2> QED
    BY <2>1, <2>3 DEF Stop, TypeOK
<1>5. CASE \E a \in App : RequestDeletion(a)
  BY <1>5 DEF RequestDeletion, TypeOK, JobsKept, OutcomesKept, Publishable
<1>6. CASE \E i \in Job : Cancel(i)
  <2>1. PICK i \in Job : Cancel(i)
    BY <1>6
  <2> DEFINE e == IF job[i].status = "queued" THEN "cancelled" ELSE job[i].status
  <2>2. /\ job[i].action = "deploy" /\ job[i].status \in {"queued", "running"}
        /\ ~job[i].gate
    BY <2>1 DEF Cancel, Cancellable, Live
  <2> DEFINE j == [job[i] EXCEPT !.cancel = TRUE, !.status = e]
  <2>3. job' = [job EXCEPT ![i] = j]
    BY <2>1 DEF Cancel, TypeOK, JobType
  <2>8. e \in {"cancelled", "running"}
    BY <2>2
  <2>9. job[i] \in JobType
    BY DEF TypeOK
  <2> HIDE DEF e
  <2>10. /\ j \in JobType /\ j.app = job[i].app /\ j.action = job[i].action
         /\ j.commit = job[i].commit /\ j.status = e
    BY <2>8, <2>9 DEF JobType, Live, Ended
  <2> HIDE DEF j
  <2>4. job' \in [Job -> JobType]
    BY <2>3, <2>10 DEF TypeOK
  <2>5. \A k \in Job \ {i} : job'[k] = job[k]
    BY <2>3 DEF TypeOK
  <2>6. /\ job'[i].app = job[i].app /\ job'[i].action = job[i].action
        /\ job'[i].commit = job[i].commit /\ job'[i].status = e
    BY <2>3, <2>10 DEF TypeOK
  <2>11. e = IF job[i].status = "queued" THEN "cancelled" ELSE job[i].status
    BY DEF e
  <2>7. JobsKept /\ OutcomesKept({})
    BY <2>2, <2>4, <2>5, <2>6, <2>11 DEF JobsKept, OutcomesKept, Publishable
  <2> QED
    BY <2>1, <2>7 DEF Cancel, TypeOK
<1> QED
  BY <1>1, <1>2, <1>3, <1>4, <1>5, <1>6 DEF User

(***************************************************************************)
(* What the worker holds is still running on record.                       *)
(***************************************************************************)

\* Every initial state satisfies the invariant.
LEMMA InitHeld == Init => Held1
<1> SUFFICES ASSUME Init PROVE Held1
  OBVIOUS
<1>1. (CHOOSE a \in App : TRUE) \in App
  BY AppAssumption
<1>2. TypeOK
  BY <1>1, BoundAssumption, CommitAssumption
  DEF Init, TypeOK, JobType, SiteType, MarkerType, NewSite, NoMarker, Nowhere, Idle, Places,
      Building, Live, Ended, None
<1>3. HandFits /\ LeaseIsHeld
  BY DEF Init, HandFits, LeaseIsHeld, Held, Idle, InHand, NoMarker, None, Building
<1> QED
  BY <1>2, <1>3 DEF Held1

\* The claim: deployments whose lease ran out end, one begins or is refused.
LEMMA ClaimEffect ==
  ASSUME TypeOK, Claim
  PROVE  /\ JobsKept
         /\ \A k \in Job : job'[k].status = "ready" <=> job[k].status = "ready"
         /\ site' \in [App -> SiteType]
         /\ \A a \in App : site'[a].active = site[a].active /\ site'[a].stopped = site[a].stopped
         /\ UNCHANGED <<deletion, marker, routes, up>>
         /\ mishaps' \in 0..MaxMishaps
         /\ \/ UNCHANGED worker
            \/ \E i \in Job : job'[i].status = "running" /\ worker' = [Idle EXCEPT !.at = "mark", !.on = i]
<1> DEFINE jobs == [i \in Job |-> Reaped(job[i])]
<1>1. /\ jobs \in [Job -> JobType]
      /\ \A k \in Job : /\ jobs[k].app = job[k].app /\ jobs[k].action = job[k].action
                        /\ jobs[k].commit = job[k].commit
                        /\ jobs[k].cancel = job[k].cancel /\ jobs[k].gate = job[k].gate
                        /\ \/ jobs[k].status = job[k].status
                           \/ /\ job[k].status = "running"
                              /\ jobs[k].status \in {"failed", "cancelled"}
  BY DEF TypeOK, JobType, Reaped, Ended
<1>2. Mishap => mishaps' \in 0..MaxMishaps
  BY BoundAssumption DEF Mishap, TypeOK
<1>3. UNCHANGED <<deletion, marker, routes, up>>
  BY DEF Claim, host
<1>4. CASE job' = jobs /\ UNCHANGED <<site, worker, mishaps>>
  <2> HIDE DEF jobs
  <2> QED
    BY <1>1, <1>3, <1>4 DEF TypeOK, JobsKept, Publishable
<1>5. ASSUME NEW i \in Queued, NEW s \in {"running", "failed"},
             job' = [jobs EXCEPT ![i].status = s]
      PROVE  /\ JobsKept /\ job'[i].status = s
             /\ \A k \in Job : job'[k].status = "ready" <=> job[k].status = "ready"
  <2>1. i \in Job /\ job[i].status = "queued"
    BY DEF Queued
  <2> HIDE DEF jobs
  <2>2. job' \in [Job -> JobType] /\ job'[i].status = s
    BY <1>1, <1>5, <2>1 DEF JobType, Live, Ended
  <2>3. \A k \in Job \ {i} : job'[k] = jobs[k]
    BY <1>1, <1>5
  <2>4. /\ job'[i].app = jobs[i].app /\ job'[i].action = jobs[i].action
        /\ job'[i].commit = jobs[i].commit
        /\ job'[i].cancel = jobs[i].cancel /\ job'[i].gate = jobs[i].gate
    BY <1>1, <1>5, <2>1 DEF JobType
  <2> QED
    BY <1>1, <2>1, <2>2, <2>3, <2>4 DEF JobsKept, Publishable
<1>6. CASE \E i \in Queued :
             /\ job' = [jobs EXCEPT ![i].status = "running"]
             /\ site' = [site EXCEPT ![job[i].app].served = Turn]
             /\ \/ worker' = [Idle EXCEPT !.at = "mark", !.on = i] /\ UNCHANGED mishaps
                \/ Mishap /\ UNCHANGED worker
  <2>1. PICK i \in Queued :
             /\ job' = [jobs EXCEPT ![i].status = "running"]
             /\ site' = [site EXCEPT ![job[i].app].served = Turn]
             /\ \/ worker' = [Idle EXCEPT !.at = "mark", !.on = i] /\ UNCHANGED mishaps
                \/ Mishap /\ UNCHANGED worker
    BY <1>6
  <2>2. Turn \in Nat
    <3> DEFINE S == {k \in Job : job[k].status \notin {"none", "queued"}}
    <3>1. IsFiniteSet(Job)
      BY FS_Interval, BoundAssumption DEF Job
    <3>2. IsFiniteSet(S)
      BY <3>1, FS_Subset
    <3>3. Cardinality(S) \in Nat
      BY <3>2, FS_CardinalityType
    <3> HIDE DEF S
    <3> QED
      BY <3>3 DEF Turn, S
  <2>3. i \in Job /\ job[i].app \in App
    BY DEF Queued, TypeOK, JobType
  <2> HIDE DEF jobs
  <2>4. site' \in [App -> SiteType]
    BY <2>1, <2>2, <2>3 DEF TypeOK, SiteType
  <2>5. \A a \in App : site'[a].active = site[a].active /\ site'[a].stopped = site[a].stopped
    BY <2>1, <2>3 DEF TypeOK, SiteType
  <2>6. mishaps' \in 0..MaxMishaps
    BY <2>1, <1>2 DEF TypeOK
  <2> QED
    BY <1>3, <1>5, <2>1, <2>3, <2>4, <2>5, <2>6
<1>7. CASE \E i \in Queued : /\ job' = [jobs EXCEPT ![i].status = "failed"]
                             /\ UNCHANGED <<site, worker, mishaps>>
  <2>1. PICK i \in Queued : /\ job' = [jobs EXCEPT ![i].status = "failed"]
                            /\ UNCHANGED <<site, worker, mishaps>>
    BY <1>7
  <2> HIDE DEF jobs
  <2> QED
    BY <1>3, <1>5, <2>1 DEF TypeOK
<1> QED
  BY <1>4, <1>6, <1>7 DEF Claim

\* The steps of the worker that touch no record.
Quiet == \/ Mark \/ Build \/ Pause \/ Start \/ Save \/ Route \/ Verify \/ Halt
         \/ Confirm \/ Retire \/ Undo \/ Settle \/ BuildFails \/ Crash \/ Erase \/ Raze

LEMMA QuietEffect ==
  ASSUME TypeOK, Quiet
  PROVE  UNCHANGED records /\ JobsKept
<1>1. UNCHANGED records
  BY DEF Quiet, Mark, Build, Pause, Start, Save, Route, Verify, Halt, Confirm, Retire, Undo,
         Settle, BuildFails, Crash, Erase, Raze, records
<1> QED
  BY <1>1 DEF records, TypeOK, JobsKept, Publishable

\* The deployment that the worker holds is running where it reports on it.
LEMMA OnRuns ==
  ASSUME Held1, worker.at \in Held
  PROVE  On \in Job /\ job[On].status = "running"
BY DEF Held1, HandFits, LeaseIsHeld, Held, InHand, On, Places, Building

LEMMA BeatKeeps ==
  ASSUME Held1, Beat
  PROVE  JobsKept /\ OutcomesKept({}) /\ \A k \in Job : job'[k].status = job[k].status
<1>1. On \in Job
  BY OnRuns DEF Beat, Held, Building, Places
<1> QED
  BY <1>1, BeatEffect DEF Beat, Held1

LEMMA GateKeeps ==
  ASSUME Held1, Gate
  PROVE  JobsKept /\ OutcomesKept({}) /\ \A k \in Job : job'[k].status = job[k].status
<1>1. On \in Job
  BY OnRuns DEF Gate, Held, Building, Places, At
<1> QED
  BY <1>1, BeatEffect DEF Gate, Held1

\* A report of success: not heard, or heard.
LEMMA ReportKeeps ==
  ASSUME Held1, Report
  PROVE  /\ On \in Job /\ JobsKept /\ OutcomesKept({On})
         /\ \/ /\ UNCHANGED <<job, site>>
               /\ worker' = [worker EXCEPT !.at = "confirm"]
            \/ /\ job[On].status = "running" /\ job'[On].status = "ready"
               /\ Publishes(On)
               /\ \E place \in {"retire", "confirm"} : worker' = [worker EXCEPT !.at = place]
         /\ UNCHANGED <<deletion, host>> /\ mishaps' \in 0..MaxMishaps
<1>1. On \in Job
  BY DEF Held1, HandFits, Report, InHand, Places, On, Building
<1>2. mishaps' \in 0..MaxMishaps
  BY BoundAssumption DEF Report, Mishap, Held1, TypeOK
<1>3. CASE UNCHANGED <<job, site>> /\ Goto("confirm")
  BY <1>1, <1>2, <1>3 DEF Report, Goto, JobsKept, OutcomesKept, Publishable, Held1, TypeOK
<1>4. ASSUME Acceptable(On), Publishes(On), NEW place \in {"retire", "confirm"}, Goto(place)
      PROVE  /\ JobsKept /\ OutcomesKept({On}) /\ job'[On].status = "ready"
             /\ job[On].status = "running"
  BY <1>1, <1>4, EndEffect DEF Acceptable, Publishes, Held1
<1> QED
  BY <1>1, <1>2, <1>3, <1>4 DEF Report, Goto

LEMMA TellKeeps ==
  ASSUME Held1, Tell
  PROVE  JobsKept /\ OutcomesKept({On}) /\ job'[On].status # "ready"
<1>1. On \in Job /\ job[On].status = "running"
  BY OnRuns DEF Tell, Held, At, Places, Building
<1>2. worker.outcome \in {"failed", "cancelled"}
  BY DEF Held1, TypeOK
<1>3. CASE job' = Finished(On, worker.outcome)
  BY <1>1, <1>2, <1>3, FinishedEffect DEF Held1
<1>4. CASE UNCHANGED job
  BY <1>1, <1>4 DEF Held1, TypeOK, JobsKept, OutcomesKept, Publishable
<1> QED
  BY <1>3, <1>4 DEF Tell

LEMMA ReconcileKeeps ==
  ASSUME Held1, Reconcile
  PROVE  /\ marker.on \in Job /\ JobsKept /\ OutcomesKept({marker.on})
         /\ job'[marker.on].status = "ready" <=> job[marker.on].status = "ready"
<1>1. marker.on \in Job
  BY DEF Reconcile, Held1, TypeOK, MarkerType, None
<1>2. CASE UNCHANGED job
  BY <1>1, <1>2 DEF Held1, TypeOK, JobsKept, OutcomesKept, Publishable
<1>3. CASE job[marker.on].status = "running" /\ job' = Finished(marker.on, "failed")
  BY <1>1, <1>3, FinishedEffect DEF Held1
<1> QED
  BY <1>1, <1>2, <1>3 DEF Reconcile

LEMMA DeletionKeeps ==
  ASSUME TypeOK, EraseFails \/ \E a \in App : ClaimDeletion(a)
  PROVE  UNCHANGED <<job, site, host>> /\ JobsKept
BY DEF EraseFails, ClaimDeletion, TypeOK, JobsKept, Publishable

\* Only the end of a deletion takes deployments away.
LEMMA JobsStep ==
  ASSUME Held1, [Next]_vars, ~ReportErased
  PROVE  JobsKept
<1> USE DEF Held1
<1>1. CASE User
  BY <1>1, UserEffect
<1>2. CASE Quiet
  BY <1>2, QuietEffect
<1>3. CASE UNCHANGED vars
  BY <1>3 DEF vars, records, TypeOK, JobsKept, Publishable
<1> QED
  BY <1>1, <1>2, <1>3, ClaimEffect, BeatKeeps, GateKeeps, ReportKeeps, TellKeeps,
     ReconcileKeeps, DeletionKeeps
  DEF Next, Progress, Quiet

(***************************************************************************)
(* Every step keeps the invariant.  The part that says what a step does to *)
(* the deployments is above; here is what it does to the rest.             *)
(***************************************************************************)

\* All but the deployments have their types.
RestType ==
  /\ site \in [App -> SiteType]
  /\ deletion \in [App -> {"no", "queued", "running", "failed", "done"}]
  /\ worker \in [at : Places, on : Job \cup {None}, erasing : App,
                 outcome : {"failed", "cancelled"}]
  /\ marker \in MarkerType
  /\ routes \in [App -> Job \cup {None}]
  /\ up \in SUBSET Job
  /\ mishaps \in 0..MaxMishaps

LEMMA IdleType ==
  Idle \in [at : Places, on : Job \cup {None}, erasing : App, outcome : {"failed", "cancelled"}]
<1>1. (CHOOSE a \in App : TRUE) \in App
  BY AppAssumption
<1> QED
  BY <1>1 DEF Idle, Places

LEMMA NoMarkerType == NoMarker \in MarkerType
BY DEF NoMarker, MarkerType, Nowhere

\* A call that fails costs one mishap, and there is room for it.
LEMMA MishapType == TypeOK /\ (Mishap \/ UNCHANGED mishaps) => mishaps' \in 0..MaxMishaps
BY BoundAssumption DEF Mishap, TypeOK

\* What is taken back is what the marker kept.
LEMMA TakenBackType ==
  ASSUME TypeOK, NEW i \in Job, TakenBack(i)
  PROVE  routes' \in [App -> Job \cup {None}] /\ up' \in SUBSET Job
BY DEF TypeOK, TakenBack, MarkerType

\* A step of the worker that touches no record keeps the invariant if the rest does.
LEMMA QuietKeeps ==
  ASSUME Held1, Quiet, RestType', HandFits', LeaseIsHeld'
  PROVE  Held1'
<1>1. job' \in [Job -> JobType]
  BY QuietEffect DEF JobsKept, Held1
<1> QED
  BY <1>1 DEF Held1, TypeOK, RestType

\* From the claim to the publication gate.
LEMMA BuildingStep ==
  ASSUME Held1, Mark \/ Build \/ Pause \/ Start \/ BuildFails \/ Crash
  PROVE  Held1'
<1> USE DEF Held1, TypeOK, RestType, HandFits, LeaseIsHeld, Held, InHand, Places, Building,
            records, host, At, On, Goto, Fails, Rest
<1>1. CASE Mark
  <2>1. worker.on \in Job /\ job[worker.on].status = "running" /\ marker'.on = worker.on
        /\ ~marker'.saved /\ marker' \in MarkerType
    BY <1>1 DEF Mark, MarkerType, NoMarker, Nowhere
  <2>2. worker' = [worker EXCEPT !.at = "save"] \/ worker' = [worker EXCEPT !.at = "build"]
    BY <1>1 DEF Mark
  <2>3. UNCHANGED <<job, site, deletion, routes, up, mishaps>>
    BY <1>1 DEF Mark
  <2> QED
    BY <1>1, <2>1, <2>2, <2>3, QuietKeeps DEF Quiet
<1>2. CASE Build
  <2>1. worker.on \in Job /\ job[worker.on].status = "running" /\ marker'.on = worker.on
        /\ ~marker'.saved /\ marker' \in MarkerType
    BY <1>2 DEF Build, MarkerType
  <2>2. worker' = [worker EXCEPT !.at = "pause"] \/ worker' = [worker EXCEPT !.at = "start"]
    BY <1>2 DEF Build
  <2>3. UNCHANGED <<job, site, deletion, routes, up, mishaps>>
    BY <1>2 DEF Build
  <2> QED
    BY <1>2, <2>1, <2>2, <2>3, QuietKeeps DEF Quiet
<1>3. CASE Pause
  BY <1>3, QuietKeeps DEF Pause, Quiet
<1>4. CASE Start
  BY <1>4, QuietKeeps DEF Start, Quiet
<1>5. CASE BuildFails
  BY <1>5, QuietKeeps DEF BuildFails, Quiet
<1>6. CASE Crash
  BY <1>6, QuietKeeps, IdleType, MishapType DEF Crash, Quiet, Idle
<1> QED
  BY <1>1, <1>2, <1>3, <1>4, <1>5, <1>6

\* Publication, up to the removal of the former version.
LEMMA PublicationStep ==
  ASSUME Held1, Save \/ Route \/ Verify \/ Halt \/ Confirm \/ Retire
  PROVE  Held1'
<1> USE DEF Held1, TypeOK, RestType, HandFits, LeaseIsHeld, Held, InHand, Places, Building,
            records, host, At, On, Goto, Fails, Rest
<1>1. CASE Save
  <2>1. marker'.on = marker.on /\ marker' \in MarkerType /\ marker'.saved
    BY <1>1 DEF Save, MarkerType
  <2>2. worker' = [worker EXCEPT !.at = "route"] /\ UNCHANGED <<records, routes, up, mishaps>>
    BY <1>1 DEF Save
  <2>3. worker.at = "save" /\ worker.on \in Job /\ marker.on = worker.on
        /\ job[worker.on].status = "running"
    BY <1>1 DEF Save
  <2> QED
    <3>1. RestType'
      BY <2>1, <2>2
    <3>2. worker'.at = "route" /\ worker'.on = worker.on /\ job' = job
      BY <2>2
    <3>3. marker'.on # None /\ worker'.on \in Job
      BY <2>1, <2>3, <3>2 DEF None, Job
    <3>4. HandFits'
      BY <2>1, <2>3, <3>2, <3>3
    <3>5. LeaseIsHeld'
      BY <2>3, <3>2
    <3> QED
      BY <1>1, <3>1, <3>4, <3>5, QuietKeeps DEF Quiet
<1>2. CASE Route
  <2>1. routes' \in [App -> Job \cup {None}]
    BY <1>2 DEF Route
  <2>2. worker' = [worker EXCEPT !.at = "halt"] \/ worker' = [worker EXCEPT !.at = "verify"]
    BY <1>2 DEF Route
  <2> QED
    BY <1>2, <2>1, <2>2, QuietKeeps DEF Route, Quiet
<1>3. CASE Verify
  <2>1. \/ worker' = [worker EXCEPT !.at = "report"]
        \/ worker' = [worker EXCEPT !.at = "undo", !.outcome = "failed"]
        \/ worker' = [worker EXCEPT !.at = "undo", !.outcome = "cancelled"]
    BY <1>3 DEF Verify
  <2>2. mishaps' \in 0..MaxMishaps
    BY <1>3, MishapType DEF Verify
  <2>3. worker.at = "verify" /\ worker'.on = worker.on /\ UNCHANGED <<job, site, deletion, marker, routes, up>>
    BY <1>3, <2>1 DEF Verify
  <2>4. RestType'
    BY <2>1, <2>2, <2>3, ZenonT(60)
  <2>5. HandFits'
    BY <2>1, <2>3, ZenonT(60)
  <2>6. LeaseIsHeld'
    BY <2>1, <2>3
  <2> QED
    BY <1>3, <2>4, <2>5, <2>6, QuietKeeps DEF Quiet
<1>4. CASE Halt
  <2>1. up' \in SUBSET Job
    BY <1>4 DEF Halt
  <2>2. \/ worker' = [worker EXCEPT !.at = "report"]
        \/ worker' = [worker EXCEPT !.at = "settle", !.outcome = "failed"]
    BY <1>4 DEF Halt
  <2>3. mishaps' \in 0..MaxMishaps
    BY <1>4, MishapType DEF Halt
  <2>4. worker.at = "halt" /\ worker'.on = worker.on /\ UNCHANGED <<job, site, deletion, marker, routes>>
    BY <1>4, <2>2 DEF Halt
  <2>5. RestType'
    BY <2>1, <2>2, <2>3, <2>4, ZenonT(60)
  <2>6. HandFits' /\ LeaseIsHeld'
    BY <2>2, <2>4, ZenonT(60)
  <2> QED
    BY <1>4, <2>5, <2>6, QuietKeeps DEF Quiet
<1>5. CASE Confirm
  BY <1>5, QuietKeeps, ZenonT(60) DEF Confirm, Quiet
<1>6. CASE Retire
  <2>1. up' \in SUBSET Job
    BY <1>6 DEF Retire
  <2>2. mishaps' \in 0..MaxMishaps
    BY <1>6, MishapType DEF Retire
  <2>3. worker' = Idle /\ marker' = NoMarker /\ UNCHANGED <<site, deletion, routes>>
    BY <1>6 DEF Retire
  <2> QED
    BY <1>6, <2>1, <2>2, <2>3, QuietKeeps, IdleType, NoMarkerType DEF Quiet, Idle, NoMarker
<1> QED
  BY <1>1, <1>2, <1>3, <1>4, <1>5, <1>6

\* What did not become ready is taken back; the files of a deletion go.
LEMMA BackStep ==
  ASSUME Held1, Undo \/ Settle \/ Erase \/ Raze
  PROVE  Held1'
<1> USE DEF Held1, TypeOK, RestType, HandFits, LeaseIsHeld, Held, InHand, Places, Building,
            records, host, At, On, Goto, Fails, Rest
<1>1. CASE Undo
  <2>1. routes' \in [App -> Job \cup {None}] /\ up' \in SUBSET Job
    BY <1>1, TakenBackType DEF Undo
  <2> QED
    BY <1>1, <2>1, QuietKeeps DEF Undo, Quiet
<1>2. CASE Settle
  <2>1. CASE job[On].status = "ready" /\ marker' = NoMarker /\ Rest /\ UNCHANGED <<routes, up, mishaps>>
    BY <1>2, <2>1, QuietKeeps, IdleType, NoMarkerType DEF Settle, Quiet, Idle, NoMarker
  <2>2. CASE job[On].status # "ready" /\ TakenBack(On) /\ Goto("tell") /\ UNCHANGED <<marker, mishaps>>
    <3>1. routes' \in [App -> Job \cup {None}] /\ up' \in SUBSET Job
      BY <1>2, <2>2, TakenBackType DEF Settle
    <3> QED
      BY <1>2, <2>2, <3>1, QuietKeeps DEF Settle, Quiet
  <2>3. CASE Mishap /\ Rest /\ UNCHANGED host
    BY <1>2, <2>3, QuietKeeps, IdleType, MishapType DEF Settle, Quiet, Idle
  <2> QED
    BY <1>2, <2>1, <2>2, <2>3 DEF Settle
<1>3. CASE Erase
  <2>1. routes' \in [App -> Job \cup {None}]
    BY <1>3 DEF Erase
  <2> QED
    BY <1>3, <2>1, QuietKeeps DEF Erase, Quiet
<1>4. CASE Raze
  BY <1>4, QuietKeeps DEF Raze, Quiet
<1> QED
  BY <1>1, <1>2, <1>3, <1>4

\* The records change under a worker that stays where it is, or moves on.
LEMMA RecordStep ==
  ASSUME Held1, User \/ Claim \/ Beat \/ Gate \/ EraseFails \/ (\E a \in App : ClaimDeletion(a))
  PROVE  Held1'
<1> USE DEF Held1, RestType, HandFits, LeaseIsHeld, Held, InHand, Places, Building,
            records, host, At, On, Goto, Fails, Rest
<1>1. CASE User
  <2>1. TypeOK'
    BY <1>1, UserEffect DEF TypeOK, JobsKept
  <2>2. HandFits'
    BY <1>1, UserEffect DEF TypeOK, OutcomesKept
  <2>3. LeaseIsHeld'
    BY <1>1, UserEffect DEF TypeOK, OutcomesKept
  <2> QED
    BY <2>1, <2>2, <2>3
<1>2. CASE Claim
  <2>1. worker.at = "idle" /\ marker.on = None
    BY <1>2 DEF Claim, Ready
  <2>2. CASE UNCHANGED worker
    BY <1>2, <2>1, <2>2, ClaimEffect DEF TypeOK, JobsKept
  <2>3. ASSUME NEW i \in Job, job'[i].status = "running",
               worker' = [Idle EXCEPT !.at = "mark", !.on = i]
        PROVE  Held1'
    <3>1. /\ worker'.at = "mark" /\ worker'.on = i
          /\ worker' \in [at : Places, on : Job \cup {None}, erasing : App,
                          outcome : {"failed", "cancelled"}]
      BY <2>3, IdleType DEF Idle
    <3> QED
      BY <1>2, <2>1, <2>3, <3>1, ClaimEffect, ZenonT(60) DEF TypeOK, JobsKept
  <2> QED
    BY <1>2, <2>2, <2>3, ClaimEffect
<1>3. CASE Beat
  <2>1. \/ worker' = [worker EXCEPT !.at = "undo", !.outcome = "cancelled"]
        \/ UNCHANGED worker
    BY <1>3 DEF Beat
  <2>2. JobsKept /\ \A k \in Job : job'[k].status = job[k].status
    BY <1>3, BeatKeeps
  <2>3. UNCHANGED <<site, deletion, marker, routes, up, mishaps>>
    BY <1>3 DEF Beat
  <2>4. worker.at \in Building
    BY <1>3 DEF Beat
  <2>5. TypeOK'
    BY <2>1, <2>2, <2>3, <2>4, ZenonT(60) DEF TypeOK, JobsKept
  <2>6. worker'.at \in Places /\ worker'.on = worker.on /\ worker.on \in Job
        /\ marker.on = worker.on /\ ~marker.saved /\ job[worker.on].status = "running"
    BY <2>1, <2>4, <2>5 DEF TypeOK
  <2>7. worker'.at \in Building \cup {"undo", "save"}
    BY <2>1, <2>4 DEF TypeOK
  <2> QED
    BY <2>2, <2>3, <2>5, <2>6, <2>7
<1>4. CASE Gate
  <2>1. \/ worker' = [worker EXCEPT !.at = "undo", !.outcome = "cancelled"]
        \/ worker' = [worker EXCEPT !.at = "undo", !.outcome = "failed"]
        \/ worker' = [worker EXCEPT !.at = "save"]
    BY <1>4 DEF Gate
  <2>2. JobsKept /\ \A k \in Job : job'[k].status = job[k].status
    BY <1>4, GateKeeps
  <2>3. UNCHANGED <<site, deletion, marker, routes, up>>
    BY <1>4 DEF Gate
  <2>4. worker.at = "health" /\ mishaps' \in 0..MaxMishaps
    BY <1>4, MishapType DEF Gate
  <2>5. TypeOK'
    BY <2>1, <2>2, <2>3, <2>4, ZenonT(60) DEF TypeOK, JobsKept
  <2>6. worker'.at \in Places /\ worker'.on = worker.on /\ worker.on \in Job
        /\ marker.on = worker.on /\ ~marker.saved /\ job[worker.on].status = "running"
    BY <2>1, <2>4, <2>5 DEF TypeOK
  <2>7. worker'.at \in Building \cup {"undo", "save"}
    BY <2>1, <2>4 DEF TypeOK
  <2> QED
    BY <2>2, <2>3, <2>5, <2>6, <2>7
<1>5. CASE EraseFails
  <2>1. worker' = Idle /\ UNCHANGED <<job, site, host>> /\ Mishap
        /\ deletion' = [deletion EXCEPT ![worker.erasing] = "failed"]
    BY <1>5 DEF EraseFails
  <2> QED
    BY <1>5, <2>1, DeletionKeeps, IdleType, MishapType DEF TypeOK, Idle
<1>6. ASSUME NEW a \in App, ClaimDeletion(a)
      PROVE  Held1'
  <2>1. worker.at = "idle" /\ marker.on = None /\ UNCHANGED <<job, site, host>>
        /\ deletion' = [deletion EXCEPT ![a] = "running"]
    BY <1>6 DEF ClaimDeletion, Ready
  <2>2. mishaps' \in 0..MaxMishaps
    BY <1>6, MishapType DEF ClaimDeletion
  <2>3. CASE UNCHANGED worker
    BY <2>1, <2>2, <2>3 DEF TypeOK
  <2>4. CASE worker' = [Idle EXCEPT !.at = "erase", !.erasing = a]
    <3>1. /\ worker'.at = "erase" /\ worker'.erasing = a
          /\ worker' \in [at : Places, on : Job \cup {None}, erasing : App,
                          outcome : {"failed", "cancelled"}]
      BY <2>4, IdleType DEF Idle
    <3> QED
      BY <2>1, <2>2, <3>1 DEF TypeOK
  <2> QED
    BY <1>6, <2>3, <2>4 DEF ClaimDeletion
<1> QED
  BY <1>1, <1>2, <1>3, <1>4, <1>5, <1>6

\* The worker reports on its deployment, or on a deletion.
LEMMA ReportStep ==
  ASSUME Held1, Report \/ Tell \/ Reconcile \/ ReportErased
  PROVE  Held1'
<1> USE DEF Held1, RestType, HandFits, LeaseIsHeld, Held, InHand, Places, Building,
            records, host, At, On, Goto, Fails, Rest
<1>1. CASE Report
  <2>1. worker.at \in {"report", "confirm"} /\ worker.on \in Job /\ marker.on = worker.on
        /\ marker.saved
    BY <1>1 DEF Report
  <2>2. site' \in [App -> SiteType]
    <3>1. CASE UNCHANGED site
      BY <3>1 DEF TypeOK
    <3>2. CASE Publishes(On)
      <4>1. job[On].app \in App
        BY <2>1 DEF TypeOK, JobType
      <4> DEFINE act == IF job[On].action = "stop" THEN site[job[On].app].active ELSE On
                 stp == job[On].action = "stop"
      <4>2. act \in Job \cup {None} /\ stp \in BOOLEAN
        BY <2>1, <4>1 DEF TypeOK, SiteType
      <4>3. site' = [site EXCEPT ![job[On].app] = [@ EXCEPT !.active = act, !.stopped = stp]]
        BY <3>2, <4>1 DEF Publishes, TypeOK, SiteType
      <4>4. [site[job[On].app] EXCEPT !.active = act, !.stopped = stp] \in SiteType
        <5>1. site[job[On].app] \in SiteType
          BY <4>1 DEF TypeOK
        <5> HIDE DEF act, stp
        <5> QED
          BY <4>2, <5>1 DEF SiteType
      <4> HIDE DEF act, stp
      <4> QED
        BY <4>1, <4>3, <4>4 DEF TypeOK
    <3> QED
      BY <1>1, <3>1, <3>2, ReportKeeps
  <2>3. CASE UNCHANGED <<job, site>> /\ worker' = [worker EXCEPT !.at = "confirm"]
    BY <1>1, <2>1, <2>2, <2>3, ReportKeeps DEF TypeOK, JobsKept
  <2>4. ASSUME job'[On].status = "ready", NEW place \in {"retire", "confirm"},
               worker' = [worker EXCEPT !.at = place]
        PROVE  Held1'
    BY <1>1, <2>1, <2>2, <2>4, ReportKeeps DEF TypeOK, JobsKept
  <2> QED
    BY <1>1, <2>3, <2>4, ReportKeeps
<1>2. CASE Tell
  <2>1. worker' = Idle /\ (marker' = NoMarker \/ UNCHANGED marker)
        /\ UNCHANGED <<site, deletion, routes, up>>
    BY <1>2 DEF Tell
  <2>2. mishaps' \in 0..MaxMishaps
    BY <1>2, MishapType DEF Tell
  <2> QED
    <3>1. TypeOK'
      BY <1>2, <2>1, <2>2, TellKeeps, IdleType, NoMarkerType DEF TypeOK, JobsKept
    <3>2. worker'.at = "idle" /\ marker.on \in Job
      BY <1>2, <2>1 DEF Idle, Tell
    <3>3. marker'.on = None => ~marker'.saved
      BY <2>1, <3>2 DEF NoMarker
    <3> QED
      BY <3>1, <3>2, <3>3
<1>3. CASE Reconcile
  <2>1. marker' = NoMarker \/ UNCHANGED marker
    BY <1>3 DEF Reconcile
  <2>2. routes' \in [App -> Job \cup {None}] /\ up' \in SUBSET Job
    BY <1>3, ReconcileKeeps, TakenBackType DEF Reconcile, TypeOK
  <2>3. mishaps' \in 0..MaxMishaps
    BY <1>3, MishapType DEF Reconcile
  <2>4. worker.at = "idle" /\ UNCHANGED <<site, deletion, worker>>
    BY <1>3 DEF Reconcile
  <2> QED
    <3>1. TypeOK'
      BY <1>3, <2>1, <2>2, <2>3, <2>4, ReconcileKeeps, NoMarkerType DEF TypeOK, JobsKept
    <3>2. marker'.on = None => ~marker'.saved
      BY <2>1 DEF NoMarker
    <3> QED
      BY <2>4, <3>1, <3>2
<1>4. CASE ReportErased
  <2>1. marker.on = None /\ worker' = Idle /\ UNCHANGED <<marker, routes, up>>
    BY <1>4 DEF ReportErased
  <2>2. mishaps' \in 0..MaxMishaps
    BY <1>4, MishapType DEF ReportErased
  <2>3. job' \in [Job -> JobType]
    <3>1. \A i \in Job : [job[i] EXCEPT !.status = "erased"] \in JobType /\ job[i] \in JobType
      BY DEF TypeOK, JobType
    <3> QED
      BY <1>4, <3>1 DEF ReportErased, Erased
  <2>4. site' \in [App -> SiteType]
        /\ deletion' \in [App -> {"no", "queued", "running", "failed", "done"}]
    BY <1>4 DEF ReportErased, Erased, TypeOK, SiteType, NewSite
  <2> QED
    BY <2>1, <2>2, <2>3, <2>4, IdleType DEF TypeOK, Idle
<1> QED
  BY <1>1, <1>2, <1>3, <1>4

LEMMA HeldStep == Held1 /\ [Next]_vars => Held1'
<1> SUFFICES ASSUME Held1, [Next]_vars PROVE Held1'
  OBVIOUS
<1>1. CASE UNCHANGED vars
  BY <1>1 DEF vars, records, host, Held1, TypeOK, HandFits, LeaseIsHeld, On
<1> QED
  BY <1>1, BuildingStep, PublicationStep, BackStep, RecordStep, ReportStep DEF Next, Progress

\* The records, the worker and what it keeps on the host always have their types.
THEOREM TypeCorrect == Spec => []TypeOK
<1>1. Held1 => TypeOK
  BY DEF Held1
<1> QED
  BY <1>1, InitHeld, HeldStep, PTL DEF Spec

\* For any number of lost calls and crashes: the deployment that the worker is about
\* to publish, to fail or to take back is running on record.
THEOREM LeaseHeld == Spec => []LeaseIsHeld
<1>1. Held1 => LeaseIsHeld
  BY DEF Held1
<1> QED
  BY <1>1, InitHeld, HeldStep, PTL DEF Spec

(***************************************************************************)
(* Nothing cancelled is shown: what the routes lead to, what the marker    *)
(* keeps and what is about to be routed has passed the publication gate,   *)
(* after which nothing cancels it.                                         *)
(***************************************************************************)

DecidedFits ==
  /\ \A i \in Job : job[i].action # "deploy" => ~job[i].cancel
  /\ worker.at \in {"save", "route"} => Publishable(worker.on)
  /\ \A a \in App : routes[a] # None => Publishable(routes[a])
  /\ \A a \in App : marker.previous[a] # None => Publishable(marker.previous[a])

\* Where routes come from: from those before, from the marker, or from the worker's hand.
LEMMA RoutesStep ==
  ASSUME Held1, [Next]_vars, NEW a \in App
  PROVE  /\ \/ routes'[a] \in {None, routes[a], marker.previous[a]}
            \/ At("route") /\ routes'[a] = On
         /\ marker'.previous[a] \in {None, routes[a], marker.previous[a]}
<1> USE DEF Held1, TypeOK, MarkerType, host, records, NoMarker, Nowhere
<1>1. CASE UNCHANGED vars
  BY <1>1 DEF vars
<1>2. CASE User \/ Claim
  BY <1>2, UserEffect, ClaimEffect
<1>3. CASE Mark \/ Build \/ Pause \/ Start \/ BuildFails \/ Crash \/ Beat \/ Gate
  BY <1>3 DEF Mark, Build, Pause, Start, BuildFails, Crash, Beat, Gate
<1>4. CASE Save \/ Verify \/ Halt \/ Confirm \/ Retire
  <2>1. CASE Save
    BY <2>1 DEF Save
  <2>2. CASE Verify \/ Halt \/ Confirm
    BY <2>2 DEF Verify, Halt, Confirm
  <2>3. CASE Retire
    BY <2>3 DEF Retire
  <2> QED
    BY <1>4, <2>1, <2>2, <2>3
<1>5. CASE Route
  BY <1>5 DEF Route
<1>6. CASE Undo \/ Settle \/ Tell
  BY <1>6 DEF Undo, Settle, Tell, TakenBack
<1>7. CASE Reconcile
  BY <1>7 DEF Reconcile, TakenBack
<1>8. CASE Report
  BY <1>8 DEF Report
<1>9. CASE Erase
  BY <1>9 DEF Erase
<1>10. CASE Raze \/ ReportErased \/ EraseFails \/ \E b \in App : ClaimDeletion(b)
  BY <1>10 DEF Raze, ReportErased, EraseFails, ClaimDeletion
<1> QED
  BY <1>1, <1>2, <1>3, <1>4, <1>5, <1>6, <1>7, <1>8, <1>9, <1>10 DEF Next, Progress

\* Who gets to the publication: from the gate, or at once if it is a stop.
LEMMA SaveStep ==
  ASSUME Held1, [Next]_vars, worker'.at \in {"save", "route"}
  PROVE  /\ ~ReportErased
         /\ worker'.on = worker.on
         /\ \/ worker.at \in {"save", "route"}
            \/ Mark /\ job[On].action = "stop"
            \/ Gate /\ worker' = [worker EXCEPT !.at = "save"]
<1> USE DEF Held1, TypeOK, At, Goto, Fails, Rest, Idle, Ready
<1>1. CASE UNCHANGED vars
  BY <1>1 DEF vars, ReportErased
<1>2. CASE User
  <2>1. UNCHANGED worker
    BY <1>2, UserEffect
  <2> QED
    BY <2>1 DEF ReportErased
<1>3. CASE Claim
  BY <1>3 DEF Claim, ReportErased
<1>4. CASE Mark \/ Build \/ Pause \/ Start
  <2>1. CASE Mark
    BY <2>1 DEF Mark, ReportErased
  <2>2. CASE Build
    BY <2>2 DEF Build, ReportErased
  <2>3. CASE Pause \/ Start
    BY <2>3 DEF Pause, Start, ReportErased
  <2> QED
    BY <1>4, <2>1, <2>2, <2>3
<1>10. CASE BuildFails \/ Crash \/ Beat
  <2>1. CASE BuildFails
    BY <2>1 DEF BuildFails, ReportErased
  <2>2. CASE Crash
    BY <2>2 DEF Crash
  <2>3. CASE Beat
    BY <2>3 DEF Beat, ReportErased, Building
  <2> QED
    BY <1>10, <2>1, <2>2, <2>3
<1>5. CASE Gate
  BY <1>5 DEF Gate, ReportErased
<1>6. CASE Save \/ Route \/ Verify \/ Halt \/ Confirm \/ Retire
  <2>1. CASE Save \/ Route
    BY <2>1 DEF Save, Route, ReportErased
  <2>2. CASE Verify
    BY <2>2 DEF Verify
  <2>3. CASE Halt
    BY <2>3 DEF Halt
  <2>4. CASE Confirm
    BY <2>4 DEF Confirm
  <2>5. CASE Retire
    BY <2>5 DEF Retire
  <2> QED
    BY <1>6, <2>1, <2>2, <2>3, <2>4, <2>5
<1>7. CASE Undo \/ Settle \/ Tell
  BY <1>7 DEF Undo, Settle, Tell
<1>8. CASE Reconcile \/ Report
  BY <1>8 DEF Reconcile, Report
<1>9. CASE Erase \/ Raze \/ ReportErased \/ EraseFails \/ \E b \in App : ClaimDeletion(b)
  <2>1. CASE Erase \/ Raze
    BY <2>1 DEF Erase, Raze
  <2>2. CASE ReportErased \/ EraseFails
    BY <2>2 DEF ReportErased, EraseFails
  <2>3. ASSUME NEW b \in App, ClaimDeletion(b)
        PROVE  FALSE
    BY <2>3 DEF ClaimDeletion
  <2> QED
    BY <1>9, <2>1, <2>2, <2>3
<1> QED
  BY <1>1, <1>2, <1>3, <1>4, <1>5, <1>6, <1>7, <1>8, <1>9, <1>10 DEF Next, Progress

\* The gate lets through what is not cancelled, and marks it.
LEMMA GateDecides ==
  ASSUME Held1, Gate, worker' = [worker EXCEPT !.at = "save"],
         job[On].action # "deploy" => ~job[On].cancel
  PROVE  Publishable(worker.on)'
<1>1. On \in Job /\ job[On].status = "running"
  BY OnRuns DEF Gate, Held, Building, Places, At
<1> DEFINE c == Obsolete(On)
           g == job[On].action = "deploy" /\ ~c
           j == [job[On] EXCEPT !.cancel = c, !.gate = g]
<1>2. c \in BOOLEAN /\ g \in BOOLEAN
  BY <1>1 DEF Held1, TypeOK, JobType, Obsolete, Superseded
<1>5. job' = [job EXCEPT ![On] = j]
  BY DEF Gate, Admitted
<1>6. job[On].action # "deploy" => (c <=> FALSE)
  BY DEF Obsolete, Superseded, Cancellable
<1>7. ~((job[On].action = "deploy" /\ job'[On].cancel) \/ ~Wanted(On))
  BY DEF Gate, Fails, Goto, Held1, TypeOK
<1>8. worker'.on = On
  BY DEF On, Held1, TypeOK
<1> HIDE DEF c, g
<1>4. job[On] \in JobType
  BY <1>1 DEF Held1, TypeOK
<1>3. /\ j.action = job[On].action /\ j.status = job[On].status
      /\ j.cancel = c /\ j.gate = g
  BY <1>2, <1>4 DEF JobType
<1> HIDE DEF j
<1>9. /\ job'[On].action = job[On].action /\ job'[On].status = "running"
      /\ job'[On].cancel = c /\ job'[On].gate = g
  BY <1>1, <1>3, <1>5 DEF Held1, TypeOK
<1>10. job[On].action = "deploy" => (c <=> FALSE) /\ (g <=> TRUE)
  BY <1>2, <1>7, <1>9 DEF g
<1> QED
  BY <1>6, <1>8, <1>9, <1>10 DEF Publishable

LEMMA DecidedStep ==
  ASSUME Held1, DecidedFits, [Next]_vars
  PROVE  DecidedFits'
<1>1. \A i \in Job : job'[i].action # "deploy" => ~job'[i].cancel
  <2>1. CASE ReportErased
    BY <2>1 DEF ReportErased, Erased, DecidedFits, Held1, TypeOK, JobType
  <2>2. CASE ~ReportErased
    BY <2>2, JobsStep DEF JobsKept, DecidedFits
  <2> QED
    BY <2>1, <2>2
<1>2. ASSUME NEW k \in Job, Publishable(k)
      PROVE  job'[k].status # "none" /\ ~job'[k].cancel
             /\ (job'[k].action = "deploy" => job'[k].gate)
  <2>1. CASE ReportErased
    BY <1>2, <2>1 DEF ReportErased, Erased, Publishable, Held1, TypeOK, JobType
  <2>2. CASE ~ReportErased
    BY <1>2, <2>2, JobsStep DEF JobsKept, Publishable
  <2> QED
    BY <2>1, <2>2
<1>3. ASSUME worker'.at \in {"save", "route"}
      PROVE  Publishable(worker.on)'
  <2>1. CASE worker.at \in {"save", "route"}
    <3>1. worker.on \in Job
      BY <2>1 DEF Held1, HandFits, InHand, Places, Building
    <3> QED
      BY <1>2, <1>3, <2>1, <3>1, SaveStep DEF DecidedFits, Publishable
  <2>2. CASE Mark /\ job[On].action = "stop"
    <3>1. worker.on \in Job /\ job[worker.on].status = "running"
      BY <2>2 DEF Held1, HandFits, LeaseIsHeld, Held, Mark, At, On, Places, Building
    <3>2. Publishable(worker.on)
      BY <2>2, <3>1 DEF DecidedFits, Publishable, On
    <3> QED
      BY <1>2, <1>3, <3>1, <3>2, SaveStep DEF Publishable
  <2>3. CASE Gate /\ worker' = [worker EXCEPT !.at = "save"]
    <3>1. On \in Job
      BY <2>3, OnRuns DEF Gate, Held, Building, Places, At
    <3> QED
      BY <2>3, <3>1, GateDecides DEF DecidedFits
  <2> QED
    BY <1>3, <2>1, <2>2, <2>3, SaveStep
<1>4. ASSUME NEW a \in App, routes'[a] # None
      PROVE  Publishable(routes[a])'
  <2>1. routes'[a] \in Job /\ Publishable(routes'[a])
    <3>1. CASE routes'[a] \in {routes[a], marker.previous[a]}
      BY <1>4, <3>1 DEF DecidedFits, Held1, TypeOK, MarkerType
    <3>2. CASE At("route") /\ routes'[a] = On
      BY <3>2 DEF DecidedFits, At, On, Held1, HandFits, InHand, Places, Building
    <3> QED
      BY <1>4, <3>1, <3>2, RoutesStep
  <2> QED
    BY <1>2, <2>1 DEF Publishable
<1>5. ASSUME NEW a \in App, marker'.previous[a] # None
      PROVE  Publishable(marker.previous[a])'
  <2>1. marker'.previous[a] \in Job /\ Publishable(marker'.previous[a])
    BY <1>5, RoutesStep DEF DecidedFits, Held1, TypeOK, MarkerType
  <2> QED
    BY <1>2, <2>1 DEF Publishable
<1> QED
  BY <1>1, <1>3, <1>4, <1>5 DEF DecidedFits

LEMMA InitDecided == Init => DecidedFits
BY AppAssumption DEF Init, DecidedFits, Idle, NoMarker, Nowhere

\* However late a cancellation comes and whatever crashes: visitors never reach a
\* deployment that has been cancelled, or that did not pass the publication gate.
THEOREM CancelledHidden == Spec => []CancelledNeverShown
<1>1. DecidedFits => CancelledNeverShown
  BY DEF DecidedFits, CancelledNeverShown, Publishable
<1>2. Held1 /\ DecidedFits /\ [Next]_vars => Held1' /\ DecidedFits'
  BY HeldStep, DecidedStep
<1> QED
  BY <1>1, <1>2, InitHeld, InitDecided, PTL DEF Spec

(***************************************************************************)
(* Visitors are shown what is recorded as published.  While a deployment   *)
(* is in hand the routes may be ahead of the record, but then the marker   *)
(* keeps those of the record, until the deployment is ready on record.     *)
(***************************************************************************)

Shown(r) == \A a \in App : deletion[a] = "no" => r[a] = Recorded(a)

\* Where the routes are those of before but for the deployment in hand.
Ahead == {"verify", "halt", "report", "confirm"}

AheadRoutes == [marker.previous EXCEPT ![Its] = IF job[On].action = "stop" THEN None ELSE On]

ShownFits ==
  /\ ~marker.saved => Shown(routes)
  /\ marker.saved /\ job[marker.on].status # "ready" => Shown(marker.previous)
  /\ marker.saved /\ job[marker.on].status = "ready" => Shown(routes)
  /\ worker.at = "tell" => Shown(routes)
  /\ worker.at = "route" => routes = marker.previous
  /\ worker.at \in Ahead => routes = AheadRoutes

\* Only the report of a success and the end of a deletion change what is published.
RecordedKept == \A a \in App : /\ site'[a].active = site[a].active
                               /\ site'[a].stopped = site[a].stopped
                               /\ deletion[a] # "no" => deletion'[a] # "no"

LEMMA ShownKept ==
  ASSUME RecordedKept, NEW r, Shown(r)
  PROVE  \A a \in App : deletion'[a] = "no" => r[a] = Recorded(a)'
BY DEF RecordedKept, Shown, Recorded

\* The steps that leave the routes, and what the marker keeps of them, as they are.
Calm == \/ User \/ Claim \/ Beat \/ Gate \/ BuildFails \/ Build \/ Pause \/ Start \/ Crash
        \/ Verify \/ Halt \/ Confirm \/ Raze \/ EraseFails
        \/ \E a \in App : ClaimDeletion(a)

LEMMA CalmEffect ==
  ASSUME Held1, Calm
  PROVE  /\ JobsKept /\ RecordedKept
         /\ \A k \in Job : job'[k].status = "ready" <=> job[k].status = "ready"
         /\ routes' = routes /\ marker'.on = marker.on /\ marker'.saved = marker.saved
         /\ marker'.previous = marker.previous
         /\ worker'.at # "tell" \/ worker' = worker
         /\ worker'.at # "route" \/ worker' = worker
         /\ worker'.at \in Ahead => worker.at \in Ahead /\ worker'.on = worker.on
<1> USE DEF Held1, Goto, Fails, Rest, host, records
<1>1. CASE User
  BY <1>1, UserEffect DEF RecordedKept, OutcomesKept
<1>2. CASE Claim
  <2>1. \A i \in Job : [Idle EXCEPT !.at = "mark", !.on = i].at = "mark"
    BY DEF Idle
  <2>2. worker' = worker \/ worker'.at = "mark"
    BY <1>2, <2>1, ClaimEffect
  <2>3. RecordedKept
    BY <1>2, ClaimEffect DEF RecordedKept
  <2> QED
    BY <1>2, <2>2, <2>3, ClaimEffect DEF Ahead
<1>3. CASE Beat
  <2>1. UNCHANGED <<site, deletion, marker, routes>>
        /\ (worker' = worker \/ worker'.at = "undo")
    BY <1>3 DEF Beat, TypeOK
  <2> QED
    BY <1>3, <2>1, BeatKeeps DEF RecordedKept, Ahead
<1>4. CASE Gate
  <2>1. UNCHANGED <<site, deletion, marker, routes>>
        /\ worker'.at \in {"undo", "save"}
    BY <1>4 DEF Gate, TypeOK
  <2> QED
    BY <1>4, <2>1, GateKeeps DEF RecordedKept, Ahead
<1>5. CASE BuildFails \/ Pause \/ Start \/ Crash \/ Raze
  <2>1. UNCHANGED records /\ JobsKept
    BY <1>5, QuietEffect DEF Quiet
  <2>2. UNCHANGED <<marker, routes>>
    BY <1>5 DEF BuildFails, Pause, Start, Crash, Raze
  <2>3. worker'.at \in {"undo", "start", "health", "idle", "erased"}
    <3>1. CASE BuildFails
      BY <3>1 DEF BuildFails, TypeOK
    <3>2. CASE Pause \/ Start \/ Raze
      BY <3>2 DEF Pause, Start, Raze, TypeOK
    <3>3. CASE Crash
      BY <3>3 DEF Crash, Idle
    <3> QED
      BY <1>5, <3>1, <3>2, <3>3
  <2> QED
    BY <2>1, <2>2, <2>3 DEF RecordedKept, Ahead
<1>6. CASE Build
  <2>1. UNCHANGED records /\ JobsKept
    BY <1>6, QuietEffect DEF Quiet
  <2>2. UNCHANGED routes /\ marker'.on = marker.on /\ marker'.saved = marker.saved
         /\ marker'.previous = marker.previous
    BY <1>6 DEF Build, TypeOK, MarkerType
  <2>3. worker'.at \in {"pause", "start"}
    BY <1>6 DEF Build, TypeOK
  <2> QED
    BY <2>1, <2>2, <2>3 DEF RecordedKept, Ahead
<1>7. CASE Verify \/ Halt \/ Confirm
  <2>1. UNCHANGED records /\ JobsKept
    BY <1>7, QuietEffect DEF Quiet
  <2>2. UNCHANGED <<marker, routes>> /\ worker.at \in Ahead
    BY <1>7 DEF Verify, Halt, Confirm, At, Ahead
  <2>3. worker'.at \in {"report", "undo", "settle", "retire"} /\ worker'.on = worker.on
    BY <1>7 DEF Verify, Halt, Confirm, TypeOK
  <2> QED
    BY <2>1, <2>2, <2>3 DEF RecordedKept, Ahead
<1>8. CASE EraseFails \/ \E a \in App : ClaimDeletion(a)
  <2>1. UNCHANGED <<job, site, marker, routes>> /\ JobsKept
    BY <1>8, DeletionKeeps
  <2>2. \A a \in App : deletion[a] # "no" => deletion'[a] # "no"
    BY <1>8 DEF EraseFails, ClaimDeletion, TypeOK
  <2>3. worker' = worker \/ worker'.at \in {"idle", "erase"}
    <3>1. /\ Idle.at = "idle"
          /\ \A a \in App : [Idle EXCEPT !.at = "erase", !.erasing = a].at = "erase"
      BY DEF Idle
    <3>2. ASSUME NEW a \in App, ClaimDeletion(a)
          PROVE  worker' = worker \/ worker'.at = "erase"
      BY <3>1, <3>2 DEF ClaimDeletion
    <3>3. CASE EraseFails
      BY <3>1, <3>3 DEF EraseFails
    <3> QED
      BY <1>8, <3>2, <3>3
  <2> QED
    BY <2>1, <2>2, <2>3 DEF RecordedKept, Ahead
<1> QED
  BY <1>1, <1>2, <1>3, <1>4, <1>5, <1>6, <1>7, <1>8 DEF Calm

LEMMA CalmShown ==
  ASSUME Held1, ShownFits, Calm \/ UNCHANGED vars
  PROVE  ShownFits'
<1>1. CASE UNCHANGED vars
  BY <1>1 DEF vars, records, host, ShownFits, Shown, Recorded, AheadRoutes, Its, On
<1>2. CASE Calm
  <2>1. marker.saved => marker.on \in Job
    BY DEF Held1, TypeOK, HandFits, MarkerType
  <2>2. Shown(routes) => Shown(routes)'
    BY <1>2, CalmEffect, ShownKept DEF Shown
  <2>3. Shown(marker.previous) => Shown(marker.previous)'
    BY <1>2, CalmEffect, ShownKept DEF Shown
  <2>4. worker.at \in Ahead => worker.on \in Job /\ job[worker.on].status # "none"
    BY DEF Held1, HandFits, LeaseIsHeld, Held, InHand, Ahead, Places, Building, On
  <2>5. worker'.at \in Ahead => AheadRoutes' = AheadRoutes
    BY <1>2, <2>4, CalmEffect DEF AheadRoutes, Its, On, JobsKept
  <2> QED
    BY <1>2, <2>1, <2>2, <2>3, <2>5, CalmEffect DEF ShownFits
<1> QED
  BY <1>1, <1>2

\* The worker publishes: the marker first, then the routes.
LEMMA PublishShown ==
  ASSUME Held1, ShownFits, Mark \/ Save \/ Route \/ Retire
  PROVE  ShownFits'
<1> USE DEF Held1, At, Goto, Rest, host, records
<1>1. UNCHANGED records /\ RecordedKept
  BY QuietEffect DEF Quiet, RecordedKept
<1>2. CASE Mark
  <2>1. ~marker.saved /\ routes' = routes /\ marker'.saved = FALSE
    BY <1>2 DEF Mark, HandFits, NoMarker
  <2>2. worker'.at \in {"save", "build"}
    BY <1>2 DEF Mark, TypeOK
  <2> QED
    BY <1>1, <2>1, <2>2, ShownKept DEF ShownFits, Shown, Ahead
<1>3. CASE Save
  <2>1. ~marker.saved /\ routes' = routes /\ worker.on \in Job /\ marker.on = worker.on
        /\ job[worker.on].status = "running"
    BY <1>3 DEF Save, HandFits, LeaseIsHeld, InHand, Held, Places, Building, On
  <2>2. marker'.previous = routes /\ marker'.on = marker.on /\ marker'.saved = TRUE
    BY <1>3 DEF Save, TypeOK, MarkerType
  <2>3. worker'.at = "route"
    BY <1>3 DEF Save, TypeOK
  <2> QED
    BY <1>1, <2>1, <2>2, <2>3, ShownKept DEF ShownFits, Shown, Ahead
<1>4. CASE Route
  <2>1. routes = marker.previous /\ marker.saved /\ marker' = marker
        /\ job[marker.on].status = "running"
    BY <1>4 DEF Route, ShownFits, HandFits, LeaseIsHeld, InHand, Held, Places, Building, On
  <2>2. worker'.at \in {"halt", "verify"} /\ worker'.on = worker.on
    BY <1>4 DEF Route, TypeOK
  <2>3. routes' = AheadRoutes
    BY <1>4, <2>1 DEF Route, AheadRoutes
  <2>4. AheadRoutes' = AheadRoutes
    BY <1>1, <2>1, <2>2 DEF AheadRoutes, Its, On
  <2> QED
    BY <1>1, <2>1, <2>2, <2>3, <2>4, ShownKept DEF ShownFits, Shown, Ahead
<1>5. CASE Retire
  <2>1. marker.saved /\ job[marker.on].status = "ready" /\ routes' = routes
    BY <1>5 DEF Retire, HandFits, InHand, Places, Building
  <2>2. marker'.saved = FALSE /\ worker'.at = "idle"
    BY <1>5 DEF Retire, NoMarker, Idle
  <2> QED
    BY <1>1, <2>1, <2>2, ShownKept DEF ShownFits, Shown, Ahead
<1> QED
  BY <1>2, <1>3, <1>4, <1>5

\* The worker takes back what did not become ready.
LEMMA TakenBackShown ==
  ASSUME ShownFits, RecordedKept, NEW i, TakenBack(i), job[marker.on].status # "ready"
  PROVE  Shown(routes)'
<1>1. Shown(routes')
  BY DEF TakenBack, ShownFits
<1> QED
  BY <1>1, ShownKept DEF Shown

LEMMA BackShown ==
  ASSUME Held1, ShownFits, Undo \/ Settle \/ Tell \/ Reconcile
  PROVE  ShownFits'
<1> USE DEF Held1, At, Goto, Rest, host, records
<1>1. RecordedKept
  BY DEF Undo, Settle, Tell, Reconcile, RecordedKept
<1>2. CASE Undo
  <2>1. job[marker.on].status = "running" /\ UNCHANGED <<job, marker>>
    BY <1>2 DEF Undo, HandFits, LeaseIsHeld, InHand, Held, Places, Building, On
  <2>2. Shown(routes)'
    BY <1>1, <1>2, <2>1, TakenBackShown DEF Undo
  <2>3. worker'.at = "settle"
    BY <1>2 DEF Undo, TypeOK
  <2> QED
    BY <1>1, <2>1, <2>2, <2>3, ShownKept DEF ShownFits, Shown, Ahead
<1>3. CASE Settle
  <2>1. worker.on = marker.on /\ UNCHANGED job
    BY <1>3 DEF Settle, HandFits, InHand, Places, Building
  <2>2. CASE job[On].status = "ready" /\ marker' = NoMarker /\ Rest /\ UNCHANGED <<routes, up, mishaps>>
    <3>1. Shown(routes)
      BY <2>1, <2>2 DEF ShownFits, On
    <3>2. marker'.saved = FALSE /\ worker'.at = "idle"
      BY <2>2 DEF NoMarker, Idle
    <3> QED
      BY <1>1, <2>2, <3>1, <3>2, ShownKept DEF ShownFits, Shown, Ahead
  <2>3. CASE job[On].status # "ready" /\ TakenBack(On) /\ Goto("tell") /\ UNCHANGED <<marker, mishaps>>
    <3>1. Shown(routes)'
      BY <1>1, <2>1, <2>3, TakenBackShown DEF On
    <3>2. worker'.at = "tell" /\ marker' = marker /\ job[marker.on].status # "ready"
      BY <2>1, <2>3 DEF TypeOK, On
    <3> QED
      BY <1>1, <2>1, <3>1, <3>2, ShownKept DEF ShownFits, Shown, Ahead
  <2>4. CASE Mishap /\ Rest /\ UNCHANGED host
    <3>1. worker'.at = "idle" /\ marker' = marker /\ routes' = routes
      BY <2>4 DEF Idle
    <3> QED
      BY <1>1, <2>1, <3>1, ShownKept DEF ShownFits, Shown, Ahead
  <2> QED
    BY <1>3, <2>2, <2>3, <2>4 DEF Settle
<1>4. CASE Tell
  <2>1. Shown(routes) /\ routes' = routes /\ worker'.at = "idle" /\ worker.on = marker.on
        /\ job[worker.on].status = "running"
    BY <1>4 DEF Tell, ShownFits, Idle, HandFits, LeaseIsHeld, InHand, Held, Places, Building, On
  <2>2. job'[worker.on].status # "ready"
    BY <1>4, TellKeeps DEF On
  <2>3. marker'.saved = FALSE \/ marker' = marker
    BY <1>4 DEF Tell, NoMarker
  <2> QED
    BY <1>1, <2>1, <2>2, <2>3, ShownKept DEF ShownFits, Shown, Ahead
<1>5. CASE Reconcile
  <2>1. worker' = worker /\ worker.at = "idle"
    BY <1>5 DEF Reconcile
  <2>2. CASE job[marker.on].status = "ready" /\ marker' = NoMarker /\ routes' = routes
    <3>1. marker'.saved = FALSE
      BY <2>2 DEF NoMarker
    <3> QED
      BY <1>1, <2>1, <2>2, <3>1, ShownKept DEF ShownFits, Shown, Ahead
  <2>3. CASE job[marker.on].status # "ready" /\ TakenBack(marker.on)
             /\ (marker' = NoMarker \/ UNCHANGED marker)
    <3>1. Shown(routes)'
      BY <1>1, <2>3, TakenBackShown
    <3>2. job'[marker.on].status # "ready"
      BY <1>5, <2>3, ReconcileKeeps
    <3>3. marker'.saved = FALSE \/ marker' = marker
      BY <2>3 DEF NoMarker
    <3> QED
      BY <1>1, <2>1, <2>3, <3>1, <3>2, <3>3, ShownKept DEF ShownFits, Shown, Ahead
  <2> QED
    BY <1>5, <2>2, <2>3 DEF Reconcile
<1> QED
  BY <1>2, <1>3, <1>4, <1>5

\* What the report of a success records of the applications.
LEMMA PublishesSite ==
  ASSUME TypeOK, NEW i \in Job, Publishes(i)
  PROVE  /\ job[i].app \in App
         /\ \A a \in App \ {job[i].app} : site'[a] = site[a]
         /\ site'[job[i].app].desired = site[job[i].app].desired
         /\ site'[job[i].app].active = IF job[i].action = "stop" THEN site[job[i].app].active ELSE i
         /\ site'[job[i].app].stopped <=> job[i].action = "stop"
<1> DEFINE a == job[i].app
           act == IF job[i].action = "stop" THEN site[a].active ELSE i
           stp == job[i].action = "stop"
           s == [site[a] EXCEPT !.active = act, !.stopped = stp]
<1>1. a \in App /\ site[a] \in SiteType
  BY DEF TypeOK, JobType
<1>2. stp \in BOOLEAN
  OBVIOUS
<1>3. site' = [site EXCEPT ![a] = s]
  BY DEF Publishes
<1> HIDE DEF act, stp
<1>4. s.active = act /\ s.stopped = stp /\ s.desired = site[a].desired
  BY <1>1, <1>2 DEF SiteType
<1> HIDE DEF s, a
<1>5. /\ \A b \in App \ {a} : site'[b] = site[b]
      /\ site'[a].active = act /\ site'[a].stopped = stp /\ site'[a].desired = site[a].desired
  BY <1>1, <1>3, <1>4 DEF TypeOK
<1> QED
  BY <1>1, <1>5 DEF a, act, stp

\* The report of a success makes the routes those of the record.
LEMMA ReportShown ==
  ASSUME Held1, ShownFits, Report
  PROVE  ShownFits'
<1> USE DEF Held1
<1>1. /\ worker.at \in {"report", "confirm"} /\ worker.on \in Job /\ marker.on = worker.on
      /\ marker.saved /\ routes = AheadRoutes
  BY DEF Report, HandFits, InHand, Places, Building, ShownFits, Ahead
<1>2. UNCHANGED <<deletion, marker, routes>>
  BY DEF Report, host
<1>3. CASE UNCHANGED <<job, site>> /\ worker' = [worker EXCEPT !.at = "confirm"]
  <2>1. worker'.at = "confirm" /\ worker'.on = worker.on
    BY <1>3 DEF TypeOK
  <2>2. RecordedKept
    BY <1>2, <1>3 DEF RecordedKept
  <2>3. AheadRoutes' = AheadRoutes
    BY <1>2, <1>3, <2>1 DEF AheadRoutes, Its, On
  <2> QED
    BY <1>1, <1>2, <1>3, <2>1, <2>2, <2>3, ShownKept DEF ShownFits, Shown, Ahead
<1>4. ASSUME job[On].status = "running", job'[On].status = "ready", Publishes(On), JobsKept,
             NEW place \in {"retire", "confirm"}, worker' = [worker EXCEPT !.at = place]
      PROVE  ShownFits'
  <2>1. worker'.at = place /\ worker'.on = worker.on
    BY <1>4 DEF TypeOK
  <2>2. Shown(marker.previous) /\ Its \in App
    BY <1>1, <1>4 DEF ShownFits, On, Its, TypeOK, JobType
  <2>3. AheadRoutes' = AheadRoutes
    BY <1>1, <1>2, <1>4, <2>1 DEF AheadRoutes, Its, On, JobsKept
  <2>4. ASSUME NEW a \in App, deletion'[a] = "no"
        PROVE  routes'[a] = Recorded(a)'
    <3>1. CASE a # Its
      <4>1. site'[a] = site[a]
        BY <1>1, <1>4, <3>1, PublishesSite DEF Its, On
      <4> QED
        BY <1>1, <1>2, <2>2, <2>4, <3>1, <4>1
        DEF AheadRoutes, Shown, Recorded, TypeOK, MarkerType, Its
    <3>2. CASE a = Its /\ job[On].action = "stop"
      <4>1. site'[a].stopped = TRUE
        BY <1>1, <1>4, <3>2, PublishesSite DEF Its, On
      <4>2. routes'[a] = None
        BY <1>1, <1>2, <2>2, <3>2 DEF AheadRoutes, TypeOK, MarkerType
      <4> QED
        BY <4>1, <4>2 DEF Recorded
    <3>3. CASE a = Its /\ job[On].action # "stop"
      <4>1. site'[a].stopped = FALSE /\ site'[a].active = On
        BY <1>1, <1>4, <3>3, PublishesSite DEF Its, On
      <4>2. routes'[a] = On
        BY <1>1, <1>2, <2>2, <3>3 DEF AheadRoutes, TypeOK, MarkerType
      <4> QED
        BY <4>1, <4>2 DEF Recorded
    <3> QED
      BY <3>1, <3>2, <3>3
  <2> QED
    BY <1>1, <1>2, <1>4, <2>1, <2>3, <2>4 DEF ShownFits, Shown, Ahead, On
<1> QED
  BY <1>3, <1>4, ReportKeeps

\* A deletion takes away the routes and the record of one application.
LEMMA EraseShown ==
  ASSUME Held1, ShownFits, Erase \/ ReportErased
  PROVE  ShownFits'
<1> USE DEF Held1, At, Goto, Rest, host, records
<1>1. /\ deletion[worker.erasing] # "no" /\ marker.on = None /\ ~marker.saved
      /\ marker' = marker /\ worker.erasing \in App
  BY DEF Erase, ReportErased, HandFits, TypeOK
<1>2. worker'.at \in {"raze", "idle"}
  BY DEF Erase, ReportErased, TypeOK, Idle
<1>3. Shown(routes)
  BY <1>1 DEF ShownFits
<1>4. CASE Erase
  BY <1>1, <1>2, <1>3, <1>4 DEF Erase, ShownFits, Shown, Recorded, TypeOK, Ahead
<1>5. CASE ReportErased
  <2>1. ASSUME NEW a \in App, deletion'[a] = "no"
        PROVE  a # worker.erasing /\ deletion[a] = "no" /\ site'[a] = site[a]
    BY <1>5, <2>1 DEF ReportErased, Erased, TypeOK
  <2>2. routes' = routes
    BY <1>5 DEF ReportErased
  <2> QED
    BY <1>1, <1>2, <1>3, <2>1, <2>2 DEF ShownFits, Shown, Recorded, Ahead
<1> QED
  BY <1>4, <1>5

LEMMA ShownStep == Held1 /\ ShownFits /\ [Next]_vars => ShownFits'
BY CalmShown, PublishShown, BackShown, ReportShown, EraseShown DEF Next, Progress, Calm

LEMMA InitShown == Init => ShownFits
BY DEF Init, ShownFits, Shown, Recorded, Idle, NoMarker, Nowhere, NewSite, Ahead

\* Whatever was lost, cancelled or crashed: once the worker has no deployment to
\* finish or to take back, visitors are shown what is recorded as published.
THEOREM RecordedShown == Spec => []ShownIsRecorded
<1>1. Held1 /\ ShownFits => ShownIsRecorded
  BY DEF Held1, HandFits, ShownFits, Shown, ShownIsRecorded, AtRest
<1>2. Held1 /\ ShownFits /\ [Next]_vars => Held1' /\ ShownFits'
  BY HeldStep, ShownStep
<1> QED
  BY <1>1, <1>2, InitHeld, InitShown, PTL DEF Spec

(***************************************************************************)
(* The publication implements WebSite.                                     *)
(***************************************************************************)

\* What visitors are shown and what is recorded, of the applications that remain.
shownNow    == [a \in App |-> IF deletion[a] = "no" THEN routes[a] ELSE None]
recordedNow == [a \in App |-> IF deletion[a] = "no" THEN Recorded(a) ELSE None]

LEMMA ShownIsRecordedNow == Shown(routes) => shownNow = recordedNow
BY DEF Shown, shownNow, recordedNow

LEMMA SitesInit == Init => Sites!Init
BY DEF Init, Sites!Init, Recorded, NewSite, Nowhere

\* A step that keeps the routes and what is published shows nothing, or withdraws
\* the application whose deletion it asks for.
LEMMA SitesCalm ==
  ASSUME Held1, Calm
  PROVE  [Sites!Next]_(Sites!vars)
<1>1. CASE ~(\E a \in App : RequestDeletion(a))
  <2>1. \A a \in App : /\ site'[a].active = site[a].active /\ site'[a].stopped = site[a].stopped
                       /\ deletion'[a] = "no" <=> deletion[a] = "no"
    <3>1. CASE User
      <4>1. UNCHANGED deletion
        BY <1>1, <3>1 DEF User, Deploy, Push, Republish, Stop, Cancel
      <4> QED
        BY <3>1, <4>1, UserEffect DEF Held1
    <3>2. CASE Claim
      BY <3>2, ClaimEffect DEF Held1
    <3>3. CASE EraseFails \/ \E a \in App : ClaimDeletion(a)
      <4>1. EraseFails => deletion[worker.erasing] # "no" /\ UNCHANGED site
        BY DEF EraseFails, Held1, HandFits
      <4>2. ASSUME NEW a \in App, ClaimDeletion(a)
            PROVE  deletion[a] # "no" /\ UNCHANGED site
                   /\ deletion' = [deletion EXCEPT ![a] = "running"]
        BY <4>2 DEF ClaimDeletion
      <4> QED
        BY <3>3, <4>1, <4>2 DEF EraseFails, Held1, TypeOK
    <3>4. CASE ~User /\ ~Claim /\ ~EraseFails /\ ~(\E a \in App : ClaimDeletion(a))
      BY <3>4 DEF Calm, Beat, Gate, BuildFails, Build, Pause, Start, Crash, Verify, Halt, Confirm,
                  Raze, records
    <3> QED
      BY <3>1, <3>2, <3>3, <3>4
  <2>2. routes' = routes
    BY CalmEffect
  <2>3. \A a \in App : Recorded(a)' = Recorded(a)
    BY <2>1 DEF Recorded
  <2>4. shownNow' = shownNow /\ recordedNow' = recordedNow
    BY <2>1, <2>2, <2>3 DEF shownNow, recordedNow
  <2> QED
    BY <2>4 DEF Sites!vars, shownNow, recordedNow
<1>2. ASSUME NEW a \in App, RequestDeletion(a)
      PROVE  [Sites!Next]_(Sites!vars)
  <2>1. deletion' = [deletion EXCEPT ![a] = "queued"] /\ UNCHANGED <<site, routes>>
    BY <1>2 DEF RequestDeletion, host
  <2>2. shownNow' = [shownNow EXCEPT ![a] = None] /\ recordedNow' = [recordedNow EXCEPT ![a] = None]
    BY <2>1 DEF shownNow, recordedNow, Recorded, Held1, TypeOK
  <2>3. Sites!Withdraw(a)
    BY <2>2 DEF Sites!Withdraw, shownNow, recordedNow
  <2> QED
    BY <2>3 DEF Sites!Next
<1> QED
  BY <1>1, <1>2

\* When the worker takes the routes back, they are those of the record again.
LEMMA SitesTakenBack ==
  ASSUME Held1, ShownFits, NEW i, TakenBack(i), job[marker.on].status # "ready",
         UNCHANGED <<site, deletion>>
  PROVE  [Sites!Next]_(Sites!vars)
<1>1. Shown(routes')
  BY DEF TakenBack, ShownFits
<1>2. shownNow' = recordedNow /\ recordedNow' = recordedNow
  BY <1>1 DEF shownNow, recordedNow, Shown, Recorded
<1>3. Sites!TakeBack
  BY <1>2 DEF Sites!TakeBack, shownNow, recordedNow
<1> QED
  BY <1>3 DEF Sites!Next

LEMMA SitesRoute ==
  ASSUME Held1, ShownFits, Route
  PROVE  [Sites!Next]_(Sites!vars)
<1>1. /\ marker.saved /\ job[marker.on].status = "running" /\ routes = marker.previous
      /\ worker.on \in Job
  BY DEF Held1, Route, At, HandFits, LeaseIsHeld, InHand, Held, Places, Building, On, ShownFits
<1>2. Its \in App
  BY <1>1 DEF Held1, TypeOK, JobType, Its, On
<1>3. shownNow = recordedNow
  BY <1>1, ShownIsRecordedNow DEF ShownFits
<1>4. recordedNow' = recordedNow
  BY DEF Route, records, recordedNow, Recorded
<1>5. PICK v \in Job \cup {None} : routes' = [routes EXCEPT ![Its] = v] /\ UNCHANGED deletion
  BY <1>1 DEF Route, records, On
<1>6. CASE deletion[Its] = "no"
  <2>1. shownNow' = [shownNow EXCEPT ![Its] = v]
    BY <1>2, <1>5, <1>6 DEF shownNow, Held1, TypeOK
  <2>2. Sites!Show(Its, v)
    BY <1>3, <1>4, <2>1 DEF Sites!Show, shownNow, recordedNow
  <2> QED
    BY <1>2, <1>5, <2>2 DEF Sites!Next
<1>7. CASE deletion[Its] # "no"
  <2>1. shownNow' = shownNow
    BY <1>2, <1>5, <1>7 DEF shownNow, Held1, TypeOK
  <2> QED
    BY <1>4, <2>1 DEF Sites!vars, shownNow, recordedNow
<1> QED
  BY <1>6, <1>7

LEMMA SitesReport ==
  ASSUME Held1, ShownFits, Report
  PROVE  [Sites!Next]_(Sites!vars)
<1>1. UNCHANGED <<deletion, routes>>
  BY DEF Report, host
<1>2. shownNow' = shownNow
  BY <1>1 DEF shownNow
<1>3. CASE UNCHANGED <<job, site>>
  BY <1>1, <1>2, <1>3 DEF Sites!vars, shownNow, recordedNow, Recorded
<1>4. CASE job'[On].status = "ready"
  <2>1. ShownFits' /\ UNCHANGED marker /\ marker.saved /\ marker.on = On
    BY ReportShown DEF Report, host, Held1, HandFits, InHand, Places, Building, On
  <2>2. Shown(routes)'
    BY <1>4, <2>1 DEF ShownFits
  <2>3. recordedNow' = shownNow
    BY <1>1, <2>2 DEF Shown, shownNow, recordedNow
  <2>4. Sites!Record
    BY <1>2, <2>3 DEF Sites!Record, shownNow, recordedNow
  <2> QED
    BY <2>4 DEF Sites!Next
<1> QED
  BY <1>3, <1>4, ReportKeeps

LEMMA SitesStep ==
  ASSUME Held1, ShownFits, [Next]_vars
  PROVE  [Sites!Next]_(Sites!vars)
<1> DEFINE Same == /\ UNCHANGED deletion
                   /\ \A a \in App : /\ deletion[a] = "no" => routes'[a] = routes[a]
                                     /\ Recorded(a)' = Recorded(a)
<1>1. ASSUME Same
      PROVE  [Sites!Next]_(Sites!vars)
  BY <1>1 DEF Sites!vars
<1>2. CASE UNCHANGED vars
  BY <1>1, <1>2 DEF vars, records, host, Recorded
<1>3. CASE Mark \/ Save \/ Retire \/ Tell
  BY <1>1, <1>3 DEF Mark, Save, Retire, Tell, records, Recorded
<1>4. CASE Erase
  BY <1>1, <1>4 DEF Erase, At, Held1, HandFits, TypeOK, records, Recorded
<1>5. CASE Undo
  <2>1. job[marker.on].status = "running"
    BY <1>5 DEF Held1, Undo, At, HandFits, LeaseIsHeld, InHand, Held, Places, Building, On
  <2> QED
    BY <1>5, <2>1, SitesTakenBack DEF Undo, records
<1>6. CASE Settle
  <2>1. worker.on = marker.on
    BY <1>6 DEF Held1, Settle, At, HandFits, InHand, Places, Building
  <2>2. CASE UNCHANGED routes
    BY <1>1, <1>6, <2>2 DEF Settle, records, Recorded
  <2>3. CASE job[On].status # "ready" /\ TakenBack(On)
    BY <1>6, <2>1, <2>3, SitesTakenBack DEF Settle, records, On
  <2> QED
    BY <1>6, <2>2, <2>3 DEF Settle, host
<1>7. CASE Reconcile
  <2>1. CASE UNCHANGED routes
    BY <1>1, <1>7, <2>1 DEF Reconcile, Recorded
  <2>2. CASE job[marker.on].status # "ready" /\ TakenBack(marker.on)
    BY <1>7, <2>2, SitesTakenBack DEF Reconcile
  <2> QED
    BY <1>7, <2>1, <2>2 DEF Reconcile
<1>8. CASE ReportErased
  <2>1. \A a \in App : /\ deletion'[a] = "no" <=> deletion[a] = "no"
                       /\ deletion[a] = "no" => site'[a] = site[a]
    BY <1>8 DEF ReportErased, Erased, At, Held1, HandFits, TypeOK
  <2>2. routes' = routes
    BY <1>8 DEF ReportErased, host
  <2>3. shownNow' = shownNow /\ recordedNow' = recordedNow
    BY <2>1, <2>2 DEF shownNow, recordedNow, Recorded
  <2> QED
    BY <2>3 DEF Sites!vars, shownNow, recordedNow
<1> QED
  BY <1>2, <1>3, <1>4, <1>5, <1>6, <1>7, <1>8, SitesCalm, SitesRoute, SitesReport
  DEF Next, Progress, Calm

\* The publication implements WebSite: what visitors are shown changes for one
\* application at a time, and then is recorded, or taken back to what is recorded.
THEOREM SiteRefined == Spec => IsWebSite
<1>1. Init => Sites!Init
  BY SitesInit
<1>2. Held1 /\ ShownFits /\ [Next]_vars => Held1' /\ ShownFits' /\ [Sites!Next]_(Sites!vars)
  BY HeldStep, ShownStep, SitesStep
<1> QED
  BY <1>1, <1>2, InitHeld, InitShown, PTL DEF Spec, IsWebSite, Sites!Spec

=============================================================================

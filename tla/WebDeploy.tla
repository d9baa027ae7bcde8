------------------------------ MODULE WebDeploy ------------------------------
(***************************************************************************)
(* The builds of web applications: the deployments the mothership queues   *)
(* and arbitrates (webApps/api.ts, deletion.ts), and the one worker of the *)
(* host that claims them, builds, publishes through routes.json and        *)
(* reports (scripts/web-app-worker.py, web_app_deletion.py).               *)
(*                                                                         *)
(* A handler of the mothership runs in one transaction and is one step.    *)
(* The worker is a program counter; its recovery marker current-job.json   *)
(* outlives it.  A call of the worker may fail before or after it has been *)
(* applied.  A deployment names its containers, so one number stands for   *)
(* the record, the version and its containers.                             *)
(***************************************************************************)
EXTENDS Naturals, FiniteSets

CONSTANTS
  App,         \* web applications, each in a project of its own
  Removable,   \* those that may be deleted in a behaviour
  Commit,      \* revisions of their source
  NoCommit,    \* none yet
  MaxJobs,     \* bound on deployments queued in a behaviour
  Quota,       \* bound on those of each application
  QueueMax,    \* queuedBuilds: deployments of one project that may wait
  MaxMishaps   \* bound on lost calls, failing commands and worker crashes

ASSUME BoundAssumption  == {MaxJobs, QueueMax, MaxMishaps} \subseteq Nat
ASSUME QuotaAssumption  == Quota \in [App -> Nat]
ASSUME AppAssumption    == App # {}
ASSUME CommitAssumption == NoCommit \notin Commit

Job  == 1..MaxJobs
None == 0

VARIABLES
  job,       \* web_deployments, in the order of their creation
  site,      \* web_apps: [desired, active, stopped, served (turn of its last claim)]
  deletion,  \* web_deletion_jobs: the state of each application's deletion
  worker,    \* the worker process: [at, on (its deployment), erasing, outcome]
  marker,    \* current-job.json: [on, saved, previous (routes), recreate]
  routes,    \* routes.json: the deployment each application's visitors reach
  up,        \* deployments whose containers run
  mishaps    \* how many of the things that MaxMishaps bounds happened

records == <<job, site, deletion>>
host    == <<marker, routes, up>>
vars    == <<records, worker, host, mishaps>>

Live     == {"queued", "running"}
Ended    == {"ready", "failed", "cancelled"}
Building == {"build", "pause", "start", "health"}
Places   == Building \cup {"idle", "mark", "save", "route", "verify", "report",
                           "confirm", "retire", "halt", "undo", "settle", "tell",
                           "erase", "raze", "erased"}

JobType    == [app : App, action : {"deploy", "republish", "stop"},
               commit : Commit \cup {NoCommit},
               status : Live \cup Ended \cup {"none", "erased"},
               cancel : BOOLEAN, gate : BOOLEAN]
SiteType   == [desired : Commit \cup {NoCommit}, active : Job \cup {None},
               stopped : BOOLEAN, served : Nat]
MarkerType == [on : Job \cup {None}, saved : BOOLEAN,
               previous : [App -> Job \cup {None}], recreate : SUBSET Job]

\* The records of the mothership, the worker, and what it keeps on the host.
TypeOK ==
  /\ job \in [Job -> JobType]
  /\ site \in [App -> SiteType]
  /\ deletion \in [App -> {"no", "queued", "running", "failed", "done"}]
  /\ worker \in [at : Places, on : Job \cup {None}, erasing : App,
                 outcome : {"failed", "cancelled"}]
  /\ marker \in MarkerType
  /\ routes \in [App -> Job \cup {None}]
  /\ up \in SUBSET Job
  /\ mishaps \in 0..MaxMishaps

Nowhere  == [a \in App |-> None]
NoMarker == [on |-> None, saved |-> FALSE, previous |-> Nowhere, recreate |-> {}]
Idle     == [at |-> "idle", on |-> None, erasing |-> CHOOSE a \in App : TRUE,
             outcome |-> "failed"]
NewSite  == [desired |-> NoCommit, active |-> None, stopped |-> FALSE, served |-> 0]

Init ==
  /\ job = [i \in Job |-> [app |-> CHOOSE a \in App : TRUE, action |-> "deploy",
                           commit |-> NoCommit, status |-> "none",
                           cancel |-> FALSE, gate |-> FALSE]]
  /\ site = [a \in App |-> NewSite]
  /\ deletion = [a \in App |-> "no"]
  /\ worker = Idle
  /\ marker = NoMarker
  /\ routes = Nowhere
  /\ up = {}
  /\ mishaps = 0

\* What is published of an application according to the mothership.
Recorded(a) == IF site[a].stopped THEN None ELSE site[a].active

Is(i, a, s) == job[i].app = a /\ job[i].status \in s
Of(a)       == {i \in Job : job[i].app = a /\ job[i].status # "none"}
Queued      == {i \in Job : job[i].status = "queued"}
Deploys(a)  == {i \in Job : Is(i, a, {"queued"}) /\ job[i].action = "deploy"}

\* A call that was not answered, a command that failed, a crash.
Mishap == mishaps < MaxMishaps /\ mishaps' = mishaps + 1

-----------------------------------------------------------------------------
(* What users ask of the mothership. *)

\* A deployment that something newer replaces, if q.
CancelOne(j, q) == IF q THEN [j EXCEPT !.status = "cancelled"] ELSE j

\* enqueueWebDeployment: a deploy replaces those of the application that wait.
Enqueue(a, action, commit) ==
  LET replaced == IF action = "deploy" THEN Deploys(a) ELSE {}
      waiting  == {i \in Queued : job[i].app = a} \ replaced
  IN /\ Cardinality(Of(a)) < Quota[a]
     /\ deletion[a] = "no"
     /\ Cardinality(waiting) < QueueMax
     /\ \E n \in Job :
          /\ job[n].status = "none"
          /\ \A i \in Job : i < n => job[i].status # "none"
          /\ job' = [i \in Job |->
               IF i = n THEN [app |-> a, action |-> action, commit |-> commit,
                              status |-> "queued", cancel |-> FALSE, gate |-> FALSE]
               ELSE CancelOne(job[i], i \in replaced)]

\* HandleWebAppAction 'deploy' with the branch's head, and HandleWebDeploymentRetry
\* with the revision of an earlier deployment.
Deploy(a, c) ==
  /\ Enqueue(a, "deploy", c)
  /\ site' = [site EXCEPT ![a].desired = c]
  /\ UNCHANGED <<deletion, worker, host, mishaps>>

\* HandleWebAppAction 'start' or 'rollback': publish an image again.
Republish(a, i) ==
  /\ job[i].status = "ready" /\ job[i].app = a
  /\ job[i].action # "stop"
  /\ Enqueue(a, "republish", job[i].commit)
  /\ UNCHANGED <<site, deletion, worker, host, mishaps>>

Stop(a) ==
  /\ Enqueue(a, "stop", site[a].desired)
  /\ UNCHANGED <<site, deletion, worker, host, mishaps>>

\* Mutant of Answers: any deployment under way answers for a push.
AnswersAny(a, c) == \E i \in Job : Is(i, a, Live)

\* Is revision c of the application published or under way?
Answers(a, c) == \/ \E i \in Job : Is(i, a, Live) /\ job[i].commit = c
                 \/ site[a].active # None /\ job[site[a].active].commit = c

\* queueWebGitPush: the branch moved to c.
Push(a, c) ==
  /\ deletion[a] = "no"
  /\ site' = [site EXCEPT ![a].desired = c]
  /\ \/ /\ Answers(a, c)
        /\ job' = [i \in Job |->
                     CancelOne(job[i], Is(i, a, {"queued"}) /\ job[i].commit # c)]
     \/ /\ ~Answers(a, c)
        /\ Enqueue(a, "deploy", c)
  /\ UNCHANGED <<deletion, worker, host, mishaps>>

\* Mutant of Cancellable: cancelling does not look at the publication gate.
CancellableLate(i) == job[i].action = "deploy" /\ job[i].status \in Live

Cancellable(i) == /\ job[i].action = "deploy" /\ job[i].status \in Live
                  /\ ~job[i].gate

\* HandleWebDeploymentCancel.
Cancel(i) ==
  /\ Cancellable(i)
  /\ job' = [job EXCEPT ![i] = [job[i] EXCEPT !.cancel = TRUE,
                                              !.status = IF @ = "queued" THEN "cancelled" ELSE @]]
  /\ UNCHANGED <<site, deletion, worker, host, mishaps>>

\* requestDeletion: nothing of the application may wait or run.
RequestDeletion(a) ==
  /\ a \in Removable
  /\ deletion[a] \in {"no", "failed"}
  /\ \A i \in Job : ~Is(i, a, Live)
  /\ deletion' = [deletion EXCEPT ![a] = "queued"]
  /\ UNCHANGED <<job, site, worker, host, mishaps>>

-----------------------------------------------------------------------------
(* Claims. *)

At(place) == worker.at = place

\* The main loop gets to a claim only when reconcile() left no marker.
Ready == At("idle") /\ marker.on = None

\* nextWebQueuedJob: i is the oldest deployment of the application served longest ago.
NextQueued(i) ==
  LET heads == {k \in Queued : \A l \in Queued : job[l].app = job[k].app => k <= l}
      turn(k) == site[job[k].app].served
  IN /\ i \in heads
     /\ \A k \in heads : turn(i) < turn(k) \/ (turn(i) = turn(k) /\ i <= k)

\* Mutant of Reaped: no lease ever runs out.
ReapedNever(j) == j

\* A deployment whose worker was silent for five minutes.  Its mothership cannot
\* know whether the worker is at work: any time may be five minutes later.
Reaped(j) == IF j.status = "running"
             THEN [j EXCEPT !.status = IF j.cancel THEN "cancelled" ELSE "failed"] ELSE j

\* A number that grows from claim to claim: the time of the claim.
Turn == 1 + Cardinality({i \in Job : job[i].status \notin {"none", "queued"}})

\* HandleWebWorkerClaim, the lease running out first when another one is running;
\* the job may be refused for want of credentials, and the answer may be lost.
Claim ==
  /\ Ready
  /\ LET jobs == [i \in Job |-> Reaped(job[i])] IN
       IF Queued = {} THEN job' = jobs /\ jobs # job /\ UNCHANGED <<site, worker, mishaps>>
       ELSE \E i \in Queued :
         /\ NextQueued(i)
         /\ \/ /\ job' = [jobs EXCEPT ![i].status = "running"]
               /\ site' = [site EXCEPT ![job[i].app].served = Turn]
               /\ \/ worker' = [Idle EXCEPT !.at = "mark", !.on = i] /\ UNCHANGED mishaps
                  \/ Mishap /\ UNCHANGED worker
            \/ /\ job[i].action = "deploy"
               /\ job' = [jobs EXCEPT ![i].status = "failed"]
               /\ UNCHANGED <<site, worker, mishaps>>
  /\ UNCHANGED <<deletion, host>>

-----------------------------------------------------------------------------
(* What a report does to the record of the deployment i that it names. *)

\* A newer deploy that waits makes this one obsolete, until its publication.
Superseded(i) == Cancellable(i) /\ ~job[i].cancel /\ Deploys(job[i].app) # {}

\* Is i cancelled when its report has been received?
Obsolete(i) == job[i].cancel \/ Superseded(i)

\* A report without a final status: a heartbeat.
Beaten(i) == [job EXCEPT ![i].cancel = Obsolete(i)]

\* The report of stage 'publish': the gate opens unless cancelled before.
Admitted(i) ==
  [job EXCEPT ![i] = [@ EXCEPT !.cancel = Obsolete(i),
                               !.gate = (job[i].action = "deploy" /\ ~Obsolete(i))]]

\* The report of an end that is not ready.
Finished(i, outcome) ==
  [job EXCEPT ![i].status = IF job[i].cancel /\ job[i].action = "deploy"
                            THEN "cancelled" ELSE outcome]

\* The report of a success, refused once the deployment is cancelled.
Acceptable(i) == /\ job[i].status = "running"
                 /\ ~(job[i].action = "deploy" /\ job[i].cancel)

\* Mutant of Publishes: a stopped site stays marked as stopped.
PublishesStopped(i) ==
  /\ job' = [job EXCEPT ![i].status = "ready"]
  /\ site' = [site EXCEPT ![job[i].app] =
                [site[job[i].app] EXCEPT !.active = IF job[i].action = "stop" THEN @ ELSE i,
                                         !.stopped = @ \/ job[i].action = "stop"]]

\* Mutant of Publishes: the active deployment is noted by its revision.
PublishesRevision(i) ==
  /\ job' = [job EXCEPT ![i].status = "ready"]
  /\ site' = [site EXCEPT ![job[i].app] =
                [@ EXCEPT !.active = job[i].commit,
                          !.stopped = job[i].action = "stop"]]

Publishes(i) ==
  /\ job' = [job EXCEPT ![i].status = "ready"]
  /\ site' = [site EXCEPT ![job[i].app] =
                [site[job[i].app] EXCEPT !.active = IF job[i].action = "stop" THEN @ ELSE i,
                                         !.stopped = job[i].action = "stop"]]

-----------------------------------------------------------------------------
(* The worker: from the claim to the publication gate. *)

\* The deployment in hand and its application.
On  == worker.on
Its == job[On].app

Goto(place)   == worker' = [worker EXCEPT !.at = place]
Fails(reason) == worker' = [worker EXCEPT !.at = "undo", !.outcome = reason]
Rest          == worker' = Idle

\* current-job.json is written as soon as the claim is answered.
Mark ==
  /\ At("mark")
  /\ marker' = [NoMarker EXCEPT !.on = On]
  /\ Goto(IF job[On].action = "stop" THEN "save" ELSE "build")
  /\ UNCHANGED <<records, routes, up, mishaps>>

\* A heartbeat; its answer may say that the deployment is cancelled.
Beat ==
  /\ worker.at \in Building
  /\ job[On].status = "running"
  /\ job' = Beaten(On)
  /\ IF job[On].action = "deploy" /\ job'[On].cancel
     THEN Fails("cancelled")
     ELSE UNCHANGED worker
  /\ UNCHANGED <<site, deletion, host, mishaps>>

\* The build, the start or the health check fails, or a report gets no answer.
BuildFails ==
  /\ worker.at \in Building \cup {"save"}
  /\ Fails("failed")
  /\ UNCHANGED <<records, host, mishaps>>

\* quiesce_storage, if the deployment mounts writable storage: note which
\* containers run, to resume them, then stop them.
Build ==
  /\ At("build")
  /\ \/ marker' = [marker EXCEPT !.recreate = up \cap Of(Its)] /\ Goto("pause")
     \/ UNCHANGED marker /\ Goto("start")
  /\ UNCHANGED <<records, routes, up, mishaps>>

Pause ==
  /\ At("pause")
  /\ up' = up \ marker.recreate
  /\ Goto("start")
  /\ UNCHANGED <<records, marker, routes, mishaps>>

Start ==
  /\ At("start")
  /\ up' = up \cup {On}
  /\ Goto("health")
  /\ UNCHANGED <<records, marker, routes, mishaps>>

Wanted(i) == job[i].action # "deploy" \/ site[job[i].app].desired = job[i].commit

\* The candidate is healthy: ask to publish.
Gate ==
  /\ At("health")
  /\ job[On].status = "running"
  /\ job' = Admitted(On)
  /\ \/ /\ IF (job[On].action = "deploy" /\ job'[On].cancel) \/ ~Wanted(On)
           THEN Fails("cancelled")
           ELSE Goto("save")
        /\ UNCHANGED mishaps
     \/ Mishap /\ Fails("failed")
  /\ UNCHANGED <<site, deletion, host>>

-----------------------------------------------------------------------------
(* The worker: publication. *)

\* Mutant of Save: the marker does not keep the routes.
SaveNothing ==
  /\ At("save")
  /\ marker' = [marker EXCEPT !.saved = TRUE]
  /\ Goto("route")
  /\ UNCHANGED <<records, routes, up, mishaps>>

\* checkpoint(): the marker keeps the routes to return to.
Save ==
  /\ At("save")
  /\ marker' = [marker EXCEPT !.saved = TRUE, !.previous = routes]
  /\ Goto("route")
  /\ UNCHANGED <<records, routes, up, mishaps>>

Route ==
  /\ At("route")
  /\ IF job[On].action = "stop"
     THEN routes' = [routes EXCEPT ![Its] = None] /\ Goto("halt")
     ELSE routes' = [routes EXCEPT ![Its] = On] /\ Goto("verify")
  /\ UNCHANGED <<records, marker, up, mishaps>>

\* The report 'Publication vérifiée': is the revision still the desired one?
Verify ==
  /\ At("verify")
  /\ \/ job[On].status = "running" /\ Wanted(On) /\ Goto("report") /\ UNCHANGED mishaps
     \/ job[On].status = "running" /\ ~Wanted(On) /\ Fails("cancelled") /\ UNCHANGED mishaps
     \/ Mishap /\ Fails("failed")
  /\ UNCHANGED <<records, host>>

\* stop_old(strict): every container of the application, or a failure half way,
\* or after the last one when a heartbeat got no answer.
Halt ==
  /\ At("halt")
  /\ \/ up' = up \ Of(Its) /\ Goto("report") /\ UNCHANGED mishaps
     \/ /\ Mishap
        /\ \E left \in SUBSET (up \cap Of(Its)) : up' = (up \ Of(Its)) \cup left
        /\ worker' = [worker EXCEPT !.at = "settle", !.outcome = "failed"]
  /\ UNCHANGED <<records, marker, routes>>

\* The report that the deployment is ready; "confirm" is the loop of retries.
Report ==
  /\ worker.at \in {"report", "confirm"}
  /\ \/ Acceptable(On) /\ Publishes(On) /\ Goto("retire") /\ UNCHANGED mishaps
     \/ Mishap /\ Acceptable(On) /\ Publishes(On) /\ Goto("confirm")
     \/ Mishap /\ UNCHANGED <<job, site>> /\ Goto("confirm")
  /\ UNCHANGED <<deletion, host>>

\* A retry asks first; it gives up after six, or when it is refused.
Confirm ==
  /\ At("confirm")
  /\ \/ job[On].status = "ready" /\ Goto("retire")
     \/ worker' = [worker EXCEPT !.at = "settle", !.outcome = "failed"]
  /\ UNCHANGED <<records, host, mishaps>>

\* Mutant of Retire: the former version is left running.
RetireKeeps ==
  /\ At("retire")
  /\ marker' = NoMarker
  /\ Rest
  /\ UNCHANGED <<records, routes, up, mishaps>>

\* stop_old(container), whose failure is swallowed, and the marker goes.
Retire ==
  /\ At("retire")
  /\ \/ /\ up' = IF job[On].action = "stop" THEN up ELSE (up \ Of(Its)) \cup {On}
        /\ UNCHANGED mishaps
     \/ Mishap /\ UNCHANGED up
  /\ marker' = NoMarker
  /\ Rest
  /\ UNCHANGED <<records, routes>>

-----------------------------------------------------------------------------
(* The worker: taking back what did not become ready. *)

\* Mutant of TakenBack: the routes stay as the deployment left them.
TakenBackContainersOnly(i) ==
  /\ up' = (up \ {i}) \cup marker.recreate
  /\ UNCHANGED routes

\* The routes of before, then cleanup_failure(): the candidate goes and the
\* containers that were paused for it resume.
TakenBack(i) ==
  /\ routes' = IF marker.saved THEN marker.previous ELSE routes
  /\ up' = (up \ {i}) \cup marker.recreate

\* The exception handler of execute().
Undo ==
  /\ At("undo")
  /\ TakenBack(On)
  /\ Goto("settle")
  /\ UNCHANGED <<records, marker, mishaps>>

\* Mutant of Settle: what was not acknowledged is taken back without asking.
SettleUnasked ==
  /\ At("settle")
  /\ TakenBack(On)
  /\ Goto("tell")
  /\ UNCHANGED <<records, marker, mishaps>>

\* That of the main loop: the mothership has the last word on what happened;
\* without an answer everything stays for reconcile().
Settle ==
  /\ At("settle")
  /\ \/ /\ job[On].status = "ready"
        /\ marker' = NoMarker
        /\ Rest
        /\ UNCHANGED <<routes, up, mishaps>>
     \/ /\ job[On].status # "ready"
        /\ TakenBack(On)
        /\ Goto("tell")
        /\ UNCHANGED <<marker, mishaps>>
     \/ Mishap /\ Rest /\ UNCHANGED host
  /\ UNCHANGED records

Tell ==
  /\ At("tell")
  /\ \/ job' = Finished(On, worker.outcome) /\ marker' = NoMarker /\ UNCHANGED mishaps
     \/ Mishap /\ job' = Finished(On, worker.outcome) /\ UNCHANGED marker
     \/ Mishap /\ UNCHANGED <<job, marker>>
  /\ Rest
  /\ UNCHANGED <<site, deletion, routes, up>>

\* The worker dies at any point and is started again.
Crash ==
  /\ Mishap
  /\ worker # Idle
  /\ Rest
  /\ UNCHANGED <<records, host>>

\* reconcile(): a marker is there, so a deployment was cut short.
Reconcile ==
  /\ At("idle") /\ marker.on # None
  /\ job[marker.on].status # "erased"
  /\ \/ /\ job[marker.on].status = "ready"
        /\ marker' = NoMarker
        /\ UNCHANGED <<job, routes, up, mishaps>>
     \/ /\ job[marker.on].status # "ready"
        /\ TakenBack(marker.on)
        /\ \/ /\ job' = IF job[marker.on].status = "running"
                        THEN Finished(marker.on, "failed") ELSE job
              /\ marker' = NoMarker
              /\ UNCHANGED mishaps
           \/ Mishap /\ UNCHANGED <<job, marker>>
  /\ UNCHANGED <<site, deletion, worker>>

-----------------------------------------------------------------------------
(* Deletions: claimed by the same worker, between deployments. *)

\* HandleWebDeletionClaim: one that waits, or whose lease ran out.
ClaimDeletion(a) ==
  /\ Ready
  /\ deletion[a] \in {"queued", "running"}
  /\ deletion' = [deletion EXCEPT ![a] = "running"]
  /\ \/ worker' = [Idle EXCEPT !.at = "erase", !.erasing = a] /\ UNCHANGED mishaps
     \/ Mishap /\ UNCHANGED worker
  /\ UNCHANGED <<job, site, host>>

\* remove_app: routes first, then containers (and images, volumes, files).
Erase ==
  /\ At("erase")
  /\ routes' = [routes EXCEPT ![worker.erasing] = None]
  /\ Goto("raze")
  /\ UNCHANGED <<records, marker, up, mishaps>>

Raze ==
  /\ At("raze")
  /\ up' = up \ Of(worker.erasing)
  /\ Goto("erased")
  /\ UNCHANGED <<records, marker, routes, mishaps>>

\* HandleWebDeletionReport 'ready': the records of the application go.
Erased(a) ==
  /\ job' = [i \in Job |-> IF i \in Of(a) THEN [job[i] EXCEPT !.status = "erased"]
                           ELSE job[i]]
  /\ site' = [site EXCEPT ![a] = NewSite]
  /\ deletion' = [deletion EXCEPT ![a] = "done"]

ReportErased ==
  /\ At("erased")
  /\ Erased(worker.erasing)
  /\ Rest
  /\ \/ UNCHANGED mishaps
     \/ Mishap
  /\ UNCHANGED host

\* A step failed: the deletion is reported as failed, or its report is lost and
\* its lease runs out.
EraseFails ==
  /\ worker.at \in {"erase", "raze", "erased"}
  /\ Mishap
  /\ deletion' = [deletion EXCEPT ![worker.erasing] = "failed"]
  /\ Rest
  /\ UNCHANGED <<job, site, host>>

-----------------------------------------------------------------------------
\* What users ask for, and what the worker does when nothing goes wrong in it.
User ==
  \/ \E a \in App, c \in Commit : Deploy(a, c) \/ Push(a, c)
  \/ \E a \in App, i \in Job : Republish(a, i)
  \/ \E a \in App : Stop(a) \/ RequestDeletion(a)
  \/ \E i \in Job : Cancel(i)

Progress ==
  \/ Claim \/ Mark \/ Build \/ Pause \/ Start \/ Gate
  \/ Save \/ Route \/ Verify \/ Halt \/ Report \/ Confirm \/ Retire
  \/ Undo \/ Settle \/ Tell \/ Reconcile
  \/ Erase \/ Raze \/ ReportErased \/ EraseFails
  \/ \E a \in App : ClaimDeletion(a)

Next == User \/ Progress \/ Beat \/ BuildFails \/ Crash

Spec     == Init /\ [][Next]_vars
FairSpec == Spec /\ WF_vars(Progress)

-----------------------------------------------------------------------------
(* Properties. *)

AtRest == At("idle") /\ marker.on = None

\* Whatever was lost, cancelled or crashed: once the worker has no deployment to
\* finish or take back, visitors are shown what the mothership says is published.
ShownIsRecorded ==
  AtRest => \A a \in App : deletion[a] = "no" => routes[a] = Recorded(a)

\* Visitors are never routed to a version without containers, except to one that
\* is paused for its successor, or that a stop which failed had begun to stop.
NoDeadRoute ==
  \A a \in App : LET i == routes[a] IN
    i # None => \/ i \in up
                \/ i \in marker.recreate
                \/ \E k \in Of(a) : job[k].action = "stop" /\ i < k

\* A cancellation and a publication exclude each other: visitors never reach a
\* deployment that has been cancelled, however late the cancellation.
CancelledNeverShown ==
  \A a \in App : LET i == routes[a] IN
    i # None => ~job[i].cancel /\ (job[i].action = "deploy" => job[i].gate)

\* Where the worker holds a deployment that it may still end or take back.
Held == Places \ {"idle", "erase", "raze", "erased", "confirm", "retire", "settle"}

\* Neither a lease that runs out nor a report whose answer was lost ends a
\* deployment behind the worker's back: what it is about to publish, to fail or
\* to take back is still running on record.
LeaseIsHeld ==
  /\ worker.at \in Held => job[On].status = "running"
  /\ worker.at \in {"confirm", "settle"} => job[On].status \in {"running", "ready"}

\* One version of an application runs once the worker is at rest, if nothing failed.
OneVersionUp ==
  AtRest /\ mishaps = 0 => \A a \in App : up \cap Of(a) \subseteq {routes[a]}

\* Once nothing waits or runs, the revision the branch was last seen at has been
\* published, or a deployment of it ended otherwise.
LastPushAnswered ==
  \A a \in App :
    /\ site[a].desired # NoCommit
    /\ \A i \in Job : ~Is(i, a, Live)
    => \E i \in Of(a) :
         /\ job[i].commit = site[a].desired
         /\ \/ job[i].status = "ready" /\ (i <= site[a].active \/ job[i].action = "stop")
            \/ job[i].status = "failed"
            \/ job[i].status = "cancelled" /\ (job[i].cancel \/ job[i].gate)

\* The publication as visitors and the record see it.
Sites == INSTANCE WebSite WITH
  Version  <- Job,
  Nothing  <- None,
  shown    <- [a \in App |-> IF deletion[a] = "no" THEN routes[a] ELSE None],
  recorded <- [a \in App |-> IF deletion[a] = "no" THEN Recorded(a) ELSE None]
IsWebSite == Sites!Spec

\* Every deployment ends, whatever call was lost on its way and wherever its
\* worker died: none keeps the queue of the whole host waiting behind it.
DeploymentsEnd == <>[](\A i \in Job : job[i].status \notin Live)
=============================================================================

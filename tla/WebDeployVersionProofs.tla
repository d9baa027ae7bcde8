------------------------ MODULE WebDeployVersionProofs ------------------------
(***************************************************************************)
(* Further theorems about WebDeploy: the last push is answered, visitors   *)
(* are never routed to a version without containers, and one version of an *)
(* application is left running.  All three rest on the order in which the  *)
(* deployments of an application are claimed, QueueFits, which speaks of   *)
(* the records alone.                                                      *)
(***************************************************************************)
EXTENDS WebDeployProofs

(***************************************************************************)
(* What the steps do to one deployment.                                    *)
(***************************************************************************)

\* k was cancelled, or has passed the publication gate.
Decided(k) == job[k].cancel \/ (job[k].action = "deploy" /\ job[k].gate)

\* What a deployment is stays, and that a decision was taken about it.
SameJob(k) == /\ job'[k].app = job[k].app /\ job'[k].action = job[k].action
              /\ job'[k].commit = job[k].commit
              /\ Decided(k) => Decided(k)'

LEMMA SameStays ==
  ASSUME NEW k \in Job, job'[k] = job[k]
  PROVE  SameJob(k) /\ job'[k].status = job[k].status
BY DEF SameJob, Decided

\* k is the new deployment.
Enlisted(k) == /\ job[k].status = "none" /\ job'[k].status = "queued"
               /\ \A i \in Job : i < k => job[i].status # "none"
               /\ \A i \in Job \ {k} : job[i].status = "none" => job'[i].status = "none"

LEMMA EnqueueMoves ==
  ASSUME TypeOK, NEW a \in App, NEW act \in {"deploy", "republish", "stop"},
         NEW c \in Commit \cup {NoCommit}, Enqueue(a, act, c)
  PROVE  /\ deletion[a] = "no"
         /\ \E n \in Job :
              /\ Enlisted(n)
              /\ job'[n].app = a /\ job'[n].commit = c
              /\ \A k \in Job \ {n} :
                   /\ SameJob(k)
                   /\ \/ job'[k].status = job[k].status
                      \/ /\ act = "deploy" /\ job[k].app = a
                         /\ job[k].status = "queued" /\ job'[k].status = "cancelled"
<1> DEFINE replaced == IF act = "deploy" THEN Deploys(a) ELSE {}
           New == [app |-> a, action |-> act, commit |-> c, status |-> "queued",
                   cancel |-> FALSE, gate |-> FALSE]
<1>1. \A k \in replaced : act = "deploy" /\ job[k].app = a /\ job[k].status = "queued"
  BY DEF Deploys, Is
<1>2. PICK n \in Job :
        /\ job[n].status = "none"
        /\ \A i \in Job : i < n => job[i].status # "none"
        /\ job' = [i \in Job |-> IF i = n THEN New ELSE CancelOne(job[i], i \in replaced)]
  BY DEF Enqueue
<1>3. job'[n] = New
  BY <1>2
<1>4. ASSUME NEW k \in Job, k # n
      PROVE  job'[k] = CancelOne(job[k], k \in replaced)
  BY <1>2, <1>4
<1> HIDE DEF replaced
<1>5. ASSUME NEW k \in Job, k # n
      PROVE  /\ SameJob(k)
             /\ \/ job'[k].status = job[k].status
                \/ /\ act = "deploy" /\ job[k].app = a
                   /\ job[k].status = "queued" /\ job'[k].status = "cancelled"
  <2>1. job[k] \in JobType /\ job'[k] = CancelOne(job[k], k \in replaced)
    BY <1>4, <1>5 DEF TypeOK
  <2>2. CASE k \in replaced BY <1>1, <2>1, <2>2 DEF JobType, CancelOne, SameJob, Decided
  <2>3. CASE k \notin replaced BY <2>1, <2>3, SameStays DEF CancelOne
  <2> QED BY <2>2, <2>3
<1>6. Enlisted(n)
  BY <1>2, <1>3, <1>5 DEF Enlisted
<1>7. deletion[a] = "no"
  BY DEF Enqueue
<1> QED
  BY <1>3, <1>5, <1>6, <1>7

\* What a user's request does to k: nothing, add it, or cancel it while it waits.
Asked(k) == \/ Enlisted(k) /\ deletion'[job'[k].app] = "no"
            \/ /\ SameJob(k)
               /\ \/ job'[k].status = job[k].status
                  \/ job[k].status = "queued" /\ job'[k].status = "cancelled"

\* A user's request adds a deployment, or cancels some that wait.
LEMMA UserMoves ==
  ASSUME TypeOK, User, NEW k \in Job
  PROVE  Asked(k)
<1> USE DEF vars, records, host, Asked
<1>1. ASSUME NEW a \in App, NEW act \in {"deploy", "republish", "stop"},
             NEW c \in Commit \cup {NoCommit}, Enqueue(a, act, c), UNCHANGED deletion
      PROVE  Asked(k)
  <2>1. PICK n \in Job :
              /\ Enlisted(n)
              /\ job'[n].app = a /\ job'[n].commit = c
              /\ \A i \in Job \ {n} :
                   /\ SameJob(i)
                   /\ \/ job'[i].status = job[i].status
                      \/ /\ act = "deploy" /\ job[i].app = a
                         /\ job[i].status = "queued" /\ job'[i].status = "cancelled"
    BY <1>1, EnqueueMoves
  <2>2. deletion[a] = "no"
    BY <1>1, EnqueueMoves
  <2> QED
    BY <1>1, <2>1, <2>2
<1>2. ASSUME NEW a \in App, NEW c \in Commit, Deploy(a, c)
      PROVE  Asked(k)
  BY <1>1, <1>2 DEF Deploy
<1>3. ASSUME NEW a \in App, NEW c \in Commit, Push(a, c)
      PROVE  Asked(k)
  <2>1. CASE Enqueue(a, "deploy", c)
    BY <1>1, <1>3, <2>1 DEF Push
  <2>2. CASE job' = [i \in Job |-> CancelOne(job[i], Is(i, a, {"queued"}) /\ job[i].commit # c)]
    <3>1. job'[k] = CancelOne(job[k], Is(k, a, {"queued"}) /\ job[k].commit # c)
      BY <2>2
    <3>2. CASE Is(k, a, {"queued"}) /\ job[k].commit # c
      <4>1. job[k].status = "queued" /\ job'[k] = [job[k] EXCEPT !.status = "cancelled"]
        BY <3>1, <3>2, Zenon DEF CancelOne, Is
      <4> QED
        BY <4>1 DEF SameJob, Decided, TypeOK, JobType
    <3>3. CASE ~(Is(k, a, {"queued"}) /\ job[k].commit # c)
      <4>1. job'[k] = job[k]
        BY <3>1, <3>3, Zenon DEF CancelOne
      <4> QED
        BY <4>1 DEF SameJob, Decided
    <3> QED
      BY <3>2, <3>3
  <2> QED
    BY <1>3, <2>1, <2>2 DEF Push
<1>4. ASSUME NEW a \in App, NEW i \in Job, Republish(a, i)
      PROVE  Asked(k)
  <2>1. job[i].commit \in Commit \cup {NoCommit}
    BY DEF TypeOK, JobType
  <2> QED
    BY <1>1, <1>4, <2>1 DEF Republish
<1>5. ASSUME NEW a \in App, Stop(a)
      PROVE  Asked(k)
  <2>1. site[a].desired \in Commit \cup {NoCommit}
    BY DEF TypeOK, SiteType
  <2> QED
    BY <1>1, <1>5, <2>1 DEF Stop
<1>6. ASSUME NEW a \in App, RequestDeletion(a)
      PROVE  Asked(k)
  BY <1>6 DEF RequestDeletion, SameJob, Decided
<1>7. ASSUME NEW i \in Job, Cancel(i)
      PROVE  Asked(k)
  <2> DEFINE e == IF job[i].status = "queued" THEN "cancelled" ELSE job[i].status
  <2>1. job' = [job EXCEPT ![i] = [@ EXCEPT !.cancel = TRUE, !.status = e]]
    BY <1>7 DEF Cancel, TypeOK, JobType
  <2>2. CASE k # i
    BY <2>1, <2>2 DEF TypeOK, SameJob, Decided
  <2>3. CASE k = i
    <3>1. /\ job'[k].app = job[k].app /\ job'[k].action = job[k].action
          /\ job'[k].commit = job[k].commit /\ job'[k].status = e /\ job'[k].cancel = TRUE
      BY <2>1, <2>3 DEF TypeOK, JobType
    <3> QED
      BY <2>3, <3>1 DEF SameJob, Decided
  <2> QED
    BY <2>2, <2>3
<1> QED
  BY <1>2, <1>3, <1>4, <1>5, <1>6, <1>7 DEF User

\* What a claim does to k: its lease runs out, or it is the one claimed or refused, which
\* is the oldest of its application.
Reapable(k) == /\ job[k].status = "running"
               /\ job'[k].status = "failed" \/ (job'[k].status = "cancelled" /\ job[k].cancel)
Claimed(k)  == /\ job[k].status = "queued" /\ job'[k].status \in {"running", "failed"}
               /\ \A i \in Job : Is(i, job[k].app, {"queued"}) => k <= i

LEMMA ClaimMoves ==
  ASSUME TypeOK, Claim
  PROVE  /\ \A k \in Job : /\ SameJob(k)
                           /\ \/ Reapable(k) \/ Claimed(k)
                              \/ job[k].status # "running" /\ job'[k].status = job[k].status
         /\ \A i, k \in Job : job'[i].status = "running" /\ job'[k].status = "running" => i = k
         /\ \A a \in App : site'[a].active = site[a].active /\ site'[a].desired = site[a].desired
         /\ UNCHANGED deletion
<1> DEFINE jobs == [i \in Job |-> Reaped(job[i])]
<1>1. ASSUME NEW k \in Job
      PROVE  /\ jobs[k] \in JobType
             /\ jobs[k].app = job[k].app /\ jobs[k].action = job[k].action
             /\ jobs[k].commit = job[k].commit
             /\ jobs[k].cancel = job[k].cancel /\ jobs[k].gate = job[k].gate
             /\ \/ /\ job[k].status = "running"
                   /\ jobs[k].status = "failed" \/ (jobs[k].status = "cancelled" /\ job[k].cancel)
                \/ job[k].status # "running" /\ jobs[k].status = job[k].status
  BY DEF TypeOK, JobType, Reaped, Ended
<1>2. UNCHANGED deletion
  BY DEF Claim
<1>3. CASE job' = jobs /\ UNCHANGED site
  <2> HIDE DEF jobs
  <2> QED
    BY <1>1, <1>2, <1>3 DEF SameJob, Decided, Reapable
<1>4. ASSUME NEW c \in Queued, NextQueued(c), NEW s \in {"running", "failed"},
             job' = [jobs EXCEPT ![c].status = s]
      PROVE  /\ \A k \in Job : /\ SameJob(k)
                               /\ \/ Reapable(k) \/ Claimed(k)
                                  \/ job[k].status # "running" /\ job'[k].status = job[k].status
             /\ \A i, k \in Job : job'[i].status = "running" /\ job'[k].status = "running" => i = k
  <2>1. c \in Job /\ job[c].status = "queued"
    BY DEF Queued
  <2>2. \A i \in Job : Is(i, job[c].app, {"queued"}) => c <= i
    BY <1>4 DEF NextQueued, Is, Queued
  <2>3. jobs \in [Job -> JobType]
    BY <1>1
  <2> HIDE DEF jobs
  <2>4. /\ job'[c].app = jobs[c].app /\ job'[c].action = jobs[c].action
        /\ job'[c].commit = jobs[c].commit /\ job'[c].status = s
        /\ job'[c].cancel = jobs[c].cancel /\ job'[c].gate = jobs[c].gate
    BY <1>4, <2>1, <2>3 DEF JobType
  <2>5. \A k \in Job \ {c} : job'[k] = jobs[k]
    BY <1>4, <2>3
  <2>6. ASSUME NEW k \in Job
        PROVE  /\ SameJob(k)
               /\ \/ Reapable(k) \/ Claimed(k)
                  \/ job[k].status # "running" /\ job'[k].status = job[k].status
    <3>1. CASE k = c
      BY <1>1, <2>1, <2>2, <2>4, <3>1 DEF SameJob, Decided, Claimed
    <3>2. CASE k # c
      BY <1>1, <2>5, <3>2 DEF SameJob, Decided, Reapable
    <3> QED
      BY <3>1, <3>2
  <2>7. \A k \in Job : job'[k].status = "running" => k = c
    BY <1>1, <2>5
  <2> QED
    BY <2>6, <2>7
<1>5. CASE \E i \in Queued :
             /\ NextQueued(i)
             /\ job' = [jobs EXCEPT ![i].status = "running"]
             /\ site' = [site EXCEPT ![job[i].app].served = Turn]
  <2>1. PICK c \in Queued : /\ NextQueued(c)
                            /\ job' = [jobs EXCEPT ![c].status = "running"]
                            /\ site' = [site EXCEPT ![job[c].app].served = Turn]
    BY <1>5
  <2>2. \A a \in App : site'[a].active = site[a].active /\ site'[a].desired = site[a].desired
    <3>1. job[c].app \in App
      BY DEF Queued, TypeOK, JobType
    <3> QED
      BY <2>1, <3>1 DEF TypeOK, SiteType
  <2> HIDE DEF jobs
  <2> QED
    BY <1>2, <1>4, <2>1, <2>2
<1>6. CASE \E i \in Queued : /\ NextQueued(i)
                             /\ job' = [jobs EXCEPT ![i].status = "failed"]
                             /\ UNCHANGED site
  <2> HIDE DEF jobs
  <2> QED
    BY <1>2, <1>4, <1>6
<1> QED
  BY <1>3, <1>5, <1>6 DEF Claim

\* The worker's reports on i, and what the mothership answers with for it.
LEMMA FinishedMoves ==
  ASSUME TypeOK, NEW i \in Job, job[i].status = "running", NEW o \in {"failed", "cancelled"},
         job' = Finished(i, o)
  PROVE  /\ \A k \in Job \ {i} : job'[k] = job[k]
         /\ SameJob(i)
         /\ \/ job'[i].status = "cancelled" /\ (job[i].cancel \/ o = "cancelled")
            \/ job'[i].status = "failed"
<1> DEFINE e == IF job[i].cancel /\ job[i].action = "deploy" THEN "cancelled" ELSE o
<1>1. job' = [job EXCEPT ![i].status = e]
  BY DEF Finished
<1>2. (e = "cancelled" /\ (job[i].cancel \/ o = "cancelled")) \/ e = "failed"
  OBVIOUS
<1> HIDE DEF e
<1> QED
  BY <1>1, <1>2 DEF TypeOK, JobType, SameJob, Decided

LEMMA PublishesMoves ==
  ASSUME TypeOK, NEW i \in Job, Publishes(i)
  PROVE  /\ \A k \in Job \ {i} : job'[k] = job[k]
         /\ SameJob(i) /\ job'[i].status = "ready"
         /\ job[i].app \in App
         /\ \A a \in App : site'[a].desired = site[a].desired
         /\ \A a \in App : site'[a].active = IF a = job[i].app /\ job[i].action # "stop" THEN i
                                             ELSE site[a].active
<1>1. job' = [job EXCEPT ![i].status = "ready"]
  BY DEF Publishes
<1>2. /\ \A k \in Job \ {i} : job'[k] = job[k]
      /\ SameJob(i) /\ job'[i].status = "ready"
  BY <1>1 DEF TypeOK, JobType, SameJob, Decided
<1> QED
  BY <1>2, PublishesSite

\* Heartbeats and the publication gate: a cancellation and a decision are not undone.
LEMMA BeatMoves ==
  ASSUME TypeOK, NEW i \in Job, job[i].status = "running", job' = Beaten(i) \/ job' = Admitted(i)
  PROVE  \A k \in Job : SameJob(k) /\ job'[k].status = job[k].status
<1> DEFINE c == Obsolete(i)
           g == job[i].action = "deploy" /\ ~c
           b == [job[i] EXCEPT !.cancel = c]
           j == [job[i] EXCEPT !.cancel = c, !.gate = g]
<1>1. c \in BOOLEAN /\ g \in BOOLEAN
  BY DEF TypeOK, JobType, Obsolete, Superseded
<1>2. job' = [job EXCEPT ![i] = b] \/ job' = [job EXCEPT ![i] = j]
  BY DEF Beaten, Admitted
<1>3. job[i].cancel => c
  BY DEF Obsolete
<1>4. job[i].action = "deploy" => c \/ g
  OBVIOUS
<1>5. \A k \in Job : job'[k].status = job[k].status
  BY BeatEffect
<1>6. job[i] \in JobType
  BY DEF TypeOK
<1> HIDE DEF c, g
<1>7. /\ b.app = job[i].app /\ b.action = job[i].action /\ b.commit = job[i].commit
      /\ b.cancel = c /\ b.gate = job[i].gate
      /\ j.app = job[i].app /\ j.action = job[i].action /\ j.commit = job[i].commit
      /\ j.cancel = c /\ j.gate = g
  BY <1>1, <1>6 DEF JobType
<1> HIDE DEF b, j
<1>8. \A k \in Job \ {i} : job'[k] = job[k]
  BY <1>2 DEF TypeOK
<1>9. SameJob(i)
  BY <1>2, <1>3, <1>4, <1>7 DEF TypeOK, SameJob, Decided
<1> QED
  BY <1>5, <1>8, <1>9 DEF SameJob, Decided

(***************************************************************************)
(* The order of the deployments of an application.  It speaks of the       *)
(* records alone: the oldest one that waits is claimed, one runs, and what *)
(* is ready was claimed before what runs or waits.                         *)
(***************************************************************************)

QueueFits ==
  /\ \A i, k \in Job : i < k /\ job[k].status # "none" => job[i].status # "none"
  /\ \A i, k \in Job : job[i].status = "running" /\ job[k].status = "running" => i = k
  /\ \A i, k \in Job : job[i].app = job[k].app /\ job[i].status \in {"ready", "running"}
                       /\ job[k].status = "queued" => i < k
  /\ \A i, k \in Job : job[i].app = job[k].app /\ job[i].status = "ready"
                       /\ job[k].status = "running" => i < k
  /\ \A a \in App : site[a].active # None =>
       job[site[a].active].app = a /\ job[site[a].active].status = "ready"
  /\ \A a \in App : deletion[a] # "no" => \A i \in Job : ~Is(i, a, Live)

\* Deletions that were not there before find nothing of theirs waiting or running.
DeletionsFit == \A a \in App : deletion'[a] # "no" /\ deletion[a] = "no" =>
                  \A i \in Job : ~Is(i, a, Live)

\* What is published of the applications stays.
ActiveKept == \A a \in App : site'[a].active = site[a].active

LEMMA InitQueue == Init => QueueFits
BY DEF Init, QueueFits, NewSite, Is, Live

LEMMA UserQueue ==
  ASSUME TypeOK, QueueFits, User
  PROVE  QueueFits'
<1>1. \A k \in Job : Asked(k)
  BY UserMoves
<1>2. DeletionsFit /\ \A a \in App : deletion[a] # "no" => deletion'[a] # "no"
  <2>1. CASE \E a \in App : RequestDeletion(a)
    BY <2>1 DEF RequestDeletion, DeletionsFit, TypeOK
  <2>2. CASE ~\E a \in App : RequestDeletion(a)
    <3>1. UNCHANGED deletion
      BY <2>2 DEF User, Deploy, Push, Republish, Stop, Cancel
    <3> QED
      BY <3>1 DEF DeletionsFit
  <2> QED
    BY <2>1, <2>2
<1>3. ActiveKept
  BY UserEffect DEF ActiveKept
<1>4. ASSUME NEW k \in Job, Enlisted(k)
      PROVE  \A i \in Job \ {k} : ~Enlisted(i)
  BY <1>4 DEF Enlisted
<1>5. \A k \in Job : job'[k].status \in {"ready", "running"} =>
        job[k].status = job'[k].status /\ job'[k].app = job[k].app
  BY <1>1 DEF Asked, Enlisted, SameJob
<1>6. \A i, k \in Job : i < k /\ job'[k].status # "none" => job'[i].status # "none"
  BY <1>1 DEF Asked, Enlisted, QueueFits
<1>7. \A i, k \in Job : job'[i].app = job'[k].app /\ job'[i].status \in {"ready", "running"}
                        /\ job'[k].status = "queued" => i < k
  <2>1. SUFFICES ASSUME NEW i \in Job, NEW k \in Job, job'[i].app = job'[k].app,
                        job'[i].status \in {"ready", "running"}, job'[k].status = "queued"
                 PROVE  i < k
    OBVIOUS
  <2>2. job[i].status \in {"ready", "running"} /\ job[i].app = job'[i].app
    BY <1>5, <2>1
  <2>3. CASE Enlisted(k)
    <3>1. ~(k < i)
      BY <2>2, <2>3 DEF Enlisted, QueueFits
    <3>2. i # k
      BY <2>2, <2>3 DEF Enlisted
    <3> QED
      BY <3>1, <3>2 DEF Job
  <2>4. CASE ~Enlisted(k)
    BY <1>1, <2>1, <2>2, <2>4 DEF Asked, SameJob, QueueFits
  <2> QED
    BY <2>3, <2>4
<1>8. \A a \in App : site'[a].active # None =>
        job'[site'[a].active].app = a /\ job'[site'[a].active].status = "ready"
  <2>1. SUFFICES ASSUME NEW a \in App, site[a].active # None
                 PROVE  job'[site[a].active].app = a /\ job'[site[a].active].status = "ready"
    BY <1>3 DEF ActiveKept
  <2>2. site[a].active \in Job /\ job[site[a].active].app = a
        /\ job[site[a].active].status = "ready"
    BY <2>1 DEF QueueFits, TypeOK, SiteType
  <2> QED
    BY <1>1, <2>2 DEF Asked, Enlisted, SameJob
<1>9. ASSUME NEW a \in App, deletion'[a] # "no", NEW i \in Job
      PROVE  ~(job'[i].app = a /\ job'[i].status \in Live)
  <2>1. CASE Enlisted(i)
    BY <1>1, <1>9, <2>1 DEF Asked, Enlisted, SameJob
  <2>2. CASE ~Enlisted(i)
    <3>1. ~Is(i, a, Live)
      BY <1>2, <1>9 DEF DeletionsFit, QueueFits
    <3> QED
      BY <1>1, <2>2, <3>1 DEF Asked, SameJob, Is, Live
  <2> QED
    BY <2>1, <2>2
<1> QED
  BY <1>5, <1>6, <1>7, <1>8, <1>9 DEF QueueFits, Is

LEMMA ClaimQueue ==
  ASSUME TypeOK, QueueFits, Claim
  PROVE  QueueFits'
<1>1. ASSUME NEW k \in Job
      PROVE  /\ SameJob(k)
             /\ \/ Reapable(k) \/ Claimed(k)
                \/ job[k].status # "running" /\ job'[k].status = job[k].status
  BY ClaimMoves
<1>2. \A i, k \in Job : job'[i].status = "running" /\ job'[k].status = "running" => i = k
  BY ClaimMoves
<1>3. ActiveKept /\ UNCHANGED deletion
  BY ClaimMoves DEF ActiveKept
<1>4. \A i, k \in Job : i < k /\ job'[k].status # "none" => job'[i].status # "none"
  BY <1>1 DEF Reapable, Claimed, QueueFits
<1>5. \A k \in Job : job'[k].status = "running" => Claimed(k)
  BY <1>1 DEF Reapable
<1>6. \A k \in Job : /\ job'[k].status = "ready" <=> job[k].status = "ready"
                     /\ job'[k].status = "queued" => job[k].status = "queued"
                     /\ job'[k].status \in Live => job[k].status \in Live
  BY <1>1 DEF Reapable, Claimed, Live
<1>7. ASSUME NEW i \in Job, NEW k \in Job, job[i].app = job[k].app,
             job'[i].status \in {"ready", "running"}, job'[k].status = "queued"
      PROVE  i < k
  <2>1. CASE job'[i].status = "ready"
    BY <1>6, <1>7, <2>1 DEF QueueFits
  <2>2. CASE job'[i].status = "running"
    <3>1. i <= k /\ i # k
      BY <1>5, <1>6, <1>7, <2>2 DEF Claimed, Is
    <3> QED
      BY <3>1 DEF Job
  <2> QED
    BY <1>7, <2>1, <2>2
<1>8. ASSUME NEW i \in Job, NEW k \in Job, job[i].app = job[k].app,
             job'[i].status = "ready", job'[k].status = "running"
      PROVE  i < k
  BY <1>5, <1>6, <1>8 DEF Claimed, QueueFits
<1>9. \A a \in App : site'[a].active # None =>
        job'[site'[a].active].app = a /\ job'[site'[a].active].status = "ready"
  BY <1>1, <1>3, <1>6 DEF SameJob, ActiveKept, QueueFits, TypeOK, SiteType
<1>10. \A a \in App : deletion'[a] # "no" => \A i \in Job : ~(job'[i].app = a /\ job'[i].status \in Live)
  BY <1>1, <1>3, <1>6 DEF SameJob, QueueFits, Is
<1> QED
  BY <1>1, <1>2, <1>4, <1>7, <1>8, <1>9, <1>10 DEF SameJob, QueueFits, Is

\* Steps after which no deployment has begun to wait, to run or to be ready.
LEMMA EndQueue ==
  ASSUME TypeOK, QueueFits, ActiveKept,
         \A k \in Job : /\ SameJob(k)
                        /\ \/ job'[k].status = job[k].status
                           \/ /\ job[k].status = "running"
                              /\ job'[k].status \in {"failed", "cancelled"},
         \A a \in App : deletion[a] = "no" => deletion'[a] = "no"
  PROVE  QueueFits'
<1>1. \A k \in Job : /\ job'[k].app = job[k].app
                     /\ job'[k].status = "none" <=> job[k].status = "none"
                     /\ job'[k].status = "ready" <=> job[k].status = "ready"
                     /\ job'[k].status = "queued" <=> job[k].status = "queued"
                     /\ job'[k].status = "running" => job[k].status = "running"
                     /\ job'[k].status \in Live => job[k].status \in Live
  BY DEF SameJob, Live
<1>2. \A a \in App : site'[a].active # None =>
        job'[site'[a].active].app = a /\ job'[site'[a].active].status = "ready"
  BY <1>1 DEF ActiveKept, QueueFits, TypeOK, SiteType
<1> QED
  BY <1>1, <1>2 DEF QueueFits, Is

LEMMA PublishesQueue ==
  ASSUME TypeOK, QueueFits, NEW i \in Job, job[i].status = "running", Publishes(i),
         UNCHANGED deletion
  PROVE  QueueFits'
<1>1. /\ \A k \in Job \ {i} : job'[k] = job[k]
      /\ job'[i].app = job[i].app /\ job'[i].status = "ready" /\ job[i].app \in App
      /\ \A a \in App : site'[a].active = IF a = job[i].app /\ job[i].action # "stop" THEN i
                                          ELSE site[a].active
  BY PublishesMoves DEF SameJob
<1>2. \A k \in Job : job'[k].app = job[k].app
  BY <1>1
<1>3. \A k \in Job : job'[k].status # "running"
  BY <1>1 DEF QueueFits
<1>4. \A k \in Job : job'[k].status = "queued" => job[k].status = "queued"
  BY <1>1
<1>5. \A a \in App : site'[a].active # None =>
        job'[site'[a].active].app = a /\ job'[site'[a].active].status = "ready"
  BY <1>1 DEF QueueFits, TypeOK, SiteType
<1>6. \A j, k \in Job : j < k /\ job'[k].status # "none" => job'[j].status # "none"
  BY <1>1 DEF QueueFits
<1>7. \A j, k \in Job : job'[j].app = job'[k].app /\ job'[j].status \in {"ready", "running"}
                       /\ job'[k].status = "queued" => j < k
  BY <1>1, <1>2, <1>3, <1>4 DEF QueueFits
<1>8. \A a \in App : deletion'[a] # "no" => \A k \in Job : ~(job'[k].app = a /\ job'[k].status \in Live)
  BY <1>1 DEF QueueFits, Is, Live
<1> QED
  BY <1>3, <1>5, <1>6, <1>7, <1>8 DEF QueueFits, Is

LEMMA ErasedQueue ==
  ASSUME TypeOK, QueueFits, NEW a \in App, Erased(a)
  PROVE  QueueFits'
<1>1. \A k \in Job : /\ job'[k].app = job[k].app
                     /\ IF k \in Of(a) THEN job'[k].status = "erased"
                                       ELSE job'[k].status = job[k].status
  BY DEF Erased, TypeOK, JobType
<1>2. \A k \in Job : /\ job'[k].status = "none" <=> job[k].status = "none"
                     /\ job'[k].status \in {"ready", "queued", "running"} =>
                          job'[k].status = job[k].status
  BY <1>1 DEF Of
<1>3. \A b \in App \ {a} : site'[b] = site[b]
  BY DEF Erased, TypeOK
<1>4. site'[a].active = None
  BY DEF Erased, TypeOK, NewSite
<1>5. \A k \in Job : job[k].app # a => job'[k] = job[k]
  BY DEF Erased, Of
<1>6. \A b \in App : site'[b].active # None =>
        job'[site'[b].active].app = b /\ job'[site'[b].active].status = "ready"
  BY <1>3, <1>4, <1>5 DEF QueueFits, TypeOK, SiteType
<1>7. \A k \in Job : job[k].app = a => job'[k].status \notin Live
  BY <1>1, <1>2 DEF Live, Of
<1>8. \A b \in App \ {a} : deletion'[b] = deletion[b]
  BY DEF Erased, TypeOK
<1>9. \A b \in App : deletion'[b] # "no" => \A k \in Job : ~(job'[k].app = b /\ job'[k].status \in Live)
  BY <1>1, <1>5, <1>7, <1>8 DEF QueueFits, Is
<1> QED
  BY <1>1, <1>2, <1>6, <1>9 DEF QueueFits, Is

LEMMA QueueStep == Held1 /\ QueueFits /\ [Next]_vars => QueueFits'
<1> SUFFICES ASSUME Held1, QueueFits, [Next]_vars PROVE QueueFits'
  OBVIOUS
<1> USE DEF Held1
<1>1. CASE User \/ Claim
  BY <1>1, UserQueue, ClaimQueue
<1>2. CASE UNCHANGED records
  BY <1>2 DEF records, QueueFits, Is
<1>3. CASE Beat \/ Gate
  <2>1. On \in Job /\ job[On].status = "running" /\ (job' = Beaten(On) \/ job' = Admitted(On))
        /\ UNCHANGED <<site, deletion>>
    <3>1. On \in Job
      BY <1>3, OnRuns DEF Beat, Gate, Held, Building, Places, At
    <3> QED
      BY <1>3, <3>1 DEF Beat, Gate
  <2> QED
    BY <2>1, BeatMoves, EndQueue DEF ActiveKept
<1>4. CASE Tell \/ Reconcile
  <2>1. UNCHANGED <<site, deletion>>
    BY <1>4 DEF Tell, Reconcile
  <2>2. CASE UNCHANGED job
    BY <2>1, <2>2 DEF QueueFits, Is
  <2>3. CASE Tell /\ job' = Finished(On, worker.outcome)
    <3>1. On \in Job /\ job[On].status = "running"
      BY <2>3, OnRuns DEF Tell, Held, At, Places, Building
    <3>2. worker.outcome \in {"failed", "cancelled"}
      BY DEF TypeOK
    <3>3. /\ \A k \in Job \ {On} : job'[k] = job[k]
          /\ SameJob(On) /\ job'[On].status \in {"failed", "cancelled"}
      BY <2>3, <3>1, <3>2, FinishedMoves
    <3> QED
      BY <2>1, <3>1, <3>3, SameStays, EndQueue DEF ActiveKept
  <2>4. CASE job[marker.on].status = "running" /\ job' = Finished(marker.on, "failed") /\ Reconcile
    <3>1. marker.on \in Job
      BY <2>4, ReconcileKeeps
    <3>2. /\ \A k \in Job \ {marker.on} : job'[k] = job[k]
          /\ SameJob(marker.on) /\ job'[marker.on].status \in {"failed", "cancelled"}
      BY <2>4, <3>1, FinishedMoves
    <3> QED
      BY <2>1, <2>4, <3>1, <3>2, SameStays, EndQueue DEF ActiveKept
  <2> QED
    BY <1>4, <2>2, <2>3, <2>4 DEF Tell, Reconcile
<1>5. CASE Report
  <2>1. On \in Job /\ UNCHANGED deletion
    BY <1>5, ReportKeeps
  <2>2. CASE UNCHANGED <<job, site>>
    BY <2>1, <2>2 DEF QueueFits, Is
  <2>3. CASE job[On].status = "running" /\ Publishes(On)
    BY <2>1, <2>3, PublishesQueue
  <2> QED
    BY <1>5, <2>2, <2>3, ReportKeeps
<1>6. CASE EraseFails \/ \E a \in App : ClaimDeletion(a)
  <2>1. UNCHANGED <<job, site>>
    BY <1>6, DeletionKeeps
  <2>2. \A a \in App : deletion[a] = "no" => deletion'[a] = "no"
    BY <1>6 DEF EraseFails, ClaimDeletion, HandFits, TypeOK
  <2> QED
    BY <2>1, <2>2, EndQueue DEF ActiveKept, SameJob, Decided
<1>7. CASE ReportErased
  <2>1. worker.erasing \in App
    BY DEF TypeOK
  <2> QED
    BY <1>7, <2>1, ErasedQueue DEF ReportErased
<1>8. CASE Quiet
  BY <1>2, <1>8, QuietEffect
<1>9. CASE UNCHANGED vars
  BY <1>2, <1>9 DEF vars
<1> QED
  BY <1>1, <1>3, <1>4, <1>5, <1>6, <1>7, <1>8, <1>9 DEF Next, Progress, Quiet

\* No step changes what a deployment is.
LEMMA SameStep ==
  ASSUME Held1, [Next]_vars, NEW k \in Job, job[k].status # "none"
  PROVE  SameJob(k) /\ job'[k].status # "none"
<1> USE DEF Held1
<1>1. CASE User
  BY <1>1, UserMoves DEF Asked, Enlisted
<1>2. CASE Claim
  BY <1>2, ClaimMoves DEF Reapable, Claimed
<1>3. CASE UNCHANGED job
  BY <1>3, SameStays
<1>4. CASE Beat \/ Gate
  <2>1. On \in Job /\ job[On].status = "running" /\ (job' = Beaten(On) \/ job' = Admitted(On))
    <3>1. On \in Job
      BY <1>4, OnRuns DEF Beat, Gate, Held, Building, Places, At
    <3> QED
      BY <1>4, <3>1 DEF Beat, Gate
  <2> QED
    BY <2>1, BeatMoves
<1>5. CASE Tell
  <2>1. CASE job' = Finished(On, worker.outcome)
    <3>1. On \in Job /\ job[On].status = "running"
      BY <1>5, OnRuns DEF Tell, Held, At, Places, Building
    <3>2. worker.outcome \in {"failed", "cancelled"}
      BY DEF TypeOK
    <3>3. /\ \A i \in Job \ {On} : job'[i] = job[i]
          /\ SameJob(On) /\ job'[On].status \in {"failed", "cancelled"}
      BY <2>1, <3>1, <3>2, FinishedMoves
    <3> QED
      BY <3>3, SameStays
  <2> QED
    BY <1>3, <1>5, <2>1 DEF Tell
<1>6. CASE Reconcile
  <2>1. CASE job[marker.on].status = "running" /\ job' = Finished(marker.on, "failed")
    <3>1. marker.on \in Job
      BY <1>6, ReconcileKeeps
    <3>2. /\ \A i \in Job \ {marker.on} : job'[i] = job[i]
          /\ SameJob(marker.on) /\ job'[marker.on].status \in {"failed", "cancelled"}
      BY <2>1, <3>1, FinishedMoves
    <3> QED
      BY <3>2, SameStays
  <2> QED
    BY <1>3, <1>6, <2>1 DEF Reconcile
<1>7. CASE Report
  <2>1. CASE Publishes(On)
    <3>1. On \in Job
      BY <1>7, ReportKeeps
    <3>2. /\ \A i \in Job \ {On} : job'[i] = job[i]
          /\ SameJob(On) /\ job'[On].status = "ready"
      BY <2>1, <3>1, PublishesMoves
    <3> QED
      BY <3>2, SameStays
  <2> QED
    BY <1>3, <1>7, <2>1, ReportKeeps
<1>8. CASE ReportErased
  BY <1>8 DEF ReportErased, Erased, SameJob, Decided, TypeOK, JobType
<1>9. CASE Quiet \/ EraseFails \/ \E a \in App : ClaimDeletion(a)
  BY <1>3, <1>9, QuietEffect, DeletionKeeps DEF records
<1>10. CASE UNCHANGED vars
  BY <1>3, <1>10 DEF vars, records
<1> QED
  BY <1>1, <1>2, <1>4, <1>5, <1>6, <1>7, <1>8, <1>9, <1>10 DEF Next, Progress, Quiet

(***************************************************************************)
(* The last push is answered.                                              *)
(***************************************************************************)

\* Deployment k answers for the last push to a: it is under way, published, or ended.
Answering(a, k) ==
  /\ k \in Of(a) /\ job[k].commit = site[a].desired
  /\ \/ job[k].status \in Live
     \/ job[k].status = "ready" /\ (k <= site[a].active \/ job[k].action = "stop")
     \/ job[k].status = "failed"
     \/ job[k].status = "cancelled" /\ Decided(k)

Pushed == \A a \in App : site[a].desired # NoCommit => \E k \in Job : Answering(a, k)

\* The worker reports as cancelled only what was cancelled, or has passed the gate.
Reasoned == worker.at \in {"undo", "settle", "tell"} /\ worker.outcome = "cancelled" =>
              Decided(worker.on)

\* What becomes of a deployment that answers for a push.
Carried(k) ==
  \/ job'[k].status = job[k].status
  \/ /\ job[k].status \in Live
     /\ \/ job'[k].status \in Live \cup {"failed"}
        \/ job'[k].status = "cancelled" /\ Decided(k)'

LEMMA AnsweringStays ==
  ASSUME TypeOK, NEW a \in App, NEW k \in Job, Answering(a, k), SameJob(k), Carried(k),
         site'[a].desired = site[a].desired,
         site[a].active = site'[a].active
           \/ (site'[a].active \in Job /\ site[a].active < site'[a].active)
  PROVE  Answering(a, k)'
<1>1. k \in Of(a)'
  BY DEF Answering, Of, SameJob, Carried, Live
<1>2. k <= site[a].active => k <= site'[a].active
  BY DEF TypeOK, SiteType, Job, None
<1> QED
  BY <1>1, <1>2 DEF Answering, SameJob, Carried

\* Users' requests: what a newer push or deploy cancels, the newer one answers for.
LEMMA UserPushed ==
  ASSUME Held1, QueueFits, Pushed, User
  PROVE  Pushed'
<1> USE DEF Held1
<1>1. \A a \in App : site'[a].active = site[a].active
  BY UserEffect
<1>2. ASSUME NEW a \in App, NEW c \in Commit, Enqueue(a, "deploy", c),
             site' = [site EXCEPT ![a].desired = c]
      PROVE  Pushed'
  <2>1. PICK n \in Job :
              /\ Enlisted(n)
              /\ job'[n].app = a /\ job'[n].commit = c
              /\ \A k \in Job \ {n} :
                   /\ SameJob(k)
                   /\ \/ job'[k].status = job[k].status
                      \/ /\ job[k].app = a
                         /\ job[k].status = "queued" /\ job'[k].status = "cancelled"
    BY <1>2, EnqueueMoves
  <2>2. site'[a].desired = c /\ \A b \in App \ {a} : site'[b].desired = site[b].desired
    BY <1>2 DEF TypeOK, SiteType
  <2>3. Answering(a, n)'
    BY <2>1, <2>2 DEF Answering, Of, Enlisted, Live
  <2>4. ASSUME NEW b \in App \ {a}, NEW k \in Job, Answering(b, k)
        PROVE  Answering(b, k)'
    <3>1. k # n /\ job[k].app # a
      BY <2>1, <2>4 DEF Answering, Of, Enlisted
    <3> QED
      BY <1>1, <2>1, <2>2, <2>4, <3>1, AnsweringStays DEF Carried
  <2> QED
    BY <2>2, <2>3, <2>4 DEF Pushed
<1>3. ASSUME \A k \in Job : job[k].status # "none" =>
                              SameJob(k) /\ Carried(k),
             \A a \in App : site'[a].desired = site[a].desired
      PROVE  Pushed'
  <2>1. ASSUME NEW a \in App, NEW k \in Job, Answering(a, k)
        PROVE  Answering(a, k)'
    BY <1>1, <1>3, <2>1, AnsweringStays DEF Answering, Of
  <2> QED
    BY <1>3, <2>1 DEF Pushed
<1>4. ASSUME NEW a \in App, NEW act \in {"republish", "stop"},
             NEW c \in Commit \cup {NoCommit}, Enqueue(a, act, c), UNCHANGED site
      PROVE  Pushed'
  <2>1. PICK n \in Job :
              /\ Enlisted(n)
              /\ \A k \in Job \ {n} :
                   /\ SameJob(k)
                   /\ \/ job'[k].status = job[k].status
                      \/ act = "deploy"
    BY <1>4, EnqueueMoves
  <2> QED
    BY <1>3, <1>4, <2>1 DEF Carried, Enlisted
<1>5. ASSUME NEW a \in App, NEW c \in Commit, Push(a, c), ~Enqueue(a, "deploy", c)
      PROVE  Pushed'
  <2>1. /\ Answers(a, c)
        /\ job' = [i \in Job |-> CancelOne(job[i], Is(i, a, {"queued"}) /\ job[i].commit # c)]
        /\ site' = [site EXCEPT ![a].desired = c]
    BY <1>5 DEF Push
  <2>2. ASSUME NEW k \in Job
        PROVE  /\ SameJob(k)
               /\ \/ job'[k].status = job[k].status
                  \/ job[k].app = a /\ job[k].status = "queued" /\ job[k].commit # c
    <3>1. job'[k] = CancelOne(job[k], Is(k, a, {"queued"}) /\ job[k].commit # c)
      BY <2>1
    <3>2. CASE Is(k, a, {"queued"}) /\ job[k].commit # c
      <4>1. /\ job[k].app = a /\ job[k].status = "queued" /\ job[k].commit # c
            /\ job'[k] = [job[k] EXCEPT !.status = "cancelled"]
        BY <3>1, <3>2, Zenon DEF CancelOne, Is
      <4> QED
        BY <4>1 DEF SameJob, Decided, TypeOK, JobType
    <3>3. CASE ~(Is(k, a, {"queued"}) /\ job[k].commit # c)
      <4>1. job'[k] = job[k]
        BY <3>1, <3>3, Zenon DEF CancelOne
      <4> QED
        BY <4>1, SameStays
    <3> QED
      BY <3>2, <3>3
  <2>3. site'[a].desired = c /\ \A b \in App \ {a} : site'[b].desired = site[b].desired
    BY <2>1 DEF TypeOK, SiteType
  <2>4. \E k \in Job : Answering(a, k)'
    <3>1. CASE \E k \in Job : Is(k, a, Live) /\ job[k].commit = c
      <4>1. PICK k \in Job : Is(k, a, Live) /\ job[k].commit = c
        BY <3>1
      <4> QED
        BY <2>2, <2>3, <4>1 DEF Answering, Of, Is, Live, SameJob
    <3>2. CASE site[a].active # None /\ job[site[a].active].commit = c
      <4> DEFINE k == site[a].active
      <4>1. k \in Job /\ job[k].app = a /\ job[k].status = "ready"
        BY <3>2 DEF TypeOK, SiteType, QueueFits
      <4>2. job'[k].status = "ready" /\ SameJob(k)
        BY <2>2, <4>1
      <4>3. k <= site'[a].active
        BY <1>1, <4>1 DEF Job
      <4> QED
        BY <2>3, <3>2, <4>1, <4>2, <4>3 DEF Answering, Of, SameJob
    <3> QED
      BY <2>1, <3>1, <3>2 DEF Answers
  <2>5. ASSUME NEW b \in App \ {a}, NEW k \in Job, Answering(b, k)
        PROVE  Answering(b, k)'
    BY <1>1, <2>2, <2>3, <2>5, AnsweringStays DEF Carried, Answering, Of
  <2> QED
    BY <2>3, <2>4, <2>5 DEF Pushed
<1>6. ASSUME NEW i \in Job, Cancel(i)
      PROVE  Pushed'
  <2> DEFINE e == IF job[i].status = "queued" THEN "cancelled" ELSE job[i].status
             j == [job[i] EXCEPT !.cancel = TRUE, !.status = e]
  <2>1. job' = [job EXCEPT ![i] = j] /\ UNCHANGED site
    BY <1>6 DEF Cancel
  <2>2. job[i] \in JobType /\ job[i].status \in Live
    BY <1>6 DEF TypeOK, Cancel, Cancellable
  <2>3. e = job[i].status \/ e = "cancelled"
    OBVIOUS
  <2> HIDE DEF e
  <2>4. /\ j.app = job[i].app /\ j.action = job[i].action /\ j.commit = job[i].commit
        /\ j.cancel = TRUE /\ j.status = e
    BY <2>2 DEF JobType
  <2> HIDE DEF j
  <2>5. SameJob(i) /\ Carried(i)
    BY <2>1, <2>2, <2>3, <2>4 DEF SameJob, Carried, Decided, TypeOK
  <2>6. \A k \in Job \ {i} : job'[k] = job[k]
    BY <2>1 DEF TypeOK
  <2> QED
    BY <1>3, <2>1, <2>5, <2>6, SameStays DEF Carried
<1>7. ASSUME NEW a \in App, RequestDeletion(a)
      PROVE  Pushed'
  BY <1>3, <1>7, SameStays DEF RequestDeletion, Carried
<1>8. ASSUME NEW a \in App, NEW i \in Job, Republish(a, i)
      PROVE  Pushed'
  <2>1. job[i].commit \in Commit \cup {NoCommit}
    BY DEF TypeOK, JobType
  <2> QED
    BY <1>4, <1>8, <2>1 DEF Republish
<1>9. ASSUME NEW a \in App, Stop(a)
      PROVE  Pushed'
  <2>1. site[a].desired \in Commit \cup {NoCommit}
    BY DEF TypeOK, SiteType
  <2> QED
    BY <1>4, <1>9, <2>1 DEF Stop
<1>10. ASSUME NEW a \in App, NEW c \in Commit, Deploy(a, c) \/ Push(a, c)
       PROVE  Pushed'
  BY <1>2, <1>5, <1>10 DEF Deploy, Push
<1> QED
  BY <1>6, <1>7, <1>8, <1>9, <1>10 DEF User

LEMMA CarriedPushed ==
  ASSUME TypeOK, Pushed,
         \A k \in Job : job[k].status # "none" => SameJob(k) /\ Carried(k),
         \A a \in App : /\ site'[a].desired = site[a].desired
                        /\ site'[a].active = site[a].active
  PROVE  Pushed'
<1>1. ASSUME NEW a \in App, NEW k \in Job, Answering(a, k)
      PROVE  Answering(a, k)'
  BY <1>1, AnsweringStays DEF Answering, Of
<1> QED
  BY <1>1 DEF Pushed

\* A claim, a heartbeat, and the reports that a deployment ended otherwise.
LEMMA EndPushed ==
  ASSUME Held1, Pushed, Reasoned, Claim \/ Beat \/ Gate \/ Tell \/ Reconcile
  PROVE  Pushed'
<1> USE DEF Held1
<1>1. CASE Claim
  <2>1. \A k \in Job : job[k].status # "none" => SameJob(k) /\ Carried(k)
    BY <1>1, ClaimMoves DEF Reapable, Claimed, Carried, SameJob, Decided, Live
  <2> QED
    BY <1>1, <2>1, ClaimMoves, CarriedPushed
<1>2. CASE Beat \/ Gate
  <2>1. On \in Job /\ job[On].status = "running" /\ (job' = Beaten(On) \/ job' = Admitted(On))
        /\ UNCHANGED site
    <3>1. On \in Job
      BY <1>2, OnRuns DEF Beat, Gate, Held, Building, Places, At
    <3> QED
      BY <1>2, <3>1 DEF Beat, Gate
  <2>2. \A k \in Job : SameJob(k) /\ Carried(k)
    BY <2>1, BeatMoves DEF Carried
  <2> QED
    BY <2>1, <2>2, CarriedPushed
<1>3. CASE UNCHANGED <<job, site>>
  BY <1>3, SameStays, CarriedPushed DEF Carried
<1>4. ASSUME NEW i \in Job, job[i].status = "running", NEW o \in {"failed", "cancelled"},
             o = "cancelled" => Decided(i), job' = Finished(i, o), UNCHANGED site
      PROVE  Pushed'
  <2>1. /\ \A k \in Job \ {i} : job'[k] = job[k]
        /\ SameJob(i)
        /\ \/ job'[i].status = "cancelled" /\ (job[i].cancel \/ o = "cancelled")
           \/ job'[i].status = "failed"
    BY <1>4, FinishedMoves
  <2>2. Carried(i)
    BY <1>4, <2>1 DEF Carried, SameJob, Decided, Live
  <2>3. \A k \in Job : SameJob(k) /\ Carried(k)
    BY <2>1, <2>2, SameStays DEF Carried
  <2> QED
    BY <1>4, <2>3, CarriedPushed
<1>5. CASE Tell
  <2>1. worker.on \in Job /\ job[worker.on].status = "running"
    BY <1>5, OnRuns DEF Tell, Held, At, Places, Building, On
  <2>2. worker.outcome \in {"failed", "cancelled"}
    BY DEF TypeOK
  <2>3. worker.outcome = "cancelled" => Decided(worker.on)
    BY <1>5 DEF Reasoned, Tell, At
  <2> QED
    BY <1>3, <1>4, <1>5, <2>1, <2>2, <2>3 DEF Tell, On
<1>6. CASE Reconcile
  BY <1>3, <1>4, <1>6, ReconcileKeeps DEF Reconcile
<1> QED
  BY <1>1, <1>2, <1>5, <1>6

\* A success is newer than what was published before.
LEMMA ReportPushed ==
  ASSUME Held1, QueueFits, Pushed, Report
  PROVE  Pushed'
<1> USE DEF Held1
<1>1. CASE UNCHANGED <<job, site>>
  BY <1>1, SameStays, CarriedPushed DEF Carried
<1>2. CASE job[On].status = "running" /\ Publishes(On)
  <2>1. On \in Job
    BY ReportKeeps
  <2>2. /\ \A k \in Job \ {On} : job'[k] = job[k]
        /\ SameJob(On) /\ job'[On].status = "ready" /\ Its \in App
        /\ \A a \in App : site'[a].desired = site[a].desired
        /\ \A a \in App : site'[a].active = IF a = Its /\ job[On].action # "stop" THEN On
                                            ELSE site[a].active
    BY <1>2, <2>1, PublishesMoves DEF Its
  <2>3. site[Its].active = None \/ (site[Its].active \in Job /\ site[Its].active < On)
    <3>1. \A k \in Job : job[k].app = job[On].app /\ job[k].status = "ready" => k < On
      BY <1>2, <2>1 DEF QueueFits
    <3>2. site[Its].active # None => /\ site[Its].active \in Job
                                     /\ job[site[Its].active].app = Its
                                     /\ job[site[Its].active].status = "ready"
      BY <2>2 DEF QueueFits, TypeOK, SiteType
    <3> QED
      BY <3>1, <3>2 DEF Its
  <2>4. \A a \in App : site[a].active = site'[a].active
                       \/ (site'[a].active \in Job /\ site[a].active < site'[a].active)
    BY <2>1, <2>2, <2>3 DEF Job, None
  <2>5. ASSUME NEW a \in App, NEW k \in Job, Answering(a, k)
        PROVE  Answering(a, k)'
    <3>1. CASE k = On
      <4>1. k \in Of(a)' /\ job'[k].commit = site'[a].desired
        BY <2>2, <2>5, <3>1 DEF Answering, Of, SameJob
      <4>2. k <= site'[a].active \/ job'[k].action = "stop"
        BY <2>1, <2>2, <2>5, <3>1 DEF Answering, Of, SameJob, Its, Job
      <4> QED
        BY <2>2, <3>1, <4>1, <4>2 DEF Answering
    <3>2. CASE k # On
      BY <2>2, <2>4, <2>5, <3>2, SameStays, AnsweringStays DEF Carried
    <3> QED
      BY <3>1, <3>2
  <2> QED
    BY <2>2, <2>5 DEF Pushed
<1> QED
  BY <1>1, <1>2, ReportKeeps

LEMMA ErasedPushed ==
  ASSUME TypeOK, Pushed, NEW a \in App, Erased(a)
  PROVE  Pushed'
<1>1. site'[a].desired = NoCommit
  BY DEF Erased, TypeOK, NewSite
<1>2. ASSUME NEW b \in App \ {a}, NEW k \in Job, Answering(b, k)
      PROVE  Answering(b, k)'
  <2>1. k \notin Of(a)
    BY <1>2 DEF Answering, Of
  <2>2. job'[k] = job[k] /\ site'[b] = site[b]
    BY <1>2, <2>1 DEF Erased, TypeOK
  <2> QED
    BY <1>2, <2>2, SameStays, AnsweringStays DEF Carried
<1>3. \A b \in App \ {a} : site'[b] = site[b]
  BY DEF Erased, TypeOK
<1> QED
  BY <1>1, <1>2, <1>3 DEF Pushed

LEMMA PushedStep == Held1 /\ QueueFits /\ Reasoned /\ Pushed /\ [Next]_vars => Pushed'
<1> SUFFICES ASSUME Held1, QueueFits, Reasoned, Pushed, [Next]_vars PROVE Pushed'
  OBVIOUS
<1> USE DEF Held1
<1>1. CASE UNCHANGED <<job, site>>
  BY <1>1, SameStays, CarriedPushed DEF Carried
<1>2. CASE ReportErased
  BY <1>2, ErasedPushed DEF ReportErased, TypeOK
<1>3. CASE Quiet \/ EraseFails \/ \E a \in App : ClaimDeletion(a)
  BY <1>1, <1>3, QuietEffect, DeletionKeeps DEF records
<1>4. CASE UNCHANGED vars
  BY <1>1, <1>4 DEF vars, records
<1> QED
  BY <1>2, <1>3, <1>4, UserPushed, EndPushed, ReportPushed DEF Next, Progress, Quiet

\* What the worker is about to report as cancelled has been decided about.
LEMMA GateReasoned ==
  ASSUME Held1, Beat \/ Gate, worker'.at = "undo", worker'.outcome = "cancelled"
  PROVE  worker'.on = worker.on /\ Decided(worker.on)'
<1> USE DEF Held1
<1>1. On \in Job /\ job[On].status = "running"
  BY OnRuns DEF Beat, Gate, Held, Building, Places, At
<1>2. worker' = [worker EXCEPT !.at = "undo", !.outcome = "cancelled"]
  BY DEF Beat, Gate, Fails, Goto, TypeOK, Building, At
<1>3. CASE Beat
  <2>1. job'[On].cancel
    BY <1>3 DEF Beat, TypeOK, Building
  <2> QED
    BY <1>2, <2>1 DEF Decided, On, TypeOK
<1>4. CASE Gate
  <2>1. (job[On].action = "deploy" /\ job'[On].cancel) \/ ~Wanted(On)
    BY <1>4 DEF Gate, Fails, Goto, TypeOK, At
  <2>2. job[On].action = "deploy"
    BY <2>1 DEF Wanted
  <2> DEFINE c == Obsolete(On)
             g == job[On].action = "deploy" /\ ~c
             j == [job[On] EXCEPT !.cancel = c, !.gate = g]
  <2>3. c \in BOOLEAN /\ g \in BOOLEAN
    BY <1>1 DEF TypeOK, JobType, Obsolete, Superseded
  <2>4. job' = [job EXCEPT ![On] = j]
    BY <1>4 DEF Gate, Admitted
  <2>5. c \/ g
    BY <2>2
  <2>6. job[On] \in JobType
    BY <1>1 DEF TypeOK
  <2> HIDE DEF c, g
  <2>7. j.action = job[On].action /\ j.cancel = c /\ j.gate = g
    BY <2>3, <2>6 DEF JobType
  <2> HIDE DEF j
  <2>8. job'[On] = j
    BY <1>1, <2>4 DEF TypeOK
  <2> QED
    BY <1>2, <2>2, <2>5, <2>7, <2>8 DEF Decided, On, TypeOK
<1> QED
  BY <1>3, <1>4

LEMMA ReasonedStep ==
  ASSUME Held1, ShownFits, DecidedFits, Reasoned, [Next]_vars
  PROVE  Reasoned'
<1> USE DEF Held1
<1> SUFFICES ASSUME worker'.at \in {"undo", "settle", "tell"}, worker'.outcome = "cancelled"
             PROVE  Decided(worker.on)'
  BY DEF Reasoned, Decided
<1>1. ASSUME worker'.on = worker.on, Decided(worker.on), worker.on \in Job,
             job[worker.on].status # "none"
      PROVE  Decided(worker.on)'
  BY <1>1, SameStep DEF SameJob, Decided
<1>2. CASE worker' = worker
  <2>1. worker.on \in Job /\ job[worker.on].status # "none"
    BY <1>2 DEF HandFits, LeaseIsHeld, InHand, Held, Places, Building, On
  <2> QED
    BY <1>1, <1>2, <2>1 DEF Reasoned
<1>3. CASE Beat \/ Gate
  <2>1. CASE worker' = worker
    BY <1>2, <2>1
  <2>2. CASE worker' # worker
    <3>1. worker'.at = "undo"
      BY <1>3, <2>2 DEF Beat, Gate, Fails, Goto, TypeOK
    <3> QED
      BY <1>3, <3>1, GateReasoned DEF Decided
  <2> QED
    BY <2>1, <2>2
<1>4. CASE Undo \/ Settle
  <2>1. /\ worker.at \in {"undo", "settle"} /\ worker'.on = worker.on
        /\ worker.outcome = "cancelled"
    BY <1>4 DEF Undo, Settle, Goto, Rest, Idle, TypeOK, At
  <2>2. worker.on \in Job /\ job[worker.on].status # "none"
    BY <2>1 DEF HandFits, LeaseIsHeld, InHand, Held, Places, Building, On
  <2> QED
    BY <1>1, <2>1, <2>2 DEF Reasoned
<1>5. CASE Verify
  <2>1. /\ worker'.on = worker.on /\ ~Wanted(On) /\ UNCHANGED records
    BY <1>5 DEF Verify, Goto, Fails, TypeOK, At
  <2>2. job[On].action = "deploy"
    BY <2>1 DEF Wanted
  <2>3. On \in Job /\ job[On].status = "running"
    BY <1>5, OnRuns DEF Verify, At, Held, Places, Building
  <2>4. Its \in App
    BY <2>3 DEF TypeOK, JobType, Its
  <2>5. routes[Its] = On
    BY <1>5, <2>2, <2>4 DEF ShownFits, AheadRoutes, Ahead, Verify, At, TypeOK, MarkerType
  <2>6. job[On].gate
    BY <2>2, <2>3, <2>4, <2>5 DEF DecidedFits, Publishable, Job, None
  <2> QED
    BY <1>1, <2>1, <2>2, <2>3, <2>6 DEF Decided, On
<1>6. CASE Halt \/ Confirm \/ BuildFails
  BY <1>6 DEF Halt, Confirm, BuildFails, Goto, Fails, TypeOK
<1>7. CASE User
  BY <1>2, <1>7, UserEffect
<1>8. CASE Claim \/ Mark \/ Build \/ Pause \/ Start \/ Save \/ Route
  BY <1>2, <1>8 DEF Claim, Mark, Build, Pause, Start, Save, Route, Goto, Idle, TypeOK
<1>9. CASE Report \/ Retire \/ Tell \/ Reconcile \/ Crash
  BY <1>2, <1>9 DEF Report, Retire, Tell, Reconcile, Crash, Goto, Rest, Idle, TypeOK
<1>10. CASE Erase \/ Raze \/ ReportErased \/ EraseFails \/ \E a \in App : ClaimDeletion(a)
  <2>1. CASE Erase \/ Raze \/ ReportErased \/ EraseFails
    BY <2>1 DEF Erase, Raze, ReportErased, EraseFails, Goto, Rest, Idle, TypeOK
  <2>2. ASSUME NEW a \in App, ClaimDeletion(a)
        PROVE  Decided(worker.on)'
    BY <1>2, <2>2 DEF ClaimDeletion, Idle
  <2> QED
    BY <1>10, <2>1, <2>2
<1>11. CASE UNCHANGED vars
  BY <1>2, <1>11 DEF vars
<1> QED
  BY <1>3, <1>4, <1>5, <1>6, <1>7, <1>8, <1>9, <1>10, <1>11 DEF Next, Progress

LEMMA InitPushed == Init => Pushed /\ Reasoned
BY DEF Init, Pushed, Reasoned, NewSite, Idle

\* Once nothing waits or runs of an application, the revision its branch was last seen at
\* has been published, or a deployment of it ended otherwise: neither a deployment that
\* replaced another, nor a lease that ran out or a report that was lost, drops a push.
THEOREM PushAnswered == Spec => []LastPushAnswered
<1>1. Pushed => LastPushAnswered
  BY DEF Pushed, LastPushAnswered, Answering, Decided, Of, Is
<1>2. /\ Held1 /\ ShownFits /\ DecidedFits /\ QueueFits /\ Reasoned /\ Pushed
      /\ [Next]_vars
      => (Held1 /\ ShownFits /\ DecidedFits /\ QueueFits /\ Reasoned /\ Pushed)'
  BY HeldStep, ShownStep, DecidedStep, QueueStep, ReasonedStep, PushedStep
<1>3. Init => Held1 /\ ShownFits /\ DecidedFits /\ QueueFits /\ Reasoned /\ Pushed
  BY InitHeld, InitShown, InitDecided, InitQueue, InitPushed
<1> QED
  BY <1>1, <1>2, <1>3, PTL DEF Spec

(***************************************************************************)
(* Visitors are not routed to a version without containers.  The same      *)
(* holds of the routes that may be returned to, and what is in hand is     *)
(* none of those before it is ready on record.                             *)
(***************************************************************************)

\* By the records j, whoever is routed to i of application a finds it running, or a
\* later deployment has set out to stop the application.
Serves(j, a, i, running) ==
  i # None => /\ i \in Job /\ j[i].app = a /\ j[i].status # "none"
              /\ \/ i \in running
                 \/ \E k \in Job : /\ j[k].app = a /\ j[k].status # "none"
                                   /\ j[k].action = "stop" /\ i < k

\* The routes that are returned to if the deployment in hand fails.
Former(a) == IF marker.saved THEN marker.previous[a] ELSE routes[a]

RoutesServe ==
  \A a \in App : /\ Serves(job, a, routes[a], up \cup marker.recreate)
                 /\ Serves(job, a, Former(a), up \cup marker.recreate)

\* The application of the deployment that the marker names.
Marked == job[marker.on].app

MarkerAlive ==
  /\ marker.on = None => marker.recreate = {}
  /\ marker.on # None =>
       /\ job[marker.on].status \notin {"none", "queued", "erased"}
       /\ marker.recreate \subseteq Of(Marked)
       /\ job[marker.on].status # "ready" => Former(Marked) # marker.on
       /\ job[marker.on].status = "ready" =>
            IF job[marker.on].action = "stop" THEN routes[Marked] = None
            ELSE routes[Marked] = marker.on /\ marker.on \in up

\* Where the deployment in hand has been started, unless it is a stop.
Started == {"health", "save", "route", "verify", "report", "confirm"}

HandAlive ==
  /\ worker.at \in Started /\ job[worker.on].action # "stop" => worker.on \in up
  /\ worker.at = "halt" => job[worker.on].action = "stop"
  /\ worker.at = "verify" => job[worker.on].action # "stop"
  /\ worker.at = "build" => marker.recreate = {}
  /\ worker.at = "tell" => \A a \in App : Serves(job, a, routes[a], up)
  /\ worker.at = "raze" => routes[worker.erasing] = None

AliveFits == RoutesServe /\ MarkerAlive /\ HandAlive

\* No step takes a deployment from its application.
JobsStay(j, l) == \A k \in Job : j[k].status # "none" =>
                    l[k].app = j[k].app /\ l[k].action = j[k].action /\ l[k].status # "none"

LEMMA StepStays ==
  ASSUME Held1, [Next]_vars
  PROVE  JobsStay(job, job')
BY SameStep DEF JobsStay, SameJob

LEMMA ServesStays ==
  ASSUME NEW j, NEW l, JobsStay(j, l), NEW a, NEW i, NEW S, NEW T,
         Serves(j, a, i, S), i \in S => i \in T
  PROVE  Serves(l, a, i, T)
BY DEF Serves, JobsStay

\* The steps that change nothing on the host but what the worker is at.
LEMMA HostAlive ==
  ASSUME Held1, AliveFits, [Next]_vars, UNCHANGED host,
         marker.on # None => /\ job'[marker.on].status \notin {"none", "queued", "erased"}
                             /\ job'[marker.on].status = "ready" <=> job[marker.on].status = "ready",
         worker'.at \in Started => worker.at \in Started /\ worker'.on = worker.on,
         worker'.at \in {"halt", "verify", "build", "tell", "raze"} => worker' = worker
  PROVE  AliveFits'
<1> USE DEF Held1, host
<1>1. JobsStay(job, job')
  BY StepStays
<1>2. RoutesServe'
  BY <1>1, ServesStays DEF AliveFits, RoutesServe, Former
<1>3. marker.on # None => /\ job'[marker.on].app = job[marker.on].app
                          /\ job'[marker.on].action = job[marker.on].action
  BY <1>1 DEF JobsStay, AliveFits, MarkerAlive, TypeOK, MarkerType
<1>4. \A a \in App : Of(a) \subseteq Of(a)'
  BY <1>1 DEF JobsStay, Of
<1>5. marker.on # None => Marked \in App
  BY DEF Marked, TypeOK, MarkerType, JobType
<1>6. MarkerAlive'
  BY <1>3, <1>4, <1>5 DEF AliveFits, MarkerAlive, Marked, Former
<1>7. worker.at \in Started \cup {"halt"} => job'[worker.on].action = job[worker.on].action
  BY <1>1 DEF JobsStay, Started, HandFits, LeaseIsHeld, InHand, Held, Places, Building, On
<1>8. \A a \in App : Serves(job, a, routes[a], up) => Serves(job', a, routes[a], up)
  BY <1>1, ServesStays
<1>9. HandAlive'
  BY <1>7, <1>8 DEF AliveFits, HandAlive, Started
<1> QED
  BY <1>2, <1>6, <1>9 DEF AliveFits

\* The requests of users, the claims, and what the worker does without the host.
LEMMA RecordAlive ==
  ASSUME Held1, AliveFits,
         \/ User \/ Claim \/ Beat \/ Gate \/ BuildFails \/ Crash \/ Verify \/ Confirm
         \/ EraseFails \/ ReportErased \/ \E a \in App : ClaimDeletion(a)
  PROVE  AliveFits'
<1> USE DEF Held1, Started
<1> DEFINE m == marker.on
<1>1. [Next]_vars
  BY DEF Next, Progress
<1>2. m # None => m \in Job
  BY DEF TypeOK, MarkerType
<1> HIDE DEF m
<1>3. CASE User
  <2>1. m # None => /\ job'[m].status \notin {"none", "queued", "erased"}
                    /\ job'[m].status = "ready" <=> job[m].status = "ready"
    BY <1>2, <1>3, UserMoves DEF Asked, Enlisted, AliveFits, MarkerAlive, m
  <2> QED
    BY <1>1, <1>3, <2>1, UserEffect, HostAlive DEF host, m
<1>4. CASE Claim
  <2>1. m = None /\ UNCHANGED host
    BY <1>4 DEF Claim, Ready, m
  <2>2. worker' = worker \/ worker'.at = "mark"
    BY <1>4 DEF Claim, Idle
  <2> QED
    BY <1>1, <2>1, <2>2, HostAlive DEF m
<1>5. CASE Beat \/ Gate
  <2>1. \A k \in Job : job'[k].status = job[k].status
    BY <1>5, BeatKeeps, GateKeeps
  <2>2. UNCHANGED host
    BY <1>5 DEF Beat, Gate
  <2>3. \/ worker' = worker
        \/ worker'.at = "undo"
        \/ worker.at = "health" /\ worker'.on = worker.on /\ worker'.at = "save"
    BY <1>5 DEF Beat, Gate, Fails, Goto, At, TypeOK
  <2> QED
    BY <1>1, <1>2, <2>1, <2>2, <2>3, HostAlive DEF m, AliveFits, MarkerAlive
<1>6. CASE UNCHANGED job /\ UNCHANGED host
  <2>1. m # None => /\ job'[m].status \notin {"none", "queued", "erased"}
                    /\ job'[m].status = "ready" <=> job[m].status = "ready"
    BY <1>6 DEF AliveFits, MarkerAlive, m
  <2>2. CASE BuildFails \/ Crash \/ Confirm \/ EraseFails
    <3>1. worker'.at \in {"undo", "idle", "retire", "settle"}
      <4>1. CASE BuildFails \/ Confirm
        BY <4>1 DEF BuildFails, Confirm, Fails, Goto, TypeOK
      <4>2. CASE Crash \/ EraseFails
        BY <4>2 DEF Crash, EraseFails, Rest, Idle
      <4> QED
        BY <2>2, <4>1, <4>2
    <3> QED
      BY <1>1, <1>6, <2>1, <3>1, HostAlive DEF m
  <2>3. CASE Verify
    <3>1. \/ worker'.at = "undo"
          \/ worker.at = "verify" /\ worker'.on = worker.on /\ worker'.at = "report"
      BY <2>3 DEF Verify, Fails, Goto, At, TypeOK
    <3> QED
      BY <1>1, <1>6, <2>1, <3>1, HostAlive DEF m
  <2>4. ASSUME NEW a \in App, ClaimDeletion(a)
        PROVE  AliveFits'
    <3>1. worker' = worker \/ worker'.at = "erase"
      BY <2>4 DEF ClaimDeletion, Idle
    <3> QED
      BY <1>1, <1>6, <2>1, <3>1, HostAlive DEF m
  <2>5. CASE User \/ Claim \/ Beat \/ Gate
    BY <1>3, <1>4, <1>5, <2>5
  <2>6. CASE ReportErased
    <3>1. m = None /\ worker'.at = "idle"
      BY <2>6 DEF ReportErased, At, HandFits, Rest, Idle, m
    <3> QED
      BY <1>1, <1>6, <3>1, HostAlive DEF m
  <2> QED
    BY <2>2, <2>3, <2>4, <2>5, <2>6
<1>7. CASE ReportErased
  <2>1. m = None /\ worker'.at = "idle" /\ UNCHANGED host
    BY <1>7 DEF ReportErased, At, HandFits, Rest, Idle, m
  <2> QED
    BY <1>1, <2>1, HostAlive DEF m
<1>8. BuildFails \/ Crash \/ Verify \/ Confirm \/ EraseFails \/ (\E a \in App : ClaimDeletion(a))
      => UNCHANGED job /\ UNCHANGED host
  BY DEF BuildFails, Crash, Verify, Confirm, EraseFails, ClaimDeletion, records
<1> QED
  BY <1>3, <1>4, <1>5, <1>6, <1>7, <1>8

\* From the marker to the containers of the candidate.
LEMMA BuildingAlive ==
  ASSUME Held1, QueueFits, ShownFits, AliveFits, Mark \/ Build \/ Pause \/ Start \/ Save
  PROVE  AliveFits'
<1> USE DEF Held1
<1>1. worker.on \in Job /\ job[worker.on].status = "running" /\ Its \in App /\ UNCHANGED records
  <2>1. worker.on \in Job /\ job[worker.on].status = "running"
    BY OnRuns DEF Mark, Build, Pause, Start, Save, At, Held, Places, Building, On
  <2> QED
    BY <2>1 DEF Mark, Build, Pause, Start, Save, TypeOK, JobType, Its, On
<1>2. ASSUME routes' = routes, \A a \in App : Former(a)' = Former(a),
             up \cup marker.recreate \subseteq up' \cup marker'.recreate,
             marker'.on = worker.on, marker'.recreate \subseteq Of(Its),
             Former(Its) # worker.on, HandAlive'
      PROVE  AliveFits'
  <2>1. RoutesServe'
    BY <1>1, <1>2, ServesStays DEF AliveFits, RoutesServe, JobsStay, records
  <2>2. PICK a \in App : a = Its
    BY <1>1
  <2>3. worker.on # None
    BY <1>1 DEF Job, None
  <2>4. Former(a)' = Former(a) /\ Of(a)' = Of(a) /\ Marked' = a
    BY <1>1, <1>2, <2>2 DEF Marked, Its, On, Of, records
  <2>5. Former(a)' # marker'.on /\ marker'.recreate \subseteq Of(a)'
    BY <1>2, <2>2, <2>4
  <2>6. job'[marker'.on].status = "running"
    BY <1>1, <1>2 DEF records
  <2>7. MarkerAlive'
    BY <1>2, <2>3, <2>4, <2>5, <2>6 DEF MarkerAlive, Former, Of
  <2> QED
    BY <1>2, <2>1, <2>7 DEF AliveFits
<1>3. CASE Mark
  <2>1. /\ marker.on = None /\ ~marker.saved /\ marker.recreate = {}
        /\ marker' = [NoMarker EXCEPT !.on = worker.on] /\ UNCHANGED <<routes, up>>
    BY <1>3 DEF Mark, At, HandFits, AliveFits, MarkerAlive, On
  <2>2. marker'.on = worker.on /\ ~marker'.saved /\ marker'.recreate = {}
    BY <2>1 DEF NoMarker
  <2>3. worker' = [worker EXCEPT !.at = IF job[On].action = "stop" THEN "save" ELSE "build"]
    BY <1>3 DEF Mark, Goto
  <2>4. HandAlive'
    BY <1>1, <2>2, <2>3 DEF HandAlive, Started, records, On, TypeOK
  <2>5. routes[Its] # worker.on
    <3>1. deletion[Its] = "no"
      BY <1>1 DEF QueueFits, Is, Live, Its, On
    <3>2. routes[Its] = Recorded(Its)
      BY <1>1, <2>1, <3>1 DEF ShownFits, Shown
    <3> QED
      BY <1>1, <3>2 DEF Recorded, QueueFits, TypeOK, SiteType, Job, None
  <2> QED
    BY <1>1, <1>2, <2>1, <2>2, <2>4, <2>5 DEF Former
<1>4. CASE Build \/ Pause \/ Start \/ Save
  <2>1. /\ marker.on = worker.on /\ ~marker.saved /\ Former(Its) # worker.on
        /\ marker.recreate \subseteq Of(Its)
    BY <1>1, <1>4 DEF Build, Pause, Start, Save, At, HandFits, InHand, Places, Building,
       AliveFits, MarkerAlive, Marked, Its, On, Job, None
  <2>2. CASE Build
    <3>1. /\ marker'.on = marker.on /\ marker'.saved = marker.saved
          /\ marker'.recreate = up \cap Of(Its) \/ marker'.recreate = marker.recreate
          /\ marker'.previous = marker.previous
          /\ worker'.at \in {"pause", "start"} /\ UNCHANGED <<routes, up>>
      BY <2>2 DEF Build, Goto, TypeOK, MarkerType
    <3>2. marker.recreate = {}
      BY <2>2 DEF Build, At, AliveFits, HandAlive
    <3>3. HandAlive'
      BY <3>1 DEF HandAlive, Started
    <3> QED
      BY <1>2, <2>1, <3>1, <3>2, <3>3 DEF Former
  <2>3. CASE Pause
    <3>1. up' = up \ marker.recreate /\ worker'.at = "start" /\ UNCHANGED <<routes, marker>>
      BY <2>3 DEF Pause, Goto, TypeOK
    <3>2. HandAlive'
      BY <3>1 DEF HandAlive, Started
    <3> QED
      BY <1>2, <2>1, <3>1, <3>2 DEF Former
  <2>4. CASE Start
    <3>1. /\ up' = up \cup {worker.on} /\ worker'.at = "health" /\ worker'.on = worker.on
          /\ UNCHANGED <<routes, marker>>
      BY <2>4 DEF Start, Goto, TypeOK, On
    <3>2. HandAlive'
      BY <3>1 DEF HandAlive, Started
    <3> QED
      BY <1>2, <2>1, <3>1, <3>2 DEF Former
  <2>5. CASE Save
    <3>1. /\ marker'.on = marker.on /\ marker'.saved /\ marker'.previous = routes
          /\ marker'.recreate = marker.recreate
          /\ worker'.at = "route" /\ worker'.on = worker.on /\ UNCHANGED <<routes, up>>
      BY <2>5 DEF Save, Goto, TypeOK, MarkerType
    <3>2. HandAlive'
      BY <1>1, <2>5, <3>1 DEF HandAlive, Started, AliveFits, Save, At, records
    <3> QED
      BY <1>2, <2>1, <3>1, <3>2 DEF Former
  <2> QED
    BY <1>4, <2>2, <2>3, <2>4, <2>5
<1> QED
  BY <1>3, <1>4

\* The routes change: to the candidate, or to nothing before a stop.
LEMMA RouteAlive ==
  ASSUME Held1, AliveFits, Route
  PROVE  AliveFits'
<1> USE DEF Held1
<1>1. /\ worker.on \in Job /\ job[worker.on].status = "running" /\ Its \in App
      /\ UNCHANGED records /\ UNCHANGED <<marker, up>>
      /\ marker.on = worker.on /\ marker.saved
  <2>1. worker.on \in Job /\ job[worker.on].status = "running"
    BY OnRuns DEF Route, At, Held, Places, Building, On
  <2> QED
    BY <2>1 DEF Route, At, HandFits, InHand, Places, Building, TypeOK, JobType, Its, On
<1>2. \/ /\ job[worker.on].action = "stop" /\ routes' = [routes EXCEPT ![Its] = None]
         /\ worker' = [worker EXCEPT !.at = "halt"]
      \/ /\ job[worker.on].action # "stop" /\ routes' = [routes EXCEPT ![Its] = worker.on]
         /\ worker' = [worker EXCEPT !.at = "verify"]
  BY DEF Route, Goto, On
<1>3. job[worker.on].action # "stop" => worker.on \in up
  BY DEF Route, At, AliveFits, HandAlive, Started
<1>4. RoutesServe'
  <2>1. ASSUME NEW a \in App
        PROVE  Serves(job, a, routes'[a], up \cup marker.recreate)
    BY <1>1, <1>2, <1>3 DEF AliveFits, RoutesServe, Serves, TypeOK, Its, On
  <2> QED
    BY <1>1, <2>1 DEF RoutesServe, Former, AliveFits, records
<1>5. MarkerAlive'
  BY <1>1, <1>2 DEF MarkerAlive, AliveFits, Marked, Former, Of, records
<1>6. HandAlive'
  BY <1>1, <1>2, <1>3 DEF HandAlive, Started, records, TypeOK
<1> QED
  BY <1>4, <1>5, <1>6 DEF AliveFits

\* A stop goes on with the containers: what it may have to return to is older.
LEMMA HaltAlive ==
  ASSUME Held1, QueueFits, ShownFits, AliveFits, Halt
  PROVE  AliveFits'
<1> USE DEF Held1
<1>1. /\ worker.on \in Job /\ job[worker.on].status = "running" /\ Its \in App
      /\ UNCHANGED records /\ UNCHANGED <<marker, routes>>
      /\ marker.on = worker.on /\ marker.saved /\ job[worker.on].action = "stop"
  <2>1. worker.on \in Job /\ job[worker.on].status = "running"
    BY OnRuns DEF Halt, At, Held, Places, Building, On
  <2> QED
    BY <2>1 DEF Halt, At, HandFits, InHand, Places, Building, TypeOK, JobType, Its, On,
       AliveFits, HandAlive
<1>2. \A i \in up : i \notin Of(Its) => i \in up'
  BY DEF Halt
<1>3. routes[Its] = None
  BY <1>1 DEF Halt, At, ShownFits, Ahead, AheadRoutes, TypeOK, MarkerType, On
<1>4. marker.previous[Its] # None => marker.previous[Its] < worker.on
  <2>1. deletion[Its] = "no"
    BY <1>1 DEF QueueFits, Is, Live, Its, On
  <2>2. marker.previous[Its] = Recorded(Its)
    BY <1>1, <2>1 DEF ShownFits, Shown
  <2> QED
    BY <1>1, <2>2 DEF Recorded, QueueFits, TypeOK, SiteType, Its, On
<1>5. \A a \in App, i \in Job : a # Its /\ job[i].app = a => i \notin Of(Its)
  BY DEF Of
<1>6. RoutesServe'
  <2>1. ASSUME NEW a \in App
        PROVE  /\ Serves(job, a, routes[a], up' \cup marker.recreate)
               /\ Serves(job, a, marker.previous[a], up' \cup marker.recreate)
    <3>1. CASE a = Its
      BY <1>1, <1>3, <1>4, <3>1 DEF Serves, AliveFits, RoutesServe, Former, Its, On
    <3>2. CASE a # Its
      BY <1>1, <1>2, <1>5, <3>2 DEF Serves, AliveFits, RoutesServe, Former
    <3> QED
      BY <3>1, <3>2
  <2> QED
    BY <1>1, <2>1 DEF RoutesServe, Former, records
<1>7. MarkerAlive'
  BY <1>1 DEF MarkerAlive, AliveFits, Marked, Former, Of, records
<1>8. HandAlive'
  <2>1. worker'.at \in {"report", "settle"} /\ worker'.on = worker.on
    BY DEF Halt, Goto, TypeOK
  <2> QED
    BY <1>1, <2>1 DEF HandAlive, Started, records
<1> QED
  BY <1>6, <1>7, <1>8 DEF AliveFits

\* A success is reported: its routes and its containers are there.
LEMMA ReportAlive ==
  ASSUME Held1, ShownFits, AliveFits, Report
  PROVE  AliveFits'
<1> USE DEF Held1
<1>1. /\ worker.on \in Job /\ marker.on = worker.on /\ marker.saved
      /\ job[worker.on].status \in {"running", "ready"}
      /\ UNCHANGED host /\ worker'.on = worker.on /\ worker'.at \in {"confirm", "retire"}
      /\ worker.at \in {"report", "confirm"}
  BY DEF Report, HandFits, LeaseIsHeld, Held, InHand, Places, Building, Goto, TypeOK, On
<1>2. /\ [Next]_vars /\ Its \in App
  BY <1>1 DEF Next, Progress, TypeOK, JobType, Its, On
<1>3. CASE UNCHANGED job
  BY <1>1, <1>2, <1>3, HostAlive DEF AliveFits, MarkerAlive, Started
<1>4. CASE job[On].status = "running" /\ Publishes(On)
  <2>1. job'[worker.on].status = "ready" /\ JobsStay(job, job')
    BY <1>1, <1>2, <1>4, StepStays, PublishesMoves DEF On
  <2>2. job'[worker.on].app = Its /\ job'[worker.on].action = job[worker.on].action
    BY <1>1, <2>1 DEF JobsStay, Its, On
  <2>3. RoutesServe'
    BY <1>1, <2>1, ServesStays DEF AliveFits, RoutesServe, Former, host
  <2>4. routes[Its] = IF job[worker.on].action = "stop" THEN None ELSE worker.on
    BY <1>1, <1>2 DEF ShownFits, Ahead, AheadRoutes, TypeOK, MarkerType, On
  <2>5. job[worker.on].action # "stop" => worker.on \in up
    BY <1>1 DEF AliveFits, HandAlive, Started
  <2>6. marker.recreate \subseteq Of(Its)
    BY <1>1 DEF AliveFits, MarkerAlive, Marked, Its, On, Job, None
  <2>7. \A k \in Of(Its) : job'[k].app = Its /\ job'[k].status # "none"
    BY <2>1 DEF JobsStay, Of
  <2>8. PICK a \in App : a = Its
    BY <1>2
  <2>9. marker'.recreate \subseteq Of(a)'
    BY <1>1, <2>6, <2>7, <2>8 DEF Of, host
  <2>10. MarkerAlive'
    BY <1>1, <2>1, <2>2, <2>4, <2>5, <2>8, <2>9 DEF MarkerAlive, Marked, host, Job, None, Of
  <2>11. HandAlive'
    BY <1>1, <2>2, <2>5 DEF HandAlive, Started, host
  <2> QED
    BY <2>3, <2>10, <2>11 DEF AliveFits
<1> QED
  BY <1>3, <1>4, ReportKeeps

\* The marker goes once the deployment is ready on record.
LEMMA ForgetAlive ==
  ASSUME Held1, AliveFits, marker.on # None, job[marker.on].status = "ready", job' = job,
         routes' = routes, marker' = NoMarker, worker'.at = "idle",
         \/ up' = up
         \/ job[marker.on].action # "stop" /\ up' = (up \ Of(Marked)) \cup {marker.on}
  PROVE  AliveFits'
<1> USE DEF Held1
<1>1. marker.recreate \subseteq Of(Marked)
  BY DEF AliveFits, MarkerAlive
<1>2. IF job[marker.on].action = "stop" THEN routes[Marked] = None
      ELSE routes[Marked] = marker.on /\ marker.on \in up
  BY DEF AliveFits, MarkerAlive
<1>3. ASSUME NEW a \in App
      PROVE  Serves(job, a, routes[a], up')
  <2>1. Serves(job, a, routes[a], up \cup marker.recreate)
    BY DEF AliveFits, RoutesServe
  <2>2. CASE a = Marked
    BY <1>2, <2>1, <2>2 DEF Serves
  <2>3. CASE a # Marked
    BY <1>1, <2>1, <2>3 DEF Serves, Of
  <2> QED
    BY <2>2, <2>3
<1>4. ~marker'.saved /\ marker'.recreate = {} /\ marker'.on = None
  BY DEF NoMarker
<1>5. RoutesServe'
  BY <1>3, <1>4 DEF RoutesServe, Former
<1>6. MarkerAlive' /\ HandAlive'
  BY <1>4 DEF MarkerAlive, HandAlive, Started
<1> QED
  BY <1>5, <1>6 DEF AliveFits

\* What did not become ready is taken back: what is returned to runs, or resumes.
LEMMA TakenBackAlive ==
  ASSUME Held1, AliveFits, marker.on # None, job[marker.on].status # "ready",
         TakenBack(marker.on)
  PROVE  \A a \in App : routes'[a] = Former(a) /\ Serves(job, a, routes'[a], up')
<1> USE DEF Held1
<1>1. SUFFICES ASSUME NEW a \in App
               PROVE  routes'[a] = Former(a) /\ Serves(job, a, routes'[a], up')
  OBVIOUS
<1>2. routes'[a] = Former(a) /\ up' = (up \ {marker.on}) \cup marker.recreate
  BY DEF TakenBack, Former
<1>3. Serves(job, a, Former(a), up \cup marker.recreate)
  BY DEF AliveFits, RoutesServe
<1>4. Former(a) # marker.on \/ a # Marked
  BY DEF AliveFits, MarkerAlive
<1> QED
  BY <1>2, <1>3, <1>4 DEF Serves, Marked

\* The marker stays, for a report or for the next start of the worker.
LEMMA BackAlive ==
  ASSUME Held1, AliveFits, marker.on # None, job[marker.on].status # "ready",
         TakenBack(marker.on), job' = job, marker' = marker,
         worker'.at \in {"idle", "settle", "tell"}
  PROVE  AliveFits'
<1> USE DEF Held1
<1>1. \A a \in App : routes'[a] = Former(a) /\ Serves(job, a, routes'[a], up')
  BY TakenBackAlive
<1>2. \A a \in App : Former(a)' = Former(a)
  BY <1>1 DEF Former
<1>3. \A a \in App : Serves(job, a, routes'[a], up' \cup marker.recreate)
  BY <1>1 DEF Serves
<1>4. RoutesServe'
  BY <1>1, <1>2, <1>3 DEF RoutesServe
<1>5. Marked \in App /\ Marked' = Marked
  BY DEF Marked, TypeOK, MarkerType, JobType
<1>6. PICK a \in App : a = Marked
  BY <1>5
<1>7. Former(a)' # marker.on /\ marker.recreate \subseteq Of(a)
  BY <1>2, <1>6 DEF AliveFits, MarkerAlive
<1>8. MarkerAlive'
  BY <1>5, <1>6, <1>7 DEF AliveFits, MarkerAlive, Former, Of
<1>9. HandAlive'
  BY <1>1 DEF HandAlive, Started
<1> QED
  BY <1>4, <1>8, <1>9 DEF AliveFits

\* The marker goes while what visitors are shown runs.
LEMMA GoneAlive ==
  ASSUME Held1, [Next]_vars, marker' = NoMarker, worker'.at = "idle",
         \A a \in App : Serves(job, a, routes'[a], up')
  PROVE  AliveFits'
<1>1. ~marker'.saved /\ marker'.recreate = {} /\ marker'.on = None
  BY DEF NoMarker
<1>2. \A a \in App : Serves(job', a, routes'[a], up')
  BY StepStays, ServesStays
<1>3. RoutesServe'
  BY <1>1, <1>2 DEF RoutesServe, Former
<1>4. MarkerAlive' /\ HandAlive'
  BY <1>1 DEF MarkerAlive, HandAlive, Started
<1> QED
  BY <1>3, <1>4 DEF AliveFits

\* The ends of a deployment.
LEMMA EndAlive ==
  ASSUME Held1, AliveFits, Retire \/ Undo \/ Settle \/ Tell \/ Reconcile
  PROVE  AliveFits'
<1> USE DEF Held1
<1>1. [Next]_vars
  BY DEF Next, Progress
<1>2. worker' = Idle => worker'.at = "idle"
  BY DEF Idle
<1>3. worker.at \in {"retire", "undo", "settle", "tell"} =>
        worker.on \in Job /\ marker.on = worker.on /\ marker.on # None
  BY DEF HandFits, InHand, Places, Building, Job, None
<1>4. CASE Retire
  <2>1. job' = job /\ routes' = routes /\ marker' = NoMarker /\ worker'.at = "idle"
    BY <1>2, <1>4 DEF Retire, Rest, records
  <2>2. marker.on = worker.on /\ marker.on # None /\ job[marker.on].status = "ready"
    BY <1>3, <1>4 DEF Retire, At, HandFits
  <2>3. up' = up \/ (job[marker.on].action # "stop" /\ up' = (up \ Of(Marked)) \cup {marker.on})
    BY <1>4, <2>2 DEF Retire, On, Its, Marked
  <2> QED
    BY <2>1, <2>2, <2>3, ForgetAlive
<1>5. CASE Undo
  <2>1. marker.on = worker.on /\ marker.on # None /\ job[marker.on].status = "running"
    BY <1>3, <1>5, OnRuns DEF Undo, At, Held, Places, Building, On
  <2> QED
    BY <1>5, <2>1, BackAlive DEF Undo, records, Goto, On, TypeOK
<1>6. CASE Settle
  <2>1. marker.on = worker.on /\ marker.on # None /\ job' = job
    BY <1>3, <1>6 DEF Settle, At, records
  <2>2. CASE job[On].status = "ready" /\ marker' = NoMarker /\ Rest /\ UNCHANGED <<routes, up>>
    BY <1>2, <2>1, <2>2, ForgetAlive DEF On, Rest
  <2>3. CASE job[On].status # "ready" /\ TakenBack(On) /\ Goto("tell") /\ UNCHANGED marker
    BY <2>1, <2>3, BackAlive DEF On, Goto, TypeOK
  <2>4. CASE Rest /\ UNCHANGED host
    BY <1>1, <1>2, <2>1, <2>4, HostAlive DEF Rest, AliveFits, MarkerAlive, Started
  <2> QED
    BY <1>6, <2>2, <2>3, <2>4 DEF Settle
<1>7. CASE Tell
  <2>1. /\ marker.on = worker.on /\ marker.on # None /\ worker.on \in Job
        /\ job[worker.on].status = "running" /\ worker'.at = "idle" /\ UNCHANGED <<routes, up>>
    BY <1>2, <1>3, <1>7, OnRuns DEF Tell, At, Held, Places, Building, On, Rest
  <2>2. CASE marker' = NoMarker
    <3>1. \A a \in App : Serves(job, a, routes'[a], up')
      BY <1>7, <2>1 DEF Tell, At, AliveFits, HandAlive
    <3> QED
      BY <1>1, <2>1, <2>2, <3>1, GoneAlive
  <2>3. CASE marker' = marker
    <3>1. worker.outcome \in {"failed", "cancelled"}
      BY DEF TypeOK
    <3>2. job'[worker.on].status \in {"running", "failed", "cancelled"}
      <4>1. CASE job' = Finished(On, worker.outcome)
        BY <2>1, <3>1, <4>1, FinishedMoves DEF On
      <4> QED
        BY <1>7, <2>1, <4>1 DEF Tell
    <3> QED
      BY <1>1, <2>1, <2>3, <3>2, HostAlive DEF host, Started
  <2> QED
    BY <1>7, <2>2, <2>3 DEF Tell
<1>8. CASE Reconcile
  <2>1. marker.on # None /\ worker' = worker /\ worker'.at = "idle"
    BY <1>8 DEF Reconcile, At
  <2>2. CASE job[marker.on].status = "ready" /\ marker' = NoMarker /\ UNCHANGED <<job, routes, up>>
    BY <2>1, <2>2, ForgetAlive
  <2>3. CASE job[marker.on].status # "ready" /\ TakenBack(marker.on) /\ marker' = NoMarker
    BY <1>1, <2>1, <2>3, TakenBackAlive, GoneAlive
  <2>4. CASE job[marker.on].status # "ready" /\ TakenBack(marker.on) /\ UNCHANGED <<job, marker>>
    BY <2>1, <2>4, BackAlive
  <2> QED
    BY <1>8, <2>2, <2>3, <2>4 DEF Reconcile
<1> QED
  BY <1>4, <1>5, <1>6, <1>7, <1>8

\* A deletion: the routes go before the containers.
LEMMA EraseAlive ==
  ASSUME Held1, AliveFits, Erase \/ Raze
  PROVE  AliveFits'
<1> USE DEF Held1
<1>1. /\ marker.on = None /\ ~marker.saved /\ UNCHANGED marker /\ job' = job
      /\ worker.erasing \in App /\ worker'.erasing = worker.erasing
  BY DEF Erase, Raze, At, HandFits, records, Goto, TypeOK
<1>2. marker.recreate = {}
  BY <1>1 DEF AliveFits, MarkerAlive
<1>3. MarkerAlive'
  BY <1>1, <1>2 DEF MarkerAlive
<1>4. CASE Erase
  <2>1. /\ routes' = [routes EXCEPT ![worker.erasing] = None] /\ up' = up
        /\ worker'.at = "raze"
    BY <1>4 DEF Erase, Goto, TypeOK
  <2>2. ASSUME NEW a \in App
        PROVE  Serves(job, a, routes'[a], up)
    BY <1>2, <2>1 DEF AliveFits, RoutesServe, Serves, TypeOK
  <2>3. RoutesServe'
    BY <1>1, <1>2, <2>1, <2>2 DEF RoutesServe, Former
  <2>4. HandAlive'
    BY <1>1, <2>1 DEF HandAlive, Started, TypeOK
  <2> QED
    BY <1>3, <2>3, <2>4 DEF AliveFits
<1>5. CASE Raze
  <2>1. routes[worker.erasing] = None /\ routes' = routes /\ worker'.at = "erased"
    BY <1>5 DEF Raze, At, AliveFits, HandAlive, Goto, TypeOK
  <2>2. up' = up \ Of(worker.erasing)
    BY <1>5 DEF Raze
  <2>3. ASSUME NEW a \in App
        PROVE  Serves(job, a, routes[a], up')
    <3>1. Serves(job, a, routes[a], up)
      BY <1>2 DEF AliveFits, RoutesServe
    <3>2. a # worker.erasing => \A i \in Job : job[i].app = a => i \notin Of(worker.erasing)
      BY DEF Of
    <3> QED
      BY <2>1, <2>2, <3>1, <3>2 DEF Serves
  <2>4. RoutesServe'
    BY <1>1, <1>2, <2>1, <2>3 DEF RoutesServe, Former
  <2>5. HandAlive'
    BY <2>1 DEF HandAlive, Started
  <2> QED
    BY <1>3, <2>4, <2>5 DEF AliveFits
<1> QED
  BY <1>4, <1>5

LEMMA AliveStep == Held1 /\ QueueFits /\ ShownFits /\ AliveFits /\ [Next]_vars => AliveFits'
<1> SUFFICES ASSUME Held1, QueueFits, ShownFits, AliveFits, [Next]_vars PROVE AliveFits'
  OBVIOUS
<1>1. CASE UNCHANGED vars
  BY <1>1, HostAlive DEF vars, records, host, AliveFits, MarkerAlive
<1> QED
  BY <1>1, RecordAlive, BuildingAlive, RouteAlive, HaltAlive, ReportAlive, EndAlive, EraseAlive
  DEF Next, Progress

LEMMA InitAlive == Init => AliveFits
BY DEF Init, AliveFits, RoutesServe, MarkerAlive, HandAlive, Serves, Former, Started, Idle,
   NoMarker, Nowhere

\* Whatever fails, is cancelled or crashes: the version that visitors are routed to runs,
\* but for one that waits for its containers to resume after a build that mounts storage,
\* or whose containers a later stop had begun to stop.
THEOREM RoutesAlive == Spec => []NoDeadRoute
<1>1. AliveFits => NoDeadRoute
  BY DEF AliveFits, RoutesServe, Serves, NoDeadRoute, Of
<1>2. /\ Held1 /\ QueueFits /\ ShownFits /\ AliveFits /\ [Next]_vars
      => (Held1 /\ QueueFits /\ ShownFits /\ AliveFits)'
  BY HeldStep, QueueStep, ShownStep, AliveStep
<1>3. Init => Held1 /\ QueueFits /\ ShownFits /\ AliveFits
  BY InitHeld, InitQueue, InitShown, InitAlive
<1> QED
  BY <1>1, <1>2, <1>3, PTL DEF Spec

(***************************************************************************)
(* One version of an application is left running if nothing failed.  What  *)
(* runs is what visitors are shown, or would be shown again, but for the   *)
(* candidate in hand and for an application that is being deleted.         *)
(***************************************************************************)

\* Where the candidate in hand may run beside the version before it.
Beside == Started \cup {"halt", "retire", "undo"}

TidyUp ==
  /\ worker.at # "confirm"
  /\ worker.at = "idle" => marker.on = None
  /\ worker.at = "settle" => job[worker.on].status # "ready"
  /\ \A i \in marker.recreate : i = Former(job[i].app)
  /\ \A i \in up : \/ i = Former(job[i].app)
                   \/ worker.at \in Beside /\ i = worker.on
                   \/ worker.at = "raze" /\ job[i].app = worker.erasing
  /\ worker.at = "tell" => \A a \in App : routes[a] = Former(a)
  /\ worker.at \in {"report", "retire"} /\ job[worker.on].action = "stop" =>
       \A i \in up : job[i].app # job[worker.on].app

TidyFits ==
  /\ \A i \in up : job[i].status # "none"
  /\ marker.saved => \A a \in App : a # Marked => routes[a] = marker.previous[a]
  /\ mishaps = 0 => TidyUp

\* Nothing failed so far.
LEMMA NoMishap ==
  ASSUME TypeOK, [Next]_vars, mishaps' = 0
  PROVE  mishaps = 0 /\ ~Mishap
<1>1. ~Mishap
  BY DEF Mishap, TypeOK
<1>2. CASE User
  BY <1>1, <1>2, UserEffect
<1>3. CASE UNCHANGED mishaps
  BY <1>1, <1>3
<1> QED
  BY <1>1, <1>2, <1>3
  DEF vars, Next, Progress, Claim, Mark, Build, Pause, Start, Gate, Save, Route, Verify, Halt,
      Report, Confirm, Retire, Undo, Settle, Tell, Reconcile, Erase, Raze, ReportErased,
      EraseFails, ClaimDeletion, Beat, BuildFails, Crash

\* The steps that change nothing on the host but what the worker is at.
LEMMA HostTidy ==
  ASSUME Held1, AliveFits, TidyFits, [Next]_vars, UNCHANGED host,
         worker'.at = "settle" => worker' = worker /\ job[worker.on].status = job'[worker.on].status,
         worker'.at = "confirm" => worker' = worker \/ mishaps' # 0,
         worker'.at = "idle" => marker.on = None \/ worker' = worker \/ mishaps' # 0,
         worker'.at \in {"tell", "raze"} => worker' = worker,
         worker.at \in Beside =>
           (worker'.at \in Beside /\ worker'.on = worker.on) \/ mishaps' # 0,
         worker.at = "raze" => worker' = worker \/ mishaps' # 0,
         worker'.at \in {"report", "retire"} =>
           /\ worker'.on = worker.on
           /\ \/ worker.at \in {"report", "retire"}
              \/ worker.at \in Beside /\ job[worker.on].action # "stop"
              \/ mishaps' # 0
  PROVE  TidyFits'
<1> USE DEF Held1, host
<1>1. JobsStay(job, job')
  BY StepStays
<1>2. \A i \in up : i \in Job /\ job'[i].app = job[i].app /\ job'[i].status # "none"
  BY <1>1 DEF JobsStay, TidyFits, TypeOK
<1>3. marker.on # None => job'[marker.on].app = job[marker.on].app
  BY <1>1 DEF JobsStay, AliveFits, MarkerAlive, TypeOK, MarkerType
<1>4. \A i \in marker.recreate : job'[i].app = job[i].app
  BY <1>1 DEF JobsStay, AliveFits, MarkerAlive, Of
<1>5. marker.saved => marker.on # None
  BY DEF HandFits
<1>6. worker.at \in Beside => job'[worker.on].app = job[worker.on].app
                              /\ job'[worker.on].action = job[worker.on].action
  BY <1>1 DEF JobsStay, Beside, Started, HandFits, LeaseIsHeld, InHand, Held, Places, Building, On
<1>7. ASSUME mishaps' = 0
      PROVE  TidyUp'
  <2>1. TidyUp
    BY <1>7, NoMishap DEF TidyFits
  <2>2. worker'.at # "confirm" /\ (worker'.at = "idle" => marker.on = None)
        /\ (worker'.at = "settle" => job'[worker'.on].status # "ready")
    BY <1>7, <2>1 DEF TidyUp
  <2>3. \A i \in marker.recreate : i = Former(job[i].app)
    BY <2>1 DEF TidyUp
  <2>4. \A i \in up : \/ i = Former(job[i].app)
                      \/ worker'.at \in Beside /\ i = worker'.on
                      \/ worker'.at = "raze" /\ job[i].app = worker'.erasing
    BY <1>7, <2>1 DEF TidyUp
  <2>5. worker'.at = "tell" => \A a \in App : routes[a] = Former(a)
    BY <2>1 DEF TidyUp
  <2>6. worker'.at \in {"report", "retire"} /\ job'[worker'.on].action = "stop" =>
          \A i \in up : job'[i].app # job'[worker'.on].app
    <3>1. SUFFICES ASSUME worker'.at \in {"report", "retire"}, job'[worker'.on].action = "stop"
                   PROVE  \A i \in up : job'[i].app # job'[worker'.on].app
      OBVIOUS
    <3>2. CASE worker.at \in {"report", "retire"}
      BY <1>2, <1>6, <2>1, <3>1, <3>2 DEF TidyUp, Beside, Started
    <3>3. CASE worker.at \notin {"report", "retire"}
      <4>1. job[worker.on].action # "stop" /\ worker.at \in Beside
        BY <1>7, <3>1, <3>3
      <4> QED
        BY <1>6, <3>1, <4>1
    <3> QED
      BY <3>2, <3>3
  <2> QED
    BY <1>2, <1>4, <2>2, <2>3, <2>4, <2>5, <2>6 DEF TidyUp, Former
<1> QED
  BY <1>2, <1>3, <1>5, <1>7 DEF TidyFits, Marked

\* The requests of users, the claims, and what the worker does without the host.
LEMMA RecordTidy ==
  ASSUME Held1, AliveFits, TidyFits,
         \/ User \/ Claim \/ Beat \/ Gate \/ BuildFails \/ Crash \/ Verify \/ Confirm
         \/ EraseFails \/ ReportErased \/ Report \/ \E a \in App : ClaimDeletion(a)
  PROVE  TidyFits'
<1> USE DEF Held1, Beside, Started
<1>1. [Next]_vars
  BY DEF Next, Progress
<1>2. worker.at \in InHand => worker.on \in Job
  BY DEF HandFits
<1>3. CASE User
  <2>1. worker.at = "settle" => job'[worker.on].status = job[worker.on].status
    BY <1>2, <1>3, UserMoves DEF Asked, Enlisted, HandFits, LeaseIsHeld, On, InHand, Places, Building
  <2> QED
    BY <1>1, <1>3, <2>1, UserEffect, HostTidy DEF host
<1>4. CASE Claim
  <2>1. worker.at = "idle" /\ marker.on = None /\ UNCHANGED host
    BY <1>4 DEF Claim, Ready, At
  <2>2. worker' = worker \/ worker'.at = "mark"
    BY <1>4 DEF Claim, Idle
  <2> QED
    BY <1>1, <2>1, <2>2, HostTidy
<1>5. CASE Beat \/ Gate
  <2>1. \A k \in Job : job'[k].status = job[k].status
    BY <1>5, BeatKeeps, GateKeeps
  <2>2. UNCHANGED host /\ worker.at \in Building
    BY <1>5 DEF Beat, Gate, At, Building
  <2>3. \/ worker' = worker
        \/ worker'.at = "undo" /\ worker'.on = worker.on
        \/ worker.at = "health" /\ worker'.on = worker.on /\ worker'.at = "save"
    BY <1>5 DEF Beat, Gate, Fails, Goto, At, TypeOK
  <2> QED
    BY <1>1, <2>1, <2>2, <2>3, HostTidy DEF Building
<1>6. CASE BuildFails
  <2>1. /\ worker'.at = "undo" /\ worker'.on = worker.on /\ UNCHANGED host
        /\ worker.at \in Building \cup {"save"}
    BY <1>6 DEF BuildFails, Fails, TypeOK
  <2> QED
    BY <1>1, <2>1, HostTidy DEF Building
<1>7. CASE Crash \/ EraseFails
  <2>1. mishaps' # 0 /\ worker'.at = "idle" /\ UNCHANGED host
    <3>1. mishaps' # 0
      BY <1>7 DEF Crash, EraseFails, Mishap, TypeOK
    <3>2. worker' = Idle /\ UNCHANGED host
      BY <1>7 DEF Crash, EraseFails, Rest
    <3> QED
      BY <3>1, <3>2 DEF Idle
  <2> QED
    BY <1>1, <2>1, HostTidy
<1>8. CASE Verify
  <2>1. /\ worker.at = "verify" /\ worker'.at \in {"report", "undo"} /\ worker'.on = worker.on
        /\ UNCHANGED host
    BY <1>8 DEF Verify, At, Goto, Fails, TypeOK
  <2>2. job[worker.on].action # "stop"
    BY <2>1 DEF AliveFits, HandAlive
  <2> QED
    BY <1>1, <2>1, <2>2, HostTidy
<1>9. CASE Confirm
  <2>1. worker.at = "confirm" /\ UNCHANGED host
    BY <1>9 DEF Confirm, At
  <2>2. mishaps' # 0
    BY <1>1, <2>1, NoMishap DEF TidyFits, TidyUp
  <2>3. /\ worker'.at \in {"retire", "settle"} /\ worker'.on = worker.on
        /\ UNCHANGED job
    BY <1>9 DEF Confirm, Goto, TypeOK, records
  <2>4. \A i \in up : job'[i].status # "none"
    BY <2>3 DEF TidyFits
  <2> QED
    BY <2>1, <2>2, <2>3, <2>4 DEF TidyFits, host, Marked
<1>10. CASE Report
  <2>1. /\ worker.at \in {"report", "confirm"} /\ UNCHANGED host /\ worker'.on = worker.on
        /\ worker'.at = "retire" \/ (worker'.at = "confirm" /\ Mishap)
    BY <1>10 DEF Report, Goto, TypeOK
  <2>2. worker.at = "confirm" => mishaps' # 0
    BY <1>1, NoMishap DEF TidyFits, TidyUp
  <2>3. worker'.at = "confirm" => mishaps' # 0
    BY <1>1, <2>1, NoMishap
  <2> QED
    BY <1>1, <2>1, <2>2, <2>3, HostTidy
<1>11. CASE ReportErased
  <2>1. marker.on = None /\ worker'.at = "idle" /\ UNCHANGED host /\ worker.at = "erased"
    BY <1>11 DEF ReportErased, At, HandFits, Rest, Idle
  <2> QED
    BY <1>1, <2>1, HostTidy
<1>12. ASSUME NEW a \in App, ClaimDeletion(a)
       PROVE  TidyFits'
  <2>1. /\ marker.on = None /\ UNCHANGED host /\ worker.at = "idle"
        /\ worker' = worker \/ worker'.at = "erase"
    BY <1>12 DEF ClaimDeletion, Ready, At, Idle
  <2> QED
    BY <1>1, <2>1, HostTidy
<1> QED
  BY <1>3, <1>4, <1>5, <1>6, <1>7, <1>8, <1>9, <1>10, <1>11, <1>12

\* From the marker to the routes.
LEMMA BuildingTidy ==
  ASSUME Held1, AliveFits, TidyFits, Mark \/ Build \/ Pause \/ Start \/ Save \/ Route
  PROVE  TidyFits'
<1> USE DEF Held1, Started, Beside
<1>1. worker.on \in Job /\ job[worker.on].status = "running" /\ Its \in App /\ job' = job
      /\ worker'.on = worker.on
  <2>1. worker.on \in Job /\ job[worker.on].status = "running"
    BY OnRuns DEF Mark, Build, Pause, Start, Save, Route, At, Held, Places, Building, On
  <2> QED
    BY <2>1 DEF Mark, Build, Pause, Start, Save, Route, TypeOK, JobType, Its, On, records, Goto
<1>2. \A i \in up : i \in Job /\ job[i].app \in App /\ job[i].status # "none"
  BY DEF TidyFits, TypeOK, JobType
<1>3. mishaps' = mishaps
  BY DEF Mark, Build, Pause, Start, Save, Route
<1>4. CASE Mark
  <2>1. /\ worker.at = "mark" /\ marker.on = None /\ ~marker.saved
        /\ worker'.at \in {"save", "build"}
        /\ marker' = [NoMarker EXCEPT !.on = worker.on] /\ UNCHANGED <<routes, up>>
    BY <1>4 DEF Mark, At, HandFits, Goto, TypeOK, On
  <2>2. ~marker'.saved /\ marker'.recreate = {}
    BY <2>1 DEF NoMarker
  <2> QED
    BY <1>1, <1>2, <1>3, <2>1, <2>2 DEF TidyFits, TidyUp, Former
<1>5. worker.at # "mark" => marker.on = worker.on
  BY DEF Mark, Build, Pause, Start, Save, Route, At, HandFits, InHand, Places, Building
<1>6. CASE Build
  <2>1. /\ worker.at = "build" /\ ~marker.saved /\ ~marker'.saved
        /\ marker'.on = marker.on /\ marker'.recreate \in {up \cap Of(Its), marker.recreate}
        /\ worker'.at \in {"pause", "start"} /\ UNCHANGED <<routes, up>>
    BY <1>6 DEF Build, At, HandFits, Building, Goto, TypeOK, MarkerType
  <2>2. \A i \in up \cap Of(Its) : mishaps = 0 => i = Former(job[i].app)
    BY <2>1 DEF TidyFits, TidyUp
  <2> QED
    BY <1>1, <1>3, <2>1, <2>2 DEF TidyFits, TidyUp, Former
<1>7. CASE Pause
  <2>1. /\ worker.at = "pause" /\ worker'.at = "start" /\ up' \subseteq up
        /\ UNCHANGED <<routes, marker>>
    BY <1>7 DEF Pause, At, Goto, TypeOK
  <2> QED
    BY <1>1, <1>3, <2>1 DEF TidyFits, TidyUp, Former, Marked
<1>8. CASE Start
  <2>1. /\ worker.at = "start" /\ worker'.at = "health" /\ up' = up \cup {worker.on}
        /\ UNCHANGED <<routes, marker>>
    BY <1>8 DEF Start, At, Goto, TypeOK, On
  <2> QED
    BY <1>1, <1>3, <2>1 DEF TidyFits, TidyUp, Former, Marked
<1>9. CASE Save
  <2>1. /\ worker.at = "save" /\ worker'.at = "route" /\ ~marker.saved
        /\ marker'.on = marker.on /\ marker'.saved /\ marker'.previous = routes
        /\ marker'.recreate = marker.recreate /\ UNCHANGED <<routes, up>>
    BY <1>9 DEF Save, At, HandFits, Goto, TypeOK, MarkerType
  <2> QED
    BY <1>1, <1>3, <2>1 DEF TidyFits, TidyUp, Former, Marked
<1>10. CASE Route
  <2>1. /\ worker.at = "route" /\ worker'.at \in {"halt", "verify"} /\ marker.saved
        /\ \A a \in App : a # Its => routes'[a] = routes[a]
        /\ UNCHANGED <<up, marker>>
    BY <1>1, <1>10 DEF Route, At, HandFits, Goto, TypeOK
  <2> QED
    BY <1>1, <1>3, <1>5, <2>1 DEF TidyFits, TidyUp, Former, Marked, Its, On
<1> QED
  BY <1>4, <1>6, <1>7, <1>8, <1>9, <1>10

\* A stop ends the containers, unless it fails half way.
LEMMA HaltTidy ==
  ASSUME Held1, AliveFits, TidyFits, Halt
  PROVE  TidyFits'
<1> USE DEF Held1, Started, Beside
<1>1. [Next]_vars
  BY DEF Next, Progress
<1>2. /\ worker.at = "halt" /\ worker'.on = worker.on /\ up' \subseteq up
      /\ UNCHANGED <<job, marker, routes>>
  BY DEF Halt, At, Goto, TypeOK, records
<1>3. CASE mishaps' = 0
  <2>1. worker'.at = "report" /\ up' = up \ Of(Its) /\ mishaps = 0
    BY <1>1, <1>3, NoMishap DEF Halt, Goto, TypeOK
  <2>2. \A i \in up' : job[i].app # Its
    BY <2>1 DEF Of, TidyFits, TypeOK
  <2> QED
    BY <1>2, <2>1, <2>2 DEF TidyFits, TidyUp, Former, Marked, Its, On
<1> QED
  BY <1>2, <1>3 DEF TidyFits, Marked

\* What is taken back leaves the version of before, and those of other applications.
LEMMA BackTidy ==
  ASSUME Held1, AliveFits, TidyFits, mishaps' = mishaps, TakenBack(marker.on),
         marker' = marker, job' = job, worker.at \in {"undo", "settle"},
         \/ worker'.at = "settle" /\ worker'.on = worker.on /\ job[worker.on].status # "ready"
         \/ worker'.at = "tell"
  PROVE  TidyFits'
<1> USE DEF Held1
<1>1. marker.on = worker.on /\ marker.on # None
  BY DEF HandFits, InHand, Places, Building, Job, None
<1>2. up' = (up \ {marker.on}) \cup marker.recreate /\ \A a \in App : routes'[a] = Former(a)
  BY DEF TakenBack, Former
<1>3. \A a \in App : Former(a)' = Former(a)
  BY <1>2 DEF Former
<1>4. \A i \in marker.recreate : i \in Job /\ job[i].status # "none"
  BY <1>1 DEF AliveFits, MarkerAlive, Of
<1>5. \A i \in up' : i \in Job /\ job[i].status # "none" /\ job[i].app \in App
  BY <1>2, <1>4 DEF TidyFits, TypeOK, JobType
<1>6. ASSUME mishaps = 0
      PROVE  TidyUp'
  <2>1. \A i \in up' : i = Former(job[i].app)
    BY <1>1, <1>2, <1>6 DEF TidyFits, TidyUp
  <2>2. \A i \in marker.recreate : i = Former(job[i].app) /\ job[i].app \in App
    BY <1>4, <1>6 DEF TidyFits, TidyUp, TypeOK, JobType
  <2>3. \A i \in up' : i = Former(job[i].app)'
    BY <1>3, <1>5, <2>1
  <2>4. \A i \in marker.recreate : i = Former(job[i].app)'
    BY <1>3, <2>2
  <2> QED
    BY <1>2, <2>3, <2>4 DEF TidyUp, Former
<1> QED
  BY <1>2, <1>5, <1>6 DEF TidyFits, Former

\* The marker goes while what visitors are shown, and nothing else, runs.
LEMMA GoneTidy ==
  ASSUME Held1, TidyFits, [Next]_vars, mishaps' = mishaps, marker' = NoMarker,
         worker'.at = "idle", up' \subseteq up,
         mishaps = 0 => \A i \in up' : i = routes'[job[i].app]
  PROVE  TidyFits'
<1>1. ~marker'.saved /\ marker'.on = None /\ marker'.recreate = {}
  BY DEF NoMarker
<1>2. \A i \in up' : job'[i].app = job[i].app /\ job'[i].status # "none"
  BY StepStays DEF JobsStay, TidyFits, Held1, TypeOK
<1>3. mishaps = 0 => TidyUp'
  BY <1>1, <1>2 DEF TidyUp, Former
<1> QED
  BY <1>1, <1>2, <1>3 DEF TidyFits

\* The ends of a deployment.
LEMMA EndTidy ==
  ASSUME Held1, AliveFits, TidyFits, Retire \/ Undo \/ Settle \/ Tell \/ Reconcile
  PROVE  TidyFits'
<1> USE DEF Held1
<1>1. [Next]_vars /\ Idle.at = "idle"
  BY DEF Next, Progress, Idle
<1>2. worker.at \in {"retire", "undo", "settle", "tell"} =>
        worker.on \in Job /\ marker.on = worker.on /\ marker.on # None
  BY DEF HandFits, InHand, Places, Building, Job, None
<1>3. \A i \in up : i \in Job /\ job[i].app \in App /\ job[i].status # "none"
  BY DEF TidyFits, TypeOK, JobType
\* What failed may leave anything but a container without a record.
<1>4. ASSUME mishaps' # 0, \A i \in up' : i \in Job /\ job[i].status # "none",
             marker' = NoMarker \/ (marker' = marker /\ routes' = routes)
                \/ (marker' = marker /\ TakenBack(marker.on))
      PROVE  TidyFits'
  <2>1. \A i \in up' : job'[i].status # "none"
    BY <1>1, <1>4, StepStays DEF JobsStay
  <2>2. marker'.saved => marker' = marker /\ marker.on \in Job
                         /\ job[marker.on].status # "none"
    BY <1>4 DEF NoMarker, HandFits, AliveFits, MarkerAlive, TypeOK, MarkerType
  <2>3. marker'.saved => job'[marker.on].app = Marked
    BY <1>1, <2>2, StepStays DEF JobsStay, Marked
  <2>4. marker'.saved => \A a \in App : a # Marked => routes'[a] = marker.previous[a]
    BY <1>4, <2>2 DEF TakenBack, TidyFits, NoMarker
  <2> QED
    BY <1>4, <2>1, <2>2, <2>3, <2>4 DEF TidyFits, Marked
<1>5. CASE Retire
  <2>1. /\ worker.at = "retire" /\ marker' = NoMarker /\ routes' = routes /\ job' = job
        /\ worker'.at = "idle" /\ job[worker.on].status = "ready" /\ marker.saved
    BY <1>1, <1>5 DEF Retire, At, Rest, records, HandFits
  <2>2. IF job[worker.on].action = "stop" THEN routes[Its] = None
        ELSE routes[Its] = worker.on /\ worker.on \in up
    BY <1>2, <2>1 DEF AliveFits, MarkerAlive, Marked, Its, On
  <2>3. CASE Mishap /\ UNCHANGED up
    BY <1>3, <1>4, <2>1, <2>3 DEF Mishap, TypeOK
  <2>4. CASE /\ up' = IF job[On].action = "stop" THEN up ELSE (up \ Of(Its)) \cup {On}
             /\ mishaps' = mishaps
    <3>1. up' \subseteq up
      BY <2>2, <2>4 DEF On
    <3>2. ASSUME mishaps = 0, NEW i \in up'
          PROVE  i = routes[job[i].app]
      <4>1. i \in up /\ (job[i].app = Its => i = worker.on /\ job[worker.on].action # "stop")
        BY <1>3, <2>1, <2>2, <2>4, <3>2 DEF TidyFits, TidyUp, Of, Its, On
      <4>2. i = Former(job[i].app) \/ i = worker.on
        BY <2>1, <3>2, <4>1 DEF TidyFits, TidyUp
      <4>3. CASE job[i].app = Its
        BY <2>2, <4>1, <4>3
      <4>4. CASE job[i].app # Its
        BY <1>2, <1>3, <2>1, <4>1, <4>2, <4>4 DEF Former, TidyFits, Marked, Its, On
      <4> QED
        BY <4>3, <4>4
    <3> QED
      BY <1>1, <2>1, <2>4, <3>1, <3>2, GoneTidy
  <2> QED
    BY <1>5, <2>3, <2>4 DEF Retire
<1>6. CASE Undo
  <2>1. /\ worker.at = "undo" /\ worker'.at = "settle" /\ worker'.on = worker.on
        /\ job[worker.on].status = "running" /\ marker.on = worker.on
    BY <1>2, <1>6, OnRuns DEF Undo, At, Goto, TypeOK, Held, Places, Building, On
  <2> QED
    BY <1>6, <2>1, BackTidy DEF Undo, On, records
<1>7. CASE Settle
  <2>1. worker.at = "settle" /\ marker.on = worker.on /\ job' = job
    BY <1>2, <1>7 DEF Settle, At, records
  <2>2. CASE job[On].status = "ready" /\ marker' = NoMarker /\ Rest /\ UNCHANGED <<routes, up, mishaps>>
    <3>1. mishaps' # 0
      BY <2>1, <2>2 DEF TidyFits, TidyUp, On
    <3> QED
      BY <1>3, <1>4, <2>2, <3>1
  <2>3. CASE job[On].status # "ready" /\ TakenBack(On) /\ Goto("tell") /\ UNCHANGED <<marker, mishaps>>
    BY <2>1, <2>3, BackTidy DEF On, Goto, TypeOK
  <2>4. CASE Mishap /\ UNCHANGED host
    BY <1>3, <1>4, <2>4 DEF Mishap, TypeOK, host
  <2> QED
    BY <1>7, <2>2, <2>3, <2>4 DEF Settle
<1>8. CASE Tell
  <2>1. worker.at = "tell" /\ worker'.at = "idle" /\ UNCHANGED <<routes, up>>
    BY <1>1, <1>8 DEF Tell, At, Rest
  <2>2. CASE marker' = NoMarker /\ UNCHANGED mishaps
    <3>1. mishaps = 0 => \A i \in up' : i = routes'[job[i].app]
      BY <1>3, <2>1 DEF TidyFits, TidyUp, Beside, Started
    <3> QED
      BY <1>1, <2>1, <2>2, <3>1, GoneTidy
  <2>3. CASE Mishap /\ UNCHANGED marker
    BY <1>3, <1>4, <2>1, <2>3 DEF Mishap, TypeOK
  <2> QED
    BY <1>8, <2>2, <2>3 DEF Tell
<1>9. CASE Reconcile
  <2>1. worker.at = "idle" /\ marker.on # None /\ worker' = worker
    BY <1>9 DEF Reconcile, At
  <2>2. mishaps' # 0
    BY <1>1, <2>1, NoMishap DEF TidyFits, TidyUp
  <2>3. up' \subseteq up \cup marker.recreate
    BY <1>9 DEF Reconcile, TakenBack
  <2>4. \A i \in marker.recreate : i \in Job /\ job[i].status # "none"
    BY <2>1 DEF AliveFits, MarkerAlive, Of
  <2>5. marker' = NoMarker \/ (marker' = marker /\ TakenBack(marker.on))
    BY <1>9 DEF Reconcile
  <2> QED
    BY <1>3, <1>4, <2>2, <2>3, <2>4, <2>5
<1> QED
  BY <1>5, <1>6, <1>7, <1>8, <1>9

LEMMA EraseTidy ==
  ASSUME Held1, AliveFits, TidyFits, Erase \/ Raze
  PROVE  TidyFits'
<1> USE DEF Held1
<1>1. /\ marker.on = None /\ ~marker.saved /\ UNCHANGED <<marker, mishaps>> /\ job' = job
      /\ worker.erasing \in App /\ worker'.erasing = worker.erasing
  BY DEF Erase, Raze, At, HandFits, records, Goto, TypeOK
<1>2. \A i \in up : i \in Job /\ job[i].app \in App /\ job[i].status # "none"
  BY DEF TidyFits, TypeOK, JobType
<1>3. \A i \in marker.recreate : i \in Job /\ job[i].app \in App
  BY DEF TypeOK, MarkerType, JobType
<1>4. CASE Erase
  <2>1. /\ routes' = [routes EXCEPT ![worker.erasing] = None] /\ up' = up
        /\ worker.at = "erase" /\ worker'.at = "raze"
    BY <1>4 DEF Erase, At, Goto, TypeOK
  <2>2. \A a \in App : a # worker.erasing => routes'[a] = routes[a]
    BY <2>1 DEF TypeOK
  <2>3. marker.recreate = {}
    BY <1>1 DEF AliveFits, MarkerAlive
  <2> QED
    BY <1>1, <1>2, <2>1, <2>2, <2>3 DEF TidyFits, TidyUp, Former, Beside, Started
<1>5. CASE Raze
  <2>1. /\ routes' = routes /\ up' = up \ Of(worker.erasing)
        /\ worker.at = "raze" /\ worker'.at = "erased"
    BY <1>5 DEF Raze, At, Goto, TypeOK
  <2>2. \A i \in up' : i \in up /\ job[i].app # worker.erasing
    BY <1>2, <2>1 DEF Of
  <2> QED
    BY <1>1, <1>2, <2>1, <2>2 DEF TidyFits, TidyUp, Former, Beside, Started
<1> QED
  BY <1>4, <1>5

LEMMA TidyStep == Held1 /\ AliveFits /\ TidyFits /\ [Next]_vars => TidyFits'
<1> SUFFICES ASSUME Held1, AliveFits, TidyFits, [Next]_vars PROVE TidyFits'
  OBVIOUS
<1>1. CASE UNCHANGED vars
  BY <1>1 DEF vars, records, host, TidyFits, TidyUp, Former, Marked
<1> QED
  BY <1>1, RecordTidy, BuildingTidy, HaltTidy, EndTidy, EraseTidy DEF Next, Progress

LEMMA InitTidy == Init => TidyFits
BY DEF Init, TidyFits, TidyUp, Former, Idle, NoMarker, Nowhere, Beside, Started

\* If nothing failed, the worker leaves no version of an application running but the one
\* that visitors are routed to, whichever deployments were cancelled or refused on the way.
THEOREM OneVersion == Spec => []OneVersionUp
<1>1. Held1 /\ TidyFits => OneVersionUp
  BY DEF Held1, HandFits, TidyFits, TidyUp, Former, Beside, Started, OneVersionUp, AtRest, At, Of
<1>2. /\ Held1 /\ QueueFits /\ ShownFits /\ AliveFits /\ TidyFits /\ [Next]_vars
      => (Held1 /\ QueueFits /\ ShownFits /\ AliveFits /\ TidyFits)'
  BY HeldStep, QueueStep, ShownStep, AliveStep, TidyStep
<1>3. Init => Held1 /\ QueueFits /\ ShownFits /\ AliveFits /\ TidyFits
  BY InitHeld, InitQueue, InitShown, InitAlive, InitTidy
<1> QED
  BY <1>1, <1>2, <1>3, PTL DEF Spec

=============================================================================

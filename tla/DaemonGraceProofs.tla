-------------------------- MODULE DaemonGraceProofs --------------------------
(***************************************************************************)
(* Proofs about DaemonGrace for every number of requests and every Grace   *)
(* and Retry.  That nobody is held for long once the daemon is back is not *)
(* inductive: it rests on how old an outage a sleeping or a probing loop   *)
(* may still be working for (Timed).                                       *)
(***************************************************************************)
EXTENDS DaemonGrace, TLAPS

LoopRec == [at : {"off", "probe", "sleep"}, left : 0..Retry, seen : {"down", "both", "up"}]
ReqRec  == [at : Done \cup Held \cup {"passed"}, left : 0..Grace]

Sleeping(l) == loop[l].at = "sleep" => upFor + loop[l].left <= 2 * Retry

\* A probe that the daemon turned up during, one that began after it was up, and
\* one that the arrival of the only held requests began.
Probing(l) ==
  loop[l].at = "probe" =>
    \/ loop[l].seen = "both" /\ upFor + loop[l].left <= Retry
    \/ loop[l].seen = "up" /\ upFor + loop[l].left <= 3 * Retry
    \/ loop[l].seen = "up" /\ \A r \in waiting : req[r].left + Retry >= Grace + loop[l].left

Timed == up => \A l \in Loops : Sleeping(l) /\ Probing(l)

IInv == TypeOK /\ OneLoop /\ Timed

-----------------------------------------------------------------------------
\* What a new probe, a stopped loop and a settled request are.
LEMMA Records ==
  /\ up \in BOOLEAN => Probes \in LoopRec
  /\ NoLoop \in LoopRec
  /\ \A q \in ReqRec, ready \in BOOLEAN :
       q.at \in Held => /\ Settled(q, ready) \in ReqRec
                        /\ Settled(q, ready).at \notin Held
<1> USE TimeAssumption
<1>1. up \in BOOLEAN => Probes \in LoopRec
  BY DEF Probes, LoopRec
<1>2. NoLoop \in LoopRec
  BY DEF NoLoop, LoopRec
<1>3. ASSUME NEW q \in ReqRec, NEW ready \in BOOLEAN, q.at \in Held
      PROVE  Settled(q, ready) \in ReqRec /\ Settled(q, ready).at \notin Held
  <2> DEFINE pc == CASE q.at = "hungup"         -> "dropped"
                     [] q.at = "held" /\ ready  -> "passed"
                     [] q.at = "held" /\ ~ready -> "unavailable"
  <2>1. pc \in {"dropped", "passed", "unavailable"}
    BY <1>3 DEF Held
  <2>2. Settled(q, ready) = [left |-> 0, at |-> pc]
    BY DEF Settled
  <2> HIDE DEF pc
  <2> QED
    BY <2>1, <2>2 DEF ReqRec, Done, Held
<1> QED
  BY <1>1, <1>2, <1>3

\* Every initial state satisfies the inductive invariant.
LEMMA InitIInv == Init => IInv
<1> SUFFICES ASSUME Init PROVE IInv
  OBVIOUS
<1> USE LoopAssumption, TimeAssumption
<1>1. TypeOK
  <2>1. loop \in [Loops -> LoopRec]
    BY Records DEF Init
  <2>2. [at |-> "idle", left |-> 0] \in ReqRec
    BY DEF ReqRec, Done
  <2>3. req \in [Requests -> ReqRec]
    BY <2>2 DEF Init
  <2>4. upFor \in 0..Calm
    BY DEF Init, Calm, Longest
  <2> QED
    BY <2>1, <2>3, <2>4 DEF Init, TypeOK, LoopRec, ReqRec
<1>2. OneLoop
  BY DEF Init, OneLoop, NoLoop, waiting, Held
<1>3. Timed
  BY DEF Init, Timed, Sleeping, Probing, NoLoop
<1> QED
  BY <1>1, <1>2, <1>3 DEF IInv

\* Each step keeps the variables in their types.
LEMMA TypeStep == TypeOK /\ [Next]_vars => TypeOK'
<1> SUFFICES ASSUME TypeOK, [Next]_vars PROVE TypeOK'
  OBVIOUS
<1> USE TimeAssumption, Records
<1>a. TypeOK <=> /\ up \in BOOLEAN /\ upFor \in 0..Calm /\ polling \in BOOLEAN
                 /\ loop \in [Loops -> LoopRec] /\ req \in [Requests -> ReqRec]
  BY DEF TypeOK, LoopRec, ReqRec
<1>b. TypeOK' <=> /\ up' \in BOOLEAN /\ upFor' \in 0..Calm /\ polling' \in BOOLEAN
                  /\ loop' \in [Loops -> LoopRec] /\ req' \in [Requests -> ReqRec]
  BY DEF TypeOK, LoopRec, ReqRec, Calm, Longest
<1>1. ASSUME NEW r \in Requests, Holds(r) PROVE TypeOK'
  <2>1. [at |-> "held", left |-> Grace] \in ReqRec
    BY DEF ReqRec, Held
  <2>2. req' \in [Requests -> ReqRec]
    BY <1>1, <1>a, <2>1 DEF Holds
  <2>3. polling' \in BOOLEAN /\ loop' \in [Loops -> LoopRec]
    BY <1>1, <1>a DEF Holds, Poll
  <2> QED
    BY <1>1, <1>a, <1>b, <2>2, <2>3 DEF Holds
<1>2. ASSUME NEW r \in Requests, Deadline(r) PROVE TypeOK'
  BY <1>2, <1>a, <1>b DEF Deadline, waiting
<1>3. ASSUME NEW r \in Requests, Proxied(r) PROVE TypeOK'
  <2>1. [req[r] EXCEPT !.at = IF up THEN "served" ELSE "unavailable"] \in ReqRec
    BY <1>a DEF ReqRec, Done
  <2> QED
    BY <1>3, <1>a, <1>b, <2>1 DEF Proxied
<1>4. ASSUME NEW r \in Requests, Aborts(r) PROVE TypeOK'
  <2>1. [req[r] EXCEPT !.at = "hungup"] \in ReqRec
    BY <1>a DEF ReqRec, Held
  <2> QED
    BY <1>4, <1>a, <1>b, <2>1 DEF Aborts
<1>5. ASSUME NEW l \in Loops, ProbeOk(l) PROVE TypeOK'
  <2>1. req' \in [Requests -> ReqRec]
    BY <1>5, <1>a DEF ProbeOk, waiting
  <2> QED
    BY <1>5, <1>a, <1>b, <2>1 DEF ProbeOk, Stops
<1>6. ASSUME NEW l \in Loops, ProbeFails(l) PROVE TypeOK'
  <2>1. [at |-> "sleep", left |-> Retry, seen |-> "down"] \in LoopRec
    BY DEF LoopRec
  <2> QED
    BY <1>6, <1>a, <1>b, <2>1 DEF ProbeFails
<1>7. ASSUME NEW l \in Loops, Wakes(l) PROVE TypeOK'
  BY <1>7, <1>a, <1>b DEF Wakes, Stops
<1>8. CASE DaemonTurns
  <2>1. \A l \in Loops : [loop[l] EXCEPT !.seen = "both"] \in LoopRec
    BY <1>a DEF LoopRec
  <2>2. loop' \in [Loops -> LoopRec]
    BY <1>8, <1>a, <2>1 DEF DaemonTurns
  <2> QED
    BY <1>8, <1>a, <1>b, <2>2 DEF DaemonTurns, Calm, Longest
<1>9. CASE Tick
  <2>1. \A r \in waiting : [req[r] EXCEPT !.left = @ - 1] \in ReqRec
    BY <1>9, <1>a DEF Tick, waiting, ReqRec
  <2>2. \A l \in Loops : loop[l].at # "off" => [loop[l] EXCEPT !.left = @ - 1] \in LoopRec
    BY <1>9, <1>a DEF Tick, LoopRec
  <2>3. loop' \in [Loops -> LoopRec] /\ req' \in [Requests -> ReqRec]
    BY <1>9, <1>a, <2>1, <2>2 DEF Tick
  <2>4. upFor' \in 0..Calm
    BY <1>9, <1>a DEF Tick, Calm, Longest
  <2> QED
    BY <1>9, <1>a, <1>b, <2>3, <2>4 DEF Tick
<1>10. CASE UNCHANGED vars
  BY <1>10, <1>a, <1>b DEF vars
<1> QED
  BY <1>1, <1>2, <1>3, <1>4, <1>5, <1>6, <1>7, <1>8, <1>9, <1>10 DEF Next, Loop

\* Each step keeps the single loop, and the flag that stands for it.
LEMMA OneLoopStep == TypeOK /\ OneLoop /\ [Next]_vars => OneLoop'
<1> SUFFICES ASSUME TypeOK, OneLoop, [Next]_vars PROVE OneLoop'
  OBVIOUS
<1> USE DEF TypeOK, OneLoop, waiting, Held
<1>1. ASSUME NEW r \in Requests, Holds(r) PROVE OneLoop'
  BY <1>1 DEF Holds, Poll, Probes
<1>2. ASSUME NEW r \in Requests, Deadline(r) PROVE OneLoop'
  BY <1>2 DEF Deadline, Settled
<1>3. ASSUME NEW r \in Requests, Proxied(r) PROVE OneLoop'
  BY <1>3 DEF Proxied
<1>4. ASSUME NEW r \in Requests, Aborts(r) PROVE OneLoop'
  BY <1>4 DEF Aborts
<1>5. ASSUME NEW l \in Loops, ProbeOk(l) PROVE OneLoop'
  <2>1. \A r \in Requests : req'[r].at \notin Held
    BY <1>5, Records DEF ProbeOk, ReqRec
  <2>2. \A k \in Loops : loop'[k].at = "off"
    BY <1>5 DEF ProbeOk, Stops, NoLoop
  <2> QED
    BY <1>5, <2>1, <2>2 DEF ProbeOk, Stops
<1>6. ASSUME NEW l \in Loops, ProbeFails(l) PROVE OneLoop'
  BY <1>6 DEF ProbeFails
<1>7. ASSUME NEW l \in Loops, Wakes(l) PROVE OneLoop'
  BY <1>7 DEF Wakes, Stops, NoLoop, Probes
<1>8. CASE DaemonTurns
  BY <1>8 DEF DaemonTurns
<1>9. CASE Tick
  BY <1>9 DEF Tick
<1>10. CASE UNCHANGED vars
  BY <1>10 DEF vars
<1> QED
  BY <1>1, <1>2, <1>3, <1>4, <1>5, <1>6, <1>7, <1>8, <1>9, <1>10 DEF Next, Loop

\* Each step keeps the ages of the outages that loops work for.
LEMMA TimedStep == IInv /\ [Next]_vars => Timed'
<1> SUFFICES ASSUME IInv, [Next]_vars, up', NEW k \in Loops
             PROVE  Sleeping(k)' /\ Probing(k)'
  BY DEF Timed
<1> USE TimeAssumption DEF IInv, TypeOK, Timed, Sleeping, Probing, waiting, Held
<1>1. ASSUME NEW r \in Requests, Holds(r) PROVE Sleeping(k)' /\ Probing(k)'
  <2>1. CASE polling
    BY <1>1, <2>1 DEF Holds
  <2>2. CASE ~polling
    <3>1. \A q \in Requests : req[q].at \notin Held
      BY <2>2 DEF OneLoop
    <3>2. \A q \in Requests : req'[q].at \in Held => req'[q].left = Grace
      BY <1>1, <3>1 DEF Holds
    <3>3. \/ loop'[k] = loop[k] /\ loop[k].at = "off"
          \/ loop'[k] = [at |-> "probe", left |-> Retry, seen |-> "up"]
      BY <1>1, <2>2 DEF Holds, Poll, Probes, OneLoop
    <3> QED
      BY <3>2, <3>3
  <2> QED
    BY <2>1, <2>2
<1>2. ASSUME NEW r \in Requests, Deadline(r) PROVE Sleeping(k)' /\ Probing(k)'
  BY <1>2 DEF Deadline, Settled
<1>3. ASSUME NEW r \in Requests, Proxied(r) PROVE Sleeping(k)' /\ Probing(k)'
  BY <1>3 DEF Proxied
<1>4. ASSUME NEW r \in Requests, Aborts(r) PROVE Sleeping(k)' /\ Probing(k)'
  BY <1>4 DEF Aborts
<1>5. ASSUME NEW l \in Loops, ProbeOk(l) PROVE Sleeping(k)' /\ Probing(k)'
  BY <1>5 DEF ProbeOk, Stops, NoLoop, OneLoop
<1>6. ASSUME NEW l \in Loops, ProbeFails(l) PROVE Sleeping(k)' /\ Probing(k)'
  BY <1>6 DEF ProbeFails
<1>7. ASSUME NEW l \in Loops, Wakes(l) PROVE Sleeping(k)' /\ Probing(k)'
  BY <1>7 DEF Wakes, Stops, NoLoop, Probes
<1>8. CASE DaemonTurns
  BY <1>8 DEF DaemonTurns
<1>9. CASE Tick
  BY <1>9 DEF Tick, Calm, Longest
<1>10. CASE UNCHANGED vars
  BY <1>10 DEF vars
<1> QED
  BY <1>1, <1>2, <1>3, <1>4, <1>5, <1>6, <1>7, <1>8, <1>9, <1>10 DEF Next, Loop

\* What the ages say of the requests that are held.
LEMMA TimedIsEnough == IInv => HeldOnlyInOutage
<1> SUFFICES ASSUME IInv, up, upFor > Longest, NEW r \in waiting
             PROVE  req[r].left + Retry >= Grace
  BY DEF HeldOnlyInOutage
<1> USE TimeAssumption DEF IInv, TypeOK
<1>1. PICK l \in Loops : loop[l].at # "off"
  BY DEF OneLoop
<1>2. Sleeping(l) /\ Probing(l)
  BY DEF Timed
<1> QED
  BY <1>1, <1>2 DEF Sleeping, Probing, Longest, waiting

-----------------------------------------------------------------------------
\* The inductive invariant holds in every reachable state.
THEOREM Invariant == Spec => []IInv
<1>1. IInv /\ [Next]_vars => IInv'
  BY TypeStep, OneLoopStep, TimedStep DEF IInv
<1> QED
  BY InitIInv, <1>1, PTL DEF Spec

\* createDaemonWaiter's state keeps its type: no deadline is missed.
THEOREM TypeCorrect == Spec => []TypeOK
<1>1. IInv => TypeOK
  BY DEF IInv
<1> QED
  BY Invariant, <1>1, PTL

\* However many requests are held there is one probing loop, and never none.
THEOREM SingleProbe == Spec => []OneLoop
<1>1. IInv => OneLoop
  BY DEF IInv
<1> QED
  BY Invariant, <1>1, PTL

\* Three retry intervals after the daemon is back nobody is left from the outage.
THEOREM GraceEnds == Spec => []HeldOnlyInOutage
  BY Invariant, TimedIsEnough, PTL
=============================================================================

----------------------------- MODULE DaemonGrace -----------------------------
(***************************************************************************)
(* The firewall's daemon grace: while the edge daemon restarts, requests   *)
(* are held, one loop probes the daemon for all of them, and each leaves   *)
(* with the first good probe or at its own deadline.  Time passes in       *)
(* ticks, and a timer that is due fires before the next one; what is due   *)
(* at the same time happens in any order.                                  *)
(***************************************************************************)
EXTENDS Naturals, FiniteSets

CONSTANTS
  Requests,   \* request slots: an answered one may be used again
  Loops,      \* identities of poll() calls that could overlap
  Grace,      \* PH_FIREWALL_DAEMON_GRACE_MS in ticks
  Retry       \* PH_FIREWALL_DAEMON_GRACE_RETRY_MS in ticks

ASSUME LoopAssumption == Loops # {}
ASSUME TimeAssumption == Grace \in Nat \ {0} /\ Retry \in Nat \ {0}

VARIABLES
  up,       \* the daemon answers its health check, well within a retry interval
  upFor,    \* ticks since it last came up, counted up to Calm
  polling,  \* createDaemonWaiter's flag
  loop,     \* each poll(): [at, left: ticks to its timer, seen: the daemon during the probe]
  req       \* each request: [at, left: ticks to its deadline]; one that was
             \* aborted while it was held is "hungup"

vars == <<up, upFor, polling, loop, req>>

Longest == 3 * Retry    \* a probe that fails, a sleep, a probe that does not
Calm    == Longest + 1

Held == {"held", "hungup"}
Done == {"idle", "served", "unavailable", "dropped"}

\* The daemon, the polling flag, and timers that never run past their end.
TypeOK == /\ up \in BOOLEAN
          /\ upFor \in 0..Calm
          /\ polling \in BOOLEAN
          /\ loop \in [Loops -> [at : {"off", "probe", "sleep"}, left : 0..Retry,
                                 seen : {"down", "both", "up"}]]
          /\ req \in [Requests -> [at : Done \cup Held \cup {"passed"}, left : 0..Grace]]

waiting == {r \in Requests : req[r].at \in Held}
NoLoop  == [at |-> "off", left |-> 0, seen |-> "down"]

Init == /\ up \in BOOLEAN
        /\ upFor = 0
        /\ polling = FALSE
        /\ loop = [l \in Loops |-> NoLoop]
        /\ req = [r \in Requests |-> [at |-> "idle", left |-> 0]]

-----------------------------------------------------------------------------
(* The waiter. *)

Probes == [at |-> "probe", left |-> Retry, seen |-> IF up THEN "up" ELSE "down"]

\* settle(ready) and what the middleware does with it.
Settled(q, ready) ==
  [left |-> 0, at |-> CASE q.at = "hungup"         -> "dropped"
                        [] q.at = "held" /\ ready  -> "passed"
                        [] q.at = "held" /\ ~ready -> "unavailable"]

\* Mutant of Poll: the flag is only set once the first probe has answered.
PollFlagLate == /\ \E l \in Loops : loop[l].at = "off" /\ loop' = [loop EXCEPT ![l] = Probes]
                /\ UNCHANGED polling

Poll == /\ polling' = TRUE
        /\ \E l \in Loops : loop[l].at = "off" /\ loop' = [loop EXCEPT ![l] = Probes]

\* Mutant of Holds: a deadline one tick too late.
HoldsLonger(r) ==
  /\ req[r].at \in Done
  /\ req' = [req EXCEPT ![r] = [at |-> "held", left |-> Grace + 1]]
  /\ IF polling THEN UNCHANGED <<polling, loop>> ELSE Poll
  /\ UNCHANGED <<up, upFor>>

Holds(r) ==
  /\ req[r].at \in Done
  /\ req' = [req EXCEPT ![r] = [at |-> "held", left |-> Grace]]
  /\ IF polling THEN UNCHANGED <<polling, loop>> ELSE Poll
  /\ UNCHANGED <<up, upFor>>

Deadline(r) ==
  /\ r \in waiting /\ req[r].left = 0
  /\ req' = [req EXCEPT ![r] = Settled(@, FALSE)]
  /\ UNCHANGED <<up, upFor, polling, loop>>

Stops(l) == polling' = FALSE /\ loop' = [loop EXCEPT ![l] = NoLoop]

\* Mutant of ProbeOk: the good news goes to one request only.
ProbeOkReleasesOne(l) ==
  /\ loop[l].at = "probe" /\ loop[l].seen # "down"
  /\ IF waiting = {} THEN UNCHANGED req
     ELSE \E r \in waiting : req' = [req EXCEPT ![r] = Settled(@, TRUE)]
  /\ Stops(l)
  /\ UNCHANGED <<up, upFor>>

ProbeOk(l) ==
  /\ loop[l].at = "probe" /\ loop[l].seen # "down"
  /\ req' = [r \in Requests |-> IF r \in waiting THEN Settled(req[r], TRUE) ELSE req[r]]
  /\ Stops(l)
  /\ UNCHANGED <<up, upFor>>

\* Refused, not ok, or aborted after retryMs.
ProbeFails(l) ==
  /\ loop[l].at = "probe" /\ loop[l].seen # "up"
  /\ loop' = [loop EXCEPT ![l] = [at |-> "sleep", left |-> Retry, seen |-> "down"]]
  /\ UNCHANGED <<up, upFor, polling, req>>

\* Mutant of Wakes: the loop does not look whether anybody waits.
WakesForNobody(l) ==
  /\ loop[l].at = "sleep" /\ loop[l].left = 0
  /\ loop' = [loop EXCEPT ![l] = Probes] /\ UNCHANGED polling
  /\ UNCHANGED <<up, upFor, req>>

Wakes(l) ==
  /\ loop[l].at = "sleep" /\ loop[l].left = 0
  /\ \/ waiting = {} /\ Stops(l)
     \/ waiting # {} /\ loop' = [loop EXCEPT ![l] = Probes] /\ UNCHANGED polling
  /\ UNCHANGED <<up, upFor, req>>

-----------------------------------------------------------------------------
(* The daemon, the clients, the clock. *)

\* The proxy serves the request, or its error handler answers 503.
Proxied(r) ==
  /\ req[r].at = "passed"
  /\ req' = [req EXCEPT ![r].at = IF up THEN "served" ELSE "unavailable"]
  /\ UNCHANGED <<up, upFor, polling, loop>>

Aborts(r) ==
  /\ req[r].at = "held"
  /\ req' = [req EXCEPT ![r].at = "hungup"]
  /\ UNCHANGED <<up, upFor, polling, loop>>

\* A probe that is under way sees both.
DaemonTurns ==
  /\ up' = ~up
  /\ upFor' = 0
  /\ loop' = [l \in Loops |->
       IF loop[l].at = "probe" THEN [loop[l] EXCEPT !.seen = "both"] ELSE loop[l]]
  /\ UNCHANGED <<polling, req>>

Tick ==
  /\ \A r \in waiting : req[r].left > 0
  /\ \A l \in Loops : loop[l].at # "off" => loop[l].left > 0
  /\ req' = [r \in Requests |-> IF r \in waiting THEN [req[r] EXCEPT !.left = @ - 1] ELSE req[r]]
  /\ loop' = [l \in Loops |->
       IF loop[l].at = "off" THEN loop[l] ELSE [loop[l] EXCEPT !.left = @ - 1]]
  /\ upFor' = IF up /\ upFor < Calm THEN upFor + 1 ELSE upFor
  /\ UNCHANGED <<up, polling>>

Loop(l) == ProbeOk(l) \/ ProbeFails(l) \/ Wakes(l)

Next == \/ \E r \in Requests : Holds(r) \/ Deadline(r) \/ Proxied(r) \/ Aborts(r)
        \/ \E l \in Loops : Loop(l)
        \/ DaemonTurns \/ Tick

Spec == Init /\ [][Next]_vars

\* The clock moves, timers fire and a probe ends (fetch has a timeout).
Fairness == /\ WF_vars(Tick)
            /\ \A r \in Requests : WF_vars(Deadline(r))
            /\ \A l \in Loops : WF_vars(Loop(l))

FairSpec == Spec /\ Fairness
-----------------------------------------------------------------------------
\* One loop probes for all (the comment on createDaemonWaiter): the flag is set
\* exactly while a loop runs, there is never a second, and none is missing while
\* a request is held, whatever order arrivals, deadlines and answers come in.
OneLoop ==
  /\ polling <=> \E l \in Loops : loop[l].at # "off"
  /\ \A k, l \in Loops : loop[k].at # "off" /\ loop[l].at # "off" => k = l
  /\ waiting # {} => polling

\* A request is held, and so can be refused, only because of an outage: once the
\* daemon has been up for three retry intervals, nobody has been waiting for
\* longer than the one probe that a request on arrival may start.
HeldOnlyInOutage ==
  up /\ upFor > Longest => \A r \in waiting : req[r].left + Retry >= Grace

\* The loop stops once there is nobody left to serve (the same comment).
PollingStops == <>[](waiting = {}) => <>[]~polling
=============================================================================

---------------------------- MODULE VacuumMutex ----------------------------
(***************************************************************************)
(* What the vacuum lock of one instance promises to the vacuum jobs that   *)
(* use it, whatever HTTP does to their calls: one holder at a time, each   *)
(* job holds it at most once, and a hold ends only because the holder      *)
(* itself asked to release it, because it expired, or because the edge     *)
(* daemon restarted and forgot it.  VacuumLock.tla implements this.        *)
(***************************************************************************)
EXTENDS Naturals

CONSTANTS Clients, NoOne

VARIABLES
  holder,    \* the job the lock is granted to, or NoOne
  held,      \* the jobs that were ever granted it
  leaving,   \* the jobs that asked to release it
  expired,   \* the current hold is older than the time to live
  epoch      \* how many times the daemon restarted

vars == <<holder, held, leaving, expired, epoch>>

Init == /\ holder = NoOne
        /\ held = {}
        /\ leaving = {}
        /\ expired = FALSE
        /\ epoch = 0

Drop == holder' = NoOne /\ expired' = FALSE

Acquire(c) == /\ holder = NoOne
              /\ c \notin held
              /\ holder' = c
              /\ held' = held \cup {c}
              /\ expired' = FALSE
              /\ UNCHANGED <<leaving, epoch>>

Leave(c)   == /\ c \in held
              /\ leaving' = leaving \cup {c}
              /\ UNCHANGED <<holder, held, expired, epoch>>

Release(c) == /\ holder = c
              /\ c \in leaving
              /\ Drop
              /\ UNCHANGED <<held, leaving, epoch>>

Expire     == /\ holder # NoOne
              /\ expired' = TRUE
              /\ UNCHANGED <<holder, held, leaving, epoch>>

Evict      == /\ expired
              /\ Drop
              /\ UNCHANGED <<held, leaving, epoch>>

Restart    == /\ epoch' = epoch + 1
              /\ Drop
              /\ UNCHANGED <<held, leaving>>

Next == \/ \E c \in Clients : Acquire(c) \/ Leave(c) \/ Release(c)
        \/ Expire \/ Evict \/ Restart

Spec == Init /\ [][Next]_vars
=============================================================================

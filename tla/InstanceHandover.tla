-------------------------- MODULE InstanceHandover --------------------------
(***************************************************************************)
(* What a transfer between two servers promises: each export of the source *)
(* is decided once, it is given to one import or it is kept, and only an   *)
(* import it was given to ends with an instance that may be started.       *)
(* InstanceTransfer.tla implements this.                                   *)
(***************************************************************************)
CONSTANTS Exports, Imports

VARIABLES
  outcome,   \* each export: "none", "open", "kept", or the import it was given to
  finished   \* the imports whose instance may be started

vars == <<outcome, finished>>

Init == /\ outcome = [e \in Exports |-> "none"]
        /\ finished = {}

Decide(e, from, to) == /\ outcome[e] = from
                       /\ outcome' = [outcome EXCEPT ![e] = to]
                       /\ UNCHANGED finished

Open(e)    == Decide(e, "none", "open")
Keep(e)    == Decide(e, "open", "kept")
Give(e, i) == i \notin finished /\ Decide(e, "open", i)

Finish(i) == /\ \E e \in Exports : outcome[e] = i
             /\ finished' = finished \cup {i}
             /\ UNCHANGED outcome

Next == \/ \E e \in Exports : Open(e) \/ Keep(e) \/ \E i \in Imports : Give(e, i)
        \/ \E i \in Imports : Finish(i)

Spec == Init /\ [][Next]_vars
=============================================================================

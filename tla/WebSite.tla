------------------------------- MODULE WebSite -------------------------------
(***************************************************************************)
(* What the publication of web applications promises: what visitors of an  *)
(* application are shown changes for one application at a time, and then   *)
(* either becomes what is on record as published or is taken back to it.   *)
(* WebDeploy.tla implements this.                                          *)
(***************************************************************************)
CONSTANTS App, Version, Nothing

VARIABLES
  shown,     \* each application: the version its visitors are routed to
  recorded   \* the version on record as published

vars == <<shown, recorded>>

Init == /\ shown = [a \in App |-> Nothing]
        /\ recorded = shown

Show(a, v) == /\ shown = recorded
              /\ shown' = [shown EXCEPT ![a] = v]
              /\ UNCHANGED recorded

Record   == recorded' = shown /\ UNCHANGED shown
TakeBack == shown' = recorded /\ UNCHANGED recorded

\* The application is being deleted.
Withdraw(a) == /\ shown' = [shown EXCEPT ![a] = Nothing]
               /\ recorded' = [recorded EXCEPT ![a] = Nothing]

Next == \/ \E a \in App, v \in Version \cup {Nothing} : Show(a, v)
        \/ Record
        \/ TakeBack
        \/ \E a \in App : Withdraw(a)

Spec == Init /\ [][Next]_vars
=============================================================================

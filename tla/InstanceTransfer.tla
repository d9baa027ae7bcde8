-------------------------- MODULE InstanceTransfer --------------------------
(***************************************************************************)
(* Transfers of one instance from a source server to others: the exports   *)
(* the source prepares, the imports that claim, fetch and restore them,    *)
(* and the calls between the servers, whose answers may be lost and which  *)
(* may be served after the caller has given up.                            *)
(*                                                                         *)
(* Each import is on a server of its own and the source has one instance,  *)
(* so the rule that a server works on one transfer at a time, which only   *)
(* makes a transfer wait for others, does not show.  A handler that ends   *)
(* in a transaction is one step.                                           *)
(***************************************************************************)
EXTENDS Naturals

CONSTANTS
  Exports,      \* transfers created on the source, 1..n in the order of creation
  Imports,      \* imports of them
  NoOne,        \* not reserved
  MaxWrites,    \* bound on what is written to the source
  MaxLinks,     \* bound on the links made for an export
  Environments  \* sets of Disturbances; a behaviour meets those of one of the sets

\* "restart": a server restarts; "loss": an answer is lost or a call is served late;
\* "expire": links expire; "drain": the record says idle while the container still
\* writes; "files": SFTP or a restore changes the source's files while it is off.
Disturbances == {"restart", "loss", "expire", "drain", "files"}

ASSUME ExportAssumption == Exports \subseteq Nat \ {0}
ASSUME NoOneAssumption  == NoOne \notin Imports
ASSUME BoundAssumption  == MaxWrites \in Nat /\ MaxLinks \in Nat \ {0}
ASSUME FaultAssumption  == Environments \subseteq SUBSET Disturbances

VARIABLES
  source,   \* the source instance: [power, box, data: how much was written]
  exp,      \* each export: [at: its status, link, claim, wasRunning, archive]
  expired,  \* how many of an export's links have expired
  imp,      \* each import: [at, of, link, backup, on: its instance is powered]
  late,     \* calls whose caller has given up and which may still be served
  faults    \* the disturbances of this behaviour (chosen at the start)

vars == <<source, exp, expired, imp, late, faults>>

NoArchive == MaxWrites + 1
Archives  == 0..NoArchive

Active    == {"queued", "preparing", "ready"}
ExpStatus == Active \cup {"none", "failed", "complete", "revoked"}

\* "reserving" has status preparing; "claiming", "fetching" and "streaming" have
\* status downloading; "restoring", "acking" and "acked" have status restoring.
Working == {"reserving", "claiming", "fetching", "streaming", "restoring", "acking", "acked"}
ImpAt   == Working \cup {"none", "queued", "failed", "complete", "vanished", "gone"}
Calls   == {"claim", "complete"}

\* The instance, both servers' transfer records and the calls under way.
TypeOK ==
  /\ source \in [power : {"on", "off", "gone"}, box : {"down", "up", "stopping"},
                 data : 0..MaxWrites]
  /\ exp \in [Exports -> [at : ExpStatus, link : 0..MaxLinks, claim : Imports \cup {NoOne},
                          wasRunning : BOOLEAN, archive : Archives]]
  /\ expired \in [Exports -> 0..MaxLinks]
  /\ imp \in [Imports -> [at : ImpAt, of : Exports \cup {0}, link : 0..MaxLinks,
                          backup : Archives, on : BOOLEAN]]
  /\ late \subseteq Calls \X Imports
  /\ faults \in Environments

Init ==
  /\ \/ source = [power |-> "on", box |-> "up", data |-> 0]
     \/ source = [power |-> "off", box |-> "down", data |-> 0]
  /\ exp = [e \in Exports |-> [at |-> "none", link |-> 0, claim |-> NoOne,
                               wasRunning |-> FALSE, archive |-> NoArchive]]
  /\ expired = [e \in Exports |-> 0]
  /\ imp = [i \in Imports |-> [at |-> "none", of |-> 0, link |-> 0,
                               backup |-> NoArchive, on |-> FALSE]]
  /\ late = {}
  /\ faults \in Environments

-----------------------------------------------------------------------------
(* The source instance.                                                    *)

NoActiveExport == \A e \in Exports : exp[e].at \notin Active

\* Mutant of MayPowerOn: only what is being prepared keeps the source off.
MayPowerOnWhenReady(x) == \A e \in Exports : x[e].at \notin {"queued", "preparing"}

\* BeforeUpdate_instanceTransferPower, with the exports as they are in the write.
MayPowerOn(x) == \A e \in Exports : x[e].at \notin Active

UserPower(p) ==
  /\ source.power \notin {p, "gone"}
  /\ p = "on" => MayPowerOn(exp)
  /\ source' = [source EXCEPT !.power = p]
  /\ UNCHANGED <<exp, expired, imp, late, faults>>

\* The record is idle and no transfer is at work; its transfers go with it, and
\* exp keeps them only as what was decided.
UserDelete ==
  /\ source.power # "gone" /\ source.box # "up" /\ NoActiveExport
  /\ source' = [source EXCEPT !.power = "gone"]
  /\ UNCHANGED <<exp, expired, imp, late, faults>>

Raised ==
  /\ source.power = "on" /\ source.box = "down"
  /\ source' = [source EXCEPT !.box = "up"]
  /\ UNCHANGED <<exp, expired, imp, late, faults>>

\* The record says idle from here on.
Lowers ==
  /\ source.power # "on" /\ source.box = "up"
  /\ \/ source' = [source EXCEPT !.box = "down"]
     \/ "drain" \in faults /\ source' = [source EXCEPT !.box = "stopping"]
  /\ UNCHANGED <<exp, expired, imp, late, faults>>

Lowered ==
  /\ source.box = "stopping"
  /\ source' = [source EXCEPT !.box = "down"]
  /\ UNCHANGED <<exp, expired, imp, late, faults>>

Writes ==
  /\ source.data < MaxWrites
  /\ \/ source.box # "down"
     \/ "files" \in faults /\ source.power # "gone"
  /\ source' = [source EXCEPT !.data = @ + 1]
  /\ UNCHANGED <<exp, expired, imp, late, faults>>

-----------------------------------------------------------------------------
(* Exports: the operator and the dispatcher of the source.                 *)

Fresh(e)    == exp[e].link > expired[e]
FreshAt(i)  == imp[i].link > expired[imp[i].of]
At(e, status) == exp' = [exp EXCEPT ![e].at = status]

Create(e) ==
  /\ exp[e].at = "none" /\ \A f \in Exports : f < e => exp[f].at # "none"
  /\ source.power # "gone" /\ NoActiveExport
  /\ exp' = [exp EXCEPT ![e] = [@ EXCEPT !.at = "queued", !.link = 1,
                                         !.wasRunning = (source.power = "on")]]
  /\ source' = [source EXCEPT !.power = "off"]
  /\ UNCHANGED <<expired, imp, late, faults>>

RenewLink(e) ==
  /\ exp[e].at \in Active /\ exp[e].claim = NoOne /\ exp[e].link < MaxLinks
  /\ exp' = [exp EXCEPT ![e].link = @ + 1]
  /\ UNCHANGED <<source, expired, imp, late, faults>>

\* The write of power: true rolls the whole cancellation back when it is refused.
Cancel(e) ==
  /\ exp[e].at \in {"queued", "ready", "failed"} /\ source.power # "gone"
  /\ At(e, "revoked")
  /\ IF exp[e].wasRunning
     THEN MayPowerOn(exp') /\ source' = [source EXCEPT !.power = "on"]
     ELSE UNCHANGED source
  /\ UNCHANGED <<expired, imp, late, faults>>

DispatchExport(e) ==
  /\ exp[e].at = "queued"
  /\ At(e, IF Fresh(e) THEN "preparing" ELSE "failed")
  /\ UNCHANGED <<source, expired, imp, late, faults>>

\* Mutant of Prepares: the archive is made without waiting for the record to be idle.
PreparesAtOnce(e) ==
  /\ exp[e].at = "preparing"
  /\ exp' = [exp EXCEPT ![e] = [@ EXCEPT !.at = "ready", !.archive = source.data]]
  /\ UNCHANGED <<source, expired, imp, late, faults>>

\* waitUntilIdle, the archive, ready.
Prepares(e) ==
  /\ exp[e].at = "preparing" /\ source.power = "off" /\ source.box # "up"
  /\ exp' = [exp EXCEPT ![e] = [@ EXCEPT !.at = "ready", !.archive = source.data]]
  /\ UNCHANGED <<source, expired, imp, late, faults>>

\* The instance did not stop in time, the disk is full, ...
PrepareFails(e) ==
  /\ exp[e].at = "preparing"
  /\ At(e, "failed")
  /\ UNCHANGED <<source, expired, imp, late, faults>>

SourceRestarts ==
  /\ "restart" \in faults
  /\ exp' = [e \in Exports |->
       IF exp[e].at = "preparing" THEN [exp[e] EXCEPT !.at = "failed"] ELSE exp[e]]
  /\ UNCHANGED <<source, expired, imp, late, faults>>

\* The links of an export expire in the order they were made.
Expires(e) ==
  /\ "expire" \in faults /\ Fresh(e)
  /\ expired' = [expired EXCEPT ![e] = @ + 1]
  /\ UNCHANGED <<source, exp, imp, late, faults>>

-----------------------------------------------------------------------------
(* What the source answers to the target.  peerRecord compares the code.   *)

LinkOf(i) == imp[i].of # 0 /\ imp[i].link = exp[imp[i].of].link

AcceptsClaim(i) ==
  /\ LinkOf(i) /\ Fresh(imp[i].of)
  /\ exp[imp[i].of].at = "ready"
  /\ exp[imp[i].of].claim \in {NoOne, i}

SendsArchive(i) ==
  /\ LinkOf(i) /\ Fresh(imp[i].of)
  /\ exp[imp[i].of].at = "ready"
  /\ exp[imp[i].of].claim = i
  /\ source.power = "off"

AcceptsComplete(i) ==
  /\ LinkOf(i)
  /\ \/ exp[imp[i].of].at = "ready" /\ Fresh(imp[i].of)
     \/ exp[imp[i].of].at = "complete"
  /\ exp[imp[i].of].claim = i
  /\ source.power = "off"

Accepts(call, i) == IF call = "claim" THEN AcceptsClaim(i) ELSE AcceptsComplete(i)

Serve(call, i) ==
  exp' = IF call = "claim" THEN [exp EXCEPT ![imp[i].of].claim = i]
                           ELSE [exp EXCEPT ![imp[i].of].at = "complete"]

Goes(i, at) == imp' = [imp EXCEPT ![i].at = at]

\* A call of import i: it goes to `good' when it hears that the call was accepted.
Ask(call, i, good, bad) ==
  \/ Accepts(call, i) /\ Serve(call, i) /\ Goes(i, good) /\ UNCHANGED late
  \/ "loss" \in faults /\ Accepts(call, i) /\ Serve(call, i) /\ Goes(i, bad) /\ UNCHANGED late
  \/ ~Accepts(call, i) /\ Goes(i, bad) /\ UNCHANGED <<exp, late>>
  \/ "loss" \in faults /\ Goes(i, bad) /\ late' \in {late, late \cup {<<call, i>>}} /\ UNCHANGED exp

LateCall ==
  \E c \in late :
    /\ late' = late \ {c}
    /\ IF Accepts(c[1], c[2]) THEN Serve(c[1], c[2]) ELSE UNCHANGED exp
    /\ UNCHANGED <<source, expired, imp, faults>>

-----------------------------------------------------------------------------
(* Imports: the operator and the dispatcher of a target.                   *)

\* The link has been inspected; the instance (off) and the record are made.
Import(i, e) ==
  /\ imp[i].at = "none"
  /\ exp[e].at = "ready" /\ Fresh(e)
  /\ imp' = [imp EXCEPT ![i] = [@ EXCEPT !.at = "reserving", !.of = e, !.link = exp[e].link]]
  /\ UNCHANGED <<source, exp, expired, late, faults>>

\* Refused or unanswered: the record and the instance are deleted again.
Reserves(i) ==
  /\ imp[i].at = "reserving"
  /\ Ask("claim", i, "queued", "vanished")
  /\ UNCHANGED <<source, expired, faults>>

\* Mutant of DispatchImport: a link that has expired is thrown outside the try.
DispatchImportFresh(i) ==
  /\ imp[i].at = "queued" /\ FreshAt(i)
  /\ Goes(i, IF imp[i].backup = NoArchive THEN "claiming" ELSE "restoring")
  /\ UNCHANGED <<source, exp, expired, late, faults>>

DispatchImport(i) ==
  /\ imp[i].at = "queued"
  /\ Goes(i, IF ~FreshAt(i) THEN "failed"
             ELSE IF imp[i].backup = NoArchive THEN "claiming" ELSE "restoring")
  /\ UNCHANGED <<source, exp, expired, late, faults>>

Claims(i) ==
  /\ imp[i].at = "claiming"
  /\ Ask("claim", i, "fetching", "failed")
  /\ UNCHANGED <<source, expired, faults>>

Fetches(i) ==
  /\ imp[i].at = "fetching"
  /\ Goes(i, IF SendsArchive(i) THEN "streaming" ELSE "failed")
  /\ UNCHANGED <<source, exp, expired, late, faults>>

\* Mutant of Received: the phase is saved as the status, which does not know it.
ReceivedVerifying(i) ==
  /\ imp[i].at = "streaming"
  /\ Goes(i, "verifying")
  /\ UNCHANGED <<source, exp, expired, late, faults>>

\* Mutant of Received: the record of the import is not saved with its backup.
ReceivedUnsaved(i) ==
  /\ imp[i].at = "streaming"
  /\ Goes(i, "restoring")
  /\ UNCHANGED <<source, exp, expired, late, faults>>

\* Complete, verified against the checksum, and received as a backup.
Received(i) ==
  /\ imp[i].at = "streaming"
  /\ imp' = [imp EXCEPT ![i] = [@ EXCEPT !.at = "restoring", !.backup = exp[imp[i].of].archive]]
  /\ UNCHANGED <<source, exp, expired, late, faults>>

Restores(i) ==
  /\ imp[i].at = "restoring"
  /\ Goes(i, "acking")
  /\ UNCHANGED <<source, exp, expired, late, faults>>

WorkFails(i) ==
  /\ imp[i].at \in {"fetching", "streaming", "restoring"}
  /\ Goes(i, "failed")
  /\ UNCHANGED <<source, exp, expired, late, faults>>

\* Mutant of Acks: a completion that was not answered counts as done.
AcksBlindly(i) ==
  /\ imp[i].at = "acking"
  /\ Ask("complete", i, "acked", "acked")
  /\ UNCHANGED <<source, expired, faults>>

Acks(i) ==
  /\ imp[i].at = "acking"
  /\ Ask("complete", i, "acked", "failed")
  /\ UNCHANGED <<source, expired, faults>>

\* The answer is there; the private credentials are removed.
Finishes(i) ==
  /\ imp[i].at = "acked"
  /\ Goes(i, "complete")
  /\ UNCHANGED <<source, exp, expired, late, faults>>

\* A call that is under way may outlive the server.
TargetRestarts(i) ==
  /\ "restart" \in faults
  /\ imp[i].at \in Working
  /\ Goes(i, "failed")
  /\ \/ UNCHANGED late
     \/ imp[i].at \in {"reserving", "claiming"} /\ late' = late \cup {<<"claim", i>>}
     \/ imp[i].at = "acking" /\ late' = late \cup {<<"complete", i>>}
  /\ UNCHANGED <<source, exp, expired, faults>>

Retry(i) ==
  /\ imp[i].at = "failed" /\ FreshAt(i)
  /\ Goes(i, "queued")
  /\ UNCHANGED <<source, exp, expired, late, faults>>

\* The instance of a failed import may be deleted, and its record goes with it.
DeleteTarget(i) ==
  /\ imp[i].at = "failed"
  /\ Goes(i, "gone")
  /\ UNCHANGED <<source, exp, expired, late, faults>>

TargetPower(i) ==
  /\ imp[i].at = "complete"
  /\ imp' = [imp EXCEPT ![i].on = ~@]
  /\ UNCHANGED <<source, exp, expired, late, faults>>

-----------------------------------------------------------------------------
SourceInstance == \/ \E p \in {"on", "off"} : UserPower(p)
                  \/ UserDelete \/ Raised \/ Lowers \/ Lowered \/ Writes

Operator == \/ \E e \in Exports : Create(e) \/ RenewLink(e) \/ Cancel(e)
            \/ \E i \in Imports, e \in Exports : Import(i, e)
            \/ \E i \in Imports : Retry(i) \/ DeleteTarget(i) \/ TargetPower(i)

Export(e) == DispatchExport(e) \/ Prepares(e) \/ PrepareFails(e)
Work(i)   == \/ Reserves(i) \/ DispatchImport(i) \/ Claims(i) \/ Fetches(i) \/ Received(i)
             \/ Restores(i) \/ WorkFails(i) \/ Acks(i) \/ Finishes(i)

Mishap == \/ SourceRestarts \/ LateCall
          \/ \E e \in Exports : Expires(e)
          \/ \E i \in Imports : TargetRestarts(i)

Next == \/ SourceInstance \/ Operator \/ Mishap
        \/ \E e \in Exports : Export(e)
        \/ \E i \in Imports : Work(i)

Spec == Init /\ [][Next]_vars

\* The dispatchers are cron jobs, and each of their steps ends or times out.
Fairness == /\ \A e \in Exports : WF_vars(Export(e))
            /\ \A i \in Imports : WF_vars(Work(i))

FairSpec == Spec /\ Fairness
-----------------------------------------------------------------------------
\* While an export is active nothing raises the source: not its owner, not the
\* cancellation of another export, whose own write is rolled back instead.
SourceStaysOff ==
  (\E e \in Exports : exp[e].at \in Active) => source.power = "off"

\* What is offered to a target is all that was ever written to the source, also
\* after failures, cancellations and restarts in between, as long as idle means
\* that the container has stopped and nobody changes the files by other means.
ArchiveIsLatest ==
  faults \cap {"drain", "files"} = {} =>
    \A e \in Exports : exp[e].at = "ready" => exp[e].archive = source.data

\* An export that was given away without its receiver having heard so is not
\* lost: the receiver has the archive, and holds the claim and the code with
\* which it may ask again, whoever else renewed, claimed or retried meanwhile.
GivenIsKept ==
  \A e \in Exports : exp[e].at = "complete" =>
    \E i \in Imports : /\ exp[e].claim = i /\ imp[i].of = e
                       /\ imp[i].link = exp[e].link
                       /\ imp[i].backup = exp[e].archive
                       /\ imp[i].at \in {"restoring", "acking", "acked", "queued",
                                         "failed", "complete", "gone"}

\* Whatever is queued or at work comes to an end or can be taken up by hand: no
\* transfer blocks the dispatcher for ever.
WorkSettles ==
  /\ \A e \in Exports :
       exp[e].at \in {"queued", "preparing"} ~> exp[e].at \notin {"queued", "preparing"}
  /\ \A i \in Imports :
       imp[i].at \in Working \cup {"queued"} ~> imp[i].at \notin Working \cup {"queued"}

\* What has become of an export.
Outcome(x) == CASE x.at = "none" -> "none"
                [] x.at \in Active -> "open"
                [] x.at \in {"failed", "revoked"} -> "kept"
                [] x.at = "complete" -> x.claim

\* A lost answer, a late call, a second claim or a cancellation never makes two
\* receivers, a receiver of what was kept, or a started instance nobody was given.
Handover == INSTANCE InstanceHandover WITH
  outcome  <- [e \in Exports |-> Outcome(exp[e])],
  finished <- {i \in Imports : imp[i].at = "complete"}

IsHandover == Handover!Spec

\* srv.md speaks of cancelling an export that is not reserved: what a target has
\* reserved, and may be restoring, is not taken back.
ReservedIsNotTakenBack ==
  [][\A e \in Exports : exp[e].at = "ready" /\ exp[e].claim # NoOne =>
       exp'[e].at # "revoked"]_vars
=============================================================================

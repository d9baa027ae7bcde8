----------------------- MODULE InstanceTransferProofs -----------------------
(***************************************************************************)
(* Theorems about InstanceTransfer, for any numbers of exports, imports,   *)
(* links and writes and any disturbances: its types, what an active export *)
(* asks of the source, that a given export is kept, and that the two       *)
(* servers implement InstanceHandover.                                     *)
(***************************************************************************)
EXTENDS InstanceTransfer, TLAPS

ExpRec == [at : ExpStatus, link : 0..MaxLinks, claim : Imports \cup {NoOne},
           wasRunning : BOOLEAN, archive : Archives]
ImpRec == [at : ImpAt, of : Exports \cup {0}, link : 0..MaxLinks,
           backup : Archives, on : BOOLEAN]
SrcRec == [power : {"on", "off", "gone"}, box : {"down", "up", "stopping"},
           data : 0..MaxWrites]

(* Where idle means stopped, the source of an export that is offered is down. *)
DownWhenReady ==
  faults \cap {"drain", "files"} = {} =>
    /\ source.box # "stopping"
    /\ \A e \in Exports : exp[e].at = "ready" => source.box = "down"

SourceInv == SourceStaysOff /\ DownWhenReady /\ ArchiveIsLatest

(* Only an export that has been offered is imported, and its archive is final. *)
Offered == {"ready", "complete", "revoked"}

ReadyFits == \A e \in Exports : exp[e].at = "ready" => exp[e].archive # NoArchive

ImportsFit ==
  \A i \in Imports :
    /\ imp[i].at = "none" <=> imp[i].of = 0
    /\ imp[i].of # 0 => /\ exp[imp[i].of].at \in Offered
                        /\ exp[imp[i].of].archive # NoArchive

(* Once an import has its backup it is past claiming, and stays so. *)
Backed == {"restoring", "acking", "acked", "queued", "failed", "complete", "gone"}

BackupsFit ==
  \A i \in Imports :
    /\ imp[i].backup # NoArchive =>
         /\ imp[i].of # 0
         /\ imp[i].backup = exp[imp[i].of].archive
         /\ imp[i].at \in Backed
    /\ imp[i].at \in {"restoring", "acking", "acked", "complete"} =>
         imp[i].backup # NoArchive

(* A claim is that of an import of this very export and link. *)
ClaimsFit ==
  \A e \in Exports : \A i \in Imports :
    exp[e].claim = i => imp[i].of = e /\ imp[i].link = exp[e].link

(* Who asks, or has asked, to complete an export has its archive. *)
LateFits  == \A i \in Imports : <<"complete", i>> \in late => imp[i].backup # NoArchive
GivenFits == \A e \in Exports : exp[e].at = "complete" =>
               exp[e].claim \in Imports /\ imp[exp[e].claim].backup # NoArchive

FinishedFits ==
  \A i \in Imports : imp[i].at \in {"acked", "complete"} =>
    exp[imp[i].of].at = "complete" /\ exp[imp[i].of].claim = i

Fits == /\ ReadyFits /\ ImportsFit /\ BackupsFit /\ ClaimsFit
        /\ LateFits /\ GivenFits /\ FinishedFits

(* A transfer is only created when no other is active. *)
OneActive == \A e, f \in Exports :
               exp[e].at \in Active /\ exp[f].at \in Active => e = f

IInv == TypeOK /\ SourceInv /\ Fits /\ OneActive

\* Every initial state satisfies the inductive invariant.
LEMMA InitIInv == Init => IInv
<1> SUFFICES ASSUME Init PROVE IInv
  OBVIOUS
<1>1. TypeOK
  BY BoundAssumption DEF Init, TypeOK, ExpStatus, ImpAt, Archives, NoArchive
<1>2. SourceInv /\ OneActive
  BY DEF Init, SourceInv, SourceStaysOff, DownWhenReady, ArchiveIsLatest, OneActive, Active
<1>3. Fits
  BY NoOneAssumption DEF Init, Fits, ReadyFits, ImportsFit, BackupsFit, ClaimsFit,
     LateFits, GivenFits, FinishedFits
<1> QED BY <1>1, <1>2, <1>3 DEF IInv

-----------------------------------------------------------------------------
(* What a call does when the source serves it.                             *)

(* An import's call is served, or it is not. *)
Answered(call, i) == \/ exp' = exp
                     \/ Accepts(call, i) /\ Serve(call, i)

(* What of the exports a call of import i may change, and when. *)
ServedBy(call, i) ==
  /\ exp' \in [Exports -> ExpRec]
  /\ \A e \in Exports : /\ exp'[e].link = exp[e].link
                        /\ exp'[e].archive = exp[e].archive
  /\ \A e \in Exports : exp'[e].at # exp[e].at =>
       /\ call = "complete" /\ e = imp[i].of /\ exp[e].claim = i
       /\ exp[e].at = "ready" /\ exp'[e].at = "complete"
  /\ \A e \in Exports : exp'[e].claim # exp[e].claim =>
       /\ e = imp[i].of /\ imp[i].link = exp[e].link
       /\ exp[e].at = "ready" /\ exp[e].claim = NoOne /\ exp'[e].claim = i

\* claim reserves an unreserved export and complete ends a reserved one; nothing
\* else of the source's records is changed by what a target asks.
LEMMA AnsweredFrame ==
  ASSUME TypeOK, NEW call \in Calls, NEW i \in Imports, Answered(call, i)
  PROVE  ServedBy(call, i)
<1>1. exp \in [Exports -> ExpRec] /\ imp[i].of \in Exports \cup {0}
  BY DEF TypeOK, ExpRec
<1>2. CASE exp' = exp
  BY <1>1, <1>2 DEF ServedBy
<1>3. CASE call = "claim" /\ AcceptsClaim(i) /\ exp' = [exp EXCEPT ![imp[i].of].claim = i]
  BY <1>1, <1>3 DEF ServedBy, AcceptsClaim, LinkOf, ExpRec
<1>4. CASE /\ call = "complete" /\ AcceptsComplete(i)
           /\ exp' = [exp EXCEPT ![imp[i].of].at = "complete"]
  BY <1>1, <1>4 DEF ServedBy, AcceptsComplete, LinkOf, ExpRec, ExpStatus
<1> QED BY <1>2, <1>3, <1>4 DEF Answered, Accepts, Serve, Calls

\* No answer to a target raises the source, offers an export or activates one.
LEMMA AnsweredSource ==
  ASSUME SourceInv, OneActive, NEW call, NEW i, ServedBy(call, i),
         UNCHANGED <<source, faults>>
  PROVE  SourceInv' /\ OneActive'
<1>1. \A e \in Exports : /\ exp'[e].at \in Active => exp[e].at \in Active
                         /\ exp'[e].at = "ready" => exp[e].at = "ready"
  BY DEF ServedBy, Active
<1>2. SourceInv'
  BY <1>1 DEF SourceInv, SourceStaysOff, DownWhenReady, ArchiveIsLatest, ServedBy
<1>3. OneActive' BY <1>1 DEF OneActive
<1> QED BY <1>2, <1>3

(* Import i moves, and keeps the link and the backup it has. *)
Moves(i) ==
  /\ imp' \in [Imports -> ImpRec]
  /\ \A j \in Imports : /\ imp'[j].of = imp[j].of /\ imp'[j].link = imp[j].link
                        /\ imp'[j].backup = imp[j].backup
                        /\ j # i => imp'[j].at = imp[j].at

\* Goes changes where one import is and nothing else.
LEMMA GoesMoves ==
  ASSUME TypeOK, NEW i \in Imports, NEW at \in ImpAt, Goes(i, at)
  PROVE  Moves(i) /\ imp'[i].at = at
<1>1. imp \in [Imports -> ImpRec] BY DEF TypeOK, ImpRec
<1> QED BY <1>1 DEF Moves, Goes, ImpRec

\* A call that is or is not served, and what its caller does then, keep the
\* records of the two servers in agreement.
LEMMA CallKeeps ==
  ASSUME TypeOK, Fits, NEW call \in Calls, NEW i \in Imports,
         ServedBy(call, i), Moves(i),
         call = "complete" => imp[i].backup # NoArchive \/ exp' = exp,
         imp'[i].at = "none" <=> imp[i].at = "none",
         imp[i].backup # NoArchive => imp'[i].at \in Backed,
         imp'[i].at \in {"restoring", "acking", "acked", "complete"} =>
           imp[i].backup # NoArchive,
         imp'[i].at \in {"acked", "complete"} =>
           exp'[imp[i].of].at = "complete" /\ exp'[imp[i].of].claim = i,
         \A j \in Imports : <<"complete", j>> \in late' => imp[j].backup # NoArchive
  PROVE  Fits'
<1>1. ReadyFits' BY DEF Fits, ReadyFits, ServedBy
<1>2. ImportsFit'
  <2> SUFFICES ASSUME NEW j \in Imports
               PROVE  /\ imp'[j].at = "none" <=> imp'[j].of = 0
                      /\ imp'[j].of # 0 => /\ exp'[imp'[j].of].at \in Offered
                                           /\ exp'[imp'[j].of].archive # NoArchive
    BY DEF ImportsFit
  <2>1. imp'[j].at = "none" <=> imp[j].at = "none" BY DEF Moves
  <2>2. imp[j].of \in Exports \cup {0} BY DEF TypeOK
  <2> QED BY <2>1, <2>2 DEF Fits, ImportsFit, Moves, ServedBy, Offered
<1>3. BackupsFit'
  <2> SUFFICES ASSUME NEW j \in Imports
               PROVE  /\ imp'[j].backup # NoArchive =>
                           /\ imp'[j].of # 0
                           /\ imp'[j].backup = exp'[imp'[j].of].archive
                           /\ imp'[j].at \in Backed
                      /\ imp'[j].at \in {"restoring", "acking", "acked", "complete"} =>
                           imp'[j].backup # NoArchive
    BY DEF BackupsFit, NoArchive
  <2>1. imp[j].of \in Exports \cup {0} BY DEF TypeOK
  <2> QED BY <2>1 DEF Fits, BackupsFit, Moves, ServedBy
<1>4. ClaimsFit' BY DEF Fits, ClaimsFit, Moves, ServedBy
<1>5. LateFits' BY DEF LateFits, Moves, NoArchive
<1>6. GivenFits'
  <2> SUFFICES ASSUME NEW e \in Exports, exp'[e].at = "complete"
               PROVE  exp'[e].claim \in Imports /\ imp'[exp'[e].claim].backup # NoArchive
    BY DEF GivenFits, NoArchive
  <2>1. CASE exp[e].at = "complete"
    BY <2>1 DEF Fits, GivenFits, Moves, ServedBy
  <2>2. CASE exp[e].at # "complete"
    BY <2>2 DEF Moves, ServedBy
  <2> QED BY <2>1, <2>2
<1>7. FinishedFits'
  <2> SUFFICES ASSUME NEW j \in Imports, imp'[j].at \in {"acked", "complete"}, j # i
               PROVE  exp'[imp'[j].of].at = "complete" /\ exp'[imp'[j].of].claim = j
    BY DEF FinishedFits, Moves
  <2>1. imp[j].at \in {"acked", "complete"} BY DEF Moves
  <2>2. imp[j].of \in Exports BY <2>1 DEF TypeOK, Fits, ImportsFit
  <2> QED BY <2>1, <2>2 DEF Fits, FinishedFits, Moves, ServedBy
<1> QED BY <1>1, <1>2, <1>3, <1>4, <1>5, <1>6, <1>7 DEF Fits
-----------------------------------------------------------------------------
(* The steps of the source instance.                                       *)

\* What leaves both servers' records alone keeps them in agreement.
LEMMA RecordsSame ==
  ASSUME Fits, OneActive, UNCHANGED <<exp, imp, late>>
  PROVE  Fits' /\ OneActive'
BY DEF Fits, ReadyFits, ImportsFit, BackupsFit, ClaimsFit, LateFits, GivenFits,
       FinishedFits, OneActive, NoArchive

\* Neither its owner nor its container invalidates what an active export needs.
LEMMA SourceKeeps == IInv /\ SourceInstance => IInv'
<1> SUFFICES ASSUME IInv, SourceInstance PROVE IInv'
  OBVIOUS
<1> USE DEF IInv
<1>1. UNCHANGED <<exp, expired, imp, late, faults>>
  BY DEF SourceInstance, UserPower, UserDelete, Raised, Lowers, Lowered, Writes
<1>2. Fits' /\ OneActive' BY <1>1, RecordsSame
<1>3. source \in SrcRec BY DEF TypeOK, SrcRec
<1>4. (\A e \in Exports : exp[e].at # "ready") \/ (\E e \in Exports : exp[e].at \in Active)
  BY DEF Active
<1>5. source' \in SrcRec /\ SourceInv'
  <2> USE DEF SourceInv, SourceStaysOff, DownWhenReady, ArchiveIsLatest, SrcRec
  <2>1. ASSUME NEW p \in {"on", "off"}, UserPower(p) PROVE source' \in SrcRec /\ SourceInv'
    BY <1>1, <1>3, <2>1 DEF UserPower, MayPowerOn
  <2>2. CASE UserDelete
    BY <1>1, <1>3, <2>2 DEF UserDelete, NoActiveExport
  <2>3. CASE Raised
    BY <1>1, <1>3, <1>4, <2>3 DEF Raised
  <2>4. CASE Lowers
    BY <1>1, <1>3, <2>4 DEF Lowers
  <2>5. CASE Lowered
    BY <1>1, <1>3, <2>5 DEF Lowered
  <2>6. CASE Writes
    <3>1. source' \in SrcRec BY <1>3, <2>6, BoundAssumption DEF Writes
    <3>2. source'.power = source.power /\ source'.box = source.box
      BY <1>3, <2>6 DEF Writes
    <3>3. faults \cap {"drain", "files"} = {} =>
            \A e \in Exports : exp[e].at # "ready"
      BY <2>6 DEF Writes
    <3> QED BY <1>1, <3>1, <3>2, <3>3
  <2> QED BY <2>1, <2>2, <2>3, <2>4, <2>5, <2>6 DEF SourceInstance
<1>6. TypeOK' BY <1>1, <1>5 DEF TypeOK, SrcRec
<1> QED BY <1>2, <1>5, <1>6

-----------------------------------------------------------------------------
(* The steps of the exports.                                               *)

\* The source's own steps never change what an import relies on.
LEMMA ExportFits ==
  ASSUME TypeOK, Fits, UNCHANGED <<imp, late>>,
         \A e \in Exports : exp'[e].claim = exp[e].claim,
         \A e \in Exports : \A i \in Imports :
           exp[e].claim = i => exp'[e].link = exp[e].link,
         \A e \in Exports : exp[e].at \in Offered =>
           exp'[e].at \in Offered /\ exp'[e].archive = exp[e].archive,
         \A e \in Exports : exp'[e].at = "complete" <=> exp[e].at = "complete",
         \A e \in Exports : exp'[e].at = "ready" => exp'[e].archive # NoArchive
  PROVE  Fits'
<1>1. ReadyFits' BY DEF ReadyFits, NoArchive
<1>2. \A i \in Imports : imp[i].of \in Exports \cup {0} BY DEF TypeOK
<1>3. ImportsFit' BY <1>2 DEF Fits, ImportsFit, NoArchive
<1>4. BackupsFit' BY <1>2 DEF Fits, BackupsFit, ImportsFit, NoArchive
<1>5. ClaimsFit' BY DEF Fits, ClaimsFit
<1>6. LateFits' BY DEF Fits, LateFits, NoArchive
<1>7. GivenFits' BY DEF Fits, GivenFits, NoArchive
<1>8. FinishedFits' BY <1>2 DEF Fits, FinishedFits, ImportsFit
<1> QED BY <1>1, <1>3, <1>4, <1>5, <1>6, <1>7, <1>8 DEF Fits

(* Only export e changes, in its status, link, past and archive. *)
Changes(e) ==
  /\ exp' \in [Exports -> ExpRec]
  /\ exp'[e].claim = exp[e].claim
  /\ \A f \in Exports \ {e} : exp'[f] = exp[f]
  /\ UNCHANGED <<expired, imp, late, faults>>

\* A step of one export that is not offered yet, or no longer.
LEMMA ChangesFits ==
  ASSUME TypeOK, Fits, NEW e \in Exports, Changes(e),
         \A i \in Imports : exp[e].claim = i => exp'[e].link = exp[e].link,
         exp[e].at \in Offered =>
           exp'[e].at \in Offered /\ exp'[e].archive = exp[e].archive,
         exp'[e].at = "complete" <=> exp[e].at = "complete",
         exp'[e].at = "ready" => exp'[e].archive # NoArchive
  PROVE  Fits'
<1>1. \A f \in Exports : exp[f].at = "ready" => exp[f].archive # NoArchive
  BY DEF Fits, ReadyFits
<1>2. \A f \in Exports : f # e => exp'[f] = exp[f]
  BY DEF Changes
<1> QED BY <1>1, <1>2, ExportFits DEF Changes

\* Whose export is not offered is claimed by nobody.
LEMMA Unclaimed ==
  ASSUME TypeOK, Fits, NEW e \in Exports, exp[e].at \notin Offered
  PROVE  \A i \in Imports : exp[e].claim # i
BY ExportAssumption DEF TypeOK, Fits, ClaimsFit, ImportsFit, Offered

\* A new export is the only active one, and its source is switched off.
LEMMA CreateKeeps == ASSUME IInv, NEW e \in Exports, Create(e) PROVE IInv'
<1> USE DEF IInv
<1>1. exp \in [Exports -> ExpRec] /\ source \in SrcRec BY DEF TypeOK, ExpRec, SrcRec
<1>2. /\ Changes(e) /\ exp[e].at = "none" /\ exp'[e].at = "queued"
      /\ source' \in SrcRec /\ source'.power = "off"
      /\ source'.box = source.box /\ source'.data = source.data
  <2> DEFINE ran == source.power = "on"
  <2>1. /\ exp' = [exp EXCEPT ![e] = [@ EXCEPT !.at = "queued", !.link = 1, !.wasRunning = ran]]
        /\ ran \in BOOLEAN /\ exp[e].at = "none" /\ source' = [source EXCEPT !.power = "off"]
        /\ UNCHANGED <<expired, imp, late, faults>>
    BY DEF Create
  <2>2. 1 \in 0..MaxLinks /\ "queued" \in ExpStatus
    BY BoundAssumption DEF ExpStatus, Active
  <2> HIDE DEF ran
  <2>3. Changes(e) /\ exp'[e].at = "queued"
    BY <1>1, <2>1, <2>2 DEF Changes, ExpRec
  <2> QED BY <1>1, <2>1, <2>3 DEF SrcRec
<1>3. TypeOK' BY <1>2 DEF Changes, TypeOK, ExpRec, SrcRec
<1>4. \A f \in Exports : exp'[f].at \in Active => f = e
  BY <1>2 DEF Create, NoActiveExport, Changes
<1>5. OneActive' BY <1>4 DEF OneActive
<1>6. SourceInv'
  BY <1>2, <1>4
     DEF SourceInv, SourceStaysOff, DownWhenReady, ArchiveIsLatest, Changes, Active
<1>7. Fits'
  BY <1>2, Unclaimed, ChangesFits DEF Offered
<1> QED BY <1>3, <1>5, <1>6, <1>7

\* A link is only renewed while nobody holds the export.
LEMMA RenewKeeps == ASSUME IInv, NEW e \in Exports, RenewLink(e) PROVE IInv'
<1> USE DEF IInv
<1>1. exp \in [Exports -> ExpRec] BY DEF TypeOK, ExpRec
<1>2. /\ Changes(e) /\ exp'[e].at = exp[e].at /\ exp'[e].archive = exp[e].archive
      /\ exp[e].claim = NoOne /\ UNCHANGED source
  BY <1>1, BoundAssumption DEF RenewLink, Changes, ExpRec
<1>3. TypeOK' BY <1>2 DEF Changes, TypeOK, ExpRec
<1>4. \A f \in Exports : exp'[f].at = exp[f].at /\ exp'[f].archive = exp[f].archive
  BY <1>2 DEF Changes
<1>5. OneActive' BY <1>4 DEF OneActive
<1>6. SourceInv'
  BY <1>2, <1>4
     DEF SourceInv, SourceStaysOff, DownWhenReady, ArchiveIsLatest, Changes
<1>7. Fits'
  <2>1. exp[e].at = "ready" => exp[e].archive # NoArchive BY DEF Fits, ReadyFits
  <2> QED BY <1>2, <2>1, NoOneAssumption, ChangesFits
<1> QED BY <1>3, <1>5, <1>6, <1>7

\* An export that ends or fails, or starts to be prepared, asks no more than before.
LEMMA StatusKeeps ==
  ASSUME IInv, NEW e \in Exports, NEW status \in {"preparing", "failed", "revoked"},
         At(e, status), UNCHANGED <<expired, imp, late, faults>>,
         status = "preparing" => exp[e].at = "queued",
         exp[e].at \notin {"none", "complete"},
         status # "revoked" => exp[e].at \in {"queued", "preparing"}
  PROVE  /\ Fits' /\ OneActive' /\ (UNCHANGED source => IInv')
         /\ \A f \in Exports : /\ exp'[f].at \in Active => exp[f].at \in Active
                               /\ exp'[f].at = "ready" =>
                                    exp[f].at = "ready" /\ exp'[f].archive = exp[f].archive
         /\ exp' \in [Exports -> ExpRec]
<1> USE DEF IInv
<1>1. exp \in [Exports -> ExpRec] BY DEF TypeOK, ExpRec
<1>2. Changes(e) /\ exp'[e] = [exp[e] EXCEPT !.at = status]
  BY <1>1 DEF At, Changes, ExpRec, ExpStatus, Active
<1>3. /\ exp'[e].at = status /\ exp'[e].link = exp[e].link
      /\ exp'[e].archive = exp[e].archive
  BY <1>1, <1>2 DEF ExpRec
<1>4. \A f \in Exports : /\ exp'[f].at \in Active => exp[f].at \in Active
                         /\ exp'[f].at = "ready" =>
                              exp[f].at = "ready" /\ exp'[f].archive = exp[f].archive
  BY <1>2, <1>3 DEF Changes, Active
<1>5. OneActive' BY <1>4 DEF OneActive
<1>6. Fits'
  BY <1>2, <1>3, ChangesFits DEF Offered
<1>7. ASSUME UNCHANGED source PROVE TypeOK' /\ SourceInv'
  <2>1. TypeOK' BY <1>2, <1>7 DEF Changes, TypeOK, ExpRec
  <2>2. SourceInv'
    BY <1>2, <1>4, <1>7
       DEF SourceInv, SourceStaysOff, DownWhenReady, ArchiveIsLatest, Changes
  <2> QED BY <2>1, <2>2
<1>8. exp' \in [Exports -> ExpRec] BY <1>2 DEF Changes
<1> QED BY <1>4, <1>5, <1>6, <1>7, <1>8

\* A cancellation raises the source only when no transfer needs it off.
LEMMA CancelKeeps == ASSUME IInv, NEW e \in Exports, Cancel(e) PROVE IInv'
<1> USE DEF IInv
<1>1. /\ Fits' /\ OneActive' /\ (UNCHANGED source => IInv')
      /\ \A f \in Exports : /\ exp'[f].at \in Active => exp[f].at \in Active
                            /\ exp'[f].at = "ready" =>
                                 exp[f].at = "ready" /\ exp'[f].archive = exp[f].archive
      /\ exp' \in [Exports -> ExpRec]
  BY StatusKeeps DEF Cancel
<1>2. CASE UNCHANGED source BY <1>1, <1>2
<1>3. CASE MayPowerOn(exp') /\ source' = [source EXCEPT !.power = "on"]
  <2>1. source \in SrcRec BY DEF TypeOK, SrcRec
  <2>2. /\ source' \in SrcRec /\ source'.box = source.box /\ source'.data = source.data
    BY <1>3, <2>1 DEF SrcRec
  <2>3. TypeOK' BY <1>1, <2>2 DEF Cancel, TypeOK, ExpRec, SrcRec
  <2>4. \A f \in Exports : exp'[f].at \notin Active BY <1>3 DEF MayPowerOn
  <2>5. SourceInv'
    BY <2>2, <2>4
       DEF Cancel, SourceInv, SourceStaysOff, DownWhenReady, ArchiveIsLatest, Active
  <2> QED BY <1>1, <2>3, <2>5
<1> QED BY <1>2, <1>3 DEF Cancel

\* What becomes ready was archived while its source was down for good.
LEMMA PreparesKeeps == ASSUME IInv, NEW e \in Exports, Prepares(e) PROVE IInv'
<1> USE DEF IInv
<1>1. exp \in [Exports -> ExpRec] /\ source \in SrcRec BY DEF TypeOK, ExpRec, SrcRec
<1>2. source.data \in Archives /\ source.data # NoArchive
  BY <1>1, BoundAssumption DEF SrcRec, Archives, NoArchive
<1>3. /\ Changes(e) /\ exp[e].at = "preparing" /\ exp'[e].at = "ready"
      /\ exp'[e].archive = source.data /\ UNCHANGED source
  BY <1>1, <1>2 DEF Prepares, Changes, ExpRec, ExpStatus, Active
<1>4. TypeOK' BY <1>3 DEF Changes, TypeOK, ExpRec
<1>5. \A f \in Exports : exp'[f].at \in Active => exp[f].at \in Active
  BY <1>3 DEF Changes, Active
<1>6. OneActive' BY <1>5 DEF OneActive
<1>7. SourceInv'
  <2>1. source.box \in {"down", "stopping"} BY <1>1 DEF Prepares, SrcRec
  <2> QED
    BY <1>3, <1>5, <2>1
       DEF SourceInv, SourceStaysOff, DownWhenReady, ArchiveIsLatest, Changes
<1>8. Fits' BY <1>2, <1>3, Unclaimed, ChangesFits DEF Offered
<1> QED BY <1>4, <1>6, <1>7, <1>8

\* At the start of the source what was being prepared has failed.
LEMMA SourceRestartsKeeps == ASSUME IInv, SourceRestarts PROVE IInv'
<1> USE DEF IInv
<1>1. exp \in [Exports -> ExpRec] BY DEF TypeOK, ExpRec
<1>2. /\ exp' \in [Exports -> ExpRec] /\ UNCHANGED <<source, expired, imp, late, faults>>
      /\ \A e \in Exports : /\ exp'[e].claim = exp[e].claim
                            /\ exp'[e].link = exp[e].link
                            /\ exp'[e].archive = exp[e].archive
                            /\ \/ exp'[e].at = exp[e].at
                               \/ exp[e].at = "preparing" /\ exp'[e].at = "failed"
  BY <1>1 DEF SourceRestarts, ExpRec, ExpStatus
<1>3. TypeOK' BY <1>2 DEF TypeOK, ExpRec
<1>4. \A e \in Exports : /\ exp'[e].at \in Active => exp[e].at \in Active
                         /\ exp'[e].at = "ready" => exp[e].at = "ready"
  BY <1>2 DEF Active
<1>5. OneActive' BY <1>4 DEF OneActive
<1>6. SourceInv'
  BY <1>2, <1>4 DEF SourceInv, SourceStaysOff, DownWhenReady, ArchiveIsLatest
<1>7. Fits'
  <2>1. \A e \in Exports : exp[e].at = "ready" => exp[e].archive # NoArchive
    BY DEF Fits, ReadyFits
  <2>2. \A e \in Exports : exp[e].at \in Offered =>
          exp'[e].at \in Offered /\ exp'[e].archive = exp[e].archive
    BY <1>2 DEF Offered
  <2>3. \A e \in Exports : exp'[e].at = "complete" <=> exp[e].at = "complete"
    BY <1>2
  <2>4. \A e \in Exports : exp'[e].at = "ready" => exp'[e].archive # NoArchive
    BY <1>2, <2>1
  <2>5. \A e \in Exports : exp'[e].claim = exp[e].claim /\ exp'[e].link = exp[e].link
    BY <1>2
  <2> HIDE DEF IInv
  <2>6. TypeOK /\ Fits BY DEF IInv
  <2> QED BY <1>2, <2>2, <2>3, <2>4, <2>5, <2>6, ExportFits
<1> QED BY <1>3, <1>5, <1>6, <1>7

\* The dispatcher of the source keeps the invariant.
LEMMA ExportKeeps == ASSUME IInv, NEW e \in Exports, Export(e) PROVE IInv'
<1>1. CASE DispatchExport(e) BY <1>1, StatusKeeps DEF DispatchExport
<1>2. CASE Prepares(e) BY <1>2, PreparesKeeps
<1>3. CASE PrepareFails(e) BY <1>3, StatusKeeps DEF PrepareFails
<1> QED BY <1>1, <1>2, <1>3 DEF Export

\* A link that expires changes nothing that is recorded.
LEMMA ExpiresKeeps == ASSUME IInv, NEW e \in Exports, Expires(e) PROVE IInv'
<1> USE DEF IInv
<1>1. Fits' /\ OneActive' BY RecordsSame DEF Expires
<1>2. expired' \in [Exports -> 0..MaxLinks]
  BY BoundAssumption DEF TypeOK, Expires, Fresh
<1>3. TypeOK' BY <1>2 DEF TypeOK, Expires
<1>4. SourceInv'
  BY DEF SourceInv, SourceStaysOff, DownWhenReady, ArchiveIsLatest, Expires
<1> QED BY <1>1, <1>3, <1>4

-----------------------------------------------------------------------------
(* The steps of the imports.                                               *)

\* A step of an import that asks nothing of the source.
LEMMA GoesKeeps ==
  ASSUME IInv, NEW i \in Imports, NEW at \in ImpAt \ {"none"}, Goes(i, at),
         UNCHANGED <<source, exp, expired, faults>>,
         late' \subseteq Calls \X Imports,
         \A j \in Imports : <<"complete", j>> \in late' =>
           <<"complete", j>> \in late \/ (j = i /\ imp[i].at = "acking"),
         imp[i].at # "none",
         imp[i].backup # NoArchive => at \in Backed,
         at \in {"restoring", "acking", "acked", "complete"} => imp[i].backup # NoArchive,
         at \in {"acked", "complete"} => imp[i].at \in {"acked", "complete"}
  PROVE  IInv'
<1> USE DEF IInv
<1>1. "claim" \in Calls /\ Answered("claim", i) BY DEF Calls, Answered
<1>2. ServedBy("claim", i) BY <1>1, AnsweredFrame
<1>3. Moves(i) /\ imp'[i].at = at BY GoesMoves
<1>4. SourceInv' /\ OneActive' BY <1>2, AnsweredSource
<1>5. TypeOK' BY <1>3 DEF TypeOK, Moves, ImpRec
<1>6. \A j \in Imports : <<"complete", j>> \in late' => imp[j].backup # NoArchive
  BY DEF Fits, LateFits, BackupsFit
<1>7. imp[i].at \in {"acked", "complete"} =>
        exp'[imp[i].of].at = "complete" /\ exp'[imp[i].of].claim = i
  BY DEF Fits, FinishedFits
<1> HIDE DEF IInv
<1>8. TypeOK /\ Fits BY DEF IInv
<1>9. Fits' BY <1>1, <1>2, <1>3, <1>6, <1>7, <1>8, CallKeeps
<1> QED BY <1>4, <1>5, <1>9 DEF IInv

\* A call, whatever becomes of it, keeps the two servers in agreement.
LEMMA AskKeeps ==
  ASSUME IInv, NEW i \in Imports, NEW call \in Calls,
         NEW good \in ImpAt, NEW bad \in {"vanished", "failed"},
         Ask(call, i, good, bad), UNCHANGED <<source, expired, faults>>,
         call = "claim" =>
           imp[i].at \in {"reserving", "claiming"} /\ good \in {"queued", "fetching"},
         call = "complete" =>
           imp[i].at = "acking" /\ good = "acked" /\ bad = "failed"
  PROVE  IInv' /\ ServedBy(call, i) /\ Moves(i) /\ imp'[i].at \in {good, bad}
<1> USE DEF IInv
<1>1. Answered(call, i) BY DEF Ask, Answered
<1>2. ServedBy(call, i) BY <1>1, AnsweredFrame
<1>3. PICK at \in {good, bad} : Goes(i, at) BY DEF Ask
<1>4. bad \in ImpAt BY DEF ImpAt, Working
<1>5. Moves(i) /\ imp'[i].at = at BY <1>3, <1>4, GoesMoves
<1>6. SourceInv' /\ OneActive' BY <1>2, AnsweredSource
<1>7. late' \subseteq late \cup {<<call, i>>} BY DEF Ask
<1>8. TypeOK'
  <2>1. late' \subseteq Calls \X Imports BY <1>7 DEF TypeOK
  <2> QED BY <1>2, <1>5, <2>1 DEF TypeOK, Moves, ImpRec, ServedBy, ExpRec
<1>9. call = "complete" => imp[i].backup # NoArchive BY DEF Fits, BackupsFit
<1>10. call = "claim" => imp[i].backup = NoArchive BY DEF Fits, BackupsFit, Backed
<1>11. \A j \in Imports : <<"complete", j>> \in late' => imp[j].backup # NoArchive
  BY <1>7, <1>9 DEF Fits, LateFits
<1>12. at \in {"acked", "complete"} =>
         exp'[imp[i].of].at = "complete" /\ exp'[imp[i].of].claim = i
  <2> SUFFICES ASSUME at \in {"acked", "complete"}
               PROVE  exp'[imp[i].of].at = "complete" /\ exp'[imp[i].of].claim = i
    OBVIOUS
  <2>1. call = "complete" /\ at = good /\ good = "acked" BY DEF Calls
  <2>2. Accepts(call, i) /\ Serve(call, i)
    <3>1. good # bad BY <2>1
    <3>2. imp'[i].at = good BY <1>5, <2>1
    <3>3. ASSUME Goes(i, bad) PROVE FALSE BY <1>4, <3>1, <3>2, <3>3, GoesMoves
    <3> QED BY <3>3 DEF Ask
  <2>3. AcceptsComplete(i) /\ exp' = [exp EXCEPT ![imp[i].of].at = "complete"]
    BY <2>1, <2>2 DEF Accepts, Serve
  <2>4. exp \in [Exports -> ExpRec] /\ imp[i].of \in Exports
    BY <2>3 DEF TypeOK, ExpRec, AcceptsComplete, LinkOf
  <2> QED BY <2>3, <2>4 DEF AcceptsComplete, ExpRec
<1> HIDE DEF IInv
<1>13. TypeOK /\ Fits BY DEF IInv
<1>14. imp'[i].at # "none" /\ imp[i].at # "none" BY <1>5 DEF Calls
<1>15. /\ imp[i].backup # NoArchive => imp'[i].at \in Backed
       /\ imp'[i].at \in {"restoring", "acking", "acked", "complete"} =>
            imp[i].backup # NoArchive
  BY <1>5, <1>9, <1>10 DEF Calls, Backed
<1>16. Fits'
  BY <1>2, <1>5, <1>9, <1>11, <1>12, <1>13, <1>14, <1>15, CallKeeps
<1> QED BY <1>2, <1>5, <1>6, <1>8, <1>16 DEF IInv

\* A call that is served after its caller has given up is served as any other.
LEMMA LateCallKeeps ==
  ASSUME IInv, LateCall
  PROVE  IInv' /\ UNCHANGED imp
         /\ \E i \in Imports : \E call \in Calls : ServedBy(call, i)
<1> USE DEF IInv
<1>1. PICK c \in late : /\ late' = late \ {c}
                        /\ IF Accepts(c[1], c[2]) THEN Serve(c[1], c[2]) ELSE UNCHANGED exp
                        /\ UNCHANGED <<source, expired, imp, faults>>
  BY DEF LateCall
<1>2. PICK call \in Calls, i \in Imports : c = <<call, i>> BY DEF TypeOK
<1>3. Answered(call, i) BY <1>1, <1>2 DEF Answered
<1>4. ServedBy(call, i) BY <1>3, AnsweredFrame
<1>5. SourceInv' /\ OneActive' BY <1>1, <1>4, AnsweredSource
<1>6. Moves(i) BY <1>1 DEF TypeOK, Moves, ImpRec
<1>7. TypeOK' BY <1>1, <1>4 DEF TypeOK, ServedBy, ExpRec
<1>8. call = "complete" => imp[i].backup # NoArchive BY <1>2 DEF Fits, LateFits
<1>9. imp[i].at \in {"acked", "complete"} =>
        exp'[imp[i].of].at = "complete" /\ exp'[imp[i].of].claim = i
  <2>1. imp[i].at \in {"acked", "complete"} => imp[i].of \in Exports
    BY DEF TypeOK, Fits, ImportsFit
  <2> QED BY <1>4, <2>1 DEF ServedBy, Fits, FinishedFits
<1>10. \A j \in Imports : <<"complete", j>> \in late' => imp[j].backup # NoArchive
  BY <1>1 DEF Fits, LateFits
<1>11. /\ imp[i].backup # NoArchive => imp[i].at \in Backed
       /\ imp[i].at \in {"restoring", "acking", "acked", "complete"} =>
            imp[i].backup # NoArchive
  BY DEF Fits, BackupsFit
<1> HIDE DEF IInv
<1>12. TypeOK /\ Fits BY DEF IInv
<1>13. Fits'
  BY <1>1, <1>4, <1>6, <1>8, <1>9, <1>10, <1>11, <1>12, CallKeeps
<1> QED BY <1>1, <1>4, <1>5, <1>7, <1>13 DEF IInv

\* An import starts from an export that is offered, with its present link.
LEMMA ImportKeeps ==
  ASSUME IInv, NEW i \in Imports, NEW e \in Exports, Import(i, e) PROVE IInv'
<1> USE DEF IInv
<1>1. exp \in [Exports -> ExpRec] /\ imp \in [Imports -> ImpRec]
  BY DEF TypeOK, ExpRec, ImpRec
<1>2. /\ imp[i].at = "none" /\ imp[i].of = 0 /\ imp[i].backup = NoArchive
      /\ exp[e].at = "ready" /\ exp[e].archive # NoArchive
  BY DEF Import, Fits, ImportsFit, BackupsFit, ReadyFits
<1>3. /\ imp' \in [Imports -> ImpRec]
      /\ imp'[i].at = "reserving" /\ imp'[i].of = e /\ imp'[i].backup = NoArchive
      /\ \A j \in Imports \ {i} : imp'[j] = imp[j]
  <2>1. exp[e].link \in 0..MaxLinks BY <1>1 DEF ExpRec
  <2>2. "reserving" \in ImpAt BY DEF ImpAt, Working
  <2> QED BY <1>1, <1>2, <2>1, <2>2 DEF Import, ImpRec
<1>4. TypeOK' BY <1>3 DEF Import, TypeOK, ImpRec
<1>5. SourceInv' /\ OneActive'
  BY DEF Import, SourceInv, SourceStaysOff, DownWhenReady, ArchiveIsLatest, OneActive
<1>6. \A f \in Exports : exp[f].claim # i
  BY <1>2, ExportAssumption DEF Fits, ClaimsFit
<1>7. ReadyFits' /\ LateFits' /\ ClaimsFit' /\ GivenFits'
  <2>1. ReadyFits' BY DEF Import, Fits, ReadyFits, NoArchive
  <2>2. LateFits' BY <1>2, <1>3 DEF Import, Fits, LateFits, NoArchive
  <2>3. ClaimsFit' BY <1>3, <1>6 DEF Import, Fits, ClaimsFit
  <2>4. GivenFits' BY <1>3, <1>6 DEF Import, Fits, GivenFits, NoArchive
  <2> QED BY <2>1, <2>2, <2>3, <2>4
<1>8. ImportsFit'
  BY <1>2, <1>3, ExportAssumption DEF Import, Fits, ImportsFit, Offered, NoArchive
<1>9. BackupsFit' BY <1>3 DEF Import, Fits, BackupsFit, NoArchive
<1>10. FinishedFits' BY <1>3 DEF Import, Fits, FinishedFits
<1> QED BY <1>4, <1>5, <1>7, <1>8, <1>9, <1>10 DEF Fits

\* What is received is the archive of the export that was claimed.
LEMMA ReceivedKeeps == ASSUME IInv, NEW i \in Imports, Received(i) PROVE IInv'
<1> USE DEF IInv
<1>1. exp \in [Exports -> ExpRec] /\ imp \in [Imports -> ImpRec]
  BY DEF TypeOK, ExpRec, ImpRec
<1>2. /\ imp[i].at = "streaming" /\ imp[i].of \in Exports
      /\ exp[imp[i].of].archive \in Archives /\ exp[imp[i].of].archive # NoArchive
  BY <1>1 DEF Received, Fits, ImportsFit, ExpRec, ImpRec
<1>3. /\ imp' \in [Imports -> ImpRec]
      /\ imp'[i].at = "restoring" /\ imp'[i].backup = exp[imp[i].of].archive
      /\ imp'[i].of = imp[i].of /\ imp'[i].link = imp[i].link
      /\ \A j \in Imports \ {i} : imp'[j] = imp[j]
  BY <1>1, <1>2 DEF Received, ImpRec, ImpAt, Working
<1>4. TypeOK' BY <1>3 DEF Received, TypeOK, ImpRec
<1>5. SourceInv' /\ OneActive'
  BY DEF Received, SourceInv, SourceStaysOff, DownWhenReady, ArchiveIsLatest, OneActive
<1>6. ReadyFits' /\ LateFits' /\ ClaimsFit' /\ GivenFits'
  <2>1. ReadyFits' BY DEF Received, Fits, ReadyFits, NoArchive
  <2>2. LateFits' BY <1>2, <1>3 DEF Received, Fits, LateFits, NoArchive
  <2>3. ClaimsFit' BY <1>3 DEF Received, Fits, ClaimsFit
  <2>4. GivenFits' BY <1>2, <1>3 DEF Received, Fits, GivenFits, NoArchive
  <2> QED BY <2>1, <2>2, <2>3, <2>4
<1>7. ImportsFit' BY <1>2, <1>3 DEF Received, Fits, ImportsFit, NoArchive
<1>8. BackupsFit'
  <2> SUFFICES ASSUME NEW j \in Imports
               PROVE  /\ imp'[j].backup # NoArchive =>
                           /\ imp'[j].of # 0
                           /\ imp'[j].backup = exp[imp'[j].of].archive
                           /\ imp'[j].at \in Backed
                      /\ imp'[j].at \in {"restoring", "acking", "acked", "complete"} =>
                           imp'[j].backup # NoArchive
    BY DEF Received, BackupsFit, NoArchive
  <2>1. CASE j = i
    BY <1>2, <1>3, <2>1, ExportAssumption DEF Backed
  <2>2. CASE j # i
    BY <1>3, <2>2 DEF Fits, BackupsFit
  <2> QED BY <2>1, <2>2
<1>9. FinishedFits' BY <1>3 DEF Received, Fits, FinishedFits
<1> QED BY <1>4, <1>5, <1>6, <1>7, <1>8, <1>9 DEF Fits

\* Powering what is complete is nobody else's business.
LEMMA TargetPowerKeeps == ASSUME IInv, NEW i \in Imports, TargetPower(i) PROVE IInv'
<1> USE DEF IInv
<1>1. imp \in [Imports -> ImpRec] BY DEF TypeOK, ImpRec
<1>2. /\ imp' \in [Imports -> ImpRec]
      /\ \A j \in Imports : /\ imp'[j].at = imp[j].at /\ imp'[j].of = imp[j].of
                            /\ imp'[j].link = imp[j].link
                            /\ imp'[j].backup = imp[j].backup
  BY <1>1 DEF TargetPower, ImpRec
<1>3. TypeOK' BY <1>2 DEF TargetPower, TypeOK, ImpRec
<1>4. SourceInv' /\ OneActive'
  BY DEF TargetPower, SourceInv, SourceStaysOff, DownWhenReady, ArchiveIsLatest, OneActive
<1>5. ReadyFits' /\ LateFits' /\ ClaimsFit' /\ GivenFits'
  <2>1. ReadyFits' BY DEF TargetPower, Fits, ReadyFits, NoArchive
  <2>2. LateFits' BY <1>2 DEF TargetPower, Fits, LateFits, NoArchive
  <2>3. ClaimsFit' BY <1>2 DEF TargetPower, Fits, ClaimsFit
  <2>4. GivenFits' BY <1>2 DEF TargetPower, Fits, GivenFits, NoArchive
  <2> QED BY <2>1, <2>2, <2>3, <2>4
<1>6. ImportsFit' BY <1>2 DEF TargetPower, Fits, ImportsFit, NoArchive
<1>7. BackupsFit' BY <1>2 DEF TargetPower, Fits, BackupsFit, NoArchive
<1>8. FinishedFits' BY <1>2 DEF TargetPower, Fits, FinishedFits
<1> QED BY <1>3, <1>4, <1>5, <1>6, <1>7, <1>8 DEF Fits

(* Import i moves without asking the source for anything. *)
Alone(i, at) == Goes(i, at) /\ UNCHANGED <<source, exp, expired, late, faults>>

\* The work of an import is a call, or a step of its own.
LEMMA WorkKeeps == ASSUME IInv, NEW i \in Imports, Work(i) PROVE IInv'
<1>1. \A at \in ImpAt : Goes(i, at) /\ late' = late =>
        late' \subseteq Calls \X Imports
  BY DEF IInv, TypeOK
<1>2. imp[i].backup # NoArchive => imp[i].at \in Backed
  BY DEF IInv, Fits, BackupsFit
<1>3. imp[i].at \in {"restoring", "acking", "acked", "complete"} =>
        imp[i].backup # NoArchive
  BY DEF IInv, Fits, BackupsFit
<1>4. ASSUME NEW at \in ImpAt \ {"none"}, Alone(i, at), imp[i].at # "none",
             imp[i].backup # NoArchive => at \in Backed,
             at \in {"restoring", "acking", "acked", "complete"} =>
               imp[i].backup # NoArchive,
             at \in {"acked", "complete"} => imp[i].at \in {"acked", "complete"}
      PROVE  IInv'
  BY <1>1, <1>4, GoesKeeps DEF Alone
<1>5. /\ {"claiming", "restoring", "failed", "streaming", "acking", "complete"}
           \subseteq ImpAt \ {"none"}
      /\ {"queued", "fetching", "acked"} \subseteq ImpAt
      /\ {"claim", "complete"} \subseteq Calls
  BY DEF ImpAt, Working, Calls
<1>6. CASE Reserves(i) BY <1>5, <1>6, AskKeeps DEF Reserves
<1>7. CASE Claims(i) BY <1>5, <1>7, AskKeeps DEF Claims
<1>8. CASE Acks(i) BY <1>5, <1>8, AskKeeps DEF Acks
<1>9. CASE DispatchImport(i)
  <2>1. CASE Alone(i, "failed")
    BY <1>4, <1>5, <1>9, <2>1 DEF DispatchImport, Backed
  <2>2. CASE imp[i].backup = NoArchive /\ Alone(i, "claiming")
    BY <1>4, <1>5, <1>9, <2>2 DEF DispatchImport
  <2>3. CASE imp[i].backup # NoArchive /\ Alone(i, "restoring")
    BY <1>4, <1>5, <1>9, <2>3 DEF DispatchImport, Backed
  <2> QED BY <1>9, <2>1, <2>2, <2>3 DEF DispatchImport, Alone
<1>10. CASE Fetches(i)
  <2>1. imp[i].at = "fetching" /\ imp[i].backup = NoArchive
    BY <1>2, <1>10 DEF Fetches, Backed
  <2>2. \E at \in {"streaming", "failed"} : Alone(i, at)
    BY <1>10 DEF Fetches, Alone
  <2> QED BY <1>4, <1>5, <2>1, <2>2
<1>11. CASE Received(i) BY <1>11, ReceivedKeeps
<1>12. CASE Restores(i)
  BY <1>3, <1>4, <1>5, <1>12 DEF Restores, Alone, Backed
<1>13. CASE WorkFails(i)
  BY <1>4, <1>5, <1>13 DEF WorkFails, Alone, Backed
<1>14. CASE Finishes(i)
  BY <1>3, <1>4, <1>5, <1>14 DEF Finishes, Alone, Backed
<1> QED BY <1>6, <1>7, <1>8, <1>9, <1>10, <1>11, <1>12, <1>13, <1>14 DEF Work

\* A target that restarts leaves its calls behind, and what it had is kept.
LEMMA TargetRestartsKeeps ==
  ASSUME IInv, NEW i \in Imports, TargetRestarts(i) PROVE IInv'
<1>1. "failed" \in ImpAt \ {"none"} /\ {"claim", "complete"} \subseteq Calls
  BY DEF ImpAt, Calls
<1>2. late' \subseteq Calls \X Imports
  BY <1>1 DEF TargetRestarts, IInv, TypeOK
<1>3. \A j \in Imports : <<"complete", j>> \in late' =>
        <<"complete", j>> \in late \/ (j = i /\ imp[i].at = "acking")
  BY DEF TargetRestarts
<1>4. imp[i].at # "none" BY DEF TargetRestarts, Working
<1> QED BY <1>1, <1>2, <1>3, <1>4, GoesKeeps DEF TargetRestarts, Backed

\* What the operators of both servers do keeps the invariant.
LEMMA OperatorKeeps == ASSUME IInv, Operator PROVE IInv'
<1>1. ASSUME NEW e \in Exports, Create(e) \/ RenewLink(e) \/ Cancel(e) PROVE IInv'
  BY <1>1, CreateKeeps, RenewKeeps, CancelKeeps
<1>2. ASSUME NEW i \in Imports, NEW e \in Exports, Import(i, e) PROVE IInv'
  BY <1>2, ImportKeeps
<1>3. ASSUME NEW i \in Imports, Retry(i) \/ DeleteTarget(i) PROVE IInv'
  <2>1. {"queued", "gone"} \subseteq ImpAt \ {"none"} /\ {"queued", "gone"} \subseteq Backed
    BY DEF ImpAt, Backed
  <2>2. late \subseteq Calls \X Imports BY DEF IInv, TypeOK
  <2> QED BY <1>3, <2>1, <2>2, GoesKeeps DEF Retry, DeleteTarget
<1>4. ASSUME NEW i \in Imports, TargetPower(i) PROVE IInv'
  BY <1>4, TargetPowerKeeps
<1> QED BY <1>1, <1>2, <1>3, <1>4 DEF Operator

\* Every step preserves the inductive invariant.
LEMMA NextIInv == IInv /\ [Next]_vars => IInv'
<1> SUFFICES ASSUME IInv, [Next]_vars PROVE IInv'
  OBVIOUS
<1>1. CASE SourceInstance BY <1>1, SourceKeeps
<1>2. CASE Operator BY <1>2, OperatorKeeps
<1>3. CASE Mishap BY <1>3, SourceRestartsKeeps, LateCallKeeps, ExpiresKeeps,
                     TargetRestartsKeeps DEF Mishap
<1>4. ASSUME NEW e \in Exports, Export(e) PROVE IInv' BY <1>4, ExportKeeps
<1>5. ASSUME NEW i \in Imports, Work(i) PROVE IInv' BY <1>5, WorkKeeps
<1>6. CASE UNCHANGED vars
  <2>1. Fits' /\ OneActive' BY <1>6, RecordsSame DEF vars, IInv
  <2>2. TypeOK' BY <1>6 DEF vars, IInv, TypeOK
  <2>3. SourceInv'
    BY <1>6 DEF vars, IInv, SourceInv, SourceStaysOff, DownWhenReady, ArchiveIsLatest
  <2> QED BY <2>1, <2>2, <2>3 DEF IInv
<1> QED BY <1>1, <1>2, <1>3, <1>4, <1>5, <1>6 DEF Next

-----------------------------------------------------------------------------
(* Invariants.                                                             *)

\* In every reachable state the two servers' records agree.
LEMMA Invariant == Spec => []IInv
<1>1. Init => IInv BY InitIInv
<1>2. IInv /\ [Next]_vars => IInv' BY NextIInv
<1> QED BY <1>1, <1>2, PTL DEF Spec

\* Type correctness, however many links, writes, late calls and mishaps there are.
THEOREM TypeCorrect == Spec => []TypeOK
<1>1. IInv => TypeOK BY DEF IInv
<1> QED BY <1>1, Invariant, PTL

\* The source is off while any export of it is active, whatever its owner does,
\* whichever exports are cancelled and whenever its server restarts.
THEOREM SourceIsOff == Spec => []SourceStaysOff
<1>1. IInv => SourceStaysOff BY DEF IInv, SourceInv
<1> QED BY <1>1, Invariant, PTL

\* An archive that is offered holds everything that was written to the source.
THEOREM ArchiveLatest == Spec => []ArchiveIsLatest
<1>1. IInv => ArchiveIsLatest BY DEF IInv, SourceInv
<1> QED BY <1>1, Invariant, PTL

\* An export that was given away has been received by who holds its claim.
THEOREM GivenKept == Spec => []GivenIsKept
<1>1. IInv => GivenIsKept
  <2> SUFFICES ASSUME IInv, NEW e \in Exports, exp[e].at = "complete"
               PROVE  \E i \in Imports : /\ exp[e].claim = i /\ imp[i].of = e
                        /\ imp[i].link = exp[e].link
                        /\ imp[i].backup = exp[e].archive
                        /\ imp[i].at \in {"restoring", "acking", "acked", "queued",
                                          "failed", "complete", "gone"}
    BY DEF GivenIsKept
  <2> DEFINE i == exp[e].claim
  <2>1. i \in Imports /\ imp[i].backup # NoArchive BY DEF IInv, Fits, GivenFits
  <2>2. imp[i].of = e /\ imp[i].link = exp[e].link BY <2>1 DEF IInv, Fits, ClaimsFit
  <2>3. imp[i].backup = exp[e].archive /\ imp[i].at \in Backed
    BY <2>1, <2>2 DEF IInv, Fits, BackupsFit
  <2> QED BY <2>1, <2>2, <2>3 DEF Backed
<1> QED BY <1>1, Invariant, PTL

-----------------------------------------------------------------------------
(* The two servers implement InstanceHandover.                             *)

(* The abstract state, and a step that leaves it as it is. *)
Decided == [e \in Exports |-> Outcome(exp[e])]
Done    == {i \in Imports : imp[i].at = "complete"}
Silent  == UNCHANGED <<Decided, Done>>

\* The outcome of an export by its status.
LEMMA OutcomeIs ==
  ASSUME NEW x
  PROVE  /\ x.at = "none" => Outcome(x) = "none"
         /\ x.at \in Active => Outcome(x) = "open"
         /\ x.at \in {"failed", "revoked"} => Outcome(x) = "kept"
         /\ x.at = "complete" => Outcome(x) = x.claim
BY DEF Outcome, Active

\* Nothing has been decided or is finished at first.
LEMMA InitHandover == Init => Handover!Init
<1> SUFFICES ASSUME Init PROVE Handover!Init
  OBVIOUS
<1>1. \A e \in Exports : Outcome(exp[e]) = "none"
  BY OutcomeIs DEF Init
<1>2. \A i \in Imports : imp[i].at # "complete" BY DEF Init
<1> QED BY <1>1, <1>2 DEF Handover!Init

\* When one export changes, its outcome is all that is decided.
LEMMA DecidesOne ==
  ASSUME NEW e \in Exports, \A f \in Exports \ {e} : Outcome(exp'[f]) = Outcome(exp[f])
  PROVE  Decided' = [Decided EXCEPT ![e] = Outcome(exp'[e])]
BY DEF Decided

\* A step that changes the outcome of one export opens it or decides to keep it.
LEMMA ExportHandover ==
  ASSUME NEW e \in Exports, UNCHANGED imp,
         \A f \in Exports \ {e} : Outcome(exp'[f]) = Outcome(exp[f]),
         \/ Outcome(exp'[e]) = Outcome(exp[e])
         \/ Outcome(exp[e]) = "none" /\ Outcome(exp'[e]) = "open"
         \/ Outcome(exp[e]) = "open" /\ Outcome(exp'[e]) = "kept"
  PROVE  Handover!Next \/ Silent
<1>1. Decided' = [Decided EXCEPT ![e] = Outcome(exp'[e])] BY DecidesOne
<1>2. Done' = Done BY DEF Done
<1>3. Decided[e] = Outcome(exp[e]) BY DEF Decided
<1>4. CASE Outcome(exp'[e]) = Outcome(exp[e])
  BY <1>1, <1>2, <1>4 DEF Silent, Decided
<1>5. CASE Outcome(exp[e]) = "none" /\ Outcome(exp'[e]) = "open"
  <2>1. Handover!Open(e)
    BY <1>1, <1>2, <1>3, <1>5 DEF Handover!Open, Handover!Decide, Decided, Done
  <2> QED BY <2>1 DEF Handover!Next
<1>6. CASE Outcome(exp[e]) = "open" /\ Outcome(exp'[e]) = "kept"
  <2>1. Handover!Keep(e)
    BY <1>1, <1>2, <1>3, <1>6 DEF Handover!Keep, Handover!Decide, Decided, Done
  <2> QED BY <2>1 DEF Handover!Next
<1> QED BY <1>4, <1>5, <1>6

\* A call that is served gives an export to an import that is not finished.
LEMMA ServedHandover ==
  ASSUME IInv, NEW i \in Imports, NEW call \in Calls, ServedBy(call, i), Done' = Done
  PROVE  Handover!Next \/ Silent
<1>1. \A f \in Exports : exp'[f].at = exp[f].at => Outcome(exp'[f]) = Outcome(exp[f])
  <2> SUFFICES ASSUME NEW f \in Exports, exp'[f].at = exp[f].at
               PROVE  Outcome(exp'[f]) = Outcome(exp[f])
    OBVIOUS
  <2>1. exp[f].at \in ExpStatus BY DEF IInv, TypeOK
  <2>2. exp[f].at = "complete" => exp'[f].claim = exp[f].claim BY DEF ServedBy
  <2> QED BY <2>1, <2>2, OutcomeIs DEF ExpStatus
<1>2. CASE \A f \in Exports : exp'[f].at = exp[f].at
  BY <1>1, <1>2 DEF Silent, Decided
<1>3. ASSUME NEW e \in Exports, exp'[e].at # exp[e].at PROVE Handover!Next
  <2>1. /\ e = imp[i].of /\ exp[e].claim = i /\ exp[e].at = "ready"
        /\ exp'[e].at = "complete" /\ exp'[e].claim = i
    BY <1>3 DEF ServedBy
  <2>2. \A f \in Exports \ {e} : exp'[f].at = exp[f].at BY <2>1 DEF ServedBy
  <2>3. Decided' = [Decided EXCEPT ![e] = Outcome(exp'[e])]
    BY <1>1, <2>2, DecidesOne
  <2>4. Outcome(exp'[e]) = i BY <2>1, OutcomeIs
  <2>5. Decided[e] = "open" BY <2>1, OutcomeIs DEF Decided, Active
  <2>6. i \notin Done BY <2>1 DEF Done, IInv, Fits, FinishedFits
  <2>7. Handover!Give(e, i)
    BY <2>3, <2>4, <2>5, <2>6 DEF Handover!Give, Handover!Decide, Decided, Done
  <2> QED BY <2>7 DEF Handover!Next
<1> QED BY <1>2, <1>3

\* An import that moves by itself finishes only when an export was given to it.
LEMMA GoesHandover ==
  ASSUME IInv, NEW i \in Imports, UNCHANGED exp,
         \A j \in Imports \ {i} : imp'[j].at = imp[j].at,
         \/ imp'[i].at = "complete" <=> imp[i].at = "complete"
         \/ imp[i].at = "acked" /\ imp'[i].at = "complete"
  PROVE  Handover!Next \/ Silent
<1>1. Decided' = Decided BY DEF Decided
<1>2. CASE imp'[i].at = "complete" <=> imp[i].at = "complete"
  BY <1>1, <1>2 DEF Silent, Done
<1>3. CASE imp[i].at = "acked" /\ imp'[i].at = "complete"
  <2> DEFINE e == imp[i].of
  <2>1. e \in Exports /\ exp[e].at = "complete" /\ exp[e].claim = i
    BY <1>3 DEF IInv, TypeOK, Fits, FinishedFits, ImportsFit
  <2>2. Decided[e] = i BY <2>1, OutcomeIs DEF Decided
  <2>3. Done' = Done \cup {i} BY <1>3 DEF Done
  <2>4. Handover!Finish(i)
    BY <1>1, <2>1, <2>2, <2>3 DEF Handover!Finish, Decided, Done
  <2> QED BY <2>4 DEF Handover!Next
<1> QED BY <1>2, <1>3

\* What only changes the source or the links decides nothing.
LEMMA SilentSame == UNCHANGED <<exp, imp>> => Silent
BY DEF Silent, Decided, Done

\* The steps of the source's exports.
LEMMA ExportsHandover ==
  ASSUME IInv, NEW e \in Exports,
         Create(e) \/ RenewLink(e) \/ Cancel(e) \/ Export(e)
  PROVE  Handover!Next \/ Silent
<1>1. exp \in [Exports -> ExpRec] BY DEF IInv, TypeOK, ExpRec
<1>2. UNCHANGED imp
  BY DEF Create, RenewLink, Cancel, Export, DispatchExport, Prepares, PrepareFails
<1>3. \A f \in Exports \ {e} : exp'[f] = exp[f]
  BY <1>1 DEF Create, RenewLink, Cancel, Export, DispatchExport, Prepares, PrepareFails, At
<1>4. \/ exp[e].at = "none" /\ exp'[e].at = "queued"
      \/ exp[e].at \in Active /\ exp'[e].at \in Active
      \/ exp[e].at \in Active \cup {"failed"} /\ exp'[e].at \in {"failed", "revoked"}
  <2>1. CASE Create(e)
    <3> DEFINE ran == source.power = "on"
    <3>1. /\ exp' = [exp EXCEPT ![e] = [@ EXCEPT !.at = "queued", !.link = 1, !.wasRunning = ran]]
          /\ exp[e].at = "none"
      BY <2>1 DEF Create
    <3> HIDE DEF ran
    <3> QED BY <1>1, <3>1 DEF ExpRec
  <2>2. CASE RenewLink(e) BY <1>1, <2>2 DEF RenewLink, ExpRec
  <2>3. CASE Cancel(e) BY <1>1, <2>3 DEF Cancel, At, ExpRec, Active
  <2>4. CASE DispatchExport(e) BY <1>1, <2>4 DEF DispatchExport, At, ExpRec, Active
  <2>5. CASE Prepares(e) BY <1>1, <2>5 DEF Prepares, ExpRec, Active
  <2>6. CASE PrepareFails(e) BY <1>1, <2>6 DEF PrepareFails, At, ExpRec, Active
  <2> QED BY <2>1, <2>2, <2>3, <2>4, <2>5, <2>6 DEF Export
<1>5. \/ Outcome(exp'[e]) = Outcome(exp[e])
      \/ Outcome(exp[e]) = "none" /\ Outcome(exp'[e]) = "open"
      \/ Outcome(exp[e]) = "open" /\ Outcome(exp'[e]) = "kept"
  BY <1>4, OutcomeIs DEF Active
<1> QED BY <1>2, <1>3, <1>5, ExportHandover

\* A restart of the source fails at most one export, as at most one is active.
LEMMA RestartHandover == ASSUME IInv, SourceRestarts PROVE Handover!Next \/ Silent
<1>1. exp \in [Exports -> ExpRec] BY DEF IInv, TypeOK, ExpRec
<1>2. UNCHANGED imp BY DEF SourceRestarts
<1>3. \A f \in Exports : exp[f].at # "preparing" => exp'[f] = exp[f]
  BY DEF SourceRestarts
<1>4. \A f \in Exports : exp[f].at = "preparing" => exp'[f].at = "failed"
  BY <1>1 DEF SourceRestarts, ExpRec
<1>5. CASE \A f \in Exports : exp[f].at # "preparing"
  <2>1. Decided' = Decided BY <1>3, <1>5 DEF Decided
  <2> QED BY <1>2, <2>1 DEF Silent, Done
<1>6. ASSUME NEW e \in Exports, exp[e].at = "preparing" PROVE Handover!Next \/ Silent
  <2>1. \A f \in Exports \ {e} : exp[f].at # "preparing"
    BY <1>6 DEF IInv, OneActive, Active
  <2>2. Outcome(exp[e]) = "open" /\ Outcome(exp'[e]) = "kept"
    BY <1>4, <1>6, OutcomeIs DEF Active
  <2> QED BY <1>2, <1>3, <2>1, <2>2, ExportHandover
<1> QED BY <1>5, <1>6

\* The steps of an import that do not call the source.
LEMMA AloneHandover ==
  ASSUME IInv, NEW i \in Imports,
         \/ DispatchImport(i) \/ Fetches(i) \/ Received(i) \/ Restores(i) \/ WorkFails(i)
         \/ Finishes(i) \/ TargetRestarts(i) \/ Retry(i) \/ DeleteTarget(i)
         \/ TargetPower(i) \/ \E e \in Exports : Import(i, e)
  PROVE  Handover!Next \/ Silent
<1> USE DEF ImpRec
<1>1. imp \in [Imports -> ImpRec] BY DEF IInv, TypeOK
<1>2. UNCHANGED exp
  BY DEF DispatchImport, Fetches, Received, Restores, WorkFails, Finishes,
         TargetRestarts, Retry, DeleteTarget, TargetPower, Import
<1>3. \A j \in Imports \ {i} : imp'[j].at = imp[j].at
  BY <1>1 DEF DispatchImport, Fetches, Received, Restores, WorkFails, Finishes,
              TargetRestarts, Retry, DeleteTarget, TargetPower, Import, Goes
<1>4. \/ imp'[i].at = "complete" <=> imp[i].at = "complete"
      \/ imp[i].at = "acked" /\ imp'[i].at = "complete"
  <2>1. CASE DispatchImport(i) BY <1>1, <2>1 DEF DispatchImport, Goes
  <2>2. CASE Fetches(i) BY <1>1, <2>2 DEF Fetches, Goes
  <2>3. CASE Received(i) BY <1>1, <2>3 DEF Received
  <2>4. CASE Restores(i) BY <1>1, <2>4 DEF Restores, Goes
  <2>5. CASE WorkFails(i) BY <1>1, <2>5 DEF WorkFails, Goes
  <2>6. CASE Finishes(i) BY <1>1, <2>6 DEF Finishes, Goes
  <2>7. CASE TargetRestarts(i) BY <1>1, <2>7 DEF TargetRestarts, Goes, Working
  <2>8. CASE Retry(i) BY <1>1, <2>8 DEF Retry, Goes
  <2>9. CASE DeleteTarget(i) BY <1>1, <2>9 DEF DeleteTarget, Goes
  <2>10. CASE TargetPower(i) BY <1>1, <2>10 DEF TargetPower
  <2>11. CASE \E e \in Exports : Import(i, e) BY <1>1, <2>11 DEF Import
  <2> QED BY <2>1, <2>2, <2>3, <2>4, <2>5, <2>6, <2>7, <2>8, <2>9, <2>10, <2>11
<1> QED BY <1>2, <1>3, <1>4, GoesHandover

\* The calls of an import.
LEMMA CallHandover ==
  ASSUME IInv, NEW i \in Imports, Reserves(i) \/ Claims(i) \/ Acks(i)
  PROVE  Handover!Next \/ Silent
<1>1. {"queued", "fetching", "acked"} \subseteq ImpAt /\ {"claim", "complete"} \subseteq Calls
  BY DEF ImpAt, Working, Calls
<1>2. \E call \in Calls : /\ ServedBy(call, i) /\ Moves(i)
                          /\ imp'[i].at \in {"queued", "fetching", "acked", "vanished", "failed"}
  <2>1. CASE Reserves(i) BY <1>1, <2>1, AskKeeps DEF Reserves
  <2>2. CASE Claims(i) BY <1>1, <2>2, AskKeeps DEF Claims
  <2>3. CASE Acks(i) BY <1>1, <2>3, AskKeeps DEF Acks
  <2> QED BY <2>1, <2>2, <2>3
<1>3. imp[i].at # "complete" BY DEF Reserves, Claims, Acks
<1>4. Done' = Done BY <1>2, <1>3 DEF Done, Moves
<1> QED BY <1>2, <1>4, ServedHandover

\* Every step of the two servers is a step of the handover, or changes nothing of it.
LEMMA NextHandover == IInv /\ [Next]_vars => [Handover!Next]_(Handover!vars)
<1> SUFFICES ASSUME IInv, [Next]_vars PROVE Handover!Next \/ Silent
  BY DEF Handover!vars, Silent, Decided, Done
<1>1. CASE SourceInstance
  BY <1>1, SilentSame
     DEF SourceInstance, UserPower, UserDelete, Raised, Lowers, Lowered, Writes
<1>2. CASE Operator BY <1>2, ExportsHandover, AloneHandover DEF Operator
<1>3. CASE Mishap
  <2>1. CASE SourceRestarts BY <2>1, RestartHandover
  <2>2. CASE LateCall
    <3>1. Done' = Done BY <2>2 DEF LateCall, Done
    <3> QED BY <2>2, <3>1, LateCallKeeps, ServedHandover
  <2>3. ASSUME NEW e \in Exports, Expires(e) PROVE Handover!Next \/ Silent
    BY <2>3, SilentSame DEF Expires
  <2>4. ASSUME NEW i \in Imports, TargetRestarts(i) PROVE Handover!Next \/ Silent
    BY <2>4, AloneHandover
  <2> QED BY <1>3, <2>1, <2>2, <2>3, <2>4 DEF Mishap
<1>4. ASSUME NEW e \in Exports, Export(e) PROVE Handover!Next \/ Silent
  BY <1>4, ExportsHandover
<1>5. ASSUME NEW i \in Imports, Work(i) PROVE Handover!Next \/ Silent
  BY <1>5, CallHandover, AloneHandover DEF Work
<1>6. CASE UNCHANGED vars BY <1>6, SilentSame DEF vars
<1> QED BY <1>1, <1>2, <1>3, <1>4, <1>5, <1>6 DEF Next

\* Each export is decided once, and only who it was given to is ever finished.
THEOREM ImplementsHandover == Spec => IsHandover
<1>1. Init => Handover!Init BY InitHandover
<1>2. IInv /\ [Next]_vars => [Handover!Next]_(Handover!vars) BY NextHandover
<1> QED BY <1>1, <1>2, Invariant, PTL DEF Spec, IsHandover, Handover!Spec
=============================================================================

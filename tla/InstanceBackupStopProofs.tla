----------------------- MODULE InstanceBackupStopProofs -----------------------
(***************************************************************************)
(* Theorems about InstanceBackup that need to know where the container     *)
(* is while an operation works: an operation that is left alone has the    *)
(* files to itself (StaysStopped), and so what a restore replaces is in    *)
(* its safety backup (ReplacedIsSaved).                                    *)
(*                                                                         *)
(* The argument follows an operation that began when nothing was half      *)
(* done.  Then the instance either serves, and the only event that will    *)
(* come is the power off that the operation saves, or it is off.  The      *)
(* operation waits for the status idle, which the daemon sends only when   *)
(* it has let go of the container; and once off, nothing the daemon hears, *)
(* writes or is asked launches it again (StopsFit).  Until the operation   *)
(* gives the power back the directories then change by its own hand only,  *)
(* so what it packed is what it finds when it unpacks (SavesFit).         *)
(***************************************************************************)
EXTENDS InstanceBackupProofs

-----------------------------------------------------------------------------
(* The connection, the daemon and the mothership stay. *)

Steady == faults \cap {"drop", "daemon", "mothership"} = {}

\* The mirror has the power of the record, or the last event under way will tell it.
SteadyFits ==
  Steady =>
    /\ link = "up" /\ dump = "none" /\ daemon.at = "on"
    /\ mirror = record.power \/ stream # <<>>
    /\ stream # <<>> => stream[Len(stream)].power = record.power

\* The instance runs and nothing is under way; it was switched off, which the
\* daemon has yet to hear; it is off, and no event under way says otherwise.
Serves == /\ record = [power |-> "on", status |-> "live"]
          /\ stream = <<>> /\ writes = <<>> /\ daemon.launch = "ready"

Turning == /\ record = [power |-> "off", status |-> "live"]
           /\ stream = <<record>> /\ writes = <<>> /\ daemon.launch = "ready"

Off == /\ record.power = "off" /\ mirror = "off" /\ daemon.launch = "none" /\ box # "up"
       /\ \A i \in 1..Len(stream) : stream[i].power = "off"

\* What an operation that was left alone knows of the instance, by where it is.
Early == {"begin", "stop", "wait", "fail"}

Stops(p) ==
  /\ op[p].at \in {"begin", "stop"} => IF op[p].restart THEN Serves ELSE Off
  /\ op[p].at \in {"wait", "fail"} => Turning \/ Off
  /\ op[p].at \notin Early => Off

Until == Working \ {"restart", "end"}

AloneStops(p) ==
  Undisturbed(p) /\ op[p].at \in Until =>
    /\ \A q \in Op : q < p => op[q].at \notin Working
    /\ Stops(p)

StopsFit == SteadyFits /\ \A p \in Op : AloneStops(p)

-----------------------------------------------------------------------------
(* The edge. *)

\* What the edge still does.
LEMMA SteadyActions ==
  ASSUME SteadyFits, Steady, EdgeNext
  PROVE  \/ Lands \/ Hears \/ Spawn \/ Ready \/ LaunchFails \/ BoxStops \/ Request \/ BoxWrites
         \/ \E q \in Power : UserPower(q)
BY DEF SteadyFits, Steady, EdgeNext, EdgeProgress, Connects, Resync, DaemonStarts, Reconcile,
   BootSync, AppliesDump, Drops, DaemonStops, Mishap, Power

\* Saving the record streams it.
LEMMA SaveSteady ==
  ASSUME EdgeTypeOK, SteadyFits, Steady, NEW r \in Records, Save(r),
         UNCHANGED <<link, dump, mirror, faults>>, daemon'.at = daemon.at
  PROVE  /\ SteadyFits' /\ record' = r /\ stream' = Append(stream, r)
         /\ Off /\ UNCHANGED <<daemon, box>> /\ r.power = "off" => Off'
<1>1. stream \in Seq(Records) /\ record' = r /\ stream' = Append(stream, r)
  BY DEF EdgeTypeOK, Save, SteadyFits
<1>2. stream' # <<>> /\ stream'[Len(stream')] = r
  BY <1>1, AppendLast
<1>3. SteadyFits'
  BY <1>1, <1>2 DEF SteadyFits, Steady
<1>4. ASSUME NEW i \in 1..Len(stream')
      PROVE  (i \in 1..Len(stream) /\ stream'[i] = stream[i]) \/ stream'[i] = r
  <2>1. ASSUME NEW S, NEW s \in Seq(S), NEW e \in S, NEW j \in 1..Len(Append(s, e))
        PROVE  (j \in 1..Len(s) /\ Append(s, e)[j] = s[j]) \/ Append(s, e)[j] = e
    OBVIOUS
  <2> QED BY <1>1, <2>1
<1> QED BY <1>1, <1>3, <1>4 DEF Off

\* What is left of the stream when the first event was heard.
LEMMA HeardRest ==
  ASSUME EdgeTypeOK, stream # <<>>
  PROVE  /\ Head(stream) = stream[1] /\ 1 \in 1..Len(stream)
         /\ \A i \in 1..Len(Tail(stream)) : i + 1 \in 1..Len(stream) /\ Tail(stream)[i] = stream[i + 1]
<1>1. stream \in Seq(Records)
  BY DEF EdgeTypeOK
<1> QED BY <1>1

LEMMA EdgeSteady ==
  ASSUME EdgeTypeOK, SteadyFits, EdgeNext
  PROVE  SteadyFits'
<1>1. faults' = faults
  BY EdgeFits DEF Gains
<1>2. SUFFICES ASSUME Steady PROVE SteadyFits'
  BY <1>1 DEF SteadyFits, Steady
<1>3. daemon \in DaemonType /\ daemon.at = "on"
  BY <1>2 DEF EdgeTypeOK, SteadyFits
<1>4. ASSUME UNCHANGED <<record, stream, link, dump, mirror>>, daemon'.at = "on"
      PROVE  SteadyFits'
  BY <1>1, <1>2, <1>4 DEF SteadyFits, Steady
<1>5. CASE Lands
  <2>1. [record EXCEPT !.status = Head(writes)] \in Records
    BY <1>5, QueueFits DEF Lands, EdgeTypeOK, Records
  <2>2. CASE Save([record EXCEPT !.status = Head(writes)])
    BY <1>2, <1>5, <2>1, <2>2, SaveSteady DEF Lands
  <2>3. CASE UNCHANGED <<record, stream, blind>>
    BY <1>3, <1>4, <1>5, <2>3 DEF Lands
  <2> QED BY <1>5, <2>2, <2>3 DEF Lands
<1>6. CASE Hears
  <2>1. /\ stream # <<>> /\ stream' = Tail(stream) /\ mirror' = Head(stream).power
        /\ UNCHANGED <<record, link, dump>>
    BY <1>6 DEF Hears
  <2>2. daemon'.at = "on"
    BY <1>3, <1>6 DEF Hears, PowersOff, Shutdown, WarmsUp, Launch, DaemonType
  <2>3. \/ stream' = <<>> /\ Head(stream) = stream[Len(stream)]
        \/ stream' # <<>> /\ stream'[Len(stream')] = stream[Len(stream)]
    BY <2>1, LastOne DEF EdgeTypeOK
  <2> QED BY <1>1, <1>2, <2>1, <2>2, <2>3 DEF SteadyFits, Steady
<1>7. CASE Spawn \/ Ready \/ LaunchFails \/ BoxStops \/ Request \/ BoxWrites
  <2>1. UNCHANGED <<record, stream, link, dump, mirror>>
    BY <1>7 DEF Spawn, Ready, LaunchFails, BoxStops, Request, BoxWrites
  <2>2. daemon'.at = "on"
    BY <1>3, <1>7 DEF Spawn, Ready, LaunchFails, BoxStops, Request, BoxWrites, Launch, Settled, DaemonType
  <2> QED BY <1>4, <2>1, <2>2
<1>8. ASSUME NEW q \in Power, UserPower(q) PROVE SteadyFits'
  <2>1. [record EXCEPT !.power = q] \in Records
    BY DEF EdgeTypeOK, Records
  <2> QED BY <1>2, <1>8, <2>1, SaveSteady DEF UserPower
<1> QED BY <1>2, <1>5, <1>6, <1>7, <1>8, SteadyActions

\* Whatever the edge does, an instance that nobody switches goes on to serve, or
\* hears that it was switched off, or stays off.
LEMMA EdgeStops ==
  ASSUME EdgeTypeOK, SteadyFits, Steady, EdgeNext, ~\E q \in Power : UserPower(q)
  PROVE  /\ Serves => Serves'
         /\ Turning => Turning' \/ Off'
         /\ Off => Off'
<1>1. /\ \/ Lands \/ Hears \/ Spawn \/ Ready \/ LaunchFails \/ BoxStops \/ Request \/ BoxWrites
      /\ daemon \in DaemonType /\ stream \in Seq(Records) /\ record \in Records
  BY SteadyActions DEF EdgeTypeOK
<1>2. ASSUME Serves PROVE Serves'
  <2>1. BoxStops \/ BoxWrites
    BY <1>1, <1>2 DEF Serves, Lands, Hears, Spawn, Ready, LaunchFails, Request
  <2> QED BY <1>2, <2>1 DEF Serves, BoxStops, BoxWrites
<1>3. ASSUME Turning PROVE Turning' \/ Off'
  <2>1. Hears \/ BoxStops \/ BoxWrites
    BY <1>1, <1>3 DEF Turning, Lands, Spawn, Ready, LaunchFails, Request
  <2>2. CASE BoxStops \/ BoxWrites
    BY <1>3, <2>2 DEF Turning, BoxStops, BoxWrites
  <2>3. CASE Hears
    <3>1. /\ Head(stream) = record /\ Tail(stream) = <<>>
          /\ record.power = "off" /\ record.status = "live"
      BY <1>3 DEF Turning
    <3>2. stream' = <<>> /\ mirror' = "off" /\ record' = record /\ PowersOff("live")
      BY <2>3, <3>1 DEF Hears
    <3>3. Shutdown
      BY <1>3, <3>2 DEF Turning, PowersOff
    <3>4. daemon'.launch = "none" /\ box' # "up"
      BY <1>1, <3>3 DEF Shutdown, DaemonType
    <3> QED BY <3>1, <3>2, <3>4 DEF Off
  <2> QED BY <2>1, <2>2, <2>3
<1>4. ASSUME Off PROVE Off'
  <2>1. Lands \/ Hears \/ BoxStops \/ BoxWrites
    BY <1>1, <1>4 DEF Off, Spawn, Ready, LaunchFails, Request
  <2>2. CASE BoxStops \/ BoxWrites
    BY <1>4, <2>2 DEF Off, BoxStops, BoxWrites
  <2>3. CASE Lands
    <3>1. Head(writes) \in Status
      BY <2>3, QueueFits DEF Lands, EdgeTypeOK
    <3>2. /\ [record EXCEPT !.status = Head(writes)] \in Records
          /\ [record EXCEPT !.status = Head(writes)].power = "off"
      BY <1>1, <1>4, <3>1 DEF Records, Off
    <3>3. CASE Save([record EXCEPT !.status = Head(writes)])
      BY <1>4, <2>3, <3>2, <3>3, SaveSteady DEF Lands
    <3>4. CASE UNCHANGED <<record, stream, blind>>
      BY <1>4, <2>3, <3>4 DEF Lands, Off
    <3> QED BY <2>3, <3>3, <3>4 DEF Lands
  <2>4. CASE Hears
    <3>1. stream # <<>> /\ stream' = Tail(stream) /\ mirror' = Head(stream).power /\ record' = record
      BY <2>4 DEF Hears
    <3>2. Head(stream).power = "off" /\ \A i \in 1..Len(stream') : stream'[i].power = "off"
      BY <1>4, <3>1, HeardRest DEF Off
    <3>3. PowersOff(Head(stream).status)
      BY <2>4, <3>2 DEF Hears
    <3>4. UNCHANGED <<daemon, box>>
      BY <1>4, <3>3 DEF Off, PowersOff
    <3> QED BY <1>4, <3>1, <3>2, <3>4 DEF Off
  <2> QED BY <2>1, <2>2, <2>3, <2>4
<1> QED BY <1>2, <1>3, <1>4

-----------------------------------------------------------------------------
(* The operations. *)

LEMMA Undisturbs ==
  ASSUME NEW p \in Op, faults' = faults, toggles' = toggles,
         op'[p].calm = op[p].calm, op'[p].since = op[p].since
  PROVE  Undisturbed(p)' => Undisturbed(p)
BY DEF Undisturbed

\* An operation at work holds off the others: those before it are over, those
\* after it have not begun.
LEMMA OnlyOne ==
  ASSUME IInv, NEW p \in Op, Undisturbed(p), op[p].at \in Until, AloneStops(p), NEW q \in Op \ {p}
  PROVE  op[q].at \notin Working
<1>1. Holds(p) /\ op[p].at # "rest" /\ "race" \notin faults
  BY WorkPlaces DEF Holds, Until, Working, Files, Undisturbed
<1>2. q < p \/ p < q
  BY BackupBounds DEF Op
<1>3. p < q => op[q].at = "rest"
  BY <1>1 DEF IInv, OneAtATime
<1> QED BY <1>2, <1>3, WorkPlaces DEF AloneStops, Working, Files

\* What an operation saves is streamed, and so will be in the mirror.
LEMMA StepSteady ==
  ASSUME IInv, SteadyFits, NEW p \in Op, Step(p)
  PROVE  SteadyFits'
<1>1. EdgeTypeOK /\ faults' = faults /\ record \in Records
  BY StepFits, Opens DEF IInv, OpFits, Own, EdgeTypeOK
<1>2. SUFFICES ASSUME Steady PROVE SteadyFits'
  BY <1>1 DEF SteadyFits, Steady
<1>3. UNCHANGED <<link, dump, mirror, daemon>>
  BY DEF Step, Begin, Stop, Insist, Halted, TimesOut, Guard, Copy, Pack, Unpack, Aside, Install,
     Undo, Back, Commit, Fail, Restart, End, edge, edgeOnly
<1>4. UNCHANGED <<record, stream>> \/ \E r \in Records : Save(r)
  <2>1. /\ [record EXCEPT !.power = "off"] \in Records /\ [record EXCEPT !.power = "on"] \in Records
    BY <1>1 DEF Records, Power
  <2> QED BY <1>1, <2>1 DEF Step, Begin, Stop, Insist, Halted, TimesOut, Guard, Copy, Pack, Unpack,
          Aside, Install, Undo, Back, Commit, Fail, Restart, End, edge
<1> QED BY <1>1, <1>2, <1>3, <1>4, SaveSteady DEF SteadyFits, Steady

\* What the operation itself does to the instance.
LEMMA OwnStops ==
  ASSUME IInv, SteadyFits, Steady, NEW p \in Op, Step(p),
         op[p].at \in Until => Stops(p), op'[p].at \in Until
  PROVE  Stops(p)'
<1>1. EdgeTypeOK /\ record \in Records /\ op[p] \in OpType /\ op \in [Op -> OpType]
  BY Opens DEF IInv, EdgeTypeOK
<1>2. op'[p].restart = op[p].restart /\ op[p].at \in Working
  BY StepNotes, StepFits DEF IInv, OpFits, Own
<1>3. Begin(p) \/ op'[p].at # "begin"
  BY StepNotes DEF IInv
<1>4. Begin(p) \/ op'[p].at # "stop"
  BY StepNotes DEF IInv
<1>5. ASSUME UNCHANGED <<record, stream, mirror, daemon, writes, box>>
      PROVE  (Serves => Serves') /\ (Turning => Turning') /\ (Off => Off')
  BY <1>5 DEF Serves, Turning, Off
<1>6. CASE Begin(p)
  <2>1. op[p].at = "begin" /\ op'[p].at = "stop"
    BY <1>1, <1>6, BeginGoes
  <2>2. IF op[p].restart THEN Serves' ELSE Off'
    BY <1>2, <1>5, <1>6, <2>1 DEF Stops, Begin, edge, Until
  <2> QED BY <1>2, <2>1, <2>2 DEF Stops, Early
<1>7. CASE Stop(p)
  <2>1. op[p].at = "stop" /\ op'[p].at = "wait"
    BY <1>1, <1>7 DEF Stop, Goto, At, OpType
  <2>2. UNCHANGED <<link, dump, mirror, daemon, writes, box, faults>>
    BY <1>7 DEF Stop, edgeOnly
  <2>3. CASE op[p].restart
    <3>1. Serves /\ [record EXCEPT !.power = "off"] \in Records
      BY <1>1, <1>2, <2>1, <2>3 DEF Stops, Until, Records, Power
    <3>2. record' = [power |-> "off", status |-> "live"] /\ stream' = Append(stream, record')
      BY <1>1, <1>7, <2>2, <2>3, <3>1, SaveSteady DEF Stop, Serves
    <3>3. stream' = <<record'>>
      BY <3>1, <3>2 DEF Serves
    <3>4. Turning'
      BY <2>2, <3>1, <3>2, <3>3 DEF Serves, Turning
    <3> QED BY <2>1, <3>4 DEF Stops, Early
  <2>4. CASE ~op[p].restart
    <3>1. Off /\ UNCHANGED <<record, stream>>
      BY <1>2, <1>7, <2>1, <2>4 DEF Stops, Until, Stop
    <3>2. Off'
      BY <1>5, <2>2, <3>1
    <3> QED BY <2>1, <3>2 DEF Stops, Early
  <2> QED BY <2>3, <2>4
<1>8. CASE Off /\ ~Begin(p) /\ ~Stop(p)
  <2>1. CASE Commit(p)
    <3>1. op'[p].at = "restart"
      <4>1. op' = [op EXCEPT ![p] = [op[p] EXCEPT !.at = "restart", !.aside = Nowhere, !.moved = {}]]
        BY <1>1, <2>1 DEF Commit, OpType
      <4> QED BY <1>1, <4>1 DEF OpType
    <3> QED BY <3>1 DEF Until
  <2>2. CASE Restart(p)
    <3>1. op'[p].at = "end"
      BY <1>1, <2>2 DEF Restart, Goto, OpType
    <3> QED BY <3>1 DEF Until
  <2>3. CASE ~Commit(p) /\ ~Restart(p)
    <3>1. ~Insist(p)
      BY <1>8 DEF Insist, Off
    <3>2. UNCHANGED <<record, stream, mirror, daemon, writes, box>>
      BY <1>8, <2>3, <3>1 DEF Step, Halted, TimesOut, Guard, Copy, Pack, Unpack, Aside,
         Install, Undo, Back, Fail, End, edge, edgeOnly
    <3> QED BY <1>3, <1>4, <1>5, <1>8, <3>2 DEF Stops, Early
  <2> QED BY <2>1, <2>2, <2>3
<1>9. CASE ~Off /\ ~Begin(p) /\ ~Stop(p)
  <2>1. op[p].at \in {"begin", "stop", "wait", "fail", "restart", "end"}
    BY <1>2, <1>9 DEF Stops, Until, Early
  <2>2. CASE op[p].at \in {"begin", "stop"}
    BY <1>9, <2>2 DEF Step, Insist, Halted, TimesOut, Guard, Copy, Pack, Unpack, Aside, Install,
       Undo, Back, Commit, Fail, Restart, End, At, Waits
  <2>3. CASE op[p].at = "wait"
    <3>1. Turning
      BY <1>2, <1>9, <2>3 DEF Stops, Until
    <3>2. TimesOut(p)
      BY <1>9, <2>3, <3>1 DEF Turning, Step, Insist, Halted, Stopped, Guard, Copy, Pack, Unpack, Aside,
         Install, Undo, Back, Commit, Fail, Restart, End, At
    <3>3. op'[p].at \in {"fail", "failed"} /\ UNCHANGED edge
      BY <1>1, <3>2 DEF TimesOut, FailsBackup, OpType
    <3>4. op'[p].at = "fail"
      BY <3>3, WorkPlaces DEF Until, Working, Files
    <3>5. Turning'
      BY <1>5, <3>1, <3>3 DEF edge
    <3> QED BY <3>4, <3>5 DEF Stops, Early
  <2>4. CASE op[p].at \in {"fail", "restart", "end"}
    <3>1. Fail(p) \/ Restart(p) \/ End(p)
      BY <1>9, <2>4 DEF Step, Insist, Halted, TimesOut, Guard, Copy, Pack, Unpack, Aside, Install,
         Undo, Back, Commit, At, Waits
    <3>2. op'[p].at \in {"failed", "end", "done"}
      BY <1>1, <3>1 DEF Fail, Restart, End, Goto, OpType
    <3> QED BY <3>2, WorkPlaces DEF Until, Working, Files
  <2> QED BY <2>1, <2>2, <2>3, <2>4
<1> QED BY <1>6, <1>7, <1>8, <1>9

\* An operation that begins when nothing is half done finds the instance serving,
\* or off.
LEMMA CheckStops ==
  ASSUME IInv, StopsFit, NEW p \in Op, Check(p) PROVE StopsFit'
<1>1. /\ UNCHANGED <<edge, backup>>
      /\ op[p].at = "rest" /\ op'[p].at = "begin" /\ op'[p].since = toggles
      /\ op'[p].restart <=> record.power = "on"
      /\ op'[p].calm <=> Calm
      /\ \A q \in Op \ {p} : op'[q] = op[q]
  BY CheckNotes DEF IInv
<1>2. EdgeTypeOK /\ record \in Records /\ stream \in Seq(Records)
  BY Opens DEF IInv, EdgeTypeOK
<1>3. SteadyFits'
  BY <1>1 DEF edge, StopsFit, SteadyFits, Steady
<1>4. AloneStops(p)'
  <2>1. SUFFICES ASSUME Undisturbed(p)'
                 PROVE  /\ \A q \in Op : q < p => op'[q].at \notin Working
                        /\ IF op'[p].restart THEN Serves' ELSE Off'
    BY <1>1 DEF AloneStops, Stops, Early
  <2>2. Calm /\ Steady
    BY <1>1, <2>1 DEF Undisturbed, Steady, edge
  <2>3. \A q \in Op : q < p => op'[q].at \notin Working
    BY <1>1, <2>2, BackupBounds DEF Calm, Op
  <2>4. CASE record.power = "on"
    <3>1. Serves
      BY <1>2, <2>2, <2>4 DEF Calm, Quiet, Serves, Records
    <3> QED BY <1>1, <2>3, <2>4, <3>1 DEF Serves, edge
  <2>5. CASE record.power # "on"
    <3>1. Off
      BY <1>2, <2>2, <2>5 DEF Calm, Quiet, Off, Records, Power, StopsFit, SteadyFits
    <3> QED BY <1>1, <2>3, <2>5, <3>1 DEF Off, edge
  <2> QED BY <2>4, <2>5
<1>5. ASSUME NEW q \in Op \ {p} PROVE AloneStops(q)'
  <2>1. SUFFICES ASSUME Undisturbed(q)', op[q].at \in Until
                 PROVE  (\A r \in Op : r < q => op'[r].at \notin Working) /\ Stops(q)'
    BY <1>1, <1>5 DEF AloneStops
  <2>2. Undisturbed(q) /\ AloneStops(q)
    BY <1>1, <1>5, <2>1 DEF Undisturbed, edge, StopsFit
  <2>3. ~(p < q)
    <3>1. op[q].at # "rest" /\ "race" \notin faults
      BY <2>1, <2>2, WorkPlaces DEF Until, Working, Files, Undisturbed
    <3> QED BY <1>1, <3>1 DEF IInv, OneAtATime
  <2>4. \A r \in Op : r < q => op'[r].at \notin Working
    BY <1>1, <2>1, <2>2, <2>3 DEF AloneStops
  <2>5. Stops(q)'
    BY <1>1, <1>5, <2>1, <2>2 DEF AloneStops, Stops, Serves, Turning, Off, edge
  <2> QED BY <2>4, <2>5
<1> QED BY <1>3, <1>4, <1>5 DEF StopsFit

LEMMA StepStops ==
  ASSUME IInv, StopsFit, NEW p \in Op, Step(p) PROVE StopsFit'
<1>1. /\ faults' = faults /\ op[p].at \in Working
      /\ \A q \in Op \ {p} : op'[q] = op[q]
      /\ op'[p].since = op[p].since /\ op'[p].calm = op[p].calm
  BY StepFits, StepNotes DEF IInv, OpFits, Own
<1>2. toggles' = toggles
  BY DEF Step, Begin, Stop, Insist, Halted, TimesOut, Guard, Copy, Pack, Unpack, Aside, Install,
     Undo, Back, Commit, Fail, Restart, End, edge, edgeOnly
<1>3. SteadyFits'
  BY StepSteady DEF StopsFit
<1>4. AloneStops(p)'
  <2>1. SUFFICES ASSUME Undisturbed(p)', op'[p].at \in Until
                 PROVE  (\A q \in Op : q < p => op'[q].at \notin Working) /\ Stops(p)'
    BY DEF AloneStops
  <2>2. Undisturbed(p) /\ Steady
    BY <1>1, <1>2, <2>1, Undisturbs DEF Undisturbed, Steady
  <2>3. op[p].at \in Until
    <3>1. ASSUME op[p].at \notin Until PROVE FALSE
      <4>1. op[p].at \in {"restart", "end"} /\ op[p] \in OpType /\ op \in [Op -> OpType]
        BY <1>1, <3>1, Opens DEF Until, IInv
      <4>2. Restart(p) \/ End(p)
        BY <4>1 DEF Step, Begin, Stop, Insist, Halted, TimesOut, Guard, Copy, Pack, Unpack, Aside,
           Install, Undo, Back, Commit, Fail, At, Waits
      <4>3. op'[p].at \in {"end", "done", "failed"}
        BY <4>1, <4>2 DEF Restart, End, Goto, OpType
      <4> QED BY <2>1, <4>3, WorkPlaces DEF Until, Working, Files
    <3> QED BY <3>1
  <2>4. Stops(p) /\ \A q \in Op : q < p => op[q].at \notin Working
    BY <2>2, <2>3 DEF StopsFit, AloneStops
  <2>5. \A q \in Op : q < p => op'[q].at \notin Working
    BY <1>1, <2>4, BackupBounds DEF Op
  <2> QED BY <2>1, <2>2, <2>4, <2>5, OwnStops DEF StopsFit
<1>5. ASSUME NEW q \in Op \ {p} PROVE AloneStops(q)'
  <2>1. Undisturbed(q)' /\ op'[q].at \in Until => Undisturbed(q) /\ op[q].at \in Until
    BY <1>1, <1>2, <1>5 DEF Undisturbed
  <2>2. ~(Undisturbed(q) /\ op[q].at \in Until)
    BY <1>1, <1>5, OnlyOne DEF StopsFit
  <2> QED BY <2>1, <2>2 DEF AloneStops
<1> QED BY <1>3, <1>4, <1>5 DEF StopsFit

LEMMA EdgeAlone ==
  ASSUME IInv, PowersFit, StopsFit, EdgeNext, UNCHANGED <<op, backup>> PROVE StopsFit'
<1>1. EdgeTypeOK /\ faults' = faults /\ SteadyFits'
  BY EdgeFits, EdgeSteady, Opens DEF Gains, IInv, StopsFit
<1>2. ASSUME NEW p \in Op PROVE AloneStops(p)'
  <2>1. SUFFICES ASSUME Undisturbed(p)', op[p].at \in Until
                 PROVE  (\A q \in Op : q < p => op[q].at \notin Working) /\ Stops(p)'
    BY DEF AloneStops
  <2>2. Steady /\ op[p].since = toggles'
    BY <1>1, <2>1 DEF Undisturbed, Steady
  <2>3. op[p].since <= toggles /\ op[p].since \in Nat /\ toggles \in Nat
    BY <1>1, MirrorBounds, Opens DEF PowersFit, PowerFits, IInv, OpType, EdgeTypeOK
  <2>4. ~\E q \in Power : UserPower(q)
    <3>1. ASSUME NEW q \in Power, UserPower(q) PROVE FALSE
      <4>1. toggles' = toggles + 1
        BY <3>1 DEF UserPower
      <4> QED BY <2>2, <2>3, <4>1
    <3> QED BY <3>1
  <2>5. toggles' = toggles
    BY <2>4 DEF EdgeNext, EdgeProgress, Lands, Hears, Spawn, Ready, LaunchFails, BoxStops, Connects,
       Resync, DaemonStarts, Reconcile, BootSync, AppliesDump, Request, BoxWrites, Drops, DaemonStops
  <2>6. Undisturbed(p)
    BY <1>1, <2>1, <2>5 DEF Undisturbed
  <2>7. Stops(p) /\ \A q \in Op : q < p => op[q].at \notin Working
    BY <2>1, <2>6 DEF StopsFit, AloneStops
  <2>8. (Serves => Serves') /\ (Turning => Turning' \/ Off') /\ (Off => Off')
    BY <1>1, <2>2, <2>4, EdgeStops DEF StopsFit
  <2>9. Stops(p)'
    BY <2>7, <2>8 DEF Stops
  <2> QED BY <2>7, <2>9
<1> QED BY <1>1, <1>2 DEF StopsFit

LEMMA MothershipAlone ==
  ASSUME MothershipRestarts PROVE StopsFit'
<1>1. "mothership" \in faults'
  BY DEF MothershipRestarts, MothershipStops, Mishap
<1> QED BY <1>1 DEF StopsFit, SteadyFits, Steady, AloneStops, Undisturbed

LEMMA StopsInvariant == Spec => []StopsFit
<1>1. Init => StopsFit
  BY WorkPlaces DEF Init, EdgeInit, StopsFit, SteadyFits, AloneStops, Request0, Until, Working, Files
<1>2. IInv /\ PowersFit /\ StopsFit /\ [Next]_vars => StopsFit'
  <2> SUFFICES ASSUME IInv, PowersFit, StopsFit, [Next]_vars PROVE StopsFit'
    OBVIOUS
  <2>1. CASE UNCHANGED vars
    BY <2>1 DEF vars, edge, StopsFit, SteadyFits, Steady, AloneStops, Stops, Undisturbed, Serves,
       Turning, Off
  <2> QED BY <2>1, EdgeAlone, MothershipAlone, CheckStops, StepStops DEF Next
<1> QED BY <1>1, <1>2, Invariant, PowersInvariant, PTL DEF Spec

\* While an operation that was left alone copies or replaces the files, no container
\* uses them but one that is stopping, and none is launched: for any number of
\* operations, lost status writes and launches that fail.
THEOREM FilesToItself == Spec => []StaysStopped
<1>1. StopsFit => StaysStopped
  <2> SUFFICES ASSUME StopsFit, NEW p \in Op, op[p].at \in Files, Undisturbed(p)
               PROVE  box # "up" /\ daemon.launch = "none"
    BY DEF StaysStopped
  <2>1. op[p].at \in Until /\ op[p].at \notin Early
    BY DEF Until, Working, Files, Early
  <2> QED BY <2>1 DEF StopsFit, AloneStops, Stops, Off
<1> QED BY <1>1, StopsInvariant, PTL

-----------------------------------------------------------------------------
(* The safety backup. *)

Saved(p, c) == backup[op[p].made].status = "ready" /\ backup[op[p].made].content = c

Whole == \A d \in Dir : disk[d] # Missing

\* Where a restore goes with the files, what it packs is what it finds and replaces.
Saves(p) ==
  /\ op[p].at \in {"halt"} \cup Files => op[p].made \in Backup
  /\ op[p].at = "pack" => disk = op[p].seen /\ Whole
  /\ op[p].at = "unpack" => Saved(p, disk) /\ Whole
  /\ op[p].at \in {"aside", "install", "undo", "back"} => Saved(p, op[p].seen)

SafelySaves(p) ==
  Undisturbed(p) /\ "drain" \notin faults /\ op[p].kind = "restore" => Saves(p)

SavesFit == \A p \in Op : SafelySaves(p)

\* Nothing of the edge touches the directories, if all are there.
LEMMA OffDisk ==
  ASSUME SteadyFits, Steady, Off, "drain" \notin faults, Whole, EdgeTypeOK, EdgeNext
  PROVE  disk' = disk
<1>1. Ensured = disk
  BY DEF Ensured, Whole, EdgeTypeOK, Image
<1>2. ~BoxWrites
  BY DEF BoxWrites, Off
<1>3. ~Spawn
  BY DEF Spawn, Off
<1> QED BY <1>1, <1>2, <1>3, SteadyActions DEF Lands, Hears, Ready, LaunchFails, BoxStops, Request,
        UserPower

LEMMA EdgeSaves ==
  ASSUME IInv, PowersFit, StopsFit, SavesFit, EdgeNext, UNCHANGED <<op, backup>> PROVE SavesFit'
<1>1. EdgeTypeOK /\ faults' = faults
  BY EdgeFits, Opens DEF Gains, IInv
<1>2. ASSUME NEW p \in Op PROVE SafelySaves(p)'
  <2>1. SUFFICES ASSUME Undisturbed(p)', "drain" \notin faults, op[p].kind = "restore"
                 PROVE  Saves(p)'
    BY <1>1 DEF SafelySaves
  <2>2. toggles' = toggles
    <3>1. op[p].since = toggles' /\ op[p].since <= toggles /\ op[p].since \in Nat /\ toggles \in Nat
      BY <1>1, <2>1, MirrorBounds, Opens DEF PowersFit, PowerFits, IInv, OpType, EdgeTypeOK, Undisturbed
    <3>2. ASSUME NEW q \in Power, UserPower(q) PROVE FALSE
      <4>1. toggles' = toggles + 1
        BY <3>2 DEF UserPower
      <4> QED BY <3>1, <4>1
    <3> QED BY <3>2 DEF EdgeNext, EdgeProgress, Lands, Hears, Spawn, Ready, LaunchFails, BoxStops,
            Connects, Resync, DaemonStarts, Reconcile, BootSync, AppliesDump, Request, BoxWrites,
            Drops, DaemonStops
  <2>3. Undisturbed(p) /\ Saves(p)
    BY <1>1, <2>1, <2>2 DEF Undisturbed, SavesFit, SafelySaves
  <2>4. op[p].at \in {"pack", "unpack"} => disk' = disk
    <3>1. SUFFICES ASSUME op[p].at \in {"pack", "unpack"} PROVE disk' = disk
      OBVIOUS
    <3>2. op[p].at \in Until /\ op[p].at \notin Early
      BY <3>1 DEF Until, Working, Files, Early
    <3>3. Off /\ SteadyFits /\ Steady
      BY <2>3, <3>2 DEF StopsFit, AloneStops, Stops, Undisturbed, Steady
    <3>4. Whole
      BY <2>3, <3>1 DEF Saves
    <3> QED BY <1>1, <2>1, <3>3, <3>4, OffDisk
  <2> QED BY <2>3, <2>4 DEF Saves, Saved, Whole
<1> QED BY <1>2 DEF SavesFit

LEMMA CheckSaves ==
  ASSUME IInv, SavesFit, NEW p \in Op, Check(p) PROVE SavesFit'
<1>1. /\ UNCHANGED <<edge, backup>> /\ op'[p].at = "begin"
      /\ \A q \in Op \ {p} : op'[q] = op[q]
  BY CheckNotes DEF IInv
<1>2. SafelySaves(p)'
  BY <1>1 DEF SafelySaves, Saves, Files
<1>3. ASSUME NEW q \in Op \ {p} PROVE SafelySaves(q)'
  BY <1>1 DEF SavesFit, SafelySaves, Saves, Saved, Whole, Undisturbed, edge
<1> QED BY <1>2, <1>3 DEF SavesFit

\* What the restore itself does to what it saved.
LEMMA OwnSaves ==
  ASSUME IInv, NEW p \in Op, Step(p), op[p].kind = "restore", Saves(p)
  PROVE  Saves(p)'
<1>1. /\ op[p] \in OpType /\ op \in [Op -> OpType] /\ EdgeTypeOK /\ disk \in Image
      /\ backup \in [Backup -> BackupType]
  BY Opens DEF IInv
<1>2. CASE Begin(p) \/ Stop(p) \/ TimesOut(p) \/ Fail(p) \/ Restart(p) \/ End(p)
  <2>1. op'[p].at \in {"stop", "wait", "fail", "failed", "end", "done"}
    BY <1>1, <1>2 DEF Begin, Stop, TimesOut, FailsBackup, Fail, Restart, End, Goto, OpType
  <2> QED BY <2>1 DEF Saves, Files
<1>3. CASE Insist(p)
  BY <1>3 DEF Insist, Waits, Saves, Saved, Whole
<1>4. CASE Halted(p)
  <2>1. CASE op[p].at = "wait"
    <3>1. op'[p].at = "guard"
      BY <1>1, <1>4, <2>1 DEF Halted, Goto, At, OpType
    <3> QED BY <3>1 DEF Saves, Files
  <2>2. CASE op[p].at = "halt"
    <3>1. op'[p].at = "copy" /\ op'[p].made = op[p].made
      BY <1>1, <1>4, <2>2 DEF Halted, Goto, At, OpType
    <3> QED BY <2>2, <3>1 DEF Saves
  <2> QED BY <1>4, <2>1, <2>2 DEF Halted, Waits
<1>5. CASE Guard(p)
  <2>1. PICK b \in Backup : op' = [op EXCEPT ![p] = [@ EXCEPT !.at = "halt", !.made = b]]
    BY <1>5 DEF Guard
  <2>2. op'[p].at = "halt" /\ op'[p].made = b
    BY <1>1, <2>1 DEF OpType
  <2> QED BY <2>2 DEF Saves
<1>6. CASE Copy(p)
  <2>1. op'[p].at = "pack" /\ op'[p].made = op[p].made /\ op'[p].seen = Ensured
    BY <1>1, <1>6 DEF Copy, OpType
  <2>2. disk' = Ensured /\ op[p].at = "copy"
    BY <1>6 DEF Copy, At
  <2>3. \A d \in Dir : disk'[d] # Missing
    BY <2>2 DEF Ensured, Missing, Empty
  <2> QED BY <2>1, <2>2, <2>3 DEF Saves, Files, Whole
<1>7. CASE Pack(p)
  <2>1. op[p].at = "pack" /\ disk' = disk /\ disk = op[p].seen /\ Whole /\ op[p].made \in Backup
    BY <1>7 DEF Pack, At, Saves, Files
  <2>2. CASE FailsBackup(p, "restart")
    <3>1. op'[p].at = "fail"
      BY <1>1, <2>2 DEF FailsBackup, OpType
    <3> QED BY <3>1 DEF Saves, Files
  <2>3. CASE ~FailsBackup(p, "restart")
    <3>1. PICK c \in Image :
            /\ \A d \in Dir : c[d] \in {op[p].seen[d], disk[d]}
            /\ backup' = [backup EXCEPT ![op[p].made] = [@ EXCEPT !.status = "ready", !.content = c]]
      BY <1>7, <2>3 DEF Pack
    <3>2. c = disk
      <4>1. \A d \in Dir : c[d] = disk[d]
        BY <2>1, <3>1
      <4> QED BY <1>1, <4>1 DEF Image
    <3>3. op'[p].at = "unpack" /\ op'[p].made = op[p].made
      <4>1. Goto(p, "unpack")
        BY <1>7, <2>3 DEF Pack
      <4>2. op' = [op EXCEPT ![p] = [op[p] EXCEPT !.at = "unpack"]]
        BY <1>1, <4>1 DEF Goto
      <4> QED BY <1>1, <4>2 DEF OpType
    <3>4. backup'[op[p].made] = [backup[op[p].made] EXCEPT !.status = "ready", !.content = c]
      BY <1>1, <2>1, <3>1
    <3>5. backup'[op[p].made].status = "ready" /\ backup'[op[p].made].content = c
      BY <1>1, <2>1, <3>4 DEF BackupType
    <3> QED BY <2>1, <3>2, <3>3, <3>5 DEF Saves, Saved, Whole
  <2> QED BY <2>2, <2>3
<1>8. CASE Unpack(p)
  <2>1. op[p].at = "unpack" /\ disk' = disk /\ backup' = backup /\ Saved(p, disk) /\ op[p].made \in Backup
    BY <1>8 DEF Unpack, At, Saves, Files
  <2>2. CASE Goto(p, "fail")
    <3>1. op'[p].at = "fail"
      BY <1>1, <2>2 DEF Goto, OpType
    <3> QED BY <3>1 DEF Saves, Files
  <2>3. CASE op' = [op EXCEPT ![p] = [@ EXCEPT !.at = "aside", !.todo = Dir, !.seen = disk]]
    <3>1. op'[p].at = "aside" /\ op'[p].made = op[p].made /\ op'[p].seen = disk
      BY <1>1, <2>3 DEF OpType
    <3> QED BY <2>1, <3>1 DEF Saves, Saved
  <2> QED BY <1>8, <2>2, <2>3 DEF Unpack
<1>9. CASE Aside(p) \/ Install(p) \/ Undo(p) \/ Back(p)
  <2>1. Renamed(p)
    BY <1>9, LoopNotes DEF IInv
  <2>2. /\ op[p].at \in {"aside", "install", "undo", "back"} /\ backup' = backup
        /\ op[p].made \in Backup /\ Saved(p, op[p].seen)
    BY <1>9 DEF Aside, Install, Undo, Back, At, Saves, Files
  <2> QED BY <2>1, <2>2 DEF Renamed, Noted, RenamePlaces, Saves, Saved
<1>10. CASE Commit(p)
  <2>1. op' = [op EXCEPT ![p] = [op[p] EXCEPT !.at = "restart", !.aside = Nowhere, !.moved = {}]]
    BY <1>1, <1>10 DEF Commit, OpType
  <2>2. op'[p].at = "restart"
    BY <1>1, <2>1 DEF OpType
  <2> QED BY <2>2 DEF Saves, Files
<1> QED BY <1>2, <1>3, <1>4, <1>5, <1>6, <1>7, <1>8, <1>9, <1>10 DEF Step

LEMMA StepSaves ==
  ASSUME IInv, SavesFit, NEW p \in Op, Step(p) PROVE SavesFit'
<1>1. /\ faults' = faults /\ op'[p].kind = op[p].kind
      /\ \A q \in Op \ {p} : op'[q] = op[q]
      /\ op'[p].since = op[p].since /\ op'[p].calm = op[p].calm
  BY StepFits, StepNotes DEF IInv, OpFits, Own
<1>2. toggles' = toggles
  BY DEF Step, Begin, Stop, Insist, Halted, TimesOut, Guard, Copy, Pack, Unpack, Aside, Install,
     Undo, Back, Commit, Fail, Restart, End, edge, edgeOnly
<1>3. SafelySaves(p)'
  BY <1>1, <1>2, Undisturbs, OwnSaves DEF SavesFit, SafelySaves
<1>4. ASSUME NEW q \in Op \ {p} PROVE SafelySaves(q)'
  <2>1. SUFFICES ASSUME Undisturbed(q), "drain" \notin faults, op[q].kind = "restore"
                 PROVE  Saves(q)'
    BY <1>1, <1>2, <1>4 DEF SafelySaves, Undisturbed
  <2>2. Saves(q) /\ op'[q] = op[q]
    BY <1>1, <1>4, <2>1 DEF SavesFit, SafelySaves
  <2>3. CASE op[q].at \in {"halt"} \cup Files
    <3>1. Holds(q) /\ "race" \notin faults
      BY <2>1, <2>3 DEF Holds, Working, Undisturbed
    <3>2. disk' = disk /\ backup' = backup
      BY <1>4, <3>1, LeavesAlone
    <3> QED BY <2>2, <3>2 DEF Saves, Saved, Whole
  <2>4. CASE op[q].at \notin {"halt"} \cup Files
    BY <2>2, <2>4 DEF Saves, Files
  <2> QED BY <2>3, <2>4
<1> QED BY <1>3, <1>4 DEF SavesFit

\* What a restore that was left alone replaces is in its safety backup, complete
\* and ready, before the first rename: whichever step fails later, it can be had.
THEOREM SavedBeforeReplaced == Spec => []ReplacedIsSaved
<1>1. Init => SavesFit
  BY DEF Init, SavesFit, SafelySaves, Saves, Request0, Files
<1>2. IInv /\ PowersFit /\ StopsFit /\ SavesFit /\ [Next]_vars => SavesFit'
  <2> SUFFICES ASSUME IInv, PowersFit, StopsFit, SavesFit, [Next]_vars PROVE SavesFit'
    OBVIOUS
  <2>1. CASE MothershipRestarts
    <3>1. "mothership" \in faults'
      BY <2>1 DEF MothershipRestarts, MothershipStops, Mishap
    <3> QED BY <3>1 DEF SavesFit, SafelySaves, Undisturbed
  <2>2. CASE UNCHANGED vars
    BY <2>2 DEF vars, edge, SavesFit, SafelySaves, Saves, Saved, Whole, Undisturbed
  <2> QED BY <2>1, <2>2, EdgeSaves, CheckSaves, StepSaves DEF Next
<1>3. IInv /\ SavesFit => ReplacedIsSaved
  <2> SUFFICES ASSUME IInv, SavesFit, NEW p \in Op, op[p].moved # {}, op[p].at \in Files,
                      Undisturbed(p), "drain" \notin faults
               PROVE  /\ op[p].made # 0
                      /\ backup[op[p].made].status = "ready"
                      /\ backup[op[p].made].content = op[p].seen
    BY DEF ReplacedIsSaved
  <2>1. Kept(p) /\ Shaped(p)
    BY DEF IInv, KeptFits, ShapeFits, Undisturbed
  <2>2. op[p].at \in {"aside", "install", "undo", "back"}
    BY <2>1 DEF Kept, Files
  <2>3. Saves(p)
    BY <2>1, <2>2 DEF SavesFit, SafelySaves, Shaped, OfRestore
  <2>4. op[p].made \in Backup
    BY <2>3 DEF Saves
  <2> QED BY <2>2, <2>3, <2>4, BackupBounds DEF Saves, Saved, Backup
<1> QED BY <1>1, <1>2, <1>3, Invariant, PowersInvariant, StopsInvariant, PTL DEF Spec

=============================================================================

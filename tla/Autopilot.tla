----------------------------- MODULE Autopilot ------------------------------
(***************************************************************************)
(* The whole program: the converger thread takes batches of events from    *)
(* the channel that the collectors fill, handles them, and then runs       *)
(* through all drives twice, with an update of their assignments between   *)
(* the two passes.                                                         *)
(***************************************************************************)
EXTENDS Collectors

CONSTANT MidPass   \* upsets also happen while the converger is at work

ASSUME MidPassAssumption == MidPass \in BOOLEAN

VARIABLES
  phase,    \* where the converger is
  drives,   \* Converger.Drives, by device path
  batch,    \* the batch being handled: what is left of it
  at        \* index of the drive that the current loop has reached

ctlVars == <<phase, drives, batch, at>>
vars == <<hostVars, deviceVars, assignVars, collectorVars, ctlVars>>

Phases == {"wait", "handle", "pass1", "scan", "assign", "pass2", "dead"}

NoEvent == Event("wakeup", <<>>)

(* Every variable has its type; no loop over a list runs past its end.      *)
TypeOK ==
  /\ HostTypeOK /\ DriveTypeOK /\ LuksTypeOK /\ AssignmentTypeOK /\ CollectorsTypeOK
  /\ phase \in Phases /\ drives \in Seq(Drives) /\ batch \in Batch /\ at \in Nat \ {0}

Init ==
  /\ HostInit /\ DriveInit /\ LuksInit /\ AssignmentInit /\ CollectorsInit
  /\ phase = "wait" /\ drives = <<>> /\ batch = NoEvent /\ at = 1

Known == ToSet(drives)
HasBrokenDrives == \E d \in Known : broken[d]

(* The process ends, by a panic, a logg.Fatal or a kill, and takes with it   *)
(* all that it had in memory.                                               *)
ProcessEnds ==
  /\ phase' = "dead" /\ drives' = <<>> /\ batch' = NoEvent /\ at' = 1
  /\ DriveReset /\ LuksReset /\ BeginScan /\ CollectorsReset

-----------------------------------------------------------------------------
(* RunConverger: receive a batch, refresh the mount table, handle events.   *)

Receive ==
  /\ phase = "wait" /\ queue # <<>>
  /\ batch' = Head(queue) /\ queue' = Tail(queue) /\ phase' = "handle"
  /\ RefreshMountPoints /\ RefreshLUKSMappings
  /\ UNCHANGED <<hostVars, fields, job, hasLUKS, luksFormatted, mapped, mappingName,
                 assignVars, knownDrives, outbox, brokenDevices, held, drives, at>>

Handling(kind) ==
  phase = "handle" /\ op = "idle" /\ batch.kind = kind /\ batch.devs # <<>>

(* What the loop over c.Drives leaves of the list: the drives at all other  *)
(* positions, in their order (the set has one element).                     *)
RemovedKept(ds, d) == {ds}                                       \* mutant
Removed(ds, d) ==
  {[j \in DOMAIN f |-> ds[f[j]]] : f \in Sorted({i \in DOMAIN ds : ds[i] # d})}

EventDone == batch' = [batch EXCEPT !.devs = Tail(@)]

(* A new drive is set up at once, up to the mount at its temporary path.    *)
HandleAdded ==
  /\ Handling("added")
  /\ LET d == Head(batch.devs)
     IN NewDevice(d) /\ drives' = Append(drives, d)
  /\ op' = "converge"
  /\ UNCHANGED <<disks, mounts, durable, propagation, flagReady, upsets, cache,
                 scope, todo, target, assignVars, collectorVars, phase, batch, at>>

HandleReinstated ==
  /\ Handling("reinstated") /\ Head(batch.devs) \in Known
  /\ NewDevice(Head(batch.devs))
  /\ op' = "converge"
  /\ UNCHANGED <<disks, mounts, durable, propagation, flagReady, upsets, cache,
                 scope, todo, target, assignVars, collectorVars, ctlVars>>

HandleRemoved ==
  /\ Handling("removed") /\ Head(batch.devs) \in Known
  /\ IF hasDevice[Head(batch.devs)]
     THEN Teardown(Head(batch.devs))
     ELSE op' = "done" /\ UNCHANGED <<scope, todo, target>>
  /\ UNCHANGED <<hostVars, cache, fields, luksVars, assignVars, collectorVars, ctlVars>>

HandleError ==
  /\ Handling("error") /\ Head(batch.devs) \in Known
  /\ MarkAsBroken(Head(batch.devs))
  /\ EventDone
  /\ UNCHANGED <<disks, mounts, durable, propagation, flagReady, upsets, cache,
                 hasDevice, formatted, mountPath, job, luksVars, assignVars, collectorVars,
                 phase, drives, at>>

(* Every event but the first of a drive is about a drive on the list.       *)
HandleUnknown ==
  /\ phase = "handle" /\ op = "idle" /\ batch.devs # <<>>
  /\ batch.kind # "added" /\ Head(batch.devs) \notin Known
  /\ EventDone
  /\ UNCHANGED <<hostVars, deviceVars, assignVars, collectorVars, phase, drives, at>>

(* The handler's work on the drive is done; a removed drive leaves the list *)
(* whether or not its mounts could be taken down.                           *)
EventHandled ==
  /\ phase = "handle" /\ op = "done"
  /\ EventDone
  /\ IF batch.kind = "removed"
     THEN drives' \in Removed(drives, Head(batch.devs))
     ELSE UNCHANGED drives
  /\ op' = "idle" /\ scope' = "host" /\ todo' = {} /\ target' = NoPath
  /\ UNCHANGED <<hostVars, cache, fields, luksVars, assignVars, collectorVars, phase, at>>

-----------------------------------------------------------------------------
(* Converger.Converge.                                                      *)

BeginConverge ==
  /\ phase = "handle" /\ op = "idle" /\ batch.devs = <<>>
  /\ phase' = "pass1" /\ at' = 1 /\ batch' = NoEvent
  /\ UNCHANGED <<hostVars, deviceVars, assignVars, collectorVars, drives>>

Current == IF phase = "handle" THEN Head(batch.devs) ELSE drives[at]

InPass == phase \in {"pass1", "pass2"} /\ at <= Len(drives)

(* Drive.Converge is due for the current drive; the second pass leaves the  *)
(* drives out that are broken by then.                                      *)
ToConverge ==
  \/ phase = "handle" /\ op = "converge"
  \/ InPass /\ op = "idle" /\ (phase = "pass2" => ~broken[Current])

ConvergeHealthy ==
  /\ ToConverge /\ ~broken[Current]
  /\ Setup(Current)
  /\ UNCHANGED <<assignVars, collectorVars, ctlVars>>

ConvergeBroken ==
  /\ ToConverge /\ broken[Current] /\ hasDevice[Current]
  /\ Teardown(Current)
  /\ UNCHANGED <<hostVars, cache, fields, luksVars, assignVars, collectorVars, ctlVars>>

(* Drive.Converge calls Teardown on the Device of a broken drive, which is  *)
(* nil when the drive could not be read: the process panics.                *)
ConvergeUnreadable ==
  /\ ToConverge /\ broken[Current] /\ ~hasDevice[Current]
  /\ ProcessEnds /\ UNCHANGED hostVars

Work ==
  /\ DeviceStep(Current)
  /\ UNCHANGED <<assignVars, collectorVars, ctlVars>>

NextDrive ==
  /\ \/ InPass /\ op = "done"
     \/ InPass /\ op = "idle" /\ phase = "pass2" /\ broken[Current]
  /\ at' = at + 1
  /\ op' = "idle" /\ scope' = "host" /\ todo' = {} /\ target' = NoPath
  /\ UNCHANGED <<hostVars, cache, fields, luksVars, assignVars, collectorVars, phase,
                 drives, batch>>

EndPass1 ==
  /\ phase = "pass1" /\ at > Len(drives)
  /\ phase' = "scan" /\ at' = 1
  /\ BeginScan
  /\ UNCHANGED <<hostVars, deviceVars, collectorVars, drives, batch>>

Scan ==
  /\ phase = "scan" /\ at <= Len(drives)
  /\ ScanDrive(drives[at], HasBrokenDrives)
  /\ at' = at + 1
  /\ UNCHANGED <<collectorVars, phase, drives, batch>>

EndScan ==
  /\ phase = "scan" /\ at > Len(drives)
  /\ phase' = IF CanAutoAssign(HasBrokenDrives) THEN "assign" ELSE "pass2"
  /\ at' = 1
  /\ UNCHANGED <<hostVars, deviceVars, assignVars, collectorVars, drives, batch>>

Assign ==
  /\ phase = "assign" /\ at <= Len(drives)
  /\ AssignDrive(drives[at])
  /\ at' = at + 1
  /\ UNCHANGED <<collectorVars, phase, drives, batch>>

BeginPass2 ==
  /\ phase = "assign" /\ at > Len(drives)
  /\ phase' = "pass2" /\ at' = 1
  /\ UNCHANGED <<hostVars, deviceVars, assignVars, collectorVars, drives, batch>>

(* WriteDriveAudit: one entry per mount path (1 for a broken drive; of two  *)
(* drives with the same path, the later one in the list counts).            *)
LastCounts(p) == Max({i \in DOMAIN drives : MountPath(drives[i]) = p})

DriveAudit ==
  [p \in {MountPath(d) : d \in Known} |-> IF broken[drives[LastCounts(p)]] THEN 1 ELSE 0]
DriveAuditErrors == Cardinality({i \in DOMAIN drives : broken[drives[i]]})

(* CheckForUnexpectedMounts logs the mounts below /srv/node in the host's   *)
(* scope that are at no drive's mount path.                                 *)
UnexpectedMounts ==
  {p \in SrvPaths : OnPath(cache["host"], p) # {} /\ \A d \in Known : MountPath(d) # p}

(* The storage is declared ready at the end of every iteration.             *)
EndConverge ==
  /\ phase = "pass2" /\ at > Len(drives)
  /\ flagReady' = TRUE /\ phase' = "wait" /\ at' = 1
  /\ EndAssign
  /\ UNCHANGED <<disks, mounts, transient, durable, propagation, faults, upsets,
                 deviceVars, collectorVars, drives, batch>>

Converger ==
  \/ Receive \/ HandleAdded \/ HandleReinstated \/ HandleRemoved \/ HandleError
  \/ HandleUnknown \/ EventHandled \/ BeginConverge \/ ConvergeHealthy
  \/ ConvergeBroken \/ ConvergeUnreadable \/ Work \/ NextDrive \/ EndPass1
  \/ Scan \/ EndScan \/ Assign \/ BeginPass2 \/ EndConverge

-----------------------------------------------------------------------------
(* The process around the threads, and the world around the process.        *)

Alive == phase # "dead"

CollectorStep ==
  /\ Alive /\ Collect
  /\ UNCHANGED <<hostVars, deviceVars, assignVars, ctlVars>>

(* "no drives found matching the configured patterns" is fatal.             *)
NoDrivesFound ==
  /\ Alive /\ Len(outbox) <= 1 /\ devices = {}
  /\ ProcessEnds /\ UNCHANGED hostVars

Restart ==
  /\ phase = "dead"
  /\ phase' = "wait"
  /\ UNCHANGED <<hostVars, deviceVars, assignVars, collectorVars, drives, batch, at>>

LogError ==
  /\ Alive /\ Upset("diskerror")
  /\ \E d \in Drives : SendDriveError(d)
  /\ UNCHANGED <<disks, mounts, flags, faults, deviceVars, assignVars, ctlVars>>

Crash ==
  /\ Alive /\ Upset("crash")
  /\ ProcessEnds /\ UNCHANGED <<disks, mounts, flags, faults>>

Reboot ==
  /\ Upset("reboot") /\ HostReboot /\ ProcessEnds

Environment ==
  /\ MidPass \/ phase \in {"wait", "dead"}
  /\ \/ HostUpset /\ UNCHANGED <<deviceVars, assignVars, collectorVars, ctlVars>>
     \/ LogError \/ Crash \/ Reboot

Next == Converger \/ CollectorStep \/ NoDrivesFound \/ Restart \/ Environment

Spec == Init /\ [][Next]_vars

(* The threads are never starved: they are scheduled by the Go runtime, the *)
(* collectors act on timers, and a channel serves blocked senders in turn   *)
(* (hence strong fairness for them).  An ended process is started again by  *)
(* its supervisor.  Nothing is assumed of the environment.                  *)
Fairness ==
  /\ WF_vars(Converger) /\ WF_vars(Restart) /\ WF_vars(NoDrivesFound)
  /\ WF_vars(CollectDrives /\ CollectorStep)
  /\ WF_vars(CollectReinstatements /\ CollectorStep)
  /\ SF_vars(SendDriveEvents /\ CollectorStep)
  /\ SF_vars(SendReinstatements /\ CollectorStep)
  /\ SF_vars(ScheduleWakeup /\ CollectorStep)

FairSpec == Spec /\ Fairness
=============================================================================

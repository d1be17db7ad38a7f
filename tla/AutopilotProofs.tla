--------------------------- MODULE AutopilotProofs ---------------------------
(***************************************************************************)
(* Theorems about the whole program: type correctness (TypeInv is the      *)
(* inductive invariant), and the uniqueness of assigned swift-ids (UniqueInv *)
(* is the inductive invariant).                                            *)
(***************************************************************************)
EXTENDS AutopilotProps, DeviceProofs

(* While something is being done to a drive, there is such a drive. *)
JobHasDrive ==
  op # "idle" => (phase = "handle" /\ batch.devs # <<>>) \/ InPass

TypeInv == TypeOK /\ TargetIsPath /\ JobHasDrive

-----------------------------------------------------------------------------
(* The listings of a set of drives are sequences of drives.                 *)
LEMMA ListingsType ==
  ASSUME NEW S \in SUBSET Drives
  PROVE  Listings(S) \subseteq Seq(Drives) /\ Sorted(S) \subseteq Seq(Drives)
<1>1. IsFiniteSet(S)
  BY HostAssumption, FS_Subset
<1>2. \A f \in [1 .. Cardinality(S) -> S] : f \in Seq(Drives)
  BY <1>1, ListOf
<1> QED BY <1>2 DEF Listings, Sorted

(* The batches that report a set of drives are batches.                     *)
LEMMA BatchOfType ==
  ASSUME NEW kind \in Kinds, NEW S, NEW ls \in SUBSET Seq(Drives)
  PROVE  BatchOf(kind, S, ls) \subseteq Seq(Batch)
<1>1. \A s \in ls : Event(kind, s) \in Batch
  BY DEF Event, Batch
<1>2. \A b \in Batch : <<b>> \in Seq(Batch)
  OBVIOUS
<1>3. <<>> \in Seq(Batch)
  BY EmptySeq
<1> QED BY <1>1, <1>2, <1>3 DEF BatchOf

(* Removing a drive from the list leaves a list of drives.                  *)
LEMMA RemovedType ==
  ASSUME NEW ds \in Seq(Drives), NEW d, NEW r \in Removed(ds, d)
  PROVE  r \in Seq(Drives)
<1> DEFINE keep == {i \in DOMAIN ds : ds[i] # d}
<1>1. keep \in SUBSET (1 .. Len(ds)) /\ Len(ds) \in Nat
  BY LenProperties
<1>2. IsFiniteSet(keep)
  BY <1>1, FS_Interval, FS_Subset
<1>3. Cardinality(keep) \in Nat
  BY <1>2, FS_CardinalityType
<1> HIDE DEF keep
<1>4. PICK f \in [1 .. Cardinality(keep) -> keep] : r = [j \in DOMAIN f |-> ds[f[j]]]
  BY DEF Removed, Sorted, keep
<1>5. \A j \in 1 .. Cardinality(keep) : ds[f[j]] \in Drives
  BY <1>1, ElementOfSeq
<1>6. r \in [1 .. Cardinality(keep) -> Drives]
  BY <1>4, <1>5
<1> QED BY <1>3, <1>6, FunctionIsSeq

(* Every step of a collector keeps the types.                               *)
LEMMA CollectType ==
  ASSUME HostTypeOK, CollectorsTypeOK, Collect
  PROVE  CollectorsTypeOK'
<1> USE DEF CollectorsTypeOK
<1>1. CASE CollectDrives
  <2> DEFINE gone == knownDrives \ devices
             new == {d \in devices \ knownDrives : Eligible(d)}
  <2>1. gone \in SUBSET Drives /\ new \in SUBSET Drives
    BY DEF HostTypeOK
  <2>2. /\ BatchOf("removed", gone, Sorted(gone)) \subseteq Seq(Batch)
        /\ BatchOf("added", new, Sorted(new)) \subseteq Seq(Batch)
    BY <2>1, ListingsType, BatchOfType DEF Kinds
  <2>3. PICK r \in Seq(Batch), a \in Seq(Batch) : outbox' = outbox \o r \o a
    BY <1>1, <2>2 DEF CollectDrives
  <2>4. outbox' \in Seq(Batch)
    BY <2>3, ConcatProperties
  <2> QED BY <1>1, <2>4 DEF CollectDrives, HostTypeOK
<1>2. CASE SendDriveEvents
  <2>1. Head(outbox) \in Batch /\ Tail(outbox) \in Seq(Batch)
    BY <1>2, HeadTailProperties DEF SendDriveEvents
  <2> QED BY <1>2, <2>1, AppendProperties DEF SendDriveEvents
<1>3. CASE CollectReinstatements
  <2> DEFINE gone == brokenDevices \ (transient \cup durable)
  <2>1. gone \in SUBSET Drives
    OBVIOUS
  <2>2. BatchOf("reinstated", gone, Listings(gone)) \subseteq Seq(Batch)
    BY <2>1, ListingsType, BatchOfType DEF Kinds
  <2> QED BY <1>3, <2>2 DEF CollectReinstatements, HostTypeOK
<1>4. CASE SendReinstatements
  <2>1. Head(held) \in Batch /\ <<>> \in Seq(Batch)
    BY <1>4, HeadTailProperties, EmptySeq DEF SendReinstatements
  <2> QED BY <1>4, <2>1, AppendProperties DEF SendReinstatements
<1>5. CASE ScheduleWakeup
  <2>1. Event("wakeup", <<>>) \in Batch
    BY EmptySeq DEF Event, Batch, Kinds
  <2> QED BY <1>5, <2>1, AppendProperties DEF ScheduleWakeup
<1> QED BY <1>1, <1>2, <1>3, <1>4, <1>5 DEF Collect

(* The event of the kernel log's watcher is well-typed.                     *)
LEMMA SendDriveErrorType ==
  ASSUME CollectorsTypeOK, NEW d \in Drives, SendDriveError(d)
  PROVE  CollectorsTypeOK'
<1>1. Event("error", <<d>>) \in Batch
  BY DEF Event, Batch, Kinds
<1> QED BY <1>1, AppendProperties DEF SendDriveError, CollectorsTypeOK

-----------------------------------------------------------------------------
(* The entries of the pool have names.                                      *)
LEMMA PoolNameType ==
  ASSUME NEW k \in DOMAIN Pool
  PROVE  PoolName(k) \in Names /\ Pool[k] \in IDs \cup {Spare}
<1> DEFINE before == {j \in 1 .. k - 1 : Pool[j] = Spare}
<1>1. k \in 1 .. Len(Pool) /\ Len(Pool) \in Nat /\ Pool[k] \in IDs \cup {Spare}
  BY PoolAssumption, LenProperties, ElementOfSeq
<1>2. k - 1 \in Int
  BY <1>1
<1>3. before \in SUBSET (1 .. k - 1)
  OBVIOUS
<1>4. IsFiniteSet(1 .. k - 1)
  BY <1>2, FS_Interval
<1>5. Cardinality(before) \in Nat
  BY <1>3, <1>4, FS_Subset, FS_CardinalityType
<1> QED BY <1>1, <1>5 DEF PoolName, Names

(* An iteration of the scan keeps the types.                                *)
LEMMA ScanDriveType ==
  ASSUME HostTypeOK, DriveTypeOK, LuksTypeOK, AssignmentTypeOK, TargetIsPath,
         NEW d \in Drives, NEW b, ScanDrive(d, b)
  PROVE  HostTypeOK' /\ DriveTypeOK' /\ LuksTypeOK' /\ AssignmentTypeOK' /\ TargetIsPath'
<1>1. faults' \in Nat /\ assignment' \in [Drives -> Assignments] /\ AssignmentTypeOK'
  <2>1. CASE SkipDrive(d)
    BY <2>1, FaultType DEF SkipDrive, HostTypeOK, DriveTypeOK, AssignmentTypeOK
  <2>2. CASE FindUnassigned(d, b)
    <3>1. \A e \in Errors : Invalid(NoID, e) \in Assignments
      BY DEF Invalid, Assignments, Errors
    <3> QED BY <2>2, <3>1 DEF FindUnassigned, ReadWorks, Apply, HostTypeOK, DriveTypeOK,
                              AssignmentTypeOK, Errors
  <2>3. CASE FindSpare(d)
    <3>1. Assigned(Spare) \in Assignments /\ <<Spare, spareIdx>> \in Names
      BY DEF Assigned, Assignments, Spare, NoID, Names, AssignmentTypeOK
    <3>2. assignment' \in [Drives -> Assignments]
      BY <2>3, <3>1 DEF FindSpare, Apply, DriveTypeOK
    <3>3. taken' \subseteq Names
      BY <2>3, <3>1 DEF FindSpare, Claim, AssignmentTypeOK
    <3> QED BY <2>3, <3>2, <3>3 DEF FindSpare, ReadWorks, HostTypeOK, AssignmentTypeOK
  <2>4. CASE FindID(d)
    <3>1. PICK id \in IDs : FindID(d)!2!(id)
      BY <2>4 DEF FindID
    <3>2. \A e \in Errors : Invalid(id, e) \in Assignments
      BY DEF Invalid, Assignments, Errors
    <3>3. Assigned(id) \in Assignments /\ <<id, 0>> \in Names
      BY HostAssumption DEF Assigned, Assignments, Names
    <3>4. assignment' \in [Drives -> Assignments]
      BY <3>1, <3>2, <3>3 DEF Apply, DriveTypeOK, Errors
    <3>5. mismounted' \in BOOLEAN
      BY <3>1 DEF AssignmentTypeOK, Mismatch
    <3>6. drivesBySwiftID' \in [IDs -> Drives \cup {NoDrive}]
      BY <3>1 DEF AssignmentTypeOK
    <3> QED BY <2>4, <3>1, <3>3, <3>4, <3>5, <3>6
            DEF FindID, ReadWorks, Claim, HostTypeOK, AssignmentTypeOK
  <2> QED BY <2>1, <2>2, <2>3, <2>4 DEF ScanDrive
<1>2. HostTypeOK'
  BY <1>1 DEF ScanDrive, HostTypeOK, disks, flags
<1>3. DriveTypeOK' /\ TargetIsPath'
  BY <1>1 DEF ScanDrive, DriveTypeOK, TargetIsPath, job
<1>4. LuksTypeOK'
  BY DEF ScanDrive, LuksTypeOK, luksVars
<1> QED BY <1>1, <1>2, <1>3, <1>4

(* An iteration of the auto-assignment keeps the types.                     *)
LEMMA AssignDriveType ==
  ASSUME HostTypeOK, DriveTypeOK, LuksTypeOK, AssignmentTypeOK, TargetIsPath,
         NEW d \in Drives, AssignDrive(d)
  PROVE  HostTypeOK' /\ DriveTypeOK' /\ LuksTypeOK' /\ AssignmentTypeOK' /\ TargetIsPath'
<1>1. /\ faults' \in Nat /\ assignment' \in [Drives -> Assignments]
      /\ taken' \subseteq Names /\ scanned' \subseteq Drives
      /\ swiftID' \in [Drives -> IDs \cup {Spare, NoID}]
      /\ stray' \in [Paths -> IDs \cup {Spare, NoID}]
  <2> USE DEF HostTypeOK, DriveTypeOK, AssignmentTypeOK
  <2>1. CASE PassOver(d)
    BY <2>1 DEF PassOver
  <2>2. CASE AssignID(d)
    <3>1. PICK k \in DOMAIN Pool :
            \/ /\ WriteSwiftID(MountPath(d), Pool[k]) /\ Claim(PoolName(k))
               /\ Apply(d, Assigned(Pool[k])) /\ scanned' = scanned \cup {d}
               /\ UNCHANGED faults
            \/ WriteFails(d)
      BY <2>2 DEF AssignID
    <3>2. CASE WriteFails(d)
      BY <3>2, FaultType DEF WriteFails
    <3>3. CASE ~WriteFails(d)
      <4>1. PoolName(k) \in Names /\ Pool[k] \in IDs \cup {Spare}
        BY PoolNameType
      <4>2. Assigned(Pool[k]) \in Assignments
        BY <4>1, HostAssumption DEF Assigned, Assignments, Spare, NoID
      <4>3. /\ swiftID' \in [Drives -> IDs \cup {Spare, NoID}]
            /\ stray' \in [Paths -> IDs \cup {Spare, NoID}]
        BY <3>1, <3>3, <4>1 DEF WriteSwiftID
      <4> QED BY <3>1, <3>3, <4>1, <4>2, <4>3 DEF Claim, Apply
    <3> QED BY <3>2, <3>3
  <2> QED BY <2>1, <2>2 DEF AssignDrive
<1>2. HostTypeOK'
  BY <1>1 DEF AssignDrive, HostTypeOK, flags
<1>3. DriveTypeOK' /\ TargetIsPath'
  BY <1>1 DEF AssignDrive, DriveTypeOK, TargetIsPath, job
<1>4. AssignmentTypeOK'
  BY <1>1 DEF AssignDrive, AssignmentTypeOK
<1>5. LuksTypeOK'
  BY DEF AssignDrive, LuksTypeOK, luksVars
<1> QED BY <1>1, <1>2, <1>3, <1>4, <1>5

-----------------------------------------------------------------------------
(* The initial states satisfy TypeInv.                                      *)
LEMMA InitType ==
  ASSUME Init
  PROVE  TypeInv
<1>1. HostTypeOK /\ DriveTypeOK /\ TargetIsPath /\ LuksTypeOK
  BY HostInitType, DriveInitType, LuksInitType DEF Init
<1>2. AssignmentTypeOK
  BY DEF Init, AssignmentInit, AssignmentTypeOK
<1>3. CollectorsTypeOK
  BY EmptySeq DEF Init, CollectorsInit, CollectorsTypeOK
<1>4. NoEvent \in Batch /\ <<>> \in Seq(Drives)
  BY EmptySeq DEF NoEvent, Event, Batch, Kinds
<1> QED BY <1>1, <1>2, <1>3, <1>4
        DEF Init, DriveInit, TypeInv, TypeOK, JobHasDrive, Phases

(* The end of the process leaves a state that satisfies TypeInv.            *)
LEMMA ProcessEndsType ==
  ASSUME HostTypeOK', ProcessEnds
  PROVE  TypeInv'
<1>1. DriveTypeOK' /\ TargetIsPath' /\ LuksTypeOK'
  BY DriveResetType, LuksResetType DEF ProcessEnds
<1>2. AssignmentTypeOK'
  BY DEF ProcessEnds, BeginScan, AssignmentTypeOK
<1>3. CollectorsTypeOK'
  BY EmptySeq DEF ProcessEnds, CollectorsReset, CollectorsTypeOK
<1>4. NoEvent \in Batch /\ <<>> \in Seq(Drives)
  BY EmptySeq DEF NoEvent, Event, Batch, Kinds
<1> QED BY <1>1, <1>2, <1>3, <1>4
        DEF ProcessEnds, DriveReset, TypeInv, TypeOK, JobHasDrive, Phases

(* Where a drive is worked on, Current is a drive.                          *)
LEMMA CurrentType ==
  ASSUME TypeInv, op # "idle" \/ InPass
  PROVE  Current \in Drives
<1>1. CASE phase = "handle" /\ batch.devs # <<>>
  BY <1>1, HeadTailProperties DEF Current, TypeInv, TypeOK, Batch
<1>2. CASE InPass
  BY <1>2, ElementOfSeq, LenProperties DEF Current, InPass, TypeInv, TypeOK
<1> QED BY <1>1, <1>2 DEF TypeInv, JobHasDrive

(* The event at the head of a batch is about a drive.                       *)
LEMMA EventType ==
  ASSUME TypeInv, phase = "handle", batch.devs # <<>>
  PROVE  /\ Head(batch.devs) \in Drives
         /\ [batch EXCEPT !.devs = Tail(@)] \in Batch
<1>1. batch.devs \in Seq(Drives)
  BY DEF TypeInv, TypeOK, Batch
<1>2. Head(batch.devs) \in Drives /\ Tail(batch.devs) \in Seq(Drives)
  BY <1>1, HeadTailProperties
<1> QED BY <1>2 DEF TypeInv, TypeOK, Batch

(* The event handlers keep TypeInv.                                         *)
LEMMA HandlerType ==
  ASSUME TypeInv,
         HandleAdded \/ HandleReinstated \/ HandleRemoved \/ HandleError \/ HandleUnknown
  PROVE  TypeInv'
<1> USE DEF TypeInv, TypeOK, Handling
<1> DEFINE d == Head(batch.devs)
<1>1. phase = "handle" /\ op \in Ops /\ batch.devs # <<>>
  BY DEF HandleAdded, HandleReinstated, HandleRemoved, HandleError, HandleUnknown, DriveTypeOK
<1>2. d \in Drives /\ [batch EXCEPT !.devs = Tail(@)] \in Batch
  BY <1>1, EventType
<1> HIDE DEF d
<1>3. CASE HandleAdded
  <2>1. NewDevice(d) /\ drives' = Append(drives, d)
    BY <1>3 DEF HandleAdded, d
  <2>2. drives' \in Seq(Drives)
    BY <1>2, <2>1, AppendProperties
  <2>3. HostTypeOK'
    BY <1>2, <1>3, <2>1, NewDeviceType DEF HandleAdded, HostTypeOK, disks
  <2>4. DriveTypeOK' /\ TargetIsPath'
    BY <1>2, <1>3, <2>1, NewDeviceType DEF HandleAdded, DriveTypeOK, TargetIsPath, Ops
  <2>5. LuksTypeOK'
    BY <1>2, <2>1, NewDeviceLuksType
  <2> QED BY <1>1, <1>3, <2>2, <2>3, <2>4, <2>5 DEF HandleAdded, AssignmentTypeOK, assignVars,
          CollectorsTypeOK, collectorVars, JobHasDrive
<1>4. CASE HandleReinstated
  <2>1. NewDevice(d)
    BY <1>4 DEF HandleReinstated, d
  <2>2. HostTypeOK'
    BY <1>2, <1>4, <2>1, NewDeviceType DEF HandleReinstated, HostTypeOK, disks
  <2>3. DriveTypeOK' /\ TargetIsPath'
    BY <1>2, <1>4, <2>1, NewDeviceType DEF HandleReinstated, DriveTypeOK, TargetIsPath, Ops
  <2>4. LuksTypeOK'
    BY <1>2, <2>1, NewDeviceLuksType
  <2> QED BY <1>1, <1>4, <2>2, <2>3, <2>4 DEF HandleReinstated, AssignmentTypeOK, assignVars,
          CollectorsTypeOK, collectorVars, ctlVars, JobHasDrive
<1>5. CASE HandleRemoved
  <2>3. LuksTypeOK'
    BY <1>5 DEF HandleRemoved, LuksTypeOK, luksVars
  <2>1. CASE Teardown(d)
    <3>1. HostTypeOK' /\ DriveTypeOK' /\ TargetIsPath'
      BY <1>2, <1>5, <2>1, TeardownInv DEF HandleRemoved, DriveInv
    <3> QED BY <1>1, <1>5, <2>3, <3>1 DEF HandleRemoved, AssignmentTypeOK, assignVars,
            CollectorsTypeOK, collectorVars, ctlVars, JobHasDrive
  <2>2. CASE ~Teardown(d)
    <3>1. op' = "done" /\ UNCHANGED <<scope, todo, target>>
      BY <1>5, <2>2 DEF HandleRemoved, d
    <3>2. HostTypeOK'
      BY <1>5 DEF HandleRemoved, HostTypeOK, hostVars, disks, flags
    <3>3. DriveTypeOK' /\ TargetIsPath'
      BY <1>5, <3>1 DEF HandleRemoved, DriveTypeOK, TargetIsPath, Ops, fields
    <3> QED BY <1>1, <1>5, <2>3, <3>2, <3>3 DEF HandleRemoved, AssignmentTypeOK, assignVars,
            CollectorsTypeOK, collectorVars, ctlVars, JobHasDrive
  <2> QED BY <2>1, <2>2
<1>6. CASE HandleError
  <2>1. MarkAsBroken(d) /\ batch' = [batch EXCEPT !.devs = Tail(@)] /\ op = "idle"
    BY <1>6 DEF HandleError, EventDone, d
  <2>2. HostTypeOK'
    BY <1>2, <1>6, <2>1, MarkAsBrokenType DEF HandleError, HostTypeOK, disks
  <2>3. DriveTypeOK' /\ TargetIsPath'
    BY <1>2, <1>6, <2>1, MarkAsBrokenType DEF HandleError, DriveTypeOK, TargetIsPath, job
  <2>4. LuksTypeOK'
    BY <1>6 DEF HandleError, LuksTypeOK, luksVars
  <2> QED BY <1>2, <1>6, <2>1, <2>2, <2>3, <2>4 DEF HandleError, AssignmentTypeOK, assignVars,
          CollectorsTypeOK, collectorVars, JobHasDrive, job
<1>7. CASE HandleUnknown
  <2>1. HostTypeOK'
    BY <1>7 DEF HandleUnknown, HostTypeOK, hostVars, disks, flags
  <2>2. DriveTypeOK' /\ TargetIsPath'
    BY <1>7 DEF HandleUnknown, DriveTypeOK, TargetIsPath, deviceVars, driveVars, fields, job
  <2>3. LuksTypeOK'
    BY <1>7 DEF HandleUnknown, LuksTypeOK, deviceVars, luksVars
  <2> QED BY <1>2, <1>7, <2>1, <2>2, <2>3 DEF HandleUnknown, EventDone, AssignmentTypeOK,
          assignVars, CollectorsTypeOK, collectorVars, JobHasDrive, deviceVars, driveVars, job
<1> QED BY <1>3, <1>4, <1>5, <1>6, <1>7

(* Setting a drive up and tearing it down keeps TypeInv.                    *)
LEMMA WorkType ==
  ASSUME TypeInv, ConvergeHealthy \/ ConvergeBroken \/ ConvergeUnreadable \/ Work
  PROVE  TypeInv'
<1> USE DEF TypeInv, TypeOK
<1>1. CASE ConvergeUnreadable
  <2>1. HostTypeOK'
    BY <1>1 DEF ConvergeUnreadable, HostTypeOK, hostVars, disks, flags
  <2> QED BY <1>1, <2>1, ProcessEndsType DEF ConvergeUnreadable
<1>2. CASE ConvergeHealthy \/ ConvergeBroken \/ Work
  <2>1. op # "idle" \/ InPass
    BY <1>2 DEF ConvergeHealthy, ConvergeBroken, ToConverge, Work, DeviceStep, XFSStep, Format,
                UnmountOther, OthersUnmounted, Mount, ClearPropagation, Announce, Umount,
                LUKSFormat, LUKSOpen, Descend, SetupInside, FilesystemTornDown, LUKSClose, GiveUp
  <2>2. Current \in Drives
    BY <2>1, CurrentType
  <2>3. DeviceInv'
    <3>1. CASE ConvergeBroken
      BY <2>2, <3>1, TeardownInv DEF ConvergeBroken, DeviceInv, DriveInv, LuksTypeOK, luksVars
    <3>2. CASE ConvergeHealthy \/ Work
      BY <2>2, <3>2, SetupType, DeviceStepType DEF ConvergeHealthy, Work, DeviceInv, DriveInv
    <3> QED BY <1>2, <3>1, <3>2
  <2>4. UNCHANGED <<assignVars, collectorVars, ctlVars>>
    BY <1>2 DEF ConvergeHealthy, ConvergeBroken, Work
  <2>5. (phase = "handle" /\ batch.devs # <<>>) \/ InPass
    BY <2>1 DEF JobHasDrive
  <2>6. AssignmentTypeOK' /\ CollectorsTypeOK'
    BY <2>4 DEF AssignmentTypeOK, assignVars, CollectorsTypeOK, collectorVars
  <2> QED BY <2>3, <2>4, <2>5, <2>6 DEF DeviceInv, DriveInv, ctlVars, JobHasDrive, InPass
<1> QED BY <1>1, <1>2

(* Both loops of UpdateDriveAssignments keep TypeInv.                       *)
LEMMA ScanAssignType ==
  ASSUME TypeInv, Scan \/ Assign
  PROVE  TypeInv'
<1> USE DEF TypeInv, TypeOK
<1>1. drives[at] \in Drives
  BY ElementOfSeq DEF Scan, Assign
<1>2. HostTypeOK' /\ DriveTypeOK' /\ LuksTypeOK' /\ AssignmentTypeOK' /\ TargetIsPath'
  BY <1>1, ScanDriveType, AssignDriveType DEF Scan, Assign
<1>3. op = "idle" /\ UNCHANGED op
  BY DEF Scan, Assign, ScanDrive, AssignDrive, job, JobHasDrive, InPass
<1>4. CollectorsTypeOK'
  BY DEF Scan, Assign, CollectorsTypeOK, collectorVars
<1> QED BY <1>2, <1>3, <1>4 DEF Scan, Assign, JobHasDrive

(* The steps between handlers, loops and passes keep TypeInv.               *)
LEMMA LoopType ==
  ASSUME TypeInv,
         \/ Receive \/ EventHandled \/ BeginConverge \/ NextDrive \/ EndPass1
         \/ EndScan \/ BeginPass2 \/ EndConverge
  PROVE  TypeInv'
<1> USE DEF TypeInv, TypeOK
<1>1. HostTypeOK'
  BY DEF Receive, EventHandled, BeginConverge, NextDrive, EndPass1, EndScan, BeginPass2,
         EndConverge, HostTypeOK, hostVars, disks, flags
<1>2. DriveTypeOK' /\ TargetIsPath'
  BY DEF Receive, RefreshMountPoints, EventHandled, BeginConverge, NextDrive, EndPass1, EndScan,
         BeginPass2, EndConverge, HostTypeOK, DriveTypeOK, TargetIsPath, deviceVars, driveVars,
         fields, job, Ops, Scopes
<1>3. AssignmentTypeOK'
  <2>1. CASE BeginScan
    BY <2>1 DEF BeginScan, AssignmentTypeOK
  <2>2. CASE EndAssign
    BY <2>2 DEF EndAssign, AssignmentTypeOK
  <2>3. CASE UNCHANGED assignVars
    BY <2>3 DEF AssignmentTypeOK, assignVars
  <2> QED BY <2>1, <2>2, <2>3 DEF Receive, EventHandled, BeginConverge, NextDrive, EndPass1,
          EndScan, BeginPass2, EndConverge
<1>4. NoEvent \in Batch
  BY EmptySeq DEF NoEvent, Event, Batch, Kinds
<1>9. LuksTypeOK'
  BY RefreshLUKSMappingsType
     DEF Receive, EventHandled, BeginConverge, NextDrive, EndPass1, EndScan, BeginPass2,
         EndConverge, LuksTypeOK, deviceVars, luksVars
<1>5. CASE Receive
  <2>1. Head(queue) \in Batch /\ Tail(queue) \in Seq(Batch)
    BY <1>5, HeadTailProperties DEF Receive, CollectorsTypeOK
  <2>2. op = "idle" /\ UNCHANGED op
    BY <1>5 DEF Receive, job, JobHasDrive, InPass
  <2> QED BY <1>1, <1>2, <1>3, <1>5, <1>9, <2>1, <2>2
          DEF Receive, CollectorsTypeOK, Phases, JobHasDrive
<1>6. CASE EventHandled
  <2>1. phase = "handle" /\ batch.devs # <<>>
    BY <1>6 DEF EventHandled, JobHasDrive, InPass
  <2>2. batch' \in Batch
    BY <1>6, <2>1, EventType DEF EventHandled, EventDone
  <2>3. drives' \in Seq(Drives)
    BY <1>6, RemovedType DEF EventHandled
  <2> QED BY <1>1, <1>2, <1>3, <1>6, <1>9, <2>2, <2>3
          DEF EventHandled, CollectorsTypeOK, collectorVars, JobHasDrive
<1>7. CASE BeginConverge \/ EndPass1 \/ EndScan \/ BeginPass2 \/ EndConverge
  <2>1. op = "idle" /\ UNCHANGED op
    BY <1>7 DEF BeginConverge, EndPass1, EndScan, BeginPass2, EndConverge, deviceVars,
                driveVars, job, JobHasDrive, InPass
  <2>2. phase' \in Phases /\ drives' = drives /\ batch' \in Batch /\ at' = 1
    BY <1>4, <1>7 DEF BeginConverge, EndPass1, EndScan, BeginPass2, EndConverge, Phases
  <2>3. CollectorsTypeOK'
    BY <1>7 DEF BeginConverge, EndPass1, EndScan, BeginPass2, EndConverge, CollectorsTypeOK,
                collectorVars
  <2> QED BY <1>1, <1>2, <1>3, <1>9, <2>1, <2>2, <2>3 DEF JobHasDrive
<1>8. CASE NextDrive
  BY <1>1, <1>2, <1>3, <1>8, <1>9 DEF NextDrive, CollectorsTypeOK, collectorVars, JobHasDrive
<1> QED BY <1>5, <1>6, <1>7, <1>8

(* Every step of the converger thread keeps TypeInv.                        *)
LEMMA ConvergerType ==
  ASSUME TypeInv, Converger
  PROVE  TypeInv'
BY HandlerType, WorkType, ScanAssignType, LoopType DEF Converger

(* Every other step keeps TypeInv.                                          *)
LEMMA OutsideType ==
  ASSUME TypeInv, CollectorStep \/ NoDrivesFound \/ Restart \/ Environment
  PROVE  TypeInv'
<1> USE DEF TypeInv, TypeOK
<1>1. CASE CollectorStep
  <2>1. HostTypeOK' /\ DriveTypeOK' /\ LuksTypeOK' /\ TargetIsPath' /\ AssignmentTypeOK'
    BY <1>1 DEF CollectorStep, HostTypeOK, hostVars, disks, flags, DriveTypeOK, deviceVars,
       driveVars, fields, job, LuksTypeOK, luksVars, TargetIsPath, AssignmentTypeOK, assignVars
  <2>2. CollectorsTypeOK'
    BY <1>1, CollectType DEF CollectorStep
  <2> QED BY <1>1, <2>1, <2>2
      DEF CollectorStep, ctlVars, deviceVars, driveVars, job, JobHasDrive, InPass
<1>2. CASE NoDrivesFound
  <2>1. HostTypeOK'
    BY <1>2 DEF NoDrivesFound, HostTypeOK, hostVars, disks, flags
  <2> QED BY <1>2, <2>1, ProcessEndsType DEF NoDrivesFound
<1>3. CASE Restart
  <2>1. /\ HostTypeOK' /\ DriveTypeOK' /\ LuksTypeOK' /\ TargetIsPath'
        /\ AssignmentTypeOK' /\ CollectorsTypeOK'
    BY <1>3 DEF Restart, HostTypeOK, hostVars, disks, flags, DriveTypeOK, deviceVars, driveVars,
       fields, job, LuksTypeOK, luksVars, TargetIsPath, AssignmentTypeOK, assignVars,
       CollectorsTypeOK, collectorVars
  <2>2. op = "idle" /\ UNCHANGED op
    BY <1>3 DEF Restart, deviceVars, driveVars, job, JobHasDrive, InPass
  <2> QED BY <1>3, <2>1, <2>2 DEF Restart, Phases, JobHasDrive
<1>4. CASE Environment
  <2>1. CASE HostUpset /\ UNCHANGED <<deviceVars, assignVars, collectorVars, ctlVars>>
    <3>1. HostTypeOK'
      BY <2>1, HostUpsetType
    <3>2. /\ DriveTypeOK' /\ LuksTypeOK' /\ TargetIsPath'
          /\ AssignmentTypeOK' /\ CollectorsTypeOK'
      BY <2>1 DEF DriveTypeOK, deviceVars, driveVars, fields, job, LuksTypeOK, luksVars,
         TargetIsPath, AssignmentTypeOK, assignVars, CollectorsTypeOK, collectorVars
    <3> QED BY <2>1, <3>1, <3>2 DEF ctlVars, deviceVars, driveVars, job, JobHasDrive, InPass
  <2>2. CASE LogError
    <3>1. HostTypeOK'
      BY <2>2 DEF LogError, Upset, HostTypeOK, disks, flags
    <3>2. DriveTypeOK' /\ LuksTypeOK' /\ TargetIsPath' /\ AssignmentTypeOK'
      BY <2>2 DEF LogError, DriveTypeOK, deviceVars, driveVars, fields, job, LuksTypeOK,
         luksVars, TargetIsPath, AssignmentTypeOK, assignVars
    <3>3. CollectorsTypeOK'
      BY <2>2, SendDriveErrorType DEF LogError
    <3> QED BY <2>2, <3>1, <3>2, <3>3
        DEF LogError, ctlVars, deviceVars, driveVars, job, JobHasDrive, InPass
  <2>3. CASE Crash
    <3>1. HostTypeOK'
      BY <2>3 DEF Crash, Upset, HostTypeOK, disks, flags
    <3> QED BY <2>3, <3>1, ProcessEndsType DEF Crash
  <2>4. CASE Reboot
    <3>1. HostTypeOK'
      BY <2>4, HostRebootType DEF Reboot, Upset, HostTypeOK
    <3> QED BY <2>4, <3>1, ProcessEndsType DEF Reboot
  <2> QED BY <1>4, <2>1, <2>2, <2>3, <2>4 DEF Environment
<1> QED BY <1>1, <1>2, <1>3, <1>4

(* Stuttering keeps TypeInv.                                                *)
LEMMA StutterType ==
  ASSUME TypeInv, UNCHANGED vars
  PROVE  TypeInv'
<1> USE DEF TypeInv, TypeOK, vars
<1>1. /\ HostTypeOK' /\ DriveTypeOK' /\ LuksTypeOK' /\ TargetIsPath'
      /\ AssignmentTypeOK' /\ CollectorsTypeOK'
  BY DEF HostTypeOK, hostVars, disks, flags, DriveTypeOK, deviceVars, driveVars, fields, job,
     LuksTypeOK, luksVars, TargetIsPath, AssignmentTypeOK, assignVars, CollectorsTypeOK,
     collectorVars
<1> QED BY <1>1 DEF ctlVars, deviceVars, driveVars, job, JobHasDrive, InPass

(* Every variable keeps its type, whatever the constants are: no loop runs  *)
(* past the end of a list, no command gets the empty path, and no drive is  *)
(* worked on that the program has not been told of.                         *)
THEOREM TypeCorrect == Spec => []TypeOK
<1>1. Init => TypeInv
  BY InitType
<1>2. TypeInv /\ [Next]_vars => TypeInv'
  BY ConvergerType, OutsideType, StutterType DEF Next
<1>3. TypeInv => TypeOK
  BY DEF TypeInv
<1> QED BY <1>1, <1>2, <1>3, PTL DEF Spec

-----------------------------------------------------------------------------
(* UniqueAssignments is not inductive: it takes what the locals of the      *)
(* function know.  During the scan, drivesBySwiftID leads from every valid  *)
(* id back to its drive; and until the last drive has been given an id, all *)
(* valid ids are known as taken.                                            *)
ScanRecorded ==
  phase = "scan" =>
    \A d \in scanned : Valid(d) => drivesBySwiftID[assignment[d].id] = d

IDsTaken ==
  phase \in {"scan", "assign"} =>
    \A d \in scanned : Valid(d) => <<assignment[d].id, 0>> \in taken

UniqueInv == TypeInv /\ UniqueAssignments /\ ScanRecorded /\ IDsTaken

(* A step that forgets assignments, if anything, and leaves the locals alone. *)
LEMMA UniqueIfOnlyLost ==
  ASSUME UniqueInv, UNCHANGED <<drivesBySwiftID, taken, scanned>>,
         \A d \in Drives : assignment'[d] = assignment[d] \/ assignment'[d] = Nil,
         phase' = "scan" => phase = "scan",
         phase' = "assign" => phase \in {"scan", "assign"}
  PROVE  UniqueAssignments' /\ ScanRecorded' /\ IDsTaken'
<1>1. scanned \subseteq Drives
  BY DEF UniqueInv, TypeInv, TypeOK, AssignmentTypeOK
<1>2. \A d \in Drives : Valid(d)' => Valid(d) /\ assignment'[d] = assignment[d]
  BY DEF Valid, Nil
<1>3. UniqueAssignments'
  BY <1>1, <1>2 DEF UniqueInv, UniqueAssignments
<1>4. ScanRecorded'
  BY <1>1, <1>2 DEF UniqueInv, ScanRecorded
<1>5. IDsTaken'
  BY <1>1, <1>2 DEF UniqueInv, IDsTaken
<1> QED BY <1>3, <1>4, <1>5

(* A step that begins a new call, or ends the process. *)
LEMMA UniqueIfNoneScanned ==
  ASSUME scanned' = {}
  PROVE  UniqueAssignments' /\ ScanRecorded' /\ IDsTaken'
BY DEF UniqueAssignments, ScanRecorded, IDsTaken

(* An iteration of the scan keeps the parts of UniqueInv.                   *)
LEMMA ScanUnique ==
  ASSUME UniqueInv, Scan
  PROVE  UniqueAssignments' /\ ScanRecorded' /\ IDsTaken'
<1>1. PICK d \in Drives : d = drives[at]
  BY ElementOfSeq DEF Scan, UniqueInv, TypeInv, TypeOK
<1>2. /\ phase = "scan" /\ phase' = "scan" /\ scanned \subseteq Drives
      /\ ScanDrive(d, HasBrokenDrives)
      /\ assignment \in [Drives -> Assignments]
      /\ drivesBySwiftID \in [IDs -> Drives \cup {NoDrive}]
      /\ \A e \in scanned : Valid(e) => /\ drivesBySwiftID[assignment[e].id] = e
                                       /\ <<assignment[e].id, 0>> \in taken
  BY <1>1 DEF Scan, UniqueInv, TypeInv, TypeOK, DriveTypeOK, AssignmentTypeOK, ScanRecorded,
              IDsTaken
<1>3. NoDrive \notin Drives
  BY HostAssumption DEF NoDrive
<1>4. ASSUME \A e \in scanned' : Valid(e)' =>
               /\ drivesBySwiftID'[assignment'[e].id] = e
               /\ <<assignment'[e].id, 0>> \in taken'
      PROVE  UniqueAssignments' /\ ScanRecorded' /\ IDsTaken'
  BY <1>4 DEF UniqueAssignments, ScanRecorded, IDsTaken
<1>5. CASE SkipDrive(d)
  BY <1>2, <1>4, <1>5 DEF SkipDrive, Valid
<1>6. CASE FindUnassigned(d, HasBrokenDrives) \/ FindSpare(d)
  <2>1. /\ scanned' = scanned \cup {d} /\ UNCHANGED drivesBySwiftID /\ taken \subseteq taken'
        /\ \E a \in {Assigned(Spare), Invalid(NoID, "missing"), Invalid(NoID, "blocked"),
                     Invalid(NoID, "pending")} : assignment' = [assignment EXCEPT ![d] = a]
    BY <1>6 DEF FindUnassigned, FindSpare, ReadWorks, Apply, Claim
  <2>2. ~Valid(d)'
    BY <1>1, <1>2, <2>1 DEF Valid, Assigned, Invalid
  <2>3. \A e \in scanned \ {d} : assignment'[e] = assignment[e]
    BY <1>1, <1>2, <2>1
  <2> QED BY <1>2, <1>4, <2>1, <2>2, <2>3 DEF Valid
<1>7. CASE FindID(d)
  <2>1. PICK id \in IDs : FindID(d)!2!(id)
    BY <1>7 DEF FindID
  <2>2. scanned' = scanned \cup {d} /\ taken' = taken \cup {<<id, 0>>}
    BY <1>7, <2>1 DEF FindID, ReadWorks, Claim
  <2>3. CASE Collides(id)
    <3>1. /\ UNCHANGED drivesBySwiftID
          /\ assignment' = [assignment EXCEPT ![d] = Invalid(id, "duplicate"),
                             ![drivesBySwiftID[id]] = Invalid(id, "duplicate")]
      BY <2>1, <2>3
    <3>2. \A e \in Drives : Valid(e)' => assignment'[e] = assignment[e] /\ e # d
      BY <1>1, <1>2, <3>1 DEF Valid, Invalid
    <3> QED BY <1>2, <1>4, <2>2, <3>1, <3>2 DEF Valid
  <2>4. CASE ~Collides(id)
    <3>1. /\ drivesBySwiftID[id] = NoDrive
          /\ drivesBySwiftID' = [drivesBySwiftID EXCEPT ![id] = d]
          /\ assignment' = [assignment EXCEPT
               ![d] = IF Mismatch(d, id) THEN Invalid(id, "mismatch") ELSE Assigned(id)]
      BY <2>1, <2>4 DEF Apply, Collides
    <3>2. ASSUME NEW e \in scanned', Valid(e)'
          PROVE  /\ drivesBySwiftID'[assignment'[e].id] = e
                 /\ <<assignment'[e].id, 0>> \in taken'
      <4>1. CASE e = d
        <5>1. assignment'[d] = Assigned(id)
          BY <1>1, <1>2, <3>1, <3>2, <4>1 DEF Valid, Invalid
        <5> QED BY <1>2, <2>2, <3>1, <4>1, <5>1 DEF Assigned
      <4>2. CASE e # d
        <5>1. e \in scanned /\ e \in Drives /\ assignment'[e] = assignment[e]
          BY <1>2, <2>2, <3>1, <3>2, <4>2
        <5>2. Valid(e) /\ drivesBySwiftID[assignment[e].id] = e
              /\ <<assignment[e].id, 0>> \in taken
          BY <1>2, <3>2, <5>1 DEF Valid
        <5>3. assignment[e].id # id
          BY <1>3, <3>1, <5>1, <5>2
        <5> QED BY <1>2, <2>2, <3>1, <5>1, <5>2, <5>3
      <4> QED BY <4>1, <4>2
    <3> QED BY <1>4, <3>2
  <2> QED BY <2>3, <2>4
<1> QED BY <1>2, <1>5, <1>6, <1>7 DEF ScanDrive

(* An iteration of the auto-assignment keeps the parts of UniqueInv.        *)
LEMMA AssignUnique ==
  ASSUME UniqueInv, Assign
  PROVE  UniqueAssignments' /\ ScanRecorded' /\ IDsTaken'
<1>1. PICK d \in Drives : d = drives[at]
  BY ElementOfSeq DEF Assign, UniqueInv, TypeInv, TypeOK
<1>2. /\ phase = "assign" /\ phase' = "assign" /\ scanned \subseteq Drives
      /\ AssignDrive(d)
      /\ assignment \in [Drives -> Assignments]
      /\ \A e \in scanned : Valid(e) => <<assignment[e].id, 0>> \in taken
  BY <1>1 DEF Assign, UniqueInv, TypeInv, TypeOK, DriveTypeOK, AssignmentTypeOK, IDsTaken
<1>3. ScanRecorded'
  BY <1>2 DEF ScanRecorded
<1>4. CASE UNCHANGED <<assignment, taken, scanned>>
  <2>1. \A e \in scanned : Valid(e)' => Valid(e)
    BY <1>4 DEF Valid
  <2> QED BY <1>2, <1>3, <1>4, <2>1 DEF UniqueInv, UniqueAssignments, IDsTaken, Valid
<1>5. CASE ~UNCHANGED <<assignment, taken, scanned>>
  <2>1. AssignID(d)
    BY <1>2, <1>5 DEF AssignDrive, PassOver
  <2>2. PICK k \in DOMAIN Pool :
          /\ FirstFree(k)
          /\ taken' = taken \cup {PoolName(k)} /\ scanned' = scanned \cup {d}
          /\ assignment' = [assignment EXCEPT ![d] = Assigned(Pool[k])]
    BY <1>5, <2>1 DEF AssignID, WriteFails, Claim, Apply
  <2>3. PoolName(k) \notin taken
    BY <2>2 DEF FirstFree, Free
  <2>4. \A e \in scanned \ {d} : assignment'[e] = assignment[e] /\ (Valid(e)' <=> Valid(e))
    BY <1>2, <2>2 DEF Valid
  <2>5. Valid(d)' => assignment'[d].id = Pool[k] /\ PoolName(k) = <<Pool[k], 0>>
    BY <1>1, <1>2, <2>2 DEF Valid, Assigned, PoolName
  <2>6. \A e \in scanned \ {d} : Valid(e)' /\ Valid(d)' => assignment'[e].id # assignment'[d].id
    BY <1>2, <2>3, <2>4, <2>5
  <2>7. UniqueAssignments'
    BY <2>2, <2>4, <2>6 DEF UniqueInv, UniqueAssignments
  <2>8. IDsTaken'
    BY <1>2, <2>2, <2>4, <2>5 DEF IDsTaken
  <2> QED BY <1>3, <2>7, <2>8
<1> QED BY <1>4, <1>5

(* The converger's other steps, which only ever reset assignments.          *)
LEMMA ConvergerUnique ==
  ASSUME UniqueInv, Converger
  PROVE  UniqueAssignments' /\ ScanRecorded' /\ IDsTaken'
<1>1. CASE Scan \/ Assign
  BY <1>1, ScanUnique, AssignUnique
<1>2. CASE ConvergeUnreadable \/ EndPass1
  BY <1>2, UniqueIfNoneScanned DEF ConvergeUnreadable, ProcessEnds, EndPass1, BeginScan
<1>3. CASE EndConverge
  <2>1. phase' = "wait" /\ scanned' = scanned /\ assignment' = assignment
    BY <1>3 DEF EndConverge, EndAssign, deviceVars, driveVars, fields
  <2> QED BY <2>1 DEF UniqueInv, UniqueAssignments, ScanRecorded, IDsTaken, Valid
<1>4. CASE \/ Receive \/ HandleAdded \/ HandleReinstated \/ HandleRemoved \/ HandleError
           \/ HandleUnknown \/ EventHandled \/ BeginConverge \/ ConvergeHealthy
           \/ ConvergeBroken \/ Work \/ NextDrive \/ EndScan \/ BeginPass2
  <2>1. UNCHANGED <<drivesBySwiftID, taken, scanned>>
    BY <1>4 DEF Receive, HandleAdded, HandleReinstated, HandleRemoved, HandleError,
       HandleUnknown, EventHandled, BeginConverge, ConvergeHealthy, ConvergeBroken, Work,
       NextDrive, EndScan, BeginPass2, assignVars
  <2>2. /\ phase' = "scan" => phase = "scan"
        /\ phase' = "assign" => phase \in {"scan", "assign"}
    BY <1>4 DEF Receive, HandleAdded, HandleReinstated, HandleRemoved, HandleError,
       HandleUnknown, EventHandled, BeginConverge, ConvergeHealthy, ConvergeBroken, Work,
       NextDrive, EndScan, BeginPass2, ctlVars
  <2>3. \A d : [assignment EXCEPT ![d] = Nil] \in
                  {f \in [Drives -> Assignments \cup {Nil}] :
                     \A e \in Drives : f[e] = assignment[e] \/ f[e] = Nil}
    BY DEF UniqueInv, TypeInv, TypeOK, DriveTypeOK
  <2>4. \/ assignment' = assignment
        \/ \E d : assignment' = [assignment EXCEPT ![d] = Nil]
    <3>1. CASE Work
      BY <3>1 DEF Work, DeviceStep, XFSStep, Format, UnmountOther, OthersUnmounted, Mount,
         ClearPropagation, Announce, Umount, LUKSFormat, LUKSOpen, Descend, SetupInside,
         BeginSetup, FilesystemTornDown, TornDown, LUKSClose, GiveUp, MarkAsBroken, fields
    <3>2. CASE ConvergeHealthy
      BY <3>2 DEF ConvergeHealthy, Setup, BeginLUKSSetup, BeginSetup
    <3>3. CASE HandleAdded \/ HandleReinstated \/ HandleError
      BY <3>3 DEF HandleAdded, HandleReinstated, NewDevice, NewDrive, HandleError, MarkAsBroken
    <3>4. CASE ~(Work \/ ConvergeHealthy \/ HandleAdded \/ HandleReinstated \/ HandleError)
      BY <1>4, <3>4 DEF Receive, HandleRemoved, HandleUnknown, EventHandled, BeginConverge,
         ConvergeBroken, NextDrive, EndScan, BeginPass2, deviceVars, driveVars, fields
    <3> QED BY <3>1, <3>2, <3>3, <3>4
  <2>5. \A d \in Drives : assignment'[d] = assignment[d] \/ assignment'[d] = Nil
    BY <2>3, <2>4
  <2> QED BY <2>1, <2>2, <2>5, UniqueIfOnlyLost
<1> QED BY <1>1, <1>2, <1>3, <1>4 DEF Converger

(* The steps of all others keep the parts of UniqueInv.                     *)
LEMMA OutsideUnique ==
  ASSUME UniqueInv, CollectorStep \/ NoDrivesFound \/ Restart \/ Environment \/ UNCHANGED vars
  PROVE  UniqueAssignments' /\ ScanRecorded' /\ IDsTaken'
<1>1. CASE ProcessEnds
  BY <1>1, UniqueIfNoneScanned DEF ProcessEnds, BeginScan
<1>2. CASE ~ProcessEnds
  <2>1. UNCHANGED <<drivesBySwiftID, taken, scanned, assignment>>
    BY <1>2 DEF CollectorStep, NoDrivesFound, Restart, Environment, LogError, Crash, Reboot,
                vars, assignVars, deviceVars, driveVars, fields
  <2>2. phase' = phase \/ phase' = "wait"
    BY <1>2 DEF CollectorStep, NoDrivesFound, Restart, Environment, LogError, Crash, Reboot,
                vars, ctlVars
  <2> QED BY <2>1, <2>2, UniqueIfOnlyLost
<1> QED BY <1>1, <1>2

(* No two drives that one update of the assignments has looked at are       *)
(* assigned to the same swift-id, whatever is read from the disks, whatever *)
(* fails, whichever drives are lost while the update runs, and however many *)
(* times a drive is listed.                                                 *)
THEOREM AssignmentsUnique == Spec => []UniqueAssignments
<1>1. Init => UniqueInv
  <2>1. Init => scanned = {}
    BY DEF Init, AssignmentInit
  <2> QED BY <2>1, InitType DEF UniqueInv, UniqueAssignments, ScanRecorded, IDsTaken
<1>2. UniqueInv /\ [Next]_vars => UniqueInv'
  <2>1. UniqueInv /\ [Next]_vars => TypeInv'
    BY ConvergerType, OutsideType, StutterType DEF Next, UniqueInv
  <2>2. UniqueInv /\ [Next]_vars => UniqueAssignments' /\ ScanRecorded' /\ IDsTaken'
    BY ConvergerUnique, OutsideUnique DEF Next
  <2> QED BY <2>1, <2>2 DEF UniqueInv
<1>3. UniqueInv => UniqueAssignments
  BY DEF UniqueInv
<1> QED BY <1>1, <1>2, <1>3, PTL DEF Spec
=============================================================================

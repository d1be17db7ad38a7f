---------------------------- MODULE DeviceProofs ----------------------------
(***************************************************************************)
(* Type correctness of what the converger does to a drive: the steps of    *)
(* module Drive on top of module Host, and those of module Luks around     *)
(* them.  DeviceInv is kept by every step of a setup or a teardown; besides *)
(* the types, it says that no command is given the empty path.             *)
(***************************************************************************)
EXTENDS Luks, ListLemmas

TargetIsPath == op \in {"format", "unmount", "mount", "umount"} => target \in Paths

DriveInv == HostTypeOK /\ DriveTypeOK /\ TargetIsPath

-----------------------------------------------------------------------------
(* The entries of a mount table at a path are entries of the table.         *)
LEMMA OnPathBounds ==
  ASSUME NEW tbl \in Seq(MountPoint), NEW p
  PROVE  /\ OnPath(tbl, p) \in SUBSET Nat
         /\ OnPath(tbl, p) \in SUBSET (0 .. Len(tbl))
         /\ Len(tbl) \in Nat
         /\ \A i \in OnPath(tbl, p) : i \in 1 .. Len(tbl)
BY LenProperties DEF OnPath

(* The newest mount at a path where something is mounted is an entry.       *)
LEMMA NewestType ==
  ASSUME NEW tbl \in Seq(MountPoint), NEW p, OnPath(tbl, p) # {}
  PROVE  Newest(tbl, p) \in 1 .. Len(tbl) /\ tbl[Newest(tbl, p)].dev \in Drives
<1>1. \E i \in OnPath(tbl, p) : \A j \in OnPath(tbl, p) : j <= i
  BY OnPathBounds, GreatestExists
<1>2. Newest(tbl, p) \in OnPath(tbl, p)
  BY <1>1 DEF Newest
<1>3. Newest(tbl, p) \in 1 .. Len(tbl)
  BY <1>2, OnPathBounds
<1>4. tbl[Newest(tbl, p)] \in MountPoint
  BY <1>3, ElementOfSeq
<1> QED BY <1>3, <1>4 DEF MountPoint

(* `umount` leaves a mount table behind.                                    *)
LEMMA UnmountedType ==
  ASSUME NEW tbl \in Seq(MountPoint), NEW p
  PROVE  Unmounted(tbl, p) \in Seq(MountPoint)
BY NewestType, RemoveAtType DEF Unmounted

(* removeMountPoint leaves a mount table behind.                            *)
LEMMA RemoveMountPointType ==
  ASSUME NEW tbl \in Seq(MountPoint), NEW p
  PROVE  RemoveMountPoint(tbl, p) \in Seq(MountPoint)
<1>1. CASE OnPath(tbl, p) = {}
  BY <1>1 DEF RemoveMountPoint
<1>2. CASE OnPath(tbl, p) # {}
  <2>1. \E i \in OnPath(tbl, p) : \A j \in OnPath(tbl, p) : i <= j
    BY <1>2, OnPathBounds, LeastExists
  <2> DEFINE i == CHOOSE i \in OnPath(tbl, p) : \A j \in OnPath(tbl, p) : i <= j
  <2>2. i \in OnPath(tbl, p)
    BY <2>1
  <2>3. i \in 1 .. Len(tbl)
    BY <2>2, OnPathBounds
  <2> HIDE DEF i
  <2>4. RemoveAt(tbl, i) \in Seq(MountPoint)
    BY <2>3, RemoveAtType
  <2> QED BY <1>2, <2>4 DEF RemoveMountPoint, i
<1> QED BY <1>1, <1>2

(* `mount` on a path leaves mount tables behind.                            *)
LEMMA KernelMountType ==
  ASSUME mounts \in [Scopes -> Seq(MountPoint)],
         NEW d \in Drives, NEW p \in Paths, NEW s \in Scopes, KernelMount(d, p, s)
  PROVE  mounts' \in [Scopes -> Seq(MountPoint)]
<1>1. [dev |-> d, path |-> p, ro |-> FALSE] \in MountPoint
  BY DEF MountPoint
<1>2. \A t \in Scopes :
        Append(mounts[t], [dev |-> d, path |-> p, ro |-> FALSE]) \in Seq(MountPoint)
  BY <1>1, AppendProperties
<1> QED BY <1>2 DEF KernelMount

(* `umount` leaves mount tables behind in all scopes.                       *)
LEMMA KernelUmountType ==
  ASSUME mounts \in [Scopes -> Seq(MountPoint)], NEW p, NEW s, KernelUmount(p, s)
  PROVE  mounts' \in [Scopes -> Seq(MountPoint)]
BY UnmountedType DEF KernelUmount

(* MountDevice keeps the types of the tables, the cached ones included.     *)
LEMMA MountDeviceType ==
  ASSUME HostTypeOK, DriveTypeOK,
         NEW d \in Drives, NEW p \in Paths, NEW s \in Scopes, MountDevice(d, p, s)
  PROVE  /\ mounts' \in [Scopes -> Seq(MountPoint)]
         /\ cache' \in [Scopes -> Seq(MountPoint)] /\ faults' \in Nat
<1>1. mounts \in [Scopes -> Seq(MountPoint)] /\ cache \in [Scopes -> Seq(MountPoint)]
      /\ faults \in Nat
  BY DEF HostTypeOK, DriveTypeOK
<1>2. [dev |-> d, path |-> p, ro |-> FALSE] \in MountPoint
  BY DEF MountPoint
<1>3. \A t \in Scopes :
        Append(cache[t], [dev |-> d, path |-> p, ro |-> FALSE]) \in Seq(MountPoint)
  BY <1>1, <1>2, AppendProperties
<1> QED BY <1>1, <1>3, KernelMountType DEF MountDevice

(* UnmountDevice keeps the types of the tables, the cached ones included.   *)
LEMMA UnmountDeviceType ==
  ASSUME HostTypeOK, DriveTypeOK, NEW p, NEW s, UnmountDevice(p, s)
  PROVE  /\ mounts' \in [Scopes -> Seq(MountPoint)]
         /\ cache' \in [Scopes -> Seq(MountPoint)] /\ faults' \in Nat
<1>1. mounts \in [Scopes -> Seq(MountPoint)] /\ cache \in [Scopes -> Seq(MountPoint)]
      /\ faults \in Nat
  BY DEF HostTypeOK, DriveTypeOK
<1>2. CASE OnPath(cache[s], p) = {}
  BY <1>1, <1>2 DEF UnmountDevice
<1>3. CASE OnPath(cache[s], p) # {}
  <2>1. mounts' \in [Scopes -> Seq(MountPoint)]
    BY <1>1, <1>3, KernelUmountType DEF UnmountDevice
  <2>2. cache' \in [Scopes -> Seq(MountPoint)]
    BY <1>1, <1>3, RemoveMountPointType DEF UnmountDevice
  <2> QED BY <1>1, <1>3, <2>1, <2>2 DEF UnmountDevice
<1> QED BY <1>2, <1>3

(* Failed commands are counted.                                             *)
LEMMA FaultType ==
  ASSUME faults \in Nat, NEW cmd, NEW possible, Fails(cmd, possible) \/ Fault(cmd)
  PROVE  faults' \in Nat
BY DEF Fails, Fault

(* A drive's cached mount points are paths.                                 *)
LEMMA GetMountPointsOfType ==
  ASSUME DriveTypeOK, NEW d, NEW s \in Scopes
  PROVE  GetMountPointsOf(d, s) \subseteq Paths
<1>1. \A i \in DOMAIN cache[s] : cache[s][i] \in MountPoint
  BY LenProperties, ElementOfSeq DEF DriveTypeOK
<1> QED BY <1>1 DEF GetMountPointsOf, MountsOf, MountPoint

(* A drive is never meant to be mounted at the empty path.                  *)
LEMMA DesiredPathType ==
  ASSUME NEW asg \in Assignments, NEW d \in Drives, NEW m \in Paths \cup {NoPath}
  PROVE  DesiredPath(asg, d, m) \in Paths
BY DEF DesiredPath, Assignments, Paths, SrvPaths

-----------------------------------------------------------------------------
(* What a drive is found to be mounted at is a path, or none.               *)
LEMMA DiscoverType ==
  ASSUME DriveTypeOK, NEW d, NEW s \in Scopes, NEW known \in Paths \cup {NoPath}
  PROVE  Discover(d, s, known) \in Paths \cup {NoPath}
<1>1. cache[s] \in Seq(MountPoint)
  BY DEF DriveTypeOK
<1>2. MountsOf(d, s) \in SUBSET (1 .. Len(cache[s])) /\ Len(cache[s]) \in Nat
  BY <1>1, LenProperties DEF MountsOf
<1>3. CASE MountsOf(d, s) # {}
  <2>1. \E i \in MountsOf(d, s) : \A j \in MountsOf(d, s) : i <= j
    BY <1>2, <1>3, LeastExists
  <2>2. Min(MountsOf(d, s)) \in 1 .. Len(cache[s])
    BY <1>2, <2>1 DEF Min
  <2>3. cache[s][Min(MountsOf(d, s))] \in MountPoint
    BY <1>1, <2>2, ElementOfSeq
  <2> QED BY <1>3, <2>3 DEF Discover, MountPoint
<1> QED BY <1>3 DEF Discover

(* Validate finds a path, or none.                                          *)
LEMMA ValidateType ==
  ASSUME DriveTypeOK, NEW d \in Drives
  PROVE  Validate(d).found \in Paths \cup {NoPath}
<1>1. mountPath[d] \in Paths \cup {NoPath}
  BY DEF DriveTypeOK
<1>2. Discover(d, "host", mountPath[d]) \in Paths \cup {NoPath}
  BY <1>1, DiscoverType DEF Scopes
<1>3. Discover(d, "local", Discover(d, "host", mountPath[d])) \in Paths \cup {NoPath}
  BY <1>2, DiscoverType DEF Scopes
<1> QED BY <1>2, <1>3 DEF Validate

(* The validation that begins a setup keeps DriveInv.                       *)
LEMMA BeginSetupType ==
  ASSUME DriveInv, NEW d \in Drives, BeginSetup(d)
  PROVE  DriveInv'
<1> USE DEF DriveInv
<1>1. HostTypeOK'
  BY DEF BeginSetup, HostTypeOK, hostVars, disks, flags
<1>2. Validate(d).found \in Paths \cup {NoPath}
  BY ValidateType
<1>3. mountPath' \in [Drives -> Paths \cup {NoPath}]
  BY <1>2 DEF BeginSetup, DriveTypeOK
<1>4. CASE Validate(d).ok
  <2>1. op' \in {"unmount", "format"} /\ target' \in Paths /\ scope' = "host"
    BY <1>2, <1>4, DesiredPathType DEF BeginSetup, VisitOthers, DriveTypeOK
  <2>2. todo' \subseteq Paths
    BY <1>4, GetMountPointsOfType DEF BeginSetup, VisitOthers, Scopes
  <2> QED BY <1>1, <1>3, <2>1, <2>2 DEF BeginSetup, DriveTypeOK, TargetIsPath, Ops, Scopes
<1>5. CASE ~Validate(d).ok
  BY <1>1, <1>3, <1>5 DEF BeginSetup, DriveTypeOK, TargetIsPath, Ops
<1> QED BY <1>4, <1>5

(* Formatting keeps DriveInv.                                               *)
LEMMA FormatType ==
  ASSUME DriveInv, NEW d \in Drives, Format(d)
  PROVE  DriveInv'
<1> USE DEF DriveInv
<1>1. faults' \in Nat
  BY FaultType DEF Format, HostTypeOK
<1>2. HostTypeOK'
  BY <1>1 DEF Format, HostTypeOK, flags
<1>3. DriveTypeOK' /\ TargetIsPath'
  BY DEF Format, DriveTypeOK, TargetIsPath, Ops
<1> QED BY <1>2, <1>3

(* Unmounting from another path than the desired one keeps DriveInv.        *)
LEMMA UnmountOtherType ==
  ASSUME DriveInv, NEW d \in Drives, UnmountOther(d)
  PROVE  DriveInv'
<1> USE DEF DriveInv
<1>1. PICK p \in todo :
        \/ UnmountDevice(p, scope) /\ todo' = todo \ {p} /\ UNCHANGED op
        \/ UnmountFails(p, scope) /\ op' = "fail" /\ UNCHANGED <<mounts, cache, todo>>
  BY DEF UnmountOther
<1>2. /\ mounts' \in [Scopes -> Seq(MountPoint)]
      /\ cache' \in [Scopes -> Seq(MountPoint)] /\ faults' \in Nat
  BY <1>1, UnmountDeviceType, FaultType DEF UnmountFails, HostTypeOK, DriveTypeOK
<1>3. HostTypeOK'
  BY <1>2 DEF UnmountOther, HostTypeOK, disks, flags
<1>4. DriveTypeOK' /\ TargetIsPath'
  BY <1>1, <1>2 DEF UnmountOther, DriveTypeOK, TargetIsPath, Ops, fields
<1> QED BY <1>3, <1>4

(* The end of that loop, in either scope, keeps DriveInv.                   *)
LEMMA OthersUnmountedType ==
  ASSUME DriveInv, NEW d \in Drives, OthersUnmounted(d)
  PROVE  DriveInv'
<1> USE DEF DriveInv
<1>1. HostTypeOK'
  BY DEF OthersUnmounted, HostTypeOK, hostVars, disks, flags
<1>2. todo' \subseteq Paths
  BY GetMountPointsOfType DEF OthersUnmounted, VisitOthers, Scopes, DriveTypeOK
<1>3. DriveTypeOK' /\ TargetIsPath'
  BY <1>2 DEF OthersUnmounted, VisitOthers, DriveTypeOK, TargetIsPath, Ops, Scopes
<1> QED BY <1>1, <1>3

(* Mounting keeps DriveInv.                                                 *)
LEMMA MountType ==
  ASSUME DriveInv, NEW d \in Drives, Mount(d)
  PROVE  DriveInv'
<1> USE DEF DriveInv
<1>1. target \in Paths /\ scope \in Scopes
  BY DEF Mount, TargetIsPath, DriveTypeOK
<1>2. /\ mounts' \in [Scopes -> Seq(MountPoint)]
      /\ cache' \in [Scopes -> Seq(MountPoint)] /\ faults' \in Nat
  BY <1>1, MountDeviceType, FaultType DEF Mount, MountFails, HostTypeOK, DriveTypeOK
<1>3. HostTypeOK'
  BY <1>2 DEF Mount, HostTypeOK, disks, flags
<1>4. DriveTypeOK' /\ TargetIsPath'
  BY <1>1, <1>2 DEF Mount, DriveTypeOK, TargetIsPath, Ops, Scopes
<1> QED BY <1>3, <1>4

(* Removing the unmount-propagation flag keeps DriveInv.                    *)
LEMMA ClearPropagationType ==
  ASSUME DriveInv, ClearPropagation
  PROVE  DriveInv'
BY DEF DriveInv, ClearPropagation, HostTypeOK, disks, DriveTypeOK, TargetIsPath, Ops, fields

(* MarkAsBroken gives well-typed values to what it changes.                 *)
LEMMA MarkAsBrokenType ==
  ASSUME DriveTypeOK, HostTypeOK, NEW d \in Drives, MarkAsBroken(d)
  PROVE  /\ broken' \in [Drives -> BOOLEAN] /\ assignment' \in [Drives -> Assignments]
         /\ transient' \subseteq Drives /\ faults' \in Nat
<1>1. Nil \in Assignments
  BY DEF Nil, Assignments
<1>2. faults' \in Nat
  BY FaultType DEF MarkAsBroken, Flagged, HostTypeOK
<1> QED BY <1>1, <1>2 DEF MarkAsBroken, Flagged, DriveTypeOK, HostTypeOK

(* NewDrive gives well-typed values to what it changes.                     *)
LEMMA NewDriveType ==
  ASSUME DriveTypeOK, HostTypeOK, NEW d \in Drives, NEW type, NewDrive(d, type)
  PROVE  /\ broken' \in [Drives -> BOOLEAN] /\ hasDevice' \in [Drives -> BOOLEAN]
         /\ formatted' \in [Drives -> BOOLEAN]
         /\ mountPath' \in [Drives -> Paths \cup {NoPath}]
         /\ assignment' \in [Drives -> Assignments]
         /\ transient' \subseteq Drives /\ faults' \in Nat
<1>1. Nil \in Assignments
  BY DEF Nil, Assignments
<1>2. faults' \in Nat
  BY FaultType DEF NewDrive, Flagged, HostTypeOK
<1>3. transient' \subseteq Drives
  BY DEF NewDrive, Flagged, HostTypeOK
<1> QED BY <1>1, <1>2, <1>3 DEF NewDrive, DriveTypeOK

(* Announcing an unmount keeps DriveInv.                                    *)
LEMMA AnnounceType ==
  ASSUME DriveInv, NEW d \in Drives, Announce(d)
  PROVE  DriveInv'
<1> USE DEF DriveInv
<1>1. PICK p \in todo : Announce(d)!2!(p)
  BY DEF Announce
<1>2. faults' \in Nat /\ propagation' \subseteq IDs
  BY <1>1, FaultType DEF HostTypeOK, FlagsFor
<1>3. HostTypeOK'
  BY <1>2 DEF Announce, HostTypeOK, disks
<1>4. DriveTypeOK' /\ TargetIsPath'
  BY <1>1 DEF Announce, DriveTypeOK, TargetIsPath, Ops, fields
<1> QED BY <1>3, <1>4

(* Unmounting in a teardown keeps DriveInv.                                 *)
LEMMA UmountType ==
  ASSUME DriveInv, NEW d \in Drives, Umount(d)
  PROVE  DriveInv'
<1> USE DEF DriveInv
<1>1. /\ mounts' \in [Scopes -> Seq(MountPoint)]
      /\ cache' \in [Scopes -> Seq(MountPoint)] /\ faults' \in Nat
  BY UnmountDeviceType, FaultType DEF Umount, UnmountFails, HostTypeOK, DriveTypeOK
<1>2. HostTypeOK'
  BY <1>1 DEF Umount, HostTypeOK, disks, flags
<1>3. DriveTypeOK' /\ TargetIsPath'
  BY <1>1 DEF Umount, DriveTypeOK, TargetIsPath, Ops, fields
<1> QED BY <1>2, <1>3

(* The end of a teardown, in either scope, keeps DriveInv.                  *)
LEMMA TornDownType ==
  ASSUME DriveInv, NEW d \in Drives, NEW next \in {"done", "close"}, TornDown(d, next)
  PROVE  DriveInv'
<1> USE DEF DriveInv
<1>1. HostTypeOK'
  BY DEF TornDown, HostTypeOK, hostVars, disks, flags
<1>2. todo' \subseteq Paths
  BY GetMountPointsOfType DEF TornDown, Visit, Scopes, DriveTypeOK
<1>3. DriveTypeOK' /\ TargetIsPath'
  BY <1>2 DEF TornDown, Visit, DriveTypeOK, TargetIsPath, Ops, Scopes
<1> QED BY <1>1, <1>3

(* Every step of a filesystem's setup or teardown keeps DriveInv.           *)
LEMMA XFSStepType ==
  ASSUME DriveInv, NEW d \in Drives, XFSStep(d)
  PROVE  DriveInv'
BY FormatType, UnmountOtherType, OthersUnmountedType, MountType, ClearPropagationType,
   AnnounceType, UmountType DEF XFSStep

-----------------------------------------------------------------------------
(* The host's variables have their types at first.                          *)
LEMMA HostInitType ==
  ASSUME HostInit
  PROVE  HostTypeOK
<1>1. \A s \in Scopes : <<>> \in Seq(MountPoint)
  BY EmptySeq
<1>2. swiftID \in [Drives -> IDs \cup {Spare, NoID}]
  BY HostAssumption DEF HostInit
<1>3. content \in [Drives -> {"blank", "xfs", "luks"}]
  BY HostAssumption DEF HostInit
<1> QED BY <1>1, <1>2, <1>3 DEF HostInit, HostTypeOK

(* The drives' variables have their types at first.                         *)
LEMMA DriveInitType ==
  ASSUME DriveInit
  PROVE  DriveTypeOK /\ TargetIsPath
<1>1. <<>> \in Seq(MountPoint) /\ Nil \in Assignments
  BY EmptySeq DEF Nil, Assignments
<1> QED BY <1>1 DEF DriveInit, DriveTypeOK, TargetIsPath, Ops, Scopes

(* The drives' variables have their types in a new process.                 *)
LEMMA DriveResetType ==
  ASSUME DriveReset
  PROVE  DriveTypeOK' /\ TargetIsPath'
<1>1. <<>> \in Seq(MountPoint) /\ Nil \in Assignments
  BY EmptySeq DEF Nil, Assignments
<1> QED BY <1>1 DEF DriveReset, DriveTypeOK, TargetIsPath, Ops, Scopes

(* Whatever happens to the machine, its variables keep their types.         *)
LEMMA HostUpsetType ==
  ASSUME HostTypeOK, HostUpset
  PROVE  HostTypeOK'
<1> USE DEF HostTypeOK, disks, flags, Upset
<1>1. CASE EditSwiftID
  <2>1. swiftID' \in [Drives -> IDs \cup {Spare, NoID}]
    BY <1>1, HostAssumption DEF EditSwiftID
  <2> QED BY <1>1, <2>1 DEF EditSwiftID
<1>2. CASE ExternalUmount
  <2>1. mounts' \in [Scopes -> Seq(MountPoint)]
    BY <1>2, KernelUmountType DEF ExternalUmount
  <2> QED BY <1>2, <2>1 DEF ExternalUmount
<1>3. CASE RemountReadonly
  <2>1. PICK d \in Drives : mounts' = [s \in Scopes |-> [i \in DOMAIN mounts[s] |->
          IF mounts[s][i].dev = d THEN [mounts[s][i] EXCEPT !.ro = TRUE] ELSE mounts[s][i]]]
    BY <1>3 DEF RemountReadonly
  <2>2. \A s \in Scopes : mounts'[s] \in [1 .. Len(mounts[s]) -> MountPoint]
    <3> TAKE s \in Scopes
    <3>1. DOMAIN mounts[s] = 1 .. Len(mounts[s])
      BY LenProperties
    <3>2. \A i \in 1 .. Len(mounts[s]) : mounts[s][i] \in MountPoint
      BY ElementOfSeq
    <3>3. \A m \in MountPoint : [m EXCEPT !.ro = TRUE] \in MountPoint
      BY DEF MountPoint
    <3> QED BY <2>1, <3>1, <3>2, <3>3
  <2>3. \A s \in Scopes : Len(mounts[s]) \in Nat
    BY LenProperties
  <2>4. mounts' \in [Scopes -> Seq(MountPoint)]
    <3>1. \A s \in Scopes : mounts'[s] \in Seq(MountPoint)
      BY <2>2, <2>3, FunctionIsSeq
    <3> QED BY <2>1, <3>1
  <2> QED BY <1>3, <2>4 DEF RemountReadonly
<1>4. CASE Unplug
  BY <1>4 DEF Unplug
<1>5. CASE Plug
  BY <1>5 DEF Plug
<1>6. CASE FailDisk
  BY <1>6 DEF FailDisk
<1>7. CASE DeleteFlag
  BY <1>7 DEF DeleteFlag
<1>8. CASE CreateDurableFlag
  BY <1>8 DEF CreateDurableFlag
<1>9. CASE ExternalClose
  BY <1>9 DEF ExternalClose
<1> QED BY <1>1, <1>2, <1>3, <1>4, <1>5, <1>6, <1>7, <1>8, <1>9 DEF HostUpset

(* A reboot keeps the types.                                                *)
LEMMA HostRebootType ==
  ASSUME HostTypeOK, HostReboot, upsets' \in Nat
  PROVE  HostTypeOK'
<1>1. <<>> \in Seq(MountPoint)
  BY EmptySeq
<1> QED BY <1>1 DEF HostTypeOK, HostReboot

-----------------------------------------------------------------------------
(* Encrypted or not.                                                        *)

DeviceInv == DriveInv /\ LuksTypeOK

-----------------------------------------------------------------------------
(* Adding or removing one drive leaves a set of drives behind.              *)
LEMMA PutType ==
  ASSUME NEW S \in SUBSET Drives, NEW d \in Drives, NEW cond
  PROVE  Put(S, d, cond) \in SUBSET Drives
BY DEF Put

(* The cached mappings are mappings of drives.                              *)
LEMMA RefreshLUKSMappingsType ==
  ASSUME HostTypeOK, RefreshLUKSMappings
  PROVE  mappings' \subseteq Drives
BY DEF RefreshLUKSMappings, HostTypeOK

(* A new drive keeps the types of what concerns its encryption.             *)
LEMMA NewDeviceLuksType ==
  ASSUME LuksTypeOK, NEW d \in Drives, NewDevice(d)
  PROVE  LuksTypeOK'
BY PutType DEF NewDevice, LuksTypeOK

(* A new drive gives well-typed values to what NewDrive changes.            *)
LEMMA NewDeviceType ==
  ASSUME DriveTypeOK, HostTypeOK, NEW d \in Drives, NewDevice(d)
  PROVE  /\ broken' \in [Drives -> BOOLEAN] /\ hasDevice' \in [Drives -> BOOLEAN]
         /\ formatted' \in [Drives -> BOOLEAN]
         /\ mountPath' \in [Drives -> Paths \cup {NoPath}]
         /\ assignment' \in [Drives -> Assignments]
         /\ transient' \subseteq Drives /\ faults' \in Nat
<1>1. PICK type \in Classify(d) : NewDrive(d, type)
  BY DEF NewDevice
<1> QED BY <1>1, NewDriveType

(* Adopting a mapping keeps the types of the two variables it may change.   *)
LEMMA AdoptType ==
  ASSUME DriveTypeOK, LuksTypeOK, NEW d \in Drives, Adopt(d)
  PROVE  mapped' \subseteq Drives /\ formatted' \in [Drives -> BOOLEAN]
<1>1. CASE AdoptsMapping(d)
  <2>1. PICK type \in ClassifyMapped(d) :
          /\ mapped' = Put(mapped, d, type # "unreadable")
          /\ formatted' = [formatted EXCEPT ![d] = type = "xfs"]
    BY <1>1 DEF Adopt
  <2>2. mapped' \in SUBSET Drives
    BY <2>1, PutType DEF LuksTypeOK
  <2> QED BY <2>1, <2>2 DEF DriveTypeOK
<1>2. CASE ~AdoptsMapping(d)
  BY <1>2 DEF Adopt, DriveTypeOK, LuksTypeOK
<1> QED BY <1>1, <1>2

(* The beginning of an encrypted drive's setup keeps DeviceInv.             *)
LEMMA BeginLUKSSetupType ==
  ASSUME DeviceInv, NEW d \in Drives, BeginLUKSSetup(d)
  PROVE  DeviceInv'
<1> USE DEF DeviceInv, DriveInv
<1>1. mapped' \subseteq Drives /\ formatted' \in [Drives -> BOOLEAN]
  BY AdoptType DEF BeginLUKSSetup
<1>2. mountPath' \in [Drives -> Paths \cup {NoPath}]
  BY ValidateType DEF BeginLUKSSetup, DriveTypeOK
<1>3. HostTypeOK'
  BY DEF BeginLUKSSetup, HostTypeOK, hostVars, disks, flags
<1>4. op' \in {"fail", "luksFormat", "luksOpen", "setup"}
  BY DEF BeginLUKSSetup
<1>5. DriveTypeOK' /\ TargetIsPath'
  BY <1>1, <1>2, <1>4 DEF BeginLUKSSetup, DriveTypeOK, TargetIsPath, Ops
<1>6. LuksTypeOK'
  BY <1>1 DEF BeginLUKSSetup, LuksTypeOK
<1> QED BY <1>3, <1>5, <1>6

(* Formatting a container keeps DeviceInv.                                  *)
LEMMA LUKSFormatType ==
  ASSUME DeviceInv, NEW d \in Drives, LUKSFormat(d)
  PROVE  DeviceInv'
<1> USE DEF DeviceInv, DriveInv
<1>1. faults' \in Nat
  BY FaultType DEF LUKSFormat, HostTypeOK
<1>2. HostTypeOK'
  BY <1>1 DEF LUKSFormat, HostTypeOK, flags
<1>3. op' \in {"setup", "luksOpen", "fail"}
  BY DEF LUKSFormat
<1>4. DriveTypeOK' /\ TargetIsPath'
  BY <1>3 DEF LUKSFormat, DriveTypeOK, TargetIsPath, Ops, fields
<1>5. LuksTypeOK'
  BY DEF LUKSFormat, LuksTypeOK
<1> QED BY <1>2, <1>4, <1>5

(* Opening a container keeps DeviceInv.                                     *)
LEMMA LUKSOpenType ==
  ASSUME DeviceInv, NEW d \in Drives, LUKSOpen(d)
  PROVE  DeviceInv'
<1> USE DEF DeviceInv, DriveInv
<1>1. faults' \in Nat
  BY FaultType DEF LUKSOpen, HostTypeOK
<1>2. HostTypeOK'
  BY <1>1 DEF LUKSOpen, HostTypeOK, flags
<1>3. DriveTypeOK' /\ TargetIsPath'
  BY DEF LUKSOpen, DriveTypeOK, TargetIsPath, Ops, fields
<1>4. LuksTypeOK'
  BY DEF LUKSOpen, LuksTypeOK
<1> QED BY <1>2, <1>3, <1>4

(* Looking into an open container keeps DeviceInv.                          *)
LEMMA DescendType ==
  ASSUME DeviceInv, NEW d \in Drives, Descend(d)
  PROVE  DeviceInv'
<1> USE DEF DeviceInv, DriveInv
<1>1. PICK type \in ClassifyMapped(d) :
        /\ mapped' = Put(mapped, d, type # "unreadable")
        /\ formatted' = [formatted EXCEPT ![d] = type = "xfs"]
        /\ op' = IF type = "unreadable" THEN "fail" ELSE "setup"
  BY DEF Descend
<1>2. HostTypeOK'
  BY DEF Descend, HostTypeOK, hostVars, disks, flags
<1>3. DriveTypeOK' /\ TargetIsPath'
  BY <1>1 DEF Descend, DriveTypeOK, TargetIsPath, Ops
<1>4. mapped' \in SUBSET Drives
  BY <1>1, PutType DEF LuksTypeOK
<1>5. LuksTypeOK'
  BY <1>4 DEF Descend, LuksTypeOK
<1> QED BY <1>2, <1>3, <1>5

(* The end of a filesystem's teardown keeps DeviceInv.                      *)
LEMMA FilesystemTornDownType ==
  ASSUME DeviceInv, NEW d \in Drives, FilesystemTornDown(d)
  PROVE  DeviceInv'
<1> USE DEF DeviceInv
<1>1. DriveInv'
  BY TornDownType DEF FilesystemTornDown, AfterFilesystem
<1>2. LuksTypeOK'
  BY DEF FilesystemTornDown, LuksTypeOK, luksVars
<1> QED BY <1>1, <1>2

(* Closing a container keeps DeviceInv.                                     *)
LEMMA LUKSCloseType ==
  ASSUME DeviceInv, NEW d \in Drives, LUKSClose(d)
  PROVE  DeviceInv'
<1> USE DEF DeviceInv, DriveInv
<1>1. faults' \in Nat
  BY FaultType DEF LUKSClose, HostTypeOK
<1>2. HostTypeOK'
  BY <1>1 DEF LUKSClose, HostTypeOK, flags
<1>3. DriveTypeOK' /\ TargetIsPath'
  BY DEF LUKSClose, DriveTypeOK, TargetIsPath, Ops, fields
<1>4. LuksTypeOK'
  BY DEF LUKSClose, LuksTypeOK
<1> QED BY <1>2, <1>3, <1>4

-----------------------------------------------------------------------------
(* What a teardown begins with keeps the types of the job.                  *)
LEMMA TeardownType ==
  ASSUME DriveTypeOK, NEW d \in Drives, Teardown(d)
  PROVE  /\ op' \in {"teardown", "close", "done"}
         /\ scope' \in Scopes /\ todo' \subseteq Paths /\ target' = target
<1>1. CASE d \in hasLUKS /\ d \notin mapped
  BY <1>1 DEF Teardown, AfterFilesystem, DriveTypeOK
<1>2. CASE ~(d \in hasLUKS /\ d \notin mapped)
  <2>1. BeginTeardown(d)
    BY <1>2 DEF Teardown
  <2>2. GetMountPointsOf(d, "host") \subseteq Paths
    BY GetMountPointsOfType DEF Scopes
  <2> QED BY <2>1, <2>2 DEF BeginTeardown, Visit, Scopes
<1> QED BY <1>1, <1>2

(* Beginning a teardown, and nothing else, keeps DriveInv.                  *)
LEMMA TeardownInv ==
  ASSUME DriveInv, NEW d \in Drives, Teardown(d), UNCHANGED <<hostVars, cache, fields>>
  PROVE  DriveInv'
<1> USE DEF DriveInv
<1>1. HostTypeOK'
  BY DEF HostTypeOK, hostVars, disks, flags
<1>2. /\ op' \in {"teardown", "close", "done"}
      /\ scope' \in Scopes /\ todo' \subseteq Paths /\ target' = target
  BY TeardownType
<1>3. DriveTypeOK' /\ TargetIsPath'
  BY <1>2 DEF DriveTypeOK, TargetIsPath, Ops, fields
<1> QED BY <1>1, <1>3

(* Giving a drive up keeps DeviceInv.                                       *)
LEMMA GiveUpType ==
  ASSUME DeviceInv, NEW d \in Drives, GiveUp(d)
  PROVE  DeviceInv'
<1> USE DEF DeviceInv, DriveInv
<1>1. /\ broken' \in [Drives -> BOOLEAN] /\ assignment' \in [Drives -> Assignments]
      /\ transient' \subseteq Drives /\ faults' \in Nat
  BY MarkAsBrokenType DEF GiveUp
<1>2. HostTypeOK'
  BY <1>1 DEF GiveUp, HostTypeOK, disks
<1>3. /\ op' \in {"teardown", "close", "done"}
      /\ scope' \in Scopes /\ todo' \subseteq Paths /\ target' = target
  BY TeardownType DEF GiveUp
<1>4. DriveTypeOK' /\ TargetIsPath'
  BY <1>1, <1>3 DEF GiveUp, DriveTypeOK, TargetIsPath, Ops
<1>5. LuksTypeOK'
  BY DEF GiveUp, LuksTypeOK, luksVars
<1> QED BY <1>2, <1>4, <1>5

(* The beginning of a setup keeps DeviceInv, on either kind of Device.      *)
LEMMA SetupType ==
  ASSUME DeviceInv, NEW d \in Drives, Setup(d)
  PROVE  DeviceInv'
<1>1. CASE d \in hasLUKS
  BY <1>1, BeginLUKSSetupType DEF Setup
<1>2. CASE d \notin hasLUKS
  BY <1>2, BeginSetupType DEF Setup, DeviceInv, LuksTypeOK, luksVars
<1> QED BY <1>1, <1>2

(* Every later step of a setup or of a teardown keeps DeviceInv.            *)
LEMMA DeviceStepType ==
  ASSUME DeviceInv, NEW d \in Drives, DeviceStep(d)
  PROVE  DeviceInv'
<1>1. CASE XFSStep(d) /\ UNCHANGED luksVars
  BY <1>1, XFSStepType DEF DeviceInv, LuksTypeOK, luksVars
<1>2. CASE SetupInside(d)
  BY <1>2, BeginSetupType DEF SetupInside, DeviceInv, LuksTypeOK, luksVars
<1> QED BY <1>1, <1>2, LUKSFormatType, LUKSOpenType, DescendType, FilesystemTornDownType,
           LUKSCloseType, GiveUpType DEF DeviceStep

(* The variables of this module have their types at first.                  *)
LEMMA LuksInitType ==
  ASSUME LuksInit
  PROVE  LuksTypeOK
BY DEF LuksInit, LuksTypeOK

(* The variables of this module have their types in a new process.          *)
LEMMA LuksResetType ==
  ASSUME LuksReset
  PROVE  LuksTypeOK'
BY DEF LuksReset, LuksTypeOK
=============================================================================

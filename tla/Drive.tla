------------------------------- MODULE Drive --------------------------------
(***************************************************************************)
(* core.Drive and XFSDevice: how the converger sets a filesystem up and    *)
(* tears it down, one action per command that it runs.  The converger      *)
(* works on one drive at a time; which one (and what happens before and    *)
(* after) is the business of module Autopilot, so actions take the drive.  *)
(* The filesystem may be inside a LUKS container: see module Luks.         *)
(***************************************************************************)
EXTENDS Host

VARIABLES
  cache,       \* Linux.ActiveMountPoints: the mount table as last read
  broken,      \* Drive.Broken
  hasDevice,   \* Drive.Device is not nil
  formatted,   \* XFSDevice.formatted
  mountPath,   \* XFSDevice.mountPath (NoPath: "")
  assignment,  \* Drive.Assignment
  op,          \* what is being done to the converger's current drive
  scope,       \* the mount scope that ForeachMountScope has reached
  todo,        \* paths that the loop over GetMountPointsOf has yet to visit
  target       \* the mount path that Setup wants

fields == <<broken, hasDevice, formatted, mountPath, assignment>>
job == <<op, scope, todo, target>>
driveVars == <<cache, fields, job>>

Ops == {"idle", "converge", "format", "unmount", "mount", "clear", "fail",
        "teardown", "umount", "done",
        "luksFormat", "luksOpen", "descend", "setup", "close"}  \* of module Luks

Errors == {"missing", "pending", "blocked", "duplicate", "mismatch"}
Nil == [id |-> NoID, error |-> "nil"]      \* Drive.Assignment == nil
Assigned(id) == [id |-> id, error |-> "none"]
Assignments ==
  {a \in [id : IDs \cup {Spare, NoID}, error : Errors \cup {"none", "nil"}] :
     a.error = "none" => a.id # NoID}

DriveTypeOK ==
  /\ cache \in [Scopes -> Seq(MountPoint)]
  /\ broken \in [Drives -> BOOLEAN] /\ hasDevice \in [Drives -> BOOLEAN]
  /\ formatted \in [Drives -> BOOLEAN]
  /\ mountPath \in [Drives -> Paths \cup {NoPath}]
  /\ assignment \in [Drives -> Assignments]
  /\ op \in Ops /\ scope \in Scopes
  /\ todo \subseteq Paths /\ target \in Paths \cup {NoPath}

DriveInit ==
  /\ cache = [s \in Scopes |-> <<>>]
  /\ broken = [d \in Drives |-> FALSE] /\ hasDevice = [d \in Drives |-> FALSE]
  /\ formatted = [d \in Drives |-> FALSE]
  /\ mountPath = [d \in Drives |-> NoPath]
  /\ assignment = [d \in Drives |-> Nil]
  /\ op = "idle" /\ scope = "host" /\ todo = {} /\ target = NoPath

(* The memory of a new process. *)
DriveReset ==
  /\ cache' = [s \in Scopes |-> <<>>]
  /\ broken' = [d \in Drives |-> FALSE] /\ hasDevice' = [d \in Drives |-> FALSE]
  /\ formatted' = [d \in Drives |-> FALSE]
  /\ mountPath' = [d \in Drives |-> NoPath]
  /\ assignment' = [d \in Drives |-> Nil]
  /\ op' = "idle" /\ scope' = "host" /\ todo' = {} /\ target' = NoPath

-----------------------------------------------------------------------------
(* The cached mount table (pkg/os/linux_mount.go).                          *)

NoRefresh == UNCHANGED cache                                     \* mutant
RefreshMountPoints == cache' = mounts

MountsOf(d, s) == {i \in DOMAIN cache[s] : cache[s][i].dev = d}

GetMountPointsOf(d, s) == {cache[s][i].path : i \in MountsOf(d, s)}

(* The first entry with that path goes, whichever device it names. *)
RemoveMountPoint(tbl, p) ==
  IF OnPath(tbl, p) = {} THEN tbl
  ELSE RemoveAt(tbl, CHOOSE i \in OnPath(tbl, p) : \A j \in OnPath(tbl, p) : i <= j)

MountDevice(d, p, s) ==
  IF p \in GetMountPointsOf(d, s)
  THEN UNCHANGED <<mounts, cache, faults>>
  ELSE /\ CanMount(d, p, s) /\ KernelMount(d, p, s) /\ UNCHANGED faults
       /\ cache' = [t \in Scopes |->
            IF t \in Affected(s)
            THEN Append(cache[t], [dev |-> d, path |-> p, ro |-> FALSE])
            ELSE cache[t]]

MountFails(d, p, s) ==
  /\ p \notin GetMountPointsOf(d, s)
  /\ Fails("mount", CanMount(d, p, s))

UnmountDevice(p, s) ==
  IF OnPath(cache[s], p) = {}
  THEN UNCHANGED <<mounts, cache, faults>>
  ELSE /\ CanUmount(p, s) /\ KernelUmount(p, s) /\ UNCHANGED faults
       /\ cache' = [t \in Scopes |->
            IF t \in Affected(s) THEN RemoveMountPoint(cache[t], p) ELSE cache[t]]

UnmountFails(p, s) ==
  /\ OnPath(cache[s], p) # {}
  /\ Fails("umount", CanUmount(p, s))

-----------------------------------------------------------------------------
(* core.Drive                                                               *)

DesiredPathOfSpare(asg, d, mounted) ==                           \* mutant
  IF asg.error = "none" THEN Srv(asg.id)
  ELSE IF mounted # NoPath THEN mounted ELSE Run(d)

DesiredPath(asg, d, mounted) ==
  IF asg.error = "none" /\ asg.id # Spare THEN Srv(asg.id)
  ELSE IF mounted # NoPath THEN mounted ELSE Run(d)

MountPath(d) == DesiredPath(assignment[d], d, mountPath[d])

(* `ln -sfT $device /run/swift-storage/broken/$id`; the drive is broken in   *)
(* memory even when the flag cannot be written.                             *)
Flagged(d) ==
  \/ transient' = transient \cup {d} /\ UNCHANGED faults
  \/ d \notin transient /\ Fault("ln") /\ UNCHANGED transient

MarkAsBroken(d) ==
  /\ broken' = [broken EXCEPT ![d] = TRUE]
  /\ assignment' = [assignment EXCEPT ![d] = Nil]
  /\ Flagged(d)

(* ClassifyDevice: a device file that is gone by now can look either way to *)
(* file(1), since it complains about it on its standard output.             *)
Classify(d) ==
  IF d \in devices THEN {IF d \in unreadable THEN "unreadable" ELSE content[d]}
  ELSE {"unreadable", "blank"}

NewDrive(d, type) ==
  /\ hasDevice' = [hasDevice EXCEPT ![d] = type # "unreadable"]
  /\ formatted' = [formatted EXCEPT ![d] = type = "xfs"]
  /\ broken' = [broken EXCEPT ![d] = type = "unreadable" \/ d \in transient \cup durable]
  /\ mountPath' = [mountPath EXCEPT ![d] = NoPath]
  /\ assignment' = [assignment EXCEPT ![d] = Nil]
  /\ IF d \in transient \cup durable THEN Flagged(d) ELSE UNCHANGED <<transient, faults>>

-----------------------------------------------------------------------------
(* XFSDevice.Validate compares the cached mounts with mountPath, first in   *)
(* the host's scope and then in the local one, and adopts a mount that was  *)
(* there before this process: the first one, unless it is read-only.        *)

DiscoverNothing(d, s, known) == known                            \* mutant

Discover(d, s, known) ==
  IF MountsOf(d, s) = {} THEN NoPath
  ELSE LET first == cache[s][Min(MountsOf(d, s))]
       IN IF known = NoPath /\ ~first.ro THEN first.path ELSE known

ValidIn(d, s, known, found) ==
  IF MountsOf(d, s) = {} THEN known = NoPath
  ELSE \A i \in MountsOf(d, s) : cache[s][i].path = found /\ ~cache[s][i].ro

Validate(d) ==
  LET inHost == Discover(d, "host", mountPath[d])
      inLocal == Discover(d, "local", inHost)
  IN IF ValidIn(d, "host", mountPath[d], inHost)
     THEN [found |-> inLocal, ok |-> ValidIn(d, "local", inHost, inLocal)]
     ELSE [found |-> inHost, ok |-> FALSE]

-----------------------------------------------------------------------------
(* XFSDevice.Setup, one action per command.                                 *)

Visit(d, s) == scope' = s /\ todo' = GetMountPointsOf(d, s)

VisitOthers(d, s, p) == scope' = s /\ todo' = GetMountPointsOf(d, s) \ {p}

(* Validate, and on to the formatting or to the mount at the desired path. *)
BeginSetup(d) ==
  /\ mountPath' = [mountPath EXCEPT ![d] = Validate(d).found]
  /\ IF Validate(d).ok
     THEN /\ op' = IF formatted[d] THEN "unmount" ELSE "format"
          /\ target' = DesiredPath(assignment[d], d, Validate(d).found)
          /\ VisitOthers(d, "host", target')
     ELSE op' = "fail" /\ UNCHANGED <<scope, todo, target>>
  /\ UNCHANGED <<cache, broken, hasDevice, formatted, assignment, hostVars>>

(* The device (the disk, or its open container) is formatted only if it     *)
(* still looks empty.                                                       *)
LooksEmpty(d) == Reachable(d) /\ Filesystem(d) = "blank"

Format(d) ==
  /\ op = "format"
  /\ \/ /\ LooksEmpty(d) /\ UNCHANGED faults
        /\ IF Encrypted(d)
           THEN inside' = [inside EXCEPT ![d] = "xfs"] /\ UNCHANGED content
           ELSE content' = [content EXCEPT ![d] = "xfs"] /\ UNCHANGED inside
        /\ swiftID' = [swiftID EXCEPT ![d] = NoID]
        /\ formatted' = [formatted EXCEPT ![d] = TRUE]
        /\ op' = "unmount"
     \/ /\ Fails("mkfs", LooksEmpty(d))
        /\ op' = "fail" /\ UNCHANGED <<content, inside, swiftID, formatted>>
  /\ UNCHANGED <<devices, unreadable, open, stray, mounts, flags, upsets, cache, broken,
                 hasDevice, mountPath, assignment, scope, todo, target>>

(* Every mount of the drive at another path than the desired one goes. *)
UnmountOther(d) ==
  /\ op = "unmount"
  /\ \E p \in todo :
       \/ UnmountDevice(p, scope) /\ todo' = todo \ {p} /\ UNCHANGED op
       \/ UnmountFails(p, scope) /\ op' = "fail" /\ UNCHANGED <<mounts, cache, todo>>
  /\ UNCHANGED <<disks, flags, upsets, fields, scope, target>>

OthersUnmounted(d) ==
  /\ op = "unmount" /\ todo = {}
  /\ IF scope = "host"
     THEN VisitOthers(d, "local", target) /\ UNCHANGED <<op, mountPath>>
     ELSE /\ op' = "mount" /\ scope' = "host" /\ UNCHANGED todo
          /\ mountPath' = [mountPath EXCEPT ![d] = IF @ = target THEN @ ELSE NoPath]
  /\ UNCHANGED <<hostVars, cache, broken, hasDevice, formatted, assignment, target>>

Mount(d) ==
  /\ op = "mount"
  /\ \/ /\ MountDevice(d, target, scope)
        /\ IF scope = "host"
           THEN scope' = "local" /\ UNCHANGED <<op, mountPath>>
           ELSE /\ op' = "clear" /\ UNCHANGED scope
                /\ mountPath' = [mountPath EXCEPT ![d] = target]
     \/ /\ MountFails(d, target, scope)
        /\ op' = "fail" /\ UNCHANGED <<mounts, cache, scope, mountPath>>
  /\ UNCHANGED <<disks, flags, upsets, broken, hasDevice, formatted, assignment, todo, target>>

(* The unmount-propagation flag is removed below the process's own root,    *)
(* which is not the chroot that Teardown's `ln` creates it in.              *)
KeepPropagation ==                                               \* mutant
  /\ op = "clear" /\ op' = "done"
  /\ UNCHANGED <<hostVars, cache, fields, scope, todo, target>>

ClearPropagation ==
  /\ op = "clear"
  /\ propagation' = IF Chroot THEN propagation ELSE {id \in propagation : Srv(id) # target}
  /\ op' = "done"
  /\ UNCHANGED <<disks, mounts, transient, durable, flagReady, faults, upsets,
                 cache, fields, scope, todo, target>>

-----------------------------------------------------------------------------
(* XFSDevice.Teardown: announce the unmount to the containers that may hold *)
(* a copy of the mount, then unmount, path by path and scope by scope.      *)

BeginTeardown(d) == op' = "teardown" /\ Visit(d, "host") /\ UNCHANGED target

NoFlag(p) == {}                                                  \* mutant
FlagsFor(p) == {id \in IDs : Srv(id) = p}

Announce(d) ==
  /\ op = "teardown"
  /\ \E p \in todo :
       /\ target' = p /\ op' = "umount"
       /\ \/ propagation' = propagation \cup FlagsFor(p) /\ UNCHANGED faults
          \/ p \in SrvPaths /\ Fault("ln") /\ UNCHANGED propagation
  /\ UNCHANGED <<disks, mounts, transient, durable, flagReady, upsets, cache,
                 fields, scope, todo>>

Umount(d) ==
  /\ op = "umount"
  /\ \/ UnmountDevice(target, scope) /\ todo' = todo \ {target} /\ op' = "teardown"
     \/ UnmountFails(target, scope) /\ op' = "done" /\ UNCHANGED <<mounts, cache, todo>>
  /\ UNCHANGED <<disks, flags, upsets, fields, scope, target>>

TornDownInHost(d, next) ==                                       \* mutant
  /\ op = "teardown" /\ todo = {}
  /\ op' = next
  /\ mountPath' = [mountPath EXCEPT ![d] = NoPath]
  /\ UNCHANGED <<hostVars, cache, broken, hasDevice, formatted, assignment,
                 scope, todo, target>>

(* What is next depends on whether the device is inside a LUKS container.   *)
TornDown(d, next) ==
  /\ op = "teardown" /\ todo = {}
  /\ IF scope = "host"
     THEN Visit(d, "local") /\ UNCHANGED <<op, mountPath>>
     ELSE /\ op' = next /\ UNCHANGED <<scope, todo>>
          /\ mountPath' = [mountPath EXCEPT ![d] = NoPath]
  /\ UNCHANGED <<hostVars, cache, broken, hasDevice, formatted, assignment, target>>

(* The commands of XFSDevice.Setup and XFSDevice.Teardown. *)
XFSStep(d) ==
  \/ Format(d) \/ UnmountOther(d) \/ OthersUnmounted(d) \/ Mount(d)
  \/ ClearPropagation \/ Announce(d) \/ Umount(d)
=============================================================================

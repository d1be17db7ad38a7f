------------------------------- MODULE Finder -------------------------------
(***************************************************************************)
(* Linux.CollectDrives in detail: globbed paths that are symlinks, probing *)
(* of new devices, and the identity of a drive that cannot be read.  (In   *)
(* module Collectors a round knows device files only.)  To that end the    *)
(* rest of the program is reduced to the list of drives and to the LUKS    *)
(* containers that it opens on them.                                       *)
(***************************************************************************)
EXTENDS Lsblk

CONSTANTS
  Links,       \* paths that match a configured glob, when they exist
  Devices,     \* storage devices that such a path may be a symlink to
  Multipath,   \* the devices that are device-mapper nodes above several disks
  Partitioned  \* the devices that hold a partition table

ASSUME FinderAssumption ==
  /\ Devices \subseteq Nat \ {0} /\ IsFiniteSet(Devices) /\ IsFiniteSet(Links)
  /\ Multipath \subseteq Devices
  /\ Partitioned \subseteq Devices \ Multipath

None == 0

VARIABLES
  links,        \* the device that a path resolves to right now, or None
  dead,         \* devices that cannot be read
  mapping,      \* the name of the open LUKS container on a device, or Nil
  knownDrives,  \* CollectDrives' map: the device first seen below a path
  listed,       \* how often the converger's list has the device
  driveID,      \* the DriveID under which it was listed last
  settled       \* no symlink has changed since the last round

vars == <<links, dead, mapping, knownDrives, listed, driveID, settled>>

Present == {links[l] : l \in Links} \ {None}

Serial(d) == <<"serial", d>>
MD5Sum(d) == <<"md5", d>>          \* of the device path
DriveID(d, serial) == IF serial = Nil THEN MD5Sum(d) ELSE serial[1]

DriveIDs == {Serial(d) : d \in Devices} \cup {MD5Sum(d) : d \in Devices}

FinderTypeOK ==
  /\ links \in [Links -> Devices \cup {None}] /\ dead \subseteq Devices
  /\ mapping \in [Devices -> {Nil} \cup DriveIDs]
  /\ driveID \in [Devices -> {Nil} \cup DriveIDs]
  /\ knownDrives \in [Links -> Devices \cup {None}]
  /\ listed \in [Devices -> Nat] /\ settled \in BOOLEAN

Init ==
  /\ links \in [Links -> Devices \cup {None}]
  /\ \A k, l \in Links : k # l /\ links[k] # None => links[k] # links[l]
  /\ dead = {} /\ mapping = [d \in Devices |-> Nil]
  /\ knownDrives = [l \in Links |-> None] /\ settled = FALSE
  /\ listed = [d \in Devices |-> 0] /\ driveID = [d \in Devices |-> Nil]

-----------------------------------------------------------------------------
(* The machine: its device files, and what lsblk says.  The system's disk   *)
(* has an encrypted partition; a multipath device is above two disks.       *)

DeviceFile(d) == <<"/dev", IF d \in Multipath THEN <<"dm", d>> ELSE <<"sd", d>>>>

Block(pos, parent, type, name) ==
  [pos |-> pos, parent |-> parent, type |-> type, name |-> name]

OnDevice(d, pos) ==
  (IF mapping[d] # Nil THEN {Block(pos + 1, pos, "crypt", mapping[d])} ELSE {})
    \cup (IF d \in Partitioned THEN {Block(pos + 2, pos, "part", <<"part", d>>)} ELSE {})

BlockDevice(d) ==
  IF d \in Multipath
  THEN UNION {{Block(n, 0, "disk", <<"path", d, n>>), Block(n + 1, n, "mpath", <<"mpath", d>>)}
                \cup OnDevice(d, n + 1) : n \in {10 * d, 10 * d + 5}}
  ELSE {Block(10 * d, 0, "disk", <<"sd", d>>)} \cup OnDevice(d, 10 * d)

SystemDisk ==
  {Block(1, 0, "disk", <<"system">>), Block(2, 1, "part", <<"system", 3>>),
   Block(3, 2, "crypt", <<"usr">>)}

LsblkOutput == SystemDisk \cup UNION {BlockDevice(d) : d \in Present}

-----------------------------------------------------------------------------
(* A round of CollectDrives.                                                *)

(* What is reported of a device that is new: the serial number (Nil: none), *)
(* in a set that is empty if the device is ignored.  The silent devices are *)
(* those of which smartctl tells nothing, this time.                        *)
IgnoreUnreadable(d) == {}                                        \* mutant
ReportNameless(d) ==                                             \* mutant
  IF FindSerialNumberForDevice(LsblkOutput, DeviceFile(d)) = Nil THEN {} ELSE {Nil}
TryFindSerialNumberForBrokenDevice(d) ==
  LET serial == FindSerialNumberForDevice(LsblkOutput, DeviceFile(d))
  IN IF serial = Nil THEN {} ELSE {serial}

Probe(d, silent) ==
  IF d \in dead THEN TryFindSerialNumberForBrokenDevice(d)
  ELSE IF d \in Partitioned THEN {}
  ELSE {IF d \in silent THEN Nil ELSE <<Serial(d)>>}

NeverVanished(l) == FALSE                                        \* mutant
Vanished(l) == knownDrives[l] # None /\ links[l] = None
Existing(l) == links[l] # None                                   \* mutant
Fresh(l) == knownDrives[l] = None /\ links[l] # None

(* The converger takes a removed device off its list, however often it is   *)
(* on it, before it appends those that are new.                             *)
CollectDrives ==
  /\ Present # {}
  /\ knownDrives' = [l \in Links |-> IF Vanished(l) \/ Fresh(l) THEN links[l]
                                                               ELSE knownDrives[l]]
  /\ \E silent \in SUBSET Present :
     LET removed == {knownDrives[l] : l \in {l \in Links : Vanished(l)}}
         added(d) == {l \in Links : Fresh(l) /\ links[l] = d /\ Probe(d, silent) # {}}
     IN /\ listed' = [d \in Devices |->
             (IF d \in removed THEN 0 ELSE listed[d]) + Cardinality(added(d))]
        /\ driveID' = [d \in Devices |->
             IF added(d) = {} THEN driveID[d]
             ELSE DriveID(d, CHOOSE serial \in Probe(d, silent) : TRUE)]
  /\ settled' = TRUE
  /\ UNCHANGED <<links, dead, mapping>>

(* The converger opens LUKS containers under the drive's DriveID.           *)
OpenContainer(d) ==
  /\ listed[d] > 0 /\ d \in Present \ dead /\ mapping[d] = Nil
  /\ mapping' = [mapping EXCEPT ![d] = driveID[d]]
  /\ UNCHANGED <<links, dead, knownDrives, listed, driveID, settled>>

(* The process ends, for one reason or another, and starts anew. *)
Restart ==
  /\ knownDrives' = [l \in Links |-> None] /\ listed' = [d \in Devices |-> 0]
  /\ driveID' = [d \in Devices |-> Nil] /\ settled' = FALSE
  /\ UNCHANGED <<links, dead, mapping>>

-----------------------------------------------------------------------------
(* The world.  A path that has led to a device leads to another one only    *)
(* after a round has missed it: it is not looked at again before that.      *)

Plug(l, d) ==
  /\ links[l] = None /\ knownDrives[l] = None /\ d \notin Present
  /\ links' = [links EXCEPT ![l] = d] /\ settled' = FALSE
  /\ UNCHANGED <<dead, mapping, knownDrives, listed, driveID>>

(* The device is gone, and what was open on it with it. *)
Unplug(l) ==
  /\ links[l] # None
  /\ links' = [links EXCEPT ![l] = None] /\ settled' = FALSE
  /\ mapping' = [mapping EXCEPT ![links[l]] = Nil]
  /\ UNCHANGED <<dead, knownDrives, listed, driveID>>

Die(d) ==
  /\ d \in Present \ dead /\ dead' = dead \cup {d}
  /\ UNCHANGED <<links, mapping, knownDrives, listed, driveID, settled>>

Next ==
  \/ CollectDrives \/ Restart
  \/ \E d \in Devices : OpenContainer(d) \/ Die(d)
  \/ \E l \in Links : Unplug(l) \/ \E d \in Devices : Plug(l, d)

Spec == Init /\ [][Next]_vars

-----------------------------------------------------------------------------
(* Properties                                                               *)

(* No device is on the list twice: not after it has moved to another path   *)
(* between two rounds either, since its removal is reported first.          *)
ListedOnce == \A d \in Devices : listed[d] <= 1

(* After a round, the list has every readable device without partitions     *)
(* that some path leads to, and none that no path leads to.                 *)
ListsWhatIsThere ==
  settled =>
    /\ \A d \in Present \ (Partitioned \cup dead) : listed[d] > 0
    /\ \A d \in Devices : listed[d] > 0 => d \in Present

(* A device with partitions is never listed, nor taken for an encrypted one *)
(* when it cannot be read.                                                  *)
IgnoresPartitioned == \A d \in Partitioned : listed[d] = 0

(* A device that cannot be read, but has a LUKS container open from before, *)
(* is reported all the same (linux_drive.go:94-98), unless it is a          *)
(* multipath device.                                                        *)
BrokenReported ==
  settled => \A d \in Present \cap dead :
    mapping[d] # Nil /\ d \notin Multipath => listed[d] > 0

(* A drive that cannot be read gets, when it is reported, the name of its   *)
(* open container for its identity (linux_drive.go:94-98): the flags and    *)
(* mounts of the process that opened it are then found again.               *)
InferredIdentity ==
  [][\A d \in dead : driveID'[d] \notin {driveID[d], Nil} => driveID'[d] = mapping[d]]_vars

(* The file below which RefreshLUKSMappings enters the mapping of a name    *)
(* is (but for symlinks) the one device on which the container is open.     *)
BackingDeviceFound ==
  \A d \in Present : mapping[d] # Nil =>
    FindBackingDeviceForLUKS(LsblkOutput, mapping[d]) =
      IF d \in Multipath THEN <<"/dev/mapper", <<"mpath", d>>>> ELSE DeviceFile(d)
=============================================================================

-------------------------------- MODULE Luks --------------------------------
(***************************************************************************)
(* core.LUKSDevice around the XFSDevice of module Drive, the cached table  *)
(* of LUKS mappings, and core.Drive as far as it does not matter to it     *)
(* which of the two Devices it has.  Mappings are named after the drive.   *)
(***************************************************************************)
EXTENDS Drive

CONSTANT Keys     \* Config.Keys is not empty

ASSUME KeysAssumption == Keys \in BOOLEAN

VARIABLES
  mappings,       \* Linux.ActiveLUKSMappings: drives with an entry
  hasLUKS,        \* drives whose Device is a LUKSDevice
  luksFormatted,  \* LUKSDevice.formatted
  mapped,         \* drives whose LUKSDevice.mapped is not nil
  mappingName     \* drives whose LUKSDevice.mappingName is not ""

luksVars == <<mappings, hasLUKS, luksFormatted, mapped, mappingName>>
deviceVars == <<driveVars, luksVars>>

LuksTypeOK ==
  /\ mappings \subseteq Drives /\ hasLUKS \subseteq Drives
  /\ luksFormatted \subseteq Drives /\ mapped \subseteq Drives
  /\ mappingName \subseteq Drives

LuksInit ==
  /\ mappings = {} /\ hasLUKS = {} /\ luksFormatted = {}
  /\ mapped = {} /\ mappingName = {}

LuksReset ==
  /\ mappings' = {} /\ hasLUKS' = {} /\ luksFormatted' = {}
  /\ mapped' = {} /\ mappingName' = {}

-----------------------------------------------------------------------------
(* The mapping of a disk that does not answer may have lost its backing     *)
(* device, and is skipped then (linux_luks.go, getBackingDevicePath).       *)
RefreshLUKSMappings ==
  \E seen \in SUBSET open :
    {d \in open : Accessible(d)} \subseteq seen /\ mappings' = seen

(* newDevice(mappedDevicePath): an open mapping outlives its device file.   *)
ClassifyMapped(d) ==
  IF d \in open
  THEN (IF d \in unreadable THEN {"unreadable"} ELSE {inside[d]})
         \cup (IF d \in devices THEN {} ELSE {"unreadable"})
  ELSE {"unreadable", "blank"}

Put(S, d, cond) == IF cond THEN S \cup {d} ELSE S \ {d}

(* NewDrive with newDevice: encryption is for fresh disks, and only if keys *)
(* are configured; a disk that has something on it is taken as it is.       *)
NewDevice(d) == \E type \in Classify(d) :
  /\ NewDrive(d, type)
  /\ hasLUKS' = Put(hasLUKS, d, type = "luks" \/ (type = "blank" /\ Keys))
  /\ luksFormatted' = Put(luksFormatted, d, type = "luks")
  /\ mapped' = mapped \ {d} /\ mappingName' = mappingName \ {d}
  /\ UNCHANGED mappings

-----------------------------------------------------------------------------
(* LUKSDevice.Setup, up to the Setup of the filesystem inside.              *)

(* Mounts of the disk itself: those of an encrypted disk are of its mapping.*)
DirectMounts(d, s) == IF Encrypted(d) THEN {} ELSE GetMountPointsOf(d, s)

(* LUKSDevice.Validate: a mapping that was there before this process (or    *)
(* before the drive was reinstated) becomes the drive's own, but for its    *)
(* name; then the filesystem inside is validated.                           *)
AdoptsMapping(d) == d \in mappings /\ d \notin mapped

AdoptNothing(d) ==                                               \* mutant
  UNCHANGED <<mapped, formatted>>

Adopt(d) ==
  IF AdoptsMapping(d)
  THEN \E type \in ClassifyMapped(d) :
         /\ mapped' = Put(mapped, d, type # "unreadable")
         /\ formatted' = [formatted EXCEPT ![d] = type = "xfs"]
  ELSE UNCHANGED <<mapped, formatted>>

MappingLost(d) == d \in mapped /\ d \notin mappings

InvalidMapping(d) == MappingLost(d) \/ \E s \in Scopes : DirectMounts(d, s) # {}

BeginLUKSSetup(d) ==
  /\ Adopt(d)
  /\ mountPath' = IF InvalidMapping(d) \/ d \notin mapped' THEN mountPath
                  ELSE [mountPath EXCEPT ![d] = Validate(d).found]
  /\ op' = IF InvalidMapping(d) \/ (d \in mapped' /\ ~Validate(d).ok) \/ ~Keys THEN "fail"
           ELSE IF d \notin luksFormatted THEN "luksFormat"
           ELSE IF d \notin mapped' THEN "luksOpen" ELSE "setup"
  /\ UNCHANGED <<hostVars, cache, broken, hasDevice, assignment, scope, todo, target,
                 mappings, hasLUKS, luksFormatted, mappingName>>

(* `cryptsetup luksFormat`, if the disk still looks empty. *)
LUKSFormat(d) ==
  /\ op = "luksFormat"
  /\ \/ /\ Accessible(d) /\ content[d] = "blank" /\ UNCHANGED faults
        /\ content' = [content EXCEPT ![d] = "luks"]
        /\ luksFormatted' = luksFormatted \cup {d}
        /\ op' = IF d \in mapped THEN "setup" ELSE "luksOpen"
     \/ /\ Fails("luksFormat", Accessible(d) /\ content[d] = "blank")
        /\ op' = "fail" /\ UNCHANGED <<content, luksFormatted>>
  /\ UNCHANGED <<devices, unreadable, inside, open, swiftID, stray, mounts, flags, upsets,
                 cache, fields, scope, todo, target, mappings, hasLUKS, mapped, mappingName>>

(* `cryptsetup luksOpen`, with one key after another; it fails if no key is  *)
(* accepted. *)
LUKSOpen(d) ==
  /\ op = "luksOpen"
  /\ \/ /\ CanOpen(d) /\ UNCHANGED faults
        /\ open' = open \cup {d}
        /\ mappings' = mappings \cup {d} /\ mappingName' = mappingName \cup {d}
        /\ op' = "descend"
     \/ /\ Fails("luksOpen", CanOpen(d))
        /\ op' = "fail" /\ UNCHANGED <<open, mappings, mappingName>>
  /\ UNCHANGED <<devices, unreadable, content, inside, swiftID, stray, mounts, flags, upsets,
                 cache, fields, scope, todo, target, hasLUKS, luksFormatted, mapped>>

Descend(d) ==
  /\ op = "descend"
  /\ \E type \in ClassifyMapped(d) :
       /\ mapped' = Put(mapped, d, type # "unreadable")
       /\ formatted' = [formatted EXCEPT ![d] = type = "xfs"]
       /\ op' = IF type = "unreadable" THEN "fail" ELSE "setup"
  /\ UNCHANGED <<hostVars, cache, broken, hasDevice, mountPath, assignment,
                 scope, todo, target, mappings, hasLUKS, luksFormatted, mappingName>>

SetupInside(d) ==
  /\ op = "setup" /\ BeginSetup(d) /\ UNCHANGED luksVars

-----------------------------------------------------------------------------
(* LUKSDevice.Teardown: the container is closed when the filesystem inside  *)
(* is torn down, if this process has opened it.                             *)

AfterFilesystem(d) == IF d \in mappingName THEN "close" ELSE "done"

LeaveOpen(d) ==                                                  \* mutant
  op = "teardown" /\ TornDown(d, "done") /\ UNCHANGED luksVars

FilesystemTornDown(d) ==
  /\ op = "teardown"
  /\ IF d \in hasLUKS
     THEN /\ TornDown(d, AfterFilesystem(d))
          /\ mapped' = IF scope = "local" THEN mapped \ {d} ELSE mapped
          /\ UNCHANGED <<mappings, hasLUKS, luksFormatted, mappingName>>
     ELSE TornDown(d, "done") /\ UNCHANGED luksVars

(* `cryptsetup close`; the cached entry stays until the next iteration. *)
LUKSClose(d) ==
  /\ op = "close" /\ op' = "done"
  /\ \/ /\ CanClose(d) /\ UNCHANGED faults
        /\ open' = open \ {d} /\ mappingName' = mappingName \ {d}
     \/ Fails("luksClose", CanClose(d)) /\ UNCHANGED <<open, mappingName>>
  /\ UNCHANGED <<devices, unreadable, content, inside, swiftID, stray, mounts, flags, upsets,
                 cache, fields, scope, todo, target, mappings, hasLUKS, luksFormatted, mapped>>

-----------------------------------------------------------------------------
(* Drive.Converge and Drive.Teardown on either kind of Device.              *)

Setup(d) ==
  IF d \in hasLUKS THEN BeginLUKSSetup(d) ELSE BeginSetup(d) /\ UNCHANGED luksVars

Teardown(d) ==
  IF d \in hasLUKS /\ d \notin mapped
  THEN op' = AfterFilesystem(d) /\ UNCHANGED <<scope, todo, target>>
  ELSE BeginTeardown(d)

(* Setup has returned false: the drive is flagged and torn down. *)
GiveUpMounted(d) ==                                              \* mutant
  /\ op = "fail"
  /\ MarkAsBroken(d)
  /\ op' = "done"
  /\ UNCHANGED <<disks, mounts, durable, propagation, flagReady, upsets, cache,
                 hasDevice, formatted, mountPath, scope, todo, target, luksVars>>

GiveUp(d) ==
  /\ op = "fail"
  /\ MarkAsBroken(d)
  /\ Teardown(d)
  /\ UNCHANGED <<disks, mounts, durable, propagation, flagReady, upsets, cache,
                 hasDevice, formatted, mountPath, luksVars>>

(* The commands that follow the beginning of a setup or of a teardown. *)
DeviceStep(d) ==
  \/ XFSStep(d) /\ UNCHANGED luksVars
  \/ LUKSFormat(d) \/ LUKSOpen(d) \/ Descend(d) \/ SetupInside(d)
  \/ FilesystemTornDown(d) \/ LUKSClose(d) \/ GiveUp(d)
=============================================================================

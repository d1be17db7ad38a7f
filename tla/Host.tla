-------------------------------- MODULE Host --------------------------------
(***************************************************************************)
(* The machine that the autopilot runs on, as the functions of pkg/os see  *)
(* it: the disks and their contents, the kernel's mount tables, the flag   *)
(* files below /run and /var/lib, and what an operator or a failing disk   *)
(* may do to them.                                                         *)
(***************************************************************************)
EXTENDS Naturals, FiniteSets, SequencesExt

CONSTANTS
  Drives,      \* device files, numbered in the order of their paths
  IDs,         \* swift-ids, other than the special id Spare
  SwiftIDs,    \* what a swift-id file may hold at first
  DistinctIDs, \* no two disks hold the same swift-id at first
  Edits,       \* edits of swift-id files: pairs of an old and a new content
  Contents,    \* what a disk may contain at first: "blank", "xfs" or "luks"
  ChrootMount, \* how the chroot's bind mount propagates, or "none"
  Faults,      \* commands that may fail on a healthy disk
  MaxFaults,   \* bound: how many commands fail for no visible reason
  Upsets,      \* what happens to the machine from outside
  MaxUpsets,   \* bound: how many such upsets happen
  MinDevices   \* so many device files are there at any time

Spare == "spare"
NoID == ""

Commands == {"mount", "umount", "mkfs", "ln", "read", "write",
             "luksFormat", "luksOpen", "luksClose"}
UpsetKinds == {"edit", "umount", "close", "readonly", "diskerror", "unplug", "plug",
               "fail", "reinstate", "durable", "crash", "reboot"}

ASSUME HostAssumption ==
  /\ Drives \subseteq Nat \ {0} /\ IsFiniteSet(Drives)
  /\ {Spare, NoID} \cap IDs = {}
  /\ SwiftIDs \subseteq IDs \cup {Spare, NoID} /\ NoID \in SwiftIDs
  /\ DistinctIDs \in BOOLEAN
  /\ Edits \subseteq (IDs \cup {Spare, NoID}) \X (IDs \cup {Spare, NoID})
  /\ Contents \subseteq {"blank", "xfs", "luks"} /\ Contents # {}
  /\ ChrootMount \in {"none", "shared", "slave", "private"}
  /\ Faults \subseteq Commands /\ MaxFaults \in Nat
  /\ Upsets \subseteq UpsetKinds /\ MaxUpsets \in Nat /\ MinDevices \in Nat

(* detectMountPropagationMode: without a chroot there is one mount namespace;*)
(* with one, mounts show up in the process's own namespace if the optional  *)
(* fields of the chroot's mount say so.                                     *)
Chroot == ChrootMount # "none"
MountPropagationMode ==
  CASE ~Chroot -> "identical"
    [] ChrootMount \in {"shared", "slave"} -> "connected"
    [] OTHER -> "separate"

Scopes == {"host", "local"}

Run(d) == <<"run", d>>                 \* /run/swift-storage/$DriveID
Srv(id) == <<"srv", id>>               \* /srv/node/$id
NoPath == <<>>
SrvPaths == {Srv(id) : id \in IDs}
Paths == {Run(d) : d \in Drives} \cup SrvPaths

MountPoint == [dev : Drives, path : Paths, ro : BOOLEAN]

VARIABLES
  devices,      \* device files that match the configured globs right now
  unreadable,   \* disks that answer every access with an I/O error
  content,      \* "blank", "xfs" or "luks", per disk
  inside,       \* what a disk's LUKS container holds: "blank" or "xfs"
  open,         \* disks whose LUKS container is open as /dev/mapper/$DriveID
  swiftID,      \* the swift-id file in the disk's filesystem (NoID: no file)
  stray,        \* swift-id files written to a directory nothing is mounted on
  mounts,       \* the kernel's mount table, oldest mount first, per scope
  transient,    \* drives flagged in /run/swift-storage/broken
  durable,      \* drives flagged in /var/lib/swift-storage/broken
  propagation,  \* ids flagged in /run/swift-storage/state/unmount-propagation
  flagReady,    \* /run/swift-storage/state/flag-ready exists
  faults,       \* unexplained command failures so far
  upsets        \* upsets so far

flags == <<transient, durable, propagation, flagReady>>
disks == <<devices, unreadable, content, inside, open, swiftID, stray>>
hostVars == <<disks, mounts, flags, faults, upsets>>

HostTypeOK ==
  /\ devices \subseteq Drives /\ unreadable \subseteq Drives
  /\ content \in [Drives -> {"blank", "xfs", "luks"}]
  /\ inside \in [Drives -> {"blank", "xfs"}] /\ open \subseteq Drives
  /\ swiftID \in [Drives -> IDs \cup {Spare, NoID}]
  /\ stray \in [Paths -> IDs \cup {Spare, NoID}]
  /\ mounts \in [Scopes -> Seq(MountPoint)]
  /\ transient \subseteq Drives /\ durable \subseteq Drives
  /\ propagation \subseteq IDs /\ flagReady \in BOOLEAN
  /\ faults \in Nat /\ upsets \in Nat

HostInit ==
  /\ devices \in SUBSET Drives /\ Cardinality(devices) >= MinDevices
  /\ unreadable = {}
  /\ content \in [Drives -> Contents] /\ swiftID \in [Drives -> SwiftIDs]
  /\ inside = [d \in Drives |-> IF content[d] = "luks" THEN "xfs" ELSE "blank"]
  /\ open = {}
  /\ \A d \in Drives : content[d] = "blank" => swiftID[d] = NoID
  /\ DistinctIDs => \A d, e \in Drives :
       d # e /\ swiftID[d] \in IDs => swiftID[e] # swiftID[d]
  /\ stray = [p \in Paths |-> NoID]
  /\ mounts = [s \in Scopes |-> <<>>]
  /\ transient = {} /\ durable = {} /\ propagation = {} /\ flagReady = FALSE
  /\ faults = 0 /\ upsets = 0

-----------------------------------------------------------------------------
(* Commands.  A command on a disk that is gone or unreadable fails; any     *)
(* command named in Faults may also fail for no visible reason.             *)

Accessible(d) == d \in devices /\ d \notin unreadable

(* The filesystem of an encrypted disk is behind its open LUKS container.   *)
Encrypted(d) == content[d] = "luks"
Filesystem(d) == IF Encrypted(d) THEN inside[d] ELSE content[d]
Reachable(d) == Accessible(d) /\ (Encrypted(d) => d \in open)

Fault(cmd) == cmd \in Faults /\ faults < MaxFaults /\ faults' = faults + 1

Fails(cmd, possible) == (~possible /\ UNCHANGED faults) \/ Fault(cmd)

-----------------------------------------------------------------------------
(* Mount tables.  In one shared namespace a (u)mount shows up in both       *)
(* scopes; `umount` takes the newest mount off the path.                    *)

Affected(scope) == IF MountPropagationMode = "separate" THEN {scope} ELSE Scopes

OnPath(tbl, p) == {i \in DOMAIN tbl : tbl[i].path = p}

Newest(tbl, p) == CHOOSE i \in OnPath(tbl, p) : \A j \in OnPath(tbl, p) : j <= i

KernelMount(d, p, scope) ==
  mounts' = [s \in Scopes |->
    IF s \in Affected(scope)
    THEN Append(mounts[s], [dev |-> d, path |-> p, ro |-> FALSE])
    ELSE mounts[s]]

(* What `mount $device $path` needs: a readable XFS disk that is not on top  *)
(* of that very path already.                                               *)
CanMount(d, p, scope) ==
  /\ Reachable(d) /\ Filesystem(d) = "xfs"
  /\ \A i \in OnPath(mounts[scope], p) :
       i = Newest(mounts[scope], p) => mounts[scope][i].dev # d

Unmounted(tbl, p) ==
  IF OnPath(tbl, p) = {} THEN tbl ELSE RemoveAt(tbl, Newest(tbl, p))

KernelUmount(p, scope) ==
  mounts' = [s \in Scopes |->
    IF s \in Affected(scope) THEN Unmounted(mounts[s], p) ELSE mounts[s]]

CanUmount(p, scope) == OnPath(mounts[scope], p) # {}

(* The swift-id file below a path, seen from the autopilot's own namespace:  *)
(* the newest mount there hides everything below it.                        *)
ReadSwiftID(p) ==
  LET tbl == mounts["local"]
  IN IF OnPath(tbl, p) = {} THEN stray[p] ELSE swiftID[tbl[Newest(tbl, p)].dev]

CanAccess(p) ==
  LET tbl == mounts["local"]
  IN OnPath(tbl, p) # {} => Reachable(tbl[Newest(tbl, p)].dev)

WriteBesideTheMount(p, id) ==                                    \* mutant
  stray' = [stray EXCEPT ![p] = id] /\ UNCHANGED swiftID

WriteSwiftID(p, id) ==
  LET tbl == mounts["local"]
  IN IF OnPath(tbl, p) = {}
     THEN stray' = [stray EXCEPT ![p] = id] /\ UNCHANGED swiftID
     ELSE /\ swiftID' = [swiftID EXCEPT ![tbl[Newest(tbl, p)].dev] = id]
          /\ UNCHANGED stray

-----------------------------------------------------------------------------
(* LUKS containers.  A container that is mounted somewhere is busy.         *)

IsMounted(d) == \E s \in Scopes : \E i \in DOMAIN mounts[s] : mounts[s][i].dev = d

CanOpen(d) == Accessible(d) /\ Encrypted(d) /\ d \notin open
CanClose(d) == d \in open /\ ~IsMounted(d)

-----------------------------------------------------------------------------
(* Upsets: what an operator, the kernel or the hardware does.               *)

Upset(kind) == kind \in Upsets /\ upsets < MaxUpsets /\ upsets' = upsets + 1

(* An operator edits the swift-id file of a disk. *)
EditSwiftID == Upset("edit") /\ \E d \in Drives, e \in Edits :
  /\ Reachable(d) /\ Filesystem(d) = "xfs" /\ swiftID[d] = e[1]
  /\ swiftID' = [swiftID EXCEPT ![d] = e[2]]
  /\ UNCHANGED <<devices, unreadable, content, inside, open, stray, mounts, flags, faults>>

(* Somebody unmounts a disk behind the autopilot's back. *)
ExternalUmount == Upset("umount") /\ \E s \in Scopes, p \in Paths :
  /\ CanUmount(p, s)
  /\ KernelUmount(p, s)
  /\ UNCHANGED <<disks, flags, faults>>

(* Somebody closes a LUKS container behind the autopilot's back. *)
ExternalClose == Upset("close") /\ \E d \in Drives :
  /\ CanClose(d)
  /\ open' = open \ {d}
  /\ UNCHANGED <<devices, unreadable, content, inside, swiftID, stray, mounts, flags, faults>>

(* The kernel remounts a filesystem read-only after a disk error. *)
RemountReadonly == Upset("readonly") /\ \E d \in Drives :
  /\ \E s \in Scopes : \E i \in DOMAIN mounts[s] :
       mounts[s][i].dev = d /\ ~mounts[s][i].ro
  /\ mounts' = [s \in Scopes |-> [i \in DOMAIN mounts[s] |->
       IF mounts[s][i].dev = d THEN [mounts[s][i] EXCEPT !.ro = TRUE]
                               ELSE mounts[s][i]]]
  /\ UNCHANGED <<disks, flags, faults>>

(* A device file disappears; what is mounted or opened from it stays so. *)
Unplug == Upset("unplug") /\ \E d \in devices :
  /\ Cardinality(devices) > MinDevices
  /\ devices' = devices \ {d}
  /\ UNCHANGED <<unreadable, content, inside, open, swiftID, stray, mounts, flags, faults>>

(* A device file appears (again). *)
Plug == Upset("plug") /\ \E d \in Drives \ devices :
  /\ devices' = devices \cup {d}
  /\ UNCHANGED <<unreadable, content, inside, open, swiftID, stray, mounts, flags, faults>>

(* A disk dies: its device file stays, but nothing can be read from it. *)
FailDisk == Upset("fail") /\ \E d \in devices \ unreadable :
  /\ unreadable' = unreadable \cup {d}
  /\ UNCHANGED <<devices, content, inside, open, swiftID, stray, mounts, flags, faults>>

(* An operator deletes a broken-flag to reinstate a drive. *)
DeleteFlag == Upset("reinstate") /\ \E d \in Drives :
  /\ \/ d \in transient /\ transient' = transient \ {d} /\ UNCHANGED durable
     \/ d \in durable /\ durable' = durable \ {d} /\ UNCHANGED transient
  /\ UNCHANGED <<disks, mounts, propagation, flagReady, faults>>

(* An operator flags a drive as broken across reboots. *)
CreateDurableFlag == Upset("durable") /\ \E d \in Drives \ durable :
  /\ durable' = durable \cup {d}
  /\ UNCHANGED <<disks, mounts, transient, propagation, flagReady, faults>>

HostUpset ==
  \/ EditSwiftID \/ ExternalUmount \/ ExternalClose \/ RemountReadonly \/ Unplug \/ Plug
  \/ FailDisk \/ DeleteFlag \/ CreateDurableFlag

(* A reboot clears the mount table, all mappings and everything below /run. *)
HostReboot ==
  /\ mounts' = [s \in Scopes |-> <<>>] /\ open' = {}
  /\ transient' = {} /\ propagation' = {} /\ flagReady' = FALSE
  /\ UNCHANGED <<devices, unreadable, content, inside, swiftID, stray, durable, faults>>
=============================================================================

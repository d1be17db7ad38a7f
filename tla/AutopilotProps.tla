--------------------------- MODULE AutopilotProps ---------------------------
(***************************************************************************)
(* What is asked of the whole program.  Which runs check which property,   *)
(* and which upsets a property survives, is said in the README.            *)
(***************************************************************************)
EXTENDS Autopilot

Entries == UNION {{mounts[s][i] : i \in DOMAIN mounts[s]} : s \in Scopes}
MountedAt(d, p) == \E m \in Entries : m.dev = d /\ m.path = p

Valid(d) == assignment[d].error = "none" /\ assignment[d].id # Spare

(* The converger waits for events, between two iterations of its loop.      *)
AtRest == phase = "wait"

-----------------------------------------------------------------------------
(* Safety                                                                   *)

(* No two drives whose swift-ids were read (or given) by the same update of *)
(* the assignments are both assigned to the same swift-id: the two loops of *)
(* UpdateDriveAssignments detect every collision among the drives found and *)
(* never give out an id that is in use, whatever was read before.           *)
UniqueAssignments ==
  \A d, e \in scanned :
    d # e /\ Valid(d) /\ Valid(e) => assignment[d].id # assignment[e].id

(* Converger.Drives lists a device at most once.  DriveAddedEvent.Handle    *)
(* appends without looking; it is the collector's map of known drives, its  *)
(* order of removals before additions, and the channel's order that keep a  *)
(* replugged drive from being listed (and set up, and counted) twice.       *)
DrivesDistinct == IsInjective(drives)

(* Once all that the collectors had to tell has been handled, the converger *)
(* knows exactly the drives that the drive collector knows: no removal is   *)
(* overtaken by the addition that follows it, and no drive that the drive   *)
(* collector believes to be announced has been lost on the way.             *)
CaughtUp ==
  AtRest /\ outbox = <<>> /\ queue = <<>> => Known = knownDrives

(* No drive is ever mounted over another one.                               *)
NoOvermount ==
  \A s \in Scopes : \A i, j \in DOMAIN mounts[s] :
    i # j => mounts[s][i].path # mounts[s][j].path

(* A drive mounted at /srv/node/$id carries that very swift-id, at every    *)
(* moment: Swift never finds another disk's objects below an id.            *)
ServesOwnID ==
  \A m \in Entries : m.path \in SrvPaths => m.path = Srv(swiftID[m.dev])

(* Between two iterations no drive that is broken is mounted anywhere.      *)
BrokenUnmounted ==
  AtRest => \A d \in Known : broken[d] => ~IsMounted(d)

(* The containers that the Devices of this process have opened, and not     *)
(* those that they have found open.                                         *)
OwnContainers == open \cap mappingName

(* Between two iterations no container that this process has opened is left *)
(* open of a drive of the list that is broken (drive.go:89-90: "any         *)
(* existing mappings or mounts will be teared down").                       *)
OwnContainersClosed ==
  AtRest => \A d \in Known : broken[d] => d \notin OwnContainers

(* Between two iterations no healthy drive is mounted at a path below       *)
(* /srv/node that other containers are still told to unmount.               *)
PropagationCleared ==
  AtRest => \A id \in propagation : \A d \in Known :
    broken[d] \/ ~MountedAt(d, Srv(id))

(* The autopilot takes a mount below /srv/node down only when the drive is  *)
(* broken or gone, and it has told the other containers before.             *)
UnmountsAnnounced ==
  [][Converger =>
       \A m \in Entries :
         (m.path \in SrvPaths /\ ~MountedAt(m.dev, m.path)') =>
            /\ broken[m.dev] \/ (batch.kind = "removed" /\ Head(batch.devs) = m.dev)
            /\ \E id \in propagation : m.path = Srv(id)]_vars

(* An id of the pool is never given to a drive while another disk that is   *)
(* plugged in carries it: the scan has seen all ids that there are.         *)
AssignsUnusedID ==
  [][Assign => \A d \in Drives :
       swiftID'[d] # swiftID[d] /\ swiftID'[d] \in IDs =>
         \A e \in devices \ {d} : swiftID[e] # swiftID'[d]]_vars

(* A swift-id once written to a disk stays there until an operator edits it.*)
KeepsSwiftIDs ==
  [][~Environment => \A d \in Drives : swiftID[d] # NoID => swiftID'[d] = swiftID[d]]_vars

(* What the two loops of UpdateDriveAssignments are for, without the loops: *)
(* the ids that can be read decide, together, about all assignments.        *)
SameID(d) == {e \in scanned : ReadSwiftID(mountPath[e]) = ReadSwiftID(mountPath[d])}
AssignmentOf(d) ==
  LET id == ReadSwiftID(mountPath[d])
  IN IF id = Spare THEN Assigned(Spare)
     ELSE IF id = NoID THEN Invalid(NoID, IF Pool = <<>> THEN "missing"
                                       ELSE IF HasBrokenDrives THEN "blocked" ELSE "pending")
     ELSE IF SameID(d) # {d} THEN Invalid(id, "duplicate")
     ELSE IF Mismatch(d, id) THEN Invalid(id, "mismatch") ELSE Assigned(id)
AssignmentsAsDeclared ==
  phase = "scan" /\ at > Len(drives) => \A d \in scanned : assignment[d] = AssignmentOf(d)

AtEndOfPass2 == phase = "pass2" /\ at > Len(drives)

(* The audit that swift-recon reads tells the truth: there is an entry for  *)
(* every drive; the ones without an error are just the paths where a drive  *)
(* is mounted, and the sum of the others is the number of broken drives.    *)
AuditTruthful ==
  AtEndOfPass2 =>
    /\ \A p \in DOMAIN DriveAudit :
         DriveAudit[p] = 0 <=> \E d \in Known : MountedAt(d, p)
    /\ DriveAuditErrors = Cardinality({p \in DOMAIN DriveAudit : DriveAudit[p] = 1})
    /\ \A d \in Known : IsMounted(d) => \E p \in DOMAIN DriveAudit : MountedAt(d, p)

(* No mount below /srv/node goes unnoticed: when an iteration ends, what is *)
(* mounted there is either a drive of the list at its path, or reported;    *)
(* also what an earlier process has left behind of a drive that is gone.    *)
OrphansReported ==
  AtEndOfPass2 => \A i \in DOMAIN mounts["host"] :
    LET m == mounts["host"][i]
    IN m.path \in SrvPaths =>
         (m.dev \in Known /\ MountPath(m.dev) = m.path) \/ m.path \in UnexpectedMounts

(* Ids are given out in the order in which the pool lists them, spares      *)
(* included, also when the process ends in between: at any time the ids on  *)
(* the disks are a prefix of the pool.                                      *)
OnDisk(k) ==
  \E d \in Drives : swiftID[d] = Pool[k] /\
    (Pool[k] = Spare => Cardinality({e \in Drives : swiftID[e] = Spare}) > PoolName(k)[2])
PoolOrder ==
  \A k \in DOMAIN Pool : OnDisk(k) => \A j \in 1 .. k : OnDisk(j)

(* Nothing but a fault of a disk, a command or a mount makes a drive broken;*)
(* in particular a process that ended at any point leaves a state behind    *)
(* that the next one recognises (with one shared mount namespace).          *)
NoFalseAlarm == \A d \in Drives : ~broken[d]

(* A drive with an error in the kernel log is unmounted from /srv/node, "the*)
(* other mappings and mounts are left intact for the administrator to       *)
(* inspect" (README.md:45-47): its container stays open.                    *)
LeavesMappingsIntact == [][Converger => open \subseteq open']_vars

(* The process does not panic over a single bad drive (README.md:64-67).    *)
KeepsGoing == ToConverge /\ broken[Current] => hasDevice[Current]

-----------------------------------------------------------------------------
(* Refinement                                                               *)

ServedAt(id) == {m.dev : m \in {m \in Entries : m.path = Srv(id)}}

P == INSTANCE Placement WITH
       Disks <- Drives, Names <- IDs,
       present <- devices, label <- swiftID, serving <- [id \in IDs |-> ServedAt(id)],
       failed <- {d \in Drives : broken[d]}, told <- propagation,
       busy <- phase \notin {"wait", "dead"}

(* To Swift, the program does what module Placement says: every mount,      *)
(* unmount, flag and swift-id file that changes is one of its steps.        *)
ImplementsPlacement == P!Spec

(* What the events on their way say of drives: those left of the batch that *)
(* is being handled (an addition is on the list while the new drive is set  *)
(* up), those in the channel, and those that the collector has yet to send. *)
InHand ==
  IF batch.kind = "added" /\ op # "idle" THEN Tail(batch.devs) ELSE batch.devs
DriveNews(kind, devs) ==
  IF kind \in {"added", "removed"}
  THEN [i \in DOMAIN devs |-> [change |-> kind, disk |-> devs[i]]] ELSE <<>>
Unread ==
  LET sent == queue \o outbox
  IN DriveNews(batch.kind, InHand)
       \o FlattenSeq([i \in DOMAIN sent |-> DriveNews(sent[i].kind, sent[i].devs)])

L == INSTANCE DriveList WITH
       Disks <- Drives, found <- knownDrives, news <- Unread, list <- drives

(* Collectors, channel and handlers deliver every change of the set of      *)
(* device files to the converger, exactly once and in order (as long as     *)
(* every new device file can be read when it is found).                     *)
ImplementsDriveList == L!Spec

-----------------------------------------------------------------------------
(* Liveness                                                                 *)

SettledPlugged(d) ==
  /\ d \in Known
  /\ IF broken[d] THEN ~IsMounted(d) /\ d \notin OwnContainers
     ELSE /\ \A s \in Scopes : \E i \in DOMAIN mounts[s] :
               mounts[s][i].dev = d /\ mounts[s][i].path = mountPath[d]
          /\ \A m \in Entries : m.dev = d => m.path = mountPath[d]
          /\ AtRest => mountPath[d] = MountPath(d)

(* Once the environment leaves the machine alone, and as long as there is a *)
(* drive at all, the autopilot brings every drive that is plugged in to a   *)
(* state where it is either mounted (just where it is meant to be) or       *)
(* broken and unmounted, and forgets every drive that is gone.              *)
Settles ==
  <>[](devices # {} =>
         /\ \A d \in devices : SettledPlugged(d)
         /\ \A d \in Drives \ devices : d \notin Known)

(* When an operator deletes the last broken-flag of a broken drive, the     *)
(* drive is reinstated, or flagged anew (collectors.go:108-110).            *)
DeletedFlagNoticed ==
  \A d \in Drives :
    (d \in Known /\ broken[d] /\ d \notin transient \cup durable) ~>
      ~(d \in Known /\ broken[d] /\ d \notin transient \cup durable)

(* When the device file of a drive that the autopilot knows disappears, its *)
(* mounts are taken down and it is forgotten (README.md:42-43), unless it   *)
(* comes back or the process ends before that.                              *)
RemovedIsUnmounted ==
  \A d \in Drives :
    (d \in Known \ devices) ~>
      (d \in devices \/ ~Alive \/ (d \notin Known /\ ~IsMounted(d)))
=============================================================================

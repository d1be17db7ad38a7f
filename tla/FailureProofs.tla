---------------------------- MODULE FailureProofs ----------------------------
(***************************************************************************)
(* Theorems about the mounts: where a disk may be found while others fail, *)
(* are repaired and come back (FailureInv is the inductive invariant).     *)
(***************************************************************************)
EXTENDS AssignmentProofs

-----------------------------------------------------------------------------
(* Mount tables without a mount over another one.                           *)

PathsIn(tbl, d) == {tbl[i].path : i \in {j \in DOMAIN tbl : tbl[j].dev = d}}

OneEach(tbl) == \A i, j \in DOMAIN tbl : i # j => tbl[i].path # tbl[j].path

(* The entries of a table, by number.                                       *)
LEMMA EntryType ==
  ASSUME NEW tbl \in Seq(MountPoint)
  PROVE  /\ Len(tbl) \in Nat /\ DOMAIN tbl = 1 .. Len(tbl)
         /\ \A i \in 1 .. Len(tbl) :
              tbl[i] \in MountPoint /\ tbl[i].dev \in Drives /\ tbl[i].path \in Paths
         /\ \A d : PathsIn(tbl, d) \subseteq Paths
<1>1. Len(tbl) \in Nat /\ DOMAIN tbl = 1 .. Len(tbl)
  BY LenProperties
<1>2. \A i \in 1 .. Len(tbl) : tbl[i] \in MountPoint
  BY ElementOfSeq
<1>3. \A m \in MountPoint : m.dev \in Drives /\ m.path \in Paths
  BY DEF MountPoint
<1> QED BY <1>1, <1>2, <1>3 DEF PathsIn

(* There is a mount at a path if some drive is mounted there.               *)
LEMMA SomeoneThere ==
  ASSUME NEW tbl \in Seq(MountPoint), NEW p
  PROVE  OnPath(tbl, p) # {} <=> \E d \in Drives : p \in PathsIn(tbl, d)
BY EntryType DEF OnPath, PathsIn

(* Then it is the one that everybody sees there.                            *)
LEMMA OnlyMount ==
  ASSUME NEW tbl \in Seq(MountPoint), OneEach(tbl), NEW i \in 1 .. Len(tbl)
  PROVE  /\ OnPath(tbl, tbl[i].path) = {i} /\ Newest(tbl, tbl[i].path) = i
         /\ Unmounted(tbl, tbl[i].path) = RemoveAt(tbl, i)
         /\ RemoveMountPoint(tbl, tbl[i].path) = RemoveAt(tbl, i)
<1>1. DOMAIN tbl = 1 .. Len(tbl) /\ Len(tbl) \in Nat
  BY EntryType
<1>2. OnPath(tbl, tbl[i].path) = {i}
  BY <1>1 DEF OnPath, OneEach
<1>3. i <= i
  BY <1>1
<1>4. Newest(tbl, tbl[i].path) = i
  BY <1>2, <1>3 DEF Newest
<1>5. (CHOOSE j \in OnPath(tbl, tbl[i].path) : \A k \in OnPath(tbl, tbl[i].path) : j <= k) = i
  BY <1>2, <1>3
<1> QED BY <1>2, <1>4, <1>5, Zenon DEF Unmounted, RemoveMountPoint

(* `umount` of a path takes the drive there off its path, in the kernel's   *)
(* table as in a copy of it.                                                *)
LEMMA UmountPaths ==
  ASSUME NEW tbl \in Seq(MountPoint), OneEach(tbl), NEW p
  PROVE  /\ RemoveMountPoint(tbl, p) = Unmounted(tbl, p)
         /\ OneEach(Unmounted(tbl, p))
         /\ \A d : PathsIn(Unmounted(tbl, p), d) = PathsIn(tbl, d) \ {p}
<1>1. DOMAIN tbl = 1 .. Len(tbl) /\ Len(tbl) \in Nat
  BY EntryType
<1>2. CASE OnPath(tbl, p) = {}
  <2>1. RemoveMountPoint(tbl, p) = tbl /\ Unmounted(tbl, p) = tbl
    BY <1>2 DEF RemoveMountPoint, Unmounted
  <2>2. \A d : p \notin PathsIn(tbl, d)
    BY <1>2 DEF OnPath, PathsIn
  <2> QED BY <2>1, <2>2
<1>3. CASE OnPath(tbl, p) # {}
  <2>1. PICK i \in 1 .. Len(tbl) : tbl[i].path = p
    BY <1>1, <1>3 DEF OnPath
  <2> DEFINE r == RemoveAt(tbl, i)
  <2>2. RemoveMountPoint(tbl, p) = r /\ Unmounted(tbl, p) = r
    BY <2>1, OnlyMount
  <2>3. /\ r \in Seq(MountPoint) /\ Len(r) = Len(tbl) - 1
        /\ \A j \in 1 .. Len(tbl) - 1 : r[j] = IF j < i THEN tbl[j] ELSE tbl[j + 1]
    BY RemoveAtProperties
  <2> HIDE DEF r
  <2>4. DOMAIN r = 1 .. Len(tbl) - 1
    BY <2>3, EntryType
  <2>5. OneEach(r)
    <3>1. \A j, k \in 1 .. Len(tbl) : j # k => tbl[j].path # tbl[k].path
      BY <1>1 DEF OneEach
    <3>2. ASSUME NEW j \in 1 .. Len(tbl) - 1, NEW k \in 1 .. Len(tbl) - 1, j # k
          PROVE  r[j].path # r[k].path
      <4> DEFINE m == IF j < i THEN j ELSE j + 1
                 n == IF k < i THEN k ELSE k + 1
      <4>1. m \in 1 .. Len(tbl) /\ n \in 1 .. Len(tbl) /\ m # n
        BY <1>1, <3>2
      <4>2. r[j] = tbl[m] /\ r[k] = tbl[n]
        BY <2>3
      <4> QED BY <3>1, <4>1, <4>2
    <3> QED BY <2>4, <3>2 DEF OneEach
  <2>6. ASSUME NEW d
        PROVE  PathsIn(r, d) = PathsIn(tbl, d) \ {p}
    <3>1. ASSUME NEW j \in 1 .. Len(tbl) - 1, r[j].dev = d
          PROVE  r[j].path \in PathsIn(tbl, d) \ {p}
      <4> DEFINE m == IF j < i THEN j ELSE j + 1
      <4>1. m \in 1 .. Len(tbl) /\ m # i /\ r[j] = tbl[m]
        BY <1>1, <2>3
      <4>2. tbl[m].path # p
        BY <1>1, <2>1, <4>1 DEF OneEach
      <4> QED BY <1>1, <3>1, <4>1, <4>2 DEF PathsIn
    <3>2. ASSUME NEW m \in 1 .. Len(tbl), tbl[m].dev = d, tbl[m].path # p
          PROVE  tbl[m].path \in PathsIn(r, d)
      <4> DEFINE j == IF m < i THEN m ELSE m - 1
      <4>1. j \in 1 .. Len(tbl) - 1 /\ m = IF j < i THEN j ELSE j + 1
        BY <1>1, <2>1, <3>2
      <4>2. r[j] = tbl[m]
        BY <2>3, <4>1
      <4> QED BY <2>4, <3>2, <4>1, <4>2 DEF PathsIn
    <3> QED BY <1>1, <2>4, <3>1, <3>2 DEF PathsIn
  <2> QED BY <2>2, <2>5, <2>6
<1> QED BY <1>2, <1>3

(* `mount` on a path where there is nothing puts the drive there.           *)
LEMMA MountPaths ==
  ASSUME NEW tbl \in Seq(MountPoint), OneEach(tbl), NEW d \in Drives, NEW p \in Paths,
         NEW m \in MountPoint, m.dev = d, m.path = p, OnPath(tbl, p) = {}
  PROVE  /\ OneEach(Append(tbl, m))
         /\ \A e : PathsIn(Append(tbl, m), e) = PathsIn(tbl, e) \cup (IF e = d THEN {p} ELSE {})
<1> DEFINE a == Append(tbl, m)
           n == Len(tbl)
<1>1. n \in Nat /\ DOMAIN tbl = 1 .. n
  BY EntryType
<1>2. /\ a \in Seq(MountPoint) /\ Len(a) = n + 1 /\ a[n + 1] = m
      /\ \A i \in 1 .. n : a[i] = tbl[i]
  BY AppendProperties
<1> HIDE DEF a
<1>3. DOMAIN a = 1 .. n + 1
  BY <1>2, EntryType
<1>4. \A i \in 1 .. n + 1 : i \in 1 .. n \/ i = n + 1
  BY <1>1
<1>5. n + 1 \in 1 .. n + 1 /\ \A i \in 1 .. n : i \in 1 .. n + 1
  BY <1>1
<1>6. \A i \in 1 .. n : tbl[i].path # p
  BY <1>1 DEF OnPath
<1>7. OneEach(a)
  BY <1>1, <1>2, <1>3, <1>4, <1>6 DEF OneEach
<1>8. ASSUME NEW e
      PROVE  PathsIn(a, e) = PathsIn(tbl, e) \cup (IF e = d THEN {p} ELSE {})
  <2>1. \A q \in PathsIn(a, e) : q \in PathsIn(tbl, e) \/ (e = d /\ q = p)
    BY <1>1, <1>2, <1>3, <1>4 DEF PathsIn
  <2>2. \A q \in PathsIn(tbl, e) : q \in PathsIn(a, e)
    BY <1>1, <1>2, <1>3, <1>5 DEF PathsIn
  <2>3. e = d => p \in PathsIn(a, e)
    BY <1>2, <1>3, <1>5 DEF PathsIn
  <2> QED BY <2>1, <2>2, <2>3
<1> QED BY <1>7, <1>8 DEF a

-----------------------------------------------------------------------------
(* What the commands do to the paths that drives are mounted at.            *)

PathsOf(d, s) == PathsIn(mounts[s], d)

(* There is no mount over another one, and a namespace shared by both       *)
(* scopes has one table.                                                    *)
Tidy ==
  /\ \A s \in Scopes : OneEach(mounts[s])
  /\ MountPropagationMode # "separate" => mounts["host"] = mounts["local"]

LEMMA PathsType ==
  ASSUME HostTypeOK, NEW d, NEW s \in Scopes
  PROVE  mounts[s] \in Seq(MountPoint) /\ PathsOf(d, s) \subseteq Paths
BY EntryType DEF HostTypeOK, PathsOf

(* A mount at a path where no other drive is.                               *)
LEMMA MountEffect ==
  ASSUME HostTypeOK, Tidy, cache = mounts,
         NEW d \in Drives, NEW p \in Paths, NEW s \in Scopes, MountDevice(d, p, s),
         \A e \in Drives, t \in Scopes : p \in PathsOf(e, t) => e = d
  PROVE  /\ Tidy' /\ cache' = mounts'
         /\ \A e : \A t \in Scopes :
              PathsOf(e, t)' = PathsOf(e, t) \cup (IF e = d /\ t \in Affected(s) THEN {p} ELSE {})
         /\ p \notin PathsOf(d, s) => CanMount(d, p, s)
<1>1. GetMountPointsOf(d, s) = PathsOf(d, s)
  BY DEF GetMountPointsOf, MountsOf, PathsOf, PathsIn
<1>2. /\ \A t \in Affected(s) : t \in Scopes /\ mounts[t] = mounts[s]
      /\ MountPropagationMode # "separate" => Affected(s) = Scopes
  BY DEF Tidy, Affected, Scopes
<1>3. CASE p \in PathsOf(d, s)
  <2>1. UNCHANGED <<mounts, cache>>
    BY <1>1, <1>3 DEF MountDevice
  <2>2. \A t \in Affected(s) : p \in PathsOf(d, t)
    BY <1>2, <1>3 DEF PathsOf
  <2> QED BY <1>3, <2>1, <2>2 DEF Tidy, PathsOf
<1>4. CASE p \notin PathsOf(d, s)
  <2> DEFINE m == [dev |-> d, path |-> p, ro |-> FALSE]
  <2>1. /\ CanMount(d, p, s)
        /\ mounts' = [t \in Scopes |-> IF t \in Affected(s) THEN Append(mounts[t], m) ELSE mounts[t]]
        /\ cache' = [t \in Scopes |-> IF t \in Affected(s) THEN Append(cache[t], m) ELSE cache[t]]
    BY <1>1, <1>4 DEF MountDevice, KernelMount
  <2>2. m \in MountPoint /\ m.dev = d /\ m.path = p
    BY DEF MountPoint
  <2> HIDE DEF m
  <2>3. OnPath(mounts[s], p) = {}
    <3>1. \A e \in Drives : p \notin PathsIn(mounts[s], e)
      BY <1>4 DEF PathsOf
    <3> QED BY <3>1, PathsType, SomeoneThere
  <2>4. ASSUME NEW t \in Affected(s)
        PROVE  /\ OneEach(Append(mounts[t], m))
               /\ \A e : PathsIn(Append(mounts[t], m), e) =
                           PathsIn(mounts[t], e) \cup (IF e = d THEN {p} ELSE {})
    <3>1. mounts[t] \in Seq(MountPoint) /\ OneEach(mounts[t]) /\ OnPath(mounts[t], p) = {}
      BY <1>2, <2>3, PathsType DEF Tidy
    <3> QED BY <2>2, <3>1, MountPaths
  <2>5. \A t \in Scopes : OneEach(mounts'[t])
    BY <2>1, <2>4 DEF Tidy
  <2>6. MountPropagationMode # "separate" => mounts'["host"] = mounts'["local"]
    BY <1>2, <2>1 DEF Tidy, Scopes
  <2>7. ASSUME NEW e, NEW t \in Scopes
        PROVE  PathsOf(e, t)' = PathsOf(e, t) \cup (IF e = d /\ t \in Affected(s) THEN {p} ELSE {})
    BY <2>1, <2>4 DEF PathsOf
  <2> QED BY <2>1, <2>5, <2>6, <2>7 DEF Tidy, MountPropagationMode
<1> QED BY <1>3, <1>4

(* An unmount, by whoever.                                                  *)
LEMMA KernelUmountEffect ==
  ASSUME HostTypeOK, Tidy, NEW p, NEW s \in Scopes, KernelUmount(p, s)
  PROVE  /\ Tidy'
         /\ \A e : \A t \in Scopes :
              PathsOf(e, t)' = PathsOf(e, t) \ (IF t \in Affected(s) THEN {p} ELSE {})
<1>1. mounts' = [t \in Scopes |-> IF t \in Affected(s) THEN Unmounted(mounts[t], p) ELSE mounts[t]]
  BY DEF KernelUmount
<1>2. \A t \in Scopes : /\ OneEach(Unmounted(mounts[t], p))
                        /\ \A e : PathsIn(Unmounted(mounts[t], p), e) = PathsIn(mounts[t], e) \ {p}
  BY PathsType, UmountPaths DEF Tidy
<1>3. \A t \in Scopes : OneEach(mounts'[t])
  BY <1>1, <1>2 DEF Tidy
<1>4. MountPropagationMode # "separate" => mounts'["host"] = mounts'["local"]
  BY <1>1 DEF Tidy, Scopes, Affected
<1>5. ASSUME NEW e, NEW t \in Scopes
      PROVE  PathsOf(e, t)' = PathsOf(e, t) \ (IF t \in Affected(s) THEN {p} ELSE {})
  BY <1>1, <1>2 DEF PathsOf
<1> QED BY <1>3, <1>4, <1>5 DEF Tidy, MountPropagationMode

(* An unmount by the autopilot, which looks into its copy of the table and  *)
(* keeps it up to date.                                                     *)
LEMMA UmountEffect ==
  ASSUME HostTypeOK, Tidy, cache = mounts, NEW p, NEW s \in Scopes, UnmountDevice(p, s)
  PROVE  /\ Tidy' /\ cache' = mounts'
         /\ \A e : \A t \in Scopes :
              PathsOf(e, t)' = PathsOf(e, t) \ (IF t \in Affected(s) THEN {p} ELSE {})
<1>1. CASE OnPath(cache[s], p) = {}
  <2>1. UNCHANGED <<mounts, cache>>
    BY <1>1 DEF UnmountDevice
  <2>2. \A t \in Affected(s) : mounts[t] = mounts[s]
    BY DEF Tidy, Affected, Scopes
  <2>3. \A e : \A t \in Affected(s) : p \notin PathsOf(e, t)
    BY <1>1, <2>2 DEF PathsOf, PathsIn, OnPath
  <2> QED BY <2>1, <2>3 DEF Tidy, PathsOf
<1>2. CASE OnPath(cache[s], p) # {}
  <2>1. /\ KernelUmount(p, s)
        /\ cache' = [t \in Scopes |->
             IF t \in Affected(s) THEN RemoveMountPoint(cache[t], p) ELSE cache[t]]
    BY <1>2 DEF UnmountDevice
  <2>2. \A t \in Scopes : RemoveMountPoint(mounts[t], p) = Unmounted(mounts[t], p)
    BY PathsType, UmountPaths DEF Tidy
  <2>3. cache' = mounts'
    BY <2>1, <2>2 DEF KernelUmount
  <2> QED BY <2>1, <2>3, KernelUmountEffect
<1> QED BY <1>1, <1>2

LEMMA UmountWorks ==
  ASSUME cache = mounts, "umount" \notin Faults, NEW p, NEW s
  PROVE  ~UnmountFails(p, s)
BY DEF UnmountFails, Fails, Fault, CanUmount

(* A read-only mount is where it was.                                       *)
LEMMA ReadonlyEffect ==
  ASSUME HostTypeOK, Tidy, RemountReadonly
  PROVE  Tidy' /\ \A e : \A t \in Scopes : PathsOf(e, t)' = PathsOf(e, t)
<1>1. PICK d \in Drives :
        mounts' = [s \in Scopes |-> [i \in DOMAIN mounts[s] |->
          IF mounts[s][i].dev = d THEN [mounts[s][i] EXCEPT !.ro = TRUE] ELSE mounts[s][i]]]
  BY DEF RemountReadonly
<1>2. ASSUME NEW s \in Scopes
      PROVE  /\ DOMAIN mounts'[s] = DOMAIN mounts[s]
             /\ \A i \in DOMAIN mounts[s] : /\ mounts'[s][i].dev = mounts[s][i].dev
                                            /\ mounts'[s][i].path = mounts[s][i].path
  <2>1. \A i \in DOMAIN mounts[s] : mounts[s][i] \in MountPoint
    BY PathsType, EntryType
  <2>2. mounts'[s] = [i \in DOMAIN mounts[s] |->
          IF mounts[s][i].dev = d THEN [mounts[s][i] EXCEPT !.ro = TRUE] ELSE mounts[s][i]]
    BY <1>1
  <2>3. \A m \in MountPoint : [m EXCEPT !.ro = TRUE].dev = m.dev /\ [m EXCEPT !.ro = TRUE].path = m.path
    BY DEF MountPoint
  <2> QED BY <2>1, <2>2, <2>3
<1>3. \A s \in Scopes : OneEach(mounts'[s])
  BY <1>2 DEF Tidy, OneEach
<1>4. MountPropagationMode # "separate" => mounts'["host"] = mounts'["local"]
  BY <1>1 DEF Tidy, Scopes
<1>5. \A e : \A t \in Scopes : PathsOf(e, t)' = PathsOf(e, t)
  BY <1>2 DEF PathsOf, PathsIn
<1> QED BY <1>3, <1>4, <1>5 DEF Tidy, MountPropagationMode

-----------------------------------------------------------------------------
(* The inductive invariant.  It takes a machine on which disks do not       *)
(* become unreadable or vanish, reading a swift-id and unmounting do not    *)
(* fail without a reason, an operator edits the swift-ids of spare disks    *)
(* only, and swift-ids and mounts are not touched while the converger is at *)
(* work.  The other upsets and faults may happen, crashes and reboots at    *)
(* any point and any number of times.  With encryption, the process ends    *)
(* with the machine only, an operator either creates durable flags or       *)
(* deletes flags, and nobody closes a container behind the converger that   *)
(* is at work: a teardown leaves an encrypted drive mounted whose container *)
(* this process has neither opened nor adopted.                             *)
Calm ==
  /\ {"read", "umount"} \cap Faults = {} /\ {"fail", "unplug"} \cap Upsets = {}
  /\ Edits \subseteq {Spare} \X IDs /\ Undisturbed
  /\ Keys => /\ "crash" \notin Upsets /\ ~({"reinstate", "durable"} \subseteq Upsets)
             /\ MidPass => "close" \notin Upsets

WorksOn(d) == op # "idle" /\ d = Current
HasID(d) == ~broken[d] /\ Valid(d)

MountedSomewhere(d) == \E s \in Scopes : PathsOf(d, s) # {}

(* The open containers are those of known drives, all of them are seen, and *)
(* only an encrypted disk has something inside.                             *)
Contained ==
  /\ unreadable = {} /\ (~Keys => open = {} /\ mappings = {})
  /\ open \subseteq Known /\ \A d \in open \cup mappings : content[d] = "luks"
  /\ phase \notin {"wait", "dead"} => open \subseteq mappings
  /\ \A d \in Drives : content[d] # "luks" => inside[d] = "blank"

(* What is known of a drive agrees with what is on the disk.                *)
Classified ==
  \A d \in Known :
    /\ d \in hasLUKS <=> content[d] = "luks" \/ (content[d] = "blank" /\ Keys)
    /\ d \in luksFormatted <=> content[d] = "luks"
    /\ d \in mapped => content[d] = "luks"

(* A mounted container is this process's own, unless it is about to be.     *)
Opened ==
  \A d \in Known : d \in hasLUKS /\ d \notin mapped =>
    /\ mountPath[d] = NoPath
    /\ MountedSomewhere(d) => WorksOn(d) /\ op = "converge" /\ ~broken[d]

LuksJob ==
  op # "idle" =>
    /\ op \in {"format", "unmount", "mount", "clear", "teardown", "umount", "setup"} =>
         (Current \in hasLUKS => Current \in mapped)
    /\ op \in {"luksFormat", "luksOpen", "descend", "setup", "close"} => Current \in hasLUKS
    /\ op \in {"luksOpen", "descend", "setup"} => content[Current] = "luks"
    /\ op \in {"luksOpen", "descend", "luksFormat"} => Current \notin mapped
    /\ op \in {"luksFormat", "luksOpen", "descend", "setup"} => Keys
    /\ op = "luksFormat" => content[Current] = "blank"

(* A drive is reinstated for good, or the drive that is found broken again  *)
(* has been taken down.                                                     *)
NoneReinstated(bs) == \A i \in DOMAIN bs : bs[i].kind # "reinstated"
Retaken ==
  Keys =>
    /\ "reinstate" \in Upsets => durable = {} /\ \A d \in Known : d \in transient => broken[d]
    /\ "reinstate" \notin Upsets =>
         /\ held = <<>> /\ brokenDevices \subseteq transient \cup durable
         /\ batch.kind # "reinstated" /\ NoneReinstated(queue) /\ NoneReinstated(outbox)
    /\ phase = "handle" /\ batch.kind = "reinstated" =>
         \A d \in Known : broken[d] /\ ~WorksOn(d) => ~MountedSomewhere(d)

LuksInv == Contained /\ Classified /\ Opened /\ LuksJob /\ Retaken

BlankUnnamed == \A d \in Drives : Filesystem(d) = "blank" => swiftID[d] = NoID

(* A disk is mounted at its own temporary path or at that of its swift-id,  *)
(* no two disks at the same path, no disk at two paths.                     *)
RightPaths ==
  \A d \in Drives, s \in Scopes : \A p \in PathsOf(d, s) :
    p \in {Run(d), Srv(swiftID[d])} /\ Reachable(d) /\ Filesystem(d) = "xfs"
OneOwner ==
  \A d, e \in Drives, s, t \in Scopes : \A p \in PathsOf(d, s) : p \in PathsOf(e, t) => d = e
OnePath ==
  \A d \in Drives, s, t \in Scopes : \A p \in PathsOf(d, s), q \in PathsOf(d, t) : p = q

CacheCurrent == phase \notin {"wait", "dead"} => cache = mounts

(* If no disk comes with a swift-id, those that have one are plugged in.    *)
Marked == IF SwiftIDs = {NoID} THEN {d \in Drives : swiftID[d] # NoID} ELSE {}
MarkedPlugged == Marked \subseteq devices

MountInv ==
  Tidy /\ RightPaths /\ OneOwner /\ OnePath /\ CacheCurrent /\ BlankUnnamed /\ MarkedPlugged

(* The drive collector never misses a disk that it knows.                   *)
HarmlessIn(b, D) ==
  b.kind # "removed" /\ (b.kind = "added" => \A i \in DOMAIN b.devs : b.devs[i] \in D)
Harmless(b) == HarmlessIn(b, devices)
OnlyAdditions ==
  /\ knownDrives \subseteq devices /\ Known \subseteq devices
  /\ \A d \in Known : hasDevice[d]
  /\ Harmless(batch)
  /\ \A i \in DOMAIN queue : Harmless(queue[i])
  /\ \A i \in DOMAIN outbox : Harmless(outbox[i])

(* The disks that a new process is told of all at once, in the first batch  *)
(* of additions: what is mounted, or has got a swift-id from an earlier     *)
(* process; or all if none is plugged in later.                             *)
There ==
  IF "plug" \in Upsets
  THEN {d \in Drives : \E s \in Scopes : PathsOf(d, s) # {}} \cup Marked ELSE devices
AddedNow == IF batch.kind = "added" THEN ToSet(batch.devs) ELSE {}
Coming == queue \o outbox
Added(c) == \E i \in DOMAIN c : c[i].kind = "added"
Report(c, S) ==
  \A i \in DOMAIN c :
    c[i].kind = "added" /\ (\A j \in 1 .. i - 1 : c[j].kind # "added") => S \subseteq ToSet(c[i].devs)
AllReported ==
  \/ There \subseteq Known \cup AddedNow
  \/ /\ Known = {} /\ AddedNow = {}
     /\ Report(Coming, There)
     /\ knownDrives # {} => Added(Coming)

(* Where a drive is when the converger is done with it.                     *)
AtHome(d) == mountPath[d] # NoPath /\ \A s \in Scopes : PathsOf(d, s) = {mountPath[d]}
Away(d) == mountPath[d] = NoPath /\ \A s \in Scopes : PathsOf(d, s) = {}
InPlace(d) == IF broken[d] THEN Away(d) ELSE AtHome(d)
AtItsPath(d) == HasID(d) => mountPath[d] = Srv(assignment[d].id)

Before(d) == \E i \in 1 .. at - 1 : i \in DOMAIN drives /\ drives[i] = d

Remembered ==
  \A d \in Known : (WorksOn(d) => op = "converge") /\ mountPath[d] # NoPath =>
    \A s \in Scopes : PathsOf(d, s) \subseteq {mountPath[d]}
Returned ==
  \A d \in Known :
    ~WorksOn(d) /\ (phase \in {"wait", "handle", "pass1"} \/ (phase = "pass2" /\ Before(d))) =>
      AtItsPath(d)
Placed ==
  \A d \in Known :
    /\ ~WorksOn(d) /\ (phase \in {"scan", "assign", "pass2"} \/ (phase = "pass1" /\ Before(d))) =>
         InPlace(d)
    /\ phase = "wait" /\ broken[d] => Away(d)
BrokenUnassigned == \A d \in Known : broken[d] => assignment[d] = Nil

(* No two healthy drives have the id that one of them is assigned to.       *)
Agreed ==
  phase \in {"assign", "pass2"} =>
    \A d \in Known : HasID(d) =>
      /\ swiftID[d] = assignment[d].id
      /\ \A e \in Known : ~broken[e] /\ swiftID[e] = swiftID[d] => e = d
IDsRead ==
  \A d \in Known : ~broken[d] /\ (phase = "assign" \/ (phase = "scan" /\ Before(d))) =>
    /\ d \in scanned
    /\ swiftID[d] \in IDs => <<swiftID[d], 0>> \in taken
    /\ assignment[d].error = "pending" => swiftID[d] = NoID

(* An id that other containers are told to let go of is not served by a     *)
(* drive on the list.  (It may be by one that an earlier process had not    *)
(* finished unmounting.)                                                    *)
Withdrawn ==
  ~Chroot => \A id \in propagation : \A d \in Known, s \in Scopes :
    Srv(id) \in PathsOf(d, s) => WorksOn(d) /\ op # "done"

(* In the middle of a setup or of a teardown.                               *)
Aimed(d) ==
  /\ ~broken[d] /\ target \in {Run(d), Srv(swiftID[d])}
  /\ \A e \in Drives, s \in Scopes : target \in PathsOf(e, s) => e = d
  /\ HasID(d) => target = Srv(assignment[d].id)
Job(d) ==
  /\ op = "converge" => phase = "handle" /\ mountPath[d] = NoPath /\ assignment[d] = Nil
  /\ op \in {"format", "unmount", "mount", "clear"} => Aimed(d)
  /\ op = "format" => scope = "host"
  /\ op \in {"format", "unmount"} =>
       /\ todo = PathsOf(d, scope) \ {target}
       /\ scope = "local" => PathsOf(d, "host") \subseteq {target}
       /\ \A s \in Scopes : PathsOf(d, s) \cap SrvPaths \subseteq {target}
  /\ op = "mount" =>
       /\ \A s \in Scopes : PathsOf(d, s) \subseteq {target}
       /\ mountPath[d] \in {target, NoPath}
       /\ scope = "local" => target \in PathsOf(d, "host")
  /\ op = "clear" => mountPath[d] = target /\ AtHome(d)
  /\ op \in {"teardown", "umount"} =>
       /\ broken[d] /\ todo = PathsOf(d, scope)
       /\ scope = "local" => PathsOf(d, "host") = {}
  /\ op = "umount" =>
       target \in todo /\ \A id \in IDs : target = Srv(id) /\ "ln" \notin Faults => id \in propagation
  /\ op \in {"luksFormat", "luksOpen", "descend", "setup"} =>
       ~broken[d] /\ (phase = "handle" => assignment[d] = Nil) /\ (phase = "pass1" => AtItsPath(d))
  /\ op = "close" => broken[d] /\ Away(d)
  /\ op = "done" => InPlace(d) /\ AtItsPath(d)
JobInv == op # "idle" => Current \in Known /\ Job(Current)
KnownInPhase ==
  /\ phase = "dead" => Known = {}
  /\ phase = "assign" => \A d \in Known : ~broken[d]

DriveStates ==
  /\ Remembered /\ Returned /\ Placed /\ BrokenUnassigned /\ Agreed /\ IDsRead /\ Withdrawn
  /\ JobInv /\ KnownInPhase

FailureInv ==
  /\ ListInv /\ ScanInv /\ LuksInv /\ MountInv /\ OnlyAdditions /\ AllReported /\ DriveStates

-----------------------------------------------------------------------------
(* Paths tell whose they are.                                               *)
LEMMA PathFacts ==
  /\ \A d, e : Run(d) = Run(e) => d = e
  /\ \A i, j : Srv(i) = Srv(j) => i = j
  /\ \A d, i : Run(d) # Srv(i)
  /\ \A d : Run(d) # NoPath /\ Srv(d) # NoPath
  /\ NoPath \notin Paths
  /\ \A i : Srv(i) \in Paths => i \in IDs
  /\ \A i : Srv(i) \in SrvPaths <=> i \in IDs
  /\ \A d : Run(d) \notin SrvPaths
<1>1. /\ \A d, e : Run(d) = Run(e) => d = e
      /\ \A i, j : Srv(i) = Srv(j) => i = j
  BY DEF Run, Srv
<1>2. \A d, i : Run(d) # Srv(i)
  <2>1. \A d, i : Run(d)[1] = "run" /\ Srv(i)[1] = "srv"
    BY DEF Run, Srv
  <2> QED BY <2>1
<1>3. \A d : Run(d) # NoPath /\ Srv(d) # NoPath
  <2>1. \A d : Len(Run(d)) = 2 /\ Len(Srv(d)) = 2 /\ Len(NoPath) = 0
    BY DEF Run, Srv, NoPath
  <2> QED BY <2>1
<1> HIDE DEF Run, Srv, NoPath
<1> QED BY <1>1, <1>2, <1>3 DEF Paths, SrvPaths

(* The types that the following steps need.                                 *)
LEMMA FailureTypes ==
  ASSUME FailureInv
  PROVE  /\ TypeInv /\ HostTypeOK /\ DriveTypeOK /\ HandInv /\ IsInjective(drives)
         /\ Known \subseteq Drives
         /\ DOMAIN drives = 1 .. Len(drives) /\ Len(drives) \in Nat /\ at \in Nat \ {0}
         /\ devices \subseteq Drives /\ hasDevice \in [Drives -> BOOLEAN]
         /\ content \in [Drives -> {"blank", "xfs", "luks"}]
         /\ swiftID \in [Drives -> IDs \cup {Spare, NoID}]
         /\ broken \in [Drives -> BOOLEAN] /\ mountPath \in [Drives -> Paths \cup {NoPath}]
         /\ assignment \in [Drives -> Assignments]
         /\ \A d \in Drives : Valid(d) => assignment[d].id \in IDs
         /\ \A d : \A s \in Scopes : PathsOf(d, s) \subseteq Paths
<1>1. TypeInv /\ HandInv /\ IsInjective(drives) /\ HostTypeOK /\ DriveTypeOK
  BY DEF FailureInv, ListInv, NewsInv, TypeInv, TypeOK
<1>2. at \in Nat \ {0}
  BY <1>1 DEF TypeInv, TypeOK
<1>3. assignment \in [Drives -> Assignments] /\ content \in [Drives -> {"blank", "xfs", "luks"}]
      /\ swiftID \in [Drives -> IDs \cup {Spare, NoID}]
      /\ broken \in [Drives -> BOOLEAN] /\ mountPath \in [Drives -> Paths \cup {NoPath}]
      /\ devices \subseteq Drives /\ hasDevice \in [Drives -> BOOLEAN]
  BY <1>1 DEF HostTypeOK, DriveTypeOK
<1>4. \A d \in Drives : Valid(d) => assignment[d].id \in IDs
  BY <1>3 DEF Valid, Assignments
<1>5. \A d : \A s \in Scopes : PathsOf(d, s) \subseteq Paths
  BY <1>1, PathsType
<1> QED BY <1>1, <1>2, <1>3, <1>4, <1>5, NewsTypes

(* When the converger is at work on a drive, it is not waiting.             *)
LEMMA BusyPhase ==
  ASSUME FailureInv
  PROVE  /\ op # "idle" => phase \in {"handle", "pass1", "pass2"} /\ Current \in Known
         /\ op # "idle" /\ phase = "handle" => batch.devs # <<>> /\ Current = Head(batch.devs)
         /\ op # "idle" /\ phase # "handle" => InPass /\ Current = drives[at]
         /\ InPass => at \in DOMAIN drives /\ drives[at] \in Known
<1>1. TypeInv /\ Known \subseteq Drives /\ DOMAIN drives = 1 .. Len(drives)
      /\ Len(drives) \in Nat /\ at \in Nat \ {0}
  BY FailureTypes
<1>2. InPass => at \in DOMAIN drives /\ phase # "handle"
  BY <1>1 DEF InPass
<1>3. op # "idle" => (phase = "handle" /\ batch.devs # <<>>) \/ InPass
  BY <1>1 DEF TypeInv, JobHasDrive
<1>4. InPass => phase \in {"pass1", "pass2"}
  BY DEF InPass
<1> QED BY <1>2, <1>3, <1>4 DEF Current, Known, ToSet, FailureInv, DriveStates, JobInv

-----------------------------------------------------------------------------
(* Which steps change which part of the machine.                            *)

NoStep == UNCHANGED vars

(* The steps that one may see under Calm.                                   *)
Busy ==
  \/ ConvergeHealthy \/ ConvergeBroken
  \/ /\ \/ Format(Current) \/ UnmountOther(Current) \/ OthersUnmounted(Current)
        \/ Mount(Current) \/ ClearPropagation \/ Announce(Current) \/ Umount(Current)
     /\ UNCHANGED <<luksVars, assignVars, collectorVars, ctlVars>>
  \/ /\ \/ SetupInside(Current) \/ FilesystemTornDown(Current) \/ GiveUp(Current)
        \/ LUKSFormat(Current) \/ LUKSOpen(Current) \/ Descend(Current) \/ LUKSClose(Current)
     /\ UNCHANGED <<assignVars, collectorVars, ctlVars>>
Handler ==
  Receive \/ HandleAdded \/ HandleReinstated \/ HandleError \/ HandleUnknown \/ EventHandled
Loop ==
  \/ BeginConverge \/ NextDrive \/ EndPass1 \/ Scan \/ EndScan \/ Assign \/ BeginPass2
  \/ EndConverge
CalmUpset ==
  /\ UNCHANGED <<deviceVars, assignVars, collectorVars, ctlVars>>
  /\ \/ phase \in {"wait", "dead"} /\ (EditSwiftID \/ ExternalUmount \/ RemountReadonly)
     \/ Plug \/ DeleteFlag \/ CreateDurableFlag
     \/ ExternalClose /\ phase \in {"wait", "dead"}
End ==
  /\ ProcessEnds
  /\ \/ UNCHANGED hostVars /\ devices = {}
     \/ UNCHANGED <<disks, mounts, flags, faults>> /\ ~Keys
     \/ HostReboot
Outside == CollectorStep \/ Restart \/ LogError

(* The converger handles no removal.                                        *)
LEMMA ConvergerSteps ==
  ASSUME Calm, FailureInv, Converger
  PROVE  Busy \/ Handler \/ Loop
<1>1. CASE Work
  BY <1>1 DEF Work, Busy, DeviceStep, XFSStep
<1>2. ASSUME ConvergeUnreadable PROVE FALSE
  <2>1. Current \in Known
    BY <1>2, BusyPhase DEF ConvergeUnreadable, ToConverge, Current, InPass
  <2> QED BY <1>2, <2>1 DEF ConvergeUnreadable, FailureInv, OnlyAdditions
<1>3. ~HandleRemoved
  BY DEF HandleRemoved, Handling, FailureInv, OnlyAdditions, Harmless, HarmlessIn
<1> QED BY <1>1, <1>2, <1>3 DEF Converger, Busy, Handler, Loop

(* And no disk is lost.                                                     *)
LEMMA CalmSteps ==
  ASSUME Calm, FailureInv, [Next]_vars
  PROVE  Busy \/ Handler \/ Loop \/ CalmUpset \/ End \/ Outside \/ NoStep
<1>1. CASE Environment
  <2>1. EditSwiftID \/ ExternalUmount \/ RemountReadonly => phase \in {"wait", "dead"}
    BY <1>1 DEF Environment, Calm, Undisturbed, EditSwiftID, ExternalUmount, RemountReadonly, Upset
  <2>2. ExternalClose => phase \in {"wait", "dead"}
    BY <1>1 DEF Environment, Calm, ExternalClose, CanClose, Upset, FailureInv, LuksInv, Contained
  <2>3. ~Unplug /\ ~FailDisk
    BY DEF Unplug, FailDisk, Upset, Calm
  <2>4. Crash => ~Keys
    BY DEF Crash, Upset, Calm
  <2> QED BY <1>1, <2>1, <2>2, <2>3, <2>4
          DEF Environment, HostUpset, CalmUpset, Outside, End, Crash, Reboot
<1>2. CASE NoDrivesFound
  BY <1>2 DEF NoDrivesFound, End
<1> QED BY <1>1, <1>2, ConvergerSteps DEF Next, Outside, NoStep

(* None of these steps unplugs a disk, or touches what is on a disk that    *)
(* has something on it, except for an edit of a spare disk's swift-id, or   *)
(* the first one.                                                           *)
DisksKept ==
  /\ devices \subseteq devices' /\ UNCHANGED unreadable
  /\ \A d \in Drives :
       /\ content[d] # "blank" => content'[d] = content[d]
       /\ content[d] # "luks" => inside'[d] = inside[d]
       /\ Filesystem(d) # "blank" => Encrypted(d)' = Encrypted(d) /\ Filesystem(d)' = Filesystem(d)
       /\ swiftID'[d] # swiftID[d] =>
            /\ swiftID[d] \notin IDs /\ Filesystem(d) # "blank" /\ d \in devices
            /\ swiftID[d] = NoID => d \in Known
       /\ content'[d] = "blank" => content[d] = "blank"
       /\ Filesystem(d)' = "blank" => Filesystem(d) = "blank"

(* A container that is mounted stays open.                                  *)
OpenKept == \A d \in open : MountedSomewhere(d)' => d \in open'

(* Below the path of a disk one sees that disk's files.                     *)
LEMMA SeesItsFiles ==
  ASSUME FailureInv, NEW d \in Drives, NEW p \in PathsOf(d, "local")
  PROVE  /\ OnPath(mounts["local"], p) # {}
         /\ mounts["local"][Newest(mounts["local"], p)].dev = d
         /\ ReadSwiftID(p) = swiftID[d] /\ CanAccess(p)
<1> DEFINE tbl == mounts["local"]
<1>1. "local" \in Scopes /\ tbl \in Seq(MountPoint) /\ OneEach(tbl)
  BY FailureTypes, PathsType DEF Scopes, FailureInv, MountInv, Tidy
<1>2. DOMAIN tbl = 1 .. Len(tbl)
  BY <1>1, EntryType
<1>3. PICK i \in 1 .. Len(tbl) : tbl[i].path = p /\ tbl[i].dev = d
  BY <1>2 DEF PathsOf, PathsIn
<1>4. OnPath(tbl, p) = {i} /\ Newest(tbl, p) = i
  BY <1>1, <1>3, OnlyMount
<1>5. Reachable(d)
  BY <1>1 DEF FailureInv, MountInv, RightPaths
<1> HIDE DEF tbl
<1>6. ReadSwiftID(p) = swiftID[d] /\ CanAccess(p)
  BY <1>3, <1>4, <1>5 DEF tbl, ReadSwiftID, CanAccess
<1> QED BY <1>3, <1>4, <1>6 DEF tbl

(* A drive that the loops of the assignments come to is in its place.       *)
LEMMA LoopedInPlace ==
  ASSUME FailureInv, phase \in {"scan", "assign"}, at <= Len(drives)
  PROVE  /\ op = "idle" /\ drives[at] \in Known /\ InPlace(drives[at])
         /\ ~broken[drives[at]] =>
              /\ mountPath[drives[at]] # NoPath
              /\ mountPath[drives[at]] \in PathsOf(drives[at], "local")
              /\ ReadSwiftID(mountPath[drives[at]]) = swiftID[drives[at]]
              /\ CanAccess(mountPath[drives[at]])
<1>1. op = "idle"
  BY BusyPhase
<1>2. at \in DOMAIN drives
  BY FailureTypes
<1>3. drives[at] \in Known /\ drives[at] \in Drives
  BY <1>2, FailureTypes DEF Known, ToSet
<1>4. InPlace(drives[at])
  BY <1>1, <1>3 DEF FailureInv, DriveStates, Placed, WorksOn
<1>5. ASSUME ~broken[drives[at]]
      PROVE  mountPath[drives[at]] # NoPath /\ mountPath[drives[at]] \in PathsOf(drives[at], "local")
  BY <1>4, <1>5 DEF InPlace, AtHome, Scopes
<1> QED BY <1>1, <1>3, <1>4, <1>5, SeesItsFiles

(* A new swift-id is given to a drive that is in its place and has none.    *)
GivesID(d, k) ==
  /\ FirstFree(k) /\ swiftID' = [swiftID EXCEPT ![d] = Pool[k]] /\ UNCHANGED stray
  /\ taken' = taken \cup {PoolName(k)} /\ scanned' = scanned \cup {d}
  /\ assignment' = [assignment EXCEPT ![d] = Assigned(Pool[k])]
LEMMA AssignEffect ==
  ASSUME FailureInv, Assign
  PROVE  \/ UNCHANGED <<swiftID, stray, assignment, taken, scanned>>
         \/ /\ ~broken[drives[at]] /\ swiftID[drives[at]] = NoID
            /\ \E k \in DOMAIN Pool : GivesID(drives[at], k)
<1> DEFINE d == drives[at]
<1>1. phase = "assign" /\ at <= Len(drives) /\ AssignDrive(d)
  BY DEF Assign
<1>2. /\ op = "idle" /\ d \in Known
      /\ ~broken[d] => /\ mountPath[d] # NoPath
                       /\ mountPath[d] \in PathsOf(d, "local")
  BY <1>1, LoopedInPlace
<1>3. d \in Drives
  BY <1>2, FailureTypes
<1> HIDE DEF d
<1>4. CASE PassOver(d)
  BY <1>4 DEF PassOver
<1>5. CASE AssignID(d)
  <2>1. ~broken[d] /\ assignment[d].error = "pending"
    BY <1>5 DEF AssignID, EligibleForAutoAssignment
  <2>2. MountPath(d) = mountPath[d]
    BY <1>2, <2>1 DEF MountPath, DesiredPath
  <2>3. swiftID[d] = NoID
    BY <1>1, <1>2, <2>1 DEF FailureInv, DriveStates, IDsRead
  <2>4. \A id : WriteSwiftID(MountPath(d), id) =>
                  swiftID' = [swiftID EXCEPT ![d] = id] /\ UNCHANGED stray
    BY <1>2, <1>3, <2>1, <2>2, SeesItsFiles DEF WriteSwiftID
  <2>5. PICK k \in DOMAIN Pool :
          /\ FirstFree(k)
          /\ \/ /\ WriteSwiftID(MountPath(d), Pool[k]) /\ Claim(PoolName(k))
                /\ Apply(d, Assigned(Pool[k])) /\ scanned' = scanned \cup {d}
             \/ WriteFails(d)
    BY <1>5 DEF AssignID
  <2>6. CASE WriteFails(d)
    BY <2>6 DEF WriteFails
  <2>7. CASE ~WriteFails(d)
    BY <2>1, <2>3, <2>4, <2>5, <2>7 DEF GivesID, Claim, Apply, d
  <2> QED BY <2>6, <2>7
<1> QED BY <1>1, <1>4, <1>5 DEF AssignDrive

LEMMA DisksStep ==
  ASSUME Calm, FailureInv, [Next]_vars
  PROVE  DisksKept
<1>1. /\ content \in [Drives -> {"blank", "xfs", "luks"}] /\ inside \in [Drives -> {"blank", "xfs"}]
      /\ swiftID \in [Drives -> IDs \cup {Spare, NoID}] /\ {Spare, NoID} \cap IDs = {}
      /\ \A d \in Drives : content[d] # "luks" => inside[d] = "blank"
      /\ \A d \in Drives : Filesystem(d) = "blank" => swiftID[d] = NoID
  BY FailureTypes, HostAssumption
     DEF HostTypeOK, FailureInv, LuksInv, Contained, MountInv, BlankUnnamed
<1>2. CASE UNCHANGED <<devices, unreadable, content, inside, swiftID>>
  BY <1>2 DEF DisksKept, Filesystem, Encrypted
<1>3. CASE Format(Current) /\ UNCHANGED ctlVars
  <2>1. CASE UNCHANGED <<content, inside, swiftID>>
    BY <1>2, <1>3, <2>1 DEF Format
  <2>2. CASE ~UNCHANGED <<content, inside, swiftID>>
    <3>1. PICK c : c = Current
      OBVIOUS
    <3>2. /\ Filesystem(c) = "blank" /\ UNCHANGED <<devices, unreadable>>
          /\ IF Encrypted(c)
             THEN inside' = [inside EXCEPT ![c] = "xfs"] /\ UNCHANGED content
             ELSE content' = [content EXCEPT ![c] = "xfs"] /\ UNCHANGED inside
          /\ swiftID' = [swiftID EXCEPT ![c] = NoID]
      BY <1>3, <2>2, <3>1 DEF Format, LooksEmpty
    <3>3. ASSUME NEW d \in Drives
          PROVE  /\ content[d] # "blank" => content'[d] = content[d]
                 /\ content[d] # "luks" => inside'[d] = inside[d]
                 /\ Filesystem(d) # "blank" =>
                      Encrypted(d)' = Encrypted(d) /\ Filesystem(d)' = Filesystem(d)
                 /\ swiftID'[d] = swiftID[d]
                 /\ content'[d] = "blank" => content[d] = "blank"
                 /\ Filesystem(d)' = "blank" => Filesystem(d) = "blank"
      BY <1>1, <3>2 DEF Filesystem, Encrypted
    <3> QED BY <3>2, <3>3 DEF DisksKept
  <2> QED BY <2>1, <2>2
<1>4. CASE Assign
  <2>1. UNCHANGED <<devices, unreadable, content, inside>>
    BY <1>4 DEF Assign, AssignDrive
  <2>2. CASE UNCHANGED swiftID
    BY <1>2, <2>1, <2>2
  <2>3. CASE ~UNCHANGED swiftID
    <3>1. PICK k \in DOMAIN Pool : swiftID' = [swiftID EXCEPT ![drives[at]] = Pool[k]]
      BY <1>4, <2>3, AssignEffect DEF GivesID
    <3>2. swiftID[drives[at]] = NoID /\ ~broken[drives[at]]
      BY <1>4, <2>3, AssignEffect
    <3>3. drives[at] \in Drives /\ drives[at] \in Known /\ \E p : p \in PathsOf(drives[at], "local")
      BY <1>4, <3>2, LoopedInPlace, FailureTypes DEF Assign
    <3>4. Filesystem(drives[at]) = "xfs" /\ drives[at] \in devices
      BY <3>3 DEF FailureInv, MountInv, RightPaths, Scopes, Reachable, Accessible
    <3>5. swiftID[drives[at]] \notin IDs
      BY <1>1, <3>2
    <3>6. ASSUME NEW e \in Drives, swiftID'[e] # swiftID[e]
          PROVE  e = drives[at]
      BY <1>1, <3>1, <3>6
    <3>7. \A e \in Drives : Filesystem(e)' = Filesystem(e) /\ Encrypted(e)' = Encrypted(e)
      BY <2>1 DEF Filesystem, Encrypted
    <3> QED BY <2>1, <3>3, <3>4, <3>5, <3>6, <3>7 DEF DisksKept
  <2> QED BY <2>2, <2>3
<1>5. CASE EditSwiftID
  <2>1. PICK d \in Drives, f \in Edits :
          /\ Reachable(d) /\ Filesystem(d) = "xfs" /\ swiftID[d] = f[1]
          /\ swiftID' = [swiftID EXCEPT ![d] = f[2]]
          /\ UNCHANGED <<devices, unreadable, content, inside>>
    BY <1>5 DEF EditSwiftID
  <2>2. swiftID[d] = Spare
    BY <2>1 DEF Calm
  <2>3. d \in devices /\ Spare # NoID
    BY <2>1 DEF Reachable, Accessible, Spare, NoID
  <2>4. \A e \in Drives : Filesystem(e)' = Filesystem(e) /\ Encrypted(e)' = Encrypted(e)
    BY <2>1 DEF Filesystem, Encrypted
  <2> QED BY <1>1, <2>1, <2>2, <2>3, <2>4 DEF DisksKept
<1>6. CASE Plug
  BY <1>6 DEF Plug, DisksKept, Filesystem, Encrypted
<1>7. CASE LUKSFormat(Current)
  <2>1. PICK c : c = Current
    OBVIOUS
  <2>2. CASE UNCHANGED content
    BY <1>2, <1>7, <2>2 DEF LUKSFormat
  <2>3. CASE ~UNCHANGED content
    <3>1. /\ content[c] = "blank" /\ content' = [content EXCEPT ![c] = "luks"]
          /\ UNCHANGED <<devices, unreadable, inside, swiftID>>
      BY <1>7, <2>1, <2>3 DEF LUKSFormat
    <3>2. ASSUME NEW d \in Drives
          PROVE  /\ content[d] # "blank" => content'[d] = content[d]
                 /\ content[d] # "luks" => inside'[d] = inside[d]
                 /\ Filesystem(d) # "blank" =>
                      Encrypted(d)' = Encrypted(d) /\ Filesystem(d)' = Filesystem(d)
                 /\ content'[d] = "blank" => content[d] = "blank"
                 /\ Filesystem(d)' = "blank" => Filesystem(d) = "blank"
      BY <1>1, <3>1 DEF Filesystem, Encrypted
    <3> QED BY <3>1, <3>2 DEF DisksKept
  <2> QED BY <2>2, <2>3
<1>8. CASE CalmUpset /\ ~EditSwiftID /\ ~Plug
  BY <1>2, <1>8 DEF CalmUpset, ExternalUmount, RemountReadonly, DeleteFlag,
     CreateDurableFlag, ExternalClose, disks
<1>9. CASE Busy
  BY <1>2, <1>3, <1>7, <1>9 DEF Busy, ConvergeHealthy, ConvergeBroken, Setup, BeginSetup,
     BeginLUKSSetup, SetupInside, LUKSOpen, Descend, LUKSClose,
     UnmountOther, OthersUnmounted, Mount, ClearPropagation, Announce, Umount,
     FilesystemTornDown, TornDown, GiveUp, hostVars, disks
<1>10. CASE Handler \/ (Loop /\ ~Assign)
  BY <1>2, <1>10 DEF Handler, Receive, HandleAdded, HandleReinstated, HandleError, HandleUnknown,
     EventHandled, Loop, BeginConverge, NextDrive, EndPass1, Scan, ScanDrive, EndScan,
     BeginPass2, EndConverge, hostVars, disks
<1>11. CASE End \/ Outside \/ NoStep
  BY <1>2, <1>11 DEF End, HostReboot, Outside, CollectorStep, Restart, LogError, NoStep,
     hostVars, disks, vars
<1>12. Loop /\ Assign => Assign
  OBVIOUS
<1> QED BY <1>4, <1>5, <1>6, <1>8, <1>9, <1>10, <1>11, CalmSteps DEF Loop

(* The steps that open or close a container.                                *)
LEMMA OpenSteps ==
  ASSUME Calm, FailureInv, [Next]_vars
  PROVE  \/ UNCHANGED open
         \/ /\ LUKSOpen(Current) /\ CanOpen(Current) /\ op = "luksOpen"
            /\ open' = open \cup {Current} /\ mappings' = mappings \cup {Current}
         \/ /\ LUKSClose(Current) \/ (ExternalClose /\ phase \in {"wait", "dead"})
            /\ UNCHANGED mounts /\ \E d \in open : ~IsMounted(d) /\ open' = open \ {d}
         \/ HostReboot /\ ProcessEnds /\ open' = {}
<1>1. CASE LUKSOpen(Current)
  BY <1>1 DEF LUKSOpen
<1>2. CASE LUKSClose(Current)
  BY <1>2 DEF LUKSClose, CanClose
<1>3. CASE Busy /\ ~LUKSOpen(Current) /\ ~LUKSClose(Current)
  BY <1>3 DEF Busy, ConvergeHealthy, ConvergeBroken, Setup, BeginSetup,
     BeginLUKSSetup, SetupInside, LUKSFormat, Descend, Format,
     UnmountOther, OthersUnmounted, Mount, ClearPropagation, Announce, Umount,
     FilesystemTornDown, TornDown, GiveUp, hostVars, disks
<1>4. CASE Handler \/ Loop
  BY <1>4 DEF Handler, Receive, HandleAdded, HandleReinstated, HandleError, HandleUnknown,
     EventHandled, Loop, BeginConverge, NextDrive, EndPass1, Scan, ScanDrive, EndScan, Assign,
     AssignDrive, BeginPass2, EndConverge, hostVars, disks
<1>5. CASE CalmUpset
  BY <1>5 DEF CalmUpset, EditSwiftID, Plug, ExternalUmount, RemountReadonly, DeleteFlag,
     CreateDurableFlag, ExternalClose, CanClose, disks
<1>6. CASE End
  BY <1>6 DEF End, HostReboot, hostVars, disks
<1>7. CASE Outside \/ NoStep
  BY <1>7 DEF Outside, CollectorStep, Restart, LogError, NoStep, hostVars, disks, vars
<1> QED BY <1>1, <1>2, <1>3, <1>4, <1>5, <1>6, <1>7, CalmSteps

(* A disk with paths is mounted, and the other way round.                   *)
LEMMA MountedMeans ==
  ASSUME NEW d
  PROVE  IsMounted(d) <=> MountedSomewhere(d)
<1>1. \A s \in Scopes : (\E i \in DOMAIN mounts[s] : mounts[s][i].dev = d) <=> PathsOf(d, s) # {}
  BY DEF PathsOf, PathsIn
<1> QED BY <1>1 DEF IsMounted, MountedSomewhere

LEMMA OpenStep ==
  ASSUME Calm, FailureInv, [Next]_vars
  PROVE  OpenKept
<1>2. CASE HostReboot
  <2>1. \A d : ~MountedSomewhere(d)'
    BY <1>2 DEF HostReboot, MountedSomewhere, PathsOf, PathsIn
  <2> QED BY <2>1 DEF OpenKept
<1>3. ASSUME UNCHANGED mounts, NEW d \in open, ~IsMounted(d), open' = open \ {d}
      PROVE  OpenKept
  <2>1. ~MountedSomewhere(d)'
    BY <1>3, MountedMeans DEF MountedSomewhere, PathsOf, PathsIn
  <2> QED BY <1>3, <2>1 DEF OpenKept
<1> QED BY <1>2, <1>3, OpenSteps DEF OpenKept

(* The parts of the invariant about disks alone.                            *)
LEMMA BlankStep ==
  ASSUME Calm, FailureInv, [Next]_vars
  PROVE  BlankUnnamed' /\ MarkedPlugged' /\ Marked' \subseteq Marked \cup Known
<1>1. DisksKept /\ BlankUnnamed /\ MarkedPlugged
  BY DisksStep DEF FailureInv, MountInv
<1>2. BlankUnnamed'
  BY <1>1, FailureTypes DEF DisksKept, BlankUnnamed
<1>3. Marked' \subseteq Marked \cup Known
  BY <1>1 DEF DisksKept, Marked
<1>4. MarkedPlugged'
  BY <1>1 DEF DisksKept, MarkedPlugged, Marked
<1> QED BY <1>2, <1>3, <1>4

-----------------------------------------------------------------------------
(* Where the disks are mounted.                                             *)

UmountStep ==
  /\ UnmountOther(Current) \/ Umount(Current)
  /\ UNCHANGED <<luksVars, assignVars, collectorVars, ctlVars>>
MountStep == Mount(Current) /\ UNCHANGED <<luksVars, assignVars, collectorVars, ctlVars>>

(* The converger's other steps leave the mount table as it is.              *)
LEMMA TableKept ==
  ASSUME Busy \/ Handler \/ Loop, ~UmountStep, ~MountStep
  PROVE  UNCHANGED mounts
<1>1. CASE Busy
  BY <1>1 DEF Busy, ConvergeHealthy, ConvergeBroken, Setup, BeginSetup, BeginLUKSSetup, MountStep,
     UmountStep, Format, OthersUnmounted, ClearPropagation, Announce, SetupInside, LUKSFormat,
     LUKSOpen, Descend, LUKSClose, FilesystemTornDown, TornDown, GiveUp, hostVars
<1>2. CASE Handler \/ Loop
  BY <1>2 DEF Handler, Receive, HandleAdded, HandleReinstated, HandleError, HandleUnknown,
     EventHandled, Loop, BeginConverge, NextDrive, EndPass1, Scan, ScanDrive, EndScan, Assign,
     AssignDrive, BeginPass2, EndConverge, hostVars
<1> QED BY <1>1, <1>2

(* What happens around it takes from the table only while it is waiting.    *)
LEMMA TableSteps ==
  ASSUME Calm, FailureInv, [Next]_vars, ~UmountStep, ~MountStep
  PROVE  \/ UNCHANGED mounts
         \/ /\ phase' \in {"wait", "dead"}
            /\ UNCHANGED <<swiftID, content, inside, devices, unreadable>>
            /\ ExternalUmount \/ RemountReadonly \/ HostReboot
<1>1. CASE CalmUpset
  BY <1>1 DEF CalmUpset, EditSwiftID, ExternalUmount, RemountReadonly, Plug, DeleteFlag,
     CreateDurableFlag, ExternalClose, ctlVars, disks
<1>2. CASE End
  BY <1>2 DEF End, HostReboot, ProcessEnds, hostVars, disks
<1>3. CASE Outside \/ NoStep
  BY <1>3 DEF Outside, CollectorStep, Restart, LogError, NoStep, hostVars, vars
<1> QED BY <1>1, <1>2, <1>3, TableKept, CalmSteps

(* A step in which no disk comes to a new path.                             *)
LEMMA ShrinkKeeps ==
  ASSUME FailureInv, DisksKept, OpenKept, Tidy',
         \A d \in Drives, s \in Scopes : PathsOf(d, s)' \subseteq PathsOf(d, s)
  PROVE  RightPaths' /\ OneOwner' /\ OnePath'
<1>1. ASSUME NEW d \in Drives, NEW s \in Scopes, NEW p \in PathsOf(d, s)'
      PROVE  p \in {Run(d), Srv(swiftID'[d])} /\ Reachable(d)' /\ Filesystem(d)' = "xfs"
  <2>1. p \in PathsOf(d, s) /\ p \in Paths
    BY FailureTypes
  <2>2. p \in {Run(d), Srv(swiftID[d])} /\ Reachable(d) /\ Filesystem(d) = "xfs"
    BY <2>1 DEF FailureInv, MountInv, RightPaths
  <2>3. p = Srv(swiftID[d]) => swiftID'[d] = swiftID[d]
    BY <2>1, PathFacts DEF DisksKept
  <2>4. Filesystem(d)' = "xfs" /\ Encrypted(d)' = Encrypted(d)
    BY <2>2 DEF DisksKept
  <2>5. d \in open => d \in open'
    BY DEF OpenKept, MountedSomewhere
  <2> QED BY <2>2, <2>3, <2>4, <2>5 DEF DisksKept, Reachable, Accessible
<1>2. RightPaths'
  BY <1>1 DEF RightPaths
<1> QED BY <1>2 DEF FailureInv, MountInv, OneOwner, OnePath

(* What an unmount does in the middle of a setup or teardown.               *)
LEMMA UmountStepEffect ==
  ASSUME Calm, FailureInv, UmountStep
  PROVE  /\ Tidy' /\ cache' = mounts' /\ UNCHANGED <<phase, drives, at, batch>>
         /\ op \in {"unmount", "umount"} /\ Current \in Known /\ Job(Current)
         /\ \E p \in todo :
              /\ op = "umount" => p = target /\ op' = "teardown"
              /\ op = "unmount" => op' = "unmount"
              /\ todo' = todo \ {p}
              /\ \A e : \A t \in Scopes :
                   PathsOf(e, t)' = PathsOf(e, t) \ (IF t \in Affected(scope) THEN {p} ELSE {})
<1>1. op \in {"unmount", "umount"}
  BY DEF UmountStep, UnmountOther, Umount
<1>2. Current \in Known /\ Job(Current) /\ phase \notin {"wait", "dead"}
  BY <1>1, BusyPhase DEF FailureInv, DriveStates, JobInv
<1>3. cache = mounts /\ Tidy /\ HostTypeOK /\ scope \in Scopes
  BY <1>2, FailureTypes DEF FailureInv, MountInv, CacheCurrent, DriveTypeOK
<1>4. \A p : ~UnmountFails(p, scope)
  BY <1>3, UmountWorks DEF Calm
<1>5. PICK p \in todo : /\ UnmountDevice(p, scope) /\ todo' = todo \ {p}
                        /\ op = "umount" => p = target /\ op' = "teardown"
                        /\ op = "unmount" => op' = "unmount"
  <2>1. CASE UnmountOther(Current)
    BY <1>4, <2>1 DEF UnmountOther
  <2>2. CASE Umount(Current)
    BY <1>2, <1>4, <2>2 DEF Umount, Job
  <2> QED BY <2>1, <2>2 DEF UmountStep
<1>6. UNCHANGED <<phase, drives, at, batch>>
  BY DEF UmountStep, ctlVars
<1> QED BY <1>1, <1>2, <1>3, <1>5, <1>6, UmountEffect

(* What a mount does.                                                       *)
Mounts(d) ==
  /\ \A e : \A t \in Scopes :
       PathsOf(e, t)' = PathsOf(e, t) \cup (IF e = d /\ t \in Affected(scope) THEN {target} ELSE {})
  /\ IF scope = "host" THEN scope' = "local" /\ UNCHANGED <<op, mountPath>>
     ELSE op' = "clear" /\ mountPath' = [mountPath EXCEPT ![d] = target]
LEMMA MountStepEffect ==
  ASSUME Calm, FailureInv, MountStep
  PROVE  /\ Tidy' /\ cache' = mounts' /\ UNCHANGED <<phase, drives, at, batch>>
         /\ op = "mount" /\ Current \in Known /\ Current \in Drives /\ Job(Current)
         /\ \/ Mounts(Current) /\ Reachable(Current) /\ Filesystem(Current) = "xfs"
            \/ UNCHANGED <<mounts, mountPath>> /\ op' = "fail"
<1> DEFINE d == Current
<1>1. op = "mount"
  BY DEF MountStep, Mount
<1>2. d \in Known /\ d \in Drives /\ Job(d) /\ phase \notin {"wait", "dead"}
  BY <1>1, BusyPhase, FailureTypes DEF FailureInv, DriveStates, JobInv
<1>3. cache = mounts /\ Tidy /\ HostTypeOK /\ scope \in Scopes /\ target \in Paths
  BY <1>1, <1>2, FailureTypes
     DEF FailureInv, MountInv, CacheCurrent, DriveTypeOK, TypeInv, TargetIsPath
<1>4. \A e \in Drives, t \in Scopes : target \in PathsOf(e, t) => e = d
  BY <1>1, <1>2 DEF Job, Aimed
<1>5. UNCHANGED <<phase, drives, at, batch>>
  BY DEF MountStep, ctlVars
<1> HIDE DEF d
<1>6. CASE MountDevice(d, target, scope) /\ op' # "fail"
  <2>1. /\ Tidy' /\ cache' = mounts'
        /\ \A e : \A t \in Scopes :
             PathsOf(e, t)' =
               PathsOf(e, t) \cup (IF e = d /\ t \in Affected(scope) THEN {target} ELSE {})
        /\ target \notin PathsOf(d, scope) => CanMount(d, target, scope)
    BY <1>2, <1>3, <1>4, <1>6, MountEffect
  <2>2. Mounts(d)
    BY <1>6, <2>1 DEF MountStep, Mount, Mounts, d
  <2>3. Reachable(d) /\ Filesystem(d) = "xfs"
    <3>1. CASE target \in PathsOf(d, scope)
      BY <1>2, <1>3, <3>1 DEF FailureInv, MountInv, RightPaths
    <3>2. CASE target \notin PathsOf(d, scope)
      BY <2>1, <3>2 DEF CanMount
    <3> QED BY <3>1, <3>2
  <2> QED BY <1>1, <1>2, <1>5, <2>1, <2>2, <2>3 DEF d
<1>7. CASE ~ (MountDevice(d, target, scope) /\ op' # "fail")
  <2>1. UNCHANGED <<mounts, cache, mountPath>> /\ op' = "fail"
    BY <1>1, <1>7 DEF MountStep, Mount, d
  <2>2. Tidy'
    BY <1>3, <2>1 DEF Tidy, MountPropagationMode
  <2> QED BY <1>1, <1>2, <1>3, <1>5, <2>1, <2>2 DEF d
<1> QED BY <1>6, <1>7

(* Only the receiver ends the wait.                                         *)
LEMMA PhaseKept ==
  ASSUME Calm, FailureInv, [Next]_vars, ~Receive, phase' \notin {"wait", "dead"}
  PROVE  phase \notin {"wait", "dead"}
<1>1. CASE Busy
  BY <1>1 DEF Busy, ConvergeHealthy, ConvergeBroken, ctlVars
<1>2. CASE Handler \/ Loop
  BY <1>2 DEF Handler, HandleAdded, HandleReinstated, HandleError, HandleUnknown, Handling,
     EventHandled, Loop, BeginConverge, NextDrive, InPass, EndPass1, Scan, EndScan, Assign,
     BeginPass2, EndConverge, ctlVars
<1>3. CASE CalmUpset \/ End \/ Outside \/ NoStep
  BY <1>3 DEF CalmUpset, End, ProcessEnds, Outside, CollectorStep, Restart, LogError,
     NoStep, vars, ctlVars
<1> QED BY <1>1, <1>2, <1>3, CalmSteps

(* All steps but a mount leave every disk at the paths where it is, or take *)
(* it away from some.                                                       *)
LEMMA PathsShrink ==
  ASSUME Calm, FailureInv, [Next]_vars, ~MountStep
  PROVE  Tidy' /\ \A d \in Drives, s \in Scopes : PathsOf(d, s)' \subseteq PathsOf(d, s)
<1>1. Tidy /\ HostTypeOK
  BY FailureTypes DEF FailureInv, MountInv
<1>2. CASE UmountStep
  BY <1>2, UmountStepEffect
<1>3. CASE UNCHANGED mounts
  BY <1>1, <1>3 DEF Tidy, PathsOf, MountPropagationMode
<1>4. CASE ExternalUmount
  BY <1>1, <1>4, KernelUmountEffect DEF ExternalUmount
<1>5. CASE RemountReadonly
  BY <1>1, <1>5, ReadonlyEffect
<1>6. CASE HostReboot
  <2>1. mounts' = [s \in Scopes |-> <<>>]
    BY <1>6 DEF HostReboot
  <2>2. Tidy'
    BY <2>1 DEF Tidy, OneEach, Scopes
  <2>3. \A s \in Scopes : \A d : PathsOf(d, s)' = {}
    BY <2>1 DEF PathsOf, PathsIn
  <2> QED BY <2>2, <2>3
<1> QED BY <1>2, <1>3, <1>4, <1>5, <1>6, TableSteps

(* The invariant about the mounts is kept.                                  *)
LEMMA MountInvStep ==
  ASSUME Calm, FailureInv, [Next]_vars
  PROVE  MountInv'
<1>1. DisksKept /\ OpenKept /\ BlankUnnamed' /\ MarkedPlugged'
  BY DisksStep, OpenStep, BlankStep
<1>2. Tidy /\ RightPaths /\ OneOwner /\ OnePath /\ CacheCurrent /\ HostTypeOK
  BY FailureTypes DEF FailureInv, MountInv
<1>3. CASE UmountStep
  <2>1. Tidy' /\ cache' = mounts'
    BY <1>3, UmountStepEffect
  <2>2. \A d \in Drives, s \in Scopes : PathsOf(d, s)' \subseteq PathsOf(d, s)
    BY <1>3, UmountStepEffect
  <2> QED BY <1>1, <2>1, <2>2, ShrinkKeeps DEF MountInv, CacheCurrent
<1>4. CASE MountStep /\ UNCHANGED mounts
  <2>1. Tidy' /\ cache' = mounts' /\ \A d \in Drives, s \in Scopes : PathsOf(d, s)' \subseteq PathsOf(d, s)
    BY <1>4, MountStepEffect DEF PathsOf
  <2> QED BY <1>1, <2>1, ShrinkKeeps DEF MountInv, CacheCurrent
<1>5. CASE MountStep /\ ~UNCHANGED mounts
  <2> DEFINE d == Current
  <2>1. /\ Tidy' /\ cache' = mounts' /\ op = "mount" /\ d \in Drives /\ Job(d) /\ Mounts(d)
        /\ Reachable(d) /\ Filesystem(d) = "xfs"
    BY <1>5, MountStepEffect
  <2>2. UNCHANGED swiftID /\ \A e : Reachable(e)' = Reachable(e) /\ Filesystem(e)' = Filesystem(e)
    BY <1>5 DEF MountStep, Mount, disks, Reachable, Accessible, Filesystem, Encrypted
  <2> HIDE DEF d
  <2>3. /\ target \in {Run(d), Srv(swiftID[d])}
        /\ \A e \in Drives, s \in Scopes : target \in PathsOf(e, s) => e = d
        /\ \A s \in Scopes : PathsOf(d, s) \subseteq {target}
    BY <2>1 DEF Job, Aimed
  <2>4. \A e \in Drives, s \in Scopes :
          /\ PathsOf(e, s) \subseteq PathsOf(e, s)'
          /\ \A p \in PathsOf(e, s)' : p \in PathsOf(e, s) \/ (e = d /\ p = target)
    BY <2>1 DEF Mounts
  <2>5. RightPaths'
    <3>1. ASSUME NEW e \in Drives, NEW s \in Scopes, NEW p \in PathsOf(e, s)'
          PROVE  p \in {Run(e), Srv(swiftID[e])} /\ Reachable(e) /\ Filesystem(e) = "xfs"
      BY <1>2, <2>1, <2>3, <2>4 DEF RightPaths
    <3> QED BY <2>2, <3>1 DEF RightPaths
  <2>6. OneOwner'
    <3>1. ASSUME NEW e \in Drives, NEW f \in Drives, NEW s \in Scopes, NEW t \in Scopes,
                 NEW p \in PathsOf(e, s)', p \in PathsOf(f, t)'
          PROVE  e = f
      BY <1>2, <2>3, <2>4, <3>1 DEF OneOwner
    <3> QED BY <3>1 DEF OneOwner
  <2>7. OnePath'
    <3>1. ASSUME NEW e \in Drives, NEW s \in Scopes, NEW t \in Scopes,
                 NEW p \in PathsOf(e, s)', NEW q \in PathsOf(e, t)'
          PROVE  p = q
      BY <1>2, <2>3, <2>4, <3>1 DEF OnePath
    <3> QED BY <3>1 DEF OnePath
  <2> QED BY <1>1, <2>1, <2>5, <2>6, <2>7 DEF MountInv, CacheCurrent
<1>6. CASE ~MountStep /\ ~UmountStep
  <2>1. Tidy' /\ \A d \in Drives, s \in Scopes : PathsOf(d, s)' \subseteq PathsOf(d, s)
    BY <1>6, PathsShrink
  <2>2. CacheCurrent'
    <3>1. CASE Receive
      BY <3>1 DEF Receive, RefreshMountPoints, hostVars, CacheCurrent
    <3>2. CASE ~Receive /\ phase' \notin {"wait", "dead"}
      <4>1. UNCHANGED mounts
        BY <1>6, <3>2, TableSteps
      <4>2. UNCHANGED cache
        <5>1. CASE Busy
          BY <1>6, <5>1 DEF Busy, ConvergeHealthy, ConvergeBroken, Setup, BeginSetup, BeginLUKSSetup,
             MountStep, UmountStep, Format, OthersUnmounted, ClearPropagation, Announce,
             SetupInside, LUKSFormat, LUKSOpen, Descend, LUKSClose,
             FilesystemTornDown, TornDown, GiveUp
        <5>2. CASE Handler \/ Loop
          BY <3>2, <5>2 DEF Handler, HandleAdded, HandleReinstated, HandleError, HandleUnknown,
             EventHandled, Loop, BeginConverge, NextDrive, EndPass1, Scan, ScanDrive, EndScan, Assign,
             AssignDrive, BeginPass2, EndConverge, deviceVars, driveVars
        <5>3. CASE CalmUpset \/ End \/ Outside \/ NoStep
          BY <3>2, <5>3 DEF CalmUpset, End, ProcessEnds, Outside, CollectorStep, Restart, LogError,
             NoStep, vars, deviceVars, driveVars
        <5> QED BY <5>1, <5>2, <5>3, CalmSteps
      <4>3. phase \notin {"wait", "dead"}
        BY <3>2, PhaseKept
      <4> QED BY <1>2, <4>1, <4>2, <4>3 DEF CacheCurrent
    <3> QED BY <3>1, <3>2 DEF CacheCurrent
  <2> QED BY <1>1, <2>1, <2>2, ShrinkKeeps DEF MountInv
<1> QED BY <1>3, <1>4, <1>5, <1>6

-----------------------------------------------------------------------------
(* What is on its way to the converger.                                     *)

(* The elements of a longer or shorter list.                                *)
LEMMA Elements ==
  ASSUME NEW S, NEW s \in Seq(S)
  PROVE  /\ DOMAIN s = 1 .. Len(s) /\ Len(s) \in Nat
         /\ \A x \in S : \A i \in DOMAIN Append(s, x) :
              Append(s, x)[i] = x \/ \E j \in DOMAIN s : Append(s, x)[i] = s[j]
         /\ s # <<>> =>
              /\ 1 \in DOMAIN s /\ Head(s) = s[1] /\ Head(s) \in S /\ Tail(s) \in Seq(S)
              /\ \A i \in DOMAIN Tail(s) : i + 1 \in DOMAIN s /\ Tail(s)[i] = s[i + 1]
         /\ \A t \in Seq(S) : \A i \in DOMAIN (s \o t) :
              (\E j \in DOMAIN s : (s \o t)[i] = s[j]) \/ (\E j \in DOMAIN t : (s \o t)[i] = t[j])
<1>1. DOMAIN s = 1 .. Len(s) /\ Len(s) \in Nat
  BY LenProperties
<1>2. ASSUME NEW x \in S, NEW i \in DOMAIN Append(s, x)
      PROVE  Append(s, x)[i] = x \/ \E j \in DOMAIN s : Append(s, x)[i] = s[j]
  <2>1. /\ Append(s, x) \in Seq(S) /\ Len(Append(s, x)) = Len(s) + 1
        /\ Append(s, x)[Len(s) + 1] = x /\ \A j \in 1 .. Len(s) : Append(s, x)[j] = s[j]
    BY AppendProperties
  <2>2. DOMAIN Append(s, x) = 1 .. Len(s) + 1
    BY <2>1, LenProperties
  <2>3. i \in 1 .. Len(s) \/ i = Len(s) + 1
    BY <1>1, <2>2
  <2> QED BY <1>1, <2>1, <2>3
<1>3. ASSUME s # <<>>
      PROVE  /\ 1 \in DOMAIN s /\ Head(s) = s[1] /\ Head(s) \in S /\ Tail(s) \in Seq(S)
             /\ \A i \in DOMAIN Tail(s) : i + 1 \in DOMAIN s /\ Tail(s)[i] = s[i + 1]
  <2>1. /\ Len(s) \in Nat \ {0} /\ Head(s) \in S /\ Tail(s) \in Seq(S)
        /\ Len(Tail(s)) = Len(s) - 1 /\ Head(s) = s[1]
        /\ \A i \in 1 .. Len(s) - 1 : Tail(s)[i] = s[i + 1]
    BY <1>3, HeadTailProperties, LenProperties, EmptySeq
  <2>2. DOMAIN Tail(s) = 1 .. Len(s) - 1
    BY <2>1, LenProperties
  <2>3. 1 \in 1 .. Len(s) /\ \A i \in 1 .. Len(s) - 1 : i + 1 \in 1 .. Len(s)
    BY <2>1
  <2> QED BY <1>1, <2>1, <2>2, <2>3
<1>4. ASSUME NEW t \in Seq(S), NEW i \in DOMAIN (s \o t)
      PROVE  (\E j \in DOMAIN s : (s \o t)[i] = s[j]) \/ (\E j \in DOMAIN t : (s \o t)[i] = t[j])
  <2>1. /\ s \o t \in Seq(S) /\ Len(s \o t) = Len(s) + Len(t)
        /\ \A j \in 1 .. Len(s) + Len(t) : (s \o t)[j] = IF j <= Len(s) THEN s[j] ELSE t[j - Len(s)]
    BY ConcatProperties
  <2>2. DOMAIN (s \o t) = 1 .. Len(s) + Len(t) /\ DOMAIN t = 1 .. Len(t) /\ Len(t) \in Nat
    BY <2>1, LenProperties
  <2>3. IF i <= Len(s) THEN i \in 1 .. Len(s) ELSE i - Len(s) \in 1 .. Len(t)
    BY <1>1, <2>2
  <2> QED BY <1>1, <2>1, <2>2, <2>3
<1> QED BY <1>1, <1>2, <1>3, <1>4

AllHarmless(bs, D) == \A i \in DOMAIN bs : HarmlessIn(bs[i], D)

(* Types and contents of the batches.                                       *)
LEMMA BatchTypes ==
  ASSUME FailureInv
  PROVE  /\ queue \in Seq(Batch) /\ outbox \in Seq(Batch) /\ held \in Seq(Batch)
         /\ batch \in Batch /\ batch.kind \in Kinds /\ batch.devs \in Seq(Drives)
         /\ knownDrives \subseteq Drives /\ drives \in Seq(Drives)
         /\ \A b \in Batch : b.kind \in Kinds /\ b.devs \in Seq(Drives)
         /\ \A kind \in Kinds, ds \in Seq(Drives) :
              Event(kind, ds) \in Batch /\ Event(kind, ds).kind = kind /\ Event(kind, ds).devs = ds
         /\ held # <<>> => Head(held).kind = "reinstated" /\ Head(held) \in Batch
<1>1. /\ queue \in Seq(Batch) /\ outbox \in Seq(Batch) /\ held \in Seq(Batch)
      /\ batch \in Batch /\ knownDrives \subseteq Drives /\ drives \in Seq(Drives)
  BY FailureTypes DEF TypeInv, TypeOK, CollectorsTypeOK
<1>2. \A b \in Batch : b.kind \in Kinds /\ b.devs \in Seq(Drives)
  BY DEF Batch
<1>3. \A kind \in Kinds, ds \in Seq(Drives) :
        Event(kind, ds) \in Batch /\ Event(kind, ds).kind = kind /\ Event(kind, ds).devs = ds
  BY DEF Event, Batch
<1>4. held # <<>> => Head(held).kind = "reinstated" /\ Head(held) \in Batch
  BY <1>1, Elements DEF FailureInv, ListInv, HeldInv
<1> QED BY <1>1, <1>2, <1>3, <1>4

(* A disk that can be read is classified by what is on it.                  *)
LEMMA ClassifyPlain ==
  ASSUME Calm, FailureInv, NEW d \in devices
  PROVE  Classify(d) = {content[d]} /\ content[d] # "unreadable"
BY FailureTypes DEF Classify, FailureInv, LuksInv, Contained

(* The beginning of a new Drive's life.                                     *)
LEMMA NewDeviceEffect ==
  ASSUME Calm, FailureInv, NEW d \in devices, NewDevice(d)
  PROVE  /\ hasDevice' = [hasDevice EXCEPT ![d] = TRUE]
         /\ broken' = [broken EXCEPT ![d] = d \in transient \cup durable]
         /\ mountPath' = [mountPath EXCEPT ![d] = NoPath]
         /\ assignment' = [assignment EXCEPT ![d] = Nil]
         /\ hasLUKS' = Put(hasLUKS, d, content[d] = "luks" \/ (content[d] = "blank" /\ Keys))
         /\ luksFormatted' = Put(luksFormatted, d, content[d] = "luks")
         /\ mapped' = mapped \ {d} /\ mappingName' = mappingName \ {d} /\ UNCHANGED mappings
<1>1. Classify(d) = {content[d]} /\ content[d] # "unreadable"
  BY ClassifyPlain
<1>2. /\ NewDrive(d, content[d])
      /\ hasLUKS' = Put(hasLUKS, d, content[d] = "luks" \/ (content[d] = "blank" /\ Keys))
      /\ luksFormatted' = Put(luksFormatted, d, content[d] = "luks")
      /\ mapped' = mapped \ {d} /\ mappingName' = mappingName \ {d} /\ UNCHANGED mappings
  BY <1>1 DEF NewDevice
<1>3. /\ (content[d] # "unreadable") = TRUE
      /\ (content[d] = "unreadable" \/ d \in transient \cup durable) = (d \in transient \cup durable)
  BY <1>1
<1> QED BY <1>2, <1>3, Zenon DEF NewDrive

(* A drive that is added comes last on the list.                            *)
LEMMA AddedList ==
  ASSUME Calm, FailureInv, HandleAdded, ListInv'
  PROVE  /\ Head(batch.devs) \in devices /\ Head(batch.devs) \notin Known
         /\ Known' = Known \cup {Head(batch.devs)}
         /\ Len(drives') = Len(drives) + 1 /\ DOMAIN drives' = 1 .. Len(drives) + 1
         /\ drives'[Len(drives) + 1] = Head(batch.devs)
         /\ \A i \in 1 .. Len(drives) : drives'[i] = drives[i]
<1> DEFINE d == Head(batch.devs)
<1>1. batch.kind = "added" /\ batch.devs # <<>> /\ drives' = Append(drives, d)
  BY DEF HandleAdded, Handling
<1>2. 1 \in DOMAIN batch.devs /\ d = batch.devs[1] /\ d \in Drives
  BY <1>1, BatchTypes, Elements
<1>3. d \in devices
  BY <1>1, <1>2 DEF FailureInv, OnlyAdditions, Harmless, HarmlessIn
<1> HIDE DEF d
<1>4. /\ drives' \in Seq(Drives) /\ Len(drives') = Len(drives) + 1
      /\ drives'[Len(drives) + 1] = d
      /\ \A i \in 1 .. Len(drives) : drives'[i] = drives[i]
  BY <1>1, <1>2, BatchTypes, AppendProperties
<1>5. DOMAIN drives' = 1 .. Len(drives) + 1 /\ DOMAIN drives = 1 .. Len(drives) /\ Len(drives) \in Nat
  BY <1>4, FailureTypes, LenProperties
<1>6. Known' = Known \cup {d}
  <2>1. \A i \in 1 .. Len(drives) + 1 : i \in 1 .. Len(drives) \/ i = Len(drives) + 1
    BY <1>5
  <2>2. Len(drives) + 1 \in 1 .. Len(drives) + 1 /\ \A i \in 1 .. Len(drives) : i \in 1 .. Len(drives) + 1
    BY <1>5
  <2> QED BY <1>4, <1>5, <2>1, <2>2 DEF Known, ToSet
<1>7. d \notin Known
  <2>1. IsInjective(drives')
    BY DEF ListInv, NewsInv
  <2>2. \A i \in 1 .. Len(drives) : i # Len(drives) + 1 /\ i \in 1 .. Len(drives) + 1
    BY <1>5
  <2>3. Len(drives) + 1 \in 1 .. Len(drives) + 1
    BY <1>5
  <2> QED BY <1>4, <1>5, <2>1, <2>2, <2>3 DEF IsInjective, Known, ToSet
<1> QED BY <1>3, <1>4, <1>5, <1>6, <1>7 DEF d

(* Disks stay, so that what is known of them stays true.                    *)
LEMMA HarmlessKept ==
  ASSUME NEW D, NEW E, D \subseteq E
  PROVE  /\ \A b : HarmlessIn(b, D) => HarmlessIn(b, E)
         /\ \A bs : AllHarmless(bs, D) => AllHarmless(bs, E)
         /\ \A b \in Batch : b.devs # <<>> /\ HarmlessIn(b, D) => HarmlessIn([b EXCEPT !.devs = Tail(@)], D)
<1>1. ASSUME NEW b \in Batch, b.devs # <<>>, HarmlessIn(b, D)
      PROVE  HarmlessIn([b EXCEPT !.devs = Tail(@)], D)
  <2>1. b.devs \in Seq(Drives)
    BY DEF Batch
  <2>2. PICK c : c = [b EXCEPT !.devs = Tail(@)]
    OBVIOUS
  <2>3. c.kind = b.kind /\ c.devs = Tail(b.devs)
    BY <2>2 DEF Batch
  <2>4. \A i \in DOMAIN Tail(b.devs) : i + 1 \in DOMAIN b.devs /\ Tail(b.devs)[i] = b.devs[i + 1]
    BY <1>1, <2>1, Elements
  <2>5. HarmlessIn(c, D)
    BY <1>1, <2>3, <2>4 DEF HarmlessIn
  <2> QED BY <2>2, <2>5
<1> QED BY <1>1 DEF HarmlessIn, AllHarmless

LEMMA OnlyAdditionsStep ==
  ASSUME Calm, FailureInv, [Next]_vars
  PROVE  OnlyAdditions'
<1>1. /\ devices \subseteq devices' /\ ListInv'
  BY DisksStep, ListStep DEF DisksKept, FailureInv
<1>2. /\ knownDrives \subseteq devices /\ Known \subseteq devices
      /\ \A d \in Known : hasDevice[d]
      /\ HarmlessIn(batch, devices) /\ AllHarmless(queue, devices) /\ AllHarmless(outbox, devices)
  BY DEF FailureInv, OnlyAdditions, AllHarmless, Harmless
<1>3. /\ \A b : HarmlessIn(b, devices) => HarmlessIn(b, devices')
      /\ \A bs : AllHarmless(bs, devices) => AllHarmless(bs, devices')
  BY <1>1, HarmlessKept
<1> DEFINE Goal ==
             /\ knownDrives' \subseteq devices' /\ Known' \subseteq devices'
             /\ \A d \in Known' : hasDevice'[d]
             /\ HarmlessIn(batch', devices')
             /\ AllHarmless(queue', devices') /\ AllHarmless(outbox', devices')
<1> SUFFICES Goal
  BY DEF OnlyAdditions, AllHarmless, Harmless
<1>4. ASSUME UNCHANGED <<knownDrives, queue, outbox>>
      PROVE  knownDrives' \subseteq devices' /\ AllHarmless(queue', devices') /\ AllHarmless(outbox', devices')
  BY <1>1, <1>2, <1>3, <1>4 DEF AllHarmless
<1>5. UNCHANGED <<drives, hasDevice>> => Known' \subseteq devices' /\ \A d \in Known' : hasDevice'[d]
  BY <1>1, <1>2 DEF Known
<1>6. /\ HarmlessIn(NoEvent, devices') /\ \A d : HarmlessIn(Event("error", <<d>>), devices')
  BY DEF HarmlessIn, NoEvent, Event
<1>7. CASE Busy \/ CalmUpset \/ NoStep
  <2>1. UNCHANGED <<knownDrives, queue, outbox, drives, batch, hasDevice>>
    BY <1>7 DEF Busy, ConvergeHealthy, ConvergeBroken, Setup, BeginSetup, BeginLUKSSetup,
       Format, UnmountOther, OthersUnmounted, Mount, ClearPropagation, Announce, Umount, fields,
       SetupInside, LUKSFormat, LUKSOpen, Descend, LUKSClose,
       FilesystemTornDown, TornDown, GiveUp, CalmUpset, NoStep, vars, ctlVars, collectorVars,
       deviceVars, driveVars
  <2> QED BY <1>2, <1>3, <1>4, <1>5, <2>1
<1>8. CASE Loop
  <2>1. UNCHANGED <<knownDrives, queue, outbox, drives, hasDevice>> /\ batch' \in {batch, NoEvent}
    BY <1>8 DEF Loop, BeginConverge, NextDrive, EndPass1, Scan, ScanDrive, EndScan, Assign, AssignDrive,
       BeginPass2, EndConverge, deviceVars, driveVars, fields, collectorVars
  <2> QED BY <1>2, <1>3, <1>4, <1>5, <1>6, <2>1
<1>9. CASE End
  <2>1. knownDrives' = {} /\ queue' = <<>> /\ outbox' = <<>> /\ drives' = <<>> /\ batch' = NoEvent
    BY <1>9 DEF End, ProcessEnds, CollectorsReset
  <2>2. Known' = {}
    BY <2>1 DEF Known, ToSet
  <2> QED BY <1>6, <2>1, <2>2 DEF AllHarmless
<1>10. CASE Receive
  <2>1. /\ queue # <<>> /\ batch' = Head(queue) /\ queue' = Tail(queue)
        /\ UNCHANGED <<knownDrives, outbox, drives, hasDevice>>
    BY <1>10 DEF Receive, fields
  <2>2. queue \in Seq(Batch)
    BY BatchTypes
  <2>3. HarmlessIn(batch', devices) /\ AllHarmless(queue', devices)
    BY <1>2, <2>1, <2>2, Elements DEF AllHarmless
  <2>4. HarmlessIn(batch', devices') /\ AllHarmless(queue', devices') /\ AllHarmless(outbox', devices')
    BY <1>1, <1>2, <2>1, <2>3 DEF AllHarmless, HarmlessIn
  <2> QED BY <1>1, <1>2, <1>5, <2>1, <2>4
<1>11. CASE HandleAdded \/ HandleReinstated
  <2> DEFINE d == Head(batch.devs)
  <2>1. d \in devices /\ NewDevice(d) /\ Known' \subseteq Known \cup {d}
        /\ UNCHANGED <<batch, knownDrives, queue, outbox>>
    BY <1>1, <1>2, <1>11, AddedList DEF HandleAdded, HandleReinstated, ctlVars, collectorVars, Known
  <2>2. hasDevice' = [hasDevice EXCEPT ![d] = TRUE] /\ d \in Drives /\ hasDevice \in [Drives -> BOOLEAN]
        /\ Known \subseteq Drives
    BY <2>1, NewDeviceEffect, FailureTypes
  <2> HIDE DEF d
  <2>3. \A e \in Known' : hasDevice'[e]
    BY <1>2, <2>1, <2>2
  <2> QED BY <1>1, <1>2, <1>3, <1>4, <2>1, <2>3
<1>12. CASE HandleError \/ HandleUnknown \/ EventHandled
  <2>1. UNCHANGED <<knownDrives, queue, outbox, drives, hasDevice>> /\ batch.devs # <<>>
        /\ batch' = [batch EXCEPT !.devs = Tail(@)]
    BY <1>2, <1>12, BusyPhase DEF HandleError, HandleUnknown, EventHandled, EventDone, Handling, fields,
       collectorVars, deviceVars, driveVars, HarmlessIn
  <2>2. HarmlessIn(batch', devices')
    <3>1. batch \in Batch
      BY BatchTypes
    <3>2. HarmlessIn([batch EXCEPT !.devs = Tail(@)], devices)
      BY <1>2, <2>1, <3>1, HarmlessKept
    <3> QED BY <1>3, <2>1, <3>2
  <2> QED BY <1>2, <1>4, <1>5, <2>1, <2>2
<1>13. CASE Outside
  <2>1. UNCHANGED <<drives, hasDevice, batch>>
    BY <1>13 DEF Outside, CollectorStep, Restart, LogError, ctlVars, deviceVars, driveVars, fields
  <2>2. CASE CollectDrives
    <3> DEFINE new == {d \in devices \ knownDrives : Eligible(d)}
    <3>1. knownDrives \ devices = {}
      BY <1>2
    <3>2. PICK r \in BatchOf("removed", {}, Sorted({})), a \in BatchOf("added", new, Sorted(new)) :
            outbox' = outbox \o r \o a
      BY <2>2, <3>1 DEF CollectDrives
    <3>3. r = <<>> /\ knownDrives' = devices /\ UNCHANGED queue
      BY <2>2, <3>2 DEF BatchOf, CollectDrives
    <3>4. new \in SUBSET Drives /\ new \subseteq devices
      BY FailureTypes
    <3>5. a \in Seq(Batch) /\ AllHarmless(a, devices)
      <4>1. a = <<>> \/ \E s \in Sorted(new) : a = <<Event("added", s)>>
        BY <3>2 DEF BatchOf
      <4>2. a = <<>> => a \in Seq(Batch) /\ AllHarmless(a, devices)
        BY EmptySeq DEF AllHarmless
      <4>3. ASSUME NEW s \in Sorted(new)
            PROVE  <<Event("added", s)>> \in Seq(Batch) /\ AllHarmless(<<Event("added", s)>>, devices)
        <5>1. s \in Seq(Drives) /\ ToSet(s) = new
          BY <3>4, SortedListsAll
        <5>2. Event("added", s) \in Batch /\ Event("added", s).kind = "added" /\ Event("added", s).devs = s
          BY <5>1, BatchTypes DEF Kinds
        <5>3. HarmlessIn(Event("added", s), devices)
          BY <3>4, <5>1, <5>2 DEF HarmlessIn, ToSet
        <5> QED BY <5>2, <5>3 DEF AllHarmless
      <4> QED BY <4>1, <4>2, <4>3
    <3> HIDE DEF new
    <3>6. outbox \in Seq(Batch) /\ outbox \o <<>> = outbox
      BY BatchTypes, ConcatEmptySeq
    <3>7. outbox' = outbox \o a
      BY <3>2, <3>3, <3>6
    <3>8. AllHarmless(outbox \o a, devices)
      BY <1>2, <3>5, <3>6, Elements DEF AllHarmless
    <3>9. AllHarmless(outbox', devices')
      BY <1>3, <3>7, <3>8 DEF AllHarmless
    <3>10. AllHarmless(queue', devices')
      BY <1>2, <1>3, <3>3 DEF AllHarmless
    <3> QED BY <1>1, <1>2, <1>3, <1>5, <2>1, <3>3, <3>9, <3>10
  <2>3. CASE ~CollectDrives
    <3>1. UNCHANGED knownDrives
      BY <1>13, <2>3 DEF Outside, CollectorStep, Collect, SendDriveEvents, CollectReinstatements,
         SendReinstatements, ScheduleWakeup, Restart, LogError, SendDriveError, collectorVars
    <3>2. /\ outbox' = outbox \/ (outbox' = Tail(outbox) /\ outbox # <<>>)
          /\ \/ UNCHANGED queue
             \/ queue' = Append(queue, Head(outbox)) /\ outbox # <<>>
             \/ queue' = Append(queue, Head(held)) /\ held # <<>>
             \/ queue' = Append(queue, NoEvent)
             \/ \E d \in Drives : queue' = Append(queue, Event("error", <<d>>))
      BY <1>13, <2>3 DEF Outside, CollectorStep, Collect, SendDriveEvents, CollectReinstatements,
         SendReinstatements, ScheduleWakeup, Restart, LogError, SendDriveError, collectorVars, NoEvent
    <3>3. queue \in Seq(Batch) /\ outbox \in Seq(Batch)
      BY BatchTypes
    <3>4. /\ outbox # <<>> => Head(outbox) \in Batch /\ HarmlessIn(Head(outbox), devices) /\ AllHarmless(Tail(outbox), devices)
          /\ held # <<>> => Head(held) \in Batch /\ HarmlessIn(Head(held), devices)
          /\ NoEvent \in Batch /\ HarmlessIn(NoEvent, devices)
          /\ \A d \in Drives : Event("error", <<d>>) \in Batch /\ HarmlessIn(Event("error", <<d>>), devices)
      <4>1. outbox # <<>> => Head(outbox) \in Batch /\ HarmlessIn(Head(outbox), devices) /\ AllHarmless(Tail(outbox), devices)
        BY <1>2, <3>3, Elements DEF AllHarmless
      <4>2. held # <<>> => Head(held) \in Batch /\ HarmlessIn(Head(held), devices)
        BY BatchTypes DEF HarmlessIn
      <4>3. /\ NoEvent \in Batch /\ HarmlessIn(NoEvent, devices)
        BY EmptySeq DEF NoEvent, Event, Batch, Kinds, HarmlessIn
      <4>4. ASSUME NEW d \in Drives
            PROVE  Event("error", <<d>>) \in Batch /\ HarmlessIn(Event("error", <<d>>), devices)
        <5>1. <<d>> \in Seq(Drives)
          OBVIOUS
        <5> QED BY <5>1 DEF Event, Batch, Kinds, HarmlessIn
      <4> QED BY <4>1, <4>2, <4>3, <4>4
    <3>5. ASSUME NEW b \in Batch, HarmlessIn(b, devices) PROVE AllHarmless(Append(queue, b), devices)
      BY <1>2, <3>3, <3>5, Elements DEF AllHarmless
    <3>6. AllHarmless(outbox', devices) /\ AllHarmless(queue', devices)
      <4>1. AllHarmless(outbox', devices)
        BY <1>2, <3>2, <3>4
      <4>2. UNCHANGED queue \/ \E b \in Batch : HarmlessIn(b, devices) /\ queue' = Append(queue, b)
        BY <3>2, <3>4
      <4> QED BY <1>2, <3>5, <4>1, <4>2
    <3>7. AllHarmless(outbox', devices') /\ AllHarmless(queue', devices')
      BY <1>1, <3>6 DEF AllHarmless, HarmlessIn
    <3> QED BY <1>1, <1>2, <1>3, <1>5, <2>1, <3>1, <3>7
  <2> QED BY <2>2, <2>3
<1> QED BY <1>7, <1>8, <1>9, <1>10, <1>11, <1>12, <1>13, CalmSteps DEF Handler

(* The converger's commands do not change what it is at work on.            *)
LEMMA BusyFrame ==
  ASSUME FailureInv, Busy
  PROVE  /\ UNCHANGED <<phase, drives, batch, at, devices, knownDrives, queue, outbox, hasDevice, hasLUKS>>
         /\ UNCHANGED <<scanned, taken, spareIdx>>
         /\ Current' = Current /\ Known' = Known
         /\ op' # "idle" /\ Current \in Known /\ phase \in {"handle", "pass1", "pass2"}
         /\ op = "idle" => phase # "handle"
<1>1. UNCHANGED <<phase, drives, batch, at, devices, knownDrives, queue, outbox, hasDevice, hasLUKS>>
      /\ UNCHANGED <<scanned, taken, spareIdx>>
  BY DEF Busy, ConvergeHealthy, ConvergeBroken, Setup, BeginSetup, BeginLUKSSetup, fields,
     Format, UnmountOther, OthersUnmounted, Mount, ClearPropagation, Announce, Umount,
     SetupInside, LUKSFormat, LUKSOpen, Descend, LUKSClose,
     FilesystemTornDown, TornDown, GiveUp, ctlVars, collectorVars, luksVars, hostVars, disks, assignVars
<1>2. op' # "idle"
  <2>1. CASE ConvergeHealthy \/ ConvergeBroken
    BY <2>1, DeviceBusy DEF ConvergeHealthy, ConvergeBroken
  <2>2. CASE ~ConvergeHealthy /\ ~ConvergeBroken
    <3>1. DeviceStep(Current)
      BY <2>2 DEF Busy, DeviceStep, XFSStep
    <3> QED BY <3>1, DeviceBusy
  <2> QED BY <2>1, <2>2
<1>3. op # "idle" \/ InPass
  BY DEF Busy, ConvergeHealthy, ConvergeBroken, ToConverge, Format, UnmountOther, OthersUnmounted,
     Mount, ClearPropagation, Announce, Umount, SetupInside, LUKSFormat, LUKSOpen, Descend, LUKSClose,
     FilesystemTornDown, GiveUp
<1>4. Current \in Known /\ phase \in {"handle", "pass1", "pass2"} /\ (op = "idle" => phase # "handle")
  BY <1>3, BusyPhase DEF InPass, Current
<1>5. Current' = Current /\ Known' = Known
  BY <1>1 DEF Current, Known
<1> QED BY <1>1, <1>2, <1>4, <1>5

(* The work on one drive does not concern the others.                       *)
LEMMA BusyKeeps ==
  ASSUME Calm, FailureInv, [Next]_vars, Busy
  PROVE  /\ UNCHANGED swiftID /\ op' \notin {"idle", "converge"}
         /\ \A d \in Drives : d # Current =>
              /\ mountPath'[d] = mountPath[d] /\ broken'[d] = broken[d] /\ assignment'[d] = assignment[d]
              /\ \A s \in Scopes : PathsOf(d, s)' = PathsOf(d, s)
         /\ \/ broken'[Current] = broken[Current] /\ assignment'[Current] = assignment[Current]
            \/ broken'[Current] = TRUE /\ assignment'[Current] = Nil
         /\ \A id \in propagation' :
              id \in propagation \/ \E s \in Scopes : Srv(id) \in PathsOf(Current, s)
<1> DEFINE c == Current
<1>1. /\ c \in Known /\ c \in Drives /\ op' # "idle" /\ scope \in Scopes
      /\ broken \in [Drives -> BOOLEAN] /\ assignment \in [Drives -> Assignments]
      /\ mountPath \in [Drives -> Paths \cup {NoPath}] /\ swiftID \in [Drives -> IDs \cup {Spare, NoID}]
  BY BusyFrame, FailureTypes DEF DriveTypeOK
<1>2. UNCHANGED swiftID
  <2>1. CASE Format(c)
    <3>1. UNCHANGED swiftID \/ (LooksEmpty(c) /\ swiftID' = [swiftID EXCEPT ![c] = NoID])
      BY <2>1 DEF Format
    <3>2. LooksEmpty(c) => swiftID[c] = NoID
      BY <1>1 DEF LooksEmpty, FailureInv, MountInv, BlankUnnamed
    <3> QED BY <1>1, <3>1, <3>2
  <2>2. CASE ~Format(c)
    BY <2>2 DEF Busy, ConvergeHealthy, ConvergeBroken, Setup, BeginSetup, BeginLUKSSetup,
       UnmountOther, OthersUnmounted, Mount, ClearPropagation, Announce, Umount,
       SetupInside, LUKSFormat, LUKSOpen, Descend, LUKSClose,
       FilesystemTornDown, TornDown, GiveUp, hostVars, disks
  <2> QED BY <2>1, <2>2
<1>3. op' # "converge"
  BY DEF Busy, ConvergeHealthy, ConvergeBroken, Setup, BeginSetup, BeginLUKSSetup, Teardown,
     BeginTeardown, AfterFilesystem, Format, UnmountOther, OthersUnmounted, Mount, ClearPropagation,
     Announce, Umount, SetupInside, LUKSFormat, LUKSOpen, Descend, LUKSClose,
     FilesystemTornDown, TornDown, GiveUp
<1>4. \A d \in Drives : d # c => mountPath'[d] = mountPath[d]
  BY <1>1 DEF Busy, ConvergeHealthy, ConvergeBroken, Setup, BeginSetup, BeginLUKSSetup, fields,
     Format, UnmountOther, OthersUnmounted, Mount, ClearPropagation,
     Announce, Umount, SetupInside, LUKSFormat, LUKSOpen, Descend, LUKSClose,
     FilesystemTornDown, TornDown, GiveUp
<1>5. \/ UNCHANGED <<broken, assignment>>
      \/ broken' = [broken EXCEPT ![c] = TRUE] /\ assignment' = [assignment EXCEPT ![c] = Nil]
  BY DEF Busy, ConvergeHealthy, ConvergeBroken, Setup, BeginSetup, BeginLUKSSetup, fields,
     Format, UnmountOther, OthersUnmounted, Mount, ClearPropagation,
     Announce, Umount, SetupInside, LUKSFormat, LUKSOpen, Descend, LUKSClose,
     FilesystemTornDown, TornDown, GiveUp, MarkAsBroken
<1>6. ASSUME NEW d \in Drives, d # c
      PROVE  \A s \in Scopes : PathsOf(d, s)' = PathsOf(d, s)
  <2>1. CASE UmountStep
    <3>1. PICK p \in todo :
            \A e : \A t \in Scopes : PathsOf(e, t)' = PathsOf(e, t) \ (IF t \in Affected(scope) THEN {p} ELSE {})
      BY <2>1, UmountStepEffect
    <3>2. p \in PathsOf(c, scope)
      BY <2>1, <3>1, UmountStepEffect DEF Job
    <3>3. \A t \in Scopes : p \notin PathsOf(d, t)
      BY <1>1, <1>6, <3>2 DEF FailureInv, MountInv, OneOwner
    <3> QED BY <3>1, <3>3
  <2>2. CASE MountStep
    BY <1>6, <2>2, MountStepEffect DEF Mounts, PathsOf
  <2>3. CASE ~UmountStep /\ ~MountStep
    <3>1. UNCHANGED phase /\ phase \notin {"wait", "dead"}
      BY BusyFrame
    <3>2. UNCHANGED mounts
      BY <2>3, <3>1, TableSteps
    <3> QED BY <3>2 DEF PathsOf
  <2> QED BY <2>1, <2>2, <2>3
<1>7. ASSUME NEW id \in propagation'
      PROVE  id \in propagation \/ \E s \in Scopes : Srv(id) \in PathsOf(c, s)
  <2>1. CASE Announce(c)
    <3>1. op = "teardown" /\ \E p \in todo : propagation' = propagation \cup FlagsFor(p) \/ UNCHANGED propagation
      BY <2>1 DEF Announce
    <3>2. todo = PathsOf(c, scope)
      BY <3>1 DEF FailureInv, DriveStates, JobInv, Job
    <3> QED BY <1>1, <1>7, <3>1, <3>2 DEF FlagsFor
  <2>2. CASE ~Announce(c)
    <3>1. propagation' \subseteq propagation
      BY <2>2 DEF Busy, ConvergeHealthy, ConvergeBroken, Setup, BeginSetup, BeginLUKSSetup, Format, flags,
         UnmountOther, OthersUnmounted, Mount, ClearPropagation, hostVars,
         Umount, SetupInside, LUKSFormat, LUKSOpen, Descend, LUKSClose,
         FilesystemTornDown, TornDown, GiveUp
    <3> QED BY <1>7, <3>1
  <2> QED BY <2>1, <2>2
<1> QED BY <1>1, <1>2, <1>3, <1>4, <1>5, <1>6, <1>7

-----------------------------------------------------------------------------
(* The containers.                                                          *)

(* The list of drives grows until the process ends.                         *)
LEMMA KnownKept ==
  ASSUME Calm, FailureInv, [Next]_vars
  PROVE  \/ Known \subseteq Known'
         \/ End /\ Known' = {}
<1>1. CASE Busy
  BY <1>1, BusyFrame
<1>2. CASE HandleAdded
  BY <1>2, ListStep, AddedList DEF FailureInv
<1>3. CASE UNCHANGED drives
  BY <1>3 DEF Known
<1>4. CASE Handler /\ ~HandleAdded
  BY <1>3, <1>4 DEF Handler, Receive, HandleReinstated, HandleError, HandleUnknown, EventHandled,
     ctlVars, FailureInv, OnlyAdditions, Harmless, HarmlessIn
<1>5. CASE Loop \/ CalmUpset \/ Outside \/ NoStep
  BY <1>3, <1>5 DEF Loop, BeginConverge, NextDrive, EndPass1, Scan, EndScan, Assign, BeginPass2,
     EndConverge, CalmUpset, Outside, CollectorStep, Restart, LogError, NoStep, vars, ctlVars
<1>6. CASE End
  BY <1>6 DEF End, ProcessEnds, Known, ToSet
<1> QED BY <1>1, <1>2, <1>4, <1>5, <1>6, CalmSteps DEF Handler

(* A disk that is mounted is encrypted if its Device says so, and open then.*)
LEMMA MountedOpen ==
  ASSUME FailureInv, NEW d \in Drives, MountedSomewhere(d)
  PROVE  /\ Reachable(d) /\ content[d] # "blank" /\ (content[d] = "luks" => d \in open /\ Keys)
         /\ d \in Known /\ d \in hasLUKS => content[d] = "luks"
<1>1. Reachable(d) /\ Filesystem(d) = "xfs"
  BY DEF MountedSomewhere, FailureInv, MountInv, RightPaths
<1>2. content[d] # "blank" /\ (content[d] = "luks" => d \in open)
  BY <1>1 DEF Reachable, Filesystem, Encrypted
<1>3. d \in open => Keys
  BY KeysAssumption DEF FailureInv, LuksInv, Contained
<1> QED BY <1>1, <1>2, <1>3 DEF FailureInv, LuksInv, Classified

LEMMA MappingSteps ==
  ASSUME Calm, FailureInv, [Next]_vars
  PROVE  \/ UNCHANGED mappings /\ ~Receive
         \/ LUKSOpen(Current) /\ mappings' = mappings \cup {Current}
         \/ Receive /\ mappings' = open
         \/ End /\ mappings' = {}
<1>1. CASE LUKSOpen(Current) /\ ~Receive
  BY <1>1 DEF LUKSOpen
<1>2. CASE Busy /\ ~LUKSOpen(Current)
  <2>1. ~Receive
    BY <1>2, BusyFrame DEF Receive
  <2> QED BY <1>2, <2>1 DEF Busy, ConvergeHealthy, ConvergeBroken, Setup, BeginSetup, BeginLUKSSetup,
       SetupInside, LUKSFormat, Descend, LUKSClose, FilesystemTornDown, GiveUp, luksVars
<1>3. CASE Receive
  <2>1. {d \in open : Accessible(d)} = open
    BY DEF FailureInv, LuksInv, Contained, OnlyAdditions, Accessible
  <2>2. mappings' = open
    BY <1>3, <2>1 DEF Receive, RefreshLUKSMappings
  <2> QED BY <1>3, <2>2
<1>4. CASE Handler /\ ~Receive
  BY <1>4 DEF Handler, HandleAdded, HandleReinstated, NewDevice, HandleError, HandleUnknown,
     EventHandled, luksVars, deviceVars
<1>5. CASE (Loop \/ CalmUpset \/ Outside \/ NoStep) /\ ~Receive
  BY <1>5 DEF Loop, BeginConverge, NextDrive, EndPass1, Scan, ScanDrive, EndScan, Assign, AssignDrive,
     BeginPass2, EndConverge, CalmUpset, Outside, CollectorStep, Restart, LogError, NoStep, vars,
     luksVars, deviceVars
<1>6. CASE End
  BY <1>6 DEF End, ProcessEnds, LuksReset
<1>7. CASE LUKSOpen(Current) /\ Receive
  BY <1>3, <1>7
<1> QED BY <1>1, <1>2, <1>3, <1>4, <1>5, <1>6, CalmSteps

LEMMA ContainedStep ==
  ASSUME Calm, FailureInv, [Next]_vars
  PROVE  Contained'
<1>1. /\ unreadable = {} /\ (~Keys => open = {} /\ mappings = {})
      /\ open \subseteq Known /\ \A d \in open \cup mappings : content[d] = "luks"
      /\ phase \notin {"wait", "dead"} => open \subseteq mappings
      /\ \A d \in Drives : content[d] # "luks" => inside[d] = "blank"
      /\ Known \subseteq devices /\ Known \subseteq Drives
  BY FailureTypes DEF FailureInv, LuksInv, Contained, OnlyAdditions
<1>2. /\ \A d \in Drives : content[d] = "luks" => content'[d] = "luks"
      /\ \A d \in Drives : content[d] # "luks" => inside'[d] = inside[d]
  BY DisksStep DEF DisksKept
<1>3. LUKSOpen(Current) =>
        Keys /\ content[Current] = "luks" /\ Current \in Known /\ op = "luksOpen"
  BY BusyPhase DEF LUKSOpen, FailureInv, LuksInv, LuksJob
<1>4. unreadable' = {}
  BY <1>1, UnreadableGrows DEF Calm
<1>5. ~Keys => open' = {} /\ mappings' = {}
  BY <1>1, <1>3, OpenSteps, MappingSteps
<1>6. open' \subseteq Known'
  <2>1. CASE Known \subseteq Known'
    BY <1>1, <1>3, <2>1, OpenSteps
  <2>2. CASE End /\ Known' = {}
    <3>1. open' \subseteq open
      BY <2>2, OpenSteps DEF End, ProcessEnds, DriveReset, LUKSOpen, hostVars, disks, HostReboot
    <3>2. open = {} \/ open' = {}
      BY <1>1, <2>2 DEF End, HostReboot
    <3> QED BY <3>1, <3>2
  <2> QED BY <2>1, <2>2, KnownKept
<1>7. \A d \in open' \cup mappings' : content'[d] = "luks"
  <2>1. mappings \subseteq Drives
    BY FailureTypes DEF TypeInv, TypeOK, LuksTypeOK
  <2>2. \A d \in open' \cup mappings' : d \in Drives /\ content[d] = "luks"
    BY <1>1, <1>3, <2>1, OpenSteps, MappingSteps
  <2> QED BY <1>2, <2>2
<1>8. ASSUME phase' \notin {"wait", "dead"} PROVE open' \subseteq mappings'
  <2>1. CASE End
    BY <1>8, <2>1 DEF End, ProcessEnds
  <2>2. CASE Receive
    BY <2>2, MappingSteps, BusyPhase DEF Receive, hostVars, disks, LUKSOpen, End, ProcessEnds
  <2>3. CASE ~End /\ ~Receive
    <3>1. open \subseteq mappings
      BY <1>1, <1>8, <2>3, PhaseKept
    <3>2. mappings \subseteq mappings'
      BY <2>3, MappingSteps
    <3>3. \/ open' \subseteq open
          \/ open' = open \cup {Current} /\ mappings' = mappings \cup {Current}
      BY OpenSteps
    <3> QED BY <3>1, <3>2, <3>3
  <2> QED BY <2>1, <2>2, <2>3
<1>9. \A d \in Drives : content'[d] # "luks" => inside'[d] = "blank"
  BY <1>1, <1>2
<1> QED BY <1>4, <1>5, <1>6, <1>7, <1>8, <1>9 DEF Contained

(* Other steps than these leave a drive's Device as it is.                  *)
LEMMA DevicesKept ==
  ASSUME Calm, FailureInv, [Next]_vars, ~Busy, ~HandleAdded, ~HandleReinstated, ~End
  PROVE  /\ UNCHANGED <<content, inside, hasLUKS, luksFormatted, mapped, mappingName, mountPath>>
         /\ UNCHANGED drives /\ (op' # op => op' = "idle" /\ op = "done")
         /\ op \notin {"idle", "done"} => UNCHANGED <<broken, ctlVars>>
<1>1. CASE Handler
  BY <1>1, FailureTypes, BusyPhase DEF Handler, Receive, HandleError, HandleUnknown, EventHandled, hostVars, disks, deviceVars,
     driveVars, fields, luksVars, job, ctlVars, FailureInv, OnlyAdditions, Harmless, HarmlessIn,
     Handling
<1>2. CASE Loop
  BY <1>2, BusyPhase DEF Loop, BeginConverge, NextDrive, EndPass1, Scan, ScanDrive, EndScan, Assign, AssignDrive,
     BeginPass2, EndConverge, hostVars, disks, deviceVars, driveVars, fields, luksVars, job, InPass
<1>3. CASE CalmUpset
  BY <1>3 DEF CalmUpset, EditSwiftID, ExternalUmount, ExternalClose, RemountReadonly, Plug, DeleteFlag,
     CreateDurableFlag, disks, deviceVars, driveVars, fields, luksVars, job, ctlVars
<1>4. CASE Outside \/ NoStep
  BY <1>4, BusyPhase DEF Outside, CollectorStep, Restart, LogError, NoStep, hostVars, disks, vars,
     deviceVars, driveVars, fields, luksVars, job, ctlVars
<1> QED BY <1>1, <1>2, <1>3, <1>4, CalmSteps DEF Handler

(* The work on a drive does not concern the containers of the others.       *)
LEMMA BusyLuks ==
  ASSUME Calm, FailureInv, [Next]_vars, Busy, NEW c, c = Current
  PROVE  /\ c \in Known /\ c \in Drives /\ UNCHANGED <<hasLUKS, drives>> /\ Current' = c
         /\ \A d : d # c => (d \in mapped' <=> d \in mapped)
                            /\ (d \in luksFormatted' <=> d \in luksFormatted)
         /\ \A d \in Drives : d # c => content'[d] = content[d]
         /\ c \in luksFormatted' /\ c \notin luksFormatted => content'[c] = "luks" /\ content[c] = "blank"
         /\ c \in luksFormatted => c \in luksFormatted'
         /\ c \in mapped' /\ c \notin mapped => content[c] = "luks"
         /\ content'[c] # content[c] =>
              /\ content[c] = "blank"
              /\ IF c \in hasLUKS THEN content'[c] = "luks" /\ c \in luksFormatted'
                                  ELSE content'[c] = "xfs"
<1>1. c \in Known /\ c \in Drives /\ UNCHANGED <<hasLUKS, drives>> /\ Current' = c
  BY BusyFrame, FailureTypes
<1>2. /\ content \in [Drives -> {"blank", "xfs", "luks"}]
      /\ \A d \in mappings : content[d] = "luks"
      /\ c \in mapped => content[c] = "luks"
  BY <1>1, FailureTypes DEF FailureInv, LuksInv, Contained, Classified
<1>3. CASE LUKSFormat(c)
  <2>1. c \in hasLUKS /\ UNCHANGED mapped
    BY <1>3 DEF LUKSFormat, FailureInv, LuksInv, LuksJob
  <2>2. CASE UNCHANGED <<content, luksFormatted>>
    BY <1>1, <2>1, <2>2
  <2>3. CASE ~UNCHANGED <<content, luksFormatted>>
    <3>1. /\ content[c] = "blank" /\ content' = [content EXCEPT ![c] = "luks"]
          /\ luksFormatted' = luksFormatted \cup {c}
      BY <1>3, <2>3 DEF LUKSFormat
    <3> QED BY <1>1, <1>2, <2>1, <3>1
  <2> QED BY <2>2, <2>3
<1>4. CASE Format(c) /\ UNCHANGED luksVars
  <2>1. UNCHANGED <<mapped, luksFormatted>>
    BY <1>4 DEF luksVars
  <2>2. CASE UNCHANGED content
    BY <1>1, <2>1, <2>2
  <2>3. CASE ~UNCHANGED content
    <3>1. content[c] = "blank" /\ content' = [content EXCEPT ![c] = "xfs"]
      BY <1>4, <2>3 DEF Format, LooksEmpty, Filesystem, Encrypted
    <3>2. c \notin hasLUKS
      BY <1>2, <1>4, <3>1 DEF Format, FailureInv, LuksInv, LuksJob
    <3> QED BY <1>1, <1>2, <2>1, <3>1, <3>2
  <2> QED BY <2>2, <2>3
<1>5. CASE BeginLUKSSetup(c)
  <2>1. UNCHANGED <<content, luksFormatted>>
    BY <1>5 DEF BeginLUKSSetup, hostVars, disks
  <2>2. /\ \A d : d # c => (d \in mapped' <=> d \in mapped)
        /\ c \in mapped' => c \in mapped \/ c \in mappings
    BY <1>5 DEF BeginLUKSSetup, Adopt, AdoptsMapping, Put
  <2> QED BY <1>1, <1>2, <2>1, <2>2
<1>6. CASE Descend(c)
  <2>1. UNCHANGED <<content, luksFormatted>> /\ content[c] = "luks"
    BY <1>6 DEF Descend, hostVars, disks, FailureInv, LuksInv, LuksJob
  <2>2. \A d : d # c => (d \in mapped' <=> d \in mapped)
    BY <1>6 DEF Descend, Put
  <2> QED BY <1>1, <2>1, <2>2
<1>7. CASE FilesystemTornDown(c)
  <2>1. UNCHANGED <<content, luksFormatted>> /\ mapped' \in {mapped, mapped \ {c}}
    BY <1>7 DEF FilesystemTornDown, TornDown, hostVars, disks, luksVars
  <2> QED BY <1>1, <2>1
<1>8. CASE /\ ~LUKSFormat(c) /\ ~Format(c) /\ ~BeginLUKSSetup(c) /\ ~Descend(c)
           /\ ~FilesystemTornDown(c)
  <2>1. UNCHANGED <<content, luksFormatted, mapped>>
    BY <1>8 DEF Busy, ConvergeHealthy, ConvergeBroken, Setup, BeginSetup, SetupInside, LUKSOpen, LUKSClose,
       UnmountOther, OthersUnmounted, Mount, ClearPropagation, Announce, Umount, GiveUp, hostVars,
       disks, luksVars
  <2> QED BY <1>1, <2>1
<1>9. Format(c) => UNCHANGED luksVars
  BY DEF Busy, Format, ConvergeHealthy, ConvergeBroken, ToConverge, SetupInside, LUKSFormat, LUKSOpen,
     Descend, LUKSClose, FilesystemTornDown, GiveUp
<1> QED BY <1>3, <1>4, <1>5, <1>6, <1>7, <1>8, <1>9

LEMMA ClassifiedStep ==
  ASSUME Calm, FailureInv, [Next]_vars
  PROVE  Classified'
<1>1. /\ Classified /\ Known \subseteq Drives /\ content \in [Drives -> {"blank", "xfs", "luks"}]
  BY FailureTypes DEF FailureInv, LuksInv
<1>2. CASE Busy
  <2> DEFINE c == Current
  <2>1. /\ c \in Known /\ c \in Drives /\ UNCHANGED hasLUKS /\ Known' = Known
        /\ \A d : d # c => (d \in mapped' <=> d \in mapped)
                            /\ (d \in luksFormatted' <=> d \in luksFormatted)
        /\ \A d \in Drives : d # c => content'[d] = content[d]
        /\ c \in luksFormatted' /\ c \notin luksFormatted => content'[c] = "luks" /\ content[c] = "blank"
        /\ c \in luksFormatted => c \in luksFormatted'
        /\ c \in mapped' /\ c \notin mapped => content[c] = "luks"
        /\ content'[c] # content[c] =>
              /\ content[c] = "blank"
              /\ IF c \in hasLUKS THEN content'[c] = "luks" /\ c \in luksFormatted'
                                  ELSE content'[c] = "xfs"
    BY <1>2, BusyLuks DEF Known
  <2> HIDE DEF c
  <2>2. ASSUME NEW d \in Known
        PROVE  /\ d \in hasLUKS' <=> content'[d] = "luks" \/ (content'[d] = "blank" /\ Keys)
               /\ d \in luksFormatted' <=> content'[d] = "luks"
               /\ d \in mapped' => content'[d] = "luks"
    <3>1. /\ d \in hasLUKS <=> content[d] = "luks" \/ (content[d] = "blank" /\ Keys)
          /\ d \in luksFormatted <=> content[d] = "luks"
          /\ d \in mapped => content[d] = "luks"
      BY <1>1 DEF Classified
    <3>2. CASE d # c
      BY <1>1, <2>1, <3>1, <3>2
    <3>3. CASE d = c
      BY <1>1, <2>1, <3>1, <3>3
    <3> QED BY <3>2, <3>3
  <2> QED BY <2>1, <2>2 DEF Classified
<1>3. CASE HandleAdded \/ HandleReinstated
  <2> DEFINE d == Head(batch.devs)
  <2>1. d \in devices /\ NewDevice(d) /\ UNCHANGED content /\ Known' = Known \cup {d}
    BY <1>3, AddedList, ListStep
       DEF HandleAdded, HandleReinstated, FailureInv, OnlyAdditions, disks, ctlVars, Known
  <2>2. /\ hasLUKS' = Put(hasLUKS, d, content[d] = "luks" \/ (content[d] = "blank" /\ Keys))
        /\ luksFormatted' = Put(luksFormatted, d, content[d] = "luks")
        /\ mapped' = mapped \ {d}
    BY <2>1, NewDeviceEffect
  <2> HIDE DEF d
  <2> QED BY <1>1, <2>1, <2>2 DEF Classified, Put
<1>4. CASE End
  <2>1. Known' = {}
    BY <1>4 DEF End, ProcessEnds, Known, ToSet
  <2> QED BY <2>1 DEF Classified
<1>5. CASE ~Busy /\ ~HandleAdded /\ ~HandleReinstated /\ ~End
  <2>1. UNCHANGED <<content, hasLUKS, luksFormatted, mapped, drives>>
    BY <1>5, DevicesKept
  <2> QED BY <1>1, <2>1 DEF Classified, Known
<1> QED BY <1>2, <1>3, <1>4, <1>5

LEMMA OpenedStep ==
  ASSUME Calm, FailureInv, [Next]_vars
  PROVE  Opened'
<1> DEFINE Goal(d) ==
             /\ mountPath'[d] = NoPath
             /\ MountedSomewhere(d)' => WorksOn(d)' /\ op' = "converge" /\ ~broken'[d]
<1> SUFFICES ASSUME NEW d \in Known', d \in hasLUKS', d \notin mapped' PROVE Goal(d)
  BY DEF Opened
<1>1. /\ Known \subseteq Drives /\ mountPath \in [Drives -> Paths \cup {NoPath}]
      /\ broken \in [Drives -> BOOLEAN]
      /\ phase \notin {"wait", "dead"} => open \subseteq mappings
  BY FailureTypes DEF FailureInv, LuksInv, Contained
<1>2. ASSUME d \in Known, d \in hasLUKS, d \notin mapped
      PROVE  /\ mountPath[d] = NoPath
             /\ MountedSomewhere(d) => WorksOn(d) /\ op = "converge" /\ ~broken[d]
  BY <1>2 DEF FailureInv, LuksInv, Opened
<1>3. ASSUME ~MountStep, d \in Drives, MountedSomewhere(d)'
      PROVE  MountedSomewhere(d)
  BY <1>3, PathsShrink DEF MountedSomewhere
<1>4. CASE Busy /\ d # Current
  <2>1. d \in Known /\ d \in hasLUKS /\ d \notin mapped
    BY <1>4, BusyLuks DEF Known
  <2>2. mountPath'[d] = mountPath[d] /\ (MountedSomewhere(d)' => MountedSomewhere(d))
    BY <1>1, <1>4, <2>1, BusyKeeps DEF MountedSomewhere
  <2> QED BY <1>2, <1>4, <2>1, <2>2 DEF WorksOn
<1>5. CASE Busy /\ d = Current /\ d \in mapped
  <2>1. d \in Known /\ d \in hasLUKS /\ (op = "descend" => d \notin mapped)
    BY <1>5, BusyLuks DEF FailureInv, LuksInv, LuksJob
  <2>2. FilesystemTornDown(d) /\ scope = "local" /\ TornDown(d, AfterFilesystem(d))
    BY <1>5, <2>1 DEF Busy, ConvergeHealthy, ConvergeBroken, Setup, BeginSetup, BeginLUKSSetup, Adopt,
       AdoptsMapping, SetupInside, LUKSFormat, LUKSOpen, Descend, LUKSClose, FilesystemTornDown, GiveUp,
       luksVars
  <2>3. op = "teardown" /\ todo = {} /\ UNCHANGED mounts /\ mountPath'[d] = NoPath
    BY <1>1, <2>1, <2>2 DEF TornDown, hostVars
  <2>4. \A s \in Scopes : PathsOf(d, s) = {}
    BY <1>5, <2>2, <2>3 DEF FailureInv, DriveStates, JobInv, Job, Scopes
  <2>5. ~MountedSomewhere(d)'
    BY <2>3, <2>4 DEF MountedSomewhere, PathsOf
  <2> QED BY <2>3, <2>5
<1>6. CASE Busy /\ d = Current /\ d \notin mapped
  <2>1. d \in Known /\ d \in Drives /\ d \in hasLUKS /\ phase \notin {"wait", "dead"}
    BY <1>6, BusyLuks, BusyFrame
  <2>2. /\ mountPath[d] = NoPath
        /\ MountedSomewhere(d) => op = "converge" /\ ~broken[d]
    BY <1>2, <1>6, <2>1
  <2>3. op \notin {"format", "unmount", "mount", "clear", "teardown", "umount", "setup"}
    BY <1>6, <2>1 DEF FailureInv, LuksInv, LuksJob
  <2>4. UNCHANGED mounts
    BY <1>6, <2>3, TableKept DEF UmountStep, MountStep, UnmountOther, Umount, Mount
  <2>5. MountedSomewhere(d)' => MountedSomewhere(d)
    BY <2>4 DEF MountedSomewhere, PathsOf
  <2>6. CASE ConvergeHealthy
    <3>1. BeginLUKSSetup(d)
      BY <1>6, <2>1, <2>6 DEF ConvergeHealthy, Setup
    <3>2. mountPath'[d] = mountPath[d]
      BY <3>1 DEF BeginLUKSSetup
    <3>3. ~MountedSomewhere(d)
      <4>1. SUFFICES ASSUME MountedSomewhere(d) PROVE FALSE
        OBVIOUS
      <4>2. Reachable(d) /\ content[d] = "luks" /\ d \in open
        BY <2>1, <4>1, MountedOpen
      <4>3. AdoptsMapping(d)
        BY <1>1, <1>6, <2>1, <4>2 DEF AdoptsMapping
      <4>4. ClassifyMapped(d) = {inside[d]} /\ inside[d] # "unreadable"
        BY <2>1, <4>2, FailureTypes DEF ClassifyMapped, Reachable, Accessible, HostTypeOK
      <4>5. mapped' = Put(mapped, d, inside[d] # "unreadable")
        BY <3>1, <4>3, <4>4 DEF BeginLUKSSetup, Adopt
      <4> QED BY <4>4, <4>5 DEF Put
    <3> QED BY <2>2, <2>5, <3>2, <3>3
  <2>7. CASE ~ConvergeHealthy
    <3>1. UNCHANGED mountPath /\ ~(op = "converge" /\ ~broken[d])
      BY <1>6, <2>3, <2>7 DEF Busy, ConvergeBroken, Format, UnmountOther, OthersUnmounted, Mount, ClearPropagation,
         Announce, Umount, SetupInside, LUKSFormat, LUKSOpen, Descend, LUKSClose, FilesystemTornDown,
         GiveUp, fields
    <3> QED BY <2>2, <2>5, <3>1
  <2> QED BY <2>6, <2>7
<1>7. CASE HandleAdded \/ HandleReinstated
  <2> DEFINE e == Head(batch.devs)
  <2>1. /\ e \in devices /\ NewDevice(e) /\ op = "idle" /\ op' = "converge" /\ phase = "handle"
        /\ UNCHANGED <<content, mounts, phase, batch>>
        /\ Known' = Known \cup {e} /\ devices \subseteq Drives
    BY <1>7, AddedList, ListStep, FailureTypes
       DEF HandleAdded, HandleReinstated, Handling, FailureInv, OnlyAdditions, disks, ctlVars, Known
  <2>2. /\ hasLUKS' = Put(hasLUKS, e, content[e] = "luks" \/ (content[e] = "blank" /\ Keys))
        /\ mapped' = mapped \ {e} /\ mountPath' = [mountPath EXCEPT ![e] = NoPath]
        /\ broken' = [broken EXCEPT ![e] = e \in transient \cup durable]
    BY <2>1, NewDeviceEffect
  <2>3. MountedSomewhere(d)' = MountedSomewhere(d)
    BY <2>1 DEF MountedSomewhere, PathsOf
  <2> HIDE DEF e
  <2>5. CASE d # e
    BY <1>1, <1>2, <2>1, <2>2, <2>3, <2>5 DEF Put, WorksOn
  <2>6. CASE d = e
    <3>1. mountPath'[d] = NoPath /\ d \in Drives
      BY <1>1, <2>1, <2>2, <2>6
    <3>2. ASSUME MountedSomewhere(d) PROVE e \notin transient \cup durable
      <4>1. content[d] = "luks" /\ d \in open /\ Keys /\ d \in Known
        BY <2>2, <2>6, <3>1, <3>2, MountedOpen DEF Put, FailureInv, LuksInv, Contained
      <4>2. HandleReinstated /\ batch.kind = "reinstated"
        BY <1>7, <2>6, <4>1, AddedList, ListStep DEF e, FailureInv, HandleReinstated, Handling
      <4>3. Retaken
        BY DEF FailureInv, LuksInv
      <4>4. "reinstate" \in Upsets /\ ~broken[d]
        BY <2>1, <3>2, <4>1, <4>2, <4>3 DEF Retaken, WorksOn
      <4>5. durable = {} /\ d \notin transient
        BY <4>1, <4>3, <4>4 DEF Retaken
      <4> QED BY <2>6, <4>5
    <3>3. ASSUME e \notin transient \cup durable PROVE ~broken'[d]
      <4>1. broken'[e] = (e \in transient \cup durable)
        BY <1>1, <2>2, <2>6, <3>1
      <4> QED BY <2>6, <3>3, <4>1
    <3>4. WorksOn(d)'
      BY <2>1, <2>6 DEF WorksOn, Current, e
    <3> QED BY <2>1, <2>3, <3>1, <3>2, <3>3, <3>4
  <2> QED BY <2>5, <2>6
<1>8. CASE End
  BY <1>8 DEF End, ProcessEnds, Known, ToSet
<1>9. CASE ~Busy /\ ~HandleAdded /\ ~HandleReinstated /\ ~End
  <2>1. /\ UNCHANGED <<hasLUKS, mapped, mountPath, drives>> /\ (op' # op => op = "done")
        /\ op \notin {"idle", "done"} => UNCHANGED <<broken, ctlVars>>
    BY <1>9, DevicesKept
  <2>2. d \in Known /\ d \in hasLUKS /\ d \notin mapped
    BY <2>1 DEF Known
  <2>3. ~MountStep
    BY <1>9 DEF Busy, MountStep
  <2>4. WorksOn(d) /\ op = "converge" /\ ~broken[d] =>
          WorksOn(d)' /\ op' = "converge" /\ ~broken'[d]
    BY <2>1 DEF WorksOn, Current, ctlVars
  <2> QED BY <1>1, <1>2, <1>3, <2>1, <2>2, <2>3, <2>4
<1> QED BY <1>4, <1>5, <1>6, <1>7, <1>8, <1>9

LEMMA LuksJobStep ==
  ASSUME Calm, FailureInv, [Next]_vars
  PROVE  LuksJob'
<1>1. CASE Busy
  <2> DEFINE c == Current
  <2>1. /\ c \in Known /\ c \in Drives /\ UNCHANGED hasLUKS /\ Current' = c /\ op' # "converge"
        /\ content[c] = "luks" => content'[c] = "luks"
        /\ content \in [Drives -> {"blank", "xfs", "luks"}]
    BY <1>1, BusyLuks, BusyKeeps, DisksStep, FailureTypes DEF DisksKept
  <2>2. /\ c \in hasLUKS <=> content[c] = "luks" \/ (content[c] = "blank" /\ Keys)
        /\ c \in luksFormatted <=> content[c] = "luks"
        /\ c \in mapped => content[c] = "luks"
        /\ c \in mappings => content[c] = "luks"
    BY <2>1 DEF FailureInv, LuksInv, Classified, Contained
  <2>3. LuksJob
    BY DEF FailureInv, LuksInv
  <2> DEFINE Goal ==
               /\ op' \in {"format", "unmount", "mount", "clear", "teardown", "umount", "setup"} =>
                    (c \in hasLUKS => c \in mapped')
               /\ op' \in {"luksFormat", "luksOpen", "descend", "setup", "close"} => c \in hasLUKS
               /\ op' \in {"luksOpen", "descend", "setup"} => content'[c] = "luks"
               /\ op' \in {"luksOpen", "descend", "luksFormat"} => c \notin mapped'
               /\ op' \in {"luksFormat", "luksOpen", "descend", "setup"} => Keys
               /\ op' = "luksFormat" => content'[c] = "blank"
  <2> SUFFICES Goal
    BY <2>1 DEF LuksJob
  <2>4. CASE ConvergeHealthy /\ c \in hasLUKS
    <3>1. BeginLUKSSetup(c) /\ UNCHANGED content
      BY <2>4 DEF ConvergeHealthy, Setup, BeginLUKSSetup, hostVars, disks
    <3>2. c \in mapped' => content[c] = "luks"
      BY <1>1, <2>2, BusyLuks
    <3>3. op' \in {"fail", "luksFormat", "luksOpen", "setup"} /\ (op' # "fail" => Keys)
          /\ (op' = "luksFormat" => c \notin luksFormatted)
          /\ (op' = "luksOpen" => c \in luksFormatted /\ c \notin mapped')
          /\ (op' = "setup" => c \in luksFormatted /\ c \in mapped')
      BY <3>1 DEF BeginLUKSSetup
    <3> QED BY <2>1, <2>2, <2>4, <3>1, <3>2, <3>3
  <2>5. CASE ConvergeHealthy /\ c \notin hasLUKS
    <3>1. op' \in {"unmount", "format", "fail"}
      BY <2>5 DEF ConvergeHealthy, Setup, BeginSetup
    <3> QED BY <2>5, <3>1
  <2>6. CASE ConvergeBroken \/ GiveUp(c)
    <3>1. Teardown(c) /\ UNCHANGED mapped
      BY <2>6 DEF ConvergeBroken, GiveUp, luksVars
    <3>2. IF c \in hasLUKS /\ c \notin mapped THEN op' \in {"close", "done"} ELSE op' = "teardown"
      BY <3>1 DEF Teardown, AfterFilesystem, BeginTeardown
    <3> QED BY <3>1, <3>2
  <2>7. CASE FilesystemTornDown(c)
    <3>1. c \in hasLUKS => c \in mapped
      BY <2>3, <2>7 DEF FilesystemTornDown, LuksJob
    <3>2. CASE c \in hasLUKS
      <4>1. op' \in {"close", "done"} \/ (op' = "teardown" /\ UNCHANGED mapped)
        BY <2>7, <3>2 DEF FilesystemTornDown, TornDown, AfterFilesystem, Scopes
      <4> QED BY <3>1, <3>2, <4>1
    <3>3. CASE c \notin hasLUKS
      <4>1. op' \in {"teardown", "done"}
        BY <2>7, <3>3 DEF FilesystemTornDown, TornDown
      <4> QED BY <3>3, <4>1
    <3> QED BY <3>2, <3>3
  <2>8. CASE LUKSFormat(c)
    <3>1. c \in hasLUKS /\ c \notin mapped /\ Keys /\ UNCHANGED mapped
      BY <2>3, <2>8 DEF LUKSFormat, LuksJob
    <3>2. \/ op' = "luksOpen" /\ content' = [content EXCEPT ![c] = "luks"]
          \/ op' = "fail"
      BY <2>8, <3>1 DEF LUKSFormat
    <3> QED BY <2>1, <3>1, <3>2
  <2>9. CASE LUKSOpen(c)
    <3>1. c \in hasLUKS /\ c \notin mapped /\ Keys /\ content[c] = "luks" /\ UNCHANGED mapped
          /\ op' \in {"descend", "fail"}
      BY <2>3, <2>9 DEF LUKSOpen, LuksJob
    <3> QED BY <2>1, <3>1
  <2>10. CASE Descend(c)
    <3>1. c \in hasLUKS /\ Keys /\ content[c] = "luks" /\ (op' = "fail" \/ (op' = "setup" /\ c \in mapped'))
      BY <2>3, <2>10 DEF Descend, LuksJob, Put
    <3> QED BY <2>1, <3>1
  <2>11. CASE SetupInside(c)
    <3>1. c \in mapped /\ UNCHANGED mapped /\ op' \in {"unmount", "format", "fail"}
      BY <2>3, <2>11 DEF SetupInside, BeginSetup, LuksJob, luksVars
    <3> QED BY <3>1
  <2>12. CASE LUKSClose(c)
    BY <2>12 DEF LUKSClose
  <2>13. CASE /\ \/ Format(c) \/ UnmountOther(c) \/ OthersUnmounted(c) \/ Mount(c)
                 \/ ClearPropagation \/ Announce(c) \/ Umount(c)
              /\ UNCHANGED luksVars
    <3>1. op \in {"format", "unmount", "mount", "clear", "teardown", "umount"}
          /\ op' \in {"unmount", "mount", "clear", "fail", "done", "umount", "teardown"} /\ UNCHANGED mapped
      BY <2>13 DEF Format, UnmountOther, OthersUnmounted, Mount, ClearPropagation, Announce, Umount, luksVars
    <3> QED BY <2>3, <3>1 DEF LuksJob
  <2> QED BY <1>1, <2>4, <2>5, <2>6, <2>7, <2>8, <2>9, <2>10, <2>11, <2>12, <2>13 DEF Busy
<1>2. CASE HandleAdded \/ HandleReinstated
  <2>1. op' = "converge"
    BY <1>2 DEF HandleAdded, HandleReinstated
  <2> QED BY <2>1 DEF LuksJob
<1>3. CASE End
  <2>1. op' = "idle"
    BY <1>3 DEF End, ProcessEnds, DriveReset
  <2> QED BY <2>1 DEF LuksJob
<1>4. CASE ~Busy /\ ~HandleAdded /\ ~HandleReinstated /\ ~End
  <2>1. /\ UNCHANGED <<content, hasLUKS, mapped>> /\ (op' # op => op' = "idle")
        /\ op \notin {"idle", "done"} => Current' = Current
    BY <1>4, DevicesKept DEF ctlVars, Current
  <2>2. LuksJob
    BY DEF FailureInv, LuksInv
  <2> QED BY <2>1, <2>2 DEF LuksJob
<1> QED BY <1>1, <1>2, <1>3, <1>4

(* With encryption, a drive that has got a flag is broken, whether or not   *)
(* its flag is to be deleted.                                               *)
LEMMA FlagSteps ==
  ASSUME Calm, FailureInv, [Next]_vars, Keys
  PROVE  \/ End /\ Known' = {} /\ held' = <<>> /\ queue' = <<>> /\ brokenDevices' = {} /\ batch' = NoEvent
         \/ /\ durable' \subseteq durable \/ CreateDurableFlag
            /\ (transient \subseteq transient' /\ durable \subseteq durable') \/ DeleteFlag
            /\ \A d \in Drives : d \in transient' =>
                 \/ broken'[d]
                 \/ d \in transient /\ broken'[d] = broken[d] /\ (d \in Known' => d \in Known)
<1>1. /\ broken \in [Drives -> BOOLEAN] /\ devices \subseteq Drives /\ Known \subseteq Drives
  BY FailureTypes
<1>2. CASE End
  BY <1>2 DEF End, ProcessEnds, CollectorsReset, Known, ToSet
<1>3. CASE GiveUp(Current) /\ Busy
  <2>1. /\ Current \in Drives /\ Known' = Known /\ broken' = [broken EXCEPT ![Current] = TRUE]
        /\ UNCHANGED durable /\ transient' \in {transient, transient \cup {Current}}
    BY <1>3, BusyFrame, FailureTypes DEF GiveUp, MarkAsBroken, Flagged
  <2> QED BY <1>1, <2>1
<1>4. CASE Busy /\ ~GiveUp(Current)
  <2>1. UNCHANGED <<broken, transient, durable>> /\ Known' = Known
    BY <1>4, BusyFrame DEF Busy, ConvergeHealthy, ConvergeBroken, Setup, BeginSetup, BeginLUKSSetup, Format,
       UnmountOther, OthersUnmounted, Mount, ClearPropagation, Announce, Umount, fields, flags,
       SetupInside, LUKSFormat, LUKSOpen, Descend, LUKSClose, FilesystemTornDown, TornDown, hostVars
  <2> QED BY <1>1, <2>1
<1>5. CASE HandleError
  <2> DEFINE e == Head(batch.devs)
  <2>1. /\ e \in Known /\ Known' = Known /\ broken' = [broken EXCEPT ![e] = TRUE]
        /\ UNCHANGED durable /\ transient' \in {transient, transient \cup {e}}
    BY <1>5 DEF HandleError, MarkAsBroken, Flagged, Known
  <2> HIDE DEF e
  <2> QED BY <1>1, <2>1
<1>6. CASE HandleAdded \/ HandleReinstated
  <2> DEFINE e == Head(batch.devs)
  <2>1. e \in devices /\ NewDevice(e) /\ UNCHANGED durable /\ Known' = Known \cup {e}
    BY <1>6, AddedList, ListStep DEF HandleAdded, HandleReinstated, FailureInv, OnlyAdditions, ctlVars, Known
  <2>2. broken' = [broken EXCEPT ![e] = e \in transient \cup durable]
    BY <2>1, NewDeviceEffect
  <2>3. \/ e \in transient \cup durable /\ transient' \in {transient, transient \cup {e}}
        \/ e \notin transient \cup durable /\ UNCHANGED transient
    BY <2>1 DEF NewDevice, NewDrive, Flagged
  <2> HIDE DEF e
  <2>4. e \in Drives
    BY <1>1, <2>1
  <2>5. CASE e \in transient \cup durable
    <3>1. broken' = [broken EXCEPT ![e] = TRUE] /\ transient' \in {transient, transient \cup {e}}
      BY <2>2, <2>3, <2>5
    <3> QED BY <1>1, <2>1, <2>4, <3>1
  <2>6. CASE e \notin transient \cup durable
    <3>1. UNCHANGED transient /\ \A d \in Drives : d # e => broken'[d] = broken[d]
      BY <1>1, <2>2, <2>3, <2>6
    <3> QED BY <2>1, <2>6, <3>1
  <2> QED BY <2>5, <2>6
<1>7. CASE /\ Receive \/ HandleUnknown \/ EventHandled \/ Loop \/ CalmUpset \/ Outside \/ NoStep
           /\ ~Busy /\ ~End
  <2>1. UNCHANGED drives
    BY <1>7 DEF Receive, HandleUnknown, EventHandled, FailureInv, OnlyAdditions, Harmless, HarmlessIn, Loop,
       BeginConverge, NextDrive, EndPass1, Scan, EndScan, Assign, BeginPass2, EndConverge, CalmUpset,
       Outside, CollectorStep, Restart, LogError, NoStep, vars, ctlVars
  <2>2. UNCHANGED broken
    BY <1>7 DEF Receive, HandleUnknown, EventHandled, Loop, BeginConverge, NextDrive, EndPass1, Scan, ScanDrive,
       EndScan, Assign, AssignDrive, BeginPass2, EndConverge, CalmUpset, Outside, CollectorStep, Restart,
       LogError, NoStep, vars, deviceVars, driveVars, fields
  <2>3. /\ durable' \subseteq durable \/ CreateDurableFlag
        /\ (transient \subseteq transient' /\ durable \subseteq durable') \/ DeleteFlag
        /\ transient' \subseteq transient
    BY <1>7 DEF Receive, HandleUnknown, EventHandled, Loop, BeginConverge, NextDrive, EndPass1, Scan, ScanDrive,
       EndScan, Assign, AssignDrive, BeginPass2, EndConverge, CalmUpset, EditSwiftID, ExternalUmount,
       ExternalClose, RemountReadonly, Plug, DeleteFlag, CreateDurableFlag, Outside, CollectorStep, Restart,
       LogError, NoStep, vars, hostVars, flags
  <2> QED BY <2>1, <2>2, <2>3 DEF Known
<1> QED BY <1>2, <1>3, <1>4, <1>5, <1>6, <1>7, CalmSteps DEF Handler

(* The drive collector sends additions.                                     *)
LEMMA AddsDrives ==
  ASSUME Calm, FailureInv, CollectDrives
  PROVE  /\ UNCHANGED <<queue, held, brokenDevices>>
         /\ \E a \in Seq(Batch) : outbox' = outbox \o a /\ \A i \in DOMAIN a : a[i].kind = "added"
<1> DEFINE new == {d \in devices \ knownDrives : Eligible(d)}
<1>1. knownDrives \ devices = {}
  BY DEF FailureInv, OnlyAdditions
<1>2. PICK r \in BatchOf("removed", {}, Sorted({})), a \in BatchOf("added", new, Sorted(new)) :
        outbox' = outbox \o r \o a
  BY <1>1 DEF CollectDrives
<1>3. r = <<>>
  BY <1>2 DEF BatchOf
<1>4. outbox \in Seq(Batch) /\ outbox \o <<>> = outbox
  BY BatchTypes, ConcatEmptySeq
<1>5. new \in SUBSET Drives
  BY FailureTypes
<1>6. a = <<>> \/ \E s \in Sorted(new) : a = <<Event("added", s)>>
  BY <1>2 DEF BatchOf
<1>7. ASSUME NEW s \in Sorted(new)
      PROVE  <<Event("added", s)>> \in Seq(Batch) /\ Event("added", s).kind = "added"
  <2>1. s \in Seq(Drives)
    BY <1>5, SortedListsAll
  <2> QED BY <2>1, BatchTypes DEF Kinds
<1>8. a \in Seq(Batch) /\ \A i \in DOMAIN a : a[i].kind = "added"
  <2>1. a = <<>> => a \in Seq(Batch) /\ \A i \in DOMAIN a : a[i].kind = "added"
    BY EmptySeq
  <2> QED BY <1>6, <1>7, <2>1
<1> QED BY <1>2, <1>3, <1>4, <1>8 DEF CollectDrives

LEMMA RetakenStep ==
  ASSUME Calm, FailureInv, [Next]_vars
  PROVE  Retaken'
<1> SUFFICES ASSUME Keys PROVE Retaken'
  BY DEF Retaken
<1>1. /\ "reinstate" \in Upsets => durable = {} /\ \A d \in Known : d \in transient => broken[d]
      /\ "reinstate" \notin Upsets =>
           /\ held = <<>> /\ brokenDevices \subseteq transient \cup durable
           /\ batch.kind # "reinstated" /\ NoneReinstated(queue) /\ NoneReinstated(outbox)
      /\ phase = "handle" /\ batch.kind = "reinstated" =>
           \A d \in Known : broken[d] /\ ~WorksOn(d) => ~MountedSomewhere(d)
  BY DEF FailureInv, LuksInv, Retaken
<1>2. CASE End
  <2>1. /\ Known' = {} /\ held' = <<>> /\ queue' = <<>> /\ outbox' = <<>>
        /\ brokenDevices' = {} /\ batch' = NoEvent /\ durable' = durable
    BY <1>2 DEF End, ProcessEnds, CollectorsReset, Known, ToSet, HostReboot, hostVars, flags
  <2>2. batch'.kind # "reinstated" /\ NoneReinstated(queue') /\ NoneReinstated(outbox')
    BY <2>1 DEF NoEvent, Event, NoneReinstated
  <2> QED BY <1>1, <2>1, <2>2 DEF Retaken
<1>3. CASE ~End
  <2>1. /\ durable' \subseteq durable \/ CreateDurableFlag
        /\ (transient \subseteq transient' /\ durable \subseteq durable') \/ DeleteFlag
        /\ \A d \in Drives : d \in transient' =>
             \/ broken'[d]
             \/ d \in transient /\ broken'[d] = broken[d] /\ (d \in Known' => d \in Known)
    BY <1>3, FlagSteps
  <2>2. Known \subseteq Known' /\ Known' \subseteq Drives
    <3>1. drives' \in Seq(Drives)
      BY ListStep DEF FailureInv, ListInv, NewsInv, TypeInv, TypeOK
    <3>2. Known' \subseteq Drives
      BY <3>1, Elements DEF Known, ToSet
    <3> QED BY <1>3, <3>2, KnownKept
  <2>3. ASSUME "reinstate" \in Upsets
        PROVE  durable' = {} /\ \A d \in Known' : d \in transient' => broken'[d]
    <3>1. ~CreateDurableFlag
      BY <2>3 DEF CreateDurableFlag, Upset, Calm
    <3> QED BY <1>1, <2>1, <2>2, <2>3, <3>1
  <2>4. ASSUME "reinstate" \notin Upsets
        PROVE  /\ held' = <<>> /\ brokenDevices' \subseteq transient' \cup durable'
               /\ batch'.kind # "reinstated" /\ NoneReinstated(queue') /\ NoneReinstated(outbox')
    <3>1. /\ held = <<>> /\ brokenDevices \subseteq transient \cup durable
          /\ batch.kind # "reinstated" /\ NoneReinstated(queue) /\ NoneReinstated(outbox)
          /\ queue \in Seq(Batch) /\ outbox \in Seq(Batch)
      BY <1>1, <2>4, BatchTypes
    <3>2. transient \cup durable \subseteq transient' \cup durable'
      BY <2>1, <2>4 DEF DeleteFlag, Upset
    <3>3. CASE CollectorStep
      <4>1. UNCHANGED <<batch, transient, durable>>
        BY <3>3 DEF CollectorStep, ctlVars, hostVars, flags
      <4>2. CASE CollectReinstatements
        <5>1. brokenDevices \ (transient \cup durable) = {}
          BY <3>1
        <5>2. held' \in {<<>>} /\ brokenDevices' = transient \cup durable /\ UNCHANGED <<queue, outbox>>
          BY <4>2, <5>1 DEF CollectReinstatements, BatchOf
        <5> QED BY <3>1, <4>1, <5>2
      <4>3. CASE CollectDrives
        <5>1. PICK a \in Seq(Batch) : outbox' = outbox \o a /\ \A i \in DOMAIN a : a[i].kind = "added"
          BY <4>3, AddsDrives
        <5>2. NoneReinstated(outbox')
          BY <3>1, <5>1, Elements DEF NoneReinstated
        <5>3. UNCHANGED <<queue, held, brokenDevices>>
          BY <4>3, AddsDrives
        <5> QED BY <3>1, <3>2, <4>1, <5>2, <5>3
      <4>4. CASE ~CollectReinstatements /\ ~CollectDrives
        <5>1. ~SendReinstatements
          BY <3>1 DEF SendReinstatements
        <5>2. /\ UNCHANGED <<held, brokenDevices>>
              /\ \/ UNCHANGED <<queue, outbox>>
                 \/ outbox # <<>> /\ queue' = Append(queue, Head(outbox)) /\ outbox' = Tail(outbox)
                 \/ queue' = Append(queue, NoEvent) /\ UNCHANGED outbox
          BY <3>3, <4>4, <5>1 DEF CollectorStep, Collect, SendDriveEvents, ScheduleWakeup, NoEvent
        <5>3. outbox # <<>> => /\ Head(outbox) \in Batch /\ Head(outbox).kind # "reinstated"
                               /\ NoneReinstated(Tail(outbox))
          BY <3>1, Elements DEF NoneReinstated
        <5>4. NoEvent \in Batch /\ NoEvent.kind # "reinstated"
          BY EmptySeq DEF NoEvent, Event, Batch, Kinds
        <5>5. ASSUME NEW b \in Batch, b.kind # "reinstated" PROVE NoneReinstated(Append(queue, b))
          BY <3>1, <5>5, Elements DEF NoneReinstated
        <5> QED BY <3>1, <3>2, <4>1, <5>2, <5>3, <5>4, <5>5
      <4> QED BY <4>2, <4>3, <4>4
    <3>4. CASE Receive
      <4>1. UNCHANGED <<held, brokenDevices, transient, durable, outbox>> /\ queue # <<>>
            /\ batch' = Head(queue) /\ queue' = Tail(queue)
        BY <3>4 DEF Receive, hostVars, flags
      <4>2. batch'.kind # "reinstated" /\ NoneReinstated(queue')
        BY <3>1, <4>1, Elements DEF NoneReinstated
      <4> QED BY <3>1, <4>1, <4>2
    <3>5. CASE LogError
      <4>1. UNCHANGED <<held, brokenDevices, transient, durable, batch, outbox>>
            /\ \E d \in Drives : queue' = Append(queue, Event("error", <<d>>))
        BY <3>5 DEF LogError, SendDriveError, flags, ctlVars
      <4>2. \A d \in Drives : Event("error", <<d>>) \in Batch /\ Event("error", <<d>>).kind # "reinstated"
        <5>1. \A d \in Drives : <<d>> \in Seq(Drives)
          OBVIOUS
        <5> QED BY <5>1 DEF Event, Batch, Kinds
      <4>3. NoneReinstated(queue')
        BY <3>1, <4>1, <4>2, Elements DEF NoneReinstated
      <4> QED BY <3>1, <4>1, <4>3
    <3>6. CASE Busy \/ (Handler /\ ~Receive) \/ Loop \/ CalmUpset \/ Restart \/ NoStep
      <4>1. UNCHANGED <<held, brokenDevices, queue, outbox>>
        BY <3>6 DEF Handler, HandleAdded, HandleReinstated, HandleError, HandleUnknown,
           EventHandled, Loop, BeginConverge, NextDrive, EndPass1, Scan, EndScan, Assign, BeginPass2, EndConverge,
           CalmUpset, Restart, NoStep, vars, collectorVars, Busy, ConvergeHealthy, ConvergeBroken
      <4>2. batch'.kind = batch.kind \/ batch' = NoEvent
        <5>1. CASE Busy
          BY <5>1, BusyFrame
        <5>2. CASE (Handler /\ ~Receive) \/ Loop \/ CalmUpset \/ Restart \/ NoStep
          BY <5>2, BatchTypes DEF Handler, HandleAdded, HandleReinstated, HandleError, HandleUnknown, EventDone,
             EventHandled, Loop, BeginConverge, NextDrive, EndPass1, Scan, EndScan, Assign, BeginPass2,
             EndConverge, CalmUpset, Restart, NoStep, vars, ctlVars, Batch
        <5> QED BY <3>6, <5>1, <5>2
      <4> QED BY <3>1, <3>2, <4>1, <4>2 DEF NoEvent, Event
    <3> QED BY <1>3, <3>3, <3>4, <3>5, <3>6, CalmSteps DEF Outside, Handler
  <2>5. ASSUME phase' = "handle", batch'.kind = "reinstated", NEW d \in Known', broken'[d], ~WorksOn(d)'
        PROVE  ~MountedSomewhere(d)'
    <3>1. d \in Drives /\ broken \in [Drives -> BOOLEAN]
      BY <2>2, FailureTypes
    <3>2. ~MountStep => (MountedSomewhere(d)' => MountedSomewhere(d))
      BY <3>1, PathsShrink DEF MountedSomewhere
    <3>3. CASE Receive
      <4>1. phase = "wait" /\ UNCHANGED <<drives, broken, mounts>>
        BY <3>3 DEF Receive, fields, hostVars
      <4>2. Away(d)
        BY <2>5, <4>1 DEF Known, FailureInv, DriveStates, Placed
      <4> QED BY <4>1, <4>2 DEF Away, MountedSomewhere, PathsOf
    <3>4. CASE Busy
      <4>1. d # Current /\ d \in Known /\ phase = "handle" /\ batch.kind = "reinstated" /\ Current' = Current
        BY <2>5, <3>4, BusyFrame DEF WorksOn
      <4>2. broken'[d] = broken[d] /\ \A s \in Scopes : PathsOf(d, s)' = PathsOf(d, s)
        BY <3>1, <3>4, <4>1, BusyKeeps
      <4> QED BY <1>1, <2>5, <4>1, <4>2 DEF MountedSomewhere, WorksOn
    <3>5. ~HandleAdded /\ ~HandleError
      BY <2>5, BatchTypes DEF HandleAdded, HandleError, Handling, EventDone, Batch
    <3>6. CASE HandleReinstated
      <4>1. /\ Head(batch.devs) \in devices /\ NewDevice(Head(batch.devs)) /\ op' = "converge" /\ op = "idle"
            /\ UNCHANGED <<phase, drives, batch>>
        BY <3>6 DEF HandleReinstated, Handling, FailureInv, OnlyAdditions, ctlVars
      <4>2. d # Head(batch.devs) /\ d \in Known
        BY <2>5, <4>1 DEF WorksOn, Current, Known
      <4>3. broken' = [broken EXCEPT ![Head(batch.devs)] = Head(batch.devs) \in transient \cup durable]
        BY <4>1, NewDeviceEffect
      <4>4. broken[d]
        BY <2>5, <3>1, <4>2, <4>3
      <4>5. ~MountStep
        BY <4>1 DEF MountStep, Mount
      <4> QED BY <1>1, <2>5, <3>2, <4>1, <4>2, <4>4, <4>5 DEF WorksOn
    <3>7. CASE ~Busy /\ ~HandleAdded /\ ~HandleReinstated /\ ~Receive /\ ~HandleError
      <4>1. /\ UNCHANGED drives /\ (op' # op => op' = "idle" /\ op = "done")
            /\ op \notin {"idle", "done"} => UNCHANGED <<broken, ctlVars>>
        BY <1>3, <3>7, DevicesKept
      <4>2. /\ UNCHANGED broken /\ phase = "handle" /\ batch.kind = "reinstated"
            /\ (op # "idle" /\ op' # "idle" => Current' = Current)
        BY <1>3, <2>5, <3>7, CalmSteps, BatchTypes
           DEF Handler, HandleUnknown, EventHandled, EventDone, Handling, Loop, BeginConverge, NextDrive,
               EndPass1, Scan, EndScan, Assign, BeginPass2, EndConverge, CalmUpset, Outside, CollectorStep,
               Restart, LogError, NoStep, vars, ctlVars, deviceVars, driveVars, fields, InPass, Current, Batch
      <4>3. ~MountStep
        BY <3>7 DEF Busy, MountStep
      <4>4. d \in Known
        BY <4>1 DEF Known
      <4>5. CASE WorksOn(d)
        <5>1. op = "done" /\ op' = "idle"
          BY <2>5, <4>1, <4>2, <4>5 DEF WorksOn
        <5>2. Away(d)
          BY <2>5, <4>2, <4>5, <5>1 DEF WorksOn, FailureInv, DriveStates, JobInv, Job, InPlace
        <5> QED BY <3>2, <4>3, <5>2 DEF Away, MountedSomewhere
      <4>6. CASE ~WorksOn(d)
        BY <1>1, <2>5, <3>2, <4>2, <4>3, <4>4, <4>6
      <4> QED BY <4>5, <4>6
    <3> QED BY <3>3, <3>4, <3>5, <3>6, <3>7
  <2> QED BY <2>3, <2>4, <2>5 DEF Retaken
<1> QED BY <1>2, <1>3

LEMMA LuksInvStep ==
  ASSUME Calm, FailureInv, [Next]_vars
  PROVE  LuksInv'
BY ContainedStep, ClassifiedStep, OpenedStep, LuksJobStep, RetakenStep DEF LuksInv

-----------------------------------------------------------------------------
(* The first batch of additions tells a new process of all disks there.     *)

LEMMA ReportShrinks ==
  ASSUME NEW c, NEW S, NEW T, Report(c, S), T \subseteq S
  PROVE  Report(c, T)
BY DEF Report

LEMMA ReportTail ==
  ASSUME NEW c \in Seq(Batch), c # <<>>, NEW S, Report(c, S)
  PROVE  IF c[1].kind = "added" THEN S \subseteq ToSet(c[1].devs)
         ELSE Report(Tail(c), S) /\ (Added(c) => Added(Tail(c)))
<1>1. /\ Len(c) \in Nat \ {0} /\ Tail(c) \in Seq(Batch) /\ Len(Tail(c)) = Len(c) - 1
      /\ \A i \in 1 .. Len(c) - 1 : Tail(c)[i] = c[i + 1]
  BY HeadTailProperties, LenProperties, EmptySeq
<1>2. DOMAIN c = 1 .. Len(c) /\ DOMAIN Tail(c) = 1 .. Len(c) - 1
  BY <1>1, LenProperties
<1>3. CASE c[1].kind = "added"
  <2>1. 1 \in DOMAIN c /\ 1 .. 1 - 1 = {}
    BY <1>1, <1>2
  <2> QED BY <1>3, <2>1 DEF Report
<1>4. CASE c[1].kind # "added"
  <2> DEFINE t == Tail(c)
  <2>1. DOMAIN t = 1 .. Len(c) - 1 /\ \A i \in 1 .. Len(c) - 1 : t[i] = c[i + 1]
    BY <1>1, <1>2
  <2> HIDE DEF t
  <2>2. ASSUME NEW i \in DOMAIN t, t[i].kind = "added", \A j \in 1 .. i - 1 : t[j].kind # "added"
        PROVE  S \subseteq ToSet(t[i].devs)
    <3>1. i + 1 \in DOMAIN c /\ t[i] = c[i + 1] /\ i \in Nat
      BY <1>1, <1>2, <2>1
    <3>2. ASSUME NEW j \in 1 .. i + 1 - 1
          PROVE  c[j].kind # "added"
      <4>1. CASE j = 1
        BY <1>4, <4>1
      <4>2. CASE j # 1
        <5>1. j - 1 \in 1 .. i - 1 /\ j - 1 \in 1 .. Len(c) - 1 /\ j - 1 + 1 = j
          BY <1>1, <2>1, <3>1, <4>2
        <5>2. t[j - 1] = c[j]
          BY <2>1, <5>1
        <5> QED BY <2>2, <5>1, <5>2
      <4> QED BY <4>1, <4>2
    <3> QED BY <2>2, <3>1, <3>2 DEF Report
  <2>3. ASSUME NEW i \in DOMAIN c, c[i].kind = "added"
        PROVE  \E j \in DOMAIN t : t[j].kind = "added"
    <3>1. i # 1
      BY <1>4, <2>3
    <3>2. i - 1 \in 1 .. Len(c) - 1 /\ i - 1 + 1 = i
      BY <1>1, <1>2, <3>1
    <3> QED BY <2>1, <2>3, <3>2
  <2> QED BY <1>4, <2>2, <2>3 DEF Report, Added, t
<1> QED BY <1>3, <1>4

LEMMA ReportInsert ==
  ASSUME NEW q \in Seq(Batch), NEW o \in Seq(Batch), NEW b \in Batch, b.kind # "added",
         NEW S, Report(q \o o, S)
  PROVE  Report(Append(q, b) \o o, S) /\ (Added(q \o o) => Added(Append(q, b) \o o))
<1> DEFINE c == q \o o
           e == Append(q, b) \o o
           m == Len(q)
           n == Len(o)
<1>1. m \in Nat /\ n \in Nat
  BY LenProperties
<1>2. /\ c \in Seq(Batch) /\ Len(c) = m + n
      /\ \A i \in 1 .. m + n : c[i] = IF i <= m THEN q[i] ELSE o[i - m]
  BY ConcatProperties
<1>3. /\ Append(q, b) \in Seq(Batch) /\ Len(Append(q, b)) = m + 1 /\ Append(q, b)[m + 1] = b
      /\ \A i \in 1 .. m : Append(q, b)[i] = q[i]
  BY AppendProperties
<1>4. /\ e \in Seq(Batch) /\ Len(e) = m + 1 + n
      /\ \A i \in 1 .. m + 1 + n : e[i] = IF i <= m + 1 THEN Append(q, b)[i] ELSE o[i - (m + 1)]
  BY <1>3, ConcatProperties
<1>5. DOMAIN c = 1 .. m + n /\ DOMAIN e = 1 .. m + 1 + n
  BY <1>2, <1>4, LenProperties
<1> HIDE DEF c, e, m, n
<1>6. \A i \in 1 .. m + n : IF i <= m THEN e[i] = c[i] ELSE e[i + 1] = c[i]
  <2>1. ASSUME NEW i \in 1 .. m + n, i <= m PROVE e[i] = c[i]
    <3>1. i \in 1 .. m /\ i \in 1 .. m + 1 + n /\ i <= m + 1
      BY <1>1, <2>1
    <3> QED BY <1>2, <1>3, <1>4, <2>1, <3>1
  <2>2. ASSUME NEW i \in 1 .. m + n, ~ (i <= m) PROVE e[i + 1] = c[i]
    <3>1. i + 1 \in 1 .. m + 1 + n /\ ~ (i + 1 <= m + 1) /\ i + 1 - (m + 1) = i - m
      BY <1>1, <2>2
    <3>2. c[i] = o[i - m]
      BY <1>2, <2>2
    <3>3. PICK k \in 1 .. m + 1 + n : k = i + 1
      BY <3>1
    <3>4. e[k] = o[k - (m + 1)]
      BY <1>4, <3>1, <3>3
    <3>5. k - (m + 1) = i - m
      BY <1>1, <3>3
    <3> QED BY <3>2, <3>3, <3>4, <3>5
  <2> QED BY <2>1, <2>2
<1>7. e[m + 1] = b
  <2>1. m + 1 \in 1 .. m + 1 + n /\ m + 1 <= m + 1
    BY <1>1
  <2> QED BY <1>3, <1>4, <2>1
<1>8. ASSUME NEW i \in DOMAIN e, e[i].kind = "added", \A j \in 1 .. i - 1 : e[j].kind # "added"
      PROVE  S \subseteq ToSet(e[i].devs)
  <2> DEFINE k == IF i <= m THEN i ELSE i - 1
  <2>1. i # m + 1
    BY <1>7, <1>8
  <2>2. k \in 1 .. m + n /\ e[i] = c[k]
    <3>1. CASE i <= m
      BY <1>1, <1>5, <1>6, <3>1
    <3>2. CASE ~ (i <= m)
      <4>1. i - 1 \in 1 .. m + n /\ ~ (i - 1 <= m) /\ i - 1 + 1 = i
        BY <1>1, <1>5, <2>1, <3>2
      <4> QED BY <1>6, <3>2, <4>1
    <3> QED BY <3>1, <3>2
  <2>3. ASSUME NEW j \in 1 .. k - 1 PROVE c[j].kind # "added"
    <3>1. j \in 1 .. m + n /\ IF j <= m THEN j \in 1 .. i - 1 ELSE j + 1 \in 1 .. i - 1
      BY <1>1, <1>5, <2>1, <2>2
    <3> QED BY <1>6, <1>8, <3>1
  <2> HIDE DEF k
  <2>4. Report(c, S)
    BY DEF c
  <2> QED BY <1>5, <1>8, <2>2, <2>3, <2>4 DEF Report
<1>9. ASSUME NEW i \in DOMAIN c, c[i].kind = "added"
      PROVE  \E j \in DOMAIN e : e[j].kind = "added"
  <2>1. i \in 1 .. m + 1 + n /\ i + 1 \in 1 .. m + 1 + n
    BY <1>1, <1>5
  <2> QED BY <1>5, <1>6, <1>9, <2>1
<1> QED BY <1>8, <1>9 DEF Report, Added, c, e

LEMMA ReportAppend ==
  ASSUME NEW c \in Seq(Batch), NEW b \in Batch, NEW S, Report(c, S),
         b.kind = "added", Added(c) \/ S \subseteq ToSet(b.devs)
  PROVE  Report(Append(c, b), S) /\ Added(Append(c, b))
<1> DEFINE a == Append(c, b)
           n == Len(c)
<1>1. n \in Nat /\ DOMAIN c = 1 .. n
  BY LenProperties
<1>2. /\ a \in Seq(Batch) /\ Len(a) = n + 1 /\ a[n + 1] = b
      /\ \A i \in 1 .. n : a[i] = c[i]
  BY AppendProperties
<1>3. DOMAIN a = 1 .. n + 1
  BY <1>2, LenProperties
<1> HIDE DEF a, n
<1>4. ASSUME NEW i \in DOMAIN a, a[i].kind = "added", \A j \in 1 .. i - 1 : a[j].kind # "added"
      PROVE  S \subseteq ToSet(a[i].devs)
  <2>1. CASE i = n + 1
    <3>1. \A j \in 1 .. n : j \in 1 .. i - 1
      BY <1>1, <2>1
    <3>2. ~Added(c)
      BY <1>1, <1>2, <1>4, <3>1 DEF Added
    <3> QED BY <1>2, <2>1, <3>2
  <2>2. CASE i # n + 1
    <3>1. i \in 1 .. n /\ \A j \in 1 .. i - 1 : j \in 1 .. n
      BY <1>1, <1>3, <2>2
    <3> QED BY <1>1, <1>2, <1>4, <3>1 DEF Report
  <2> QED BY <2>1, <2>2
<1>5. n + 1 \in 1 .. n + 1
  BY <1>1
<1> QED BY <1>2, <1>3, <1>4, <1>5 DEF Report, Added, a

(* Only drives of the list are mounted anew or get a swift-id.              *)
LEMMA ThereStep ==
  ASSUME Calm, FailureInv, [Next]_vars
  PROVE  There \subseteq devices /\ There' \subseteq There \cup Known
<1>1. There \subseteq devices
  BY DEF There, FailureInv, MountInv, RightPaths, Reachable, Accessible, MarkedPlugged
<1>2. CASE "plug" \notin Upsets
  <2>1. devices' = devices
    <3>1. CASE Busy
      BY <3>1, BusyFrame
    <3>2. CASE Handler \/ Loop
      BY <3>2 DEF Handler, Receive, HandleAdded, HandleReinstated, HandleError, HandleUnknown,
         EventHandled, Loop, BeginConverge, NextDrive, EndPass1, Scan, ScanDrive, EndScan, Assign,
         AssignDrive, BeginPass2, EndConverge, hostVars, disks
    <3>3. CASE CalmUpset
      BY <1>2, <3>3 DEF CalmUpset, EditSwiftID, ExternalUmount, RemountReadonly, Plug, Upset, DeleteFlag,
         CreateDurableFlag, ExternalClose, disks
    <3>4. CASE End \/ Outside \/ NoStep
      BY <3>4 DEF End, HostReboot, Outside, CollectorStep, Restart, LogError, NoStep, hostVars, disks, vars
    <3> QED BY <3>1, <3>2, <3>3, <3>4, CalmSteps
  <2> QED BY <1>1, <1>2, <2>1 DEF There
<1>3. CASE "plug" \in Upsets
  <2> DEFINE M == {d \in Drives : \E s \in Scopes : PathsOf(d, s) # {}}
  <2>1. There = M \cup Marked /\ There' = M' \cup Marked' /\ Marked' \subseteq Marked \cup Known
    BY <1>3, BlankStep DEF There
  <2>2. CASE MountStep
    <3>1. Current \in Known /\ (Mounts(Current) \/ UNCHANGED mounts)
      BY <2>2, MountStepEffect
    <3>2. \A d \in Drives \ {Current} : \A s \in Scopes : PathsOf(d, s)' = PathsOf(d, s)
      BY <3>1 DEF Mounts, PathsOf
    <3> QED BY <1>1, <2>1, <3>1, <3>2
  <2>3. CASE ~MountStep
    <3>1. \A d \in Drives : \A s \in Scopes : PathsOf(d, s)' \subseteq PathsOf(d, s)
      BY <2>3, PathsShrink
    <3> QED BY <1>1, <2>1, <3>1
  <2> QED BY <2>2, <2>3
<1> QED BY <1>2, <1>3

LEMMA AllReportedStep ==
  ASSUME Calm, FailureInv, [Next]_vars
  PROVE  AllReported'
<1>1. There \subseteq devices /\ There' \subseteq There \cup Known
  BY ThereStep
<1>2. /\ queue \in Seq(Batch) /\ outbox \in Seq(Batch) /\ batch.devs \in Seq(Drives)
      /\ Coming \in Seq(Batch)
  BY BatchTypes, ConcatProperties DEF Coming
<1> DEFINE T == There
           A == There \subseteq Known \cup AddedNow
           B == /\ Known = {} /\ AddedNow = {} /\ Report(Coming, There)
                /\ knownDrives # {} => Added(Coming)
<1>3. A \/ B
  BY DEF FailureInv, AllReported
<1>4. op # "idle" => A
  BY <1>3, BusyPhase
<1>5. B => There' \subseteq There
  BY <1>1
<1>6. AllReported' <=>
        \/ There' \subseteq Known' \cup AddedNow'
        \/ /\ Known' = {} /\ AddedNow' = {} /\ Report(Coming', There')
           /\ knownDrives' # {} => Added(Coming')
  BY DEF AllReported, Report, Added
<1>7. ASSUME Known \subseteq Known', AddedNow \subseteq Known' \cup AddedNow'
      PROVE  A => AllReported'
  BY <1>1, <1>6, <1>7
<1>8. ASSUME op = "idle", Known' = Known, AddedNow' = AddedNow, Report(Coming, There) => Report(Coming', There),
             knownDrives' # {} /\ (knownDrives # {} => Added(Coming)) => Added(Coming')
      PROVE  AllReported'
  <2>1. A => AllReported'
    BY <1>7, <1>8
  <2>2. B => AllReported'
    BY <1>5, <1>6, <1>8, ReportShrinks
  <2> QED BY <1>3, <2>1, <2>2
<1> HIDE DEF A, B
<1>9. CASE Busy
  <2>1. A /\ Known' = Known /\ AddedNow' = AddedNow
    <3>1. A
      BY <1>3, <1>9, BusyFrame DEF B
    <3>2. UNCHANGED batch /\ Known' = Known
      BY <1>9, BusyFrame
    <3> QED BY <3>1, <3>2 DEF AddedNow
  <2> QED BY <1>7, <2>1
<1>10. ASSUME op = "idle", UNCHANGED <<queue, outbox, knownDrives>>, Known' = Known, AddedNow' = AddedNow
       PROVE  AllReported'
  BY <1>8, <1>10 DEF Coming
<1>11. CASE Loop
  <2>1. UNCHANGED <<queue, outbox, knownDrives, drives>>
    BY <1>11 DEF Loop, BeginConverge, NextDrive, EndPass1, Scan, ScanDrive, EndScan, Assign, AssignDrive,
       BeginPass2, EndConverge, collectorVars
  <2>2. batch' = batch \/ (batch' = NoEvent /\ batch.devs = <<>>)
    BY <1>11 DEF Loop, BeginConverge, NextDrive, EndPass1, Scan, EndScan, Assign, BeginPass2, EndConverge
  <2>3. AddedNow' = AddedNow
    <3>1. CASE batch' = batch
      BY <3>1 DEF AddedNow
    <3>2. CASE batch' = NoEvent /\ batch.devs = <<>>
      <4>1. ToSet(<<>>) = {}
        BY DEF ToSet
      <4>2. batch'.kind = "wakeup"
        BY <3>2 DEF NoEvent, Event
      <4> QED BY <3>2, <4>1, <4>2 DEF AddedNow
    <3> QED BY <2>2, <3>1, <3>2
  <2>4. Known' = Known
    BY <2>1 DEF Known
  <2> QED BY <1>4, <1>7, <1>10, <2>1, <2>3, <2>4
<1>12. CASE CalmUpset \/ NoStep
  <2>1. UNCHANGED <<queue, outbox, knownDrives, drives, batch>>
    BY <1>12 DEF CalmUpset, NoStep, vars, ctlVars, collectorVars
  <2>2. Known' = Known /\ AddedNow' = AddedNow
    BY <2>1 DEF Known, AddedNow
  <2> QED BY <1>4, <1>7, <1>10, <2>1, <2>2
<1>13. CASE End
  <2>1. knownDrives' = {} /\ queue' = <<>> /\ outbox' = <<>> /\ drives' = <<>> /\ batch' = NoEvent
    BY <1>13 DEF End, ProcessEnds, CollectorsReset
  <2>2. Known' = {} /\ AddedNow' = {}
    BY <2>1 DEF Known, ToSet, AddedNow, NoEvent, Event
  <2>3. Coming' = <<>>
    BY <1>2, <2>1, ConcatEmptySeq, EmptySeq DEF Coming
  <2>4. Report(Coming', There')
    BY <2>3 DEF Report
  <2> QED BY <1>6, <2>1, <2>2, <2>4
<1>14. CASE Receive
  <2>1. /\ phase = "wait" /\ queue # <<>> /\ batch' = Head(queue) /\ queue' = Tail(queue)
        /\ UNCHANGED <<knownDrives, outbox, drives, op>>
    BY <1>14 DEF Receive, job
  <2>2. op = "idle" /\ AddedNow = {} /\ Known' = Known
    BY <2>1, BusyPhase, FailureTypes DEF HandInv, AddedNow, NoEvent, Event, Known
  <2>3. A => AllReported'
    BY <1>7, <2>2
  <2>4. CASE B
    <3>1. Coming # <<>> /\ Coming[1] = batch' /\ Coming' = Tail(Coming)
      <4>1. queue \o outbox # <<>> /\ (queue \o outbox)[1] = queue[1]
            /\ Tail(queue \o outbox) = Tail(queue) \o outbox /\ Head(queue) = queue[1]
        BY <1>2, <2>1, TailConcat, Elements
      <4> QED BY <2>1, <4>1 DEF Coming
    <3>2. Report(Coming, There) /\ Known = {} /\ (knownDrives # {} => Added(Coming))
      BY <2>4 DEF B
    <3>3. IF batch'.kind = "added" THEN There \subseteq ToSet(batch'.devs)
          ELSE Report(Coming', There) /\ (Added(Coming) => Added(Coming'))
      BY <1>2, <3>1, <3>2, ReportTail
    <3>4. There' \subseteq There
      BY <1>5, <2>4
    <3>5. CASE batch'.kind = "added"
      BY <1>6, <3>3, <3>4, <3>5 DEF AddedNow
    <3>6. CASE batch'.kind # "added"
      <4>1. AddedNow' = {} /\ Known' = {}
        BY <2>2, <3>2, <3>6 DEF AddedNow
      <4> QED BY <1>6, <2>1, <3>2, <3>3, <3>4, <3>6, <4>1, ReportShrinks
    <3> QED BY <3>5, <3>6
  <2> QED BY <1>3, <2>3, <2>4
<1>15. CASE HandleAdded
  <2>1. batch.kind = "added" /\ batch.devs # <<>> /\ UNCHANGED batch
    BY <1>15 DEF HandleAdded, Handling
  <2>2. AddedNow # {}
    BY <1>2, <2>1, Elements DEF AddedNow, ToSet
  <2>3. Known \subseteq Known' /\ AddedNow' = AddedNow
    BY <1>15, <2>1, AddedList, ListStep DEF AddedNow, FailureInv
  <2> QED BY <1>3, <1>7, <2>2, <2>3 DEF B
<1>16. CASE HandleReinstated \/ HandleError \/ HandleUnknown
  <2>1. /\ UNCHANGED <<drives, queue, outbox, knownDrives>> /\ op = "idle" /\ batch.kind # "added"
        /\ batch' = batch \/ batch' = [batch EXCEPT !.devs = Tail(@)]
    BY <1>16 DEF HandleReinstated, HandleError, HandleUnknown, Handling, ctlVars, collectorVars, EventDone
  <2>2. batch'.kind = batch.kind
    BY <2>1, BatchTypes DEF Batch
  <2>3. AddedNow = {} /\ AddedNow' = {} /\ Known' = Known
    BY <2>1, <2>2 DEF AddedNow, Known
  <2> QED BY <1>10, <2>1, <2>3
<1>17. CASE EventHandled
  <2>1. /\ phase = "handle" /\ op = "done" /\ batch' = [batch EXCEPT !.devs = Tail(@)]
        /\ batch.kind # "removed" => UNCHANGED drives
    BY <1>17 DEF EventHandled, EventDone
  <2>2. batch.kind # "removed"
    BY DEF FailureInv, OnlyAdditions, Harmless, HarmlessIn
  <2>3. batch.devs # <<>> /\ Head(batch.devs) \in Known
    BY <2>1, BusyPhase
  <2>4. batch'.kind = batch.kind /\ batch'.devs = Tail(batch.devs)
    BY <2>1, BatchTypes DEF Batch
  <2>5. ToSet(batch.devs) \subseteq {Head(batch.devs)} \cup ToSet(batch'.devs)
    <3>1. PICK s \in Seq(Drives) : s = batch.devs
      BY <1>2
    <3>2. /\ Len(s) \in Nat \ {0} /\ Tail(s) \in Seq(Drives) /\ Len(Tail(s)) = Len(s) - 1 /\ Head(s) = s[1]
          /\ \A i \in 1 .. Len(s) - 1 : Tail(s)[i] = s[i + 1]
      BY <2>3, <3>1, HeadTailProperties, LenProperties, EmptySeq
    <3>3. DOMAIN s = 1 .. Len(s) /\ DOMAIN Tail(s) = 1 .. Len(s) - 1
      BY <3>2, LenProperties
    <3>4. \A i \in 1 .. Len(s) : i # 1 => i - 1 \in 1 .. Len(s) - 1 /\ i - 1 + 1 = i
      BY <3>2
    <3>5. ASSUME NEW i \in 1 .. Len(s), i # 1
          PROVE  s[i] \in ToSet(Tail(s))
      <4>1. Tail(s)[i - 1] = s[i - 1 + 1] /\ i - 1 \in DOMAIN Tail(s) /\ i - 1 + 1 = i
        BY <3>2, <3>3, <3>4, <3>5
      <4> QED BY <4>1 DEF ToSet
    <3>6. ToSet(s) \subseteq {Head(s)} \cup ToSet(Tail(s))
      BY <3>2, <3>3, <3>5 DEF ToSet
    <3> QED BY <2>4, <3>1, <3>6
  <2>6. Known' = Known /\ AddedNow \subseteq Known' \cup AddedNow'
    BY <2>1, <2>2, <2>3, <2>4, <2>5 DEF Known, AddedNow
  <2> QED BY <1>4, <1>7, <2>1, <2>6
<1>18. CASE Outside
  <2>1. UNCHANGED <<drives, batch, op>>
    BY <1>18 DEF Outside, CollectorStep, Restart, LogError, ctlVars, deviceVars, driveVars, job
  <2>2. Known' = Known /\ AddedNow' = AddedNow
    BY <2>1 DEF Known, AddedNow
  <2>3. CASE op # "idle"
    BY <1>4, <1>7, <2>2, <2>3
  <2>4. CASE op = "idle"
    <3>1. CASE CollectDrives
      <4> DEFINE new == {d \in devices \ knownDrives : Eligible(d)}
      <4>1. knownDrives \ devices = {} /\ new = devices \ knownDrives
        BY DEF FailureInv, OnlyAdditions, LuksInv, Contained, Eligible
      <4>2. PICK r \in BatchOf("removed", {}, Sorted({})), a \in BatchOf("added", new, Sorted(new)) :
              outbox' = outbox \o r \o a
        BY <3>1, <4>1 DEF CollectDrives
      <4>3. r = <<>> /\ knownDrives' = devices /\ devices # {} /\ UNCHANGED queue
        BY <3>1, <4>2 DEF BatchOf, CollectDrives
      <4>4. new \in SUBSET Drives
        BY FailureTypes
      <4>5. outbox \o <<>> = outbox
        BY <1>2, ConcatEmptySeq
      <4>6. outbox' = outbox \o a
        BY <4>2, <4>3, <4>5
      <4>7. CASE new = {}
        <5>1. a = <<>> /\ knownDrives # {}
          BY <4>1, <4>2, <4>3, <4>7 DEF BatchOf
        <5>2. UNCHANGED outbox
          BY <4>5, <4>6, <5>1
        <5> QED BY <1>8, <2>2, <2>4, <4>3, <5>1, <5>2 DEF Coming
      <4>8. CASE new # {}
        <5>1. PICK s \in Sorted(new) : a = <<Event("added", s)>>
          BY <4>2, <4>8 DEF BatchOf
        <5>2. s \in Seq(Drives) /\ ToSet(s) = new
          BY <4>4, SortedListsAll
        <5> DEFINE b == Event("added", s)
        <5>3. b \in Batch /\ b.kind = "added" /\ b.devs = s
          BY <5>2, BatchTypes DEF Kinds
        <5> HIDE DEF b, new
        <5>4. a = <<b>> /\ <<b>> \in Seq(Batch)
          BY <5>1, <5>3 DEF b
        <5>5. Coming' = Append(Coming, b)
          <6>1. Coming' = queue \o (outbox \o <<b>>)
            BY <4>3, <4>6, <5>4 DEF Coming
          <6>2. queue \o (outbox \o <<b>>) = (queue \o outbox) \o <<b>>
            BY <1>2, <5>4, BatchesAssociative
          <6>3. Append(Coming, b) = Coming \o <<b>>
            BY <1>2, <5>3, AppendIsConcat
          <6> QED BY <6>1, <6>2, <6>3 DEF Coming
        <5>6. A => AllReported'
          BY <1>7, <2>2
        <5>7. CASE B
          <6>1. Report(Coming, There) /\ (knownDrives # {} => Added(Coming)) /\ Known = {} /\ AddedNow = {}
            BY <5>7 DEF B
          <6>2. Added(Coming) \/ There \subseteq ToSet(b.devs)
            BY <1>1, <4>1, <5>2, <5>3, <6>1
          <6>3. Report(Coming', There) /\ Added(Coming')
            BY <1>2, <5>3, <5>5, <6>1, <6>2, ReportAppend
          <6> QED BY <1>8, <2>2, <2>4, <6>3
        <5> QED BY <1>3, <5>6, <5>7
      <4> QED BY <4>7, <4>8
    <3>2. CASE SendDriveEvents
      <4>1. /\ outbox # <<>> /\ queue' = Append(queue, Head(outbox)) /\ outbox' = Tail(outbox)
            /\ UNCHANGED knownDrives
        BY <3>2 DEF SendDriveEvents
      <4>2. Head(outbox) \in Batch /\ Tail(outbox) \in Seq(Batch) /\ outbox = <<Head(outbox)>> \o Tail(outbox)
        BY <1>2, <4>1, HeadTailProperties, HeadAndTail
      <4>3. <<Head(outbox)>> \in Seq(Batch) /\ Append(queue, Head(outbox)) = queue \o <<Head(outbox)>>
        BY <1>2, <4>2, AppendIsConcat
      <4>4. PICK h, t : h = <<Head(outbox)>> /\ t = Tail(outbox)
        OBVIOUS
      <4>5. (queue \o h) \o t = queue \o (h \o t)
        BY <1>2, <4>2, <4>3, <4>4, BatchesAssociative
      <4>6. Coming' = Coming
        BY <4>1, <4>2, <4>3, <4>4, <4>5 DEF Coming
      <4> QED BY <1>8, <2>2, <2>4, <4>1, <4>6
    <3>3. CASE ~CollectDrives /\ ~SendDriveEvents
      <4>1. UNCHANGED <<knownDrives, outbox>>
            /\ \/ UNCHANGED queue
               \/ queue' = Append(queue, Head(held)) /\ held # <<>>
               \/ queue' = Append(queue, NoEvent)
               \/ \E d \in Drives : queue' = Append(queue, Event("error", <<d>>))
        BY <1>18, <3>3 DEF Outside, CollectorStep, Collect, CollectReinstatements, NoEvent,
           SendReinstatements, ScheduleWakeup, Restart, LogError, SendDriveError, collectorVars
      <4>2. /\ held # <<>> => Head(held) \in Batch /\ Head(held).kind # "added"
            /\ NoEvent \in Batch /\ NoEvent.kind # "added"
            /\ \A d \in Drives : Event("error", <<d>>) \in Batch /\ Event("error", <<d>>).kind # "added"
        <5>1. held # <<>> => Head(held) \in Batch /\ Head(held).kind # "added"
          BY BatchTypes
        <5>2. NoEvent \in Batch /\ NoEvent.kind # "added"
          BY EmptySeq DEF NoEvent, Event, Batch, Kinds
        <5>3. ASSUME NEW d \in Drives
              PROVE  Event("error", <<d>>) \in Batch /\ Event("error", <<d>>).kind # "added"
          <6>1. <<d>> \in Seq(Drives)
            OBVIOUS
          <6> QED BY <6>1 DEF Event, Batch, Kinds
        <5> QED BY <5>1, <5>2, <5>3
      <4>3. UNCHANGED queue \/ \E b \in Batch : b.kind # "added" /\ queue' = Append(queue, b)
        BY <4>1, <4>2
      <4>4. /\ Report(Coming, There) => Report(Coming', There)
            /\ Report(Coming, There) /\ Added(Coming) => Added(Coming')
        BY <1>2, <4>1, <4>3, ReportInsert DEF Coming
      <4>5. CASE B
        <5>1. Report(Coming, There) /\ Known = {} /\ AddedNow = {}  /\ (knownDrives # {} => Added(Coming))
          BY <4>5 DEF B
        <5> QED BY <1>8, <2>2, <2>4, <4>1, <4>4, <5>1
      <4>6. A => AllReported'
        BY <1>7, <2>2
      <4> QED BY <1>3, <4>5, <4>6
    <3> QED BY <3>1, <3>2, <3>3
  <2> QED BY <2>3, <2>4
<1> QED BY <1>9, <1>11, <1>12, <1>13, <1>14, <1>15, <1>16, <1>17, <1>18, CalmSteps DEF Handler

-----------------------------------------------------------------------------
(* The setup or teardown of the current drive, command by command.          *)

(* What Validate accepts: a drive that is mounted at most at one path, and  *)
(* at the one that it remembers if it remembers one.                        *)
LEMMA ValidateFinds ==
  ASSUME FailureInv, cache = mounts, NEW d \in Drives, Validate(d).ok
  PROVE  /\ \A s \in Scopes : PathsOf(d, s) \subseteq {Validate(d).found}
         /\ Validate(d).found # NoPath => Validate(d).found \in PathsOf(d, "local")
         /\ mountPath[d] # NoPath => Validate(d).found = mountPath[d]
<1> DEFINE k == mountPath[d]
           h == Discover(d, "host", k)
           l == Discover(d, "local", h)
<1>1. ValidIn(d, "host", k, h) /\ ValidIn(d, "local", h, l) /\ Validate(d).found = l
  BY DEF Validate
<1>2. ASSUME NEW s \in Scopes
      PROVE  /\ PathsOf(d, s) = {mounts[s][i].path : i \in MountsOf(d, s)}
             /\ NoPath \notin PathsOf(d, s)
  BY FailureTypes, PathFacts DEF PathsOf, PathsIn, MountsOf
<1>3. ASSUME NEW s \in Scopes, NEW a, NEW b, ValidIn(d, s, a, b), b = Discover(d, s, a)
      PROVE  /\ PathsOf(d, s) \subseteq {b}
             /\ a # NoPath => b = a /\ PathsOf(d, s) # {}
             /\ b # NoPath => b \in PathsOf(d, s)
  BY <1>2, <1>3 DEF ValidIn, Discover
<1>4. "host" \in Scopes /\ "local" \in Scopes /\ \A s \in Scopes : s \in {"host", "local"}
  BY DEF Scopes
<1> HIDE DEF h, l, k
<1> QED BY <1>1, <1>2, <1>3, <1>4 DEF h, l, k

(* A job that has just ended has left nothing behind that other containers  *)
(* are still told to let go of.                                             *)
Well(d) ==
  /\ Job(d)
  /\ op = "done" /\ ~Chroot => \A id \in propagation, s \in Scopes : Srv(id) \notin PathsOf(d, s)

(* What is known in the middle of a job, and what stays as it is.           *)
LEMMA JobFacts ==
  ASSUME Calm, FailureInv, Busy
  PROVE  /\ Current \in Known /\ Current \in Drives /\ cache = mounts /\ scope \in Scopes
         /\ op # "idle" => Job(Current)
         /\ \A d \in Drives : \A s \in Scopes :
              /\ GetMountPointsOf(d, s) = PathsOf(d, s) /\ PathsOf(d, s) \subseteq Paths
              /\ \A p \in PathsOf(d, s) : p \in {Run(d), Srv(swiftID[d])}
         /\ broken \in [Drives -> BOOLEAN] /\ mountPath \in [Drives -> Paths \cup {NoPath}]
         /\ assignment \in [Drives -> Assignments]
<1>1. Current \in Known /\ phase \in {"handle", "pass1", "pass2"}
  BY BusyFrame
<1>2. cache = mounts
  BY <1>1 DEF FailureInv, MountInv, CacheCurrent
<1>3. Current \in Drives /\ scope \in Scopes /\ op # "idle" => Job(Current)
  BY <1>1, FailureTypes DEF DriveTypeOK, FailureInv, DriveStates, JobInv
<1>4. scope \in Scopes /\ Current \in Drives
  BY <1>1, FailureTypes DEF DriveTypeOK
<1>5. \A d \in Drives : \A s \in Scopes : GetMountPointsOf(d, s) = PathsOf(d, s)
  BY <1>2 DEF GetMountPointsOf, MountsOf, PathsOf, PathsIn
<1>6. \A d \in Drives : \A s \in Scopes :
        \A p \in PathsOf(d, s) : p \in {Run(d), Srv(swiftID[d])}
  BY DEF FailureInv, MountInv, RightPaths
<1>7. op # "idle" => Job(Current)
  BY DEF FailureInv, DriveStates, JobInv
<1> QED BY <1>1, <1>2, <1>4, <1>5, <1>6, <1>7, FailureTypes

(* Where a setup wants a drive that Validate accepts.                       *)
LEMMA SetupTarget ==
  ASSUME Calm, FailureInv, Busy, ToConverge \/ op = "setup", ~broken[Current],
         Validate(Current).ok, NEW p, p = DesiredPath(assignment[Current], Current, Validate(Current).found)
  PROVE  /\ p \in {Run(Current), Srv(swiftID[Current])}
         /\ \A e \in Drives, s \in Scopes : p \in PathsOf(e, s) => e = Current
         /\ HasID(Current) => p = Srv(assignment[Current].id)
         /\ \A s \in Scopes : PathsOf(Current, s) \cap SrvPaths \subseteq {p}
<1> DEFINE c == Current
           f == Validate(c).found
<1>1. /\ c \in Known /\ c \in Drives /\ cache = mounts
      /\ op # "idle" => Job(c)
  BY JobFacts
<1>2. \A d \in Drives : \A s \in Scopes : \A q \in PathsOf(d, s) :
        q \in Paths /\ q \in {Run(d), Srv(swiftID[d])}
  BY JobFacts
<1>3. /\ \A s \in Scopes : PathsOf(c, s) \subseteq {f}
      /\ f # NoPath => f \in PathsOf(c, "local")
      /\ mountPath[c] # NoPath => f = mountPath[c]
  BY <1>1, ValidateFinds
<1>4. \A d, e \in Drives : \A s, t \in Scopes : \A q \in PathsOf(d, s) : q \in PathsOf(e, t) => d = e
  BY DEF FailureInv, MountInv, OneOwner
<1>5. "local" \in Scopes /\ f # NoPath => f \in {Run(c), Srv(swiftID[c])}
  BY <1>1, <1>2, <1>3 DEF Scopes
<1>6. \A s \in Scopes : \A q \in PathsOf(c, s) \cap SrvPaths : q = f /\ q = Srv(swiftID[c])
  BY <1>1, <1>2, <1>3, PathFacts
<1>7. \A s \in Scopes : \A e \in Drives : Run(c) \in PathsOf(e, s) => e = c
  BY <1>2, PathFacts
<1>8. "local" \in Scopes
  BY DEF Scopes
<1> HIDE DEF f
<1>9. CASE ~HasID(c)
  <2>1. p = IF f # NoPath THEN f ELSE Run(c)
    BY <1>9 DEF DesiredPath, HasID, Valid, f
  <2>2. \A e \in Drives, s \in Scopes : p \in PathsOf(e, s) => e = c
    BY <1>1, <1>3, <1>4, <1>7, <1>8, <2>1
  <2>3. \A s \in Scopes : PathsOf(c, s) \cap SrvPaths \subseteq {p}
    BY <1>2, <1>1, <1>3, <2>1, PathFacts
  <2> QED BY <1>5, <1>8, <1>9, <2>1, <2>2, <2>3
<1>10. CASE HasID(c)
  <2>1. p = Srv(assignment[c].id) /\ assignment[c] # Nil
    BY <1>10 DEF DesiredPath, HasID, Valid, Nil, f
  <2>2. op \in {"idle", "setup"} /\ phase # "handle"
    <3>1. op \in {"idle", "converge", "setup"} /\ (op = "idle" => phase # "handle")
      BY DEF ToConverge, InPass
    <3> QED BY <1>1, <2>1, <3>1 DEF Job
  <2>3. phase \in {"pass1", "pass2"}
    BY <2>2, BusyFrame
  <2>4. op = "idle" => ~WorksOn(c)
    BY DEF WorksOn
  <2>5. CASE phase = "pass1"
    <3>1. mountPath[c] = p
      <4>1. AtItsPath(c)
        BY <1>1, <2>2, <2>4, <2>5 DEF FailureInv, DriveStates, Returned, Job
      <4> QED BY <1>10, <2>1, <4>1 DEF AtItsPath
    <3>2. f = p /\ f # NoPath
      BY <1>3, <2>1, <3>1, PathFacts
    <3>3. p \in PathsOf(c, "local") /\ p \in {Run(c), Srv(swiftID[c])}
      BY <1>3, <1>5, <1>8, <3>2
    <3>4. \A e \in Drives, s \in Scopes : p \in PathsOf(e, s) => e = c
      BY <1>1, <1>4, <1>8, <3>3
    <3> QED BY <1>6, <2>1, <3>2, <3>3, <3>4
  <2>6. CASE phase = "pass2"
    <3>1. /\ swiftID[c] = assignment[c].id
          /\ \A e \in Known : ~broken[e] /\ swiftID[e] = swiftID[c] => e = c
      BY <1>1, <1>10, <2>6 DEF FailureInv, DriveStates, Agreed
    <3>2. ASSUME NEW e \in Drives, NEW s \in Scopes, p \in PathsOf(e, s)
          PROVE  e = c
      <4>1. swiftID[e] = swiftID[c]
        BY <1>2, <2>1, <3>1, <3>2, PathFacts
      <4> SUFFICES ASSUME e # c PROVE FALSE
        OBVIOUS
      <4>2. e \in There
        BY <3>2 DEF There, FailureInv, MountInv, RightPaths, Reachable, Accessible
      <4>3. AddedNow = {}
        BY <2>6, FailureTypes DEF HandInv, AddedNow, NoEvent, Event
      <4>4. e \in Known
        BY <1>1, <4>2, <4>3 DEF FailureInv, AllReported
      <4>5. ~broken[e]
        <5>1. ~WorksOn(e)
          BY DEF WorksOn
        <5>2. InPlace(e)
          BY <2>6, <4>4, <5>1 DEF FailureInv, DriveStates, Placed
        <5> QED BY <3>2, <5>2 DEF InPlace, Away
      <4> QED BY <3>1, <4>1, <4>4, <4>5
    <3> QED BY <1>6, <2>1, <3>1, <3>2
  <2> QED BY <2>3, <2>5, <2>6
<1> QED BY <1>9, <1>10

(* The job begins, with a setup ...                                         *)
LEMMA XFSJob ==
  ASSUME Calm, FailureInv, Busy, NEW d, d = Current, ToConverge \/ op = "setup", ~broken[d],
         BeginSetup(d)
  PROVE  Well(d)'
<1>1. d \in Drives /\ d \in Known /\ cache = mounts
  BY JobFacts
<1>2. CASE op' = "fail"
  BY <1>2 DEF Well, Job
<1>3. CASE op' # "fail"
  <2>1. Validate(d).ok
    BY <1>3 DEF BeginSetup
  <2> DEFINE p == DesiredPath(assignment[d], d, Validate(d).found)
  <2>2. /\ op' \in {"unmount", "format"} /\ target' = p /\ scope' = "host"
        /\ todo' = PathsOf(d, "host") \ {p}
    <3>1. GetMountPointsOf(d, "host") = PathsOf(d, "host")
      BY <1>1, JobFacts DEF Scopes
    <3> QED BY <2>1, <3>1 DEF BeginSetup, VisitOthers
  <2>3. UNCHANGED <<broken, assignment, swiftID, mounts>>
    BY DEF BeginSetup, hostVars, disks
  <2>4. /\ p \in {Run(d), Srv(swiftID[d])}
        /\ \A e \in Drives, s \in Scopes : p \in PathsOf(e, s) => e = d
        /\ HasID(d) => p = Srv(assignment[d].id)
        /\ \A s \in Scopes : PathsOf(d, s) \cap SrvPaths \subseteq {p}
    BY <2>1, SetupTarget
  <2> HIDE DEF p
  <2>5. Aimed(d)'
    BY <2>2, <2>3, <2>4 DEF Aimed, HasID, Valid, PathsOf
  <2>6. /\ todo' = PathsOf(d, scope)' \ {target'}
        /\ \A s \in Scopes : PathsOf(d, s)' \cap SrvPaths \subseteq {target'}
    BY <2>2, <2>3, <2>4 DEF PathsOf
  <2> QED BY <2>2, <2>5, <2>6 DEF Well, Job
<1> QED BY <1>2, <1>3

(* (of the container first, if the disk is encrypted) ...                   *)
InContainer == {"luksFormat", "luksOpen", "descend", "setup"}

LEMMA ContainerJob ==
  ASSUME Calm, FailureInv, NEW d, d = Current, ConvergeHealthy, BeginLUKSSetup(d)
  PROVE  Well(d)'
<1>1. Busy /\ ToConverge /\ ~broken[d]
  BY DEF Busy, ConvergeHealthy
<1>2. d \in Drives /\ d \in Known /\ cache = mounts /\ (op # "idle" => Job(d))
      /\ mountPath \in [Drives -> Paths \cup {NoPath}]
  BY <1>1, JobFacts
<1>3. UNCHANGED <<broken, assignment, phase>>
  BY DEF BeginLUKSSetup, ConvergeHealthy, ctlVars
<1>4. op' \in {"fail"} \cup InContainer
  BY DEF BeginLUKSSetup, InContainer
<1>5. phase = "handle" => assignment[d] = Nil
  BY <1>1, <1>2 DEF ToConverge, InPass, Job
<1>6. ASSUME phase = "pass1", op' # "fail"
      PROVE  AtItsPath(d)'
  <2>1. AtItsPath(d)
    <3>1. ~WorksOn(d)
      BY <1>1, <1>6 DEF ToConverge, WorksOn
    <3> QED BY <1>2, <1>6, <3>1 DEF FailureInv, DriveStates, Returned
  <2>2. HasID(d)' => HasID(d)
    BY <1>3 DEF HasID, Valid
  <2>3. ASSUME HasID(d) PROVE mountPath'[d] = mountPath[d]
    <3>1. mountPath[d] # NoPath
      BY <2>1, <2>3, PathFacts DEF AtItsPath
    <3>2. Validate(d).ok => Validate(d).found = mountPath[d]
      BY <1>2, <3>1, ValidateFinds
    <3> QED BY <1>2, <1>6, <3>2 DEF BeginLUKSSetup
  <2> QED BY <1>3, <2>1, <2>2, <2>3 DEF AtItsPath
<1> QED BY <1>1, <1>3, <1>4, <1>5, <1>6 DEF Well, Job, InContainer

LEMMA SetupJob ==
  ASSUME Calm, FailureInv, ConvergeHealthy, NEW d, d = Current
  PROVE  Well(d)'
<1>1. Busy /\ ToConverge /\ ~broken[d]
  BY DEF Busy, ConvergeHealthy
<1>2. BeginSetup(d) \/ BeginLUKSSetup(d)
  BY DEF ConvergeHealthy, Setup
<1> QED BY <1>1, <1>2, XFSJob, ContainerJob

LEMMA InContainerJob ==
  ASSUME Calm, FailureInv, Busy, NEW d, d = Current,
         LUKSFormat(d) \/ LUKSOpen(d) \/ Descend(d) \/ SetupInside(d)
  PROVE  Well(d)'
<1>1. op \in InContainer /\ Job(d)
  BY JobFacts DEF LUKSFormat, LUKSOpen, Descend, SetupInside, InContainer
<1>2. CASE SetupInside(d)
  BY <1>1, <1>2, XFSJob DEF SetupInside, Job, InContainer
<1>3. CASE ~SetupInside(d)
  <2>1. UNCHANGED <<broken, assignment, mountPath, phase>> /\ op' \in {"fail"} \cup InContainer
    BY <1>3, BusyFrame DEF LUKSFormat, LUKSOpen, Descend, fields, InContainer
  <2>2. AtItsPath(d) <=> AtItsPath(d)'
    BY <2>1 DEF AtItsPath, HasID, Valid
  <2> QED BY <1>1, <2>1, <2>2 DEF Well, Job, InContainer
<1> QED BY <1>2, <1>3

(* ... or with a teardown.                                                  *)
LEMMA TeardownJob ==
  ASSUME Calm, FailureInv, ConvergeBroken \/ GiveUp(Current), Busy, NEW d, d = Current
  PROVE  Well(d)'
<1>1. d \in Drives /\ d \in Known /\ "host" \in Scopes
      /\ \A s \in Scopes : GetMountPointsOf(d, s) = PathsOf(d, s)
      /\ broken \in [Drives -> BOOLEAN]
  BY JobFacts DEF Scopes
<1>2. Teardown(d) /\ broken'[d] = TRUE /\ UNCHANGED <<mounts, mountPath>>
  <2>1. CASE ConvergeBroken
    BY <1>1, <2>1 DEF ConvergeBroken, hostVars, fields
  <2>2. CASE GiveUp(d)
    BY <1>1, <2>2 DEF GiveUp, MarkAsBroken
  <2> QED BY <2>1, <2>2
<1>3. \A s \in Scopes : PathsOf(d, s)' = PathsOf(d, s)
  BY <1>2 DEF PathsOf
<1>4. CASE d \in hasLUKS /\ d \notin mapped
  <2>1. op' \in {"close", "done"}
    BY <1>2, <1>4 DEF Teardown, AfterFilesystem
  <2>2. mountPath[d] = NoPath /\ (MountedSomewhere(d) => op = "converge" /\ ~broken[d])
    BY <1>1, <1>4 DEF FailureInv, LuksInv, Opened
  <2>3. \A s \in Scopes : PathsOf(d, s) = {}
    <3>1. ~(op = "converge" /\ ~broken[d])
      BY DEF ConvergeBroken, GiveUp
    <3> QED BY <2>2, <3>1 DEF MountedSomewhere
  <2>4. Away(d)' /\ ~HasID(d)'
    BY <1>2, <1>3, <2>2, <2>3 DEF Away, HasID
  <2>5. InPlace(d)' /\ AtItsPath(d)'
    BY <1>2, <2>4 DEF InPlace, AtItsPath
  <2> QED BY <1>2, <1>3, <2>1, <2>3, <2>4, <2>5 DEF Well, Job
<1>5. CASE ~(d \in hasLUKS /\ d \notin mapped)
  <2>1. op' = "teardown" /\ scope' = "host" /\ todo' = PathsOf(d, scope)'
    BY <1>1, <1>2, <1>3, <1>5 DEF Teardown, BeginTeardown, Visit, PathsOf
  <2> QED BY <1>2, <2>1 DEF Well, Job
<1> QED BY <1>4, <1>5

(* The commands of the setup.                                               *)
LEMMA FormatJob ==
  ASSUME Calm, FailureInv, [Next]_vars, Busy, Format(Current), NEW d, d = Current
  PROVE  Well(d)'
<1>1. op = "format" /\ Job(d) /\ d \in Drives
  BY JobFacts DEF Format
<1>2. UNCHANGED <<swiftID, mounts, broken, assignment, mountPath, scope, todo, target>>
  BY BusyKeeps DEF Format
<1>3. op' \in {"unmount", "fail"}
  BY DEF Format
<1>4. (\A e : \A s \in Scopes : PathsOf(e, s)' = PathsOf(e, s)) /\ (Aimed(d) <=> Aimed(d)')
  BY <1>2 DEF PathsOf, Aimed, HasID, Valid
<1> QED BY <1>1, <1>2, <1>3, <1>4 DEF Well, Job, PathsOf

LEMMA OthersJob ==
  ASSUME Calm, FailureInv, [Next]_vars, Busy, NEW d, d = Current,
         (UmountStep /\ op = "unmount") \/ OthersUnmounted(Current)
  PROVE  Well(d)'
<1>1. op = "unmount" /\ Job(d) /\ d \in Drives /\ scope \in Scopes
  BY JobFacts DEF OthersUnmounted
<1>2. UNCHANGED <<swiftID, broken, assignment, target>>
  BY BusyKeeps DEF UmountStep, UnmountOther, Umount, OthersUnmounted, fields
<1>3. /\ Aimed(d) /\ todo = PathsOf(d, scope) \ {target}
      /\ scope = "local" => PathsOf(d, "host") \subseteq {target}
      /\ \A s \in Scopes : PathsOf(d, s) \cap SrvPaths \subseteq {target}
  BY <1>1 DEF Job
<1>4. scope \in Affected(scope) /\ "host" \in Scopes /\ "local" \in Scopes
      /\ \A s \in Scopes : s \in {"host", "local"}
  BY <1>1 DEF Affected, Scopes
<1>5. CASE UmountStep
  <2>2. PICK p \in todo :
          /\ op' = "unmount" /\ todo' = todo \ {p}
          /\ \A e : \A t \in Scopes :
               PathsOf(e, t)' = PathsOf(e, t) \ (IF t \in Affected(scope) THEN {p} ELSE {})
    BY <1>1, <1>5, UmountStepEffect
  <2>3. UNCHANGED scope
    BY <1>5 DEF UmountStep, UnmountOther, Umount
  <2>4. \A e : \A t \in Scopes : PathsOf(e, t)' \subseteq PathsOf(e, t)
    BY <2>2
  <2>5. PathsOf(d, scope)' = PathsOf(d, scope) \ {p}
    <3>1. PICK t : t = scope
      OBVIOUS
    <3>2. PathsOf(d, t)' = PathsOf(d, t) \ {p}
      BY <1>1, <1>4, <2>2, <3>1
    <3> QED BY <2>3, <3>1, <3>2 DEF PathsOf
  <2>6. Aimed(d)'
    BY <1>2, <1>3, <2>4 DEF Aimed, HasID, Valid
  <2>7. /\ todo' = PathsOf(d, scope)' \ {target'}
        /\ scope' = "local" => PathsOf(d, "host")' \subseteq {target'}
        /\ \A s \in Scopes : PathsOf(d, s)' \cap SrvPaths \subseteq {target'}
    BY <1>2, <1>3, <1>4, <2>2, <2>3, <2>4, <2>5
  <2> QED BY <2>2, <2>6, <2>7 DEF Well, Job
<1>6. CASE OthersUnmounted(d)
  <2>1. todo = {} /\ UNCHANGED mounts
    BY <1>6 DEF OthersUnmounted, hostVars
  <2>2. (\A e : \A s \in Scopes : PathsOf(e, s)' = PathsOf(e, s)) /\ Aimed(d)'
    BY <1>2, <1>3, <2>1 DEF PathsOf, Aimed, HasID, Valid
  <2>3. CASE scope = "host"
    <3>1. op' = "unmount" /\ scope' = "local" /\ todo' = PathsOf(d, "local") \ {target}
      BY <1>1, <1>4, <1>6, <2>3, JobFacts DEF OthersUnmounted, VisitOthers
    <3>2. PathsOf(d, "host") \subseteq {target}
      BY <1>3, <2>1, <2>3
    <3>3. todo' = PathsOf(d, scope)' \ {target'}
      BY <1>2, <2>1, <3>1 DEF PathsOf
    <3> QED BY <1>2, <1>3, <1>4, <2>2, <3>1, <3>2, <3>3 DEF Well, Job
  <2>4. CASE scope = "local"
    <3>1. op' = "mount" /\ scope' = "host" /\ mountPath'[d] \in {target, NoPath}
      BY <1>1, <1>6, <2>4, JobFacts DEF OthersUnmounted
    <3>2. \A s \in Scopes : PathsOf(d, s) \subseteq {target}
      BY <1>3, <1>4, <2>1, <2>4
    <3> QED BY <1>2, <2>2, <3>1, <3>2 DEF Well, Job
  <2> QED BY <1>4, <2>3, <2>4, <1>1
<1> QED BY <1>5, <1>6

LEMMA MountJob ==
  ASSUME Calm, FailureInv, [Next]_vars, Busy, MountStep, NEW d, d = Current
  PROVE  Well(d)'
<1>1. op = "mount" /\ Job(d) /\ d \in Drives /\ scope \in Scopes
      /\ mountPath \in [Drives -> Paths \cup {NoPath}]
  BY JobFacts DEF MountStep, Mount
<1>2. UNCHANGED <<swiftID, broken, assignment, target>>
  BY BusyKeeps DEF MountStep, Mount
<1>3. /\ Aimed(d) /\ \A s \in Scopes : PathsOf(d, s) \subseteq {target}
      /\ mountPath[d] \in {target, NoPath}
      /\ scope = "local" => target \in PathsOf(d, "host")
  BY <1>1 DEF Job
<1>4. scope \in Affected(scope) /\ "host" \in Scopes /\ "local" \in Scopes
      /\ \A s \in Scopes : s \in {"host", "local"}
  BY <1>1 DEF Affected, Scopes
<1>5. CASE op' = "fail"
  BY <1>5 DEF Well, Job
<1>6. CASE Mounts(d)
  <2>1. \A e : \A t \in Scopes : PathsOf(e, t)' =
          PathsOf(e, t) \cup (IF e = d /\ t \in Affected(scope) THEN {target} ELSE {})
    BY <1>6 DEF Mounts
  <2>2. /\ \A t \in Scopes : PathsOf(d, t)' \subseteq {target}
        /\ target \in PathsOf(d, "host")'
        /\ scope = "local" => target \in PathsOf(d, "local")'
    <3>1. ASSUME NEW t \in Scopes
          PROVE  /\ PathsOf(d, t)' \subseteq {target}
                 /\ PathsOf(d, t) \subseteq PathsOf(d, t)'
                 /\ t \in Affected(scope) => target \in PathsOf(d, t)'
      <4>1. PathsOf(d, t)' = PathsOf(d, t) \cup (IF t \in Affected(scope) THEN {target} ELSE {})
        BY <2>1
      <4> QED BY <1>3, <4>1
    <3> QED BY <1>1, <1>3, <1>4, <3>1
  <2>3. \A e \in Drives, s \in Scopes : target' \in PathsOf(e, s)' => e = d
    BY <1>2, <1>3, <2>1 DEF Aimed
  <2>4. Aimed(d)'
    BY <1>2, <1>3, <2>3 DEF Aimed, HasID, Valid
  <2>5. CASE scope = "host"
    BY <1>1, <1>2, <1>3, <1>6, <2>2, <2>4, <2>5 DEF Mounts, Well, Job
  <2>6. CASE scope = "local"
    <3>1. op' = "clear" /\ mountPath'[d] = target
      BY <1>1, <1>6, <2>6 DEF Mounts
    <3>2. target # NoPath
      BY <1>3, PathFacts DEF Aimed
    <3>3. AtHome(d)'
      BY <1>4, <2>2, <2>6, <3>1, <3>2 DEF AtHome
    <3> QED BY <1>2, <2>4, <3>1, <3>3 DEF Well, Job
  <2> QED BY <1>1, <1>4, <2>5, <2>6
<1> QED BY <1>5, <1>6, MountStepEffect

LEMMA ClearJob ==
  ASSUME Calm, FailureInv, Busy, ClearPropagation, NEW d, d = Current
  PROVE  Well(d)'
<1>1. op = "clear" /\ Job(d)
  BY JobFacts DEF ClearPropagation
<1>2. UNCHANGED <<mounts, broken, assignment, mountPath>> /\ op' = "done"
      /\ (~Chroot => \A id \in propagation' : Srv(id) # target)
  BY DEF ClearPropagation, fields
<1>3. Aimed(d) /\ mountPath[d] = target /\ AtHome(d)
  BY <1>1 DEF Job
<1>4. \A s \in Scopes : PathsOf(d, s)' = PathsOf(d, s) /\ PathsOf(d, s) = {target}
  BY <1>2, <1>3 DEF PathsOf, AtHome
<1>5. InPlace(d)' /\ AtItsPath(d)'
  BY <1>2, <1>3, <1>4 DEF InPlace, AtHome, Aimed, AtItsPath, HasID, Valid
<1> QED BY <1>2, <1>4, <1>5 DEF Well, Job

(* The commands of the teardown.                                            *)
LEMMA AnnounceJob ==
  ASSUME Calm, FailureInv, Busy, Announce(Current), NEW d, d = Current
  PROVE  Well(d)'
<1>1. op = "teardown" /\ Job(d)
  BY JobFacts DEF Announce
<1>2. UNCHANGED <<mounts, broken, scope, todo>> /\ op' = "umount"
  BY DEF Announce, fields
<1>3. broken[d] /\ todo = PathsOf(d, scope) /\ (scope = "local" => PathsOf(d, "host") = {})
  BY <1>1 DEF Job
<1>4. target' \in todo /\ \A id \in IDs : target' = Srv(id) /\ "ln" \notin Faults => id \in propagation'
  BY DEF Announce, FlagsFor, Fault
<1>5. \A s : PathsOf(d, s)' = PathsOf(d, s)
  BY <1>2 DEF PathsOf
<1> QED BY <1>2, <1>3, <1>4, <1>5 DEF Well, Job, PathsOf

LEMMA UmountJob ==
  ASSUME Calm, FailureInv, Busy, UmountStep, op = "umount", NEW d, d = Current
  PROVE  Well(d)'
<1>1. Job(d) /\ scope \in Scopes
  BY JobFacts
<1>2. PICK p \in todo :
        /\ op' = "teardown" /\ todo' = todo \ {p}
        /\ \A e : \A t \in Scopes :
             PathsOf(e, t)' = PathsOf(e, t) \ (IF t \in Affected(scope) THEN {p} ELSE {})
  BY UmountStepEffect
<1>3. UNCHANGED <<broken, scope>>
  BY DEF UmountStep, UnmountOther, Umount, fields
<1>4. broken[d] /\ todo = PathsOf(d, scope) /\ (scope = "local" => PathsOf(d, "host") = {})
  BY <1>1 DEF Job
<1>5. scope \in Affected(scope) /\ "host" \in Scopes
  BY <1>1 DEF Affected, Scopes
<1>6. PICK t : t = scope
  OBVIOUS
<1>7. PathsOf(d, t)' = PathsOf(d, t) \ {p}
  BY <1>1, <1>2, <1>5, <1>6
<1>8. todo' = PathsOf(d, scope)'
  BY <1>2, <1>3, <1>4, <1>6, <1>7 DEF PathsOf
<1>9. scope' = "local" => PathsOf(d, "host")' = {}
  BY <1>2, <1>3, <1>4, <1>5
<1> QED BY <1>2, <1>3, <1>4, <1>8, <1>9 DEF Well, Job

LEMMA TornDownJob ==
  ASSUME Calm, FailureInv, Busy, FilesystemTornDown(Current), NEW d, d = Current
  PROVE  Well(d)'
<1>1. op = "teardown" /\ Job(d) /\ d \in Drives /\ scope \in Scopes
      /\ \A s \in Scopes : GetMountPointsOf(d, s) = PathsOf(d, s)
      /\ mountPath \in [Drives -> Paths \cup {NoPath}]
  BY JobFacts DEF FilesystemTornDown
<1>2. broken[d] /\ todo = PathsOf(d, scope) /\ (scope = "local" => PathsOf(d, "host") = {})
  BY <1>1 DEF Job
<1>3. PICK next \in {"close", "done"} : TornDown(d, next)
  BY DEF FilesystemTornDown, AfterFilesystem
<1>4. todo = {} /\ UNCHANGED <<mounts, broken>>
  BY <1>3 DEF TornDown, hostVars
<1>5. \A s : PathsOf(d, s)' = PathsOf(d, s)
  BY <1>4 DEF PathsOf
<1>6. "host" \in Scopes /\ "local" \in Scopes /\ \A s \in Scopes : s \in {"host", "local"}
  BY DEF Scopes
<1>7. CASE scope = "host"
  <2>1. op' = "teardown" /\ scope' = "local" /\ todo' = PathsOf(d, "local")
    BY <1>1, <1>3, <1>6, <1>7 DEF TornDown, Visit
  <2>2. PathsOf(d, "host") = {} /\ todo' = PathsOf(d, scope)'
    BY <1>2, <1>4, <1>7, <2>1 DEF PathsOf
  <2> QED BY <1>2, <1>4, <1>5, <2>1, <2>2 DEF Well, Job
<1>8. CASE scope = "local"
  <2>1. op' \in {"close", "done"} /\ mountPath'[d] = NoPath
    BY <1>1, <1>3, <1>8 DEF TornDown
  <2>2. \A s \in Scopes : PathsOf(d, s) = {}
    BY <1>2, <1>4, <1>6, <1>8
  <2>3. InPlace(d)' /\ AtItsPath(d)' /\ broken'[d] /\ Away(d)'
    BY <1>2, <1>4, <1>5, <2>1, <2>2 DEF InPlace, Away, AtItsPath, HasID
  <2> QED BY <1>5, <2>1, <2>2, <2>3 DEF Well, Job
<1> QED BY <1>1, <1>6, <1>7, <1>8

LEMMA CloseJob ==
  ASSUME FailureInv, Busy, NEW d, d = Current, LUKSClose(d)
  PROVE  Well(d)'
<1>1. broken[d] /\ Away(d) /\ UNCHANGED <<broken, mounts, mountPath, assignment>> /\ op' = "done"
  BY DEF LUKSClose, fields, FailureInv, DriveStates, JobInv, Job
<1>2. Away(d)' /\ broken'[d]
  BY <1>1 DEF Away, PathsOf
<1> QED BY <1>1, <1>2 DEF Well, Job, Away, InPlace, AtItsPath, HasID

(* The job goes on.                                                         *)
LEMMA JobGoesOn ==
  ASSUME Calm, FailureInv, [Next]_vars, Busy, NEW d, d = Current
  PROVE  Well(d)'
<1>1. CASE ConvergeHealthy
  BY <1>1, SetupJob
<1>2. CASE ConvergeBroken \/ GiveUp(Current)
  BY <1>2, TeardownJob
<1>3. CASE UmountStep
  BY <1>3, OthersJob, UmountJob, UmountStepEffect
<1>4. CASE MountStep
  BY <1>4, MountJob
<1>5. CASE Format(Current) \/ OthersUnmounted(Current)
  BY <1>5, FormatJob, OthersJob
<1>6. CASE ClearPropagation \/ Announce(Current) \/ FilesystemTornDown(Current)
  BY <1>6, ClearJob, AnnounceJob, TornDownJob
<1>7. CASE \/ LUKSFormat(Current) \/ LUKSOpen(Current) \/ Descend(Current)
           \/ SetupInside(Current) \/ LUKSClose(Current)
  BY <1>7, InContainerJob, CloseJob
<1> QED BY <1>1, <1>2, <1>3, <1>4, <1>5, <1>6, <1>7 DEF Busy, UmountStep, MountStep

(* The states of all drives, when the converger works on one of them.       *)
LEMMA BusyStates ==
  ASSUME Calm, FailureInv, [Next]_vars, Busy
  PROVE  DriveStates'
<1> DEFINE c == Current
<1>1. /\ UNCHANGED <<phase, drives, at, scanned, taken>>
      /\ c' = c /\ Known' = Known /\ op' # "idle" /\ c \in Known
      /\ phase \in {"handle", "pass1", "pass2"} /\ (op = "idle" => phase # "handle")
  BY BusyFrame
<1>2. /\ UNCHANGED swiftID /\ op' \notin {"idle", "converge"}
      /\ \A d \in Drives : d # c =>
           /\ mountPath'[d] = mountPath[d] /\ broken'[d] = broken[d] /\ assignment'[d] = assignment[d]
           /\ \A s \in Scopes : PathsOf(d, s)' = PathsOf(d, s)
      /\ \/ broken'[c] = broken[c] /\ assignment'[c] = assignment[c]
         \/ broken'[c] = TRUE /\ assignment'[c] = Nil
      /\ \A id \in propagation' :
           id \in propagation \/ \E s \in Scopes : Srv(id) \in PathsOf(c, s)
  BY BusyKeeps
<1>3. PICK d : d = c
  OBVIOUS
<1>4. Well(d)' /\ d' = d
  BY <1>3, JobGoesOn
<1>5. Known \subseteq Drives /\ d \in Drives
  BY <1>1, <1>3, FailureTypes
<1>6. \A e : Before(e)' <=> Before(e)
  BY <1>1 DEF Before
<1>7. \A e : WorksOn(e)' <=> e = d
  BY <1>1, <1>2, <1>3 DEF WorksOn
<1>8. \A e : e # d => ~WorksOn(e)
  BY <1>3 DEF WorksOn
<1>9. DriveStates
  BY DEF FailureInv
<1> HIDE DEF c
<1>10. /\ Remembered /\ Returned /\ Placed /\ BrokenUnassigned /\ Agreed /\ IDsRead
       /\ Withdrawn /\ KnownInPhase
  BY <1>9 DEF DriveStates
<1> HIDE DEF c
(* A drive that is not worked on is as it was.                              *)
<1>11. ASSUME NEW e \in Known, e # d
       PROVE  /\ (AtItsPath(e) <=> AtItsPath(e)') /\ (InPlace(e) <=> InPlace(e)')
              /\ (Away(e) <=> Away(e)') /\ (HasID(e) <=> HasID(e)') /\ ~WorksOn(e)
  <2>1. /\ mountPath'[e] = mountPath[e] /\ broken'[e] = broken[e] /\ assignment'[e] = assignment[e]
        /\ \A s \in Scopes : PathsOf(e, s)' = PathsOf(e, s)
    BY <1>2, <1>3, <1>5, <1>11
  <2> QED BY <1>8, <1>11, <2>1 DEF AtItsPath, InPlace, Away, AtHome, HasID, Valid
<1>12. Remembered'
  BY <1>1, <1>2, <1>3, <1>5, <1>7, <1>8, <1>10 DEF Remembered
<1>13. Returned'
  BY <1>1, <1>2, <1>6, <1>7, <1>10, <1>11 DEF Returned
<1>14. Placed'
  BY <1>1, <1>2, <1>6, <1>7, <1>10, <1>11 DEF Placed
<1>15. BrokenUnassigned'
  BY <1>1, <1>2, <1>3, <1>5, <1>10 DEF BrokenUnassigned
<1>16. Agreed'
  BY <1>1, <1>2, <1>3, <1>5, <1>10 DEF Agreed, HasID, Valid, Nil
<1>17. IDsRead'
  BY <1>1 DEF IDsRead
<1>18. Withdrawn'
  <2> SUFFICES ASSUME ~Chroot, NEW id \in propagation', NEW e \in Known, NEW s \in Scopes,
                      Srv(id) \in PathsOf(e, s)'
               PROVE  e = d /\ op' # "done"
    BY <1>1, <1>2, <1>7 DEF Withdrawn
  <2>1. e = d
    <3>1. SUFFICES ASSUME e # d PROVE FALSE
      OBVIOUS
    <3>2. Srv(id) \in PathsOf(e, s) /\ ~WorksOn(e)
      BY <1>2, <1>3, <1>5, <1>8, <3>1
    <3>3. id \in propagation \/ \E t \in Scopes : Srv(id) \in PathsOf(d, t)
      BY <1>2, <1>3
    <3>4. id \notin propagation
      BY <1>10, <3>2 DEF Withdrawn
    <3> QED BY <1>5, <3>1, <3>2, <3>3, <3>4 DEF FailureInv, MountInv, OneOwner
  <2>2. op' # "done"
    BY <1>4, <2>1 DEF Well
  <2> QED BY <2>1, <2>2
<1>19. JobInv' /\ KnownInPhase'
  BY <1>1, <1>3, <1>4 DEF JobInv, KnownInPhase, Well, Job, Aimed, HasID, Valid, AtHome, Away,
     InPlace, AtItsPath, PathsOf, c
<1> QED BY <1>12, <1>13, <1>14, <1>15, <1>16, <1>17, <1>18, <1>19 DEF DriveStates

-----------------------------------------------------------------------------
(* The states of the drives between two jobs.                               *)

(* When nothing changes but where the converger is, and when the current    *)
(* drive's job is done.                                                     *)
Still == UNCHANGED <<mounts, swiftID, propagation, mountPath, broken, assignment>>

LEMMA StillStates ==
  ASSUME FailureInv, op \in {"idle", "done"}, op' = "idle", Still, Known' \subseteq Known
  PROVE  /\ Remembered' /\ BrokenUnassigned' /\ Withdrawn' /\ JobInv'
         /\ op = "done" => InPlace(Current) /\ AtItsPath(Current)
         /\ \A d \in Known : (InPlace(d)' <=> InPlace(d)) /\ (AtItsPath(d)' <=> AtItsPath(d))
                             /\ (HasID(d)' <=> HasID(d)) /\ (broken[d] => Away(d)' <=> InPlace(d))
         /\ \A d : (~WorksOn(d))' /\ (WorksOn(d) => op = "done" /\ d = Current)
<1>1. op = "done" => Current \in Known /\ InPlace(Current) /\ AtItsPath(Current)
  BY DEF FailureInv, DriveStates, JobInv, Job
<1>2. \A d \in Known : (InPlace(d)' <=> InPlace(d)) /\ (AtItsPath(d)' <=> AtItsPath(d))
                       /\ (HasID(d)' <=> HasID(d)) /\ (broken[d] => Away(d)' <=> InPlace(d))
  BY DEF InPlace, Away, AtHome, AtItsPath, HasID, Valid, Still, PathsOf
<1>3. \A d : (~WorksOn(d))' /\ (WorksOn(d) => op = "done" /\ d = Current)
  BY DEF WorksOn
<1>4. \A d : \A s : PathsOf(d, s)' = PathsOf(d, s)
  BY DEF Still, PathsOf
<1>5. Remembered'
  <2>1. ASSUME NEW d \in Known, mountPath[d] # NoPath, NEW s \in Scopes
        PROVE  PathsOf(d, s) \subseteq {mountPath[d]}
    <3>1. CASE WorksOn(d)
      BY <1>1, <1>3, <2>1, <3>1 DEF InPlace, AtHome, Away
    <3>2. CASE ~WorksOn(d)
      BY <2>1, <3>2 DEF FailureInv, DriveStates, Remembered
    <3> QED BY <3>1, <3>2
  <2> QED BY <1>4, <2>1 DEF Remembered, Still
<1>6. BrokenUnassigned'
  BY DEF FailureInv, DriveStates, BrokenUnassigned, Still
<1>7. Withdrawn'
  BY <1>3, <1>4 DEF FailureInv, DriveStates, Withdrawn, Still
<1> QED BY <1>1, <1>2, <1>3, <1>5, <1>6, <1>7 DEF JobInv

(* Events, but for those that begin a drive's life.                         *)
LEMMA EventStates ==
  ASSUME Calm, FailureInv, Receive \/ HandleUnknown \/ EventHandled
  PROVE  DriveStates'
<1>1. Still /\ op \in {"idle", "done"} /\ op' = "idle" /\ phase' = "handle" /\ UNCHANGED drives
  <2>1. CASE Receive
    <3>1. op = "idle"
      BY <2>1, BusyPhase DEF Receive
    <3> QED BY <2>1, <3>1 DEF Receive, Still, hostVars, disks, flags, fields, job, assignVars
  <2>2. CASE HandleUnknown
    BY <2>2 DEF HandleUnknown, Still, hostVars, disks, flags, deviceVars, driveVars, fields, job, assignVars
  <2>3. CASE EventHandled
    <3>1. batch.kind # "removed"
      BY DEF FailureInv, OnlyAdditions, Harmless, HarmlessIn
    <3> QED BY <2>3, <3>1 DEF EventHandled, Still, hostVars, disks, flags, fields, assignVars
  <2> QED BY <2>1, <2>2, <2>3
<1>2. Known' = Known /\ phase \in {"wait", "handle"}
  BY <1>1 DEF Known, Receive, HandleUnknown, EventHandled
<1>3. /\ Remembered' /\ BrokenUnassigned' /\ Withdrawn' /\ JobInv'
      /\ op = "done" => AtItsPath(Current)
      /\ \A d \in Known : (AtItsPath(d)' <=> AtItsPath(d))
      /\ \A d : WorksOn(d) => op = "done" /\ d = Current
  BY <1>1, <1>2, StillStates
<1>4. Returned'
  BY <1>1, <1>2, <1>3 DEF FailureInv, DriveStates, Returned
<1>5. Placed' /\ Agreed' /\ IDsRead' /\ KnownInPhase'
  BY <1>1 DEF Placed, Agreed, IDsRead, KnownInPhase
<1> QED BY <1>3, <1>4, <1>5 DEF DriveStates

(* A new Drive has nothing to remember.                                     *)
LEMMA NewStates ==
  ASSUME Calm, FailureInv, ListInv', HandleAdded \/ HandleReinstated
  PROVE  DriveStates'
<1> DEFINE d == Head(batch.devs)
<1>1. /\ d \in devices /\ NewDevice(d) /\ d \in Known' /\ Known' \subseteq Known \cup {d}
      /\ Known \subseteq Drives /\ Known' \subseteq Drives
  <2>1. CASE HandleAdded
    BY <2>1, AddedList, FailureTypes DEF HandleAdded
  <2>2. CASE HandleReinstated
    BY <2>2, FailureTypes DEF HandleReinstated, ctlVars, Known, FailureInv, OnlyAdditions
  <2> QED BY <2>1, <2>2
<1>2. /\ phase = "handle" /\ op = "idle" /\ op' = "converge"
      /\ UNCHANGED <<phase, batch, mounts, swiftID, propagation>>
  BY DEF HandleAdded, HandleReinstated, Handling, disks, ctlVars
<1>3. /\ broken' = [broken EXCEPT ![d] = d \in transient \cup durable]
      /\ mountPath' = [mountPath EXCEPT ![d] = NoPath]
      /\ assignment' = [assignment EXCEPT ![d] = Nil]
  BY <1>1, NewDeviceEffect
<1>4. /\ Current' = d /\ d' = d
  BY <1>2 DEF Current
<1>5. mountPath'[d] = NoPath /\ assignment'[d] = Nil
  BY <1>1, <1>3, FailureTypes
<1>6. \A e \in Known : e # d =>
        mountPath'[e] = mountPath[e] /\ assignment'[e] = assignment[e] /\ broken'[e] = broken[e]
  BY <1>1, <1>3, FailureTypes
<1>7. \A e : \A s : PathsOf(e, s)' = PathsOf(e, s)
  BY <1>2 DEF PathsOf
<1> HIDE DEF d
<1>8. Remembered'
  BY <1>1, <1>2, <1>5, <1>6, <1>7 DEF Remembered, WorksOn, FailureInv, DriveStates
<1>9. Returned'
  BY <1>1, <1>2, <1>5, <1>6 DEF Returned, WorksOn, AtItsPath, HasID, Valid, Nil, FailureInv, DriveStates
<1>10. Placed' /\ Agreed' /\ IDsRead' /\ KnownInPhase'
  BY <1>2 DEF Placed, Agreed, IDsRead, KnownInPhase
<1>11. BrokenUnassigned'
  BY <1>1, <1>5, <1>6 DEF BrokenUnassigned, FailureInv, DriveStates
<1>12. Withdrawn'
  BY <1>1, <1>2, <1>4, <1>7 DEF Withdrawn, WorksOn, FailureInv, DriveStates
<1>13. JobInv'
  BY <1>1, <1>2, <1>4, <1>5 DEF JobInv, Job
<1> QED BY <1>8, <1>9, <1>10, <1>11, <1>12, <1>13 DEF DriveStates

LEMMA ErrorStates ==
  ASSUME Calm, FailureInv, HandleError
  PROVE  DriveStates'
<1> DEFINE d == Head(batch.devs)
<1>1. /\ d \in Known /\ Known \subseteq Drives /\ Known' = Known /\ phase = "handle" /\ op = "idle"
      /\ UNCHANGED <<phase, op, mounts, swiftID, propagation, mountPath>>
  BY FailureTypes DEF HandleError, Handling, disks, job, Known
<1>2. broken' = [broken EXCEPT ![d] = TRUE] /\ assignment' = [assignment EXCEPT ![d] = Nil]
  BY DEF HandleError, MarkAsBroken
<1>3. broken'[d] /\ assignment'[d] = Nil
      /\ \A e \in Known : e # d => assignment'[e] = assignment[e] /\ broken'[e] = broken[e]
  BY <1>1, <1>2, FailureTypes
<1>4. \A e : \A s : PathsOf(e, s)' = PathsOf(e, s)
  BY <1>1 DEF PathsOf
<1> HIDE DEF d
<1>5. Remembered'
  BY <1>1, <1>4 DEF Remembered, WorksOn, FailureInv, DriveStates
<1>6. Returned'
  BY <1>1, <1>3 DEF Returned, WorksOn, AtItsPath, HasID, Valid, FailureInv, DriveStates
<1>7. Placed' /\ Agreed' /\ IDsRead' /\ KnownInPhase' /\ JobInv'
  BY <1>1 DEF Placed, Agreed, IDsRead, KnownInPhase, JobInv
<1>8. BrokenUnassigned'
  BY <1>1, <1>3 DEF BrokenUnassigned, FailureInv, DriveStates
<1>9. Withdrawn'
  BY <1>1, <1>4 DEF Withdrawn, WorksOn, FailureInv, DriveStates
<1> QED BY <1>5, <1>6, <1>7, <1>8, <1>9 DEF DriveStates

(* From one drive to the next, and from one loop to the next.               *)
LEMMA LoopStates ==
  ASSUME Calm, FailureInv, BeginConverge \/ NextDrive \/ EndPass1 \/ BeginPass2 \/ EndConverge
  PROVE  DriveStates'
<1>1. Still /\ op \in {"idle", "done"} /\ op' = "idle" /\ UNCHANGED drives
  <2>1. CASE NextDrive
    BY <2>1 DEF NextDrive, Still, hostVars, disks, flags, fields
  <2>2. CASE ~NextDrive
    <3>1. op = "idle"
      <4>1. CASE BeginConverge
        BY <4>1 DEF BeginConverge
      <4>2. CASE ~BeginConverge
        <5>1. ~InPass /\ phase # "handle"
          BY <2>2, <4>2, FailureTypes DEF InPass, EndPass1, BeginPass2, EndConverge
        <5> QED BY <5>1, FailureTypes DEF TypeInv, JobHasDrive
      <4> QED BY <4>1, <4>2
    <3> QED BY <2>2, <3>1 DEF BeginConverge, EndPass1, BeginPass2, EndConverge, Still,
            hostVars, disks, flags, deviceVars, driveVars, fields, job, assignVars
  <2> QED BY <2>1, <2>2
<1>2. /\ Known' = Known /\ Len(drives) \in Nat /\ at \in Nat \ {0}
      /\ DOMAIN drives = 1 .. Len(drives)
  BY <1>1, FailureTypes DEF Known
<1>3. /\ Remembered' /\ BrokenUnassigned' /\ Withdrawn' /\ JobInv'
      /\ op = "done" => InPlace(Current) /\ AtItsPath(Current)
      /\ \A d \in Known : (InPlace(d)' <=> InPlace(d)) /\ (AtItsPath(d)' <=> AtItsPath(d))
                          /\ (HasID(d)' <=> HasID(d)) /\ (broken[d] => Away(d)' <=> InPlace(d))
      /\ \A d : (~WorksOn(d))' /\ (WorksOn(d) => op = "done" /\ d = Current)
  BY <1>1, <1>2, StillStates
<1>4. Returned /\ Placed /\ Agreed /\ IDsRead
  BY DEF FailureInv, DriveStates
<1>5. CASE BeginConverge
  <2>1. phase = "handle" /\ op = "idle" /\ phase' = "pass1" /\ at' = 1
    BY <1>5 DEF BeginConverge
  <2>2. \A d : ~Before(d)'
    BY <1>1, <2>1 DEF Before
  <2>3. Returned'
    BY <1>2, <1>3, <1>4, <2>1 DEF Returned
  <2>4. Placed' /\ Agreed' /\ IDsRead' /\ KnownInPhase'
    BY <2>1, <2>2 DEF Placed, Agreed, IDsRead, KnownInPhase
  <2> QED BY <1>3, <2>3, <2>4 DEF DriveStates
<1>6. CASE NextDrive
  <2>1. /\ phase \in {"pass1", "pass2"} /\ phase' = phase /\ at' = at + 1
        /\ at \in DOMAIN drives /\ Current = drives[at] /\ Current \in Known
        /\ op = "done" \/ (phase = "pass2" /\ broken[Current])
    BY <1>6, <1>2, BusyPhase DEF NextDrive, InPass, Current
  <2>2. \A d : Before(d)' => Before(d) \/ d = Current
    <3>1. ASSUME NEW i \in 1 .. at' - 1
          PROVE  i \in 1 .. at - 1 \/ i = at
      <4>1. i \in 1 .. at + 1 - 1 /\ at \in Nat
        BY <1>2, <2>1
      <4> QED BY <4>1
    <3> QED BY <1>1, <2>1, <3>1 DEF Before
  <2>3. InPlace(Current) /\ AtItsPath(Current)
    <3>1. CASE op = "done"
      BY <1>3, <3>1
    <3>2. CASE op # "done"
      BY <1>3, <1>4, <2>1, <3>2 DEF Placed, AtItsPath, HasID
    <3> QED BY <3>1, <3>2
  <2>4. Returned'
    BY <1>2, <1>3, <1>4, <2>1, <2>2, <2>3 DEF Returned
  <2>5. Placed'
    BY <1>2, <1>3, <1>4, <2>1, <2>2, <2>3 DEF Placed
  <2>6. Agreed'
    BY <1>1, <1>2, <1>3, <1>4, <2>1 DEF Agreed, Still
  <2>7. IDsRead' /\ KnownInPhase'
    BY <2>1 DEF IDsRead, KnownInPhase
  <2> QED BY <1>3, <2>4, <2>5, <2>6, <2>7 DEF DriveStates
<1>7. CASE EndPass1 \/ BeginPass2
  <2>1. /\ at > Len(drives) /\ at' = 1
        /\ \/ phase = "pass1" /\ phase' = "scan"
           \/ phase = "assign" /\ phase' = "pass2"
    BY <1>7 DEF EndPass1, BeginPass2
  <2>2. op = "idle"
    BY <2>1, <1>2, BusyPhase DEF InPass
  <2>3. \A d : ~Before(d)'
    BY <1>1, <2>1 DEF Before
  <2>4. \A d \in Known : Before(d)
    BY <1>2, <2>1 DEF Before, Known, ToSet
  <2>5. Returned' /\ IDsRead' /\ KnownInPhase'
    BY <2>1, <2>3 DEF Returned, IDsRead, KnownInPhase
  <2>6. Placed'
    BY <1>2, <1>3, <1>4, <2>1, <2>2, <2>4 DEF Placed
  <2>7. Agreed'
    BY <1>1, <1>2, <1>3, <1>4, <2>1 DEF Agreed, Still
  <2> QED BY <1>3, <2>5, <2>6, <2>7 DEF DriveStates
<1>8. CASE EndConverge
  <2>1. at > Len(drives) /\ phase = "pass2" /\ phase' = "wait"
    BY <1>8 DEF EndConverge
  <2>2. op = "idle"
    BY <2>1, <1>2, BusyPhase DEF InPass
  <2>3. \A d \in Known : Before(d)
    BY <1>2, <2>1 DEF Before, Known, ToSet
  <2>4. Returned'
    BY <1>2, <1>3, <1>4, <2>1, <2>2, <2>3 DEF Returned
  <2>5. Placed'
    BY <1>1, <1>2, <1>3, <1>4, <2>1, <2>2 DEF Placed, Still
  <2>6. Agreed' /\ IDsRead' /\ KnownInPhase'
    BY <2>1 DEF Agreed, IDsRead, KnownInPhase
  <2> QED BY <1>3, <2>4, <2>5, <2>6 DEF DriveStates
<1> QED BY <1>5, <1>6, <1>7, <1>8

(* One drive of the scan: a broken drive is skipped, any other one's id is  *)
(* read; another drive's assignment changes only to a duplicate.            *)
LEMMA ScanEffect ==
  ASSUME Calm, FailureInv, Scan, NEW d, d = drives[at]
  PROVE  /\ UNCHANGED <<mounts, swiftID, propagation, mountPath, broken, phase, drives, batch, op>>
         /\ phase = "scan" /\ at \in 1 .. Len(drives) /\ at' = at + 1 /\ op = "idle" /\ d \in Known
         /\ taken \subseteq taken' /\ scanned \subseteq scanned'
         /\ broken[d] => UNCHANGED assignment
         /\ ~broken[d] =>
              /\ d \in scanned' /\ (swiftID[d] \in IDs => <<swiftID[d], 0>> \in taken')
              /\ assignment'[d].error = "pending" => swiftID[d] = NoID
         /\ \A e \in Known : e # d =>
              \/ assignment'[e] = assignment[e]
              \/ ~broken[e] /\ assignment'[e].error = "duplicate"
<1>1. /\ phase = "scan" /\ at \in 1 .. Len(drives) /\ at' = at + 1
      /\ ScanDrive(d, HasBrokenDrives) /\ UNCHANGED <<drives, mountPath>>
  BY FailureTypes, ScanReads
<1>2. /\ op = "idle" /\ d \in Known /\ InPlace(d)
      /\ ~broken[d] => /\ mountPath[d] # NoPath /\ CanAccess(mountPath[d])
                       /\ ReadSwiftID(mountPath[d]) = swiftID[d]
  BY <1>1, FailureTypes, LoopedInPlace
<1>3. UNCHANGED <<mounts, swiftID, propagation, broken, phase, batch, op>>
  BY <1>1 DEF Scan, ScanDrive, disks, flags, job
<1>4. /\ Known \subseteq Drives /\ assignment \in [Drives -> Assignments] /\ d \in Drives
      /\ Spare \notin IDs /\ NoID \notin IDs
  BY <1>2, FailureTypes, HostAssumption
<1>5. CASE broken[d]
  <2>1. mountPath[d] = NoPath
    BY <1>2, <1>5 DEF InPlace, Away
  <2>2. SkipDrive(d)
    BY <1>1, <2>1 DEF ScanDrive, FindUnassigned, FindSpare, FindID, ReadWorks
  <2> QED BY <1>1, <1>2, <1>3, <1>5, <2>2 DEF SkipDrive
<1>6. CASE ~broken[d]
  <2>1. ~SkipDrive(d) /\ ReadWorks(d)
    BY <1>1, <1>2, <1>6
       DEF SkipDrive, ScanDrive, FindUnassigned, FindSpare, FindID, Fails, Fault, Calm
  <2>2. scanned' = scanned \cup {d}
    BY <2>1 DEF ReadWorks
  <2>3. CASE FindUnassigned(d, HasBrokenDrives)
    <3>1. /\ swiftID[d] = NoID /\ UNCHANGED taken
          /\ \A e \in Drives : e # d => assignment'[e] = assignment[e]
      BY <1>2, <1>4, <1>6, <2>3 DEF FindUnassigned, Apply
    <3> QED BY <1>1, <1>2, <1>3, <1>4, <1>6, <2>2, <3>1
  <2>4. CASE FindSpare(d)
    <3>1. /\ swiftID[d] = Spare /\ taken \subseteq taken'
          /\ assignment'[d] = Assigned(Spare)
          /\ \A e \in Drives : e # d => assignment'[e] = assignment[e]
      BY <1>2, <1>4, <1>6, <2>4 DEF FindSpare, Apply, Claim
    <3>2. assignment'[d].error # "pending"
      BY <3>1 DEF Assigned
    <3> QED BY <1>1, <1>2, <1>3, <1>4, <1>6, <2>2, <3>1, <3>2
  <2>5. CASE FindID(d)
    <3>1. PICK id \in IDs :
            /\ ReadSwiftID(mountPath[d]) = id /\ Claim(<<id, 0>>)
            /\ IF Collides(id)
               THEN assignment' = [assignment EXCEPT ![d] = Invalid(id, "duplicate"),
                                     ![drivesBySwiftID[id]] = Invalid(id, "duplicate")]
               ELSE Apply(d, IF Mismatch(d, id) THEN Invalid(id, "mismatch") ELSE Assigned(id))
      BY <2>5 DEF FindID
    <3>2. swiftID[d] = id /\ taken' = taken \cup {<<id, 0>>}
      BY <1>2, <1>6, <3>1 DEF Claim
    <3>3. CASE Collides(id)
      <4> DEFINE f == drivesBySwiftID[id]
      <4>1. f \in scanned
        BY <1>1, <3>3 DEF FailureInv, ScanInv, FirstNoted, Collides
      <4>2. mountPath[f] # NoPath
        BY <1>1, <4>1 DEF FailureInv, ScanInv, ScannedMounted
      <4>3. f \in Known => ~broken[f]
        BY <1>1, <1>2, <4>2 DEF FailureInv, DriveStates, Placed, WorksOn, InPlace, Away
      <4>4. assignment' = [assignment EXCEPT ![d] = Invalid(id, "duplicate"),
                                             ![f] = Invalid(id, "duplicate")]
        BY <3>1, <3>3
      <4> HIDE DEF f
      <4>5. /\ assignment'[d] = Invalid(id, "duplicate")
            /\ f \in Drives => assignment'[f] = Invalid(id, "duplicate")
            /\ \A e \in Drives : e # d /\ e # f => assignment'[e] = assignment[e]
        BY <1>4, <4>4
      <4>6. Invalid(id, "duplicate").error = "duplicate"
        BY DEF Invalid
      <4> QED BY <1>1, <1>2, <1>3, <1>4, <1>6, <2>2, <3>2, <4>3, <4>5, <4>6
    <3>4. CASE ~Collides(id)
      <4>1. /\ assignment'[d] \in {Invalid(id, "mismatch"), Assigned(id)}
            /\ \A e \in Drives : e # d => assignment'[e] = assignment[e]
        BY <1>4, <3>1, <3>4 DEF Apply
      <4>2. assignment'[d].error # "pending"
        BY <4>1 DEF Invalid, Assigned
      <4> QED BY <1>1, <1>2, <1>3, <1>4, <1>6, <2>2, <3>2, <4>1, <4>2
    <3> QED BY <3>3, <3>4
  <2> QED BY <1>1, <2>1, <2>3, <2>4, <2>5 DEF ScanDrive
<1> QED BY <1>5, <1>6

LEMMA ScanStates ==
  ASSUME Calm, FailureInv, Scan
  PROVE  DriveStates'
<1>1. PICK d : d = drives[at]
  OBVIOUS
<1>2. /\ UNCHANGED <<mounts, swiftID, propagation, mountPath, broken, phase, drives, batch, op>>
      /\ phase = "scan" /\ at \in 1 .. Len(drives) /\ at' = at + 1 /\ op = "idle" /\ d \in Known
      /\ taken \subseteq taken' /\ scanned \subseteq scanned'
      /\ broken[d] => UNCHANGED assignment
      /\ ~broken[d] =>
           /\ d \in scanned' /\ (swiftID[d] \in IDs => <<swiftID[d], 0>> \in taken')
           /\ assignment'[d].error = "pending" => swiftID[d] = NoID
      /\ \A e \in Known : e # d =>
           \/ assignment'[e] = assignment[e]
           \/ ~broken[e] /\ assignment'[e].error = "duplicate"
  BY <1>1, ScanEffect
<1>3. Known' = Known /\ \A e : ~WorksOn(e) /\ (~WorksOn(e))'
  BY <1>2 DEF Known, WorksOn
<1>4. \A e : /\ (InPlace(e)' <=> InPlace(e)) /\ \A s : PathsOf(e, s)' = PathsOf(e, s)
  BY <1>2 DEF InPlace, AtHome, Away, PathsOf
<1>5. Remembered /\ Placed /\ BrokenUnassigned /\ Withdrawn /\ IDsRead
  BY DEF FailureInv, DriveStates
<1>6. Remembered'
  BY <1>2, <1>3, <1>4, <1>5 DEF Remembered
<1>7. Placed'
  BY <1>2, <1>3, <1>4, <1>5 DEF Placed
<1>8. BrokenUnassigned'
  BY <1>2, <1>3, <1>5 DEF BrokenUnassigned
<1>9. Withdrawn'
  BY <1>2, <1>3, <1>4, <1>5 DEF Withdrawn
<1>10. Returned' /\ Agreed' /\ JobInv' /\ KnownInPhase'
  BY <1>2 DEF Returned, Agreed, JobInv, KnownInPhase
<1>11. IDsRead'
  <2>1. ASSUME NEW e \in Known, Before(e)', e # d
        PROVE  Before(e)
    <3>1. PICK i \in 1 .. at' - 1 : i \in DOMAIN drives /\ drives[i] = e
      BY <1>2, <2>1 DEF Before
    <3>2. i # at
      BY <1>1, <2>1, <3>1
    <3>3. i \in 1 .. at + 1 - 1 /\ at \in Nat
      BY <1>2, <3>1, FailureTypes
    <3>4. i \in 1 .. at - 1
      BY <3>2, <3>3
    <3> QED BY <3>1, <3>4 DEF Before
  <2>2. ASSUME NEW e \in Known, ~broken[e], Before(e)'
        PROVE  /\ e \in scanned' /\ (swiftID[e] \in IDs => <<swiftID[e], 0>> \in taken')
               /\ assignment'[e].error = "pending" => swiftID[e] = NoID
    <3>1. CASE e = d
      BY <1>2, <2>2, <3>1
    <3>2. CASE e # d
      <4>1. /\ e \in scanned /\ (swiftID[e] \in IDs => <<swiftID[e], 0>> \in taken)
            /\ assignment[e].error = "pending" => swiftID[e] = NoID
        BY <1>2, <1>5, <2>1, <2>2, <3>2 DEF IDsRead
      <4> QED BY <1>2, <3>2, <4>1
    <3> QED BY <3>1, <3>2
  <2> QED BY <1>2, <1>3, <2>2 DEF IDsRead
<1> QED BY <1>6, <1>7, <1>8, <1>9, <1>10, <1>11 DEF DriveStates

(* After the scan, who is assigned to an id is the only one that has it.    *)
LEMMA EndScanStates ==
  ASSUME Calm, FailureInv, EndScan
  PROVE  DriveStates'
<1>1. /\ phase = "scan" /\ phase' \in {"assign", "pass2"} /\ at > Len(drives) /\ at' = 1
      /\ UNCHANGED <<scanned, taken, drives, op>> /\ Still
  BY DEF EndScan, Still, assignVars, hostVars, disks, flags, deviceVars, driveVars, fields, job
<1>2. op = "idle" /\ Known' = Known
  BY <1>1, BusyPhase DEF Known
<1>3. /\ Remembered' /\ BrokenUnassigned' /\ Withdrawn' /\ JobInv'
      /\ \A d \in Known : (InPlace(d)' <=> InPlace(d)) /\ (HasID(d)' <=> HasID(d))
  BY <1>1, <1>2, StillStates
<1>4. \A d \in Known : Before(d) /\ ~WorksOn(d) /\ InPlace(d)
  BY <1>1, <1>2, FailureTypes
     DEF Before, Known, ToSet, WorksOn, FailureInv, DriveStates, Placed
<1>5. \A d : ~Before(d)'
  BY <1>1 DEF Before
<1>6. Returned' /\ KnownInPhase'
  <2>1. phase' = "assign" => \A d \in Known : ~broken[d]
    BY DEF EndScan, CanAutoAssign, HasBrokenDrives
  <2> QED BY <1>1, <1>2, <1>5, <2>1 DEF Returned, KnownInPhase, Still
<1>7. Placed'
  BY <1>2, <1>3, <1>4 DEF Placed, EndScan
<1>8. \A d \in Known : ~broken[d] =>
        /\ d \in scanned /\ (swiftID[d] \in IDs => <<swiftID[d], 0>> \in taken)
        /\ assignment[d].error = "pending" => swiftID[d] = NoID
  BY <1>1, <1>4 DEF FailureInv, DriveStates, IDsRead
<1>9. IDsRead'
  BY <1>1, <1>2, <1>8 DEF IDsRead, Still
<1>10. ASSUME NEW d \in Known, ~broken[d]
       PROVE  Reads(d) = swiftID[d]
  <2>1. mountPath[d] \in PathsOf(d, "local") /\ d \in Drives
    BY <1>4, <1>10, FailureTypes DEF InPlace, AtHome, Scopes
  <2> QED BY <2>1, SeesItsFiles DEF Reads
<1>11. ASSUME NEW d \in Known, HasID(d)
       PROVE  /\ swiftID[d] = assignment[d].id
              /\ \A e \in Known : ~broken[e] /\ swiftID[e] = swiftID[d] => e = d
  <2>1. d \in scanned /\ ~broken[d] /\ assignment[d] = Decided(d, scanned)
    BY <1>1, <1>8, <1>11 DEF HasID, FailureInv, ScanInv, DecidedSoFar
  <2>2. assignment[d].error = "none" /\ assignment[d].id # Spare
    BY <1>11 DEF HasID, Valid
  <2>3. assignment[d].id = Reads(d) /\ {e \in scanned : Reads(e) = Reads(d)} = {d}
    BY <2>1, <2>2 DEF Decided, Assigned, Invalid
  <2> QED BY <1>8, <1>10, <2>1, <2>3
<1>12. Agreed'
  BY <1>1, <1>2, <1>3, <1>11 DEF Agreed, Still
<1> QED BY <1>3, <1>6, <1>7, <1>9, <1>12 DEF DriveStates

(* A new id is given to one drive only.                                     *)
LEMMA AssignStates ==
  ASSUME Calm, FailureInv, Assign
  PROVE  DriveStates'
<1>1. PICK d : d = drives[at]
  OBVIOUS
<1>2. /\ phase = "assign" /\ at <= Len(drives)
      /\ UNCHANGED <<phase, drives, batch, op, mounts, propagation, mountPath, broken>>
  BY DEF Assign, AssignDrive, flags, job
<1>3. /\ op = "idle" /\ d \in Known /\ Known' = Known /\ d \in Drives /\ Known \subseteq Drives
      /\ \A e : ~WorksOn(e) /\ (~WorksOn(e))'
  BY <1>1, <1>2, LoopedInPlace, FailureTypes DEF Known, WorksOn
<1>4. \A e : /\ (InPlace(e)' <=> InPlace(e)) /\ \A s : PathsOf(e, s)' = PathsOf(e, s)
  BY <1>2 DEF InPlace, AtHome, Away, PathsOf
<1>5. Remembered /\ Placed /\ BrokenUnassigned /\ Withdrawn /\ IDsRead /\ Agreed
  BY DEF FailureInv, DriveStates
<1>6. Remembered' /\ Placed' /\ Withdrawn'
  BY <1>2, <1>3, <1>4, <1>5 DEF Remembered, Placed, Withdrawn
<1>7. Returned' /\ JobInv' /\ KnownInPhase'
  BY <1>2, <1>3 DEF Returned, JobInv, KnownInPhase, FailureInv, DriveStates
<1>8. \A e \in Known : ~broken[e] =>
        /\ e \in scanned /\ (swiftID[e] \in IDs => <<swiftID[e], 0>> \in taken)
        /\ assignment[e].error = "pending" => swiftID[e] = NoID
  BY <1>2, <1>5 DEF IDsRead
<1>9. CASE UNCHANGED <<swiftID, stray, assignment, taken, scanned>>
  <2>1. BrokenUnassigned' /\ IDsRead' /\ Agreed'
    BY <1>2, <1>3, <1>5, <1>8, <1>9 DEF BrokenUnassigned, IDsRead, Agreed, HasID, Valid
  <2> QED BY <1>6, <1>7, <2>1 DEF DriveStates
<1>10. ASSUME NEW k \in DOMAIN Pool, GivesID(d, k), ~broken[d], swiftID[d] = NoID
       PROVE  DriveStates'
  <2> DEFINE new == Pool[k]
  <2>1. /\ swiftID' = [swiftID EXCEPT ![d] = new] /\ taken' = taken \cup {PoolName(k)}
        /\ scanned' = scanned \cup {d}
        /\ assignment' = [assignment EXCEPT ![d] = Assigned(new)] /\ PoolName(k) \notin taken
    BY <1>10 DEF GivesID, FirstFree, Free
  <2>0. new \in IDs \cup {Spare}
    BY PoolAssumption, ElementOfSeq, LenProperties
  <2>2. /\ new \in IDs => PoolName(k) = <<new, 0>> /\ new # Spare
    BY HostAssumption DEF PoolName
  <2> HIDE DEF new
  <2>3. /\ swiftID'[d] = new /\ assignment'[d] = Assigned(new)
        /\ \A e \in Known : e # d => swiftID'[e] = swiftID[e] /\ assignment'[e] = assignment[e]
    BY <1>3, <2>1, FailureTypes
  <2>4. Assigned(new).id = new /\ Assigned(new).error = "none"
    BY DEF Assigned
  <2>5. BrokenUnassigned'
    BY <1>2, <1>3, <1>5, <1>10, <2>3 DEF BrokenUnassigned
  <2>6. IDsRead'
    BY <1>2, <1>3, <1>8, <2>1, <2>2, <2>3, <2>4 DEF IDsRead
  <2>7. \A e \in Known : ~broken[e] /\ swiftID[e] = new => new \notin IDs
    BY <1>8, <2>1, <2>2
  <2>8. ASSUME NEW x \in Known, HasID(x)'
        PROVE  /\ swiftID'[x] = assignment'[x].id
               /\ \A e \in Known : ~broken[e] /\ swiftID'[e] = swiftID'[x] => e = x
    <3>1. CASE x = d
      <4>1. new # Spare
        BY <2>3, <2>4, <2>8, <3>1 DEF HasID, Valid
      <4>2. new \in IDs
        BY <4>1, <2>0
      <4> QED BY <2>3, <2>4, <2>7, <3>1, <4>2
    <3>2. CASE x # d
      <4>1. HasID(x)
        BY <1>2, <2>3, <2>8, <3>2 DEF HasID, Valid
      <4>2. /\ swiftID[x] = assignment[x].id /\ ~broken[x]
            /\ \A e \in Known : ~broken[e] /\ swiftID[e] = swiftID[x] => e = x
        BY <1>2, <1>5, <4>1 DEF Agreed, HasID
      <4>3. swiftID[x] \in IDs
        BY <1>3, <4>1, <4>2, FailureTypes DEF HasID
      <4>4. swiftID[x] # new
        BY <2>7, <4>2, <4>3
      <4> QED BY <2>3, <3>2, <4>2, <4>4
    <3> QED BY <3>1, <3>2
  <2>9. Agreed'
    BY <1>2, <1>3, <2>8 DEF Agreed
  <2> QED BY <1>6, <1>7, <2>5, <2>6, <2>9 DEF DriveStates
<1> QED BY <1>1, <1>9, <1>10, AssignEffect

(* The rest: what the world around the converger does.                      *)
LEMMA StillFrame ==
  ASSUME FailureInv, Still, UNCHANGED <<ctlVars, job, scanned, taken>>
  PROVE  DriveStates'
<1>1. DriveStates /\ Current' = Current /\ Known' = Known
  BY DEF FailureInv, Current, ctlVars, Known
<1>2. /\ \A d : \A s : PathsOf(d, s)' = PathsOf(d, s)
      /\ \A d : (WorksOn(d)' <=> WorksOn(d)) /\ (Before(d)' <=> Before(d))
      /\ \A d : (HasID(d)' <=> HasID(d)) /\ (AtHome(d)' <=> AtHome(d)) /\ (Away(d)' <=> Away(d))
      /\ \A d : (InPlace(d)' <=> InPlace(d)) /\ (AtItsPath(d)' <=> AtItsPath(d))
  BY <1>1 DEF PathsOf, WorksOn, Before, HasID, Valid, AtHome, Away, InPlace, AtItsPath, Still,
     ctlVars, job
<1>3. Remembered' /\ Returned' /\ Placed' /\ BrokenUnassigned' /\ Withdrawn' /\ KnownInPhase'
  BY <1>1, <1>2 DEF DriveStates, Remembered, Returned, Placed, BrokenUnassigned, Withdrawn,
     KnownInPhase, Still, ctlVars, job
<1>4. Agreed' /\ IDsRead'
  BY <1>1, <1>2 DEF DriveStates, Agreed, IDsRead, Still, ctlVars
<1>5. JobInv'
  <2>1. SUFFICES ASSUME op # "idle" PROVE Job(Current)'
    BY <1>1 DEF JobInv, DriveStates, job
  <2>2. PICK d : d = Current
    OBVIOUS
  <2>3. Job(d)
    BY <1>1, <2>1, <2>2 DEF JobInv, DriveStates
  <2>4. Aimed(d)' <=> Aimed(d)
    BY <1>2 DEF Aimed, Still, job, HasID, Valid
  <2>5. Job(d)'
    BY <1>2, <2>3, <2>4 DEF Job, Still, job, ctlVars
  <2> QED BY <1>1, <2>2, <2>5 DEF Job, Aimed, HasID, Valid, AtHome, Away, InPlace, AtItsPath, PathsOf
<1> QED BY <1>3, <1>4, <1>5 DEF DriveStates

LEMMA WorldStates ==
  ASSUME Calm, FailureInv, [Next]_vars, CalmUpset \/ End \/ Outside \/ NoStep
  PROVE  DriveStates'
<1> DEFINE Apart == CalmUpset /\ (Plug \/ DeleteFlag \/ CreateDurableFlag)
<1>1. CASE CollectorStep \/ LogError \/ NoStep \/ Apart
  <2>1. Still /\ UNCHANGED <<ctlVars, job, scanned, taken>>
    BY <1>1 DEF CollectorStep, LogError, NoStep, Still, vars, hostVars, disks, flags, deviceVars,
       driveVars, fields, assignVars, CalmUpset, Plug, DeleteFlag, CreateDurableFlag
  <2> QED BY <2>1, StillFrame
<1>2. CASE Restart
  <2>1. phase = "dead" /\ phase' = "wait" /\ Still /\ UNCHANGED <<job, drives>>
    BY <1>2 DEF Restart, Still, hostVars, disks, flags, deviceVars, driveVars, fields
  <2>2. op = "idle" /\ op' = "idle" /\ Known = {} /\ Known' = {}
    BY <2>1, BusyPhase DEF job, Known, FailureInv, DriveStates, KnownInPhase
  <2>3. Remembered' /\ BrokenUnassigned' /\ Withdrawn' /\ JobInv'
    BY <2>1, <2>2, StillStates
  <2> QED BY <2>1, <2>2, <2>3
          DEF DriveStates, Returned, Placed, Agreed, IDsRead, KnownInPhase
<1>3. CASE CalmUpset /\ ~Apart
  <2>1. /\ phase \in {"wait", "dead"} /\ UNCHANGED <<phase, drives, op, mountPath, broken, assignment>>
        /\ UNCHANGED propagation
    BY <1>3 DEF CalmUpset, ctlVars, deviceVars, driveVars, fields, job, EditSwiftID, ExternalUmount,
       ExternalClose, RemountReadonly, flags
  <2>2. op = "idle" /\ Known' = Known
    BY <2>1, BusyPhase DEF Known
  <2>3. \A e : \A t \in Scopes : PathsOf(e, t)' \subseteq PathsOf(e, t)
    <3>1. HostTypeOK /\ Tidy
      BY FailureTypes DEF FailureInv, MountInv
    <3>2. CASE ExternalUmount
      <4>1. PICK s \in Scopes, p \in Paths : KernelUmount(p, s)
        BY <3>2 DEF ExternalUmount
      <4>2. \A e : \A t \in Scopes :
              PathsOf(e, t)' = PathsOf(e, t) \ (IF t \in Affected(s) THEN {p} ELSE {})
        BY <3>1, <4>1, KernelUmountEffect
      <4> QED BY <4>2
    <3>3. CASE RemountReadonly
      <4>1. \A e : \A t \in Scopes : PathsOf(e, t)' = PathsOf(e, t)
        BY <3>1, <3>3, ReadonlyEffect
      <4> QED BY <4>1
    <3>4. CASE ~ExternalUmount /\ ~RemountReadonly
      <4>1. UNCHANGED mounts
        BY <1>3, <3>4 DEF CalmUpset, EditSwiftID, ExternalClose
      <4> QED BY <4>1 DEF PathsOf
    <3> QED BY <3>2, <3>3, <3>4
  <2>4. Remembered /\ Returned /\ Placed /\ BrokenUnassigned /\ Withdrawn /\ KnownInPhase
    BY DEF FailureInv, DriveStates
  <2>5. Remembered'
    BY <2>1, <2>2, <2>3, <2>4 DEF Remembered, WorksOn
  <2>6. Returned' /\ BrokenUnassigned' /\ KnownInPhase'
    BY <2>1, <2>2, <2>4
       DEF Returned, WorksOn, AtItsPath, HasID, Valid, BrokenUnassigned, KnownInPhase
  <2>7. Placed'
    <3>1. \A e \in Known : phase = "wait" /\ broken[e] => Away(e)'
      BY <2>1, <2>3, <2>4 DEF Placed, Away
    <3> QED BY <2>1, <2>2, <3>1 DEF Placed
  <2>8. Withdrawn'
    BY <2>1, <2>2, <2>3, <2>4 DEF Withdrawn, WorksOn
  <2>9. Agreed' /\ IDsRead' /\ JobInv'
    BY <2>1, <2>2 DEF Agreed, IDsRead, JobInv
  <2> QED BY <2>4, <2>5, <2>6, <2>7, <2>8, <2>9 DEF DriveStates
<1>4. CASE End
  <2>1. /\ phase' = "dead" /\ op' = "idle" /\ Known' = {}
    BY <1>4 DEF End, ProcessEnds, DriveReset, Known, ToSet
  <2> QED BY <2>1 DEF DriveStates, Remembered, Returned, Placed, BrokenUnassigned, Agreed,
          IDsRead, Withdrawn, JobInv, KnownInPhase
<1> QED BY <1>1, <1>2, <1>3, <1>4 DEF Outside

-----------------------------------------------------------------------------
(* The invariant holds.                                                     *)
LEMMA FailureStart == Calm /\ Init => FailureInv
<1> SUFFICES ASSUME Calm, Init PROVE FailureInv
  OBVIOUS
<1>1. ListInv
  BY ListInit
<1>2. /\ unreadable = {} /\ open = {} /\ mounts = [s \in Scopes |-> <<>>] /\ propagation = {}
      /\ swiftID \in [Drives -> SwiftIDs] /\ \A d \in Drives : content[d] = "blank" => swiftID[d] = NoID
      /\ inside = [d \in Drives |-> IF content[d] = "luks" THEN "xfs" ELSE "blank"]
      /\ mappings = {} /\ durable = {} /\ brokenDevices = {} /\ held = <<>>
      /\ op = "idle" /\ phase = "wait" /\ drives = <<>> /\ batch = NoEvent
      /\ knownDrives = {} /\ outbox = <<>> /\ queue = <<>>
  BY DEF Init, HostInit, DriveInit, LuksInit, CollectorsInit
<1>3. Known = {} /\ AddedNow = {} /\ NoEvent.kind = "wakeup"
  BY <1>2 DEF Known, ToSet, AddedNow, NoEvent, Event
<1>4. \A s \in Scopes : mounts[s] = <<>>
  BY <1>2
<1>5. \A d : \A s \in Scopes : PathsOf(d, s) = {}
  BY <1>4 DEF PathsOf, PathsIn
<1>6. ScanInv
  BY <1>2 DEF ScanInv
<1>7. LuksInv
  <2>1. Contained
    BY <1>2, <1>3 DEF Contained
  <2>2. Classified /\ Opened /\ LuksJob
    BY <1>2, <1>3 DEF Classified, Opened, LuksJob
  <2>3. Retaken
    BY <1>2, <1>3 DEF Retaken, NoneReinstated
  <2> QED BY <2>1, <2>2, <2>3 DEF LuksInv
<1>8. MountInv
  <2>1. BlankUnnamed
    BY <1>2 DEF BlankUnnamed, Filesystem, Encrypted
  <2> QED BY <1>2, <1>4, <1>5, <2>1
     DEF MountInv, MarkedPlugged, Marked, Tidy, OneEach, RightPaths, OneOwner, OnePath, CacheCurrent, Scopes
<1>9. OnlyAdditions
  BY <1>2, <1>3 DEF OnlyAdditions, Harmless, HarmlessIn
<1>10. AllReported
  <2>1. Coming = <<>>
    BY <1>2 DEF Coming
  <2>2. DOMAIN Coming = {}
    BY <2>1
  <2>3. Report(Coming, There)
    BY <2>2, Zenon DEF Report
  <2> QED BY <1>2, <1>3, <2>3 DEF AllReported
<1>11. DriveStates
  BY <1>2, <1>3 DEF DriveStates, Remembered, Returned, Placed, BrokenUnassigned, Agreed, IDsRead,
     Withdrawn, JobInv, KnownInPhase
<1> QED BY <1>1, <1>6, <1>7, <1>8, <1>9, <1>10, <1>11 DEF FailureInv

LEMMA FailureStep == Calm /\ FailureInv /\ [Next]_vars => FailureInv'
<1> SUFFICES ASSUME Calm, FailureInv, [Next]_vars PROVE FailureInv'
  OBVIOUS
<1>1. ListInv'
  BY ListStep DEF FailureInv
<1>2. ScanInv'
  BY ScanDecides, OthersDecide, FailureTypes DEF FailureInv, Calm
<1>3. DriveStates'
  <2>1. CASE Busy
    BY <2>1, BusyStates
  <2>2. CASE Handler
    BY <1>1, <2>2, EventStates, NewStates, ErrorStates DEF Handler
  <2>3. CASE Loop
    BY <2>3, LoopStates, ScanStates, EndScanStates, AssignStates DEF Loop
  <2>4. CASE CalmUpset \/ End \/ Outside \/ NoStep
    BY <2>4, WorldStates
  <2> QED BY <2>1, <2>2, <2>3, <2>4, CalmSteps
<1> QED BY <1>1, <1>2, <1>3, LuksInvStep, MountInvStep, OnlyAdditionsStep, AllReportedStep
        DEF FailureInv

LEMMA FailureInvariant == ASSUME Calm PROVE Spec => []FailureInv
BY FailureStart, FailureStep, PTL DEF Spec

-----------------------------------------------------------------------------
(* What the invariant says of the machine.                                  *)
LEMMA MountedPaths ==
  /\ \A d, p : MountedAt(d, p) <=> \E s \in Scopes : p \in PathsOf(d, s)
  /\ \A d : IsMounted(d) <=> \E s \in Scopes : PathsOf(d, s) # {}
  /\ \A m \in Entries : \E s \in Scopes : m.path \in PathsOf(m.dev, s)
  /\ HostTypeOK => \A m \in Entries : m \in MountPoint /\ m.dev \in Drives
<1>1. \A m \in Entries : \E s \in Scopes : \E i \in DOMAIN mounts[s] : m = mounts[s][i]
  BY DEF Entries
<1>2. \A s \in Scopes : \A i \in DOMAIN mounts[s] :
        mounts[s][i] \in Entries /\ mounts[s][i].path \in PathsOf(mounts[s][i].dev, s)
  BY DEF Entries, PathsOf, PathsIn
<1>3. \A m \in Entries : \E s \in Scopes : m.path \in PathsOf(m.dev, s)
  BY <1>1, <1>2
<1>4. \A d : \A s : \A p \in PathsOf(d, s) : \E i \in DOMAIN mounts[s] :
        mounts[s][i].dev = d /\ mounts[s][i].path = p
  BY DEF PathsOf, PathsIn
<1>5. \A d, p : MountedAt(d, p) <=> \E s \in Scopes : p \in PathsOf(d, s)
  BY <1>1, <1>2, <1>3, <1>4 DEF MountedAt
<1>6. \A d : IsMounted(d) <=> \E s \in Scopes : PathsOf(d, s) # {}
  BY <1>2, <1>4 DEF IsMounted
<1>7. HostTypeOK => \A m \in Entries : m \in MountPoint /\ m.dev \in Drives
  BY <1>1, PathsType, EntryType
<1> QED BY <1>3, <1>5, <1>6, <1>7

(* Whatever fails and whatever operators do (Calm says what they do not):   *)
(* no drive is ever mounted over another one.                               *)
THEOREM NeverOvermounts == ASSUME Calm PROVE Spec => []NoOvermount
<1>1. FailureInv => NoOvermount
  BY DEF FailureInv, MountInv, Tidy, OneEach, NoOvermount
<1> QED BY <1>1, FailureInvariant, PTL

(* A drive below /srv/node/$id carries that swift-id, at every moment.      *)
THEOREM OwnIDServed == ASSUME Calm PROVE Spec => []ServesOwnID
<1>1. ASSUME FailureInv PROVE ServesOwnID
  <2>1. ASSUME NEW m \in Entries, m.path \in SrvPaths
        PROVE  m.path = Srv(swiftID[m.dev])
    <3>1. PICK s \in Scopes : m.path \in PathsOf(m.dev, s)
      BY <2>1, MountedPaths
    <3>2. m.dev \in Drives
      BY <1>1, <2>1, FailureTypes, MountedPaths
    <3>3. m.path \in {Run(m.dev), Srv(swiftID[m.dev])}
      BY <1>1, <3>1, <3>2 DEF FailureInv, MountInv, RightPaths
    <3> QED BY <2>1, <3>3, PathFacts
  <2> QED BY <2>1 DEF ServesOwnID
<1> QED BY <1>1, FailureInvariant, PTL

(* Between two iterations no broken drive is mounted.                       *)
THEOREM BrokenTakenDown == ASSUME Calm PROVE Spec => []BrokenUnmounted
<1>1. FailureInv => BrokenUnmounted
  BY MountedPaths DEF FailureInv, DriveStates, Placed, Away, BrokenUnmounted, AtRest
<1> QED BY <1>1, FailureInvariant, PTL

(* Between two iterations, without a chroot, no drive is mounted where      *)
(* other containers are told to unmount.                                    *)
THEOREM PropagationFlagsCleared == ASSUME Calm, ~Chroot PROVE Spec => []PropagationCleared
<1>1. ASSUME FailureInv PROVE PropagationCleared
  <2>1. ASSUME phase = "wait", NEW id \in propagation, NEW d \in Known
        PROVE  ~MountedAt(d, Srv(id))
    <3>1. ~WorksOn(d) /\ d \in Drives
      BY <1>1, <2>1, BusyPhase, FailureTypes DEF WorksOn
    <3>2. \A s \in Scopes : Srv(id) \notin PathsOf(d, s)
      BY <1>1, <2>1, <3>1 DEF FailureInv, DriveStates, Withdrawn
    <3> QED BY <3>2, MountedPaths
  <2> QED BY <2>1 DEF PropagationCleared, AtRest
<1> QED BY <1>1, FailureInvariant, PTL

(* The audit: at the end of an iteration, every drive has an entry of its   *)
(* own, and the healthy ones are mounted just there.                        *)
LEMMA AuditEntries ==
  ASSUME FailureInv, AtEndOfPass2
  PROVE  /\ \A d \in Known : InPlace(d) /\ MountPath(d) = IF broken[d] THEN Run(d) ELSE mountPath[d]
         /\ \A d, e \in Known : MountPath(d) = MountPath(e) => d = e
         /\ \A d \in Known : \A p : MountedAt(d, p) <=> ~broken[d] /\ p = MountPath(d)
         /\ \A i \in DOMAIN drives : LastCounts(MountPath(drives[i])) = i
<1>1. /\ phase = "pass2" /\ at > Len(drives) /\ op = "idle" /\ Known \subseteq Drives
      /\ DOMAIN drives = 1 .. Len(drives) /\ IsInjective(drives)
  BY FailureTypes, BusyPhase DEF AtEndOfPass2, InPass
<1>2. ASSUME NEW d \in Known
      PROVE  InPlace(d) /\ AtItsPath(d)
  <2>1. ~WorksOn(d) /\ Before(d)
    BY <1>1, FailureTypes DEF WorksOn, Before, Known, ToSet
  <2> QED BY <1>1, <2>1 DEF FailureInv, DriveStates, Placed, Returned
<1>3. ASSUME NEW d \in Known
      PROVE  MountPath(d) = IF broken[d] THEN Run(d) ELSE mountPath[d]
  <2>1. CASE broken[d]
    <3>1. assignment[d] = Nil /\ mountPath[d] = NoPath
      BY <1>2, <2>1 DEF FailureInv, DriveStates, BrokenUnassigned, InPlace, Away
    <3> QED BY <2>1, <3>1 DEF MountPath, DesiredPath, Nil
  <2>2. CASE ~broken[d]
    BY <1>2, <2>2 DEF InPlace, AtHome, AtItsPath, HasID, Valid, MountPath, DesiredPath
  <2> QED BY <2>1, <2>2
<1>4. \A d \in Known : \A s \in Scopes : PathsOf(d, s) = IF broken[d] THEN {} ELSE {MountPath(d)}
  BY <1>2, <1>3 DEF InPlace, AtHome, Away
<1>5. \A d \in Known : \A p : MountedAt(d, p) <=> ~broken[d] /\ p = MountPath(d)
  BY <1>4, MountedPaths DEF Scopes
<1>6. ASSUME NEW d \in Known, NEW e \in Known, MountPath(d) = MountPath(e)
      PROVE  d = e
  <2>1. ASSUME NEW x \in Known, ~broken[x], NEW y \in Known, MountPath(x) = MountPath(y)
        PROVE  x = y
    <3>1. MountPath(x) \in PathsOf(x, "local") /\ "local" \in Scopes
      BY <1>4, <2>1 DEF Scopes
    <3>2. CASE ~broken[y]
      <4>1. MountPath(x) \in PathsOf(y, "local")
        BY <1>4, <2>1, <3>1, <3>2
      <4> QED BY <1>1, <3>1, <4>1 DEF FailureInv, MountInv, OneOwner
    <3>3. CASE broken[y]
      <4>1. MountPath(x) = Run(y) /\ MountPath(x) \in {Run(x), Srv(swiftID[x])}
        BY <1>1, <1>3, <2>1, <3>1, <3>3 DEF FailureInv, MountInv, RightPaths
      <4> QED BY <4>1, PathFacts
    <3> QED BY <3>2, <3>3
  <2>2. CASE broken[d] /\ broken[e]
    BY <1>3, <1>6, <2>2, PathFacts
  <2> QED BY <1>6, <2>1, <2>2
<1>7. ASSUME NEW i \in DOMAIN drives
      PROVE  LastCounts(MountPath(drives[i])) = i
  <2>1. {j \in DOMAIN drives : MountPath(drives[j]) = MountPath(drives[i])} = {i}
    BY <1>1, <1>6 DEF Known, ToSet, IsInjective
  <2>2. i \in Nat
    BY <1>1
  <2>3. Max({i}) = i
    BY <2>2 DEF Max
  <2> QED BY <2>1, <2>3 DEF LastCounts
<1> QED BY <1>2, <1>3, <1>5, <1>6, <1>7

(* The audit says of every drive whether it is mounted, and where; and it   *)
(* counts the broken ones right.                                            *)
THEOREM AuditTellsTruth == ASSUME Calm PROVE Spec => []AuditTruthful
<1>1. ASSUME FailureInv, AtEndOfPass2
      PROVE  /\ \A p \in DOMAIN DriveAudit :
                  DriveAudit[p] = 0 <=> \E d \in Known : MountedAt(d, p)
             /\ DriveAuditErrors = Cardinality({p \in DOMAIN DriveAudit : DriveAudit[p] = 1})
             /\ \A d \in Known : IsMounted(d) => \E p \in DOMAIN DriveAudit : MountedAt(d, p)
  <2>1. /\ \A d, e \in Known : MountPath(d) = MountPath(e) => d = e
        /\ \A d \in Known : \A p : MountedAt(d, p) <=> ~broken[d] /\ p = MountPath(d)
        /\ \A d \in Known : IsMounted(d) => ~broken[d]
        /\ \A i \in DOMAIN drives : LastCounts(MountPath(drives[i])) = i
    BY <1>1, AuditEntries, MountedPaths DEF InPlace, Away
  <2>2. /\ DOMAIN DriveAudit = {MountPath(d) : d \in Known}
        /\ \A i \in DOMAIN drives :
             DriveAudit[MountPath(drives[i])] = IF broken[drives[i]] THEN 1 ELSE 0
    <3>1. \A i \in DOMAIN drives : drives[i] \in Known
      BY DEF Known, ToSet
    <3> QED BY <2>1, <3>1 DEF DriveAudit
  <2>3. \A d \in Known : DriveAudit[MountPath(d)] = IF broken[d] THEN 1 ELSE 0
    BY <2>2 DEF Known, ToSet
  <2>4. \A p \in DOMAIN DriveAudit : DriveAudit[p] = 0 <=> \E d \in Known : MountedAt(d, p)
    BY <2>1, <2>2, <2>3
  <2>5. \A d \in Known : IsMounted(d) => \E p \in DOMAIN DriveAudit : MountedAt(d, p)
    BY <2>1, <2>2
  <2>6. DriveAuditErrors = Cardinality({p \in DOMAIN DriveAudit : DriveAudit[p] = 1})
    <3> DEFINE S == {i \in DOMAIN drives : broken[drives[i]]}
               T == {p \in DOMAIN DriveAudit : DriveAudit[p] = 1}
               f == [i \in S |-> MountPath(drives[i])]
    <3>1. IsFiniteSet(S)
      <4>1. DOMAIN drives = 1 .. Len(drives) /\ Len(drives) \in Nat
        BY <1>1, FailureTypes
      <4>2. IsFiniteSet(DOMAIN drives) /\ S \subseteq DOMAIN drives
        BY <4>1, FS_Interval
      <4> QED BY <4>2, FS_Subset
    <3>2. f \in [S -> T]
      BY <2>2 DEF Known, ToSet
    <3>3. \A i, j \in S : f[i] = f[j] => i = j
      <4>1. \A i \in S : drives[i] \in Known
        BY DEF Known, ToSet
      <4>2. IsInjective(drives)
        BY <1>1, FailureTypes
      <4> QED BY <2>1, <4>1, <4>2 DEF IsInjective
    <3>4. \A p \in T : \E i \in S : f[i] = p
      <4>1. \A p \in T : \E i \in DOMAIN drives : p = MountPath(drives[i])
        BY <2>2 DEF Known, ToSet
      <4> QED BY <2>2, <4>1
    <3>5. ExistsBijection(S, T)
      <4> HIDE DEF f, S, T
      <4>1. f \in Bijection(S, T)
        BY <3>2, <3>3, <3>4 DEF Bijection, Injection, Surjection, IsInjective
      <4> QED BY <4>1 DEF ExistsBijection
    <3> HIDE DEF S, T
    <3>6. Cardinality(T) = Cardinality(S)
      BY <3>1, <3>5, FS_Bijection
    <3> QED BY <3>6 DEF DriveAuditErrors, S, T
  <2> QED BY <2>4, <2>5, <2>6
<1>2. FailureInv => AuditTruthful
  BY <1>1 DEF AuditTruthful
<1> QED BY <1>2, FailureInvariant, PTL

-----------------------------------------------------------------------------
(* What one step may never do.                                              *)

(* Only an auto-assignment writes a swift-id, and only to a disk without    *)
(* one: formatting meets disks only that have none.                         *)
LEMMA IDSteps ==
  ASSUME Calm, FailureInv, [Next]_vars, ~Environment \/ "edit" \notin Upsets
  PROVE  \/ UNCHANGED swiftID
         \/ /\ Assign /\ drives[at] \in Known /\ ~broken[drives[at]] /\ swiftID[drives[at]] = NoID
            /\ \E k \in DOMAIN Pool : GivesID(drives[at], k)
<1>1. CASE Busy
  BY <1>1, BusyKeeps
<1>2. CASE Assign
  <2>1. phase = "assign" /\ at <= Len(drives)
    BY <1>2 DEF Assign
  <2> QED BY <1>2, <2>1, AssignEffect, LoopedInPlace
<1>3. CASE Handler \/ (Loop /\ ~Assign)
  BY <1>3 DEF Handler, Receive, HandleAdded, HandleReinstated, HandleError, HandleUnknown,
     EventHandled, Loop, BeginConverge, NextDrive, EndPass1, Scan, ScanDrive, EndScan,
     BeginPass2, EndConverge, hostVars, disks
<1>4. CASE CalmUpset
  <2>1. ~(phase \in {"wait", "dead"} /\ EditSwiftID)
    BY <1>4 DEF CalmUpset, Environment, HostUpset, EditSwiftID, Upset
  <2> QED BY <1>4, <2>1 DEF CalmUpset, ExternalUmount, ExternalClose, RemountReadonly, Plug,
          DeleteFlag, CreateDurableFlag, disks
<1>5. CASE End \/ Outside \/ NoStep
  BY <1>5 DEF End, HostReboot, Outside, CollectorStep, Restart, LogError, NoStep,
     hostVars, disks, vars
<1>6. Loop /\ Assign => Assign
  OBVIOUS
<1> QED BY <1>1, <1>2, <1>3, <1>4, <1>5, <1>6, CalmSteps

(* The autopilot never takes or changes the swift-id of a disk.             *)
THEOREM SwiftIDsKept == ASSUME Calm PROVE Spec => KeepsSwiftIDs
<1>1. FailureInv /\ [Next]_vars =>
        [~Environment => \A d \in Drives : swiftID[d] # NoID => swiftID'[d] = swiftID[d]]_vars
  <2> SUFFICES ASSUME FailureInv, [Next]_vars, ~Environment,
                      NEW d \in Drives, swiftID[d] # NoID
               PROVE  swiftID'[d] = swiftID[d]
    OBVIOUS
  <2>1. swiftID \in [Drives -> IDs \cup {Spare, NoID}]
    BY FailureTypes
  <2> QED BY <2>1, IDSteps DEF GivesID
<1> QED BY <1>1, FailureInvariant, PTL DEF Spec, KeepsSwiftIDs

(* An id that is given out is new among the disks that are there.           *)
LEMMA NewID ==
  ASSUME Calm, "plug" \notin Upsets \/ SwiftIDs = {NoID}, FailureInv, Assign,
         NEW k \in DOMAIN Pool, FirstFree(k), Pool[k] \in IDs, NEW e \in devices
  PROVE  swiftID[e] # Pool[k]
<1>1. phase = "assign" /\ at <= Len(drives)
  BY DEF Assign
<1>2. PoolName(k) = <<Pool[k], 0>> /\ PoolName(k) \notin taken
  BY HostAssumption DEF PoolName, FirstFree, Free
<1>3. ASSUME swiftID[e] \in IDs
      PROVE  e \in Known
  <2>1. AddedNow = {} /\ devices \subseteq Drives
    BY <1>1, FailureTypes DEF HandInv, AddedNow, NoEvent, Event
  <2>2. Known # {}
    BY <1>1, LoopedInPlace
  <2>3. e \in There
    BY <1>3, <2>1, HostAssumption DEF There, Marked
  <2> QED BY <2>1, <2>2, <2>3 DEF FailureInv, AllReported
<1>4. e \in Known => ~broken[e]
  BY <1>1 DEF FailureInv, DriveStates, KnownInPhase
<1>5. swiftID[e] \in IDs => <<swiftID[e], 0>> \in taken
  BY <1>1, <1>3, <1>4 DEF FailureInv, DriveStates, IDsRead
<1> QED BY <1>2, <1>5

(* So an id of the pool never goes to two disks, if those that are plugged  *)
(* in later (or all) come without one.                                      *)
THEOREM UnusedIDsAssigned ==
  ASSUME Calm, "plug" \notin Upsets \/ SwiftIDs = {NoID}
  PROVE  Spec => AssignsUnusedID
<1>1. ASSUME FailureInv, [Next]_vars, Assign, NEW d \in Drives,
             swiftID'[d] # swiftID[d], swiftID'[d] \in IDs, NEW e \in devices \ {d}
      PROVE  swiftID[e] # swiftID'[d]
  <2> DEFINE c == drives[at]
  <2>1. phase = "assign" /\ at <= Len(drives)
    BY <1>1 DEF Assign
  <2>2. PICK k \in DOMAIN Pool : GivesID(c, k)
    BY <1>1, AssignEffect
  <2>3. swiftID \in [Drives -> IDs \cup {Spare, NoID}] /\ c \in Drives
    BY <1>1, <2>1, FailureTypes, LoopedInPlace
  <2>4. swiftID'[d] = Pool[k]
    BY <1>1, <2>2, <2>3 DEF GivesID
  <2> QED BY <1>1, <2>2, <2>4, NewID DEF GivesID
<1>2. FailureInv /\ [Next]_vars =>
        [Assign => \A d \in Drives :
           swiftID'[d] # swiftID[d] /\ swiftID'[d] \in IDs =>
             \A e \in devices \ {d} : swiftID[e] # swiftID'[d]]_vars
  BY <1>1
<1> QED BY <1>2, FailureInvariant, PTL DEF Spec, AssignsUnusedID

LEMMA MountedNext ==
  (\A d, p : MountedAt(d, p) <=> \E s \in Scopes : p \in PathsOf(d, s))'
BY MountedPaths, PTL

(* A disk's mount below /srv/node is taken down only when it is broken, and *)
(* not before other containers have been told.                              *)
THEOREM UnmountsTold == ASSUME Calm, "ln" \notin Faults PROVE Spec => UnmountsAnnounced
<1>1. ASSUME FailureInv, [Next]_vars, Converger, NEW m \in Entries,
             m.path \in SrvPaths, ~MountedAt(m.dev, m.path)'
      PROVE  broken[m.dev] /\ \E id \in propagation : m.path = Srv(id)
  <2>1. PICK s \in Scopes : m.path \in PathsOf(m.dev, s)
    BY MountedPaths
  <2>2. m.dev \in Drives
    BY FailureTypes, MountedPaths, <1>1
  <2>3. m.path \notin PathsOf(m.dev, s)'
    BY <1>1, MountedNext
  <2>4. UmountStep
    <3>1. ~ UNCHANGED mounts
      BY <2>1, <2>3 DEF PathsOf
    <3>2. CASE MountStep
      BY <1>1, <2>1, <2>3, <3>1, <3>2, MountStepEffect DEF Mounts
    <3> QED BY <1>1, <3>1, <3>2, TableKept, ConvergerSteps
  <2>5. /\ op \in {"unmount", "umount"} /\ Current \in Known /\ Job(Current)
        /\ \E p \in todo :
             /\ op = "umount" => p = target
             /\ \A e : \A t \in Scopes :
                  PathsOf(e, t)' = PathsOf(e, t) \ (IF t \in Affected(scope) THEN {p} ELSE {})
    BY <1>1, <2>4, UmountStepEffect
  <2>6. m.path \in todo /\ (op = "umount" => m.path = target)
    BY <2>1, <2>3, <2>5
  <2>7. todo \subseteq PathsOf(Current, scope) /\ scope \in Scopes /\ Current \in Drives
    BY <1>1, <2>5, FailureTypes DEF Job, DriveTypeOK
  <2>8. m.dev = Current
    BY <1>1, <2>1, <2>2, <2>6, <2>7 DEF FailureInv, MountInv, OneOwner
  <2>9. op = "umount"
    <3>1. op = "unmount" => m.path \notin SrvPaths
      BY <2>1, <2>5, <2>6, <2>8 DEF Job
    <3> QED BY <1>1, <2>5, <3>1
  <2>10. broken[m.dev]
    BY <2>5, <2>8, <2>9 DEF Job
  <2>11. \A id \in IDs : target = Srv(id) => id \in propagation
    BY <1>1, <2>5, <2>9 DEF Job
  <2> QED BY <1>1, <2>6, <2>9, <2>10, <2>11 DEF SrvPaths
<1>2. FailureInv /\ [Next]_vars =>
        [Converger =>
           \A m \in Entries :
             (m.path \in SrvPaths /\ ~MountedAt(m.dev, m.path)') =>
                /\ broken[m.dev] \/ (batch.kind = "removed" /\ Head(batch.devs) = m.dev)
                /\ \E id \in propagation : m.path = Srv(id)]_vars
  BY <1>1
<1> QED BY <1>2, FailureInvariant, PTL DEF Spec, UnmountsAnnounced

-----------------------------------------------------------------------------
(* To Swift, the program does what module Placement says.                   *)

(* What the refinement needs besides: broken drives are on the list, and    *)
(* those that a reinstatement finds broken have been taken down.            *)
KnownBroken == \A d \in Drives : broken[d] => d \in Known
BrokenAway ==
  phase = "handle" /\ batch.kind # "error" =>
    \A d \in Known : broken[d] /\ ~WorksOn(d) => Away(d)
PlaceInv == FailureInv /\ KnownBroken /\ BrokenAway

(* A drive becomes known, and known drives become broken.                   *)
LEMMA KnownBrokenStep ==
  ASSUME Calm, FailureInv, KnownBroken, [Next]_vars
  PROVE  KnownBroken'
<1>0. ListInv'
  BY ListStep DEF FailureInv
<1>1. broken \in [Drives -> BOOLEAN] /\ Known \subseteq Drives
  BY FailureTypes
<1>2. CASE Busy
  <2>1. PICK c : c = Current
    OBVIOUS
  <2>2. c \in Known /\ Known' = Known /\ \A d \in Drives : d # c => broken'[d] = broken[d]
    BY <1>2, <2>1, BusyKeeps, BusyFrame
  <2> QED BY <2>2 DEF KnownBroken
<1>3. CASE HandleAdded \/ HandleReinstated
  <2> DEFINE d == Head(batch.devs)
  <2>1. d \in devices /\ NewDevice(d) /\ d \in Known' /\ Known \subseteq Known'
    <3>1. CASE HandleAdded
      BY <3>1, AddedList, <1>0 DEF HandleAdded
    <3>2. CASE HandleReinstated
      BY <3>2 DEF HandleReinstated, ctlVars, Known, FailureInv, OnlyAdditions
    <3> QED BY <1>3, <3>1, <3>2
  <2>2. broken' = [broken EXCEPT ![d] = d \in transient \cup durable]
    BY <2>1, NewDeviceEffect
  <2> QED BY <1>1, <2>1, <2>2 DEF KnownBroken
<1>4. CASE HandleError
  BY <1>1, <1>4 DEF HandleError, MarkAsBroken, KnownBroken, Known
<1>5. CASE (Handler /\ ~HandleAdded /\ ~HandleReinstated /\ ~HandleError) \/ Loop
  <2>1. UNCHANGED <<broken, drives>>
    <3>1. ~ (EventHandled /\ batch.kind = "removed")
      BY DEF FailureInv, OnlyAdditions, Harmless, HarmlessIn
    <3> QED BY <1>5, <3>1 DEF Handler, Receive, HandleUnknown, EventHandled, Loop, BeginConverge,
         NextDrive, EndPass1, Scan, ScanDrive, EndScan, Assign, AssignDrive, BeginPass2, EndConverge,
         deviceVars, driveVars, fields
  <2> QED BY <2>1 DEF KnownBroken, Known
<1>6. CASE End
  BY <1>6 DEF End, ProcessEnds, DriveReset, KnownBroken
<1>7. CASE CalmUpset \/ Outside \/ NoStep
  <2>1. UNCHANGED <<broken, drives>>
    BY <1>7 DEF CalmUpset, Outside, CollectorStep, Restart, LogError, NoStep, vars, ctlVars,
       deviceVars, driveVars, fields
  <2> QED BY <2>1 DEF KnownBroken, Known
<1> QED BY <1>2, <1>3, <1>4, <1>5, <1>6, <1>7, CalmSteps DEF Handler

(* From the wait for events on, what is broken is mounted nowhere, except   *)
(* for what a kernel error reports.                                         *)
LEMMA BrokenAwayStep ==
  ASSUME Calm, FailureInv, BrokenAway, [Next]_vars
  PROVE  BrokenAway'
<1>0. ListInv'
  BY ListStep DEF FailureInv
<1>1. broken \in [Drives -> BOOLEAN] /\ Known \subseteq Drives
  BY FailureTypes
<1>2. CASE Busy
  <2>1. /\ UNCHANGED <<phase, batch>> /\ Current' = Current /\ Known' = Known /\ op' # "idle"
        /\ \A d \in Drives : d # Current =>
              /\ mountPath'[d] = mountPath[d] /\ broken'[d] = broken[d]
              /\ \A s \in Scopes : PathsOf(d, s)' = PathsOf(d, s)
    BY <1>2, BusyKeeps, BusyFrame
  <2> QED BY <1>1, <2>1 DEF BrokenAway, WorksOn, Away
<1>3. CASE HandleAdded \/ HandleReinstated
  <2> DEFINE d == Head(batch.devs)
  <2>1. d \in devices /\ NewDevice(d) /\ Known' \subseteq Known \cup {d}
    <3>1. CASE HandleAdded
      BY <3>1, AddedList, <1>0 DEF HandleAdded
    <3>2. CASE HandleReinstated
      BY <3>2 DEF HandleReinstated, ctlVars, Known, FailureInv, OnlyAdditions
    <3> QED BY <1>3, <3>1, <3>2
  <2>2. /\ broken' = [broken EXCEPT ![d] = d \in transient \cup durable]
        /\ mountPath' = [mountPath EXCEPT ![d] = NoPath]
    BY <2>1, NewDeviceEffect
  <2>3. /\ phase = "handle" /\ op = "idle" /\ op' = "converge" /\ UNCHANGED <<phase, batch, mounts>>
        /\ batch.kind # "error"
    BY <1>3 DEF HandleAdded, HandleReinstated, Handling, ctlVars
  <2>4. \A e : \A s : PathsOf(e, s)' = PathsOf(e, s)
    BY <2>3 DEF PathsOf
  <2>5. (WorksOn(d))' /\ d' = d
    BY <2>3 DEF WorksOn, Current
  <2>6. mountPath \in [Drives -> Paths \cup {NoPath}]
    BY FailureTypes
  <2> HIDE DEF d
  <2>7. ASSUME NEW e \in Known', broken'[e], ~WorksOn(e)'
        PROVE  Away(e)'
    <3>1. e # d
      BY <2>5, <2>7
    <3> QED BY <1>1, <2>1, <2>2, <2>3, <2>4, <2>6, <2>7, <3>1 DEF BrokenAway, WorksOn, Away
  <2> QED BY <2>3, <2>7 DEF BrokenAway
<1>4. CASE Receive \/ HandleUnknown \/ EventHandled
  <2>1. CASE Receive
    <3>1. phase = "wait" /\ op = "idle" /\ UNCHANGED <<broken, mountPath, mounts, drives, op>>
      BY <2>1, BusyPhase DEF Receive, hostVars, fields, job
    <3>2. \A d \in Known : broken[d] => Away(d)
      BY <3>1 DEF FailureInv, DriveStates, Placed
    <3> QED BY <3>1, <3>2 DEF BrokenAway, Away, Known, PathsOf
  <2>2. CASE HandleUnknown \/ EventHandled
    <3>1. batch.kind # "removed"
      BY DEF FailureInv, OnlyAdditions, Harmless, HarmlessIn
    <3>2. /\ phase = "handle" /\ op' = "idle" /\ batch'.kind = batch.kind
          /\ op \in {"idle", "done"} /\ UNCHANGED <<broken, mountPath, mounts, drives>>
      BY <2>2, <3>1, BatchTypes DEF HandleUnknown, EventHandled, EventDone, Batch, hostVars, deviceVars,
         driveVars, fields, job
    <3>3. \A d \in Known : broken[d] /\ WorksOn(d) => Away(d)
      BY <3>2 DEF WorksOn, FailureInv, DriveStates, JobInv, Job, InPlace
    <3> QED BY <3>2, <3>3 DEF BrokenAway, Away, Known, PathsOf
  <2> QED BY <1>4, <2>1, <2>2
<1>5. CASE HandleError
  BY <1>5, BatchTypes DEF HandleError, Handling, EventDone, Batch, BrokenAway
<1>6. CASE Loop \/ End
  <2>1. phase' # "handle"
    BY <1>6 DEF End, ProcessEnds, Loop, BeginConverge, NextDrive, InPass, EndPass1, Scan, EndScan,
       Assign, BeginPass2, EndConverge
  <2> QED BY <2>1 DEF BrokenAway
<1> DEFINE Apart == CalmUpset /\ (Plug \/ DeleteFlag \/ CreateDurableFlag)
<1>7. CASE Restart \/ (CalmUpset /\ ~Apart)
  <2>1. phase' # "handle"
    BY <1>7 DEF CalmUpset, Restart, ctlVars
  <2> QED BY <2>1 DEF BrokenAway
<1>8. CASE CollectorStep \/ LogError \/ NoStep \/ Apart
  <2>1. UNCHANGED <<broken, mountPath, mounts, drives, op, phase, batch, Current>>
    BY <1>8 DEF CollectorStep, LogError, NoStep, vars, ctlVars, deviceVars, driveVars, fields, job,
       hostVars, Current, CalmUpset, Plug, DeleteFlag, CreateDurableFlag
  <2> QED BY <2>1 DEF BrokenAway, Away, Known, PathsOf, WorksOn
<1> QED BY <1>2, <1>3, <1>4, <1>5, <1>6, <1>7, <1>8, CalmSteps DEF Handler, Outside

(* What Swift sees of the mounts.                                           *)
Serving == [id \in IDs |-> ServedAt(id)]
Failed == {d \in Drives : broken[d]}

LEMMA ServedWhere ==
  \A d, id : d \in ServedAt(id) <=> \E s \in Scopes : Srv(id) \in PathsOf(d, s)
BY DEF ServedAt, Entries, PathsOf, PathsIn

LEMMA ServedNext ==
  (\A d, id : d \in ServedAt(id) <=> \E s \in Scopes : Srv(id) \in PathsOf(d, s))'
BY ServedWhere, PTL

(* Below an id there is one disk at most.                                   *)
LEMMA ServedOnce ==
  ASSUME FailureInv, NEW id, NEW d, d \in ServedAt(id)
  PROVE  d \in Drives /\ ServedAt(id) = {d} /\ swiftID[d] = id /\ id \in IDs
<1>1. \A e \in ServedAt(id) : e \in Drives
  BY FailureTypes, MountedPaths DEF ServedAt
<1>2. PICK s \in Scopes : Srv(id) \in PathsOf(d, s)
  BY ServedWhere
<1>3. \A e \in Drives, t \in Scopes : Srv(id) \in PathsOf(e, t) => e = d
  BY <1>1, <1>2 DEF FailureInv, MountInv, OneOwner
<1>4. ServedAt(id) = {d}
  BY <1>1, <1>3, ServedWhere
<1>5. Srv(id) \in {Run(d), Srv(swiftID[d])} /\ Srv(id) \in Paths
  BY <1>1, <1>2, FailureTypes DEF FailureInv, MountInv, RightPaths
<1> QED BY <1>1, <1>4, <1>5, PathFacts

(* A step that Swift sees nothing of.                                       *)
LEMMA SeesNothing ==
  ASSUME UNCHANGED <<devices, swiftID, propagation>>, Failed' = Failed, Serving' = Serving,
         (phase \notin {"wait", "dead"})' <=> phase \notin {"wait", "dead"}
  PROVE  UNCHANGED P!placement
BY DEF P!placement, Failed, Serving

(* An unmount takes at most one disk away from Swift.                       *)
LEMMA OneServedLess ==
  ASSUME FailureInv, NEW p, NEW s,
         \A e : \A t \in Scopes :
           PathsOf(e, t)' = PathsOf(e, t) \ (IF t \in Affected(s) THEN {p} ELSE {})
  PROVE  \/ Serving' = Serving
         \/ \E d \in Drives, id \in IDs :
              /\ p = Srv(id) /\ d \in ServedAt(id)
              /\ Serving' = [Serving EXCEPT ![id] = @ \ {d}]
<1>1. \A id : ServedAt(id)' \subseteq ServedAt(id) /\ (p # Srv(id) => ServedAt(id)' = ServedAt(id))
  <2> SUFFICES ASSUME NEW id
               PROVE  /\ \A d : d \in ServedAt(id)' => d \in ServedAt(id)
                      /\ p # Srv(id) => \A d : d \in ServedAt(id) => d \in ServedAt(id)'
    OBVIOUS
  <2>1. \A d : d \in ServedAt(id) <=> \E t \in Scopes : Srv(id) \in PathsOf(d, t)
    BY ServedWhere
  <2>2. \A d : d \in ServedAt(id)' <=> \E t \in Scopes : Srv(id) \in PathsOf(d, t)'
    BY ServedNext
  <2> QED BY <2>1, <2>2
<1>2. CASE \A id \in IDs : ServedAt(id)' = ServedAt(id)
  BY <1>2 DEF Serving
<1>3. ASSUME NEW id \in IDs, ServedAt(id)' # ServedAt(id)
      PROVE  \E d \in Drives :
               /\ p = Srv(id) /\ d \in ServedAt(id)
               /\ Serving' = [Serving EXCEPT ![id] = @ \ {d}]
  <2>1. PICK d : d \in ServedAt(id) /\ d \notin ServedAt(id)'
    BY <1>1, <1>3
  <2>2. d \in Drives /\ ServedAt(id) = {d}
    BY <2>1, ServedOnce
  <2>3. ServedAt(id)' = {}
    BY <1>1, <2>1, <2>2
  <2>4. \A i \in IDs : i # id => ServedAt(i)' = ServedAt(i)
    BY <1>1, <1>3, PathFacts
  <2> QED BY <1>1, <1>3, <2>1, <2>2, <2>3, <2>4 DEF Serving
<1> QED BY <1>2, <1>3

(* The work on a drive.                                                     *)
LEMMA BusyPlaces ==
  ASSUME Calm, "ln" \notin Faults, FailureInv, [Next]_vars, Busy
  PROVE  P!Autopilot \/ UNCHANGED P!placement
<1> DEFINE c == Current
<1>1. /\ phase \notin {"wait", "dead"} /\ UNCHANGED <<phase, devices, swiftID>>
      /\ c \in Known /\ c \in Drives /\ (op # "idle" => Job(c)) /\ scope \in Scopes
      /\ broken \in [Drives -> BOOLEAN]
  BY BusyFrame, BusyKeeps, JobFacts
<1>2. CASE UmountStep
  <2>1. /\ op \in {"unmount", "umount"} /\ Job(c) /\ UNCHANGED <<broken, propagation>>
        /\ \E p \in todo :
             /\ op = "umount" => p = target
             /\ \A e : \A t \in Scopes :
                  PathsOf(e, t)' = PathsOf(e, t) \ (IF t \in Affected(scope) THEN {p} ELSE {})
    BY <1>2, UmountStepEffect DEF UmountStep, UnmountOther, Umount, fields, flags
  <2>2. PICK p \in todo :
             /\ op = "umount" => p = target
             /\ \A e : \A t \in Scopes :
                  PathsOf(e, t)' = PathsOf(e, t) \ (IF t \in Affected(scope) THEN {p} ELSE {})
    BY <2>1
  <2>3. p \in PathsOf(c, scope) /\ (op = "unmount" => p \notin SrvPaths)
    BY <1>1, <2>1 DEF Job
  <2>4. Failed' = Failed
    BY <2>1 DEF Failed
  <2>5. CASE Serving' = Serving
    BY <1>1, <2>1, <2>4, <2>5, SeesNothing
  <2>6. ASSUME NEW d \in Drives, NEW id \in IDs, p = Srv(id), d \in ServedAt(id),
               Serving' = [Serving EXCEPT ![id] = @ \ {d}]
        PROVE  P!Withdraw(d, id)
    <3>1. op = "umount" /\ target = p
      BY <2>1, <2>2, <2>3, <2>6 DEF SrvPaths
    <3>2. d = c
      <4>1. c \in ServedAt(id)
        BY <1>1, <2>3, <2>6, ServedWhere
      <4> QED BY <2>6, <4>1, ServedOnce
    <3>3. broken[d] /\ id \in propagation
      BY <2>1, <2>6, <3>1, <3>2 DEF Job
    <3> QED BY <1>1, <2>1, <2>4, <2>6, <3>3 DEF P!Withdraw, Serving, Failed
  <2> QED BY <1>1, <2>2, <2>5, <2>6, OneServedLess DEF P!Autopilot
<1>3. CASE MountStep
  <2>1. /\ op = "mount" /\ Job(c) /\ UNCHANGED <<broken, propagation>>
        /\ Mounts(c) \/ UNCHANGED mounts
    BY <1>3, MountStepEffect DEF MountStep, Mount, flags
  <2>2. Failed' = Failed
    BY <2>1 DEF Failed
  <2>3. CASE UNCHANGED mounts
    <3>1. Serving' = Serving
      BY <2>3 DEF Serving, ServedAt, Entries
    <3> QED BY <1>1, <2>1, <2>2, <3>1, SeesNothing
  <2>4. CASE Mounts(c)
    <3>1. PICK d : d = c
      OBVIOUS
    <3>2. /\ d \in Drives /\ ~broken[d] /\ target \in {Run(d), Srv(swiftID[d])}
          /\ \A e \in Drives, s \in Scopes : target \in PathsOf(e, s) => e = d
          /\ target \in Paths
      BY <1>1, <2>1, <3>1, FailureTypes DEF Job, Aimed, TypeInv, TargetIsPath
    <3>3. \A e : \A t \in Scopes :
            PathsOf(e, t)' = PathsOf(e, t) \cup (IF e = d /\ t \in Affected(scope) THEN {target} ELSE {})
      BY <2>4, <3>1 DEF Mounts
    <3>4. scope \in Affected(scope)
      BY <1>1 DEF Affected
    <3>5. \A id : \A e : e \in ServedAt(id)' <=> e \in ServedAt(id) \/ (e = d /\ target = Srv(id))
      <4> SUFFICES ASSUME NEW id, NEW e
                   PROVE  e \in ServedAt(id)' <=> e \in ServedAt(id) \/ (e = d /\ target = Srv(id))
        OBVIOUS
      <4>1. e \in ServedAt(id) <=> \E t \in Scopes : Srv(id) \in PathsOf(e, t)
        BY ServedWhere
      <4>2. e \in ServedAt(id)' <=> \E t \in Scopes : Srv(id) \in PathsOf(e, t)'
        BY ServedNext
      <4> QED BY <1>1, <3>3, <3>4, <4>1, <4>2
    <3>6. CASE \A id \in IDs : target = Srv(id) => d \in ServedAt(id)
      <4>1. \A id \in IDs : ServedAt(id)' = ServedAt(id)
        BY <3>5, <3>6
      <4>2. Serving' = Serving
        BY <4>1 DEF Serving
      <4> QED BY <1>1, <2>1, <2>2, <4>2, SeesNothing
    <3>7. ASSUME NEW id \in IDs, target = Srv(id), d \notin ServedAt(id)
          PROVE  P!Serve(d)
      <4>1. swiftID[d] = id
        BY <3>2, <3>7, PathFacts
      <4>2. ServedAt(id) = {}
        <5>1. ASSUME NEW e, e \in ServedAt(id) PROVE FALSE
          BY <3>2, <3>7, <5>1, ServedOnce, ServedWhere
        <5> QED BY <5>1
      <4>3. ServedAt(id)' = {d} /\ \A i \in IDs : i # id => ServedAt(i)' = ServedAt(i)
        <5>1. \A i : target = Srv(i) => i = id
          BY <3>7, PathFacts
        <5>2. \A i \in IDs : i # id => \A e : e \in ServedAt(i)' <=> e \in ServedAt(i)
          BY <3>5, <5>1
        <5>3. \A e : e \in ServedAt(id)' <=> e = d
          BY <3>5, <3>7, <4>2
        <5> QED BY <5>2, <5>3
      <4>4. Serving' = [Serving EXCEPT ![id] = {d}]
        BY <4>3 DEF Serving
      <4> QED BY <1>1, <2>1, <2>2, <3>2, <4>1, <4>2, <4>4 DEF P!Serve, Serving, Failed
    <3> QED BY <1>1, <3>2, <3>6, <3>7 DEF P!Autopilot
  <2> QED BY <2>1, <2>3, <2>4
<1>4. CASE ~UmountStep /\ ~MountStep
  <2>1. UNCHANGED mounts
    BY <1>4, TableKept
  <2>2. Serving' = Serving
    BY <2>1 DEF Serving, ServedAt, Entries
  <2>3. CASE Announce(c)
    <3>1. PICK p \in todo : propagation' = propagation \cup FlagsFor(p)
      BY <2>3 DEF Announce, Fault
    <3>2. p \in PathsOf(c, scope) /\ broken[c] /\ UNCHANGED broken
      BY <1>1, <2>3, <3>1 DEF Job, Announce, fields
    <3>3. Failed' = Failed
      BY <3>2 DEF Failed
    <3>4. CASE FlagsFor(p) = {}
      BY <1>1, <2>2, <3>1, <3>3, <3>4, SeesNothing
    <3>5. ASSUME NEW id \in IDs, Srv(id) = p
          PROVE  P!Announce(id)
      <4>1. FlagsFor(p) = {id}
        BY <3>5, PathFacts DEF FlagsFor
      <4>2. c \in ServedAt(id) /\ c \in Failed
        BY <1>1, <3>2, <3>5, ServedWhere DEF Failed
      <4> QED BY <1>1, <2>2, <3>1, <3>3, <4>1, <4>2 DEF P!Announce, Serving, Failed
    <3> QED BY <1>1, <3>4, <3>5 DEF P!Autopilot, FlagsFor
  <2>4. CASE ClearPropagation
    <3>1. op = "clear" /\ UNCHANGED broken
      BY <2>4 DEF ClearPropagation, fields
    <3>2. mountPath[c] = target /\ AtHome(c) /\ ~broken[c]
      BY <1>1, <3>1 DEF Job, Aimed
    <3>3. Failed' = Failed
      BY <3>1 DEF Failed
    <3>4. CASE UNCHANGED propagation
      BY <1>1, <2>2, <3>3, <3>4, SeesNothing
    <3>5. CASE ~UNCHANGED propagation
      <4>1. propagation' = {id \in propagation : Srv(id) # target} /\ propagation \subseteq IDs
        BY <2>4, <3>5, FailureTypes DEF ClearPropagation, HostTypeOK
      <4>2. PICK id \in propagation : Srv(id) = target
        BY <3>5, <4>1
      <4>3. propagation' = propagation \ {id} /\ id \in IDs
        BY <4>1, <4>2, PathFacts
      <4>4. c \in ServedAt(id) /\ c \notin Failed
        BY <1>1, <3>2, <4>2, ServedWhere DEF AtHome, Failed
      <4>5. P!Revoke(id)
        BY <1>1, <2>2, <3>3, <4>2, <4>3, <4>4 DEF P!Revoke, Serving, Failed
      <4> QED BY <1>1, <4>3, <4>5 DEF P!Autopilot
    <3> QED BY <3>4, <3>5
  <2>5. CASE GiveUp(c)
    <3>1. broken' = [broken EXCEPT ![c] = TRUE] /\ UNCHANGED propagation
      BY <2>5 DEF GiveUp, MarkAsBroken
    <3>2. Failed' = Failed \cup {c}
      BY <1>1, <3>1 DEF Failed
    <3> QED BY <1>1, <2>2, <3>1, <3>2 DEF P!Autopilot, P!Fail, Serving, Failed
  <2>6. CASE ~Announce(c) /\ ~ClearPropagation /\ ~GiveUp(c)
    <3>1. UNCHANGED <<broken, propagation>>
      BY <1>4, <2>6 DEF Busy, ConvergeHealthy, ConvergeBroken, Setup, BeginSetup, BeginLUKSSetup, Format,
         UmountStep, MountStep, UnmountOther, OthersUnmounted, Mount, Umount, FilesystemTornDown,
         SetupInside, LUKSFormat, LUKSOpen, Descend, LUKSClose, TornDown, hostVars, flags, fields
    <3>2. Failed' = Failed
      BY <3>1 DEF Failed
    <3> QED BY <1>1, <2>2, <3>1, <3>2, SeesNothing
  <2> QED BY <2>3, <2>4, <2>5, <2>6
<1> QED BY <1>2, <1>3, <1>4

(* The handling of events.                                                  *)
LEMMA HandlerPlaces ==
  ASSUME Calm, PlaceInv, [Next]_vars, Handler
  PROVE  P!Autopilot \/ P!TakeTurns \/ UNCHANGED P!placement
<1>1. /\ UNCHANGED <<devices, swiftID, propagation, mounts>>
      /\ broken \in [Drives -> BOOLEAN] /\ devices \subseteq Drives /\ Known \subseteq Drives
  <2>1. UNCHANGED <<devices, swiftID, propagation, mounts>>
    BY DEF Handler, Receive, HandleAdded, HandleReinstated, HandleError, HandleUnknown,
       EventHandled, hostVars, disks, flags
  <2> QED BY <2>1, FailureTypes DEF PlaceInv
<1>2. Serving' = Serving
  BY <1>1 DEF Serving, ServedAt, Entries
<1>3. CASE Receive
  BY <1>1, <1>2, <1>3 DEF Receive, fields, P!TakeTurns, Serving
<1>4. ~Receive => phase = "handle" /\ UNCHANGED phase
  BY DEF Handler, HandleAdded, HandleReinstated, HandleError, HandleUnknown, EventHandled,
     Handling, ctlVars
<1>5. CASE HandleUnknown \/ EventHandled
  <2>1. Failed' = Failed
    BY <1>5 DEF HandleUnknown, EventHandled, deviceVars, driveVars, fields, Failed
  <2> QED BY <1>1, <1>2, <1>4, <1>5, <2>1, SeesNothing DEF EventHandled, HandleUnknown
<1>6. CASE HandleError
  <2> DEFINE d == Head(batch.devs)
  <2>1. d \in Drives /\ broken' = [broken EXCEPT ![d] = TRUE]
    BY <1>1, <1>6 DEF HandleError, MarkAsBroken
  <2>2. Failed' = Failed \cup {d}
    BY <1>1, <2>1 DEF Failed
  <2>3. phase = "handle" /\ UNCHANGED phase
    BY <1>6 DEF HandleError, Handling
  <2> QED BY <1>1, <1>2, <2>1, <2>2, <2>3 DEF P!Autopilot, P!Fail, Serving, Failed
<1>7. CASE HandleAdded \/ HandleReinstated
  <2> DEFINE d == Head(batch.devs)
  <2>1. d \in devices /\ NewDevice(d)
    <3>1. CASE HandleAdded
      BY <3>1, AddedList, ListStep DEF HandleAdded, PlaceInv, FailureInv
    <3>2. CASE HandleReinstated
      BY <3>2 DEF HandleReinstated, PlaceInv, FailureInv, OnlyAdditions
    <3> QED BY <1>7, <3>1, <3>2
  <2>2. broken' = [broken EXCEPT ![d] = d \in transient \cup durable]
    BY <2>1, NewDeviceEffect DEF PlaceInv
  <2>3. phase = "handle" /\ UNCHANGED phase /\ op = "idle" /\ batch.kind # "error"
    BY <1>7 DEF HandleAdded, HandleReinstated, Handling, ctlVars
  <2> HIDE DEF d
  <2>4. CASE d \in transient \cup durable
    <3>1. Failed' = Failed \cup {d} /\ d \in Drives
      BY <1>1, <2>1, <2>2, <2>4 DEF Failed
    <3> QED BY <1>1, <1>2, <2>3, <3>1 DEF P!Autopilot, P!Fail, Serving, Failed
  <2>5. CASE d \notin transient \cup durable
    <3>1. Failed' = Failed \ {d} /\ d \in Drives
      BY <1>1, <2>1, <2>2, <2>5 DEF Failed
    <3>2. CASE ~broken[d]
      BY <1>1, <1>2, <2>3, <3>1, <3>2, SeesNothing DEF Failed
    <3>3. CASE broken[d]
      <4>1. Away(d)
        BY <2>3, <3>1, <3>3 DEF PlaceInv, KnownBroken, BrokenAway, WorksOn
      <4>2. \A id \in IDs : d \notin ServedAt(id)
        BY <4>1, ServedWhere DEF Away
      <4> QED BY <1>1, <1>2, <2>3, <3>1, <3>3, <4>2
              DEF P!Autopilot, P!Reinstate, P!Served, Serving, Failed
    <3> QED BY <3>2, <3>3
  <2> QED BY <2>4, <2>5
<1> QED BY <1>3, <1>5, <1>6, <1>7 DEF Handler

(* The loops over the drives.                                               *)
LEMMA LoopPlaces ==
  ASSUME Calm, "plug" \notin Upsets, PlaceInv, [Next]_vars, Loop
  PROVE  P!Autopilot \/ P!TakeTurns \/ UNCHANGED P!placement
<1>1. UNCHANGED <<devices, propagation, mounts, broken>>
  BY DEF Loop, BeginConverge, NextDrive, EndPass1, Scan, ScanDrive, EndScan, Assign, AssignDrive,
     BeginPass2, EndConverge, hostVars, disks, flags, deviceVars, driveVars, fields
<1>2. Serving' = Serving /\ Failed' = Failed
  BY <1>1 DEF Serving, ServedAt, Entries, Failed
<1>3. CASE EndConverge
  BY <1>1, <1>2, <1>3 DEF EndConverge, disks, P!TakeTurns, Serving, Failed
<1>4. CASE UNCHANGED swiftID /\ ~EndConverge
  <2>1. phase \notin {"wait", "dead"} /\ phase' \notin {"wait", "dead"}
    BY <1>4 DEF Loop, BeginConverge, NextDrive, InPass, EndPass1, Scan, EndScan, Assign, BeginPass2
  <2> QED BY <1>1, <1>2, <1>4, <2>1, SeesNothing
<1>5. CASE ~UNCHANGED swiftID
  <2>1. Assign
    BY <1>5 DEF Loop, BeginConverge, NextDrive, EndPass1, Scan, ScanDrive, EndScan, BeginPass2,
       EndConverge, hostVars, disks
  <2> DEFINE d == drives[at]
  <2>2. phase = "assign" /\ UNCHANGED phase /\ at <= Len(drives)
    BY <2>1 DEF Assign
  <2>3. PICK k \in DOMAIN Pool : GivesID(d, k)
    BY <1>5, <2>1, AssignEffect DEF PlaceInv
  <2>4. d \in Drives /\ swiftID[d] = NoID /\ Pool[k] \in IDs \cup {Spare}
    BY <1>5, <2>1, <2>2, AssignEffect, LoopedInPlace, FailureTypes, PoolAssumption DEF PlaceInv
  <2>5. Failed = {}
    BY <2>2 DEF PlaceInv, KnownBroken, FailureInv, DriveStates, KnownInPhase, Failed
  <2>6. ASSUME Pool[k] \in IDs, NEW e \in devices \ {d}
        PROVE  swiftID[e] # Pool[k]
    BY <2>1, <2>3, <2>6, NewID DEF PlaceInv, GivesID
  <2>7. P!Give(d, Pool[k])
    <3>1. swiftID' = [swiftID EXCEPT ![d] = Pool[k]]
      BY <2>3 DEF GivesID
    <3>2. swiftID[d] \notin IDs \cup {Spare}
      BY <2>4, HostAssumption DEF NoID, Spare
    <3> QED BY <1>1, <1>2, <2>5, <2>6, <3>1, <3>2 DEF P!Give, P!Labels, Serving, Failed
  <2> QED BY <2>2, <2>4, <2>7 DEF P!Autopilot, P!Labels
<1> QED BY <1>3, <1>4, <1>5

(* What happens to the machine and to the process.                          *)
LEMMA WorldPlaces ==
  ASSUME Calm, "plug" \notin Upsets, PlaceInv, CalmUpset \/ End \/ Outside \/ NoStep
  PROVE  UNCHANGED devices /\ (P!World \/ P!TakeTurns \/ UNCHANGED P!placement)
<1>1. /\ FailureInv /\ broken \in [Drives -> BOOLEAN] /\ Known \subseteq Drives /\ Tidy
      /\ HostTypeOK /\ devices \subseteq Drives
  BY FailureTypes DEF PlaceInv, FailureInv, MountInv
<1>2. CASE CalmUpset
  <2>1. /\ UNCHANGED <<phase, broken, devices, propagation>>
        /\ \/ phase \in {"wait", "dead"} /\ (EditSwiftID \/ ExternalUmount \/ RemountReadonly)
           \/ ~EditSwiftID /\ ~ExternalUmount /\ UNCHANGED <<mounts, swiftID>>
    BY <1>2 DEF CalmUpset, EditSwiftID, ExternalUmount, ExternalClose, RemountReadonly, Plug, Upset,
       DeleteFlag, CreateDurableFlag, disks, flags, ctlVars, deviceVars, driveVars, fields
  <2>2. Failed' = Failed
    BY <2>1 DEF Failed
  <2>3. UNCHANGED mounts => Serving' = Serving
    BY DEF Serving, ServedAt, Entries
  <2>4. CASE EditSwiftID
    <3>1. PICK d \in Drives, e \in Edits :
            swiftID[d] = e[1] /\ swiftID' = [swiftID EXCEPT ![d] = e[2]] /\ UNCHANGED mounts
      BY <2>4 DEF EditSwiftID
    <3>2. e[1] = Spare /\ e[2] \in IDs
      BY DEF Calm
    <3>3. \A id \in IDs : d \notin ServedAt(id)
      BY <1>1, <3>1, <3>2, ServedOnce, HostAssumption
    <3>4. P!Edit(d)
      BY <2>1, <2>2, <2>3, <3>1, <3>2, <3>3 DEF P!Edit, P!Served, Serving, Failed
    <3> QED BY <2>1, <2>4, <3>4 DEF P!World
  <2>5. CASE ExternalUmount
    <3>1. PICK s \in Scopes, p \in Paths : KernelUmount(p, s) /\ UNCHANGED disks
      BY <2>5 DEF ExternalUmount
    <3>2. \A e : \A t \in Scopes :
            PathsOf(e, t)' = PathsOf(e, t) \ (IF t \in Affected(s) THEN {p} ELSE {})
      BY <1>1, <3>1, KernelUmountEffect
    <3>3. UNCHANGED swiftID
      BY <3>1 DEF disks
    <3>4. CASE Serving' = Serving
      BY <2>1, <2>2, <3>3, <3>4, SeesNothing
    <3>5. ASSUME NEW d \in Drives, NEW id \in IDs, d \in ServedAt(id),
                 Serving' = [Serving EXCEPT ![id] = @ \ {d}]
          PROVE  P!Lose(d, id)
      BY <2>1, <2>2, <3>3, <3>5 DEF P!Lose, Serving, Failed
    <3> QED BY <1>1, <2>1, <2>5, <3>2, <3>4, <3>5, OneServedLess DEF P!World
  <2>6. CASE RemountReadonly
    <3>1. \A e : \A t \in Scopes : PathsOf(e, t)' = PathsOf(e, t)
      BY <1>1, <2>6, ReadonlyEffect
    <3>2. UNCHANGED swiftID
      BY <2>6 DEF RemountReadonly, disks
    <3>3. \A id : ServedAt(id)' = ServedAt(id)
      <4> SUFFICES ASSUME NEW id, NEW d PROVE d \in ServedAt(id)' <=> d \in ServedAt(id)
        OBVIOUS
      <4> QED BY <3>1, ServedWhere, ServedNext
    <3>4. Serving' = Serving
      BY <3>3 DEF Serving
    <3> QED BY <2>1, <2>2, <3>2, <3>4, SeesNothing
  <2>7. CASE UNCHANGED <<mounts, swiftID>>
    BY <2>1, <2>2, <2>3, <2>7, SeesNothing
  <2> QED BY <2>1, <2>4, <2>5, <2>6, <2>7
<1>3. CASE End
  <2>1. phase' = "dead" /\ Failed' = {}
    BY <1>3 DEF End, ProcessEnds, DriveReset, Failed
  <2>2. CASE UNCHANGED hostVars /\ devices = {}
    <3>1. UNCHANGED <<devices, swiftID, propagation, mounts>>
      BY <2>2 DEF hostVars, disks, flags
    <3>2. Serving' = Serving
      BY <3>1 DEF Serving, ServedAt, Entries
    <3>3. Failed = {}
      BY <2>2 DEF Failed, PlaceInv, KnownBroken, FailureInv, OnlyAdditions
    <3>4. CASE phase \in {"wait", "dead"}
      BY <2>1, <3>1, <3>2, <3>3, <3>4, SeesNothing
    <3>5. CASE phase \notin {"wait", "dead"}
      BY <2>1, <3>1, <3>2, <3>3, <3>5 DEF P!TakeTurns, Serving, Failed
    <3> QED BY <3>1, <3>4, <3>5
  <2>3. CASE UNCHANGED <<disks, mounts, flags, faults>>
    <3>1. UNCHANGED <<devices, swiftID, propagation, mounts>>
      BY <2>3 DEF disks, flags
    <3>2. Serving' = Serving
      BY <3>1 DEF Serving, ServedAt, Entries
    <3> QED BY <2>1, <2>3, <3>1, <3>2 DEF P!World, P!Crash, Serving, Failed
  <2>4. CASE HostReboot
    <3>1. /\ UNCHANGED <<devices, swiftID>> /\ propagation' = {}
          /\ mounts' = [s \in Scopes |-> <<>>]
      BY <2>4 DEF HostReboot
    <3>2. \A id : ServedAt(id)' = {}
      BY <3>1 DEF ServedAt, Entries
    <3>3. Serving' = [id \in IDs |-> {}]
      BY <3>2 DEF Serving
    <3> QED BY <2>1, <2>4, <3>1, <3>3 DEF P!World, P!Reboot, Serving, Failed
  <2> QED BY <1>3, <2>2, <2>3, <2>4 DEF End
<1>4. CASE Outside \/ NoStep
  <2>1. UNCHANGED <<devices, swiftID, propagation, mounts, broken>>
    BY <1>4 DEF Outside, CollectorStep, Restart, LogError, NoStep, vars, hostVars, disks, flags,
       deviceVars, driveVars, fields
  <2>2. (phase \notin {"wait", "dead"})' <=> phase \notin {"wait", "dead"}
    BY <1>4 DEF Outside, CollectorStep, Restart, LogError, NoStep, vars, ctlVars
  <2>3. Serving' = Serving /\ Failed' = Failed
    BY <2>1 DEF Serving, ServedAt, Entries, Failed
  <2> QED BY <2>1, <2>2, <2>3, SeesNothing
<1> QED BY <1>2, <1>3, <1>4

LEMMA PlacementStep ==
  Calm /\ "ln" \notin Faults /\ "plug" \notin Upsets /\ PlaceInv /\ [Next]_vars =>
    [P!Next]_P!placement
<1> SUFFICES ASSUME Calm, "ln" \notin Faults, "plug" \notin Upsets, PlaceInv, [Next]_vars
             PROVE  [P!Next]_P!placement
  OBVIOUS
<1>1. FailureInv
  BY DEF PlaceInv
<1>2. CASE Busy
  BY <1>1, <1>2, BusyPlaces, BusyFrame DEF P!Next
<1>3. CASE Handler
  <2>1. UNCHANGED devices
    BY <1>3 DEF Handler, Receive, HandleAdded, HandleReinstated, HandleError, HandleUnknown,
       EventHandled, hostVars, disks
  <2> QED BY <1>3, <2>1, HandlerPlaces DEF P!Next
<1>4. CASE Loop
  <2>1. UNCHANGED devices
    BY <1>4 DEF Loop, BeginConverge, NextDrive, EndPass1, Scan, ScanDrive, EndScan, Assign,
       AssignDrive, BeginPass2, EndConverge, hostVars, disks
  <2> QED BY <1>4, <2>1, LoopPlaces DEF P!Next
<1>5. CASE CalmUpset \/ End \/ Outside \/ NoStep
  BY <1>5, WorldPlaces DEF P!Next
<1> QED BY <1>1, <1>2, <1>3, <1>4, <1>5, CalmSteps

(* Under Calm, and if flags can be written and no disk is plugged in later, *)
(* the program implements module Placement: every change of what Swift sees *)
(* is one of its steps, and so Exclusive holds of it (PlacementExclusive).  *)
THEOREM PlacementImplemented ==
  ASSUME Calm, "ln" \notin Faults, "plug" \notin Upsets
  PROVE  Spec => ImplementsPlacement
<1>1. Init => P!Init /\ KnownBroken /\ BrokenAway
  <2> SUFFICES ASSUME Init PROVE P!Init /\ KnownBroken /\ BrokenAway
    OBVIOUS
  <2>1. /\ devices \in SUBSET Drives /\ propagation = {} /\ mounts = [s \in Scopes |-> <<>>]
        /\ broken = [d \in Drives |-> FALSE] /\ phase = "wait"
        /\ swiftID \in [Drives -> IDs \cup {Spare, NoID}]
    BY HostAssumption DEF Init, HostInit, DriveInit
  <2>2. \A id : ServedAt(id) = {}
    BY <2>1 DEF ServedAt, Entries
  <2>3. P!Init
    BY <2>1, <2>2 DEF P!Init, P!Labels, NoID
  <2> QED BY <2>1, <2>3 DEF KnownBroken, BrokenAway
<1>2. PlaceInv /\ [Next]_vars => KnownBroken' /\ BrokenAway'
  BY KnownBrokenStep, BrokenAwayStep DEF PlaceInv
<1>3. PlaceInv <=> FailureInv /\ KnownBroken /\ BrokenAway
  BY DEF PlaceInv
<1>4. PlaceInv /\ [Next]_vars => [P!Next]_P!placement
  BY PlacementStep
<1> QED BY <1>1, <1>2, <1>3, <1>4, FailureInvariant, PTL DEF Spec, ImplementsPlacement, P!Spec

-----------------------------------------------------------------------------
(* A machine without faults or encryption: disks only come, the process     *)
(* ends at any moment, and all mounts show up in both scopes.               *)
Quiet ==
  /\ Calm /\ Faults = {} /\ ~Keys /\ "luks" \notin Contents
  /\ MountPropagationMode # "separate"
  /\ Upsets \subseteq {"plug", "crash", "reboot", "edit", "reinstate"}

Writable(tbl) == \A i \in DOMAIN tbl : ~tbl[i].ro
NoErrors(bs) == \A i \in DOMAIN bs : bs[i].kind # "error"

Sound ==
  /\ transient \cup durable = {}
  /\ \A d \in Drives : ~broken[d] /\ content[d] # "luks"
  /\ \A s \in Scopes : Writable(mounts[s])
  /\ batch.kind # "error" /\ NoErrors(queue) /\ NoErrors(outbox)

(* What the converger knows of its drives.                                  *)
FormatKnown == \A d \in Known : formatted[d] <=> content[d] = "xfs"
Homed == \A d \in Known : ~WorksOn(d) => AtHome(d)
GoesWell ==
  /\ op \notin {"fail", "teardown", "umount"}
  /\ op = "format" => ~formatted[Current]
  /\ op \in {"unmount", "mount", "clear"} => formatted[Current]

QuietInv == FailureInv /\ Sound /\ FormatKnown /\ Homed /\ GoesWell

(* Reading and changing a table without read-only mounts.                   *)
LEMMA WritableKept ==
  ASSUME NEW tbl \in Seq(MountPoint), Writable(tbl)
  PROVE  /\ \A m \in MountPoint : ~m.ro => Writable(Append(tbl, m))
         /\ \A p : Writable(Unmounted(tbl, p))
<1>1. DOMAIN tbl = 1 .. Len(tbl) /\ Len(tbl) \in Nat
  BY EntryType
<1>2. ASSUME NEW m \in MountPoint, ~m.ro
      PROVE  Writable(Append(tbl, m))
  <2>1. Append(tbl, m) \in Seq(MountPoint)
    BY AppendProperties
  <2>2. \A i \in DOMAIN Append(tbl, m) : Append(tbl, m)[i] = m \/ \E j \in DOMAIN tbl : Append(tbl, m)[i] = tbl[j]
    BY Elements
  <2> QED BY <1>2, <2>2 DEF Writable
<1>3. ASSUME NEW p
      PROVE  Writable(Unmounted(tbl, p))
  <2>1. CASE OnPath(tbl, p) = {}
    BY <2>1 DEF Unmounted
  <2>2. CASE OnPath(tbl, p) # {}
    <3>1. PICK i \in 1 .. Len(tbl) : Unmounted(tbl, p) = RemoveAt(tbl, i)
      <4>1. Newest(tbl, p) \in 1 .. Len(tbl)
        BY <2>2, NewestType
      <4> QED BY <2>2, <4>1 DEF Unmounted
    <3> DEFINE r == RemoveAt(tbl, i)
    <3>2. /\ r \in Seq(MountPoint) /\ Len(r) = Len(tbl) - 1
          /\ \A j \in 1 .. Len(tbl) - 1 : r[j] = IF j < i THEN tbl[j] ELSE tbl[j + 1]
      BY RemoveAtProperties
    <3> HIDE DEF r
    <3>3. DOMAIN r = 1 .. Len(tbl) - 1
      BY <3>2, EntryType
    <3>4. \A j \in 1 .. Len(tbl) - 1 : j \in DOMAIN tbl /\ j + 1 \in DOMAIN tbl
      BY <1>1
    <3>5. \A j \in 1 .. Len(tbl) - 1 : ~r[j].ro
      BY <3>2, <3>4 DEF Writable
    <3>6. Writable(r)
      BY <3>3, <3>5 DEF Writable
    <3> QED BY <3>1, <3>6 DEF r
  <2> QED BY <2>1, <2>2
<1> QED BY <1>2, <1>3

(* Validate accepts a drive that it knows nothing of yet, wherever that may *)
(* be mounted, and one that is where it was left.                           *)
LEMMA ValidateAccepts ==
  ASSUME FailureInv, cache = mounts, MountPropagationMode # "separate",
         \A s \in Scopes : Writable(mounts[s]), NEW d \in Drives,
         mountPath[d] = NoPath \/ AtHome(d)
  PROVE  Validate(d).ok
<1> DEFINE k == mountPath[d]
           h == Discover(d, "host", k)
           l == Discover(d, "local", h)
<1>1. mounts["local"] = mounts["host"] /\ "host" \in Scopes /\ "local" \in Scopes
  BY DEF FailureInv, MountInv, Tidy, Scopes
<1>2. MountsOf(d, "local") = MountsOf(d, "host")
  BY <1>1 DEF MountsOf
<1>3. PathsOf(d, "host") = {mounts["host"][i].path : i \in MountsOf(d, "host")}
  BY DEF PathsOf, PathsIn, MountsOf
<1>4. \A i \in MountsOf(d, "host") : ~mounts["host"][i].ro /\ mounts["host"][i].path \in PathsOf(d, "host")
  BY <1>1, <1>3 DEF MountsOf, Writable
<1>5. CASE MountsOf(d, "host") = {}
  <2>1. PathsOf(d, "host") = {}
    BY <1>3, <1>5
  <2>2. k = NoPath
    BY <1>1, <2>1 DEF AtHome
  <2>3. h = NoPath /\ l = NoPath
    BY <1>2, <1>5 DEF Discover
  <2> QED BY <1>2, <1>5, <2>2, <2>3 DEF Validate, ValidIn
<1>6. CASE MountsOf(d, "host") # {}
  <2>1. mounts["host"] \in Seq(MountPoint)
    BY <1>1, FailureTypes, PathsType
  <2>2. MountsOf(d, "host") \in SUBSET Nat
    BY <2>1, EntryType DEF MountsOf
  <2>3. PICK i \in MountsOf(d, "host") : Min(MountsOf(d, "host")) = i
    <3>1. \E i \in MountsOf(d, "host") : \A j \in MountsOf(d, "host") : i <= j
      BY <1>6, <2>2, LeastExists
    <3> QED BY <3>1 DEF Min
  <2> DEFINE p == mounts["host"][i].path
  <2>4. p \in PathsOf(d, "host") /\ ~mounts["host"][i].ro
    BY <1>4, <2>3
  <2>5. p # NoPath
    BY <1>1, <2>4, FailureTypes, PathFacts
  <2>6. \A q \in PathsOf(d, "host") : q = p
    BY <1>1, <2>4 DEF FailureInv, MountInv, OnePath
  <2>7. k \in {NoPath, p}
    BY <1>1, <2>4 DEF AtHome
  <2>8. h = p
    BY <1>1, <1>6, <2>3, <2>4, <2>7 DEF Discover
  <2>9. l = p
    BY <1>2, <1>6, <2>5, <2>8 DEF Discover
  <2>10. ValidIn(d, "host", k, h) /\ ValidIn(d, "local", h, l)
    BY <1>1, <1>2, <1>4, <1>6, <2>6, <2>8, <2>9 DEF ValidIn
  <2> QED BY <2>10 DEF Validate
<1> QED BY <1>5, <1>6

(* The part of Sound and GoesWell that a command must keep.                 *)
Fine(d) ==
  /\ UNCHANGED <<transient, durable, broken>>
  /\ \A s \in Scopes : Writable(mounts'[s])
  /\ \A e \in Drives : content'[e] # "luks"
  /\ \A e \in Drives : e # d => content'[e] = content[e] /\ formatted'[e] = formatted[e]
  /\ formatted'[d] <=> content'[d] = "xfs"
  /\ op' \notin {"fail", "teardown", "umount"}
  /\ op' = "format" => ~formatted'[d]
  /\ op' \in {"unmount", "mount", "clear"} => formatted'[d]

LEMMA QuietFacts ==
  ASSUME Quiet, QuietInv, Busy, NEW d, d = Current
  PROVE  /\ d \in Drives /\ d \in Known /\ d \in devices /\ cache = mounts /\ d \notin hasLUKS
         /\ unreadable = {} /\ ~broken[d] /\ content[d] # "luks" /\ op \notin {"fail", "teardown", "umount"}
         /\ op \notin {"luksFormat", "luksOpen", "descend", "setup", "close"}
         /\ formatted \in [Drives -> BOOLEAN] /\ content \in [Drives -> {"blank", "xfs", "luks"}]
         /\ \A e \in Drives : content[e] # "luks"
         /\ formatted[d] <=> content[d] = "xfs"
         /\ op = "format" => ~formatted[d]
         /\ op \in {"unmount", "mount", "clear"} => formatted[d]
         /\ \A s \in Scopes : Writable(mounts[s])
         /\ scope \in Scopes
<1>1. d \in Drives /\ d \in Known /\ cache = mounts /\ scope \in Scopes
  BY JobFacts DEF Quiet, QuietInv
<1>2. d \in devices /\ unreadable = {}
  BY <1>1 DEF QuietInv, FailureInv, OnlyAdditions, LuksInv, Contained
<1>3. d \notin hasLUKS
  BY <1>1 DEF Quiet, QuietInv, Sound, FailureInv, LuksInv, Classified
<1>4. op \notin {"luksFormat", "luksOpen", "descend", "setup", "close"}
  BY <1>3 DEF Quiet, QuietInv, FailureInv, LuksInv, LuksJob
<1>5. formatted \in [Drives -> BOOLEAN] /\ content \in [Drives -> {"blank", "xfs", "luks"}]
  BY FailureTypes DEF QuietInv, DriveTypeOK
<1>6. ~broken[d] /\ (\A e \in Drives : content[e] # "luks") /\ \A s \in Scopes : Writable(mounts[s])
  BY <1>1 DEF QuietInv, Sound
<1>7. formatted[d] <=> content[d] = "xfs"
  BY <1>1 DEF QuietInv, FormatKnown
<1>8. /\ op \notin {"fail", "teardown", "umount"}
      /\ op = "format" => ~formatted[d]
      /\ op \in {"unmount", "mount", "clear"} => formatted[d]
  BY DEF QuietInv, GoesWell
<1> QED BY <1>1, <1>2, <1>3, <1>4, <1>5, <1>6, <1>7, <1>8

(* Every command of a setup succeeds.                                       *)
LEMMA BusyFine ==
  ASSUME Quiet, QuietInv, [Next]_vars, Busy, NEW d, d = Current
  PROVE  Fine(d)
<1>1. /\ d \in Drives /\ d \in Known /\ d \in devices /\ cache = mounts /\ d \notin hasLUKS
      /\ unreadable = {} /\ ~broken[d] /\ content[d] # "luks" /\ op \notin {"fail", "teardown", "umount"}
      /\ op \notin {"luksFormat", "luksOpen", "descend", "setup", "close"}
      /\ formatted \in [Drives -> BOOLEAN] /\ content \in [Drives -> {"blank", "xfs", "luks"}]
      /\ \A e \in Drives : content[e] # "luks"
      /\ formatted[d] <=> content[d] = "xfs"
      /\ op = "format" => ~formatted[d]
      /\ op \in {"unmount", "mount", "clear"} => formatted[d]
      /\ \A s \in Scopes : Writable(mounts[s])
      /\ scope \in Scopes
  BY QuietFacts
<1>2. Faults = {} /\ MountPropagationMode # "separate" /\ FailureInv /\ Calm
  BY DEF Quiet, QuietInv
<1>3. CASE ConvergeHealthy
  <2>1. ToConverge /\ BeginSetup(d)
    BY <1>1, <1>3 DEF ConvergeHealthy, Setup
  <2>2. mountPath[d] = NoPath \/ AtHome(d)
    <3>1. CASE phase = "handle" /\ op = "converge"
      BY <3>1, <1>2 DEF FailureInv, DriveStates, JobInv, Job
    <3>2. CASE op = "idle"
      BY <1>1, <3>2 DEF QuietInv, Homed, WorksOn
    <3> QED BY <2>1, <3>1, <3>2 DEF ToConverge
  <2>3. Validate(d).ok
    BY <1>1, <1>2, <2>2, ValidateAccepts
  <2>4. UNCHANGED <<transient, durable, broken, mounts, content, formatted>>
        /\ op' = IF formatted[d] THEN "unmount" ELSE "format"
    BY <2>1, <2>3 DEF BeginSetup, hostVars, flags, disks
  <2> QED BY <1>1, <2>4 DEF Fine
<1>4. CASE Format(d)
  <2>1. op = "format" /\ ~Encrypted(d) /\ LooksEmpty(d)
    BY <1>1, <1>4 DEF Format, Encrypted, LooksEmpty, Reachable, Accessible, Filesystem
  <2>2. /\ content' = [content EXCEPT ![d] = "xfs"] /\ formatted' = [formatted EXCEPT ![d] = TRUE]
        /\ op' = "unmount" /\ UNCHANGED <<transient, durable, broken, mounts>>
    BY <1>2, <1>4, <2>1 DEF Format, Fails, Fault, flags
  <2> QED BY <1>1, <2>2 DEF Fine
<1>5. CASE UnmountOther(d)
  <2>1. PICK p \in todo : UnmountDevice(p, scope) /\ UNCHANGED op
    BY <1>1, <1>2, <1>5, UmountWorks DEF UnmountOther
  <2>2. op = "unmount" /\ UNCHANGED <<transient, durable, broken, content, formatted>>
    BY <1>5 DEF UnmountOther, flags, disks, fields
  <2>3. \A s \in Scopes : mounts'[s] \in {mounts[s], Unmounted(mounts[s], p)}
    BY <2>1 DEF UnmountDevice, KernelUmount
  <2>4. \A s \in Scopes : mounts[s] \in Seq(MountPoint)
    BY <1>2, FailureTypes, PathsType
  <2>5. \A s \in Scopes : Writable(mounts'[s])
    BY <1>1, <2>3, <2>4, WritableKept
  <2> QED BY <1>1, <2>1, <2>2, <2>5 DEF Fine
<1>6. CASE OthersUnmounted(d)
  <2>1. /\ op = "unmount" /\ op' \in {"unmount", "mount"}
        /\ UNCHANGED <<transient, durable, broken, mounts, content, formatted>>
    BY <1>6 DEF OthersUnmounted, hostVars, flags, disks
  <2> QED BY <1>1, <2>1 DEF Fine
<1>7. CASE Mount(d)
  <2>1. op = "mount" /\ UNCHANGED <<transient, durable, broken, content, formatted>>
    BY <1>7 DEF Mount, flags, disks
  <2>2. Job(d) /\ GetMountPointsOf(d, scope) = PathsOf(d, scope)
    BY <1>1, <1>2, <2>1, JobFacts
  <2>3. ~MountFails(d, target, scope)
    <3>1. SUFFICES ASSUME target \notin PathsOf(d, scope), ~CanMount(d, target, scope) PROVE FALSE
      BY <1>2, <2>2 DEF MountFails, Fails, Fault
    <3>2. content[d] = "xfs" /\ Reachable(d) /\ Filesystem(d) = "xfs"
      BY <1>1, <2>1 DEF Reachable, Accessible, Filesystem, Encrypted
    <3>3. PICK i \in OnPath(mounts[scope], target) : mounts[scope][i].dev = d
      BY <3>1, <3>2 DEF CanMount
    <3>4. target \in PathsOf(d, scope)
      BY <3>3 DEF OnPath, PathsOf, PathsIn
    <3> QED BY <3>1, <3>4
  <2>4. MountDevice(d, target, scope) /\ op' \in {"mount", "clear"}
    BY <1>7, <2>1, <2>3 DEF Mount
  <2> DEFINE m == [dev |-> d, path |-> target, ro |-> FALSE]
  <2>5. \A s \in Scopes : mounts'[s] \in {mounts[s], Append(mounts[s], m)}
    BY <2>4 DEF MountDevice, KernelMount
  <2>6. target \in Paths
    BY <1>2, <2>1, FailureTypes DEF TypeInv, TargetIsPath
  <2>7. m \in MountPoint /\ ~m.ro
    BY <1>1, <2>6 DEF MountPoint
  <2>8. \A s \in Scopes : mounts[s] \in Seq(MountPoint)
    BY <1>2, FailureTypes, PathsType
  <2> HIDE DEF m
  <2>9. \A s \in Scopes : Writable(mounts'[s])
    <3>1. \A s \in Scopes : Writable(mounts[s])
      BY <1>1
    <3> QED BY <2>5, <2>7, <2>8, <3>1, WritableKept
  <2> QED BY <1>1, <2>1, <2>4, <2>9 DEF Fine
<1>8. CASE ClearPropagation
  <2>1. op' = "done" /\ UNCHANGED <<transient, durable, broken, mounts, content, formatted>>
    BY <1>8 DEF ClearPropagation, disks, fields
  <2> QED BY <1>1, <2>1 DEF Fine
<1>9. /\ ~ConvergeBroken /\ ~Announce(d) /\ ~Umount(d) /\ ~FilesystemTornDown(d) /\ ~GiveUp(d)
      /\ ~SetupInside(d) /\ ~LUKSFormat(d) /\ ~LUKSOpen(d) /\ ~Descend(d) /\ ~LUKSClose(d)
  BY <1>1 DEF ConvergeBroken, Announce, Umount, SetupInside, LUKSFormat, LUKSOpen, Descend, LUKSClose,
     FilesystemTornDown, GiveUp
<1>10. ConvergeHealthy \/ Format(d) \/ UnmountOther(d) \/ OthersUnmounted(d) \/ Mount(d) \/ ClearPropagation
  BY <1>9 DEF Busy
<1> QED BY <1>3, <1>4, <1>5, <1>6, <1>7, <1>8, <1>10

(* So the drive gets where it is meant to be.                               *)
LEMMA BusyQuiet ==
  ASSUME Quiet, QuietInv, [Next]_vars, Busy
  PROVE  Sound' /\ FormatKnown' /\ Homed' /\ GoesWell'
<1>1. PICK d : d = Current
  OBVIOUS
<1>2. Fine(d) /\ FailureInv /\ Calm /\ Sound /\ FormatKnown /\ Homed
  BY <1>1, BusyFine DEF Quiet, QuietInv
<1>3. /\ UNCHANGED <<queue, outbox, batch>> /\ Current' = d /\ Known' = Known /\ op' # "idle" /\ d \in Known
  BY <1>1, <1>2, BusyFrame
<1>4. Known \subseteq Drives
  BY <1>2, FailureTypes
<1>5. Sound'
  BY <1>2, <1>3 DEF Sound, Fine, NoErrors
<1>6. FormatKnown'
  BY <1>2, <1>3, <1>4 DEF FormatKnown, Fine
<1>7. ASSUME NEW e \in Known, e # d
      PROVE  AtHome(e)'
  <2>1. AtHome(e)
    BY <1>1, <1>2, <1>7 DEF Homed, WorksOn
  <2>2. mountPath'[e] = mountPath[e] /\ \A s \in Scopes : PathsOf(e, s)' = PathsOf(e, s)
    BY <1>1, <1>2, <1>4, <1>7, BusyKeeps
  <2> QED BY <2>1, <2>2 DEF AtHome
<1>8. Homed'
  BY <1>3, <1>7 DEF Homed, WorksOn
<1>9. GoesWell'
  BY <1>2, <1>3 DEF GoesWell, Fine
<1> QED BY <1>5, <1>6, <1>8, <1>9

(* The events.                                                              *)
LEMMA HandlerQuiet ==
  ASSUME Quiet, QuietInv, Handler, ListInv'
  PROVE  Sound' /\ FormatKnown' /\ Homed' /\ GoesWell'
<1>1. FailureInv /\ Calm /\ Sound /\ FormatKnown /\ Homed /\ GoesWell
  BY DEF Quiet, QuietInv
<1>2. /\ Known \subseteq Drives /\ formatted \in [Drives -> BOOLEAN] /\ broken \in [Drives -> BOOLEAN]
      /\ devices \subseteq Drives
  BY <1>1, FailureTypes DEF DriveTypeOK
<1>3. CASE HandleAdded \/ HandleReinstated
  <2> DEFINE d == Head(batch.devs)
  <2>1. /\ d \in devices /\ NewDevice(d) /\ Known' \subseteq Known \cup {d}
        /\ op = "idle" /\ op' = "converge" /\ (WorksOn(d))' /\ d' = d
        /\ UNCHANGED <<phase, batch, queue, outbox, mounts, content, durable>>
    <3>1. CASE HandleAdded
      BY <1>1, <3>1, AddedList DEF HandleAdded, Handling, collectorVars, disks, WorksOn, Current
    <3>2. CASE HandleReinstated
      BY <1>1, <3>2 DEF HandleReinstated, Handling, ctlVars, collectorVars, disks, Known, WorksOn, Current,
         FailureInv, OnlyAdditions
    <3> QED BY <1>3, <3>1, <3>2
  <2>2. Classify(d) = {content[d]} /\ d \notin transient \cup durable
    BY <1>1, <2>1, ClassifyPlain DEF Sound
  <2>3. /\ broken' = [broken EXCEPT ![d] = d \in transient \cup durable]
        /\ mountPath' = [mountPath EXCEPT ![d] = NoPath]
    BY <1>1, <2>1, NewDeviceEffect
  <2>4. formatted' = [formatted EXCEPT ![d] = content[d] = "xfs"] /\ UNCHANGED transient
    <3>1. NewDrive(d, content[d])
      BY <2>1, <2>2 DEF NewDevice
    <3> QED BY <2>2, <3>1 DEF NewDrive
  <2> HIDE DEF d
  <2>5. Sound'
    BY <1>1, <1>2, <2>1, <2>2, <2>3, <2>4 DEF Sound, NoErrors
  <2>6. FormatKnown'
    BY <1>1, <1>2, <2>1, <2>4 DEF FormatKnown
  <2>7. ASSUME NEW e \in Known', ~WorksOn(e)'
        PROVE  AtHome(e)'
    <3>1. e # d /\ e \in Known /\ ~WorksOn(e)
      BY <2>1, <2>7 DEF WorksOn
    <3>2. AtHome(e) /\ mountPath'[e] = mountPath[e]
      <4>1. mountPath \in [Drives -> Paths \cup {NoPath}]
        BY <1>1, FailureTypes
      <4> QED BY <1>1, <1>2, <2>3, <3>1, <4>1 DEF Homed
    <3> QED BY <2>1, <3>2 DEF AtHome, PathsOf
  <2> QED BY <2>1, <2>5, <2>6, <2>7 DEF Homed, GoesWell
<1>4. CASE Receive
  <2>1. /\ queue # <<>> /\ batch' = Head(queue) /\ queue' = Tail(queue) /\ phase = "wait"
        /\ UNCHANGED <<outbox, drives, op, transient, durable, content, mounts, broken, formatted, mountPath>>
    BY <1>4 DEF Receive, hostVars, flags, disks, fields, job
  <2>2. op = "idle"
    BY <1>1, <2>1, BusyPhase
  <2>3. queue \in Seq(Batch)
    BY <1>1, BatchTypes
  <2>4. batch'.kind # "error" /\ NoErrors(queue')
    BY <1>1, <2>1, <2>3, Elements DEF Sound, NoErrors
  <2>5. Sound'
    BY <1>1, <2>1, <2>4 DEF Sound
  <2> QED BY <1>1, <2>1, <2>2, <2>5 DEF FormatKnown, Homed, GoesWell, WorksOn, AtHome, PathsOf, Known
<1>5. CASE HandleUnknown \/ EventHandled
  <2>1. /\ batch' = [batch EXCEPT !.devs = Tail(@)] /\ op \in {"idle", "done"} /\ op' = "idle"
        /\ UNCHANGED <<queue, outbox, drives, transient, durable, content, mounts, broken, formatted, mountPath>>
    <3>1. batch.kind # "removed"
      BY <1>1 DEF FailureInv, OnlyAdditions, Harmless, HarmlessIn
    <3> QED BY <1>5, <3>1 DEF HandleUnknown, EventHandled, EventDone, hostVars, flags, disks, fields,
               deviceVars, driveVars, collectorVars, job
  <2>2. batch'.kind = batch.kind
    <3>1. batch \in Batch
      BY <1>1, BatchTypes
    <3> QED BY <2>1, <3>1 DEF Batch
  <2>3. Sound'
    BY <1>1, <2>1, <2>2 DEF Sound
  <2>4. ASSUME NEW e \in Known
        PROVE  AtHome(e)
    <3>1. CASE WorksOn(e)
      <4>1. InPlace(e)
        BY <1>1, <2>1, <3>1 DEF WorksOn, FailureInv, DriveStates, JobInv, Job
      <4> QED BY <1>1, <1>2, <4>1 DEF InPlace, Sound
    <3> QED BY <1>1, <3>1 DEF Homed
  <2> QED BY <1>1, <2>1, <2>3, <2>4 DEF FormatKnown, Homed, GoesWell, AtHome, PathsOf, Known
<1>6. ~HandleError
  BY <1>1 DEF HandleError, Handling, Sound
<1> QED BY <1>3, <1>4, <1>5, <1>6 DEF Handler

(* The loops of an iteration.                                               *)
LEMMA LoopQuiet ==
  ASSUME Quiet, QuietInv, Loop
  PROVE  Sound' /\ FormatKnown' /\ Homed' /\ GoesWell'
<1>1. FailureInv /\ Calm /\ Sound /\ FormatKnown /\ Homed /\ GoesWell /\ Known \subseteq Drives
  BY FailureTypes DEF Quiet, QuietInv
<1>2. /\ op \in {"idle", "done"} /\ op' = "idle" /\ batch' \in {batch, NoEvent}
      /\ UNCHANGED <<queue, outbox, drives, transient, durable, content, mounts, broken, formatted, mountPath>>
  <2>1. CASE NextDrive
    BY <2>1 DEF NextDrive, hostVars, flags, disks, fields, collectorVars
  <2>2. CASE ~NextDrive
    <3>1. phase \in {"handle", "scan", "assign"} \/ (phase \in {"pass1", "pass2"} /\ ~InPass)
      <4>1. Len(drives) \in Nat /\ at \in Nat
        BY <1>1, FailureTypes
      <4>2. CASE phase \in {"pass1", "pass2"}
        <5>1. at > Len(drives)
          BY <2>2, <4>2 DEF Loop, BeginConverge, EndPass1, Scan, EndScan, Assign, BeginPass2, EndConverge
        <5>2. ~(at <= Len(drives))
          BY <4>1, <5>1
        <5> QED BY <4>2, <5>2 DEF InPass
      <4>3. CASE phase \notin {"pass1", "pass2"}
        BY <2>2, <4>3 DEF Loop, BeginConverge, EndPass1, Scan, EndScan, Assign, BeginPass2, EndConverge
      <4> QED BY <4>2, <4>3
    <3>2. op = "idle"
      <4>1. phase = "handle" => op = "idle"
        BY <2>2 DEF Loop, BeginConverge, EndPass1, Scan, EndScan, Assign, BeginPass2, EndConverge
      <4> QED BY <1>1, <3>1, <4>1, BusyPhase
    <3>3. /\ UNCHANGED <<op, queue, outbox, drives, transient, durable, content, mounts, broken, formatted, mountPath>>
          /\ batch' \in {batch, NoEvent}
      BY <2>2 DEF Loop, BeginConverge, EndPass1, Scan, ScanDrive, EndScan, Assign, AssignDrive,
         BeginPass2, EndConverge, hostVars, flags, disks, fields, job, deviceVars, driveVars, collectorVars
    <3> QED BY <3>2, <3>3
  <2> QED BY <2>1, <2>2
<1>3. NoEvent.kind # "error"
  BY DEF NoEvent, Event
<1>4. Sound'
  BY <1>1, <1>2, <1>3 DEF Sound
<1>5. ASSUME NEW e \in Known
      PROVE  AtHome(e)
  <2>1. CASE WorksOn(e)
    <3>1. InPlace(e)
      BY <1>1, <1>2, <2>1 DEF WorksOn, FailureInv, DriveStates, JobInv, Job
    <3> QED BY <1>1, <3>1 DEF InPlace, Sound
  <2> QED BY <1>1, <2>1 DEF Homed
<1> QED BY <1>1, <1>2, <1>4, <1>5 DEF FormatKnown, Homed, GoesWell, AtHome, PathsOf, Known

(* The rest of the world.                                                   *)
LEMMA WorldQuiet ==
  ASSUME Quiet, QuietInv, CalmUpset \/ End \/ Outside \/ NoStep
  PROVE  Sound' /\ FormatKnown' /\ Homed' /\ GoesWell'
<1>1. FailureInv /\ Calm /\ Sound /\ FormatKnown /\ Homed /\ GoesWell
  BY DEF Quiet, QuietInv
<1>2. {"diskerror", "umount", "readonly", "durable"} \cap Upsets = {}
  BY DEF Quiet
<1>3. CASE CalmUpset
  <2>1. EditSwiftID \/ Plug
    <3>1. ~DeleteFlag
      BY <1>1 DEF DeleteFlag, Sound
    <3> QED BY <1>2, <1>3, <3>1
            DEF CalmUpset, ExternalUmount, ExternalClose, RemountReadonly, CreateDurableFlag, Upset, Quiet
  <2>2. UNCHANGED <<op, phase, at, batch, queue, outbox, drives, transient, durable, content, mounts, broken,
                    formatted, mountPath>>
    BY <1>3, <2>1 DEF CalmUpset, EditSwiftID, Plug, flags, fields, job, ctlVars,
       deviceVars, driveVars, collectorVars
  <2> QED BY <1>1, <2>2 DEF Sound, FormatKnown, Homed, GoesWell, WorksOn, AtHome, PathsOf, Known, Current
<1>4. CASE End
  <2>1. /\ queue' = <<>> /\ outbox' = <<>> /\ batch' = NoEvent /\ op' = "idle" /\ drives' = <<>>
        /\ broken' = [d \in Drives |-> FALSE]
    BY <1>4 DEF End, ProcessEnds, DriveReset, CollectorsReset
  <2>2. /\ UNCHANGED content /\ transient' \subseteq transient /\ UNCHANGED durable
        /\ UNCHANGED mounts \/ mounts' = [s \in Scopes |-> <<>>]
    BY <1>4 DEF End, hostVars, disks, flags, HostReboot
  <2>3. \A s \in Scopes : Writable(mounts'[s])
    BY <1>1, <2>2 DEF Sound, Writable
  <2>4. Known' = {} /\ NoEvent.kind # "error" /\ NoErrors(<<>>)
    BY <2>1 DEF Known, ToSet, NoEvent, Event, NoErrors
  <2> QED BY <1>1, <2>1, <2>2, <2>3, <2>4 DEF Sound, FormatKnown, Homed, GoesWell
<1>5. CASE Outside \/ NoStep
  <2>1. ~LogError
    BY <1>2 DEF LogError, Upset
  <2>2. UNCHANGED <<op, at, batch, drives, transient, durable, content, mounts, broken, formatted, mountPath>>
        /\ (op # "idle" => UNCHANGED phase)
    <3>1. phase = "dead" => op = "idle"
      BY <1>1, BusyPhase
    <3> QED BY <1>5, <2>1, <3>1 DEF Outside, NoStep, vars, CollectorStep, Restart, hostVars, flags, disks, fields, job, ctlVars,
         deviceVars, driveVars
  <2>3. NoErrors(queue') /\ NoErrors(outbox')
    <3>1. queue \in Seq(Batch) /\ outbox \in Seq(Batch) /\ NoErrors(queue) /\ NoErrors(outbox)
      BY <1>1, BatchTypes DEF Sound
    <3>2. CASE UNCHANGED <<queue, outbox>>
      BY <3>1, <3>2
    <3>3. CASE CollectDrives
      <4>1. PICK gone \in SUBSET Drives, new \in SUBSET Drives :
              \E r \in BatchOf("removed", gone, Sorted(gone)), a \in BatchOf("added", new, Sorted(new)) :
                outbox' = outbox \o r \o a
        <5>1. knownDrives \ devices \in SUBSET Drives /\ {d \in devices \ knownDrives : Eligible(d)} \in SUBSET Drives
          BY <1>1, FailureTypes, BatchTypes
        <5> QED BY <3>3, <5>1, Zenon DEF CollectDrives
      <4>2. PICK r \in BatchOf("removed", gone, Sorted(gone)), a \in BatchOf("added", new, Sorted(new)) :
              outbox' = outbox \o r \o a
        BY <4>1
      <4>3. r \in Seq(Batch) /\ a \in Seq(Batch) /\ NoErrors(r) /\ NoErrors(a)
        <5>1. ASSUME NEW S \in SUBSET Drives, NEW kind \in {"removed", "added"}, NEW b \in BatchOf(kind, S, Sorted(S))
              PROVE  b \in Seq(Batch) /\ NoErrors(b)
          <6>1. b = <<>> \/ \E s \in Sorted(S) : b = <<Event(kind, s)>>
            BY <5>1 DEF BatchOf
          <6>2. b = <<>> => b \in Seq(Batch) /\ NoErrors(b)
            BY EmptySeq DEF NoErrors
          <6>3. ASSUME NEW s \in Sorted(S)
                PROVE  <<Event(kind, s)>> \in Seq(Batch) /\ NoErrors(<<Event(kind, s)>>)
            <7>1. s \in Seq(Drives)
              BY SortedListsAll
            <7>2. Event(kind, s) \in Batch /\ Event(kind, s).kind = kind
              BY <1>1, <7>1, BatchTypes DEF Kinds
            <7> HIDE DEF Event
            <7> QED BY <7>2 DEF NoErrors
          <6> QED BY <6>1, <6>2, <6>3
        <5> QED BY <5>1
      <4>4. outbox \o r \in Seq(Batch) /\ NoErrors(outbox \o r)
        <5>1. outbox \o r \in Seq(Batch)
          BY <3>1, <4>3, ConcatProperties
        <5> QED BY <3>1, <4>3, <5>1, Elements DEF NoErrors
      <4>5. NoErrors(outbox \o r \o a)
        BY <4>3, <4>4, Elements DEF NoErrors
      <4> QED BY <3>1, <3>3, <4>2, <4>5 DEF CollectDrives
    <3>4. CASE SendDriveEvents
      <4>1. outbox # <<>> /\ queue' = Append(queue, Head(outbox)) /\ outbox' = Tail(outbox)
        BY <3>4 DEF SendDriveEvents
      <4>2. Head(outbox) \in Batch /\ Head(outbox).kind # "error" /\ NoErrors(Tail(outbox))
        BY <3>1, <4>1, Elements DEF NoErrors
      <4> QED BY <3>1, <4>1, <4>2, Elements DEF NoErrors
    <3>5. CASE SendReinstatements
      <4>1. Head(held) \in Batch /\ Head(held).kind # "error"
        BY <1>1, <3>5, BatchTypes DEF SendReinstatements
      <4> QED BY <3>1, <3>5, <4>1, Elements DEF SendReinstatements, NoErrors
    <3>6. CASE ScheduleWakeup
      <4>1. NoEvent \in Batch /\ NoEvent.kind # "error"
        BY EmptySeq DEF NoEvent, Event, Batch, Kinds
      <4>2. queue' = Append(queue, NoEvent) /\ UNCHANGED outbox
        BY <3>6 DEF ScheduleWakeup, NoEvent
      <4> QED BY <3>1, <4>1, <4>2, Elements DEF NoErrors
    <3>7. CASE CollectReinstatements \/ Restart \/ NoStep
      BY <3>1, <3>7 DEF CollectReinstatements, Restart, NoStep, vars, collectorVars
    <3> QED BY <1>5, <2>1, <3>2, <3>3, <3>4, <3>5, <3>6, <3>7 DEF Outside, CollectorStep, Collect
  <2>4. Sound'
    BY <1>1, <2>2, <2>3 DEF Sound
  <2>5. \A e \in Known : AtHome(e) <=> AtHome(e)'
    BY <2>2 DEF AtHome, PathsOf
  <2>6. \A e : WorksOn(e)' <=> WorksOn(e)
    BY <2>2 DEF WorksOn, Current
  <2>7. op # "idle" => Current' = Current
    BY <2>2 DEF Current
  <2> QED BY <1>1, <2>2, <2>4, <2>5, <2>6, <2>7 DEF FormatKnown, Homed, GoesWell, Known
<1> QED BY <1>3, <1>4, <1>5

LEMMA QuietStep == Quiet /\ QuietInv /\ [Next]_vars => QuietInv'
<1> SUFFICES ASSUME Quiet, QuietInv, [Next]_vars PROVE QuietInv'
  OBVIOUS
<1>1. FailureInv' /\ Calm /\ FailureInv
  BY FailureStep DEF Quiet, QuietInv
<1>2. Busy \/ Handler \/ Loop \/ CalmUpset \/ End \/ Outside \/ NoStep
  BY <1>1, CalmSteps
<1>3. ListInv'
  BY <1>1 DEF FailureInv
<1> QED BY <1>1, <1>2, <1>3, BusyQuiet, HandlerQuiet, LoopQuiet, WorldQuiet DEF QuietInv

LEMMA QuietStart == Quiet /\ Init => QuietInv
<1> SUFFICES ASSUME Quiet, Init PROVE QuietInv
  OBVIOUS
<1>1. FailureInv
  BY FailureStart DEF Quiet
<1>2. /\ transient = {} /\ durable = {} /\ content \in [Drives -> Contents]
      /\ mounts = [s \in Scopes |-> <<>>] /\ broken = [d \in Drives |-> FALSE] /\ op = "idle"
      /\ queue = <<>> /\ outbox = <<>> /\ drives = <<>> /\ batch = NoEvent
  BY DEF Init, HostInit, DriveInit, CollectorsInit
<1>3. Known = {} /\ NoEvent.kind # "error" /\ NoErrors(<<>>) /\ Writable(<<>>)
  BY <1>2 DEF Known, ToSet, NoEvent, Event, NoErrors, Writable
<1> QED BY <1>1, <1>2, <1>3 DEF Quiet, QuietInv, Sound, FormatKnown, Homed, GoesWell

(* Without a fault of a disk, a command or a mount no drive is ever taken   *)
(* for broken, whatever a process that ended has left behind.               *)
THEOREM SoundDrivesUnbroken == ASSUME Quiet PROVE Spec => []NoFalseAlarm
<1>1. QuietInv => NoFalseAlarm
  BY DEF QuietInv, Sound, NoFalseAlarm
<1> QED BY <1>1, QuietStart, QuietStep, PTL DEF Spec

-----------------------------------------------------------------------------
(* The order of the pool.  Spare disks are told apart by how many of them   *)
(* the pool lists before.                                                   *)
SparesBefore(k) == {j \in 1 .. k - 1 : Pool[j] = Spare}
SpareNumber(k) == Cardinality(SparesBefore(k))

LEMMA PoolTypes ==
  /\ Len(Pool) \in Nat /\ DOMAIN Pool = 1 .. Len(Pool)
  /\ \A k \in DOMAIN Pool :
       /\ Pool[k] \in IDs \cup {Spare} /\ Spare \notin IDs /\ NoID \notin IDs /\ Spare # NoID
       /\ IsFiniteSet(SparesBefore(k)) /\ SpareNumber(k) \in Nat
       /\ Pool[k] = Spare => PoolName(k) = <<Spare, SpareNumber(k)>>
       /\ Pool[k] # Spare => PoolName(k) = <<Pool[k], 0>>
<1>1. Len(Pool) \in Nat /\ DOMAIN Pool = 1 .. Len(Pool)
  BY PoolAssumption, LenProperties
<1>2. ASSUME NEW k \in DOMAIN Pool
      PROVE  IsFiniteSet(SparesBefore(k)) /\ SpareNumber(k) \in Nat
  <2>1. k - 1 \in Int /\ 1 \in Int
    BY <1>1
  <2>2. IsFiniteSet(1 .. k - 1)
    BY <2>1, FS_Interval
  <2>3. IsFiniteSet(SparesBefore(k))
    BY <2>2, FS_Subset DEF SparesBefore
  <2> QED BY <2>3, FS_CardinalityType DEF SpareNumber
<1>3. \A k \in DOMAIN Pool : Pool[k] \in IDs \cup {Spare}
  BY PoolAssumption, ElementOfSeq, LenProperties
<1>4. Spare # NoID
  BY DEF Spare, NoID
<1> QED BY <1>1, <1>2, <1>3, <1>4, HostAssumption DEF PoolName, SpareNumber, SparesBefore

(* The numbers go up with every spare disk, *)
LEMMA SparesGrow ==
  ASSUME NEW j \in DOMAIN Pool, NEW k \in DOMAIN Pool, j < k, Pool[j] = Spare
  PROVE  /\ SpareNumber(j) < SpareNumber(k)
         /\ (\A i \in j + 1 .. k - 1 : Pool[i] # Spare) => SpareNumber(k) = SpareNumber(j) + 1
<1>1. /\ IsFiniteSet(SparesBefore(j)) /\ IsFiniteSet(SparesBefore(k))
      /\ SpareNumber(j) \in Nat /\ SpareNumber(k) \in Nat
      /\ j \in 1 .. Len(Pool) /\ k \in 1 .. Len(Pool) /\ Len(Pool) \in Nat
  BY PoolTypes
<1> DEFINE T == SparesBefore(j) \cup {j}
<1>2. j \notin SparesBefore(j) /\ T \subseteq SparesBefore(k)
  BY <1>1 DEF SparesBefore
<1>3. IsFiniteSet(T) /\ Cardinality(T) = SpareNumber(j) + 1
  BY <1>1, <1>2, FS_AddElement DEF SpareNumber
<1>4. Cardinality(T) <= SpareNumber(k)
  BY <1>1, <1>2, <1>3, FS_Subset DEF SpareNumber
<1>5. ASSUME \A i \in j + 1 .. k - 1 : Pool[i] # Spare
      PROVE  T = SparesBefore(k)
  <2>1. ASSUME NEW i \in SparesBefore(k), i \notin T PROVE FALSE
    <3>1. i \in 1 .. k - 1 /\ Pool[i] = Spare /\ i # j
      BY <2>1 DEF SparesBefore
    <3>2. i \notin 1 .. j - 1
      BY <2>1, <3>1 DEF SparesBefore
    <3>3. i \in j + 1 .. k - 1
      BY <1>1, <3>1, <3>2
    <3> QED BY <1>5, <3>1, <3>3
  <2> QED BY <1>2, <2>1
<1>6. SpareNumber(j) < SpareNumber(k)
  BY <1>1, <1>3, <1>4
<1>7. ASSUME \A i \in j + 1 .. k - 1 : Pool[i] # Spare
      PROVE  SpareNumber(k) = SpareNumber(j) + 1
  BY <1>3, <1>5, <1>7 DEF SpareNumber
<1> QED BY <1>6, <1>7

(* one at a time.                                                           *)
LEMMA SparesDense ==
  ASSUME NEW k \in DOMAIN Pool, NEW n \in Nat, n < SpareNumber(k)
  PROVE  \E j \in DOMAIN Pool : j < k /\ Pool[j] = Spare /\ SpareNumber(j) = n
<1> DEFINE S == {j \in 1 .. k : SpareNumber(j) > n}
<1>1. k \in 1 .. Len(Pool) /\ Len(Pool) \in Nat /\ DOMAIN Pool = 1 .. Len(Pool)
  BY PoolTypes
<1>2. S \in SUBSET Nat /\ k \in S
  BY <1>1
<1>3. PICK m \in S : \A i \in S : m <= i
  BY <1>2, LeastExists
<1>4. m \in 1 .. k /\ m \in DOMAIN Pool /\ SpareNumber(m) > n
  BY <1>1, <1>3
<1>5. SparesBefore(m) # {}
  <2>1. SparesBefore(m) = {} => SpareNumber(m) = 0
    BY FS_EmptySet DEF SpareNumber
  <2> QED BY <1>4, <2>1
<1>6. SparesBefore(m) \in SUBSET (0 .. m) /\ m \in Nat
  BY <1>1, <1>4 DEF SparesBefore
<1>7. PICK p \in SparesBefore(m) : \A i \in SparesBefore(m) : i <= p
  BY <1>5, <1>6, GreatestExists
<1>8. p \in 1 .. m - 1 /\ Pool[p] = Spare /\ p \in DOMAIN Pool /\ p < m
  BY <1>1, <1>4, <1>7 DEF SparesBefore
<1>9. \A i \in p + 1 .. m - 1 : Pool[i] # Spare
  <2>1. SUFFICES ASSUME NEW i \in p + 1 .. m - 1, Pool[i] = Spare PROVE FALSE
    OBVIOUS
  <2>2. i \in SparesBefore(m) /\ ~(i <= p)
    BY <1>1, <1>4, <1>8, <2>1 DEF SparesBefore
  <2> QED BY <1>7, <2>2
<1>10. SpareNumber(m) = SpareNumber(p) + 1
  BY <1>4, <1>8, <1>9, SparesGrow
<1>11. SpareNumber(p) \in Nat
  BY <1>8, PoolTypes
<1>12. ~(SpareNumber(p) > n)
  <2>1. p \in 1 .. k /\ ~(m <= p)
    BY <1>1, <1>4, <1>8
  <2> QED BY <1>3, <2>1
<1>13. SpareNumber(p) = n /\ p < k
  BY <1>1, <1>4, <1>8, <1>10, <1>11, <1>12
<1> QED BY <1>8, <1>13
(* The names in use are those of the disks that the loop has come to.       *)
SparesAmong(S) == {d \in S : swiftID[d] = Spare}
Counted(S) ==
  /\ \A id \in IDs : <<id, 0>> \in taken <=> \E d \in S : swiftID[d] = id
  /\ \A i \in Nat : <<Spare, i>> \in taken <=> i < Cardinality(SparesAmong(S))
Found == IF phase = "scan" THEN {d \in Known : Before(d) /\ ~broken[d]} ELSE Known
NamesCounted ==
  /\ phase \in {"scan", "assign"} => Counted(Found)
  /\ phase = "scan" => spareIdx = Cardinality(SparesAmong(Found))

OrderInv == FailureInv /\ NamesCounted /\ PoolOrder

(* It takes disks that come without a swift-id and get none from an         *)
(* operator, and a pool that lists no id twice.                             *)
Orderly ==
  /\ Calm /\ SwiftIDs = {NoID} /\ "edit" \notin Upsets
  /\ \A j, k \in DOMAIN Pool : Pool[j] = Pool[k] /\ Pool[j] \in IDs => j = k

(* There are finitely many disks to count.                                  *)
LEMMA SparesFinite ==
  ASSUME NEW S \in SUBSET Drives
  PROVE  IsFiniteSet(SparesAmong(S)) /\ Cardinality(SparesAmong(S)) \in Nat
<1>1. IsFiniteSet(SparesAmong(S))
  BY HostAssumption, FS_Subset DEF SparesAmong
<1> QED BY <1>1, FS_CardinalityType

(* During the assignment, all disks with a swift-id are on the list.        *)
LEMMA MarkedKnown ==
  ASSUME Orderly, FailureInv, phase = "assign", Known # {}
  PROVE  /\ \A d \in Drives : swiftID[d] # NoID => d \in Known
         /\ SparesAmong(Drives) = SparesAmong(Known)
<1>1. AddedNow = {} /\ Known \subseteq Drives
  BY FailureTypes DEF HandInv, AddedNow, NoEvent, Event
<1>2. There \subseteq Known
  BY <1>1 DEF FailureInv, AllReported
<1>3. Marked \subseteq There
  BY DEF There, FailureInv, MountInv, MarkedPlugged
<1>4. \A d \in Drives : swiftID[d] # NoID => d \in Known
  BY <1>2, <1>3 DEF Marked, Orderly
<1>5. Spare # NoID
  BY DEF Spare, NoID
<1> QED BY <1>1, <1>4, <1>5 DEF SparesAmong

(* So what is taken from the pool is what is on disks.                      *)
LEMMA TakenOnDisk ==
  ASSUME Orderly, FailureInv, NamesCounted, phase = "assign", Known # {}, NEW k \in DOMAIN Pool
  PROVE  PoolName(k) \in taken <=> OnDisk(k)
<1>1. Known \subseteq Drives /\ Counted(Known)
  BY FailureTypes DEF NamesCounted, Found
<1>2. /\ \A d \in Drives : swiftID[d] # NoID => d \in Known
      /\ SparesAmong(Drives) = SparesAmong(Known)
  BY MarkedKnown
<1>3. /\ Pool[k] \in IDs \cup {Spare} /\ Spare \notin IDs /\ NoID \notin IDs
      /\ SpareNumber(k) \in Nat
      /\ Pool[k] = Spare => PoolName(k) = <<Spare, SpareNumber(k)>>
      /\ Pool[k] # Spare => PoolName(k) = <<Pool[k], 0>>
  BY PoolTypes
<1>4. CASE Pool[k] = Spare
  <2>1. PoolName(k)[2] = SpareNumber(k) /\ PoolName(k) = <<Spare, SpareNumber(k)>>
    BY <1>3, <1>4
  <2>2. PoolName(k) \in taken <=> SpareNumber(k) < Cardinality(SparesAmong(Drives))
    BY <1>1, <1>2, <1>3, <2>1 DEF Counted
  <2>3. Cardinality(SparesAmong(Drives)) \in Nat
    BY SparesFinite
  <2>4. SparesAmong(Drives) = {} => Cardinality(SparesAmong(Drives)) = 0
    BY FS_EmptySet
  <2>5. SpareNumber(k) < Cardinality(SparesAmong(Drives)) => \E d \in Drives : swiftID[d] = Spare
    BY <1>3, <2>4 DEF SparesAmong
  <2>6. OnDisk(k) <=> SpareNumber(k) < Cardinality(SparesAmong(Drives))
    BY <1>3, <1>4, <2>1, <2>3, <2>5 DEF OnDisk, SparesAmong
  <2> QED BY <2>2, <2>6
<1>5. CASE Pool[k] # Spare
  <2>1. Pool[k] \in IDs /\ PoolName(k) = <<Pool[k], 0>>
    BY <1>3, <1>5
  <2>2. PoolName(k) \in taken <=> \E d \in Known : swiftID[d] = Pool[k]
    BY <1>1, <2>1 DEF Counted
  <2>3. OnDisk(k) <=> \E d \in Drives : swiftID[d] = Pool[k]
    BY <1>5 DEF OnDisk
  <2> QED BY <1>1, <1>2, <1>3, <2>1, <2>2, <2>3
<1> QED BY <1>4, <1>5

(* What the scan of one drive makes of the names.                           *)
LEMMA ScanCounts ==
  ASSUME Calm, FailureInv, Scan, NEW d, d = drives[at]
  PROVE  /\ broken[d] \/ swiftID[d] = NoID => UNCHANGED <<taken, spareIdx>>
         /\ ~broken[d] /\ swiftID[d] = Spare =>
              taken' = taken \cup {<<Spare, spareIdx>>} /\ spareIdx' = spareIdx + 1
         /\ ~broken[d] /\ swiftID[d] \in IDs =>
              taken' = taken \cup {<<swiftID[d], 0>>} /\ UNCHANGED spareIdx
<1>1. /\ phase = "scan" /\ at <= Len(drives) /\ ScanDrive(d, HasBrokenDrives)
  BY DEF Scan
<1>2. /\ d \in Known /\ InPlace(d)
      /\ ~broken[d] => /\ mountPath[d] # NoPath /\ CanAccess(mountPath[d])
                       /\ ReadSwiftID(mountPath[d]) = swiftID[d]
  BY <1>1, LoopedInPlace
<1>3. Spare \notin IDs /\ NoID \notin IDs /\ Spare # NoID
  BY HostAssumption DEF Spare, NoID
<1>4. CASE broken[d]
  <2>1. mountPath[d] = NoPath
    BY <1>2, <1>4 DEF InPlace, Away
  <2>2. SkipDrive(d)
    BY <1>1, <2>1 DEF ScanDrive, FindUnassigned, FindSpare, FindID, ReadWorks
  <2> QED BY <1>4, <2>2 DEF SkipDrive
<1>5. CASE ~broken[d]
  <2>1. ~SkipDrive(d)
    BY <1>2, <1>5 DEF SkipDrive, Fails, Fault, Calm
  <2>2. CASE FindUnassigned(d, HasBrokenDrives)
    BY <1>2, <1>3, <1>5, <2>2 DEF FindUnassigned
  <2>3. CASE FindSpare(d)
    BY <1>2, <1>3, <1>5, <2>3 DEF FindSpare, Claim
  <2>4. CASE FindID(d)
    BY <1>2, <1>3, <1>5, <2>4 DEF FindID, Claim
  <2> QED BY <1>1, <2>1, <2>2, <2>3, <2>4 DEF ScanDrive
<1> QED BY <1>4, <1>5

(* One more disk is counted.                                                *)
LEMMA CountedMore ==
  ASSUME NEW S \in SUBSET Drives, Counted(S), UNCHANGED swiftID, NEW d \in Drives, d \notin S,
         NEW n, n = Cardinality(SparesAmong(S)),
         swiftID[d] \in IDs \cup {Spare, NoID},
         swiftID[d] = NoID => UNCHANGED taken,
         swiftID[d] = Spare => taken' = taken \cup {<<Spare, n>>},
         swiftID[d] \in IDs => taken' = taken \cup {<<swiftID[d], 0>>}
  PROVE  /\ Counted(S \cup {d})'
         /\ Cardinality(SparesAmong(S \cup {d}))' = IF swiftID[d] = Spare THEN n + 1 ELSE n
<1> DEFINE T == S \cup {d}
<1>1. IsFiniteSet(SparesAmong(S)) /\ n \in Nat
  BY SparesFinite
<1>2. Spare \notin IDs /\ NoID \notin IDs /\ Spare # NoID
  BY HostAssumption DEF Spare, NoID
<1>3. /\ swiftID[d] = Spare => SparesAmong(T)' = SparesAmong(S) \cup {d}
      /\ swiftID[d] # Spare => SparesAmong(T)' = SparesAmong(S)
      /\ d \notin SparesAmong(S)
  BY DEF SparesAmong
<1>4. Cardinality(SparesAmong(T))' = IF swiftID[d] = Spare THEN n + 1 ELSE n
  BY <1>1, <1>3, FS_AddElement
<1>5. /\ \A id \in IDs : <<id, 0>> \in taken <=> \E e \in S : swiftID[e] = id
      /\ \A i \in Nat : <<Spare, i>> \in taken <=> i < n
  BY DEF Counted
<1>6. \A id \in IDs : <<id, 0>> \in taken' <=> \E e \in T : swiftID'[e] = id
  <2>1. \A id \in IDs : (\E e \in T : swiftID'[e] = id) <=> (\E e \in S : swiftID[e] = id) \/ swiftID[d] = id
    OBVIOUS
  <2>2. \A id \in IDs : <<id, 0>> \in taken' <=> <<id, 0>> \in taken \/ swiftID[d] = id
    BY <1>2
  <2> QED BY <1>5, <2>1, <2>2
<1>7. \A i \in Nat : <<Spare, i>> \in taken' <=> i < Cardinality(SparesAmong(T))'
  <2>1. CASE swiftID[d] = Spare
    BY <1>1, <1>4, <1>5, <2>1
  <2>2. CASE swiftID[d] # Spare
    <3>1. \A i \in Nat : <<Spare, i>> \in taken' <=> <<Spare, i>> \in taken
      BY <1>2, <2>2
    <3> QED BY <1>4, <1>5, <2>2, <3>1
  <2> QED BY <2>1, <2>2
<1> QED BY <1>4, <1>6, <1>7 DEF Counted

LEMMA ScanNames ==
  ASSUME Calm, FailureInv, NamesCounted, Scan
  PROVE  NamesCounted'
<1>1. PICK d : d = drives[at]
  OBVIOUS
<1>2. /\ UNCHANGED <<swiftID, broken, phase, drives>>
      /\ phase = "scan" /\ at \in 1 .. Len(drives) /\ at' = at + 1 /\ d \in Known
  BY <1>1, ScanEffect
<1>3. /\ Known \subseteq Drives /\ DOMAIN drives = 1 .. Len(drives) /\ IsInjective(drives)
      /\ Len(drives) \in Nat /\ swiftID \in [Drives -> IDs \cup {Spare, NoID}]
  BY FailureTypes
<1>4. Known' = Known /\ d \in Drives
  BY <1>2, <1>3 DEF Known
<1>5. \A e : Before(e)' <=> Before(e) \/ e = d
  BY <1>1, <1>2, <1>3 DEF Before
<1>6. ~Before(d)
  BY <1>1, <1>2, <1>3 DEF Before, IsInjective
<1>7. Found' = IF broken[d] THEN Found ELSE Found \cup {d}
  BY <1>2, <1>4, <1>5 DEF Found
<1>8. Found \subseteq Drives /\ d \notin Found
  BY <1>2, <1>3, <1>6 DEF Found
<1>9. Counted(Found) /\ spareIdx = Cardinality(SparesAmong(Found))
  BY <1>2 DEF NamesCounted
<1>10. /\ broken[d] \/ swiftID[d] = NoID => UNCHANGED <<taken, spareIdx>>
       /\ ~broken[d] /\ swiftID[d] = Spare =>
            taken' = taken \cup {<<Spare, spareIdx>>} /\ spareIdx' = spareIdx + 1
       /\ ~broken[d] /\ swiftID[d] \in IDs =>
            taken' = taken \cup {<<swiftID[d], 0>>} /\ UNCHANGED spareIdx
  BY <1>1, ScanCounts
<1>11. PICK F : F = Found
  OBVIOUS
<1>12. Counted(Found)' /\ spareIdx' = Cardinality(SparesAmong(Found))'
  <2>1. CASE broken[d]
    <3>1. Found' = F /\ UNCHANGED <<swiftID, taken, spareIdx>>
      BY <1>2, <1>7, <1>10, <1>11, <2>1
    <3>2. Counted(F)' /\ spareIdx' = Cardinality(SparesAmong(F))'
      BY <1>9, <1>11, <3>1 DEF Counted, SparesAmong
    <3> QED BY <3>1, <3>2 DEF Counted, SparesAmong
  <2>2. CASE ~broken[d]
    <3>1. Found' = F \cup {d} /\ F \in SUBSET Drives /\ d \notin F
      BY <1>7, <1>8, <1>11, <2>2
    <3>2. Counted(F) /\ spareIdx = Cardinality(SparesAmong(F))
      BY <1>9, <1>11
    <3>3. Spare # NoID /\ Spare \notin IDs /\ swiftID[d] \in IDs \cup {Spare, NoID}
      BY <1>3, <1>4, HostAssumption DEF Spare, NoID
    <3>4. /\ Counted(F \cup {d})'
          /\ Cardinality(SparesAmong(F \cup {d}))' = IF swiftID[d] = Spare THEN spareIdx + 1 ELSE spareIdx
      BY <1>2, <1>4, <1>10, <2>2, <3>1, <3>2, <3>3, CountedMore
    <3>5. spareIdx' = IF swiftID[d] = Spare THEN spareIdx + 1 ELSE spareIdx
      BY <1>10, <2>2, <3>3
    <3> QED BY <3>1, <3>4, <3>5 DEF Counted, SparesAmong
  <2> QED BY <2>1, <2>2
<1> QED BY <1>12 DEF NamesCounted

(* The scan begins with nothing, and has come to all drives in the end.     *)
LEMMA ScanEnds ==
  ASSUME FailureInv, NamesCounted, EndPass1 \/ EndScan
  PROVE  NamesCounted'
<1>1. /\ UNCHANGED <<swiftID, broken, drives>> /\ at' = 1 /\ Known' = Known
  BY DEF EndPass1, EndScan, hostVars, disks, deviceVars, driveVars, fields, Known
<1>2. CASE EndPass1
  <2>1. phase' = "scan" /\ taken' = {} /\ spareIdx' = 0
    BY <1>2 DEF EndPass1, BeginScan
  <2>2. Found' = {}
    BY <1>1, <2>1 DEF Found, Before
  <2>3. SparesAmong(Found)' = {}
    BY <2>2 DEF SparesAmong
  <2>4. Cardinality(SparesAmong(Found))' = 0
    BY <2>3, FS_EmptySet
  <2> QED BY <2>1, <2>2, <2>4 DEF NamesCounted, Counted
<1>3. CASE EndScan
  <2>1. phase = "scan" /\ phase' \in {"assign", "pass2"} /\ at > Len(drives) /\ UNCHANGED taken
    BY <1>3 DEF EndScan, assignVars
  <2>2. SUFFICES ASSUME phase' = "assign" PROVE NamesCounted'
    BY <2>1 DEF NamesCounted
  <2>3. \A d \in Known : ~broken[d]
    BY <1>3, <2>2 DEF EndScan, CanAutoAssign, HasBrokenDrives
  <2>4. \A d \in Known : Before(d)
    BY <2>1, FailureTypes DEF Before, Known, ToSet
  <2>5. Found = Known /\ Found' = Known
    BY <1>1, <2>1, <2>2, <2>3, <2>4 DEF Found
  <2>6. Counted(Known)
    BY <2>1, <2>5 DEF NamesCounted
  <2>7. Counted(Found)'
    BY <1>1, <2>1, <2>5, <2>6 DEF Counted, SparesAmong
  <2> QED BY <2>2, <2>7 DEF NamesCounted
<1> QED BY <1>2, <1>3

(* The first name that is free is the next one.                             *)
LEMMA FirstFreeNext ==
  ASSUME Orderly, FailureInv, NamesCounted, phase = "assign", Known # {},
         NEW k \in DOMAIN Pool, FirstFree(k)
  PROVE  /\ \A j \in 1 .. k - 1 : OnDisk(j)
         /\ ~OnDisk(k)
         /\ Pool[k] = Spare => SpareNumber(k) = Cardinality(SparesAmong(Known))
<1>1. /\ DOMAIN Pool = 1 .. Len(Pool) /\ Len(Pool) \in Nat
      /\ PoolName(k) \notin taken /\ \A j \in DOMAIN Pool : PoolName(j) \notin taken => k <= j
  BY PoolTypes DEF FirstFree, Free
<1>2. \A j \in 1 .. k - 1 : j \in DOMAIN Pool /\ ~(k <= j)
  BY <1>1
<1>3. \A j \in 1 .. k - 1 : OnDisk(j)
  BY <1>1, <1>2, TakenOnDisk
<1>4. ~OnDisk(k)
  BY <1>1, TakenOnDisk
<1>5. ASSUME Pool[k] = Spare
      PROVE  SpareNumber(k) = Cardinality(SparesAmong(Known))
  <2> DEFINE n == Cardinality(SparesAmong(Known))
  <2>1. n \in Nat /\ SpareNumber(k) \in Nat /\ PoolName(k) = <<Spare, SpareNumber(k)>>
    BY <1>5, PoolTypes, SparesFinite, FailureTypes
  <2>2. \A i \in Nat : <<Spare, i>> \in taken <=> i < n
    BY DEF NamesCounted, Found, Counted
  <2> HIDE DEF n
  <2>3. ~(SpareNumber(k) < n)
    BY <1>1, <2>1, <2>2
  <2>4. ASSUME n < SpareNumber(k) PROVE FALSE
    <3>1. PICK j \in DOMAIN Pool : j < k /\ Pool[j] = Spare /\ SpareNumber(j) = n
      BY <2>1, <2>4, SparesDense
    <3>2. PoolName(j) = <<Spare, n>>
      BY <3>1, PoolTypes
    <3>3. PoolName(j) \in taken
      <4>1. ~(k <= j)
        BY <1>1, <3>1
      <4> QED BY <1>1, <4>1
    <3> QED BY <2>1, <2>2, <3>2, <3>3
  <2> QED BY <2>1, <2>3, <2>4 DEF n
<1> QED BY <1>3, <1>4, <1>5

LEMMA AssignOrder ==
  ASSUME Orderly, FailureInv, NamesCounted, PoolOrder, Assign
  PROVE  NamesCounted' /\ PoolOrder'
<1>1. PICK d : d = drives[at]
  OBVIOUS
<1>2. /\ phase = "assign" /\ at <= Len(drives) /\ UNCHANGED <<phase, drives>>
  BY DEF Assign
<1>3. /\ d \in Known /\ d \in Drives /\ Known \subseteq Drives /\ Known' = Known /\ Known # {}
      /\ Found = Known /\ Found' = Known
      /\ swiftID \in [Drives -> IDs \cup {Spare, NoID}]
  BY <1>1, <1>2, LoopedInPlace, FailureTypes DEF Known, Found
<1>4. Counted(Known)
  BY <1>2, <1>3 DEF NamesCounted
<1>5. CASE UNCHANGED <<swiftID, taken>>
  <2>1. Counted(Found)' /\ (\A k : OnDisk(k)' <=> OnDisk(k))
    BY <1>3, <1>4, <1>5 DEF Counted, SparesAmong, OnDisk
  <2> QED BY <1>2, <2>1 DEF NamesCounted, PoolOrder
<1>6. ASSUME NEW k \in DOMAIN Pool, GivesID(d, k), swiftID[d] = NoID
      PROVE  NamesCounted' /\ PoolOrder'
  <2> DEFINE n == Cardinality(SparesAmong(Known))
  <2>1. /\ FirstFree(k) /\ swiftID' = [swiftID EXCEPT ![d] = Pool[k]]
        /\ taken' = taken \cup {PoolName(k)}
    BY <1>6 DEF GivesID
  <2>2. /\ \A j \in 1 .. k - 1 : OnDisk(j)
        /\ Pool[k] = Spare => SpareNumber(k) = n
    BY <1>2, <1>3, <2>1, FirstFreeNext
  <2>3. /\ Pool[k] \in IDs \cup {Spare} /\ Spare \notin IDs /\ NoID \notin IDs /\ Spare # NoID
        /\ Pool[k] = Spare => PoolName(k) = <<Spare, n>>
        /\ Pool[k] # Spare => PoolName(k) = <<Pool[k], 0>>
    BY <2>2, PoolTypes
  <2>4. /\ swiftID'[d] = Pool[k] /\ \A e \in Drives : e # d => swiftID'[e] = swiftID[e]
    BY <1>3, <2>1
  <2>5. /\ Pool[k] = Spare => SparesAmong(Known)' = SparesAmong(Known) \cup {d}
        /\ Pool[k] # Spare => SparesAmong(Known)' = SparesAmong(Known)
        /\ d \notin SparesAmong(Known) /\ IsFiniteSet(SparesAmong(Known)) /\ n \in Nat
    BY <1>3, <1>6, <2>3, <2>4, SparesFinite DEF SparesAmong
  <2>6. Cardinality(SparesAmong(Known))' = IF Pool[k] = Spare THEN n + 1 ELSE n
    BY <2>5, FS_AddElement
  <2>7. Counted(Known)'
    <3>1. \A id \in IDs : (\E e \in Known : swiftID'[e] = id) <=> (\E e \in Known : swiftID[e] = id) \/ Pool[k] = id
      BY <1>3, <1>6, <2>3, <2>4
    <3>2. \A id \in IDs : <<id, 0>> \in taken' <=> <<id, 0>> \in taken \/ Pool[k] = id
      BY <2>1, <2>3
    <3>3. \A id \in IDs : <<id, 0>> \in taken' <=> \E e \in Known : swiftID'[e] = id
      BY <1>4, <3>1, <3>2 DEF Counted
    <3>4. \A i \in Nat : <<Spare, i>> \in taken' <=> <<Spare, i>> \in taken \/ (Pool[k] = Spare /\ i = n)
      BY <2>1, <2>3
    <3>5. \A i \in Nat : <<Spare, i>> \in taken <=> i < n
      BY <1>4 DEF Counted
    <3> HIDE DEF n
    <3>6. \A i \in Nat : <<Spare, i>> \in taken' <=> i < Cardinality(SparesAmong(Known))'
      BY <2>5, <2>6, <3>4, <3>5
    <3> QED BY <1>3, <3>3, <3>6 DEF Counted
  <2>8. NamesCounted'
    BY <1>2, <1>3, <2>7 DEF NamesCounted, Counted, SparesAmong
  <2>9. SparesAmong(Drives) = SparesAmong(Known) /\ SparesAmong(Drives)' = SparesAmong(Known)'
    <3>1. SparesAmong(Drives) = SparesAmong(Known)
      BY <1>2, <1>3, MarkedKnown
    <3> QED BY <1>3, <2>4, <3>1 DEF SparesAmong
  <2>10. ASSUME NEW j \in DOMAIN Pool, OnDisk(j)'
         PROVE  OnDisk(j) \/ j = k
    <3>1. CASE Pool[j] = Spare
      <4>1. /\ PoolName(j)[2] = SpareNumber(j) /\ SpareNumber(j) \in Nat
            /\ DOMAIN Pool = 1 .. Len(Pool) /\ Len(Pool) \in Nat
        BY <3>1, PoolTypes
      <4>2. SpareNumber(j) < Cardinality(SparesAmong(Drives))'
        BY <2>10, <3>1, <4>1 DEF OnDisk, SparesAmong
      <4>3. CASE SpareNumber(j) < n
        <5>0. SparesAmong(Drives) = {} => n = 0
          BY <2>9, FS_EmptySet
        <5>1. SparesAmong(Drives) # {}
          <6> HIDE DEF n
          <6> QED BY <2>5, <4>1, <4>3, <5>0
        <5> QED BY <2>9, <3>1, <4>1, <4>3, <5>1 DEF OnDisk, SparesAmong
      <4>4. CASE ~(SpareNumber(j) < n)
        <5> HIDE DEF n
        <5>1. Pool[k] = Spare /\ SpareNumber(j) = n /\ SpareNumber(k) = n
          BY <2>2, <2>5, <2>6, <2>9, <4>1, <4>2, <4>4
        <5>2. ~(j < k) /\ ~(k < j)
          BY <3>1, <4>1, <5>1, SparesGrow
        <5> QED BY <4>1, <5>2
      <4> QED BY <4>3, <4>4
    <3>2. CASE Pool[j] # Spare
      <4>1. PICK e \in Drives : swiftID'[e] = Pool[j]
        BY <2>10 DEF OnDisk
      <4>2. CASE e = d
        <5>1. Pool[j] = Pool[k] /\ Pool[j] \in IDs
          BY <2>3, <2>4, <3>2, <4>1, <4>2
        <5> QED BY <5>1 DEF Orderly
      <4>3. CASE e # d
        BY <2>4, <3>2, <4>1, <4>3 DEF OnDisk
      <4> QED BY <4>2, <4>3
    <3> QED BY <3>1, <3>2
  <2>11. ASSUME NEW j \in DOMAIN Pool, OnDisk(j)
         PROVE  OnDisk(j)'
    <3>1. PICK e \in Drives : swiftID[e] = Pool[j]
      BY <2>11 DEF OnDisk
    <3>2. Pool[j] # NoID
      BY <2>3, PoolTypes
    <3>3. e # d /\ swiftID'[e] = Pool[j]
      BY <1>6, <2>4, <3>1, <3>2
    <3>4. Pool[j] = Spare => PoolName(j)[2] = SpareNumber(j) /\ SpareNumber(j) \in Nat
      BY PoolTypes
    <3>5. Pool[j] = Spare => SpareNumber(j) < n
      BY <2>9, <2>11, <3>4 DEF OnDisk, SparesAmong
    <3>6. Pool[j] = Spare => SpareNumber(j) < Cardinality(SparesAmong(Drives))'
      <4> HIDE DEF n
      <4> QED BY <2>5, <2>6, <2>9, <3>4, <3>5
    <3> QED BY <3>3, <3>4, <3>6 DEF OnDisk, SparesAmong
  <2>12. OnDisk(k)'
    <3>1. Pool[k] = Spare => PoolName(k)[2] = n
      BY <2>3
    <3>2. Pool[k] = Spare => n < Cardinality(SparesAmong(Drives))'
      <4> HIDE DEF n
      <4> QED BY <2>5, <2>6, <2>9
    <3> QED BY <1>3, <2>4, <3>1, <3>2 DEF OnDisk, SparesAmong
  <2>13. ASSUME NEW i \in DOMAIN Pool, OnDisk(i)', NEW j \in 1 .. i
         PROVE  OnDisk(j)'
    <3>1. j \in DOMAIN Pool /\ DOMAIN Pool = 1 .. Len(Pool) /\ Len(Pool) \in Nat
      BY PoolTypes
    <3>2. CASE OnDisk(i)
      BY <2>11, <3>1, <3>2 DEF PoolOrder
    <3>3. CASE i = k
      <4>1. j = k \/ j \in 1 .. k - 1
        BY <3>1, <3>3
      <4> QED BY <2>2, <2>11, <2>12, <3>1, <4>1
    <3> QED BY <2>10, <2>13, <3>2, <3>3
  <2> QED BY <2>8, <2>13 DEF PoolOrder
<1> QED BY <1>1, <1>5, <1>6, AssignEffect

(* No other step is about the names.                                        *)
LEMMA NamesKept ==
  ASSUME Orderly, FailureInv, NamesCounted, [Next]_vars,
         ~Scan, ~EndPass1, ~EndScan, ~Assign
  PROVE  NamesCounted'
<1>1. UNCHANGED swiftID
  BY IDSteps DEF Orderly
<1>2. \/ phase' \notin {"scan", "assign"}
      \/ UNCHANGED <<phase, taken, spareIdx, drives, at, broken>>
  <2>1. CASE Busy
    BY <2>1, BusyFrame
  <2>2. CASE Handler
    BY <2>2 DEF Handler, Receive, HandleAdded, HandleReinstated, HandleError, HandleUnknown,
       EventHandled, Handling, ctlVars
  <2>3. CASE Loop
    BY <2>3 DEF Loop, BeginConverge, NextDrive, InPass, BeginPass2, EndConverge
  <2>4. CASE CalmUpset \/ Outside \/ NoStep
    BY <2>4 DEF CalmUpset, Outside, CollectorStep, Restart, LogError, NoStep, vars, deviceVars, driveVars, fields,
       assignVars, ctlVars
  <2>5. CASE End
    BY <2>5 DEF End, ProcessEnds
  <2> QED BY <2>1, <2>2, <2>3, <2>4, <2>5, CalmSteps DEF Orderly
<1>3. CASE phase' \notin {"scan", "assign"}
  BY <1>3 DEF NamesCounted
<1>4. CASE UNCHANGED <<phase, taken, spareIdx, drives, at, broken>>
  BY <1>1, <1>4 DEF NamesCounted, Counted, SparesAmong, Found, Known, Before
<1> QED BY <1>2, <1>3, <1>4

LEMMA OrderStep == Orderly /\ OrderInv /\ [Next]_vars => OrderInv'
<1> SUFFICES ASSUME Orderly, OrderInv, [Next]_vars PROVE OrderInv'
  OBVIOUS
<1>1. FailureInv /\ NamesCounted /\ PoolOrder /\ Calm
  BY DEF OrderInv, Orderly
<1>2. FailureInv'
  BY <1>1, FailureStep
<1>3. CASE Assign
  BY <1>1, <1>2, <1>3, AssignOrder DEF OrderInv
<1>4. CASE ~Assign
  <2>1. UNCHANGED swiftID
    BY <1>1, <1>4, IDSteps DEF Orderly
  <2>2. PoolOrder'
    BY <1>1, <2>1 DEF PoolOrder, OnDisk
  <2>3. NamesCounted'
    BY <1>1, <1>4, ScanNames, ScanEnds, NamesKept
  <2> QED BY <1>2, <2>2, <2>3 DEF OrderInv
<1> QED BY <1>3, <1>4

LEMMA OrderStart == Orderly /\ Init => OrderInv
<1> SUFFICES ASSUME Orderly, Init PROVE OrderInv
  OBVIOUS
<1>1. FailureInv
  BY FailureStart DEF Orderly
<1>2. phase = "wait" /\ swiftID \in [Drives -> {NoID}]
  BY DEF Init, HostInit, Orderly
<1>3. \A k \in DOMAIN Pool : Pool[k] # NoID
  BY PoolTypes
<1> QED BY <1>1, <1>2, <1>3 DEF OrderInv, NamesCounted, PoolOrder, OnDisk

(* Ids are given out in the order in which the pool lists them, also when   *)
(* the process ends in between.                                             *)
THEOREM PoolInOrder == ASSUME Orderly PROVE Spec => []PoolOrder
<1>1. OrderInv => PoolOrder
  BY DEF OrderInv
<1> QED BY <1>1, OrderStart, OrderStep, PTL DEF Spec

-----------------------------------------------------------------------------
(* A machine on which a container can be closed that is not in use.         *)
Closing == Calm /\ "luksClose" \notin Faults

(* What the converger has opened of a broken drive is closed when it is     *)
(* through with the drive, in the handler of an event and in the first pass.*)
Torn(d) ==
  IF WorksOn(d) THEN op = "done"
  ELSE phase \notin {"handle", "pass1"} \/ (phase = "pass1" /\ Before(d))
Shut == \A d \in Known : broken[d] /\ Torn(d) => d \notin OwnContainers

ClosingInv == FailureInv /\ Shut

(* The converger opens the container of the drive on which it works.        *)
LEMMA OwnSteps ==
  ASSUME Calm, FailureInv, [Next]_vars, ~HandleAdded, ~HandleReinstated, ~End
  PROVE  /\ Busy => OwnContainers' \subseteq OwnContainers \cup {Current}
         /\ ~Busy => OwnContainers' \subseteq OwnContainers
<1>1. CASE Busy
  <2>1. mappingName' \subseteq mappingName \cup {Current}
    BY <1>1 DEF Busy, ConvergeHealthy, ConvergeBroken, Setup, BeginSetup, BeginLUKSSetup, SetupInside, LUKSFormat,
       LUKSOpen, LUKSClose, Format, UnmountOther, OthersUnmounted, Mount, ClearPropagation, Announce, Umount,
       Descend, FilesystemTornDown, TornDown, GiveUp, luksVars
  <2>2. open' \subseteq open \cup {Current}
    BY OpenSteps
  <2> QED BY <1>1, <2>1, <2>2 DEF OwnContainers
<1>2. CASE ~Busy
  <2>1. UNCHANGED mappingName
    BY <1>2, DevicesKept
  <2>2. ~LUKSOpen(Current)
    BY <1>2, DevicesKept DEF LUKSOpen
  <2>3. open' \subseteq open
    BY <2>2, OpenSteps
  <2> QED BY <1>2, <2>1, <2>3 DEF OwnContainers
<1> QED BY <1>1, <1>2

(* The drive on which the converger works.                                  *)
LEMMA BusyShut ==
  ASSUME Closing, ClosingInv, [Next]_vars, Busy, broken'[Current], op' = "done"
  PROVE  Current \notin OwnContainers'
<1> DEFINE c == Current
<1> SUFFICES c \notin open' \/ c \notin mappingName'
  BY DEF OwnContainers
<1>1. Calm /\ FailureInv /\ "luksClose" \notin Faults
  BY DEF Closing, ClosingInv
<1>2. /\ c \in Known /\ (op # "idle" => Job(c))
      /\ c \in hasLUKS <=> content[c] = "luks" \/ (content[c] = "blank" /\ Keys)
      /\ \A d \in open : content[d] = "luks"
  BY <1>1, JobFacts DEF FailureInv, LuksInv, Classified, Contained
<1>3. CASE ConvergeHealthy
  BY <1>3 DEF ConvergeHealthy, Setup, BeginSetup, BeginLUKSSetup
<1>4. CASE ConvergeBroken \/ GiveUp(c)
  <2>1. Teardown(c) /\ UNCHANGED mappingName
    BY <1>4 DEF ConvergeBroken, GiveUp, luksVars
  <2>2. c \notin mappingName
    BY <2>1 DEF Teardown, AfterFilesystem, BeginTeardown
  <2> QED BY <2>1, <2>2
<1>5. CASE FilesystemTornDown(c)
  <2>1. UNCHANGED <<open, mappingName>>
    BY <1>5 DEF FilesystemTornDown, TornDown, hostVars, disks, luksVars
  <2>2. c \in hasLUKS => c \notin mappingName
    BY <1>5 DEF FilesystemTornDown, TornDown, AfterFilesystem
  <2> QED BY <1>2, <2>1, <2>2
<1>6. CASE LUKSClose(c)
  <2>1. Away(c)
    BY <1>2, <1>6 DEF LUKSClose, Job
  <2>2. ~IsMounted(c)
    BY <2>1, MountedMeans DEF Away, MountedSomewhere
  <2>3. open' = open \ {c} \/ ~CanClose(c)
    BY <1>1, <1>6 DEF LUKSClose, Fails, Fault
  <2>4. open' \subseteq open
    BY <1>6 DEF LUKSClose
  <2> QED BY <2>2, <2>3, <2>4 DEF CanClose
<1>7. CASE ClearPropagation
  BY <1>2, <1>7 DEF ClearPropagation, fields, Job, AtHome, Aimed
<1>8. CASE Umount(c)
  <2>1. ~UnmountFails(target, scope)
    BY <1>1, JobFacts, UmountWorks DEF Calm
  <2> QED BY <1>8, <2>1 DEF Umount
<1>9. CASE \/ Format(c) \/ UnmountOther(c) \/ OthersUnmounted(c) \/ Mount(c) \/ Announce(c)
           \/ SetupInside(c) \/ LUKSFormat(c) \/ LUKSOpen(c) \/ Descend(c)
  BY <1>9 DEF Format, UnmountOther, OthersUnmounted, Mount, Announce, SetupInside, BeginSetup, LUKSFormat,
     LUKSOpen, Descend
<1> QED BY <1>3, <1>4, <1>5, <1>6, <1>7, <1>8, <1>9 DEF Busy

(* Where the converger is, when it is not at work on a drive.               *)
LEMMA IdleSteps ==
  ASSUME Calm, FailureInv, [Next]_vars, ~Busy, ~HandleAdded, ~HandleReinstated, ~End, NEW d \in Known
  PROVE  /\ UNCHANGED drives
         /\ ~HandleError => broken'[d] = broken[d] /\ (Torn(d)' => Torn(d))
         /\ HandleError => op' = "idle" /\ phase' = "handle"
<1>1. UNCHANGED drives /\ (op' # op => op' = "idle" /\ op = "done")
  BY DevicesKept
<1>2. /\ TypeInv /\ Known \subseteq Drives /\ DOMAIN drives = 1 .. Len(drives)
      /\ Len(drives) \in Nat /\ at \in Nat \ {0} /\ broken \in [Drives -> BOOLEAN]
  BY FailureTypes
<1>3. CASE HandleError
  <2>1. /\ Handling("error") /\ broken' = [broken EXCEPT ![Head(batch.devs)] = TRUE] /\ UNCHANGED <<op, phase>>
    BY <1>3 DEF HandleError, MarkAsBroken, job
  <2> QED BY <1>1, <1>2, <1>3, <2>1 DEF Handling
<1>4. CASE ~HandleError
  <2>1. UNCHANGED broken
    BY <1>4, CalmSteps DEF Handler, Receive, HandleUnknown, EventHandled, Loop, BeginConverge, NextDrive, EndPass1,
       Scan, ScanDrive, EndScan, Assign, AssignDrive, BeginPass2, EndConverge, CalmUpset, Outside, CollectorStep,
       Restart, LogError, NoStep, vars, deviceVars, driveVars, fields
  <2>2. ASSUME Torn(d)' PROVE Torn(d)
    <3>1. CASE WorksOn(d) /\ op = "done"
      BY <3>1 DEF Torn
    <3>2. CASE ~(WorksOn(d) /\ op = "done")
      <4>1. CASE Handler
        <5>1. CASE Receive
          <6>1. op = "idle" /\ phase = "wait"
            BY <5>1, BusyPhase DEF Receive
          <6> QED BY <6>1 DEF Torn, WorksOn
        <5>2. CASE HandleUnknown \/ EventHandled
          <6>1. phase = "handle" /\ phase' = "handle" /\ op' = "idle"
            BY <5>2 DEF HandleUnknown, EventHandled, deviceVars, driveVars, job
          <6> QED BY <2>2, <3>2, <6>1 DEF Torn, WorksOn
        <5> QED BY <1>4, <4>1, <5>1, <5>2 DEF Handler
      <4>2. CASE Loop
        <5>1. CASE BeginConverge
          <6>1. op' = "idle" /\ phase' = "pass1" /\ at' = 1
            BY <5>1 DEF BeginConverge, deviceVars, driveVars, job
          <6>2. ~Before(d)'
            BY <6>1 DEF Before
          <6> QED BY <2>2, <3>2, <6>1, <6>2 DEF Torn, WorksOn
        <5>2. CASE NextDrive
          <6>1. op' = "idle" /\ UNCHANGED phase /\ at' = at + 1 /\ InPass /\ (op = "done" \/ phase = "pass2")
                /\ (op = "done" \/ op = "idle")
            BY <5>2 DEF NextDrive
          <6>2. CASE phase = "pass1"
            <7>1. Before(d)'
              BY <2>2, <3>2, <6>1, <6>2 DEF Torn, WorksOn
            <7>2. Before(d) \/ d = Current
              <8>1. PICK i \in 1 .. at' - 1 : i \in DOMAIN drives /\ drives[i] = d
                BY <1>1, <7>1 DEF Before
              <8>2. i \in 1 .. at - 1 \/ i = at
                BY <1>2, <6>1, <8>1
              <8> QED BY <6>2, <8>1, <8>2 DEF Before, Current
            <7>3. op = "done"
              BY <6>1, <6>2
            <7> QED BY <3>2, <6>2, <7>2, <7>3 DEF Torn, WorksOn
          <6>3. CASE phase = "pass2"
            BY <3>2, <6>1, <6>3 DEF Torn, WorksOn
          <6> QED BY <6>1, <6>2, <6>3 DEF InPass
        <5>3. CASE EndPass1
          <6>1. phase = "pass1" /\ at > Len(drives)
            BY <5>3 DEF EndPass1
          <6>2. op = "idle"
            BY <1>2, <6>1, BusyPhase DEF InPass
          <6>3. Before(d)
            <7>1. PICK i \in 1 .. Len(drives) : drives[i] = d
              BY <1>2 DEF Known, ToSet
            <7>2. i \in 1 .. at - 1
              BY <1>2, <6>1
            <7> QED BY <1>2, <7>1, <7>2 DEF Before
          <6> QED BY <6>1, <6>2, <6>3 DEF Torn, WorksOn
        <5>4. CASE Scan \/ EndScan \/ Assign \/ BeginPass2 \/ EndConverge
          <6>1. phase \in {"scan", "assign"} \/ (phase = "pass2" /\ at > Len(drives))
            BY <5>4 DEF Scan, EndScan, Assign, BeginPass2, EndConverge
          <6>2. op = "idle"
            BY <1>2, <6>1, BusyPhase DEF InPass
          <6> QED BY <6>1, <6>2 DEF Torn, WorksOn
        <5> QED BY <4>2, <5>1, <5>2, <5>3, <5>4 DEF Loop
      <4>3. CASE CalmUpset \/ Outside \/ NoStep
        <5>1. UNCHANGED <<op, batch, at>> /\ (UNCHANGED phase \/ phase = "dead")
          BY <4>3 DEF CalmUpset, Outside, CollectorStep, Restart, LogError, NoStep, vars, ctlVars, deviceVars,
             driveVars, job
        <5>2. CASE UNCHANGED phase
          BY <1>1, <2>2, <5>1, <5>2 DEF Torn, WorksOn, Current, Before
        <5>3. CASE phase = "dead"
          BY <5>3 DEF FailureInv, DriveStates, KnownInPhase
        <5> QED BY <5>1, <5>2, <5>3
      <4> QED BY <4>1, <4>2, <4>3, CalmSteps
    <3> QED BY <3>1, <3>2
  <2> QED BY <1>1, <1>4, <2>1, <2>2
<1> QED BY <1>3, <1>4

LEMMA ShutStep ==
  ASSUME Closing, ClosingInv, [Next]_vars
  PROVE  Shut'
<1>1. Calm /\ FailureInv /\ Shut
  BY DEF Closing, ClosingInv
<1> SUFFICES ASSUME NEW d \in Known', broken'[d], Torn(d)' PROVE d \notin OwnContainers'
  BY DEF Shut
<1>2. Known \subseteq Drives
  BY <1>1, FailureTypes
<1>3. CASE Busy
  <2>1. /\ Current' = Current /\ Known' = Known /\ op' # "idle" /\ UNCHANGED <<phase, drives, at>>
        /\ ~HandleAdded /\ ~HandleReinstated /\ ~End
    <3>1. /\ Current' = Current /\ Known' = Known /\ op' # "idle" /\ UNCHANGED <<phase, drives, at>>
          /\ phase \in {"handle", "pass1", "pass2"}
      BY <1>1, <1>3, BusyFrame
    <3>2. op' # "converge"
      BY <1>1, <1>3, BusyKeeps
    <3> QED BY <3>1, <3>2 DEF HandleAdded, HandleReinstated, Handling, End, ProcessEnds
  <2>2. CASE d = Current
    <3>1. op' = "done"
      BY <2>1, <2>2 DEF Torn, WorksOn
    <3>2. broken'[Current]
      BY <2>2
    <3> QED BY <1>3, <2>2, <3>1, <3>2, BusyShut
  <2>3. CASE d # Current
    <3>1. broken[d]
      BY <1>1, <1>2, <1>3, <2>1, <2>3, BusyKeeps
    <3>2. ~WorksOn(d)' /\ ~WorksOn(d)
      BY <2>1, <2>3 DEF WorksOn
    <3>3. Torn(d)
      BY <2>1, <3>2 DEF Torn, Before
    <3>4. OwnContainers' \subseteq OwnContainers \cup {Current}
      BY <1>1, <1>3, <2>1, OwnSteps
    <3> QED BY <1>1, <2>1, <2>3, <3>1, <3>3, <3>4 DEF Shut
  <2> QED BY <2>2, <2>3
<1>4. CASE HandleAdded \/ HandleReinstated
  <2>1. op' = "converge" /\ phase' = "handle"
    BY <1>4 DEF HandleAdded, HandleReinstated, Handling, ctlVars
  <2> QED BY <2>1 DEF Torn, WorksOn
<1>5. CASE End
  BY <1>5 DEF End, ProcessEnds, Known, ToSet
<1>6. CASE ~Busy /\ ~HandleAdded /\ ~HandleReinstated /\ ~End
  <2>1. d \in Known
    BY <1>1, <1>6, DevicesKept DEF Known
  <2>2. OwnContainers' \subseteq OwnContainers
    BY <1>1, <1>6, OwnSteps
  <2>3. CASE ~HandleError
    BY <1>1, <1>6, <2>1, <2>2, <2>3, IdleSteps DEF Shut
  <2>4. CASE HandleError
    <3>1. op' = "idle" /\ phase' = "handle"
      BY <1>1, <1>6, <2>1, <2>4, IdleSteps
    <3> QED BY <3>1 DEF Torn, WorksOn
  <2> QED BY <2>3, <2>4
<1> QED BY <1>3, <1>4, <1>5, <1>6

LEMMA ClosingStart == Closing /\ Init => ClosingInv
<1> SUFFICES ASSUME Closing, Init PROVE ClosingInv
  OBVIOUS
<1>1. FailureInv
  BY FailureStart DEF Closing
<1>2. open = {}
  BY DEF Init, HostInit
<1> QED BY <1>1, <1>2 DEF ClosingInv, Shut, OwnContainers

LEMMA ClosingStep == Closing /\ ClosingInv /\ [Next]_vars => ClosingInv'
<1> SUFFICES ASSUME Closing, ClosingInv, [Next]_vars PROVE ClosingInv'
  OBVIOUS
<1>1. FailureInv'
  BY FailureStep DEF Closing, ClosingInv
<1> QED BY <1>1, ShutStep DEF ClosingInv

(* Of a drive that broke, on whichever step of its setup or by an error in  *)
(* the kernel's log, nothing that this process has opened is left decrypted *)
(* once its Converge has returned (drive.go:89-90).                         *)
THEOREM BrokenClosed == ASSUME Closing PROVE Spec => []OwnContainersClosed
<1>1. ASSUME ClosingInv PROVE OwnContainersClosed
  <2>1. ASSUME AtRest, NEW d \in Known PROVE Torn(d)
    <3>1. phase = "wait" /\ op = "idle"
      BY <1>1, <2>1, BusyPhase DEF ClosingInv, AtRest
    <3> QED BY <3>1 DEF Torn, WorksOn
  <2> QED BY <1>1, <2>1 DEF ClosingInv, Shut, OwnContainersClosed
<1> QED BY <1>1, ClosingStart, ClosingStep, PTL DEF Spec
=============================================================================

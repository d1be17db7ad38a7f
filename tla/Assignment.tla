----------------------------- MODULE Assignment -----------------------------
(***************************************************************************)
(* core.UpdateDriveAssignments: one loop reads the swift-id of every       *)
(* mounted drive, a second one gives an id of the pool to the drives that  *)
(* have none.  One action per iteration of either loop; the variables are  *)
(* the function's locals.                                                  *)
(***************************************************************************)
EXTENDS Luks

CONSTANT Pool     \* Config.SwiftIDPool as written in the configuration file

ASSUME PoolAssumption == Pool \in Seq(IDs \cup {Spare})

VARIABLES
  drivesBySwiftID,  \* the first drive found with an id, 0 if none
  taken,            \* isAssignedSwiftID: names of ids that are in use
  spareIdx,         \* spare disks counted so far
  mismounted,       \* hasMismountedDrives
  scanned           \* history: drives whose assignment stems from this call

assignVars == <<drivesBySwiftID, taken, spareIdx, mismounted, scanned>>

NoDrive == 0

(* Spares are told apart by an index, in the configuration's pool as well   *)
(* as among the disks found: <<"spare", 0>>, <<"spare", 1>>, ...            *)
Names == (IDs \cup {Spare}) \X Nat

PoolName(k) ==
  IF Pool[k] = Spare
  THEN <<Spare, Cardinality({j \in 1 .. k - 1 : Pool[j] = Spare})>>
  ELSE <<Pool[k], 0>>

AssignmentTypeOK ==
  /\ drivesBySwiftID \in [IDs -> Drives \cup {NoDrive}]
  /\ taken \subseteq Names /\ spareIdx \in Nat
  /\ mismounted \in BOOLEAN /\ scanned \subseteq Drives

AssignmentInit ==
  /\ drivesBySwiftID = [id \in IDs |-> NoDrive]
  /\ taken = {} /\ spareIdx = 0 /\ mismounted = FALSE /\ scanned = {}

BeginScan ==
  /\ drivesBySwiftID' = [id \in IDs |-> NoDrive]
  /\ taken' = {} /\ spareIdx' = 0 /\ mismounted' = FALSE /\ scanned' = {}

(* The locals go out of scope; what they say of the drives is kept.         *)
EndAssign ==
  /\ drivesBySwiftID' = [id \in IDs |-> NoDrive]
  /\ taken' = {} /\ spareIdx' = 0 /\ mismounted' = FALSE /\ UNCHANGED scanned

-----------------------------------------------------------------------------
(* The scan of drive d.                                                     *)

Apply(d, a) == assignment' = [assignment EXCEPT ![d] = a]

Invalid(id, error) == [id |-> id, error |-> error]

(* Not mounted, or its swift-id cannot be read: the assignment stays as it  *)
(* is, and the drive's id is not known to the rest of this scan.            *)
SkipDrive(d) ==
  /\ \/ mountPath[d] = NoPath /\ UNCHANGED faults
     \/ mountPath[d] # NoPath /\ Fails("read", CanAccess(mountPath[d]))
  /\ UNCHANGED <<assignment, drivesBySwiftID, taken, spareIdx, mismounted, scanned>>

(* A disk that is gone or unreadable can still answer from the page cache.   *)
ReadWorks(d) ==
  /\ mountPath[d] # NoPath /\ UNCHANGED faults
  /\ scanned' = scanned \cup {d}

FindUnassigned(d, hasBrokenDrives) ==
  /\ ReadWorks(d) /\ ReadSwiftID(mountPath[d]) = NoID
  /\ Apply(d, Invalid(NoID, IF Pool = <<>> THEN "missing"
                            ELSE IF hasBrokenDrives THEN "blocked" ELSE "pending"))
  /\ UNCHANGED <<drivesBySwiftID, taken, spareIdx, mismounted>>

(* Mark the name of an id as used.                                          *)
ClaimNothing(name) == UNCHANGED taken                            \* mutant
Claim(name) == taken' = taken \cup {name}

FindSpare(d) ==
  /\ ReadWorks(d) /\ ReadSwiftID(mountPath[d]) = Spare
  /\ Apply(d, Assigned(Spare))
  /\ Claim(<<Spare, spareIdx>>) /\ spareIdx' = spareIdx + 1
  /\ UNCHANGED <<drivesBySwiftID, mismounted>>

(* Mounted below /srv/node, but under another id. *)
Mismatch(d, id) == mountPath[d] \in SrvPaths /\ mountPath[d] # Srv(id)

(* Another drive with that id has been found before.                        *)
NeverCollides(id) == FALSE                                       \* mutant
Collides(id) == drivesBySwiftID[id] # NoDrive

FindID(d) ==
  /\ ReadWorks(d)
  /\ \E id \in IDs :
       /\ ReadSwiftID(mountPath[d]) = id
       /\ Claim(<<id, 0>>)
       /\ mismounted' = (mismounted \/ Mismatch(d, id))
       /\ IF Collides(id)
          THEN /\ assignment' = [assignment EXCEPT
                    ![d] = Invalid(id, "duplicate"),
                    ![drivesBySwiftID[id]] = Invalid(id, "duplicate")]
               /\ UNCHANGED drivesBySwiftID
          ELSE /\ Apply(d, IF Mismatch(d, id) THEN Invalid(id, "mismatch")
                                              ELSE Assigned(id))
               /\ drivesBySwiftID' = [drivesBySwiftID EXCEPT ![id] = d]
  /\ UNCHANGED spareIdx

ScanDrive(d, hasBrokenDrives) ==
  /\ \/ SkipDrive(d) \/ FindUnassigned(d, hasBrokenDrives) \/ FindSpare(d) \/ FindID(d)
  /\ UNCHANGED <<disks, mounts, flags, upsets, cache, broken, hasDevice,
                 formatted, mountPath, job, luksVars>>

-----------------------------------------------------------------------------
(* The auto-assignment for drive d.                                         *)

CanAutoAssign(hasBrokenDrives) ==
  ~hasBrokenDrives /\ ~mismounted /\ Pool # <<>>

EligibleUnlessAssigned(d) == ~broken[d] /\ assignment[d].error # "none"   \* mutant
EligibleForAutoAssignment(d) == ~broken[d] /\ assignment[d].error = "pending"

(* The pool's entries whose names are not in use; the first one in the      *)
(* configured order is given out.                                           *)
Free == {k \in DOMAIN Pool : PoolName(k) \notin taken}

AnyFree(k) == k \in Free                                         \* mutant
FirstFree(k) == k \in Free /\ \A j \in Free : k <= j

WriteFails(d) ==
  /\ Fails("write", CanAccess(MountPath(d)))
  /\ UNCHANGED <<swiftID, stray, assignment, taken, scanned>>

AssignID(d) ==
  /\ EligibleForAutoAssignment(d)
  /\ \E k \in DOMAIN Pool :
       /\ FirstFree(k)
       /\ \/ /\ CanAccess(MountPath(d)) /\ UNCHANGED faults
             /\ WriteSwiftID(MountPath(d), Pool[k])
             /\ Claim(PoolName(k))
             /\ Apply(d, Assigned(Pool[k])) /\ scanned' = scanned \cup {d}
          \/ WriteFails(d)

PassOver(d) ==
  /\ ~EligibleForAutoAssignment(d) \/ Free = {}
  /\ UNCHANGED <<swiftID, stray, assignment, taken, scanned, faults>>

AssignDrive(d) ==
  /\ AssignID(d) \/ PassOver(d)
  /\ UNCHANGED <<devices, unreadable, content, inside, open, mounts, flags, upsets,
                 cache, broken, hasDevice, formatted, mountPath, job, luksVars,
                 drivesBySwiftID, spareIdx, mismounted>>
=============================================================================

-------------------------- MODULE AssignmentProofs ---------------------------
(***************************************************************************)
(* Theorems about UpdateDriveAssignments: its first loop, which looks at   *)
(* one drive after the other and corrects itself when it meets an id for   *)
(* the second time, ends with what the ids decide together (ScanInv is the *)
(* inductive invariant).                                                   *)
(***************************************************************************)
EXTENDS DriveListProofs

(* The swift-id that can be read of a drive. *)
Reads(d) == ReadSwiftID(mountPath[d])

(* What the drives S and their ids decide about the assignment of d.        *)
Decided(d, S) ==
  IF Reads(d) = Spare THEN Assigned(Spare)
  ELSE IF Reads(d) = NoID
       THEN Invalid(NoID, IF Pool = <<>> THEN "missing"
                          ELSE IF HasBrokenDrives THEN "blocked" ELSE "pending")
  ELSE IF {e \in S : Reads(e) = Reads(d)} # {d} THEN Invalid(Reads(d), "duplicate")
  ELSE IF Mismatch(d, Reads(d)) THEN Invalid(Reads(d), "mismatch") ELSE Assigned(Reads(d))

LEMMA DecidedTogether == \A d : AssignmentOf(d) = Decided(d, scanned)
BY DEF AssignmentOf, Decided, SameID, Reads

(* Half-way through the scan: the drives that have been looked at are       *)
(* before the current one on the list; one of those with an id is noted;    *)
(* and each one's assignment is what the ids found so far decide.           *)
ScannedBefore == \A d \in scanned : \E i \in 1 .. at - 1 : i \in DOMAIN drives /\ drives[i] = d
ScannedMounted == \A d \in scanned : mountPath[d] # NoPath
FirstNoted ==
  \A id \in IDs :
    \/ /\ drivesBySwiftID[id] \in scanned
       /\ Reads(drivesBySwiftID[id]) = id
    \/ /\ drivesBySwiftID[id] = NoDrive
       /\ \A d \in scanned : Reads(d) # id
DecidedSoFar == \A d \in scanned : assignment[d] = Decided(d, scanned)

ScanInv ==
  phase = "scan" => ScannedBefore /\ ScannedMounted /\ FirstNoted /\ DecidedSoFar

(* What can be read is a swift-id.                                          *)
LEMMA ReadsType ==
  ASSUME TypeInv, NEW d \in Drives, mountPath[d] # NoPath
  PROVE  Reads(d) \in IDs \cup {Spare, NoID}
<1> DEFINE p == mountPath[d]
           tbl == mounts["local"]
<1>1. /\ p \in Paths /\ tbl \in Seq(MountPoint)
      /\ stray \in [Paths -> IDs \cup {Spare, NoID}]
      /\ swiftID \in [Drives -> IDs \cup {Spare, NoID}]
  BY DEF TypeInv, TypeOK, HostTypeOK, DriveTypeOK, Scopes
<1>2. CASE OnPath(tbl, p) = {}
  BY <1>1, <1>2 DEF Reads, ReadSwiftID
<1>3. CASE OnPath(tbl, p) # {}
  <2>1. tbl[Newest(tbl, p)].dev \in Drives
    BY <1>1, <1>3, NewestType
  <2> QED BY <1>1, <1>3, <2>1 DEF Reads, ReadSwiftID
<1> QED BY <1>2, <1>3

(* The scan reads the same of all drives before and after.                  *)
LEMMA ScanReads ==
  ASSUME TypeInv, Scan
  PROVE  /\ \A d : Reads(d)' = Reads(d)
         /\ \A d, S : Decided(d, S)' = Decided(d, S)
         /\ phase = "scan" /\ at \in 1 .. Len(drives) /\ at' = at + 1
         /\ UNCHANGED <<drives, mountPath>>
         /\ ScanDrive(drives[at], HasBrokenDrives)
<1>1. /\ UNCHANGED <<mounts, stray, swiftID, mountPath, broken, drives>>
  BY DEF Scan, ScanDrive, disks
<1>2. \A d : Reads(d)' = Reads(d)
  BY <1>1 DEF Reads, ReadSwiftID, OnPath, Newest
<1>3. HasBrokenDrives' = HasBrokenDrives
  BY <1>1 DEF HasBrokenDrives, Known
<1>4. \A d, id : Mismatch(d, id)' = Mismatch(d, id)
  BY <1>1 DEF Mismatch
<1>5. \A d, S : Decided(d, S)' = Decided(d, S)
  BY <1>2, <1>3, <1>4 DEF Decided
<1>6. at \in 1 .. Len(drives) /\ at' = at + 1
  BY LenProperties DEF Scan, TypeInv, TypeOK
<1> QED BY <1>1, <1>2, <1>5, <1>6 DEF Scan

(* One more drive with an id that none of the others has decides nothing    *)
(* about them.                                                              *)
LEMMA OthersUndecided ==
  ASSUME NEW S, NEW d, NEW e \in S, Reads(e) \in IDs => Reads(d) # Reads(e),
         Reads(e) \in IDs \cup {Spare, NoID}
  PROVE  Decided(e, S \cup {d}) = Decided(e, S)
<1>1. CASE Reads(e) \in {Spare, NoID}
  BY <1>1 DEF Decided
<1>2. CASE Reads(e) \in IDs
  <2>1. {f \in S \cup {d} : Reads(f) = Reads(e)} = {f \in S : Reads(f) = Reads(e)}
    BY <1>2
  <2> QED BY <2>1 DEF Decided
<1> QED BY <1>1, <1>2

(* Two drives with one id are duplicates.                                   *)
LEMMA DuplicatesDecided ==
  ASSUME NEW S, NEW d \in S, NEW e \in S, d # e, Reads(d) = Reads(e), Reads(d) \in IDs
  PROVE  Decided(d, S) = Invalid(Reads(d), "duplicate")
<1>1. Reads(d) \notin {Spare, NoID}
  BY HostAssumption
<1>2. {f \in S : Reads(f) = Reads(d)} # {d}
  OBVIOUS
<1> QED BY <1>1, <1>2 DEF Decided

(* An iteration of the scan keeps the invariant.                            *)
LEMMA ScanDecides ==
  ASSUME TypeInv, IsInjective(drives), ScanInv, Scan
  PROVE  ScanInv'
<1> DEFINE d == drives[at]
<1>1. /\ \A e : Reads(e)' = Reads(e)
      /\ \A e, S : Decided(e, S)' = Decided(e, S)
      /\ phase = "scan" /\ at \in 1 .. Len(drives) /\ at' = at + 1
      /\ UNCHANGED <<drives, mountPath>>
      /\ ScanDrive(d, HasBrokenDrives)
  BY ScanReads
<1>2. ScannedBefore /\ ScannedMounted /\ FirstNoted /\ DecidedSoFar
  BY <1>1 DEF ScanInv
<1>3. /\ drives \in Seq(Drives) /\ DOMAIN drives = 1 .. Len(drives) /\ Len(drives) \in Nat
      /\ d \in Drives /\ scanned \subseteq Drives
      /\ assignment \in [Drives -> Assignments]
      /\ drivesBySwiftID \in [IDs -> Drives \cup {NoDrive}]
  BY <1>1, LenProperties, ElementOfSeq DEF TypeInv, TypeOK, AssignmentTypeOK, DriveTypeOK
<1>4. d \notin scanned
  <2>1. ASSUME d \in scanned PROVE FALSE
    <3>1. PICK i \in 1 .. at - 1 : i \in DOMAIN drives /\ drives[i] = d
      BY <1>2, <2>1 DEF ScannedBefore
    <3>2. i = at
      BY <1>1, <1>3, <3>1 DEF IsInjective
    <3> QED BY <1>1, <3>1, <3>2
  <2> QED BY <2>1
<1> HIDE DEF d
<1>5. /\ \A e \in scanned : Reads(e) \in IDs \cup {Spare, NoID}
      /\ \A id \in IDs : drivesBySwiftID[id] = NoDrive <=> \A e \in scanned : Reads(e) # id
  <2>1. NoDrive \notin scanned
    BY <1>3, HostAssumption DEF NoDrive
  <2>2. \A e \in scanned : Reads(e) \in IDs \cup {Spare, NoID}
    BY <1>2, <1>3, ReadsType DEF ScannedMounted
  <2> QED BY <1>2, <2>1, <2>2 DEF FirstNoted
<1>6. scanned' \subseteq scanned \cup {d} /\ ScannedMounted'
  BY <1>1, <1>2 DEF ScanDrive, SkipDrive, FindUnassigned, FindSpare, FindID, ReadWorks,
     ScannedMounted
<1>7. ScannedBefore'
  <2>1. ASSUME NEW e \in scanned'
        PROVE  \E i \in 1 .. at' - 1 : i \in DOMAIN drives' /\ drives'[i] = e
    <3>1. CASE e = d
      <4>1. at \in 1 .. at' - 1
        BY <1>1
      <4> QED BY <1>1, <1>3, <3>1, <4>1 DEF d
    <3>2. CASE e \in scanned
      <4>1. PICK i \in 1 .. at - 1 : i \in DOMAIN drives /\ drives[i] = e
        BY <1>2, <3>2 DEF ScannedBefore
      <4>2. i \in 1 .. at' - 1
        BY <1>1
      <4> QED BY <1>1, <4>1, <4>2
    <3> QED BY <1>6, <3>1, <3>2
  <2> QED BY <2>1 DEF ScannedBefore
<1>8. FirstNoted' /\ DecidedSoFar'
  <2>1. CASE SkipDrive(d)
    <3>1. UNCHANGED <<assignment, drivesBySwiftID, scanned>>
      BY <2>1 DEF SkipDrive
    <3> QED BY <1>1, <1>2, <3>1 DEF FirstNoted, DecidedSoFar
  <2>2. CASE FindUnassigned(d, HasBrokenDrives) \/ FindSpare(d)
    <3>1. /\ scanned' = scanned \cup {d} /\ UNCHANGED drivesBySwiftID
          /\ Reads(d) \in {Spare, NoID} /\ mountPath[d] # NoPath
      BY <2>2 DEF FindUnassigned, FindSpare, ReadWorks, Reads
    <3>2. Reads(d) \notin IDs /\ Spare # NoID
      BY <3>1, HostAssumption DEF Spare, NoID
    <3>3. assignment' = [assignment EXCEPT ![d] = Decided(d, scanned')]
      <4>1. CASE FindUnassigned(d, HasBrokenDrives)
        <5>1. Reads(d) = NoID
          BY <4>1 DEF FindUnassigned, Reads
        <5>2. Decided(d, scanned') = Invalid(NoID, IF Pool = <<>> THEN "missing"
                                       ELSE IF HasBrokenDrives THEN "blocked" ELSE "pending")
          BY <3>2, <5>1 DEF Decided
        <5> QED BY <4>1, <5>2 DEF FindUnassigned, Apply
      <4>2. CASE FindSpare(d)
        <5>1. Decided(d, scanned') = Assigned(Spare)
          BY <4>2 DEF FindSpare, Reads, Decided
        <5> QED BY <4>2, <5>1 DEF FindSpare, Apply
      <4> QED BY <2>2, <4>1, <4>2
    <3>4. FirstNoted'
      BY <1>1, <1>2, <3>1, <3>2 DEF FirstNoted
    <3>5. ASSUME NEW e \in scanned
          PROVE  assignment'[e] = Decided(e, scanned')
      <4>1. Reads(e) \in IDs \cup {Spare, NoID}
        BY <1>5
      <4>2. Decided(e, scanned') = Decided(e, scanned)
        BY <3>1, <3>2, <4>1, OthersUndecided
      <4> QED BY <1>2, <1>3, <1>4, <3>3, <4>2 DEF DecidedSoFar
    <3>6. assignment'[d] = Decided(d, scanned')
      BY <1>3, <3>3
    <3>7. \A e \in scanned' : assignment'[e] = Decided(e, scanned')
      BY <3>1, <3>5, <3>6
    <3> QED BY <1>1, <3>4, <3>7 DEF DecidedSoFar
  <2>3. CASE FindID(d)
    <3>1. PICK id \in IDs :
            /\ Reads(d) = id
            /\ IF Collides(id)
               THEN /\ assignment' = [assignment EXCEPT
                         ![d] = Invalid(id, "duplicate"),
                         ![drivesBySwiftID[id]] = Invalid(id, "duplicate")]
                    /\ UNCHANGED drivesBySwiftID
               ELSE /\ assignment' = [assignment EXCEPT
                         ![d] = IF Mismatch(d, id) THEN Invalid(id, "mismatch") ELSE Assigned(id)]
                    /\ drivesBySwiftID' = [drivesBySwiftID EXCEPT ![id] = d]
      BY <2>3 DEF FindID, Apply, Reads
    <3>2. scanned' = scanned \cup {d} /\ id \notin {Spare, NoID}
      BY <2>3, HostAssumption DEF FindID, ReadWorks
    <3>3. CASE Collides(id)
      <4> DEFINE e == drivesBySwiftID[id]
      <4>1. e \in scanned /\ Reads(e) = id /\ e \in Drives /\ e # d
        BY <1>2, <1>3, <1>4, <3>3 DEF FirstNoted, Collides
      <4>2. UNCHANGED drivesBySwiftID /\ assignment' = [assignment EXCEPT
              ![d] = Invalid(id, "duplicate"), ![e] = Invalid(id, "duplicate")]
        BY <3>1, <3>3
      <4> HIDE DEF e
      <4>3. FirstNoted'
        BY <1>1, <1>2, <3>1, <3>2, <4>1, <4>2 DEF FirstNoted, e
      <4>4. assignment'[d] = Decided(d, scanned') /\ assignment'[e] = Decided(e, scanned')
        BY <1>3, <3>1, <3>2, <4>1, <4>2, DuplicatesDecided
      <4>5. ASSUME NEW f \in scanned, f # e
            PROVE  assignment'[f] = Decided(f, scanned')
        <5>1. assignment'[f] = Decided(f, scanned)
          BY <1>2, <1>3, <1>4, <4>2, <4>5 DEF DecidedSoFar
        <5>2. CASE Reads(f) = id
          BY <3>1, <3>2, <4>1, <4>5, <5>1, <5>2, DuplicatesDecided
        <5>3. CASE Reads(f) # id
          BY <1>5, <3>1, <3>2, <5>1, <5>3, OthersUndecided
        <5> QED BY <5>2, <5>3
      <4>6. \A f \in scanned' : assignment'[f] = Decided(f, scanned')
        BY <3>2, <4>4, <4>5
      <4> QED BY <1>1, <4>3, <4>6 DEF DecidedSoFar
    <3>4. CASE ~Collides(id)
      <4>1. \A e \in scanned : Reads(e) # id
        BY <1>5, <3>4 DEF Collides
      <4>2. /\ assignment' = [assignment EXCEPT
                  ![d] = IF Mismatch(d, id) THEN Invalid(id, "mismatch") ELSE Assigned(id)]
            /\ drivesBySwiftID' = [drivesBySwiftID EXCEPT ![id] = d]
        BY <3>1, <3>4
      <4>3. FirstNoted'
        BY <1>1, <1>2, <1>3, <3>1, <3>2, <4>1, <4>2 DEF FirstNoted
      <4>4. assignment'[d] = Decided(d, scanned')
        <5>1. {e \in scanned' : Reads(e) = Reads(d)} = {d}
          BY <3>1, <3>2, <4>1
        <5> QED BY <1>3, <3>1, <3>2, <4>2, <5>1 DEF Decided
      <4>5. ASSUME NEW f \in scanned
            PROVE  assignment'[f] = Decided(f, scanned')
        <5>1. assignment'[f] = Decided(f, scanned)
          BY <1>2, <1>3, <1>4, <4>2 DEF DecidedSoFar
        <5> QED BY <1>5, <3>1, <3>2, <4>1, <5>1, OthersUndecided
      <4>6. \A f \in scanned' : assignment'[f] = Decided(f, scanned')
        BY <3>2, <4>4, <4>5
      <4> QED BY <1>1, <4>3, <4>6 DEF DecidedSoFar
    <3> QED BY <3>3, <3>4
  <2> QED BY <1>1, <2>1, <2>2, <2>3 DEF ScanDrive
<1> QED BY <1>6, <1>7, <1>8 DEF ScanInv

(* Nobody touches swift-ids and mounts while the converger is at work.      *)
Undisturbed == MidPass => {"edit", "umount", "readonly"} \cap Upsets = {}

(* The other steps: the scan of an empty list, and those outside of it.     *)
LEMMA OthersDecide ==
  ASSUME Undisturbed, TypeInv, ScanInv, [Next]_vars, ~Scan
  PROVE  ScanInv'
<1>1. CASE phase' # "scan"
  BY <1>1 DEF ScanInv
<1>2. CASE EndPass1
  <2>1. scanned' = {} /\ drivesBySwiftID' = [id \in IDs |-> NoDrive]
    BY <1>2 DEF EndPass1, BeginScan
  <2> QED BY <2>1 DEF ScanInv, ScannedBefore, ScannedMounted, FirstNoted, DecidedSoFar
<1>3. CASE phase' = "scan" /\ ~EndPass1
  <2>1. ~Converger
    <3>1. op # "idle" => phase # "scan"
      BY DEF TypeInv, JobHasDrive, InPass
    <3>2. ~Work
      BY <1>3, <3>1, DeviceBusy DEF Work, ctlVars
    <3> QED BY <1>3, <3>1, <3>2 DEF Converger, Receive, HandleAdded, HandleReinstated, HandleRemoved, HandleError,
       HandleUnknown, EventHandled, Handling, BeginConverge, ConvergeHealthy, ConvergeBroken,
       ConvergeUnreadable, NextDrive, EndScan, Assign, BeginPass2, EndConverge,
       ProcessEnds, ToConverge, InPass, ctlVars
  <2>2. phase = "scan" /\ ~NoDrivesFound /\ ~Restart /\ ~Crash /\ ~Reboot
    BY <1>3, <2>1 DEF Next, NoDrivesFound, Restart, Environment, HostUpset, CollectorStep,
       LogError, Crash, Reboot, ProcessEnds, vars, ctlVars
  <2>3. UNCHANGED <<deviceVars, assignVars, ctlVars>>
    BY <2>1, <2>2 DEF Next, CollectorStep, Environment, LogError, vars
  <2>4. UNCHANGED <<mounts, stray, swiftID>>
    <3>1. CASE Environment
      <4>1. ~EditSwiftID /\ ~ExternalUmount /\ ~RemountReadonly
        BY <2>2, <3>1 DEF Environment, Undisturbed, EditSwiftID, ExternalUmount, RemountReadonly, Upset
      <4> QED BY <2>2, <3>1, <4>1 DEF Environment, HostUpset, ExternalClose, Unplug, Plug, FailDisk,
              DeleteFlag, CreateDurableFlag, LogError, disks
    <3>2. CASE ~Environment
      BY <2>1, <2>2, <3>2 DEF Next, CollectorStep, vars, hostVars, disks
    <3> QED BY <3>1, <3>2
  <2>5. UNCHANGED <<mountPath, broken, drives, at, phase, scanned, drivesBySwiftID, assignment>>
    BY <2>3 DEF deviceVars, driveVars, fields, assignVars, ctlVars
  <2>6. \A d : Reads(d)' = Reads(d)
    BY <2>4, <2>5 DEF Reads, ReadSwiftID, OnPath, Newest
  <2>7. HasBrokenDrives' = HasBrokenDrives /\ \A d, id : Mismatch(d, id)' = Mismatch(d, id)
    BY <2>4, <2>5 DEF HasBrokenDrives, Known, Mismatch
  <2>8. \A d, S : Decided(d, S)' = Decided(d, S)
    BY <2>6, <2>7 DEF Decided
  <2> QED BY <2>2, <2>4, <2>5, <2>6, <2>8
          DEF ScanInv, ScannedBefore, ScannedMounted, FirstNoted, DecidedSoFar
<1> QED BY <1>1, <1>2, <1>3

(* If nobody touches swift-ids and mounts while an iteration of the         *)
(* converger runs, its first loop over the drives has decided, when it      *)
(* ends, what all their swift-ids together decide: a duplicate is one for   *)
(* both drives, however many there are and in whichever order they were     *)
(* met.                                                                     *)
THEOREM ScanDecidesAll ==
  ASSUME Undisturbed
  PROVE  Spec => []AssignmentsAsDeclared
<1>1. Init => ScanInv
  BY DEF Init, ScanInv
<1>2. ListInv /\ ScanInv /\ [Next]_vars => ScanInv'
  BY ScanDecides, OthersDecide DEF ListInv, NewsInv
<1>3. ScanInv => AssignmentsAsDeclared
  BY DecidedTogether DEF ScanInv, AssignmentsAsDeclared, DecidedSoFar
<1> QED BY <1>1, <1>2, <1>3, ListInvariant, PTL DEF Spec
=============================================================================

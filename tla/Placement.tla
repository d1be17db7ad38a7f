------------------------------ MODULE Placement ------------------------------
(***************************************************************************)
(* What Swift relies on: which disk one finds below /srv/node/$id.  There  *)
(* are no devices, commands, caches or events here; module AutopilotProps  *)
(* shows that the program implements this specification.                   *)
(***************************************************************************)
EXTENDS Naturals, FiniteSets

CONSTANTS
  Disks,
  Names,      \* swift-ids that a disk can be served under
  Spare       \* the label of a disk that is kept in reserve

Labels == Names \cup {Spare}

VARIABLES
  present,  \* the disks that are plugged in
  label,    \* the swift-id that a disk carries: a label, or none
  serving,  \* the disks that one finds below /srv/node/$id, per id
  failed,   \* the disks that the autopilot has given up
  told,     \* ids whose mounts other containers are told to let go of
  busy      \* the autopilot is at work: the world holds still meanwhile

placement == <<present, label, serving, failed, told, busy>>

Init ==
  /\ present \in SUBSET Disks
  /\ label \in [Disks -> Labels \cup {""}]
  /\ serving = [id \in Names |-> {}]
  /\ failed = {} /\ told = {} /\ busy = FALSE

Served(d) == \E id \in Names : d \in serving[id]

-----------------------------------------------------------------------------
(* The autopilot.                                                           *)

(* A healthy disk is served under its own id if no other one is at present. *)
Serve(d) ==
  /\ d \notin failed /\ label[d] \in Names /\ serving[label[d]] = {}
  /\ serving' = [serving EXCEPT ![label[d]] = {d}]
  /\ UNCHANGED <<label, failed, told>>

(* Only what is broken is withdrawn, and only after an announcement.        *)
Withdraw(d, id) ==
  /\ d \in failed /\ d \in serving[id] /\ id \in told
  /\ serving' = [serving EXCEPT ![id] = @ \ {d}]
  /\ UNCHANGED <<label, failed, told>>

Announce(id) ==
  /\ serving[id] \cap failed # {} /\ told' = told \cup {id}
  /\ UNCHANGED <<label, serving, failed>>

(* The announcement stands until there is a healthy disk below that id.     *)
Revoke(id) ==
  /\ id \in told /\ serving[id] \ failed # {} /\ told' = told \ {id}
  /\ UNCHANGED <<label, serving, failed>>

(* Ids are given to healthy disks without one, while all disks are healthy, *)
(* and never twice among the disks that are plugged in.                     *)
Give(d, id) ==
  /\ failed = {} /\ label[d] \notin Labels
  /\ id \in Names => \A e \in present \ {d} : label[e] # id
  /\ label' = [label EXCEPT ![d] = id]
  /\ UNCHANGED <<serving, failed, told>>

Fail(d) ==
  failed' = failed \cup {d} /\ UNCHANGED <<label, serving, told>>

(* A reinstated disk is not served yet: it has been withdrawn before.       *)
Reinstate(d) ==
  /\ d \in failed /\ ~Served(d)
  /\ failed' = failed \ {d} /\ UNCHANGED <<label, serving, told>>

Autopilot ==
  /\ busy /\ busy' = TRUE
  /\ \/ \E d \in Disks : Serve(d) \/ Fail(d) \/ Reinstate(d)
     \/ \E d \in Disks, id \in Names : Withdraw(d, id)
     \/ \E id \in Names : Announce(id) \/ Revoke(id)
     \/ \E d \in Disks, id \in Labels : Give(d, id)

TakeTurns == busy' = ~busy /\ UNCHANGED <<label, serving, failed, told>>

-----------------------------------------------------------------------------
(* The world around it.                                                     *)

(* An operator edits the swift-id of a disk that is not in use. *)
Edit(d) ==
  /\ ~Served(d) /\ \E id \in Names : label' = [label EXCEPT ![d] = id]
  /\ UNCHANGED <<serving, failed, told>>

(* Somebody unmounts a disk. *)
Lose(d, id) ==
  /\ d \in serving[id] /\ serving' = [serving EXCEPT ![id] = @ \ {d}]
  /\ UNCHANGED <<label, failed, told>>

(* The process ends and forgets what has failed; or the machine reboots.    *)
(* Both may happen while the autopilot is busy.                             *)
Crash == failed' = {} /\ UNCHANGED <<label, serving, told>>

Reboot ==
  /\ serving' = [id \in Names |-> {}] /\ told' = {} /\ failed' = {}
  /\ UNCHANGED label

World ==
  /\ busy' = FALSE
  /\ \/ ~busy /\ \E d \in Disks : Edit(d)
     \/ ~busy /\ \E d \in Disks, id \in Names : Lose(d, id)
     \/ Crash \/ Reboot

Next == (Autopilot \/ TakeTurns \/ World) /\ UNCHANGED present

Spec == Init /\ [][Next]_placement

-----------------------------------------------------------------------------
(* What all of this is good for: Swift finds one disk's objects below an id. *)

PlacementTypeOK ==
  label \in [Disks -> Labels \cup {""}] /\ serving \in [Names -> SUBSET Disks]

(* Below an id there is at most one disk, and it carries that id.           *)
Exclusive ==
  \A id \in Names : \A d \in serving[id] : label[d] = id /\ serving[id] = {d}
=============================================================================

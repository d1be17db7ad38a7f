----------------------------- MODULE Collectors -----------------------------
(***************************************************************************)
(* The collector threads: each one watches a part of the machine and sends *)
(* batches of events to the converger through one bounded channel.         *)
(***************************************************************************)
EXTENDS Assignment

CONSTANT QueueCap    \* capacity of the channel (10 in main.go)

ASSUME QueueAssumption == QueueCap \in Nat \ {0}

VARIABLES
  knownDrives,    \* CollectDrives' map of the drives found so far
  outbox,         \* batches that it has produced and the queue has yet to take
  brokenDevices,  \* CollectReinstatements' set of the flags seen last
  held,           \* its batch that waits for room in the queue: <<>> or <<b>>
  queue           \* the channel of main()

collectorVars == <<knownDrives, outbox, brokenDevices, held, queue>>

(* A []Event: all events of a batch are of one kind, about some drives.     *)
Kinds == {"added", "removed", "reinstated", "error", "wakeup"}
Batch == [kind : Kinds, devs : Seq(Drives)]
Event(kind, devs) == [kind |-> kind, devs |-> devs]

CollectorsTypeOK ==
  /\ knownDrives \subseteq Drives /\ brokenDevices \subseteq Drives
  /\ outbox \in Seq(Batch) /\ held \in Seq(Batch) /\ queue \in Seq(Batch)

CollectorsInit ==
  /\ knownDrives = {} /\ brokenDevices = {}
  /\ outbox = <<>> /\ held = <<>> /\ queue = <<>>

CollectorsReset ==
  /\ knownDrives' = {} /\ brokenDevices' = {}
  /\ outbox' = <<>> /\ held' = <<>> /\ queue' = <<>>

-----------------------------------------------------------------------------
(* Sequences that list a set of drives once each: in any order (a Go map),  *)
(* or by device path.                                                       *)

Listings(S) == {s \in [1 .. Cardinality(S) -> S] : IsInjective(s)}

Sorted(S) == {s \in [1 .. Cardinality(S) -> S] :
                \A i, j \in DOMAIN s : i < j => s[i] < s[j]}

(* No batch is sent when there is nothing to report.                        *)
NoRemovals(kind, S, listings) ==                                 \* mutant
  IF S = {} \/ kind = "removed" THEN {<<>>} ELSE {<<Event(kind, s)>> : s \in listings}

BatchOf(kind, S, listings) ==
  IF S = {} THEN {<<>>} ELSE {<<Event(kind, s)>> : s \in listings}

(* An unreadable disk is left out, unless there is an open LUKS container on *)
(* it by which it can be told.                                              *)
Eligible(d) == d \notin unreadable \/ d \in open

(* CollectDrives and CollectDriveEvents: drives that vanished are reported  *)
(* before those that are new.  A new drive becomes known even when it is    *)
(* not reported.  The thread pair holds at most two batches: a new round    *)
(* starts when the last batch has been handed on.                           *)
CollectDrives ==
  /\ Len(outbox) <= 1 /\ devices # {}
  /\ knownDrives' = devices
  /\ LET gone == knownDrives \ devices
         new == {d \in devices \ knownDrives : Eligible(d)}
     IN \E r \in BatchOf("removed", gone, Sorted(gone)),
           a \in BatchOf("added", new, Sorted(new)) :
          outbox' = outbox \o r \o a
  /\ UNCHANGED <<brokenDevices, held, queue>>

HasRoom == Len(queue) < QueueCap

SendDriveEvents ==
  /\ outbox # <<>> /\ HasRoom
  /\ queue' = Append(queue, Head(outbox)) /\ outbox' = Tail(outbox)
  /\ UNCHANGED <<knownDrives, brokenDevices, held>>

(* CollectReinstatements: a drive is reinstated when a flag that the last   *)
(* round saw is gone from both directories.                                 *)
CollectReinstatements ==
  /\ held = <<>>
  /\ brokenDevices' = transient \cup durable
  /\ LET gone == brokenDevices \ (transient \cup durable)
     IN held' \in BatchOf("reinstated", gone, Listings(gone))
  /\ UNCHANGED <<knownDrives, outbox, queue>>

SendReinstatements ==
  /\ held # <<>> /\ HasRoom
  /\ queue' = Append(queue, Head(held)) /\ held' = <<>>
  /\ UNCHANGED <<knownDrives, outbox, brokenDevices>>

ScheduleWakeup ==
  /\ HasRoom /\ queue' = Append(queue, Event("wakeup", <<>>))
  /\ UNCHANGED <<knownDrives, outbox, brokenDevices, held>>

(* WatchKernelLog: the kernel logs an error about a device. *)
SendDriveError(d) ==
  /\ HasRoom /\ queue' = Append(queue, Event("error", <<d>>))
  /\ UNCHANGED <<knownDrives, outbox, brokenDevices, held>>

Collect ==
  \/ CollectDrives \/ SendDriveEvents \/ CollectReinstatements
  \/ SendReinstatements \/ ScheduleWakeup
=============================================================================

# A TLA+ model of swift-drive-autopilot

`swift-drive-autopilot` finds the disks of a Swift storage node, formats and
mounts them, gives them swift-ids, and takes them out of service when they
fail. It runs next to operators, the kernel and dying disks, all of which
change the machine while it works, and it may itself end at any point. The
modules in this directory model the program and that environment; TLC checks
them on small instances, and the TLA+ proof system proves most of the safety
results, and both refinements, for every instance.

Paths and line numbers refer to the sources of the repository.

## Inventory

| component | source | state | operations | modelled in |
|---|---|---|---|---|
| Converger | `converger.go`, `main.go` | list of drives, batch of events in hand | receive a batch, handle the events, two passes over the drives with an update of the assignments between them, report unexpected mounts and the drive audit, set `flag-ready` | `Autopilot` |
| Drive, XFS device | `pkg/core/drive.go`, `xfs.go`, `model.go` | `Broken`, `Device`, `formatted`, `mountPath`, `Assignment` | `NewDrive`, `Converge`, `Teardown`, `MarkAsBroken`, `Setup`, `Validate` | `Drive` |
| Assignments | `pkg/core/assignment.go`, `config.go` | locals of one call; the `Assignment` of every drive | scan of the swift-ids, auto-assignment from the pool | `Assignment` |
| LUKS device | `pkg/core/luks.go`, `pkg/os/linux_luks.go` | `mapped`, `mappingName`, `formatted`, cached mappings (`ActiveLUKSMappings`) | format, open, adopt and close a container around a filesystem | `Luks` |
| Collectors | `collectors.go`, `pkg/os/linux_drive.go`, `linux_kernellog.go` | map of known drives, set of flags seen last, batches in flight, channel of capacity 10 | poll device files, poll broken-flags, wake up every 30 s, follow the kernel log | `Collectors`; globs, symlinks and probing in `Finder` |
| lsblk parser | `pkg/parsers/lsblk.go` | none | find a mapping's device, a device's mapping | `Lsblk` |
| OS interface | `pkg/os/linux.go`, `linux_mount.go`, `linux_file.go`, `linux_device.go` | mount propagation mode, cached mount table (`ActiveMountPoints`) | mount, umount, mkfs, read and write a swift-id, classify a disk | `Drive` (cache), `Host` (what the commands do) |
| The machine | not in the repository | disks and their contents, mount tables, flag files | what operators, kernel and hardware do | `Host` |
| Metrics, configuration file, `Chown`, `cmd/logexpect` | | | | not modelled |

The collectors are threads of their own (the drive collector is a pair of
threads: one polls, one forwards). They talk to the converger only through the
channel made in `main()`. All work on drives is done by the converger thread,
one command after another. The components share the machine: the mount table,
the flag files under `/run/swift-storage` and `/var/lib/swift-storage`, and the
swift-id files on the disks. These outlive the process; everything else is lost
with it.

What makes this hard to test:

- **Ordering and interleaving.** Removals, additions, reinstatements and errors
  reach the converger later than they happened and can be several at once.
- **Stale state.** One copy of the mount table serves a whole iteration, and an
  assignment outlives the update that made it.
- **Crash and restart.** The process has no state file. What it left on the
  machine has to be recognised by `Validate` and by the scan of swift-ids.
- **Partial failure.** Every command may fail; a failed setup is followed by a
  teardown, which may fail as well.
- **Layers.** An encrypted drive is a device in a device. Two cached tables
  (mounts and mappings) and the memory of two objects have to agree.
- **Who is right.** Swift-ids come from disks, from operators and from the pool;
  mistakes put one disk's objects under another disk's name.

What each component promises: *collectors, channel and handlers* together
deliver every change of the set of drives once and in order
(`ImplementsDriveList`, `DrivesDistinct`, `CaughtUp`); the *drive finder* lists
what is there, once (`ListsWhatIsThere`, `ListedOnce`), an unreadable drive
under the name of its open container (`BrokenReported`, `InferredIdentity`), and no
disk with partitions (`IgnoresPartitioned`); a *drive* that breaks is unmounted
everywhere, and what it had opened is closed (`BrokenUnmounted`,
`OwnContainersClosed`), announces it
(`UnmountsAnnounced`, `PropagationCleared`) and is never mounted over another
one or under another id (`NoOvermount`, `ServesOwnID`); the *assignment update*
does what its two loops are for (`AssignmentsAsDeclared`), never gives one id to
two drives (`UniqueAssignments`, `AssignsUnusedID`), never overwrites an id
(`KeepsSwiftIDs`) and follows the pool's order (`PoolOrder`); the *reports* tell
the truth (`AuditTruthful`, `OrphansReported`); the *whole program* serves disks
as `Placement` says (`ImplementsPlacement`) and recovers (`NoFalseAlarm`,
`Settles`, `RemovedIsUnmounted`).

## Modules

Each module extends the one before it:

`Host` <- `Drive` <- `Luks` <- `Assignment` <- `Collectors` <- `Autopilot` <-
`AutopilotProps` <- `MCAutopilot`

`AutopilotProps` instantiates the abstract specifications `Placement` and
`DriveList`. The collector's details are apart from these, to keep the state of
both small: `Lsblk` <- `Finder` <- `MCFinder`.

- **`Host`**: the machine. `mounts` holds one table per scope (`"host"`,
  `"local"`), oldest mount first; a `umount` takes the newest mount off a path
  and a read below a path sees the newest mount there. With one shared namespace
  both tables change together (`Affected`); which of the two it is follows from
  the propagation of the chroot's mount (`MountPropagationMode`). The filesystem
  of an encrypted disk can be reached while its container is open. `stray` holds swift-id files that
  were written to a directory with nothing mounted on it. *Upsets* are what
  others do: `EditSwiftID`, `ExternalUmount`, `ExternalClose`, `RemountReadonly`, `Unplug`,
  `Plug`, `FailDisk`, `DeleteFlag`, `CreateDurableFlag`, `HostReboot`. A command
  fails when it must (disk gone or unreadable, not a filesystem, nothing
  mounted), or for no visible reason if the constant `Faults` names it.
- **`Drive`**: `core.Drive` and `XFSDevice`, one action per command. `op` says
  where `Setup` or `Teardown` is; `scope` and `todo` are the loop over the mount
  scopes and the one over `GetMountPointsOf`. `Validate` is a function of the
  cache. `Discover` is its adoption of a mount that is there already, `ValidIn`
  its check of one scope.
- **`Luks`**: `LUKSDevice` around that, and `Drive.Converge` and
  `Drive.Teardown`, for which it does not matter which of the two a drive has.
  `op` goes through `luksFormat`, `luksOpen` and `descend` before the `setup` of
  the filesystem inside, and through `close` after its teardown. `mappings` is
  the cached table; `mapped` and `mappingName` are the fields of that name, as
  the sets of drives where they are set.
- **`Assignment`**: `UpdateDriveAssignments`; one action per iteration of the
  scan (`SkipDrive`, `FindUnassigned`, `FindSpare`, `FindID`) and of the
  auto-assignment (`AssignID`, `PassOver`). The variables are the function's
  locals. `scanned` is a history variable: the drives whose assignment stems
  from this call.
- **`Collectors`**: `CollectDrives` is one round of the polling thread; the
  batches it produced wait in `outbox` (at most two: the poller blocks on an
  unbuffered channel). `held` is the reinstatement collector's blocked send.
- **`Autopilot`**: the converger loop as phases (`wait`, `handle`, `pass1`,
  `scan`, `assign`, `pass2`), the handlers, the end of the process (`Crash`,
  a panic in `ConvergeUnreadable`, the `logg.Fatal` of `NoDrivesFound`) and its
  restart with an empty memory. `UnexpectedMounts` and `DriveAudit` are what the
  end of an iteration reports.
- **`AutopilotProps`**: the properties. **`MCAutopilot`**: values for TLC.
- **`Placement`**: what Swift sees: which disks are below `/srv/node/$id`, which
  id each disk carries, who has failed, and which ids other containers were told
  to let go of. A healthy disk is served under its own id if no other disk is at present;
  only a failed disk is withdrawn, after an announcement that stands until a
  healthy disk is back; an id is given to a disk without one when no disk has
  failed and no other disk carries it. The refinement mapping reads all that off
  the mount tables, the disks, `Drive.Broken` and the flags.
- **`DriveList`**: what the collector, its outbox, the channel, the batch in hand
  and the handlers amount to: a list that follows the set of device files found,
  one change at a time. The mapping joins batch, channel and outbox to one
  sequence of news (`Unread`).
- **`Lsblk`**: the look-ups of `pkg/parsers/lsblk.go` as functions on a set of
  block devices with parents. **`Finder`**: one round of `Linux.CollectDrives`
  over symlinks, devices and the output of `lsblk`, with the converger reduced to
  the list it keeps and the containers it opens. Whether `smartctl` tells a
  device's serial number is chosen anew in each round.
- **`ListLemmas`, `DeviceProofs`, `AutopilotProofs`, `PlacementProofs`,
  `DriveListProofs`, `AssignmentProofs`, `FailureProofs`, `FinderProofs`**:
  lemmas and theorems.

Operators marked `\* mutant` are plausible bugs of the definition that follows
them. They are not used by the specification; `PROJECT.json` lists which
property each of them breaks.

### Abstractions

- Drives are numbers, in the order of their device paths; the drive ID (serial
  number), the device path and the path of the glob are one to one. Only `Finder`
  tells them apart: there, symlinks, devices and identities are different things.
- A LUKS mapping is named after its drive, as the autopilot names it. The branch
  of `LUKSDevice.Validate` for a mapping under another name is left out. Trying
  one key after another is one command that succeeds or fails.
- In `Placement` nobody edits swift-ids or unmounts disks while the autopilot is
  at work (`busy`), since the autopilot acts on copies; the run has
  `MidPass = FALSE` accordingly. Crashes and reboots may happen at any point.
- `DriveList` is implemented as long as every new device file can be read when it
  is found: an unreadable one becomes known without being reported.
- In `Finder` a path that has led to a device leads to another one only after a
  round has missed it, and two paths do not lead to one device at a time. Without
  the first restriction `ListsWhatIsThere` fails: `knownDrives` is never compared
  with where its paths lead now.
- A disk that has died stays dead, in `Host` as in `Finder`. In the code a drive
  that cannot be read when its path is first seen is known and not reported, and
  nobody looks again if it can be read later; the model does not show that.
- `LsblkOutput` has plain, partitioned and multipath disks with containers on
  them, and a system disk, but no LVM or RAID devices. `BackingSearch` is about
  trees of any devices.
- `todo` is a set, visited in any order, where the code has a list. A path
  occurs in it once because no drive is mounted twice on one path, and any
  order includes the code's.
- One round of `CollectDrives` is atomic. In the code a device may change
  between the glob and the probing of one drive; a change in between looks like
  one just before or just after the round, except that a drive can vanish after
  it was found and before it is probed (it is then ignored as unreadable, as a
  drive that failed before is here).
- `file(1)` prints its complaint about a missing device to standard output and
  succeeds, so a drive that is gone can look blank or unreadable (`Classify`).
- A mount has one option, `ro`. A disk, or the inside of a LUKS container, is
  blank or has an XFS filesystem.
- A drive event's batch is a sequence of drives of one kind, as the collectors
  produce it. `sfdisk`, `smartctl` and symlinks are in `Finder` only.
- `mkdir` before a mount, `chown`, the file that the audit is written to and log
  messages are left out.

## Runs

All runs but `Finder` use module `MCAutopilot`; a `.cfg` names the kinds of upset
that may happen (`Upsets`), how many (`MaxUpsets`), which commands may fail
(`Faults`, `MaxFaults`), and whether upsets also happen while the converger works
(`MidPass`). `MaxUpsets` and `MaxFaults` are the only bounds that the model
itself does not have; the channel has capacity 1 instead of 10.

| run | what it asks | properties |
|---|---|---|
| `Failures` | any three failures, repairs, edits, crashes and reboots (edits replace a failed disk by a spare) | `NoOvermount` `ServesOwnID` `BrokenUnmounted` `PropagationCleared` `AssignmentsAsDeclared` `AuditTruthful` `UnmountsAnnounced` `KeepsSwiftIDs` `AssignsUnusedID` `ImplementsPlacement` |
| `Hotswap` | any two removals, returns, errors, reinstatements, unmounts or crashes at any moment, under fairness | `DrivesDistinct` `CaughtUp` `OrphansReported` `ImplementsDriveList` `Settles` `RemovedIsUnmounted` |
| `Faults` | every command may fail once, one upset at any moment, all kinds but edits | `TypeOK` `UniqueAssignments` |
| `Restart` | three drives without ids, blank ones being encrypted, the pool `spare, a, spare, b`, two late plug-ins, crashes or reboots at any moment | `PoolOrder` `NoFalseAlarm` |
| `Luks` | encrypted drives, separate mount namespaces, any five failures, foreign unmounts or closings, read-only remounts, reinstatements, under fairness | `BrokenUnmounted` `OwnContainersClosed` `Settles` |
| `Finder` | two symlinks, four devices of three kinds that come, go, move and die; containers; restarts | `FinderTypeOK` `ListedOnce` `ListsWhatIsThere` `IgnoresPartitioned` `BrokenReported` `BackingDeviceFound` `InferredIdentity` |

Why these bounds are enough to be of interest: a collision of ids, a mount over
a mount and a wrong order of events need two drives, and a second id tells
"another drive's" from "none". The pool's order needs three drives and two
spares. A failure, its repair and one more event are three upsets; a replug is
two. In `Luks`, five are two reinstatements of one drive that are under way at
once, with the kernel errors before, between and after them. `Hotswap` has only two, but
between any two commands of an iteration; that the list stays right over longer
sequences (a removal, a kernel error and a reinstatement of one drive, say) is
what `DrivesListedOnce`, `CatchesUp` and `DriveListImplemented` prove for any
number of upsets. A full channel is reached sooner with capacity 1, and then
every collector is blocked. The channel's order does not depend on its capacity. In `Finder` two
paths are enough for a device to move while another one takes its place, and
each of the four devices is of a kind that the code tells apart; its state space
is finite without any bound.

Where a property holds only with a restriction, the restriction is the code's:

- `NoOvermount`, `ServesOwnID` and their companions are checked without failing
  reads and without removals. A swift-id that cannot be read leaves an old
  assignment in place, and a drive that was removed while the process was down
  stays mounted; both can end in a mount over a mount (see the hazards in
  `PROJECT.json`).
- `Failures` and `Luks` have `MidPass = FALSE`: for their properties
  the state of the machine is fixed while an iteration works on its copies of
  the mount table and of the mappings (somebody who unmounts a broken drive in
  mid-iteration makes the umount of its teardown fail, and its container stays
  open). `Faults`, `Restart` and `Hotswap` have upsets at any moment.
- `Failures` and `Luks` have no commands that fail for no visible reason
  (`Faults = {}`); run `Faults` has them, for the two properties that hold then.
- `Hotswap` and `Luks` keep one device plugged in (`MinDevices = 1`):
  without any device the process ends at once, each time it is started
  (`linux_drive.go:54`). `Hotswap` uses distinct ids, so that a
  drive has one place to go to.
- `OwnContainersClosed` is about containers that the `LUKSDevice` in memory has
  opened. One that it has found open is adopted without its name (see below) and
  stays open when the drive breaks. That is so after a restart, and after the
  second of two reinstatements of one drive that are under way at once.
- `Luks` has no crashes: after one, a broken drive may stay mounted (see
  `EncryptedStaysMounted`). `Restart` has crashes in the middle of the set-up of
  encrypted drives.
- `BrokenReported` leaves multipath devices out (see below).
- `NoFalseAlarm` is checked for one shared namespace. With separate ones a crash
  between the mount in the host's scope and that in the local scope makes the
  next process flag a healthy drive.
- `RemovedIsUnmounted` allows the process to end: a drive that vanishes while
  the process is down is never unmounted. It is about the mounts of drives without
  encryption; that the containers of removed drives are closed is not checked.
  With encryption, a removed drive whose set-up failed after a restart keeps the
  mounts of the process before.
- `InferredIdentity` is about drives that cannot be read. One that can be read
  may go by its serial number in one process and by the checksum of its path in
  the next, if `smartctl` fails in one of them; its flags are then under another
  name.

Every run checks for deadlock.

### Fairness

`FairSpec` assumes that the converger goes on while it can, that the polling
loops come round again (they sleep for a fixed time), that a blocked sender gets
its turn whenever the channel has room again and again (strong fairness; Go
channels serve blocked senders first in, first out), and that a supervisor
restarts an ended process. Nothing is assumed of the environment, of faults, or
of the kernel log. A process that finds no drives does end.

### Disagreements with the documentation

These runs expect a violation; the finding in `PROJECT.json` quotes the text
that the code disagrees with.

| run | property | what happens |
|---|---|---|
| `UnreadableDrive` | `KeepsGoing` | A drive that cannot be read has a nil `Device`; `Drive.Converge` calls `Teardown` on it and the process panics. |
| `LostReinstatement` | `DeletedFlagNoticed` | A broken-flag that comes and goes between two polls is not noticed; the drive stays broken. |
| `ReadErrorReassigns` | `AssignsUnusedID` | A swift-id that cannot be read does not inhibit the auto-assignment, which gives the same id to a new drive. |
| `ChrootPropagation` | `PropagationCleared` | With a chroot the unmount-propagation flag is created inside and removed outside of the chroot, so it stays. |
| `EncryptedStaysMounted` | `BrokenUnmounted` | A new process finds an encrypted drive open and flagged; its `LUKSDevice` knows of no mapping, since only `Setup` and `Validate` look for one, and `Teardown` does nothing. |
| `KernelErrorCloses` | `LeavesMappingsIntact` | The iteration after a kernel error closes the drive's container and takes down all of its mounts; the README wants what is not below `/srv/node` left for inspection (`README.md:45-47`). |

Other differences met on the way, without a run: a drive that is mounted below
`/srv/node` stays there when a second drive with its id turns up, although "not
mounting any of them" is reported (`assignment.go:31`, `:42`; `Drive.MountPath`
falls back to where the drive is), and so does a spare disk whose swift-id was
edited in place (`README.md:34-35`); a LUKS container that was open before the
process started is adopted without its name (`luks.go:132`), so that it is
unmounted but never closed when its drive fails; a multipath device is
`/dev/dm-N` to `CollectDrives`, which resolves symlinks, but `/dev/mapper/$name`
to `findDeviceByPath`, so that an unreadable one with an open container is not
reported (`linux_drive.go:94-98`), and a device type that `lsblk.go:102` does not
know ends the process on that way; an unreadable drive that is reported for its
open container then meets the panic of `UnreadableDrive`; an XFS disk that came with a filesystem but no swift-id is
given one (`README.md:184-185`); `flag-ready` is set by an iteration that knew
no drive yet (`README.md:215-216`); removing the last device ends the process
before the removal is handled (`README.md:42-43`).

## Proofs

All theorems are for any finite set of drives, any ids, pool, keys, queue
capacity and mode of mount propagation, and any number of faults and upsets,
from the assumptions named in the modules (`HostAssumption`, `KeysAssumption`,
`PoolAssumption`, `QueueAssumption`, `MidPassAssumption`). What a theorem
assumes beyond that is in the last column.

| module | theorem | proves | for |
|---|---|---|---|
| `AutopilotProofs` | `TypeCorrect` | `TypeOK` | all faults and upsets |
| | `AssignmentsUnique` | `UniqueAssignments` | all faults and upsets |
| `DriveListProofs` | `DrivesListedOnce` | `DrivesDistinct` | all faults and upsets |
| | `NoReadableDriveMissed` | at rest, with nothing on its way, the list lacks only unreadable disks of those the collector knows, and has no others | all faults and upsets |
| | `CatchesUp` | `CaughtUp` | no disk dies |
| | `DriveListImplemented` | `ImplementsDriveList` | no disk dies |
| `AssignmentProofs` | `ScanDecidesAll` | `AssignmentsAsDeclared` | `Undisturbed` |
| `FinderProofs` | `FoundOnce` | `ListedOnce` | everything that the model allows (a path leads elsewhere only after a round has missed it; one path to a device) |
| | `FoundAll` | `ListsWhatIsThere` | the same |
| | `FinderTypes` | `FinderTypeOK` | the same |
| | `PartitionedIgnored` | `IgnoresPartitioned` | the same |
| | `BrokenFound` | `BrokenReported` | the same |
| | `IdentityInferred` | `InferredIdentity` | the same |
| | `BackingFound` | `BackingDeviceFound` | the same |
| | `BackingSearch` | the search for the device of a container returns the path of the devices that carry it, if they have one path | any tree of block devices, of any types and height |
| `PlacementProofs` | `PlacementExclusive` | `Exclusive` of `Placement` | |
| `FailureProofs` | `NeverOvermounts` | `NoOvermount` | `Calm` |
| | `OwnIDServed` | `ServesOwnID` | `Calm` |
| | `BrokenTakenDown` | `BrokenUnmounted` | `Calm` |
| | `AuditTellsTruth` | `AuditTruthful` | `Calm` |
| | `SwiftIDsKept` | `KeepsSwiftIDs` | `Calm` |
| | `PropagationFlagsCleared` | `PropagationCleared` | `Calm`, no chroot |
| | `UnusedIDsAssigned` | `AssignsUnusedID` | `Calm`; no late plug-ins, or only of disks without swift-id |
| | `UnmountsTold` | `UnmountsAnnounced` | `Calm`, flags can be written |
| | `PlacementImplemented` | `ImplementsPlacement` | `Calm`, no late plug-ins, flags can be written |
| | `PoolInOrder` | `PoolOrder` | `Orderly` |
| | `SoundDrivesUnbroken` | `NoFalseAlarm` | `Quiet` |
| | `BrokenClosed` | `OwnContainersClosed` | `Closing` |

### What is assumed

`Undisturbed`: nobody edits swift-ids, unmounts or remounts disks while an
iteration runs, which works on its copies of that. Everything else, in
particular the end of the process, may happen in the middle of an iteration.

`Calm`: `Undisturbed`, and
- no failing reads of swift-ids: an unreadable one leaves an old assignment in
  place (the run `ReadErrorReassigns` shows what comes of it);
- no umount that fails without a reason: a teardown that fails leaves a broken
  drive mounted, and nothing tries again once the drive has left the list;
- no disks that die or are pulled out: the process panics on an unreadable
  drive (`UnreadableDrive`), and one that is pulled while the process is down
  stays mounted;
- edits replace a spare disk's swift-id by an id and nothing else: an id that is
  changed in place leaves the disk served under its old one;
- with encryption (`Keys`), no process that ends without the machine (a container
  adopted from an earlier process is never closed, see `EncryptedStaysMounted`),
  not both reinstatements and durable flags (a drive that is reinstated and found
  flagged again in one event has a `LUKSDevice` that knows of no mapping, and its
  teardown leaves everything mounted, as in `EncryptedStaysMounted`), and nobody
  who closes a container in the middle of an iteration, which has a cached table
  of the mappings. Without keys encrypted disks may be plugged in all the same;
  the setup of one fails.

Mounts, `mkfs`, `ln`, the writing of swift-ids and all of `cryptsetup` may still
fail any number of times, without a reason; the process may crash (without
encryption) and the machine reboot at any point; operators unmount disks, delete flags and create durable ones, the kernel
remounts disks read-only and logs errors, and disks are plugged in late. In each
excluded case one of these properties fails, as a run or a hazard of
`PROJECT.json` tells. The constants of the run `Luks` satisfy `Calm`.

`Orderly`: `Calm`, every disk comes without a swift-id (`SwiftIDs = {NoID}`), no
operator edits one, and the pool lists no id twice. Each of these is needed: an
id that a disk brings with it need not be the pool's next one, and with the pool
`a, b, a` the first disk's id is the pool's first and its last, so that what is on
the disks is no prefix of the pool (TLC finds that in a few steps; spares may be
listed any number of times, since they are numbered). Disks may be plugged in
late, and the process may end between any two commands.

`Quiet`: `Calm`, no faults at all, no keys and no encrypted disks, one shared mount
namespace, and no upsets but late plug-ins, crashes, reboots, edits and reinstatements. What
is left out makes a drive broken rightly (an error in the kernel log, a disk
remounted read-only or unmounted by somebody else, a durable flag, a container
without a key), or is the false alarm that separate namespaces allow (see above).

`Closing`: `Calm`, and `cryptsetup close` fails only for a container in use.
Kernel errors and reinstatements may come in any number and any order.

"No late plug-ins" is needed because an id that is on a disk nobody has plugged
in yet looks unused. "Flags can be written" is needed because a failed `ln` does
not keep `Teardown` from unmounting.

### How they go

- `TypeOK` is not inductive. A setup's `target` is recorded as a path, so it must
  be known that it is not empty in the middle of a setup (`TargetIsPath`), and a
  step of `DeviceStep` works on `Current`, so it must be known that a job has a
  drive: an index inside the list or an event in hand (`JobHasDrive`). `TypeInv`
  is the conjunction.
- `UniqueInv` adds two facts about the locals of the update: a drive that the
  running scan assigned validly is the one recorded under its id
  (`ScanRecorded`), and every id so assigned is taken (`IDsTaken`). Neither says
  anything of assignments from earlier calls, which are outside of `scanned`.
- `DrivesListedOnce` needs to know what is on its way: the events in the batch,
  the channel and the outbox, joined to one sequence of news, name drives that
  are added and removed in turn, and lead from the converger's list to the
  collector's (`NewsInv` and `ListInv`). Additions of a drive that is known never
  reach it, which is why `append` needs no check. The refinement of `DriveList`
  is read off the same sequence.
- `ScanDecidesAll`: `ScanInv` says of the middle of the loop what
  `AssignmentsAsDeclared` says of its end, for the drives seen so far. The proof
  found two cases of `AssignmentOf` that overlapped (a spare on a machine with an
  empty pool was both); they are alternatives now, in the order of the code.
- `FailureInv` is the invariant behind all theorems of `FailureProofs`. Its
  parts: `MountInv` (the mount tables: a disk only at its temporary path or at
  that of its swift-id, one disk to a path and one path to a disk; the cached
  table is that of the kernel while an iteration runs), `OnlyAdditions` and
  `AllReported` (a new process is told of everything that is mounted in its first
  batch, before it mounts anything), `ListInv` and `ScanInv` from above, `LuksInv`
  (the containers, see below), and `DriveStates`: where each drive is in each phase
  (`Remembered`, `Returned`, `Placed`), that ids and assignments agree when the
  second pass mounts drives by them (`Agreed`, `IDsRead`), and what has been done
  and remains to be done in the middle of a setup or a teardown (`Job`). None of
  these is inductive alone. A crash loses the drives' memory and keeps their
  mounts, and it is `AllReported` that carries over: nothing is assigned before
  everything that is mounted has been found again.
- `LuksInv` is what makes these theorems hold with encryption. An encrypted disk is
  out of reach of `umount` as soon as the process does not know its container, so
  everything hangs on the agreement of four things: what is on the disk, what is
  open, what the cached table of the mappings says, and what the drive's
  `LUKSDevice` remembers. `Contained`: only containers of drives on the list are
  open, the cached table has them all while an iteration runs (a container may be
  closed between two iterations, never opened), and nothing is inside a disk that
  is no container. `Classified`: the drive's device object fits the disk.
  `Opened`: what is in a container that this process has not mapped is not
  mounted, except in the first command of the iteration that adopts it.
  `LuksJob` says what holds in the middle of a setup, a format and a teardown, so
  that each command finds the device it is about. `Retaken`: a reinstatement
  replaces the device object, and that is sound only for a drive that has been taken
  down, hence the separation of reinstatements and durable flags in `Calm`.
- `PlacementImplemented` adds two parts (`KnownBroken`, `BrokenAway`) and shows
  one step theorem per group of actions (`BusyPlaces`, `HandlerPlaces`,
  `LoopPlaces`, `WorldPlaces`). With `PlacementExclusive` it follows that the
  program, under its conditions, never serves two disks under one id.
- `PoolInOrder`: `NamesCounted` says that in the middle of the scan the names in
  `taken` are the ids of the drives that the loop has come to, and as many spares
  as it has met, and during the assignment those of all drives on the list.
  `MarkedKnown` adds that all disks with an id are on the list by then, also those
  that got it from a process that has ended since (`AllReported` and
  `MarkedPlugged` carry that over a crash). So a name of the pool is taken exactly
  when it is on a disk (`TakenOnDisk`), and the first free one is the next: for
  spares, the pool numbers them from zero without gaps (`SparesGrow`,
  `SparesDense`), and all numbers below its own are in use (`FirstFreeNext`).
- `SoundDrivesUnbroken`: `QuietInv` adds to `FailureInv` that there are no flags,
  error events, read-only mounts, containers or broken drives (`Sound`), that the
  formatting state of each drive is known as it is on the disk (`FormatKnown`), that
  a drive on which the converger does not work is mounted where it remembers and
  nowhere else (`Homed`), and that each command that it is about to run can succeed
  (`GoesWell`). Whatever state a crash has left, `Validate` accepts it
  (`ValidateAccepts`).
- `BrokenClosed`: `ClosingInv` adds to `FailureInv` that what a `LUKSDevice` has
  opened of a broken drive is closed once the converger is through with the drive
  (`Shut`, `Torn`), be it in the handler of an event or in the first pass (a
  kernel error is handled before that pass). A new `LUKSDevice` has opened nothing.
- The look-ups of `Lsblk` are recursive functions over the tree of devices; what
  such a function computes is what its equations say only if they have a solution.
  The lemmas on the searches (`BackingSolved`, `ByPathSolved`) give one: the tree
  is of a bounded height (`Tree`, `OutputTree`), so as many rounds of substitution
  reach a fixed point, and two solutions agree (`BackingAgree`, `ByPathAgree`, by
  the least height at which they differ). `BackingSearch` and `ByPathIs` then
  say without recursion what the two searches find. With them, `IdentityInv` is
  inductive, and a probe of an unreadable disk arrives at the container that is
  open on it (`ProbeFinds`).
- `Withdrawn` cannot say that an announced id is mounted nowhere: a process that
  ends between the announcement and the umount leaves both. What is invariant is
  that no drive *of the list* serves it, since the next process unmounts the
  drive on its way to the temporary path.

`DeviceProofs` shows that each step of a drive keeps the types, one lemma per
action, and `ListLemmas` holds facts about sequences and least elements.

### What is only model-checked

- Liveness (`Settles`, `RemovedIsUnmounted`): with its fairness it is out of the
  prover's reach.
- `OrphansReported`: its case of interest is a drive that is gone, and the
  invariant of `FailureProofs` is for machines without removals.
- Everything above outside of the stated conditions, as far as the runs go:
  `Faults` has all upsets but edits at any moment, and `Hotswap` has removals and
  crashes.

## Not modelled

- Metrics, the HTTP endpoint and the parsing of the configuration file: pure
  input and output; the configuration's values are constants.
- `Chown` of a mounted path and of `/var/cache/swift`: nothing reads ownership.
- The text of commands' output (`mount`, `sfdisk`, `smartctl`, `cryptsetup`,
  `dmsetup`): the modules start from what it says.
- `cmd/logexpect`, a helper of the integration tests.

## Plan

Nothing is left.

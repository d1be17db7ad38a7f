-------------------------------- MODULE Lsblk --------------------------------
(***************************************************************************)
(* pkg/parsers/lsblk.go: what the autopilot looks up in the output of      *)
(* `lsblk -J`.  The output is a set of block devices; each has its place   *)
(* in the output (pos, counted from 1) and the place of its parent (0 for  *)
(* none).  A device that several others share, like a multipath device, is *)
(* listed below each of them.                                              *)
(***************************************************************************)
EXTENDS Naturals, FiniteSetsExt

Nil == <<>>
Panic == <<"panic">>

DevicePath(dev) ==
  CASE dev.type \in {"crypt", "mpath"} -> <<"/dev/mapper", dev.name>>
    [] dev.type \in {"disk", "part", "rom", "loop"} -> <<"/dev", dev.name>>
    [] OTHER -> Panic

Children(out, pos) == {dev \in out : dev.parent = pos}
At(out, pos) == CHOOSE dev \in out : dev.pos = pos
Places(out) == {dev.pos : dev \in out}
FirstOf(devs) == Min({dev.pos : dev \in devs})

BacksAny(out, pos, mapping) ==                                   \* mutant
  \E child \in Children(out, pos) : child.type = "crypt"
Backs(out, pos, mapping) ==
  \E child \in Children(out, pos) : child.type = "crypt" /\ child.name = mapping

(* find[pos]: the search in and below the device at pos (0: the output).    *)
FindBackingDeviceForLUKS(out, mapping) ==
  LET find[pos \in Places(out) \cup {0}] ==
        IF pos # 0 /\ Backs(out, pos, mapping) THEN DevicePath(At(out, pos))
        ELSE LET hits == {child \in Children(out, pos) : find[child.pos] # Nil}
             IN IF hits = {} THEN Nil ELSE find[FirstOf(hits)]
  IN find[0]

(* The place of the device, 0 if there is none; a device on the way whose   *)
(* path cannot be told ends the search, and the program.                    *)
FindDeviceByPath(out, path) ==
  LET find[pos \in Places(out) \cup {0}] ==
        LET hit(child) == IF DevicePath(child) \in {path, Panic} THEN child.pos
                          ELSE find[child.pos]
            hits == {child \in Children(out, pos) : hit(child) # 0}
        IN IF hits = {} THEN 0 ELSE hit(At(out, FirstOf(hits)))
  IN find[0]

(* The name of the mapping that is all there is on a device.                *)
FindAnyChild(out, path) ==                                       \* mutant
  LET pos == FindDeviceByPath(out, path)
  IN IF pos = 0 \/ Children(out, pos) = {} THEN Nil
     ELSE <<At(out, FirstOf(Children(out, pos))).name>>

FindSerialNumberForDevice(out, path) ==
  LET pos == FindDeviceByPath(out, path)
      mappings == {child \in Children(out, pos) : child.type = "crypt"}
  IN CASE pos = 0 -> Nil
       [] pos # 0 /\ DevicePath(At(out, pos)) = Panic -> Panic
       [] OTHER -> IF Children(out, pos) = mappings /\ Cardinality(mappings) = 1
                   THEN <<At(out, FirstOf(mappings)).name>> ELSE Nil
=============================================================================

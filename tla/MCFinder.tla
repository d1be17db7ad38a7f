------------------------------ MODULE MCFinder ------------------------------
(***************************************************************************)
(* Two symlinks and four devices: two plain ones, one with partitions, and *)
(* a multipath device.                                                     *)
(***************************************************************************)
EXTENDS Finder

MCLinks == {"l1", "l2"}
MCDevices == {1, 2, 3, 4}
MCMultipath == {3}
MCPartitioned == {2}
=============================================================================

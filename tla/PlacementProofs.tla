--------------------------- MODULE PlacementProofs ---------------------------
(***************************************************************************)
(* What follows from the abstract specification alone, and therefore holds *)
(* of every program that implements it.                                    *)
(***************************************************************************)
EXTENDS Placement, TLAPS

PlacementInv == PlacementTypeOK /\ Exclusive

(* A disk that is served carries the id that it is served under.            *)
LEMMA ServedLabelled ==
  ASSUME PlacementInv, NEW d, Served(d)
  PROVE  label[d] \in Names
BY DEF PlacementInv, Exclusive, Served

(* A disk less below an id keeps PlacementInv.                              *)
LEMMA FewerServed ==
  ASSUME PlacementInv, NEW d \in Disks, NEW id \in Names, d \in serving[id],
         serving' = [serving EXCEPT ![id] = @ \ {d}], label' = label
  PROVE  PlacementInv'
<1> USE DEF PlacementInv, PlacementTypeOK
<1>1. PlacementTypeOK'
  OBVIOUS
<1>2. serving[id] = {d}
  BY DEF Exclusive
<1>3. serving' = [serving EXCEPT ![id] = {}]
  BY <1>2
<1>4. Exclusive'
  BY <1>3 DEF Exclusive
<1> QED BY <1>1, <1>4

(* The autopilot's steps keep PlacementInv.                                 *)
LEMMA AutopilotInv ==
  ASSUME PlacementInv, Autopilot
  PROVE  PlacementInv'
<1> USE DEF PlacementInv, PlacementTypeOK
<1>1. CASE \E d \in Disks : Serve(d)
  <2>1. PICK d \in Disks : Serve(d)
    BY <1>1
  <2>2. PlacementTypeOK'
    BY <2>1 DEF Serve
  <2>3. Exclusive'
    BY <2>1 DEF Serve, Exclusive
  <2> QED BY <2>2, <2>3
<1>2. CASE \E d \in Disks : Fail(d) \/ Reinstate(d)
  BY <1>2 DEF Fail, Reinstate, Exclusive
<1>3. CASE \E d \in Disks, id \in Names : Withdraw(d, id)
  <2>1. PICK d \in Disks, id \in Names : Withdraw(d, id)
    BY <1>3
  <2> QED BY <2>1, FewerServed DEF Withdraw
<1>4. CASE \E id \in Names : Announce(id) \/ Revoke(id)
  BY <1>4 DEF Announce, Revoke, Exclusive
<1>5. CASE \E d \in Disks, id \in Labels : Give(d, id)
  <2>1. PICK d \in Disks, id \in Labels : Give(d, id)
    BY <1>5
  <2>2. ~Served(d)
    BY <2>1, ServedLabelled DEF Give, Labels
  <2> QED BY <2>1, <2>2 DEF Give, Served, Exclusive
<1> QED BY <1>1, <1>2, <1>3, <1>4, <1>5 DEF Autopilot

(* What happens to the machine keeps PlacementInv.                          *)
LEMMA WorldInv ==
  ASSUME PlacementInv, World
  PROVE  PlacementInv'
<1> USE DEF PlacementInv, PlacementTypeOK
<1>1. CASE \E d \in Disks : Edit(d)
  <2>1. PICK d \in Disks, new \in Names : ~Served(d) /\ label' = [label EXCEPT ![d] = new]
    BY <1>1 DEF Edit
  <2>2. serving' = serving
    BY <1>1 DEF Edit
  <2>3. \A id \in Names : d \notin serving[id]
    BY <2>1 DEF Served
  <2>4. PlacementTypeOK'
    BY <2>1, <2>2 DEF Labels
  <2>5. Exclusive'
    BY <2>1, <2>2, <2>3 DEF Exclusive
  <2> QED BY <2>4, <2>5
<1>2. CASE \E d \in Disks, id \in Names : Lose(d, id)
  <2>1. PICK d \in Disks, id \in Names : Lose(d, id)
    BY <1>2
  <2> QED BY <2>1, FewerServed DEF Lose
<1>3. CASE Crash \/ Reboot
  BY <1>3 DEF Crash, Reboot, Exclusive
<1> QED BY <1>1, <1>2, <1>3 DEF World

(* Whatever implements module Placement never lets Swift find two disks, or *)
(* a disk of another id, below an id.                                       *)
THEOREM PlacementExclusive == Spec => []Exclusive
<1>1. Init => PlacementInv
  BY DEF Init, PlacementInv, PlacementTypeOK, Exclusive
<1>2. PlacementInv /\ [Next]_placement => PlacementInv'
  <2>1. CASE TakeTurns \/ UNCHANGED placement
    BY <2>1 DEF TakeTurns, placement, PlacementInv, PlacementTypeOK, Exclusive
  <2> QED BY <2>1, AutopilotInv, WorldInv DEF Next
<1>3. PlacementInv => Exclusive
  BY DEF PlacementInv
<1> QED BY <1>1, <1>2, <1>3, PTL DEF Spec
=============================================================================

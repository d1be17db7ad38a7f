---------------------------- MODULE FinderProofs -----------------------------
(***************************************************************************)
(* Theorems about the drive collector's map of known drives (FinderInv is  *)
(* the inductive invariant), about the searches in the output of lsblk,    *)
(* and about the identity of drives (IdentityInv).                         *)
(***************************************************************************)
EXTENDS Finder, ListLemmas

LinksTypeOK ==
  /\ links \in [Links -> Devices \cup {None}]
  /\ knownDrives \in [Links -> Devices \cup {None}]
  /\ listed \in [Devices -> Nat]

(* No device is found below two paths, or remembered below two; and a path  *)
(* that is remembered leads to that device, if to any.                      *)
OnePath == \A k, l \in Links : k # l /\ links[k] # None => links[k] # links[l]
OneMemory == \A k, l \in Links : k # l /\ knownDrives[k] # None => knownDrives[k] # knownDrives[l]
SameDevice == \A l \in Links : knownDrives[l] # None => links[l] \in {None, knownDrives[l]}

(* A listed device is remembered, and listed once; a device that was        *)
(* remembered when it could be read is listed.                              *)
Remembered == \A d \in Devices : listed[d] > 0 => listed[d] = 1 /\ \E l \in Links : knownDrives[l] = d
ReadableListed ==
  \A l \in Links :
    knownDrives[l] # None /\ knownDrives[l] \notin Partitioned \cup dead => listed[knownDrives[l]] > 0

(* Nothing has changed since the last round.                                *)
UpToDate == settled => knownDrives = links

FinderInv ==
  /\ LinksTypeOK /\ OnePath /\ OneMemory /\ SameDevice
  /\ Remembered /\ ReadableListed /\ UpToDate

LEMMA FinderInit == Init => FinderInv
<1> SUFFICES ASSUME Init PROVE FinderInv
  OBVIOUS
<1>1. None \notin Devices
  BY FinderAssumption DEF None
<1> QED BY <1>1 DEF Init, FinderInv, LinksTypeOK, OnePath, OneMemory, SameDevice, Remembered,
                    ReadableListed, UpToDate

(* A round of the collector.                                                *)
LEMMA CollectKeeps ==
  ASSUME FinderInv, CollectDrives
  PROVE  FinderInv'
<1> DEFINE removed == {knownDrives[l] : l \in {l \in Links : Vanished(l)}}
           addedWith(d, silent) == {l \in Links : Fresh(l) /\ links[l] = d /\ Probe(d, silent) # {}}
<1>0. PICK silent \in SUBSET Present :
        listed' = [d \in Devices |->
          (IF d \in removed THEN 0 ELSE listed[d]) + Cardinality(addedWith(d, silent))]
  BY DEF CollectDrives
<1> DEFINE added(d) == addedWith(d, silent)
<1>1. /\ None \notin Devices
      /\ UNCHANGED <<links, dead>>
      /\ listed' = [d \in Devices |->
             (IF d \in removed THEN 0 ELSE listed[d]) + Cardinality(added(d))]
  BY <1>0, FinderAssumption DEF CollectDrives, None
<1>2. knownDrives' = links
  BY DEF CollectDrives, FinderInv, LinksTypeOK, SameDevice, Vanished, Fresh
<1>3. ASSUME NEW d \in Devices
      PROVE  /\ added(d) = {} \/ \E l \in Links : added(d) = {l} /\ Fresh(l) /\ links[l] = d
             /\ added(d) = {} => Cardinality(added(d)) = 0
             /\ added(d) # {} => Cardinality(added(d)) = 1
  <2>1. \A k, l \in added(d) : k = l
    BY <1>1 DEF FinderInv, OnePath
  <2>2. \A l \in added(d) : l \in Links /\ Fresh(l) /\ links[l] = d
    OBVIOUS
  <2> HIDE DEF added
  <2>3. added(d) = {} \/ \E l \in Links : added(d) = {l} /\ Fresh(l) /\ links[l] = d
    BY <2>1, <2>2
  <2> QED BY <2>3, FS_EmptySet, FS_Singleton
<1>4. \A d \in Devices : d \in removed <=> \E l \in Links : Vanished(l) /\ knownDrives[l] = d
  OBVIOUS
<1> HIDE DEF added, removed
<1>5. LinksTypeOK'
  <2>1. \A d \in Devices : listed'[d] \in Nat
    BY <1>1, <1>3 DEF FinderInv, LinksTypeOK
  <2> QED BY <1>1, <1>2, <2>1 DEF FinderInv, LinksTypeOK
<1>6. OnePath' /\ OneMemory' /\ SameDevice' /\ UpToDate'
  BY <1>1, <1>2 DEF FinderInv, OnePath, OneMemory, SameDevice, UpToDate
<1>7. Remembered'
  <2>1. ASSUME NEW d \in Devices, listed'[d] > 0
        PROVE  listed'[d] = 1 /\ \E l \in Links : knownDrives'[l] = d
    <3>1. CASE added(d) = {}
      <4>1. d \notin removed /\ listed'[d] = listed[d]
        BY <1>1, <1>3, <2>1, <3>1 DEF FinderInv, LinksTypeOK
      <4>2. listed[d] = 1 /\ \E l \in Links : knownDrives[l] = d
        BY <2>1, <4>1 DEF FinderInv, Remembered
      <4>3. PICK l \in Links : knownDrives[l] = d
        BY <4>2
      <4>4. links[l] # None
        BY <1>1, <1>4, <4>1, <4>3 DEF Vanished
      <4>5. links[l] = d
        BY <1>1, <4>3, <4>4 DEF FinderInv, SameDevice
      <4> QED BY <1>2, <4>1, <4>2, <4>5
    <3>2. CASE added(d) # {}
      <4>1. PICK l \in Links : added(d) = {l} /\ Fresh(l) /\ links[l] = d
        BY <1>3, <3>2
      <4>2. d \in removed \/ listed[d] = 0
        <5>1. SUFFICES ASSUME d \notin removed, listed[d] # 0 PROVE FALSE
          OBVIOUS
        <5>2. PICK k \in Links : knownDrives[k] = d
          BY <5>1 DEF FinderInv, LinksTypeOK, Remembered
        <5>3. links[k] = d
          BY <1>1, <1>4, <5>1, <5>2 DEF Vanished, FinderInv, SameDevice
        <5>4. k = l
          BY <1>1, <4>1, <5>3 DEF FinderInv, OnePath
        <5> QED BY <1>1, <4>1, <5>2, <5>4 DEF Fresh
      <4>3. listed'[d] = 1
        BY <1>1, <1>3, <3>2, <4>2
      <4> QED BY <1>2, <4>1, <4>3
    <3> QED BY <3>1, <3>2
  <2> QED BY <2>1 DEF Remembered
<1>8. ReadableListed'
  <2>1. ASSUME NEW l \in Links, links[l] # None, links[l] \notin Partitioned \cup dead
        PROVE  listed'[links[l]] > 0
    <3> DEFINE d == links[l]
    <3>1. d \in Devices
      BY <2>1 DEF FinderInv, LinksTypeOK
    <3>2. CASE Fresh(l)
      <4>1. Probe(d, silent) # {}
        BY <2>1 DEF Probe
      <4>2. added(d) # {}
        BY <3>2, <4>1 DEF added
      <4>3. Cardinality(added(d)) = 1
        BY <1>3, <3>1, <4>2
      <4> QED BY <1>1, <3>1, <4>3 DEF FinderInv, LinksTypeOK
    <3>3. CASE ~Fresh(l)
      <4>1. knownDrives[l] = d
        BY <2>1, <3>3 DEF Fresh, FinderInv, SameDevice
      <4>2. listed[d] > 0
        BY <2>1, <4>1 DEF FinderInv, ReadableListed
      <4>3. d \notin removed
        <5>1. SUFFICES ASSUME NEW k \in Links, Vanished(k), knownDrives[k] = d PROVE FALSE
          BY <1>4, <3>1
        <5>2. k = l
          BY <2>1, <4>1, <5>1 DEF FinderInv, OneMemory
        <5> QED BY <2>1, <5>1, <5>2 DEF Vanished
      <4>4. listed[d] \in Nat /\ Cardinality(added(d)) \in Nat
        BY <1>3, <3>1 DEF FinderInv, LinksTypeOK
      <4> QED BY <1>1, <3>1, <4>2, <4>3, <4>4
    <3> QED BY <3>2, <3>3
  <2> QED BY <1>1, <1>2, <2>1 DEF ReadableListed
<1> QED BY <1>5, <1>6, <1>7, <1>8 DEF FinderInv

(* The steps of the converger and of the world.                             *)
LEMMA OthersKeep ==
  ASSUME FinderInv, [Next]_vars, ~CollectDrives
  PROVE  FinderInv'
<1>1. None \notin Devices
  BY FinderAssumption DEF None
<1>2. CASE Restart
  BY <1>1, <1>2 DEF Restart, FinderInv, LinksTypeOK, OnePath, OneMemory, SameDevice, Remembered,
                    ReadableListed, UpToDate
<1>3. ASSUME NEW l \in Links, NEW d \in Devices, Plug(l, d)
      PROVE  FinderInv'
  <2>1. /\ links' = [links EXCEPT ![l] = d] /\ settled' = FALSE /\ knownDrives[l] = None
        /\ \A k \in Links : links[k] # d
        /\ UNCHANGED <<dead, knownDrives, listed>>
    BY <1>1, <1>3 DEF Plug, Present
  <2> QED BY <1>1, <2>1 DEF FinderInv, LinksTypeOK, OnePath, OneMemory, SameDevice, Remembered,
                            ReadableListed, UpToDate
<1>4. ASSUME NEW l \in Links, Unplug(l)
      PROVE  FinderInv'
  <2>1. /\ links' = [links EXCEPT ![l] = None] /\ settled' = FALSE
        /\ UNCHANGED <<dead, knownDrives, listed>>
    BY <1>4 DEF Unplug
  <2> QED BY <1>1, <2>1 DEF FinderInv, LinksTypeOK, OnePath, OneMemory, SameDevice, Remembered,
                            ReadableListed, UpToDate
<1>5. CASE UNCHANGED <<links, knownDrives, listed, settled>> /\ dead \subseteq dead'
  BY <1>5 DEF FinderInv, LinksTypeOK, OnePath, OneMemory, SameDevice, Remembered,
              ReadableListed, UpToDate
<1> QED BY <1>2, <1>3, <1>4, <1>5 DEF Next, OpenContainer, Die, vars

LEMMA FinderInvariant == Spec => []FinderInv
<1>1. FinderInv /\ [Next]_vars => FinderInv'
  BY CollectKeeps, OthersKeep
<1> QED BY <1>1, FinderInit, PTL DEF Spec

(* However the symlinks below the globbed paths come, go and move (from one *)
(* device to another, though, and from one path to another, only by way of  *)
(* being absent), and whatever smartctl and lsblk say, no device is listed  *)
(* twice.                                                                   *)
THEOREM FoundOnce == Spec => []ListedOnce
<1>1. FinderInv => ListedOnce
  BY DEF FinderInv, LinksTypeOK, Remembered, ListedOnce
<1> QED BY <1>1, FinderInvariant, PTL

(* After a round, all readable devices without partitions to which a path   *)
(* leads are listed, and none to which no path leads.                       *)
THEOREM FoundAll == Spec => []ListsWhatIsThere
<1>1. FinderInv => ListsWhatIsThere
  <2> SUFFICES ASSUME FinderInv, settled PROVE ListsWhatIsThere
    BY DEF ListsWhatIsThere
  <2>1. knownDrives = links
    BY DEF FinderInv, UpToDate
  <2>2. \A d \in Present : d \in Devices /\ \E l \in Links : knownDrives[l] = d /\ d # None
    BY <2>1 DEF Present, FinderInv, LinksTypeOK
  <2>3. \A d \in Present \ (Partitioned \cup dead) : listed[d] > 0
    BY <2>2 DEF FinderInv, ReadableListed
  <2>4. \A d \in Devices : listed[d] > 0 => d \in Present
    BY <2>1, FinderAssumption DEF FinderInv, Remembered, Present, None
  <2> QED BY <2>3, <2>4 DEF ListsWhatIsThere
<1> QED BY <1>1, FinderInvariant, PTL

-----------------------------------------------------------------------------
(* The searches in the output of lsblk, whatever the block devices are and  *)
(* however deep they are nested: h is the height of each in the tree.       *)
Nodes(out) == Places(out) \cup {0}

Tree(out, h) ==
  /\ Places(out) \subseteq Nat \ {0}
  /\ \A a, b \in out : a.pos = b.pos => a = b
  /\ h \in [Nodes(out) -> Nat] /\ \A pos \in Nodes(out) : h[pos] <= h[0]
  /\ \A dev \in out : dev.parent \in Nodes(out) /\ h[dev.pos] < h[dev.parent]

(* The equations that define the two searches.                              *)
Backing(out, name, find) ==
  [pos \in Nodes(out) |->
     IF pos # 0 /\ Backs(out, pos, name) THEN DevicePath(At(out, pos))
     ELSE LET hits == {child \in Children(out, pos) : find[child.pos] # Nil}
          IN IF hits = {} THEN Nil ELSE find[FirstOf(hits)]]

Hit(child, path, find) ==
  IF DevicePath(child) \in {path, Panic} THEN child.pos ELSE find[child.pos]
ByPath(out, path, find) ==
  [pos \in Nodes(out) |->
     LET hits == {child \in Children(out, pos) : Hit(child, path, find) # 0}
     IN IF hits = {} THEN 0 ELSE Hit(At(out, FirstOf(hits)), path, find)]

Agree(out, h, k, f, g) == \A pos \in Nodes(out) : h[pos] < k => f[pos] = g[pos]

(* The first of several devices is one of them.                             *)
LEMMA FirstIsOne ==
  ASSUME NEW out, NEW h, Tree(out, h), NEW hits \in SUBSET out, hits # {}
  PROVE  \E dev \in hits : FirstOf(hits) = dev.pos /\ At(out, FirstOf(hits)) = dev
<1> DEFINE S == {dev.pos : dev \in hits}
<1>1. S \in SUBSET Nat /\ S # {}
  BY DEF Tree, Places
<1>2. FirstOf(hits) \in S
  BY <1>1, LeastExists DEF FirstOf, Min
<1>3. PICK dev \in hits : FirstOf(hits) = dev.pos
  BY <1>2
<1>4. \A a \in out : a.pos = dev.pos => a = dev
  BY DEF Tree
<1>5. At(out, dev.pos) = dev
  BY <1>4 DEF At
<1> QED BY <1>3, <1>5

(* If two attempts at a search agree up to a height, then the next attempt  *)
(* with either agrees one further up.                                       *)
LEMMA ChildrenLower ==
  ASSUME NEW out, NEW h, Tree(out, h), NEW k \in Nat, NEW f, NEW g, Agree(out, h, k, f, g),
         NEW pos \in Nodes(out), h[pos] < k + 1
  PROVE  \A child \in Children(out, pos) : child \in out /\ f[child.pos] = g[child.pos]
<1> SUFFICES ASSUME NEW child \in Children(out, pos) PROVE child \in out /\ f[child.pos] = g[child.pos]
  OBVIOUS
<1>1. child \in out /\ child.parent = pos /\ child.pos \in Nodes(out)
  BY DEF Children, Nodes, Places
<1>2. h[child.pos] \in Nat /\ h[pos] \in Nat /\ h[child.pos] < h[pos]
  BY <1>1 DEF Tree
<1>3. h[child.pos] < k
  BY <1>2
<1> QED BY <1>1, <1>3 DEF Agree

LEMMA BackingAgree ==
  ASSUME NEW out, NEW h, Tree(out, h), NEW k \in Nat, NEW f, NEW g, Agree(out, h, k, f, g), NEW name
  PROVE  Agree(out, h, k + 1, Backing(out, name, f), Backing(out, name, g))
<1> SUFFICES ASSUME NEW pos \in Nodes(out), h[pos] < k + 1
             PROVE  Backing(out, name, f)[pos] = Backing(out, name, g)[pos]
  BY DEF Agree
<1> DEFINE hits(find) == {child \in Children(out, pos) : find[child.pos] # Nil}
<1>1. \A child \in Children(out, pos) : child \in out /\ f[child.pos] = g[child.pos]
  BY ChildrenLower
<1>2. hits(f) = hits(g) /\ hits(f) \in SUBSET out
  BY <1>1
<1>3. hits(f) # {} => \E dev \in hits(f) : FirstOf(hits(f)) = dev.pos
  <2> HIDE DEF hits
  <2> QED BY <1>2, FirstIsOne
<1>4. hits(f) # {} => f[FirstOf(hits(f))] = g[FirstOf(hits(f))]
  BY <1>1, <1>3
<1>5. \A find : Backing(out, name, find)[pos] =
        IF pos # 0 /\ Backs(out, pos, name) THEN DevicePath(At(out, pos))
        ELSE IF hits(find) = {} THEN Nil ELSE find[FirstOf(hits(find))]
  BY DEF Backing
<1> HIDE DEF hits
<1> QED BY <1>2, <1>4, <1>5

LEMMA ByPathAgree ==
  ASSUME NEW out, NEW h, Tree(out, h), NEW k \in Nat, NEW f, NEW g, Agree(out, h, k, f, g), NEW path
  PROVE  Agree(out, h, k + 1, ByPath(out, path, f), ByPath(out, path, g))
<1> SUFFICES ASSUME NEW pos \in Nodes(out), h[pos] < k + 1
             PROVE  ByPath(out, path, f)[pos] = ByPath(out, path, g)[pos]
  BY DEF Agree
<1> DEFINE hits(find) == {child \in Children(out, pos) : Hit(child, path, find) # 0}
<1>1. \A child \in Children(out, pos) : child \in out /\ Hit(child, path, f) = Hit(child, path, g)
  BY ChildrenLower DEF Hit
<1>2. hits(f) = hits(g) /\ hits(f) \in SUBSET out
  BY <1>1
<1>3. hits(f) # {} => \E dev \in hits(f) : At(out, FirstOf(hits(f))) = dev
  <2> HIDE DEF hits
  <2> QED BY <1>2, FirstIsOne
<1>4. hits(f) # {} => Hit(At(out, FirstOf(hits(f))), path, f) = Hit(At(out, FirstOf(hits(f))), path, g)
  BY <1>1, <1>3
<1>5. \A find : ByPath(out, path, find)[pos] =
        IF hits(find) = {} THEN 0 ELSE Hit(At(out, FirstOf(hits(find))), path, find)
  BY DEF ByPath
<1> HIDE DEF hits
<1> QED BY <1>2, <1>4, <1>5

(* Each round reaches one node higher than the one before, so that the      *)
(* equations have a solution.                                               *)
LEMMA BackingSolved ==
  ASSUME NEW out, NEW h, Tree(out, h), NEW name
  PROVE  \E find : find = Backing(out, name, find) /\ FindBackingDeviceForLUKS(out, name) = find[0]
<1> DEFINE B(find) == Backing(out, name, find)
           Missed == {k \in Nat : ~ \E f : Agree(out, h, k, f, B(f))}
<1>1. \A k \in Nat : \A f, g : Agree(out, h, k, f, g) => Agree(out, h, k + 1, B(f), B(g))
  BY BackingAgree
<1>2. h[0] \in Nat /\ \A pos \in Nodes(out) : h[pos] \in Nat /\ h[pos] < h[0] + 1
  BY DEF Tree, Nodes
<1>3. \A f, g : Agree(out, h, h[0] + 1, B(f), B(g)) => B(f) = B(g)
  <2> SUFFICES ASSUME NEW f, NEW g, Agree(out, h, h[0] + 1, B(f), B(g)) PROVE B(f) = B(g)
    OBVIOUS
  <2>1. \A pos \in Nodes(out) : B(f)[pos] = B(g)[pos]
    BY <1>2 DEF Agree
  <2>2. B(f) = [pos \in Nodes(out) |-> B(f)[pos]] /\ B(g) = [pos \in Nodes(out) |-> B(g)[pos]]
    BY DEF Backing
  <2> HIDE DEF B
  <2> QED BY <2>1, <2>2
<1> HIDE DEF B
<1>4. Missed = {}
  <2>1. SUFFICES ASSUME Missed # {} PROVE FALSE
    OBVIOUS
  <2>2. PICK k \in Missed : \A j \in Missed : k <= j
    <3>1. Missed \in SUBSET Nat
      OBVIOUS
    <3> HIDE DEF Missed
    <3> QED BY <2>1, <3>1, LeastExists
  <2>3. k # 0
    BY <1>2, <2>2 DEF Agree
  <2>4. k - 1 \in Nat /\ k - 1 \notin Missed /\ (k - 1) + 1 = k
    BY <2>2, <2>3
  <2>5. PICK f : Agree(out, h, k - 1, f, B(f))
    BY <2>4
  <2>6. Agree(out, h, k, B(f), B(B(f)))
    BY <1>1, <2>4, <2>5
  <2> QED BY <2>2, <2>6
<1>5. PICK f : Agree(out, h, h[0], f, B(f))
  BY <1>2, <1>4
<1>6. Agree(out, h, h[0] + 1, B(f), B(B(f)))
  BY <1>1, <1>2, <1>5
<1>7. B(f) = B(B(f))
  BY <1>3, <1>6
<1> DEFINE find == CHOOSE g : g = B(g)
<1>8. find = B(find)
  BY <1>7
<1>9. FindBackingDeviceForLUKS(out, name) = find[0]
  BY DEF FindBackingDeviceForLUKS, Backing, Nodes, B
<1> QED BY <1>8, <1>9 DEF B

LEMMA ByPathSolved ==
  ASSUME NEW out, NEW h, Tree(out, h), NEW path
  PROVE  \E find : find = ByPath(out, path, find) /\ FindDeviceByPath(out, path) = find[0]
<1> DEFINE B(find) == ByPath(out, path, find)
           Missed == {k \in Nat : ~ \E f : Agree(out, h, k, f, B(f))}
<1>1. \A k \in Nat : \A f, g : Agree(out, h, k, f, g) => Agree(out, h, k + 1, B(f), B(g))
  BY ByPathAgree
<1>2. h[0] \in Nat /\ \A pos \in Nodes(out) : h[pos] \in Nat /\ h[pos] < h[0] + 1
  BY DEF Tree, Nodes
<1>3. \A f, g : Agree(out, h, h[0] + 1, B(f), B(g)) => B(f) = B(g)
  <2> SUFFICES ASSUME NEW f, NEW g, Agree(out, h, h[0] + 1, B(f), B(g)) PROVE B(f) = B(g)
    OBVIOUS
  <2>1. \A pos \in Nodes(out) : B(f)[pos] = B(g)[pos]
    BY <1>2 DEF Agree
  <2>2. B(f) = [pos \in Nodes(out) |-> B(f)[pos]] /\ B(g) = [pos \in Nodes(out) |-> B(g)[pos]]
    BY DEF ByPath
  <2> HIDE DEF B
  <2> QED BY <2>1, <2>2
<1> HIDE DEF B
<1>4. Missed = {}
  <2>1. SUFFICES ASSUME Missed # {} PROVE FALSE
    OBVIOUS
  <2>2. PICK k \in Missed : \A j \in Missed : k <= j
    <3>1. Missed \in SUBSET Nat
      OBVIOUS
    <3> HIDE DEF Missed
    <3> QED BY <2>1, <3>1, LeastExists
  <2>3. k # 0
    BY <1>2, <2>2 DEF Agree
  <2>4. k - 1 \in Nat /\ k - 1 \notin Missed /\ (k - 1) + 1 = k
    BY <2>2, <2>3
  <2>5. PICK f : Agree(out, h, k - 1, f, B(f))
    BY <2>4
  <2>6. Agree(out, h, k, B(f), B(B(f)))
    BY <1>1, <2>4, <2>5
  <2> QED BY <2>2, <2>6
<1>5. PICK f : Agree(out, h, h[0], f, B(f))
  BY <1>2, <1>4
<1>6. Agree(out, h, h[0] + 1, B(f), B(B(f)))
  BY <1>1, <1>2, <1>5
<1>7. B(f) = B(B(f))
  BY <1>3, <1>6
<1> DEFINE find == CHOOSE g : g = B(g)
<1>8. find = B(find)
  BY <1>7
<1>9. FindDeviceByPath(out, path) = find[0]
  BY DEF FindDeviceByPath, ByPath, Hit, Nodes, B
<1> QED BY <1>8, <1>9 DEF B

(* A property of nodes that passes from a device to the one above it holds  *)
(* at the top if it holds anywhere.                                         *)
LEMMA Upwards ==
  ASSUME NEW out, NEW h, Tree(out, h), NEW V \in SUBSET Nodes(out), V # {},
         \A dev \in out : dev.pos \in V => dev.parent \in V
  PROVE  0 \in V
<1> DEFINE Heights == {h[pos] : pos \in V}
<1>1. \A pos \in Nodes(out) : h[pos] \in 0 .. h[0]
  BY DEF Tree, Nodes
<1>2. h[0] \in Nat
  BY DEF Tree, Nodes
<1>3. PICK top \in Heights : \A k \in Heights : k <= top
  <2>1. Heights \in SUBSET (0 .. h[0]) /\ Heights # {}
    BY <1>1
  <2> HIDE DEF Heights
  <2> QED BY <1>2, <2>1, GreatestExists
<1>4. PICK pos \in V : h[pos] = top
  BY <1>3
<1>5. SUFFICES ASSUME pos # 0 PROVE FALSE
  BY <1>4
<1>6. PICK dev \in out : dev.pos = pos
  BY <1>5 DEF Nodes, Places
<1>7. dev.parent \in V /\ h[dev.pos] < h[dev.parent]
  BY <1>6 DEF Tree
<1>8. h[dev.parent] <= h[pos]
  BY <1>3, <1>4, <1>7
<1> QED BY <1>1, <1>6, <1>7, <1>8

(* And one that passes from all devices below a node to it holds            *)
(* everywhere.                                                              *)
LEMMA Downwards ==
  ASSUME NEW out, NEW h, Tree(out, h), NEW V \in SUBSET Nodes(out),
         \A pos \in Nodes(out) : (\A dev \in Children(out, pos) : dev.pos \in V) => pos \in V
  PROVE  V = Nodes(out)
<1> DEFINE Heights == {h[pos] : pos \in Nodes(out) \ V}
<1>1. \A pos \in Nodes(out) : h[pos] \in Nat
  BY DEF Tree
<1>2. SUFFICES ASSUME Nodes(out) \ V # {} PROVE FALSE
  OBVIOUS
<1>3. PICK low \in Heights : \A k \in Heights : low <= k
  <2>1. Heights \in SUBSET Nat /\ Heights # {}
    BY <1>1, <1>2
  <2> HIDE DEF Heights
  <2> QED BY <2>1, LeastExists
<1>4. PICK pos \in Nodes(out) \ V : h[pos] = low
  BY <1>3
<1>5. PICK dev \in Children(out, pos) : dev.pos \notin V
  BY <1>4
<1>6. dev.pos \in Nodes(out) /\ h[dev.pos] < h[pos]
  BY <1>5 DEF Children, Nodes, Places, Tree
<1>7. h[pos] <= h[dev.pos]
  BY <1>3, <1>4, <1>5, <1>6
<1> QED BY <1>1, <1>4, <1>6, <1>7

(* findBackingDeviceForLUKS, whatever block devices lsblk prints and however*)
(* deep they are nested: if the mapping of the name is listed somewhere, and*)
(* all the devices on which it is listed have one path, then that path is   *)
(* what the search returns (and it panics if the path cannot be told).      *)
THEOREM BackingSearch ==
  ASSUME NEW out, NEW h, Tree(out, h), NEW name, NEW target,
         \A pos \in Places(out) : Backs(out, pos, name) => DevicePath(At(out, pos)) = target,
         \E pos \in Places(out) : Backs(out, pos, name)
  PROVE  FindBackingDeviceForLUKS(out, name) = target
<1>0. target # Nil
  <2>1. \A dev : DevicePath(dev) # Nil
    BY DEF DevicePath, Panic, Nil
  <2> QED BY <2>1
<1>1. PICK find : find = Backing(out, name, find) /\ FindBackingDeviceForLUKS(out, name) = find[0]
  BY BackingSolved
<1> DEFINE hits(pos) == {child \in Children(out, pos) : find[child.pos] # Nil}
<1>2. \A pos \in Nodes(out) :
        find[pos] = IF pos # 0 /\ Backs(out, pos, name) THEN DevicePath(At(out, pos))
                    ELSE IF hits(pos) = {} THEN Nil ELSE find[FirstOf(hits(pos))]
  <2>1. Backing(out, name, find) =
          [pos \in Nodes(out) |->
             IF pos # 0 /\ Backs(out, pos, name) THEN DevicePath(At(out, pos))
             ELSE IF hits(pos) = {} THEN Nil ELSE find[FirstOf(hits(pos))]]
    BY DEF Backing
  <2> HIDE DEF hits
  <2> QED BY <1>1, <2>1
<1>3. \A pos : hits(pos) \in SUBSET out
  BY DEF Children
<1>4. \A pos \in Nodes(out) : hits(pos) # {} => \E dev \in hits(pos) : FirstOf(hits(pos)) = dev.pos
  <2> HIDE DEF hits
  <2> QED BY <1>3, FirstIsOne
<1>5. \A pos \in Nodes(out) : \A dev \in Children(out, pos) : dev \in hits(pos) <=> find[dev.pos] # Nil
  OBVIOUS
<1>6. 0 \notin Places(out) /\ Nodes(out) = Places(out) \cup {0}
  BY DEF Tree, Nodes
<1> HIDE DEF hits
<1> DEFINE Right == {pos \in Nodes(out) : find[pos] \in {Nil, target}}
<1>7. Right = Nodes(out)
  <2>1. ASSUME NEW pos \in Nodes(out), \A dev \in Children(out, pos) : dev.pos \in Right
        PROVE  pos \in Right
    <3>1. CASE pos # 0 /\ Backs(out, pos, name)
      BY <1>2, <1>6, <3>1
    <3>2. CASE ~(pos # 0 /\ Backs(out, pos, name)) /\ hits(pos) # {}
      <4>1. PICK dev \in hits(pos) : FirstOf(hits(pos)) = dev.pos
        BY <1>4, <3>2
      <4>2. dev \in Children(out, pos)
        BY <4>1 DEF hits
      <4> QED BY <1>2, <2>1, <3>2, <4>1, <4>2
    <3> QED BY <1>2, <3>1, <3>2
  <2>2. Right \in SUBSET Nodes(out)
    OBVIOUS
  <2> HIDE DEF Right
  <2> QED BY <2>1, <2>2, Downwards
<1> DEFINE Found == {pos \in Nodes(out) : find[pos] # Nil}
<1>8. 0 \in Found
  <2>1. ASSUME NEW dev \in out, dev.pos \in Found
        PROVE  dev.parent \in Found
    <3>1. dev.parent \in Nodes(out) /\ dev \in Children(out, dev.parent)
      BY DEF Tree, Children
    <3>2. dev \in hits(dev.parent)
      BY <1>5, <2>1, <3>1
    <3>3. CASE dev.parent # 0 /\ Backs(out, dev.parent, name)
      BY <1>0, <1>2, <1>6, <3>1, <3>3
    <3>4. CASE ~(dev.parent # 0 /\ Backs(out, dev.parent, name))
      <4>1. PICK e \in hits(dev.parent) : FirstOf(hits(dev.parent)) = e.pos
        BY <1>4, <3>1, <3>2
      <4>2. find[e.pos] # Nil
        BY <4>1 DEF hits
      <4> QED BY <1>2, <3>1, <3>2, <3>4, <4>1, <4>2
    <3> QED BY <3>3, <3>4
  <2>2. Found # {}
    BY <1>0, <1>2, <1>6
  <2>3. Found \in SUBSET Nodes(out)
    OBVIOUS
  <2> HIDE DEF Found
  <2> QED BY <2>1, <2>2, <2>3, Upwards
<1> QED BY <1>1, <1>6, <1>7, <1>8

(* And the place of the device with a path.                                 *)
LEMMA ByPathIs ==
  ASSUME NEW out, NEW h, Tree(out, h), NEW path, NEW place \in Nat,
         \A dev \in out : DevicePath(dev) # Panic,
         \A dev \in out : DevicePath(dev) = path => dev.pos = place
  PROVE  FindDeviceByPath(out, path) = IF \E dev \in out : DevicePath(dev) = path THEN place ELSE 0
<1>1. PICK find : find = ByPath(out, path, find) /\ FindDeviceByPath(out, path) = find[0]
  BY ByPathSolved
<1> DEFINE hits(pos) == {child \in Children(out, pos) : Hit(child, path, find) # 0}
<1>2. \A pos \in Nodes(out) :
        /\ hits(pos) = {} => find[pos] = 0
        /\ hits(pos) # {} => find[pos] = Hit(At(out, FirstOf(hits(pos))), path, find)
  <2>1. ByPath(out, path, find) =
          [pos \in Nodes(out) |->
             IF hits(pos) = {} THEN 0 ELSE Hit(At(out, FirstOf(hits(pos))), path, find)]
    BY DEF ByPath
  <2> HIDE DEF hits
  <2>2. \A pos \in Nodes(out) :
          find[pos] = IF hits(pos) = {} THEN 0 ELSE Hit(At(out, FirstOf(hits(pos))), path, find)
    BY <1>1, <2>1
  <2> QED BY <2>2
<1>3. \A pos : hits(pos) \in SUBSET out
  BY DEF Children
<1>4. \A pos \in Nodes(out) : hits(pos) # {} => \E dev \in hits(pos) : At(out, FirstOf(hits(pos))) = dev
  <2> HIDE DEF hits
  <2> QED BY <1>3, FirstIsOne
<1>5. \A dev \in out : Hit(dev, path, find) = IF DevicePath(dev) = path THEN place ELSE find[dev.pos]
  BY DEF Hit
<1>6. 0 \notin Places(out) /\ Nodes(out) = Places(out) \cup {0} /\ \A dev \in out : dev.pos \in Places(out)
  BY DEF Tree, Nodes, Places
<1>7. \A pos \in Nodes(out) : \A dev \in hits(pos) : dev \in Children(out, pos) /\ Hit(dev, path, find) # 0
  OBVIOUS
<1>8. \A dev \in out : dev \in hits(dev.parent) <=> Hit(dev, path, find) # 0
  BY DEF Children
<1> HIDE DEF hits
<1> DEFINE Right == {pos \in Nodes(out) :
                       find[pos] = 0 \/ (find[pos] = place /\ \E dev \in out : DevicePath(dev) = path)}
<1>9. Right = Nodes(out)
  <2>1. ASSUME NEW pos \in Nodes(out), \A dev \in Children(out, pos) : dev.pos \in Right
        PROVE  pos \in Right
    <3>1. CASE hits(pos) # {}
      <4>1. PICK dev \in hits(pos) : At(out, FirstOf(hits(pos))) = dev
        BY <1>4, <3>1
      <4>2. dev \in Children(out, pos) /\ dev \in out
        BY <1>3, <1>7, <4>1
      <4>3. find[pos] = Hit(dev, path, find)
        BY <1>2, <3>1, <4>1
      <4>4. CASE DevicePath(dev) = path
        BY <1>5, <4>2, <4>3, <4>4
      <4>5. CASE DevicePath(dev) # path
        <5>1. find[pos] = find[dev.pos] /\ dev.pos \in Right
          BY <1>5, <2>1, <4>2, <4>3, <4>5
        <5> QED BY <5>1
      <4> QED BY <4>4, <4>5
    <3>2. CASE hits(pos) = {}
      <4>1. find[pos] = 0
        BY <1>2, <3>2
      <4> QED BY <4>1
    <3> QED BY <3>1, <3>2
  <2>2. Right \in SUBSET Nodes(out)
    OBVIOUS
  <2> HIDE DEF Right
  <2> QED BY <2>1, <2>2, Downwards
<1>10. CASE \E dev \in out : DevicePath(dev) = path
  <2> DEFINE Found == {pos \in Nodes(out) : find[pos] # 0}
  <2>1. ASSUME NEW dev \in out, Hit(dev, path, find) # 0
        PROVE  dev.parent \in Found
    <3>1. dev.parent \in Nodes(out) /\ dev \in hits(dev.parent)
      BY <1>8, <2>1 DEF Tree
    <3>2. PICK e \in hits(dev.parent) : At(out, FirstOf(hits(dev.parent))) = e
      BY <1>4, <3>1
    <3> QED BY <1>2, <1>7, <3>1, <3>2
  <2>2. \A dev \in out : DevicePath(dev) = path => Hit(dev, path, find) # 0
    BY <1>5, <1>6
  <2>3. \A dev \in out : dev.pos \in Found => Hit(dev, path, find) # 0
    BY <1>5, <2>2
  <2>4. Found # {}
    BY <1>10, <2>1, <2>2
  <2>5. Found \in SUBSET Nodes(out)
    OBVIOUS
  <2>6. 0 \in Found
    <3>1. \A dev \in out : dev.pos \in Found => dev.parent \in Found
      BY <2>1, <2>3
    <3> HIDE DEF Found
    <3> QED BY <2>4, <2>5, <3>1, Upwards
  <2> QED BY <1>1, <1>6, <1>9, <1>10, <2>6
<1>11. CASE ~ \E dev \in out : DevicePath(dev) = path
  BY <1>1, <1>6, <1>9, <1>11
<1> QED BY <1>10, <1>11

-----------------------------------------------------------------------------
(* The output of lsblk that the machine gives is such a tree, and what the  *)
(* searches find in it.                                                     *)
IDsOf(d) == {Serial(d), MD5Sum(d)}

ContainerInv ==
  /\ links \in [Links -> Devices \cup {None}]
  /\ \A d \in Devices : mapping[d] \in {Nil} \cup IDsOf(d)

(* Each present device has a number from 1 on.                              *)
LEMMA PresentDevices ==
  ASSUME ContainerInv, NEW d \in Present
  PROVE  d \in Devices /\ d \in Nat /\ d >= 1
<1>1. d \in Devices
  BY DEF ContainerInv, Present
<1> QED BY <1>1, FinderAssumption

(* The blocks of the output, one by one.                                    *)
InOutput(b) ==
  \/ b = Block(1, 0, "disk", <<"system">>)
  \/ b = Block(2, 1, "part", <<"system", 3>>)
  \/ b = Block(3, 2, "crypt", <<"usr">>)
  \/ \E d \in Present :
       \/ /\ d \notin Multipath
          /\ \/ b = Block(10 * d, 0, "disk", <<"sd", d>>)
             \/ mapping[d] # Nil /\ b = Block(10 * d + 1, 10 * d, "crypt", mapping[d])
             \/ d \in Partitioned /\ b = Block(10 * d + 2, 10 * d, "part", <<"part", d>>)
       \/ /\ d \in Multipath
          /\ \E n \in {10 * d, 10 * d + 5} :
               \/ b = Block(n, 0, "disk", <<"path", d, n>>)
               \/ b = Block(n + 1, n, "mpath", <<"mpath", d>>)
               \/ mapping[d] # Nil /\ b = Block(n + 2, n + 1, "crypt", mapping[d])

LEMMA OutputIs == ContainerInv => \A b : b \in LsblkOutput <=> InOutput(b)
<1> SUFFICES ASSUME ContainerInv, NEW b PROVE b \in LsblkOutput <=> InOutput(b)
  OBVIOUS
<1>1. \A d \in Present : d \in Devices /\ d \in Nat
  BY PresentDevices
<1>2. b \in SystemDisk <=>
        \/ b = Block(1, 0, "disk", <<"system">>)
        \/ b = Block(2, 1, "part", <<"system", 3>>)
        \/ b = Block(3, 2, "crypt", <<"usr">>)
  BY DEF SystemDisk
<1>3. \A pos, d : b \in OnDevice(d, pos) <=>
        \/ mapping[d] # Nil /\ b = Block(pos + 1, pos, "crypt", mapping[d])
        \/ d \in Partitioned /\ b = Block(pos + 2, pos, "part", <<"part", d>>)
  BY DEF OnDevice
<1>4. ASSUME NEW d \in Devices, d \notin Multipath
      PROVE  b \in BlockDevice(d) <=>
               \/ b = Block(10 * d, 0, "disk", <<"sd", d>>)
               \/ mapping[d] # Nil /\ b = Block(10 * d + 1, 10 * d, "crypt", mapping[d])
               \/ d \in Partitioned /\ b = Block(10 * d + 2, 10 * d, "part", <<"part", d>>)
  BY <1>3, <1>4 DEF BlockDevice
<1>5. ASSUME NEW d \in Devices, d \in Multipath
      PROVE  b \in BlockDevice(d) <=>
               \E n \in {10 * d, 10 * d + 5} :
                 \/ b = Block(n, 0, "disk", <<"path", d, n>>)
                 \/ b = Block(n + 1, n, "mpath", <<"mpath", d>>)
                 \/ mapping[d] # Nil /\ b = Block(n + 2, n + 1, "crypt", mapping[d])
  <2>1. d \notin Partitioned /\ d \in Nat
    BY <1>1, <1>5, FinderAssumption
  <2>2. b \in BlockDevice(d) <=>
          \E n \in {10 * d, 10 * d + 5} :
            \/ b = Block(n, 0, "disk", <<"path", d, n>>)
            \/ b = Block(n + 1, n, "mpath", <<"mpath", d>>)
            \/ b \in OnDevice(d, n + 1)
    BY <1>5 DEF BlockDevice
  <2>3. \A n \in {10 * d, 10 * d + 5} : n \in Nat /\ n + 1 + 1 = n + 2
    BY <2>1
  <2> QED BY <1>3, <2>1, <2>2, <2>3
<1>6. b \in LsblkOutput <=> b \in SystemDisk \/ \E d \in Present : b \in BlockDevice(d)
  BY DEF LsblkOutput
<1> HIDE DEF ContainerInv
<1> QED BY <1>1, <1>2, <1>4, <1>5, <1>6 DEF InOutput

(* A container is on a partition, a multipath device or a disk, these are   *)
(* on a disk.                                                               *)
Rank(type) == IF type = "disk" THEN 2 ELSE IF type \in {"mpath", "part"} THEN 1 ELSE 0
Height ==
  [pos \in Nodes(LsblkOutput) |-> IF pos = 0 THEN 3 ELSE Rank(At(LsblkOutput, pos).type)]

LEMMA OutputTree == ContainerInv => Tree(LsblkOutput, Height)
<1> SUFFICES ASSUME ContainerInv PROVE Tree(LsblkOutput, Height)
  OBVIOUS
<1> DEFINE out == LsblkOutput
<1>1. \A b : b \in out <=> InOutput(b)
  BY OutputIs
<1>2. \A d \in Present : d \in Nat /\ d >= 1
  BY PresentDevices
<1> HIDE DEF out
<1>3. \A b \in out : b.pos \in Nat \ {0}
  BY <1>1, <1>2 DEF InOutput, Block
<1>4. \A a, b \in out : a.pos = b.pos => a = b
  BY <1>1, <1>2 DEF InOutput, Block
<1>5. \A b \in out : At(out, b.pos) = b
  BY <1>4 DEF At
<1>6. ASSUME NEW b \in out
      PROVE  \/ b.parent = 0 /\ Rank(b.type) = 2
             \/ \E a \in out : b.parent = a.pos /\ Rank(b.type) < Rank(a.type)
  <2> DEFINE Top(c) == c.parent = 0 /\ Rank(c.type) = 2
             Below(c) == \E a \in out : c.parent = a.pos /\ Rank(c.type) < Rank(a.type)
  <2>1. \A pos, parent, type, name :
          LET c == Block(pos, parent, type, name)
          IN c.pos = pos /\ c.parent = parent /\ c.type = type
    BY DEF Block
  <2>2. Rank("disk") = 2 /\ Rank("part") = 1 /\ Rank("mpath") = 1 /\ Rank("crypt") = 0
    BY DEF Rank
  <2>3. b = Block(1, 0, "disk", <<"system">>) => Top(b)
    BY <2>1, <2>2
  <2>4. b = Block(2, 1, "part", <<"system", 3>>) => Below(b)
    <3>1. Block(1, 0, "disk", <<"system">>) \in out
      BY <1>1 DEF InOutput
    <3> QED BY <2>1, <2>2, <3>1
  <2>5. b = Block(3, 2, "crypt", <<"usr">>) => Below(b)
    <3>1. Block(2, 1, "part", <<"system", 3>>) \in out
      BY <1>1 DEF InOutput
    <3> QED BY <2>1, <2>2, <3>1
  <2>6. ASSUME NEW d \in Present, d \notin Multipath
        PROVE  /\ b = Block(10 * d, 0, "disk", <<"sd", d>>) => Top(b)
               /\ b = Block(10 * d + 1, 10 * d, "crypt", mapping[d]) => Below(b)
               /\ b = Block(10 * d + 2, 10 * d, "part", <<"part", d>>) => Below(b)
    <3>1. Block(10 * d, 0, "disk", <<"sd", d>>) \in out
      BY <1>1, <2>6 DEF InOutput
    <3> QED BY <2>1, <2>2, <3>1
  <2>7. ASSUME NEW d \in Present, d \in Multipath, NEW n \in {10 * d, 10 * d + 5}
        PROVE  /\ b = Block(n, 0, "disk", <<"path", d, n>>) => Top(b)
               /\ b = Block(n + 1, n, "mpath", <<"mpath", d>>) => Below(b)
               /\ b = Block(n + 2, n + 1, "crypt", mapping[d]) => Below(b)
    <3>1. Block(n, 0, "disk", <<"path", d, n>>) \in out /\ Block(n + 1, n, "mpath", <<"mpath", d>>) \in out
      BY <1>1, <2>7 DEF InOutput
    <3> QED BY <2>1, <2>2, <3>1
  <2>8. InOutput(b)
    BY <1>1
  <2> HIDE DEF Top, Below
  <2>9. Top(b) \/ Below(b)
    BY <2>3, <2>4, <2>5, <2>6, <2>7, <2>8 DEF InOutput
  <2> QED BY <2>9 DEF Top, Below
<1>7. \A b \in out : Rank(b.type) \in 0 .. 2
  BY DEF Rank
<1>8. \A b \in out : b.pos \in Nodes(out) /\ Height[b.pos] = Rank(b.type)
  BY <1>3, <1>5 DEF Height, Nodes, Places, out
<1>9. 0 \in Nodes(out) /\ Height[0] = 3
  BY DEF Height, Nodes, out
<1>10. Height \in [Nodes(out) -> Nat] /\ \A pos \in Nodes(out) : Height[pos] <= Height[0]
  <2>1. \A pos \in Nodes(out) : pos = 0 \/ \E b \in out : pos = b.pos
    BY DEF Nodes, Places
  <2>2. \A pos \in Nodes(out) : Height[pos] \in 0 .. 3
    BY <1>7, <1>8, <1>9, <2>1
  <2>3. Height = [pos \in Nodes(out) |-> Height[pos]]
    BY DEF Height, out
  <2> QED BY <1>9, <2>2, <2>3
<1>11. \A b \in out : b.parent \in Nodes(out) /\ Height[b.pos] < Height[b.parent]
  BY <1>6, <1>7, <1>8, <1>9
<1> QED BY <1>3, <1>4, <1>10, <1>11 DEF Tree, Places, out

(* The places of a device, and what is at and below them.                   *)
LEMMA PlacesOfDevice ==
  ASSUME ContainerInv, NEW d \in Present
  PROVE  /\ d \in Devices /\ d \in Nat /\ d >= 1
         /\ d \notin Multipath =>
              /\ 10 * d \in Places(LsblkOutput)
              /\ At(LsblkOutput, 10 * d) = Block(10 * d, 0, "disk", <<"sd", d>>)
              /\ \A c : c \in Children(LsblkOutput, 10 * d) <=>
                   \/ mapping[d] # Nil /\ c = Block(10 * d + 1, 10 * d, "crypt", mapping[d])
                   \/ d \in Partitioned /\ c = Block(10 * d + 2, 10 * d, "part", <<"part", d>>)
         /\ d \in Multipath => \A n \in {10 * d, 10 * d + 5} :
              /\ n + 1 \in Places(LsblkOutput)
              /\ At(LsblkOutput, n + 1) = Block(n + 1, n, "mpath", <<"mpath", d>>)
<1>1. d \in Devices /\ \A e \in Present : e \in Nat /\ e >= 1
  BY PresentDevices
<1>2. \A b : b \in LsblkOutput <=> InOutput(b)
  BY OutputIs
<1>3. \A a, b \in LsblkOutput : a.pos = b.pos => a = b
  BY OutputTree DEF Tree
<1>4. \A b \in LsblkOutput : At(LsblkOutput, b.pos) = b /\ b.pos \in Places(LsblkOutput)
  BY <1>3 DEF At, Places
<1>5. \A pos, parent, type, name : Block(pos, parent, type, name).pos = pos
  BY DEF Block
<1>6. ASSUME d \notin Multipath
      PROVE  /\ 10 * d \in Places(LsblkOutput)
             /\ At(LsblkOutput, 10 * d) = Block(10 * d, 0, "disk", <<"sd", d>>)
  <2>1. Block(10 * d, 0, "disk", <<"sd", d>>) \in LsblkOutput
    BY <1>2, <1>6 DEF InOutput
  <2> QED BY <1>4, <1>5, <2>1
<1>7. ASSUME d \notin Multipath, NEW c
      PROVE  c \in Children(LsblkOutput, 10 * d) <=>
               \/ mapping[d] # Nil /\ c = Block(10 * d + 1, 10 * d, "crypt", mapping[d])
               \/ d \in Partitioned /\ c = Block(10 * d + 2, 10 * d, "part", <<"part", d>>)
  <2>1. c \in Children(LsblkOutput, 10 * d) <=> InOutput(c) /\ c.parent = 10 * d
    BY <1>2 DEF Children
  <2> QED BY <1>1, <1>7, <2>1 DEF InOutput, Block
<1>8. ASSUME d \in Multipath, NEW n \in {10 * d, 10 * d + 5}
      PROVE  /\ n + 1 \in Places(LsblkOutput)
             /\ At(LsblkOutput, n + 1) = Block(n + 1, n, "mpath", <<"mpath", d>>)
  <2>1. Block(n + 1, n, "mpath", <<"mpath", d>>) \in LsblkOutput
    BY <1>2, <1>8 DEF InOutput
  <2> QED BY <1>4, <1>5, <2>1
<1> QED BY <1>1, <1>6, <1>7, <1>8

(* The serial number by which a device that cannot be read is known.        *)
LEMMA SerialNumberFound ==
  ASSUME ContainerInv, NEW d \in Present
  PROVE  FindSerialNumberForDevice(LsblkOutput, DeviceFile(d)) =
           IF d \in Multipath \cup Partitioned \/ mapping[d] = Nil THEN Nil ELSE <<mapping[d]>>
<1> DEFINE out == LsblkOutput
           place == 10 * d
           pos == FindDeviceByPath(out, DeviceFile(d))
<1>1. Tree(out, Height) /\ \A b : b \in out <=> InOutput(b)
  BY OutputTree, OutputIs
<1>2. \A e \in Present : e \in Nat /\ e >= 1
  BY PresentDevices
<1>3. \A b \in out : DevicePath(b) =
        IF b.type \in {"crypt", "mpath"} THEN <<"/dev/mapper", b.name>> ELSE <<"/dev", b.name>>
  <2> HIDE DEF out
  <2>1. \A b \in out : b.type \in {"crypt", "mpath", "disk", "part"}
    BY <1>1 DEF InOutput, Block
  <2> QED BY <2>1 DEF DevicePath
<1>4. \A b \in out : DevicePath(b) # Panic
  BY <1>3 DEF Panic
<1>5. \A b \in out : DevicePath(b) = DeviceFile(d) => d \notin Multipath /\ b.pos = place
  <2> HIDE DEF out
  <2>1. \A b \in out : b.type \notin {"crypt", "mpath"} =>
          \/ b.name[1] \in {"system", "part", "path"}
          \/ \E e \in Present : b.name = <<"sd", e>> /\ b.pos = 10 * e
    BY <1>1 DEF InOutput, Block
  <2>2. \A b \in out : DevicePath(b) = DeviceFile(d) =>
          /\ b.type \notin {"crypt", "mpath"}
          /\ b.name = IF d \in Multipath THEN <<"dm", d>> ELSE <<"sd", d>>
    BY <1>3 DEF DeviceFile
  <2> QED BY <2>1, <2>2
<1>6. pos = IF \E b \in out : DevicePath(b) = DeviceFile(d) THEN place ELSE 0
  <2> HIDE DEF out
  <2>1. place \in Nat
    BY <1>2
  <2> HIDE DEF place
  <2> QED BY <1>1, <1>4, <1>5, <2>1, ByPathIs
<1>7. CASE d \in Multipath
  <2>1. pos = 0
    BY <1>5, <1>6, <1>7
  <2> HIDE DEF pos
  <2> QED BY <1>7, <2>1 DEF FindSerialNumberForDevice, pos
<1>8. CASE d \notin Multipath
  <2> DEFINE c == Block(place + 1, place, "crypt", mapping[d])
             p == Block(place + 2, place, "part", <<"part", d>>)
             mappings == {child \in Children(out, place) : child.type = "crypt"}
  <2>1. /\ place \in Places(out) /\ At(out, place) = Block(place, 0, "disk", <<"sd", d>>)
        /\ \A x : x \in Children(out, place) <=>
             (mapping[d] # Nil /\ x = c) \/ (d \in Partitioned /\ x = p)
    BY <1>8, PlacesOfDevice
  <2>2. c.type = "crypt" /\ c.name = mapping[d] /\ p.type = "part"
    BY DEF Block
  <2>3. At(out, place) \in out
    BY <2>1, <1>1, <1>8 DEF InOutput
  <2>4. DevicePath(At(out, place)) = DeviceFile(d)
    BY <1>3, <1>8, <2>1, <2>3 DEF DeviceFile, Block
  <2>5. pos = place /\ place # 0 /\ DevicePath(At(out, place)) # Panic
    BY <1>2, <1>4, <1>6, <2>3, <2>4
  <2> HIDE DEF out, pos, place, c, p
  <2>6. FindSerialNumberForDevice(out, DeviceFile(d)) =
          IF Children(out, place) = mappings /\ Cardinality(mappings) = 1
          THEN <<At(out, FirstOf(mappings)).name>> ELSE Nil
    BY <2>5 DEF FindSerialNumberForDevice, pos
  <2>7. \A x : x \in mappings <=> mapping[d] # Nil /\ x = c
    BY <2>1, <2>2
  <2>8. CASE d \in Partitioned
    <3>1. p \in Children(out, place) /\ p \notin mappings
      BY <2>1, <2>2, <2>8
    <3>2. Children(out, place) # mappings
      BY <3>1
    <3> QED BY <2>6, <2>8, <3>2 DEF out
  <2>9. CASE d \notin Partitioned /\ mapping[d] = Nil
    <3>1. mappings = {}
      BY <2>7, <2>9
    <3>2. Cardinality(mappings) # 1
      BY <3>1, FS_EmptySet
    <3> QED BY <2>6, <2>9, <3>2 DEF out
  <2>10. CASE d \notin Partitioned /\ mapping[d] # Nil
    <3>1. mappings = {c} /\ Children(out, place) = mappings
      BY <2>1, <2>7, <2>10
    <3>2. Cardinality(mappings) = 1
      BY <3>1, FS_Singleton
    <3>3. mappings \in SUBSET out /\ mappings # {}
      BY <3>1 DEF Children
    <3> HIDE DEF mappings
    <3>4. At(out, FirstOf(mappings)) = c
      BY <1>1, <3>1, <3>3, FirstIsOne
    <3> QED BY <1>8, <2>2, <2>6, <2>10, <3>1, <3>2, <3>4 DEF out
  <2> QED BY <2>8, <2>9, <2>10
<1> QED BY <1>7, <1>8

(* The file of the device on which a container is open.                     *)
LEMMA BackingDevice ==
  ASSUME ContainerInv, NEW d \in Present, mapping[d] # Nil
  PROVE  FindBackingDeviceForLUKS(LsblkOutput, mapping[d]) =
           IF d \in Multipath THEN <<"/dev/mapper", <<"mpath", d>>>> ELSE DeviceFile(d)
<1> DEFINE out == LsblkOutput
           target == IF d \in Multipath THEN <<"/dev/mapper", <<"mpath", d>>>> ELSE DeviceFile(d)
<1>1. Tree(out, Height) /\ \A b : b \in out <=> InOutput(b)
  BY OutputTree, OutputIs
<1>2. \A e \in Present : e \in Devices /\ e \in Nat
  BY PresentDevices
<1>3. \A e \in Present : mapping[e] # Nil => mapping[e] \in IDsOf(e)
  BY <1>2 DEF ContainerInv
<1>4. \A e \in Present : mapping[e] = mapping[d] => e = d
  BY <1>3 DEF IDsOf, Serial, MD5Sum
<1>5. <<"usr">> # mapping[d]
  BY <1>3 DEF IDsOf, Serial, MD5Sum
<1> HIDE DEF out
<1>6. ASSUME NEW pos \in Places(out), Backs(out, pos, mapping[d])
      PROVE  DevicePath(At(out, pos)) = target
  <2>1. PICK c \in out : c.parent = pos /\ c.type = "crypt" /\ c.name = mapping[d]
    BY <1>6 DEF Backs, Children
  <2>2. \/ d \notin Multipath /\ pos = 10 * d
        \/ d \in Multipath /\ \E n \in {10 * d, 10 * d + 5} : pos = n + 1
    <3>1. InOutput(c)
      BY <1>1
    <3> HIDE DEF target
    <3>2. c.type # "disk" /\ c.type # "part" /\ c.type # "mpath" /\ c.name # <<"usr">>
      BY <1>5, <2>1
    <3>3. PICK e \in Present :
            \/ /\ e \notin Multipath /\ mapping[e] # Nil
               /\ c = Block(10 * e + 1, 10 * e, "crypt", mapping[e])
            \/ /\ e \in Multipath /\ mapping[e] # Nil
               /\ \E n \in {10 * e, 10 * e + 5} : c = Block(n + 2, n + 1, "crypt", mapping[e])
      BY <3>1, <3>2 DEF InOutput, Block
    <3>4. c.name = mapping[e]
      BY <3>3 DEF Block
    <3>5. e = d
      BY <1>4, <2>1, <3>3, <3>4
    <3> QED BY <2>1, <3>3, <3>5 DEF Block
  <2>3. CASE d \notin Multipath /\ pos = 10 * d
    <3>1. At(out, pos) = Block(10 * d, 0, "disk", <<"sd", d>>)
      BY <2>3, PlacesOfDevice DEF out
    <3>2. DevicePath(At(out, pos)) = <<"/dev", <<"sd", d>>>>
      BY <3>1 DEF DevicePath, Block
    <3> QED BY <2>3, <3>2 DEF DeviceFile
  <2>4. CASE d \in Multipath /\ \E n \in {10 * d, 10 * d + 5} : pos = n + 1
    <3>1. PICK n \in {10 * d, 10 * d + 5} : pos = n + 1
      BY <2>4
    <3>2. At(out, pos) = Block(n + 1, n, "mpath", <<"mpath", d>>)
      BY <2>4, <3>1, PlacesOfDevice DEF out
    <3>3. DevicePath(At(out, pos)) = <<"/dev/mapper", <<"mpath", d>>>>
      BY <3>2 DEF DevicePath, Block
    <3> QED BY <2>4, <3>3
  <2> QED BY <2>2, <2>3, <2>4
<1>7. \E pos \in Places(out) : Backs(out, pos, mapping[d])
  <2>1. CASE d \notin Multipath
    <3> DEFINE c == Block(10 * d + 1, 10 * d, "crypt", mapping[d])
    <3>1. 10 * d \in Places(out) /\ c \in Children(out, 10 * d)
      BY <2>1, PlacesOfDevice DEF out
    <3> QED BY <3>1 DEF Backs, Block
  <2>2. CASE d \in Multipath
    <3> DEFINE c == Block(10 * d + 2, 10 * d + 1, "crypt", mapping[d])
    <3>1. c \in out
      BY <1>1, <2>2 DEF InOutput
    <3>2. 10 * d + 1 \in Places(out)
      BY <2>2, PlacesOfDevice DEF out
    <3> QED BY <3>1, <3>2 DEF Backs, Children, Block
  <2> QED BY <2>1, <2>2
<1> HIDE DEF target
<1>8. FindBackingDeviceForLUKS(out, mapping[d]) = target
  BY <1>1, <1>6, <1>7, BackingSearch
<1> QED BY <1>8 DEF out, target

-----------------------------------------------------------------------------
(* The identity of drives.  A container bears one of the two names that its *)
(* device can have; and a device in use is found again by that name.        *)
IdentityInv ==
  /\ FinderInv /\ FinderTypeOK /\ ContainerInv
  /\ \A d \in Devices : driveID[d] \in {Nil} \cup IDsOf(d)
  /\ \A d \in Devices : listed[d] > 0 => driveID[d] # Nil /\ d \notin Partitioned
  /\ \A d \in Devices : mapping[d] # Nil => d \notin Partitioned
  /\ \A l \in Links :
       knownDrives[l] # None /\ knownDrives[l] \notin Multipath =>
         (mapping[knownDrives[l]] # Nil => listed[knownDrives[l]] > 0)

(* What a probe tells of a device that it does not ignore.                  *)
LEMMA ProbeFinds ==
  ASSUME IdentityInv, NEW d \in Present, NEW silent,
         NEW id, id = DriveID(d, CHOOSE serial \in Probe(d, silent) : TRUE)
  PROVE  /\ Probe(d, silent) # {} => d \notin Partitioned /\ id \in IDsOf(d) /\ id # Nil
         /\ Probe(d, silent) # {} /\ d \in dead => id = mapping[d]
         /\ mapping[d] # Nil /\ d \notin Multipath => Probe(d, silent) # {}
<1>1. d \in Devices /\ ContainerInv
  BY DEF IdentityInv, ContainerInv, Present
<1>2. mapping[d] \in {Nil} \cup IDsOf(d) /\ (mapping[d] # Nil => d \notin Partitioned)
  BY <1>1 DEF IdentityInv, ContainerInv
<1>3. \A x : <<x>> # Nil /\ <<x>>[1] = x
  BY DEF Nil
<1>4. \A x \in IDsOf(d) : x # Nil
  BY DEF IDsOf, Serial, MD5Sum, Nil
<1>5. CASE d \in dead
  <2>1. Probe(d, silent) =
          IF d \in Multipath \cup Partitioned \/ mapping[d] = Nil THEN {} ELSE {<<mapping[d]>>}
    BY <1>1, <1>3, <1>5, SerialNumberFound DEF Probe, TryFindSerialNumberForBrokenDevice
  <2>2. CASE d \in Multipath \cup Partitioned \/ mapping[d] = Nil
    BY <1>2, <2>1, <2>2
  <2>3. CASE ~(d \in Multipath \cup Partitioned \/ mapping[d] = Nil)
    <3>1. (CHOOSE serial \in Probe(d, silent) : TRUE) = <<mapping[d]>> /\ Probe(d, silent) # {}
      BY <2>1, <2>3
    <3>2. id = mapping[d]
      BY <1>3, <3>1 DEF DriveID
    <3> QED BY <1>2, <1>4, <2>3, <3>1, <3>2
  <2> QED BY <2>2, <2>3
<1>6. CASE d \notin dead
  <2>1. Probe(d, silent) =
          IF d \in Partitioned THEN {} ELSE {IF d \in silent THEN Nil ELSE <<Serial(d)>>}
    BY <1>6 DEF Probe
  <2>2. CASE d \in Partitioned
    BY <1>2, <1>6, <2>1, <2>2
  <2>3. CASE d \notin Partitioned
    <3>1. /\ (CHOOSE serial \in Probe(d, silent) : TRUE) = IF d \in silent THEN Nil ELSE <<Serial(d)>>
          /\ Probe(d, silent) # {}
      BY <2>1, <2>3
    <3>2. id \in IDsOf(d)
      BY <1>3, <3>1 DEF DriveID, IDsOf
    <3> QED BY <1>4, <1>6, <2>3, <3>1, <3>2
  <2> QED BY <2>2, <2>3
<1> QED BY <1>5, <1>6

LEMMA IdentityInit == Init => IdentityInv
<1> SUFFICES ASSUME Init PROVE IdentityInv
  OBVIOUS
<1>1. FinderInv
  BY FinderInit
<1>2. ContainerInv
  BY DEF Init, ContainerInv
<1>3. FinderTypeOK
  BY DEF Init, FinderTypeOK
<1> QED BY <1>1, <1>2, <1>3 DEF Init, IdentityInv, FinderTypeOK

(* A round of the collector, and all other steps.                           *)
LEMMA IdentityCollect ==
  ASSUME IdentityInv, CollectDrives
  PROVE  /\ IdentityInv'
         /\ \A d \in dead : driveID'[d] \notin {driveID[d], Nil} => driveID'[d] = mapping[d]
<1> DEFINE removed == {knownDrives[l] : l \in {l \in Links : Vanished(l)}}
           addedWith(d, silent) == {l \in Links : Fresh(l) /\ links[l] = d /\ Probe(d, silent) # {}}
           idWith(d, silent) == DriveID(d, CHOOSE serial \in Probe(d, silent) : TRUE)
<1>0. PICK silent \in SUBSET Present :
        /\ listed' = [d \in Devices |->
             (IF d \in removed THEN 0 ELSE listed[d]) + Cardinality(addedWith(d, silent))]
        /\ driveID' = [d \in Devices |->
             IF addedWith(d, silent) = {} THEN driveID[d] ELSE idWith(d, silent)]
  BY DEF CollectDrives
<1> DEFINE added(d) == addedWith(d, silent)
           id(d) == idWith(d, silent)
<1>1. FinderInv' /\ FinderInv
  BY CollectKeeps DEF IdentityInv
<1>2. /\ UNCHANGED <<links, dead, mapping>> /\ settled' = TRUE
      /\ listed' = [d \in Devices |->
             (IF d \in removed THEN 0 ELSE listed[d]) + Cardinality(added(d))]
      /\ driveID' = [d \in Devices |->
             IF added(d) = {} THEN driveID[d] ELSE id(d)]
  BY <1>0 DEF CollectDrives
<1>3. /\ links' \in [Links -> Devices \cup {None}]
      /\ knownDrives' \in [Links -> Devices \cup {None}] /\ listed' \in [Devices -> Nat]
      /\ listed \in [Devices -> Nat]
  BY <1>1 DEF FinderInv, LinksTypeOK
<1>4. knownDrives' = links
  BY DEF CollectDrives, IdentityInv, FinderInv, LinksTypeOK, SameDevice, Vanished, Fresh
<1>5. \A d : \A l \in added(d) : d \in Present /\ Probe(d, silent) # {} /\ links[l] = d
  BY DEF Present, Fresh
<1>6. ASSUME NEW d \in Devices, added(d) = {}
      PROVE  listed'[d] = IF d \in removed THEN 0 ELSE listed[d]
  <2>1. Cardinality(added(d)) = 0
    BY <1>6, FS_EmptySet
  <2> HIDE DEF added, removed
  <2> QED BY <1>2, <1>3, <2>1
<1>7. ASSUME NEW d \in Devices, added(d) # {}
      PROVE  listed'[d] > 0
  <2>1. PICK l \in Links : l \in added(d)
    BY <1>7
  <2>2. /\ links[l] = d /\ d # None /\ links[l] = d /\ knownDrives[l] = None
    BY <2>1, FinderAssumption DEF Fresh, None
  <2>3. \A k, m \in added(d) : k = m
    BY <2>2 DEF FinderInv, OnePath, IdentityInv
  <2> HIDE DEF added
  <2>4. added(d) = {l}
    BY <2>1, <2>3
  <2>5. Cardinality(added(d)) = 1
    BY <2>4, FS_Singleton
  <2> HIDE DEF removed
  <2> QED BY <1>2, <1>3, <2>5
<1>8. ASSUME NEW d \in Devices
      PROVE  /\ driveID'[d] \in {Nil} \cup IDsOf(d)
             /\ listed'[d] > 0 => driveID'[d] # Nil /\ d \notin Partitioned
             /\ d \in dead /\ driveID'[d] # driveID[d] => driveID'[d] = mapping[d]
  <2>1. CASE added(d) = {}
    <3>1. listed'[d] > 0 => listed[d] > 0
      <4>1. listed'[d] \in {0, listed[d]}
        BY <1>6, <2>1
      <4> QED BY <1>3, <4>1
    <3> HIDE DEF added
    <3>2. driveID'[d] = driveID[d]
      BY <1>2, <2>1
    <3> QED BY <3>1, <3>2 DEF IdentityInv
  <2>2. CASE added(d) # {}
    <3>1. d \in Present /\ Probe(d, silent) # {}
      BY <1>5, <2>2
    <3>2. d \notin Partitioned /\ id(d) \in IDsOf(d) /\ id(d) # Nil /\ (d \in dead => id(d) = mapping[d])
      BY <3>1, ProbeFinds
    <3> HIDE DEF added, id
    <3>3. driveID'[d] = id(d)
      BY <1>2, <2>2
    <3> QED BY <3>2, <3>3
  <2> QED BY <2>1, <2>2
<1>9. ASSUME NEW l \in Links, links[l] # None, links[l] \notin Multipath, mapping[links[l]] # Nil
      PROVE  listed'[links[l]] > 0
  <2> DEFINE d == links[l]
  <2>1. d \in Devices /\ d \in Present
    BY <1>9 DEF IdentityInv, ContainerInv, Present
  <2>2. Probe(d, silent) # {}
    BY <1>9, <2>1, ProbeFinds
  <2>3. CASE Fresh(l)
    <3>1. l \in added(d)
      BY <2>2, <2>3
    <3> QED BY <1>7, <2>1, <3>1
  <2>4. CASE ~Fresh(l)
    <3>1. knownDrives[l] = d
      BY <1>1, <1>9, <2>4 DEF Fresh, FinderInv, SameDevice
    <3>2. listed[d] > 0
      BY <1>9, <3>1 DEF IdentityInv
    <3>3. d \notin removed
      <4>1. SUFFICES ASSUME NEW k \in Links, Vanished(k), knownDrives[k] = d PROVE FALSE
        OBVIOUS
      <4>2. k = l
        BY <1>1, <1>9, <3>1, <4>1 DEF FinderInv, OneMemory
      <4> QED BY <1>9, <4>1, <4>2 DEF Vanished
    <3>4. added(d) = {} => listed'[d] = listed[d]
      BY <1>6, <2>1, <3>3
    <3> HIDE DEF added, removed
    <3> QED BY <1>7, <2>1, <3>2, <3>4
  <2> QED BY <2>3, <2>4
<1> HIDE DEF added, removed, id
<1>10. FinderTypeOK'
  <2>1. \A d \in Devices : driveID'[d] \in {Nil} \cup DriveIDs
    BY <1>8 DEF IDsOf, DriveIDs
  <2>2. driveID' \in [Devices -> {Nil} \cup DriveIDs]
    BY <1>2, <2>1
  <2> QED BY <1>2, <1>3, <2>2 DEF FinderTypeOK, IdentityInv
<1>11. ContainerInv'
  BY <1>2 DEF ContainerInv, IdentityInv
<1>12. dead \subseteq Devices
  BY DEF IdentityInv, FinderTypeOK
<1> QED BY <1>1, <1>2, <1>4, <1>8, <1>9, <1>10, <1>11, <1>12 DEF IdentityInv

LEMMA IdentityOthers ==
  ASSUME IdentityInv, [Next]_vars, ~CollectDrives
  PROVE  IdentityInv'
<1>1. FinderInv' /\ FinderInv
  BY OthersKeep DEF IdentityInv
<1>2. CASE Restart
  <2>1. /\ \A l \in Links : knownDrives'[l] = None
        /\ \A d \in Devices : listed'[d] = 0
        /\ settled' = FALSE /\ UNCHANGED <<links, dead, mapping>>
        /\ driveID' = [d \in Devices |-> Nil]
    BY <1>2 DEF Restart
  <2>2. FinderTypeOK'
    BY <1>1, <2>1 DEF IdentityInv, FinderTypeOK, FinderInv, LinksTypeOK
  <2> QED BY <1>1, <2>1, <2>2 DEF IdentityInv, ContainerInv
<1>3. ASSUME NEW l \in Links, NEW d \in Devices, Plug(l, d)
      PROVE  IdentityInv'
  BY <1>1, <1>3 DEF Plug, IdentityInv, FinderTypeOK, ContainerInv
<1>4. ASSUME NEW l \in Links, Unplug(l)
      PROVE  IdentityInv'
  BY <1>1, <1>4 DEF Unplug, IdentityInv, FinderTypeOK, ContainerInv
<1>5. ASSUME NEW d \in Devices, OpenContainer(d)
      PROVE  IdentityInv'
  <2>1. /\ mapping' = [mapping EXCEPT ![d] = driveID[d]] /\ listed[d] > 0 /\ d \notin Partitioned
        /\ UNCHANGED <<links, dead, knownDrives, listed, driveID, settled>>
    BY <1>5 DEF OpenContainer, IdentityInv
  <2>2. driveID[d] \in IDsOf(d) /\ driveID[d] \in {Nil} \cup DriveIDs
    BY <2>1 DEF IdentityInv, FinderTypeOK
  <2> QED BY <1>1, <2>1, <2>2 DEF IdentityInv, FinderTypeOK, ContainerInv
<1>6. ASSUME NEW d \in Devices, Die(d)
      PROVE  IdentityInv'
  BY <1>1, <1>6 DEF Die, IdentityInv, FinderTypeOK, ContainerInv
<1>7. CASE UNCHANGED vars
  BY <1>1, <1>7 DEF vars, IdentityInv, FinderTypeOK, ContainerInv
<1> QED BY <1>2, <1>3, <1>4, <1>5, <1>6, <1>7 DEF Next

LEMMA IdentityInvariant == Spec => []IdentityInv
<1>1. IdentityInv /\ [Next]_vars => IdentityInv'
  BY IdentityCollect, IdentityOthers
<1> QED BY <1>1, IdentityInit, PTL DEF Spec

(* The variables of the collector have their types.                         *)
THEOREM FinderTypes == Spec => []FinderTypeOK
<1>1. IdentityInv => FinderTypeOK
  BY DEF IdentityInv
<1> QED BY <1>1, IdentityInvariant, PTL

(* A disk with partitions is never listed, whether it can be read (then     *)
(* `sfdisk -l` tells) or not (then it has more than a container below it).  *)
THEOREM PartitionedIgnored == Spec => []IgnoresPartitioned
<1>1. IdentityInv => IgnoresPartitioned
  BY FinderAssumption DEF IdentityInv, FinderTypeOK, IgnoresPartitioned
<1> QED BY <1>1, IdentityInvariant, PTL

(* After a round, a disk that cannot be read is listed if a container is    *)
(* open on it, since the search for its serial number finds that container. *)
THEOREM BrokenFound == Spec => []BrokenReported
<1>1. IdentityInv => BrokenReported
  <2> SUFFICES ASSUME IdentityInv, settled, NEW d \in Present \cap dead, mapping[d] # Nil, d \notin Multipath
               PROVE  listed[d] > 0
    BY DEF BrokenReported
  <2>1. PICK l \in Links : links[l] = d /\ d # None
    BY DEF Present
  <2>2. knownDrives = links
    BY DEF IdentityInv, FinderInv, UpToDate
  <2> QED BY <2>1, <2>2 DEF IdentityInv
<1> QED BY <1>1, IdentityInvariant, PTL

(* A drive that is reported although it cannot be read is given the name of *)
(* its open container for its identity, whatever smartctl has told of which *)
(* device before, and whatever name the process that opened it went by.     *)
THEOREM IdentityInferred == Spec => InferredIdentity
<1>1. IdentityInv /\ [Next]_vars =>
        [\A d \in dead : driveID'[d] \notin {driveID[d], Nil} => driveID'[d] = mapping[d]]_vars
  <2> SUFFICES ASSUME IdentityInv, [Next]_vars, NEW d \in dead, driveID'[d] \notin {driveID[d], Nil}
               PROVE  driveID'[d] = mapping[d]
    OBVIOUS
  <2>1. CASE CollectDrives
    BY <2>1, IdentityCollect
  <2>2. CASE Restart
    <3>1. d \in Devices
      BY DEF IdentityInv, FinderTypeOK
    <3> QED BY <2>2, <3>1 DEF Restart
  <2>3. CASE UNCHANGED driveID
    BY <2>3
  <2> QED BY <2>1, <2>2, <2>3 DEF Next, OpenContainer, Die, Plug, Unplug, vars
<1> QED BY <1>1, IdentityInvariant, PTL DEF InferredIdentity, Spec

(* On the machines of this model (any number of plain, partitioned and      *)
(* multipath devices with containers open on them, beside a system disk     *)
(* with an encrypted partition), the search for the device below a          *)
(* container finds the one on which it is open.                             *)
THEOREM BackingFound == Spec => []BackingDeviceFound
<1>1. IdentityInv => BackingDeviceFound
  BY BackingDevice DEF IdentityInv, BackingDeviceFound
<1> QED BY <1>1, IdentityInvariant, PTL
=============================================================================

------------------------------ MODULE DriveList ------------------------------
(***************************************************************************)
(* What the collectors, the channel and the event handlers promise between *)
(* them: the converger's list of drives is a delayed copy of the set of    *)
(* device files that were found.  It goes through every change in turn,    *)
(* and misses none.                                                        *)
(***************************************************************************)
EXTENDS Naturals, FiniteSets, SequencesExt

CONSTANT Disks

VARIABLES
  found,  \* the disks that were there when one last looked
  news,   \* the changes that the list has yet to follow, oldest first
  list    \* the disks that are being taken care of

driveList == <<found, news, list>>

Added(d) == [change |-> "added", disk |-> d]
Gone(d) == [change |-> "removed", disk |-> d]

Init == found = {} /\ news = <<>> /\ list = <<>>

(* All disks of a set, in some order. *)
Orders(S) == {s \in [1 .. Cardinality(S) -> S] : IsInjective(s)}

(* One looks again; what is gone is reported before what is new.            *)
Look ==
  /\ \E S \in SUBSET Disks :
       /\ found' = S
       /\ \E gone \in Orders(found \ S), new \in Orders(S \ found) :
            news' = news \o [i \in DOMAIN gone |-> Gone(gone[i])]
                         \o [i \in DOMAIN new |-> Added(new[i])]
  /\ UNCHANGED list

(* No disk is listed twice, and what is taken off the list has been on it.  *)
Follow ==
  /\ news # <<>> /\ news' = Tail(news)
  /\ \/ \E d \in Disks \ ToSet(list) :
          Head(news) = Added(d) /\ list' = Append(list, d)
     \/ \E i \in DOMAIN list :
          Head(news) = Gone(list[i]) /\ list' = RemoveAt(list, i)
  /\ UNCHANGED found

(* The process ends; the next one begins with nothing. *)
Forget == found' = {} /\ news' = <<>> /\ list' = <<>>

Next == Look \/ Follow \/ Forget

Spec == Init /\ [][Next]_driveList
=============================================================================

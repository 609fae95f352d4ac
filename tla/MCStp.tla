------------------------------- MODULE MCStp -------------------------------
(* Instances of Stp: two bridges with two links, a ring, a single bridge.  *)
EXTENDS Stp, TLC

CONSTANTS A, B, C

\* Two bridges with two links; the second one costs more.
PairPorts == {"a1", "a2", "b1", "b2"}
PairOwner == "a1" :> A @@ "a2" :> A @@ "b1" :> B @@ "b2" :> B
PairSegOf == "a1" :> 1 @@ "b1" :> 1 @@ "a2" :> 2 @@ "b2" :> 2
PairCost  == "a1" :> 1 @@ "b1" :> 1 @@ "a2" :> 2 @@ "b2" :> 2
PairID    == "a1" :> 1 @@ "b1" :> 1 @@ "a2" :> 2 @@ "b2" :> 2
PairIds   == A :> {1} @@ B :> {2}
PairReIds == A :> {1, 3} @@ B :> {2}  \* A may give up the root

\* A ring of three bridges.
RingPorts == {"ab", "ba", "bc", "cb", "ca", "ac"}
RingOwner == "ab" :> A @@ "ba" :> B @@ "bc" :> B @@ "cb" :> C @@ "ca" :> C @@ "ac" :> A
RingSegOf == "ab" :> 1 @@ "ba" :> 1 @@ "bc" :> 2 @@ "cb" :> 2 @@ "ca" :> 3 @@ "ac" :> 3
RingCost  == [p \in RingPorts |-> 1]
RingID    == "ab" :> 1 @@ "ba" :> 1 @@ "bc" :> 2 @@ "cb" :> 2 @@ "ca" :> 1 @@ "ac" :> 2
RingIds   == A :> {1} @@ B :> {2} @@ C :> {3}

\* One bridge, whose only port leads to a host.
LonePorts == {"a1"}
LoneOwner == "a1" :> A
LoneSegOf == "a1" :> 1
LoneCost  == "a1" :> 1
LoneID    == "a1" :> 1
LoneIds   == A :> {1}
=============================================================================

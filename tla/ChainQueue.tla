----------------------------- MODULE ChainQueue -----------------------------
(***************************************************************************)
(* What a virtqueue of internal/vhostuser promises the guest's driver,     *)
(* without indices, ring slots or sessions: the driver offers chains, the  *)
(* device gives them back in the order they were offered, and the driver   *)
(* collects them in that order.  No chain is lost, given back twice or     *)
(* made up, however the session is configured, paused and restarted.       *)
(***************************************************************************)
EXTENDS Naturals, Sequences

CONSTANT Chains

VARIABLES free, offered, returned

vars == <<free, offered, returned>>

Init == free = Chains /\ offered = <<>> /\ returned = <<>>

Offer(h) ==
  /\ h \in free
  /\ free' = free \ {h}
  /\ offered' = Append(offered, h)
  /\ UNCHANGED returned

\* The device gives back the n chains that have waited longest.
GiveBack(n) ==
  /\ returned' = returned \o SubSeq(offered, 1, n)
  /\ offered' = SubSeq(offered, n + 1, Len(offered))
  /\ UNCHANGED free

Collect ==
  /\ returned # <<>>
  /\ free' = free \cup {Head(returned)}
  /\ returned' = Tail(returned)
  /\ UNCHANGED offered

Next == \/ \E h \in Chains : Offer(h)
        \/ \E n \in 1 .. Len(offered) : GiveBack(n)
        \/ Collect

Spec == Init /\ [][Next]_vars
=============================================================================

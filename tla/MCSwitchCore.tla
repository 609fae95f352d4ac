---------------------------- MODULE MCSwitchCore ----------------------------
(***************************************************************************)
(* Small instances of SwitchCore: two port IDs and two receive goroutines, *)
(* one for each port, or both for the first (a server port whose old and   *)
(* new connection overlap).                                                *)
(***************************************************************************)
EXTENDS SwitchCore, TLC

CONSTANTS p1, p2, r1, r2, m1

MCRefOf  == (r1 :> p1) @@ (r2 :> p2)
SharedRef == (r1 :> p1) @@ (r2 :> p1)
RxSym    == Permutations({r1, r2})
Plain    == ZeroAttrs
On(vlan) == [ZeroAttrs EXCEPT !.vlan = vlan]
Frame(tags, src, dst) == [tags |-> tags, src |-> src, dst |-> dst]

\* Registry races: a shut port, a secured STP port, a guarded port with a
\* storm limit; one address.
Secured    == [ZeroAttrs EXCEPT !.stp = TRUE, !.secMAC = m1]
Guarded    == [ZeroAttrs EXCEPT !.bpduGuard = TRUE, !.storm = TRUE]
RaceAttrs  == {[ZeroAttrs EXCEPT !.disabled = TRUE], Secured, Guarded}
RaceFrames == {Frame(<<>>, m1, GroupMAC), Frame(<<>>, m1, BpduMAC)}

\* VLAN domains: access, trunk, untagged-only and isolated ports.
VlanAttrs  == {[On(5) EXCEPT !.isolated = TRUE], On(VLANTrunk), On(VLANUntaggedOnly)}
VlanFrames == {Frame(<<>>, m1, m1), Frame(<<0>>, m1, GroupMAC), Frame(<<5>>, m1, m1)}

\* Aging.
AgeFrames == {Frame(<<>>, m1, m1), Frame(<<>>, GroupMAC, m1), Frame(<<>>, GroupMAC, ProbeMAC)}
PlainOnly == {Plain}
=============================================================================

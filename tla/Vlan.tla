-------------------------------- MODULE Vlan --------------------------------
(***************************************************************************)
(* The VLAN rules of the switch (internal/switchcore/vlan.go): how an      *)
(* ingress frame is put into a VLAN domain, through which ports a frame of *)
(* a domain may leave, and in which form (tagged or not) it leaves.        *)
(*                                                                         *)
(* A frame's header is abstracted to the stack of its 802.1Q tags, the     *)
(* sequence of their VIDs with the outermost first: the switch only ever   *)
(* looks at, pushes or strips the outermost one.  A domain is named by its *)
(* key: 0 is the untagged domain, the other keys are VIDs.                 *)
(***************************************************************************)
EXTENDS Integers, Sequences

VLANUntaggedOnly == 0
VLANTrunk        == 4095
untaggedKey      == 0

\* The "frame must be dropped" result (ok = false) of ingressKey.
NoKey == -1

\* The values PortAttrs.validate accepts for VLAN.
PortVLANs == VLANUntaggedOnly .. VLANTrunk

\* parseFrame: a frame is tagged when it carries a tag, whose VID is 12 bits.
VIDMask   == 4095
VIDs      == 0 .. VIDMask
tagged(f) == f # <<>>
vid(f)    == Head(f)

ingressKey(vlan, f) ==
  CASE vlan = VLANTrunk        -> IF tagged(f) THEN vid(f) ELSE untaggedKey
    [] vlan = VLANUntaggedOnly -> IF tagged(f) THEN NoKey ELSE untaggedKey
    [] OTHER                   -> IF tagged(f) THEN NoKey ELSE vlan

\* The domain test of egressEligible: is the port a member of the domain?
Member(vlan, key) ==
  CASE vlan = VLANTrunk        -> TRUE
    [] vlan = VLANUntaggedOnly -> key = untaggedKey
    [] OTHER                   -> key = vlan

egressEligible(srcAttrs, dstAttrs, key) ==
  /\ ~dstAttrs.disabled
  /\ ~(srcAttrs.isolated /\ dstAttrs.isolated)
  /\ Member(dstAttrs.vlan, key)

untaggedForm(f)    == IF tagged(f) THEN Tail(f) ELSE f
taggedForm(key, f) == IF tagged(f) THEN f ELSE <<key>>

\* Mutant of egressFrame: a trunk port passes the frame as it came in.
TrunkAsIs(vlan, key, f) == IF vlan = VLANTrunk THEN f ELSE untaggedForm(f)

egressFrame(vlan, key, f) ==
  IF vlan = VLANTrunk /\ key # untaggedKey THEN taggedForm(key, f) ELSE untaggedForm(f)
=============================================================================

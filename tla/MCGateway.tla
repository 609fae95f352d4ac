----------------------------- MODULE MCGateway -----------------------------
(* The services of one gateway, each by itself: they share no state.       *)
(*                                                                         *)
(* DHCP: two clients behind one port, a pool of two addresses next to the  *)
(* gateway's, and a binding of one of them to the first client.  Bounds:   *)
(* one change by the API, loss of the port, RELEASE or DECLINE, one frame  *)
(* in the queue, and leases of two ticks, so that a lease may be active,   *)
(* about to end, and expired but not yet swept.                            *)
(*                                                                         *)
(* Forwards: three specs, two of them for one address; three calls, two of *)
(* them at a time, so that a PUT finds what two overlapping calls left.    *)
(* Advertisements: two calls at a time, without a bound.                   *)
EXTENDS Dhcp, Gateway, TLC

CONSTANTS c1, c2, p1, m1, m2

MCIdent == (c1 :> [port |-> p1, mac |-> m1, cid |-> ""]) @@ (c2 :> [port |-> p1, mac |-> m2, cid |-> ""])
MCConfigs == {[enabled |-> TRUE, start |-> 1, end |-> 3], [enabled |-> FALSE, start |-> 1, end |-> 3]}
MCBindings == {[id |-> "b1", order |-> 0, port |-> p1, mac |-> m1, cid |-> Unset, ip |-> 2]}
MCBindOf == [s \in Specs |-> IF s = "z" THEN 2 ELSE 1]
MCPuts == {{"x", "y"}, {"y", "z"}}

VARIABLE service    \* the one that works

fwdVars == <<gw, closing, forwards, fwdSeq, open, call, calls>>
raVars  == <<done, setter, raCfg, kick, loop, sent>>

MCInit ==
  /\ service \in {"dhcp", "forwards", "ra"} /\ Init /\ F!Init /\ R!Init
  /\ service # "dhcp" => family = "v4" /\ statics = {}

MCNext ==
  \/ service = "dhcp" /\ Next /\ UNCHANGED <<service, fwdVars, raVars>>
  \/ service = "forwards" /\ F!Next /\ UNCHANGED <<service, vars, raVars>>
  \/ service = "ra" /\ R!Next /\ UNCHANGED <<service, vars, fwdVars>>

\* The fairness of Dhcp; what is checked of the other two is safety.
MCSpec ==
  /\ MCInit /\ [][MCNext]_<<service, vars, fwdVars, raVars>>
  /\ WF_vars(service = "dhcp" /\ txWorker) /\ WF_vars(service = "dhcp" /\ Tick)
  /\ WF_vars(service = "dhcp" /\ expireSweep)
  /\ \A p \in Ports : WF_vars(service = "dhcp" /\ PortDown(p))
=============================================================================

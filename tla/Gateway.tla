------------------------------- MODULE Gateway -------------------------------
(***************************************************************************)
(* Two services of a gateway that API calls reconfigure while they run,    *)
(* side by side: the port forwards (Forwards) and the router               *)
(* advertisements (RouterAdvert).  They share no state, neither with each  *)
(* other nor with the DHCP servers (Dhcp).                                 *)
(***************************************************************************)
CONSTANTS Callers, Specs, BindOf, Puts, MaxCalls,    \* Forwards
          Setters, RaConfigs                         \* RouterAdvert

ASSUME ForwardsAssumption == Puts \subseteq SUBSET Specs

VARIABLES
  gw, closing, forwards, fwdSeq, open, call, calls,    \* Forwards
  done, setter, raCfg, kick, loop, sent                \* RouterAdvert

F == INSTANCE Forwards
R == INSTANCE RouterAdvert WITH cfg <- raCfg, Configs <- RaConfigs

\* NothingDangling of Forwards: when no call is under way, the listeners that
\* are open are those of the records.
NothingDangling == F!NothingDangling

\* ReplaceInstalls of Forwards: a PUT that no other call overlaps installs what
\* was PUT, whatever earlier calls have left behind.
ReplaceInstalls == F!ReplaceInstalls

\* ConfigAdvertised of RouterAdvert: no wake-up of the advertisement loop is
\* lost.
ConfigAdvertised == R!ConfigAdvertised
=============================================================================

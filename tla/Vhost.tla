-------------------------------- MODULE Vhost --------------------------------
(***************************************************************************)
(* A vhost-user port beside one of its sessions: what the session shows of *)
(* itself to the port is its start and its end, so the two share no state. *)
(***************************************************************************)
EXTENDS VhostRing

CONSTANTS Sessions, Kinds, None

ASSUME PortAssumption ==
  None \notin Sessions /\ Kinds \subseteq {"client", "replace", "occupy"}

VARIABLES kind, closed, dev, up, st, starts, notify, acc, closer, upSince

P == INSTANCE VhostPort

\* LiveIsInstalled of VhostPort: until the port is closed, a session that runs
\* is the one frames are sent to, or is being replaced.
LiveIsInstalled == P!LiveIsInstalled

\* EndIsReported of VhostPort: a port at rest without a session has told the
\* Switch since a session last came up.
EndIsReported == P!EndIsReported
=============================================================================

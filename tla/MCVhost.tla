------------------------------ MODULE MCVhost ------------------------------
(* A vhost-user port and one of its sessions, each by itself: what the     *)
(* session shows of itself to the port is its start and its end.           *)
(*                                                                         *)
(* The session: a ring of two chains, one of them broken, with indices     *)
(* that wrap around at 4; two kick descriptors and two memory tables.      *)
(* The port: three front-ends.                                             *)
EXTENDS Vhost

VARIABLE part    \* the one that works

portVars == <<kind, closed, dev, up, st, starts, notify, acc, closer, upSince>>

MCInit ==
  /\ part \in {"ring", "port"} /\ Init /\ P!Init
  /\ part = "ring" => kind = "replace"
  /\ part = "port" => queue = "tx"

MCNext ==
  \/ part = "ring" /\ Next /\ UNCHANGED <<part, portVars>>
  \/ part = "port" /\ P!Next /\ UNCHANGED <<part, vars>>

\* The fairness of VhostRing; what is checked of the port is safety.
MCSpec ==
  /\ MCInit /\ [][MCNext]_<<part, vars, portVars>>
  /\ WF_vars(part = "ring" /\ Pumping) /\ WF_vars(part = "ring" /\ Kick)
=============================================================================

----------------------------- MODULE VhostPort -----------------------------
(***************************************************************************)
(* A vhost-user port: vhostUserPort of internal/ports/vhostuser.go, which  *)
(* holds one NetDevice (a session) at a time.                              *)
(*                                                                         *)
(* Processes: the accept loop; serve of each session, which ends with      *)
(* State(false); a goroutine per State(true); a caller of Close.  A step   *)
(* is a critical section of vhostUserPort.mu or a call made without it.    *)
(* What goes on inside a session is module VhostRing.                      *)
(***************************************************************************)
EXTENDS FiniteSets

CONSTANTS
  Sessions,   \* the connections of front-ends
  Kinds,      \* subset of {"client", "replace", "occupy"}: the configurations
  None

VARIABLES
  kind,             \* "client", or a server with its ReplacingMode
  closed, dev, up,  \* vhostUserPort's fields
  st,        \* each connection: "away", "open", "refused", and as a session
             \* "live", "closed" (serve yet to call State(false)), "ended"
  starts,    \* the sessions with a State(true) goroutine under way
  notify,    \* the sessions whose State(false) is about to call NotifyDown
  acc,       \* the accept loop: where it is, its connection, the one it kicks
  closer,    \* Close: where it is, the session it took
  upSince    \* the sessions that came up since the last NotifyDown

fields == <<closed, dev, up>>
vars == <<kind, fields, st, starts, notify, acc, closer, upSince>>

Idle == [pc |-> "accept", c |-> None, old |-> None]

\* NewVhostUser: a client has dialled and adopts its connection; a server
\* listens.
Init ==
  /\ kind \in Kinds
  /\ closed = FALSE /\ dev = None /\ up = FALSE
  /\ st \in [Sessions -> {"away", "open"}]
  /\ acc \in {Idle} \cup {[Idle EXCEPT !.pc = "adopt", !.c = c] : c \in Sessions}
  /\ {c \in Sessions : st[c] = "open"} = {acc.c} \ {None}
  /\ kind = "client" <=> acc.pc = "adopt"
  /\ starts = {} /\ notify = {}
  /\ closer = [pc |-> "idle", dev |-> None]
  /\ upSince = {}

\* NetDevice.Close: the connection is closed, so serve meets an error.
CloseDev(c) == st' = [st EXCEPT ![c] = IF @ = "live" THEN "closed" ELSE @]

-----------------------------------------------------------------------------
(* acceptLoop *)

\* The listener is open until Close closes it.
Accept(c) ==
  /\ acc.pc = "accept" /\ closer.pc \in {"idle", "marked"}
  /\ st[c] = "away"
  /\ st' = [st EXCEPT ![c] = "open"]
  /\ acc' = [Idle EXCEPT !.pc = "test", !.c = c]
  /\ UNCHANGED <<kind, fields, starts, notify, closer, upSince>>

Refuse(pc) == st' = [st EXCEPT ![acc.c] = "refused"] /\ acc' = [Idle EXCEPT !.pc = pc]

\* The first critical section.
test ==
  /\ acc.pc = "test"
  /\ \/ closed /\ Refuse("end") /\ UNCHANGED dev
     \/ ~closed /\ dev # None /\ kind = "occupy" /\ Refuse("accept") /\ UNCHANGED dev
     \/ /\ ~closed /\ dev # None /\ kind = "replace"
        /\ dev' = None
        /\ acc' = [acc EXCEPT !.pc = "kick", !.old = dev]
        /\ UNCHANGED st
     \/ ~closed /\ dev = None /\ acc' = [acc EXCEPT !.pc = "adopt"] /\ UNCHANGED <<st, dev>>
  /\ UNCHANGED <<kind, closed, up, starts, notify, closer, upSince>>

\* old.Close()
kick ==
  /\ acc.pc = "kick"
  /\ CloseDev(acc.old)
  /\ acc' = [acc EXCEPT !.pc = "relock", !.old = None]
  /\ UNCHANGED <<kind, fields, starts, notify, closer, upSince>>

relock ==
  /\ acc.pc = "relock"
  /\ IF closed \/ dev # None THEN Refuse("accept")
     ELSE acc' = [acc EXCEPT !.pc = "adopt"] /\ UNCHANGED st
  /\ UNCHANGED <<kind, fields, starts, notify, closer, upSince>>

\* Mutant of adopt: a new session starts as down.
AdoptResets ==
  /\ acc.pc = "adopt"
  /\ dev' = acc.c /\ up' = FALSE
  /\ st' = [st EXCEPT ![acc.c] = "live"]
  /\ acc' = [Idle EXCEPT !.pc = IF kind = "client" THEN "end" ELSE "accept"]
  /\ UNCHANGED <<kind, closed, starts, notify, closer, upSince>>

\* adopt locks anew and does not test closed again; up is left as it is.
adopt ==
  /\ acc.pc = "adopt"
  /\ dev' = acc.c
  /\ st' = [st EXCEPT ![acc.c] = "live"]
  /\ acc' = [Idle EXCEPT !.pc = IF kind = "client" THEN "end" ELSE "accept"]
  /\ UNCHANGED <<kind, closed, up, starts, notify, closer, upSince>>

acceptLoop == test \/ kick \/ relock \/ adopt

-----------------------------------------------------------------------------
(* Sessions *)

\* evalRingLocked starts the transmit ring: go d.handlers.State(true).
RingStarts(c) ==
  /\ st[c] = "live"
  /\ starts' = starts \cup {c}
  /\ UNCHANGED <<kind, fields, st, notify, acc, closer, upSince>>

\* The front-end goes, or sends what ends the session: serve's d.Close().
PeerGoes(c) ==
  /\ st[c] = "live"
  /\ CloseDev(c)
  /\ UNCHANGED <<kind, fields, starts, notify, acc, closer, upSince>>

\* "stale session"
Stale(c) == dev # c

StateUp(c) ==
  /\ c \in starts
  /\ starts' = starts \ {c}
  /\ up' = (up \/ ~Stale(c))
  /\ upSince' = IF Stale(c) THEN upSince ELSE upSince \cup {c}
  /\ UNCHANGED <<kind, closed, dev, st, notify, acc, closer>>

\* Mutant of StateDown: a stale session is not told apart.
DownUnchecked(c) ==
  /\ st[c] = "closed"
  /\ st' = [st EXCEPT ![c] = "ended"]
  /\ dev' = None /\ up' = FALSE
  /\ notify' = IF up THEN notify \cup {c} ELSE notify
  /\ UNCHANGED <<kind, closed, starts, acc, closer, upSince>>

StateDown(c) ==
  /\ st[c] = "closed"
  /\ st' = [st EXCEPT ![c] = "ended"]
  /\ IF Stale(c) THEN UNCHANGED <<dev, up, notify>>
     ELSE /\ dev' = None /\ up' = FALSE
          /\ notify' = IF up THEN notify \cup {c} ELSE notify
  /\ UNCHANGED <<kind, closed, starts, acc, closer, upSince>>

\* After its unlock State(false) calls Switch.NotifyDown for the port.
NotifyDown(c) ==
  /\ c \in notify
  /\ notify' = notify \ {c}
  /\ upSince' = {}
  /\ UNCHANGED <<kind, fields, st, starts, acc, closer>>

-----------------------------------------------------------------------------
(* Close *)

Close ==
  /\ closer.pc = "idle" /\ ~(kind = "client" /\ acc.pc = "adopt")
  /\ closed' = TRUE /\ dev' = None
  /\ closer' = [pc |-> "marked", dev |-> dev]
  /\ UNCHANGED <<kind, up, st, starts, notify, acc, upSince>>

\* An Accept that is under way fails.
CloseListener ==
  /\ closer.pc = "marked"
  /\ closer' = [closer EXCEPT !.pc = "stop"]
  /\ UNCHANGED <<kind, fields, st, starts, notify, acc, upSince>>

CloseSession ==
  /\ closer.pc = "stop"
  /\ IF closer.dev = None THEN UNCHANGED st ELSE CloseDev(closer.dev)
  /\ closer' = [pc |-> "done", dev |-> None]
  /\ UNCHANGED <<kind, fields, starts, notify, acc, upSince>>

-----------------------------------------------------------------------------
Next ==
  \/ acceptLoop \/ Close \/ CloseListener \/ CloseSession
  \/ \E c \in Sessions : \/ Accept(c) \/ RingStarts(c) \/ PeerGoes(c)
                         \/ StateUp(c) \/ StateDown(c) \/ NotifyDown(c)

Spec == Init /\ [][Next]_vars

-----------------------------------------------------------------------------
(* Properties. *)

\* acceptLoop, adopt, State: until the port is closed a session that runs is
\* the one frames are sent to, or is being replaced; so there is at most one,
\* and what a session that has ended reports late never unseats its successor.
LiveIsInstalled ==
  ~closed => \A c \in Sessions : st[c] = "live" => dev = c \/ acc.old = c

\* State: "if wasUp && !up { p.sw.NotifyDown }": when a port that is not closed
\* has come to rest without a session, the Switch has heard that it is offline
\* since a session last came up, however sessions replaced each other.
EndIsReported ==
  ~closed /\ dev = None /\ acc.pc \in {"accept", "end"} /\ notify = {} => upSince = {}
=============================================================================

--------------------------------- MODULE Stp ---------------------------------
(***************************************************************************)
(* Bridges that run the spanning tree of internal/switchcore/stp.go,       *)
(* joined by segments.  A step is one critical section of stpBridge.mu:    *)
(* a tick of the protocol clock, a received BPDU, a configuration, or the  *)
(* goroutine that AddPort and UpdatePortAttrs start; between them the      *)
(* registry of ports changes, segments fail and BPDUs are lost.            *)
(*                                                                         *)
(* Clocks: every bridge ticks once per round, in any order, and a BPDU is  *)
(* delivered within the round it is sent in, in any order.                 *)
(***************************************************************************)
EXTENDS StpBridge, FiniteSets

CONSTANTS
  Bridges, Owner,   \* the bridges, and the bridge of each port
  Segments, SegOf,  \* the segments, and the segment of each port
  IdsOf,            \* the bridge IDs each bridge may be configured with
  Phases,           \* what the hello timers start from
  MaxGen,           \* bound: how often a port ID is registered
  Touched,          \* the ports that are added, removed, shut and enabled
  Breakable,        \* the sets of segments that fail together
  Disturb,          \* which disturbances happen
  MaxDisturb        \* bound: how many of them

ASSUME NetAssumption ==
  /\ Owner \in [Ports -> Bridges] /\ SegOf \in [Ports -> Segments]
  /\ NoPort \notin Ports /\ Touched \subseteq Ports /\ Breakable \subseteq SUBSET Segments /\ Phases \subseteq 0 .. HelloTime - 1
  /\ IdsOf \in [Bridges -> SUBSET (Nat \ {0})]
  /\ Disturb \subseteq {"cut", "restore", "lose", "config", "disable", "shut", "enable", "remove", "add"}

VARIABLES
  br,       \* the bridges' state
  reg,      \* the registered entry of each port, 0 for none
  last,     \* the last entry each port ID was registered with
  on,       \* the registered entry is not disabled (all have stp set)
  leaving,  \* <<port, entry>> removed by a RemovePort that has yet to set gone
  gone,     \* <<port, entry>> marked gone
  async,    \* goroutines of portChangedLocked that have yet to run
  inbox,    \* BPDUs under way to each port
  cut,      \* the segments that are down
  healed,   \* a segment has come back
  ticked,   \* the bridges that have ticked in this round
  used      \* how many disturbances have happened

registry == <<reg, last, on, leaving, gone>>
vars == <<br, registry, async, inbox, cut, healed, ticked, used>>

PortsOf(b) == {p \in Ports : Owner[p] = b}
Part(b)    == [p \in PortsOf(b) |-> IF on[p] THEN reg[p] ELSE 0]
Peers(p)   == IF SegOf[p] \in cut THEN {} ELSE {q \in Ports \ {p} : SegOf[q] = SegOf[p]}

\* The history variable stale: a root has begun to advertise a change.
SignalsAsRoot(old, new) == IsRoot(new) /\ new.tcWhile > old.tcWhile
Becomes(b, new) ==
  br' = [c \in Bridges |-> IF c = b THEN new
                           ELSE [br[c] EXCEPT !.stale = @ \/ SignalsAsRoot(br[b], new)]]

\* port.Send: a frame reaches the other ports of the segment.
Sends(in, sent) == inbox' = [q \in Ports |-> in[q] \cup {x[2] : x \in {y \in sent : q \in Peers(y[1])}}]

\* Every bridge has just been configured, with its lowest ID and its ports present.
Init ==
  /\ reg = [p \in Ports |-> 1]
  /\ last = [p \in Ports |-> 1]
  /\ on = [p \in Ports |-> TRUE]
  /\ leaving = {}
  /\ gone = {}
  /\ async = [b \in Bridges |-> 0]
  /\ inbox = [p \in Ports |-> {}]
  /\ cut = {}
  /\ healed = FALSE
  /\ ticked = {}
  /\ used = 0
  /\ \E hello \in [Bridges -> Phases] :
       br = [b \in Bridges |->
               LET id == CHOOSE i \in IdsOf[b] : \A j \in IdsOf[b] : i <= j
               IN CHOOSE x \in SetSTPConfig([NewBridge(id) EXCEPT !.lastHello = hello[b]],
                                            TRUE, id, Part(b), {}) : TRUE]

-----------------------------------------------------------------------------
(* stpBridge. *)

Tick(b) ==
  /\ b \notin ticked
  /\ IF br[b].enabled
     THEN \E r \in tick(br[b], Part(b), gone) : Becomes(b, r.b) /\ Sends(inbox, r.sent)
     ELSE UNCHANGED <<br, inbox>>
  /\ ticked' = ticked \cup {b}
  /\ UNCHANGED <<registry, async, cut, healed, used>>

NewRound ==
  /\ ticked = Bridges
  /\ \A p \in Ports : inbox[p] = {}
  /\ ticked' = {}
  /\ UNCHANGED <<br, registry, async, inbox, cut, healed, used>>

\* A BPDU arrives; Switch.deliver passes it on unless the port is disabled.
Receive(p, m) ==
  /\ m \in inbox[p]
  /\ LET in == [inbox EXCEPT ![p] = @ \ {m}] IN
       IF Part(Owner[p])[p] = 0 THEN inbox' = in /\ UNCHANGED br
       ELSE \E r \in handleBPDU(br[Owner[p]], p, m) : Becomes(Owner[p], r.b) /\ Sends(in, r.sent)
  /\ UNCHANGED <<registry, async, cut, healed, ticked, used>>

PortChanged(b) ==
  /\ async[b] > 0
  /\ async' = [async EXCEPT ![b] = @ - 1]
  /\ \E nb \in portChanged(br[b], Part(b), gone) : Becomes(b, nb)
  /\ UNCHANGED <<registry, inbox, cut, healed, ticked, used>>

-----------------------------------------------------------------------------
(* Disturbances. *)

Happens(kind) == kind \in Disturb /\ used < MaxDisturb /\ used' = used + 1

Configure(b, enabled, id) ==
  /\ Happens(IF enabled THEN "config" ELSE "disable")
  /\ \E nb \in SetSTPConfig(br[b], enabled, id, Part(b), gone) : Becomes(b, nb)
  /\ UNCHANGED <<registry, async, inbox, cut, healed, ticked>>

RunAsync(b) == async' = [async EXCEPT ![b] = @ + 1]

AddPort(p) ==
  /\ Happens("add")
  /\ reg[p] = 0 /\ last[p] < MaxGen
  /\ reg' = [reg EXCEPT ![p] = last[p] + 1]
  /\ last' = [last EXCEPT ![p] = @ + 1]
  /\ on' = [on EXCEPT ![p] = TRUE]
  /\ RunAsync(Owner[p])
  /\ UNCHANGED <<leaving, gone, br, inbox, cut, healed, ticked>>

\* RemovePort does not tell the spanning tree; it sets gone after its unlock.
RemovePort(p) ==
  /\ Happens("remove")
  /\ reg[p] # 0
  /\ reg' = [reg EXCEPT ![p] = 0]
  /\ leaving' = leaving \cup {<<p, reg[p]>>}
  /\ UNCHANGED <<last, on, gone, br, async, inbox, cut, healed, ticked>>

MarkGone(x) ==
  /\ x \in leaving
  /\ leaving' = leaving \ {x}
  /\ gone' = gone \cup {x}
  /\ UNCHANGED <<reg, last, on, br, async, inbox, cut, healed, ticked, used>>

\* blockPort does not tell the spanning tree; UpdatePortAttrs does.
BlockPort(p) ==
  /\ Happens("shut")
  /\ reg[p] # 0 /\ on[p]
  /\ on' = [on EXCEPT ![p] = FALSE]
  /\ UNCHANGED <<reg, last, leaving, gone, br, async, inbox, cut, healed, ticked>>

EnablePort(p) ==
  /\ Happens("enable")
  /\ reg[p] # 0 /\ ~on[p]
  /\ on' = [on EXCEPT ![p] = TRUE]
  /\ RunAsync(Owner[p])
  /\ UNCHANGED <<reg, last, leaving, gone, br, inbox, cut, healed, ticked>>

\* Segments fail, with the BPDUs on them, or come back; nobody is told.
Cut(S) ==
  /\ Happens("cut")
  /\ S \cap cut = {}
  /\ cut' = cut \cup S
  /\ inbox' = [p \in Ports |-> IF SegOf[p] \in S THEN {} ELSE inbox[p]]
  /\ UNCHANGED <<br, registry, async, healed, ticked>>

Restore(S) ==
  /\ Happens("restore")
  /\ S \subseteq cut
  /\ cut' = cut \ S
  /\ healed' = TRUE
  /\ UNCHANGED <<br, registry, async, inbox, ticked>>

Lose(p, m) ==
  /\ Happens("lose")
  /\ m \in inbox[p]
  /\ inbox' = [inbox EXCEPT ![p] = @ \ {m}]
  /\ UNCHANGED <<br, registry, async, cut, healed, ticked>>

Protocol ==
  \/ \E b \in Bridges : Tick(b) \/ PortChanged(b)
  \/ NewRound
  \/ \E p \in Ports : \E m \in inbox[p] : Receive(p, m)
  \/ \E x \in leaving : MarkGone(x)

Disturbance ==
  \/ \E b \in Bridges, enabled \in BOOLEAN : \E id \in IdsOf[b] : Configure(b, enabled, id)
  \/ \E p \in Touched : AddPort(p) \/ RemovePort(p) \/ BlockPort(p) \/ EnablePort(p)
  \/ \E S \in Breakable : Cut(S) \/ Restore(S)
  \/ \E p \in Ports : \E m \in inbox[p] : Lose(p, m)

Next == Protocol \/ Disturbance

Spec == Init /\ [][Next]_vars

\* The clocks run and BPDUs arrive: every round comes to its end and the next
\* one begins; the goroutines of portChangedLocked and RemovePort get to run.
FairSpec ==
  /\ Spec
  /\ []<>(ticked = {}) /\ []<>(ticked = Bridges) /\ WF_vars(NewRound)
  /\ []<>(async = [b \in Bridges |-> 0] /\ leaving = {})

-----------------------------------------------------------------------------
(* Properties. *)

\* The port sends and receives the frames of hosts: its entry is registered
\* and enabled, and its stpState is forwarding (the value of an entry that
\* is not enrolled).
Enrols(p)   == p \in DOMAIN br[Owner[p]].ports /\ br[Owner[p]].ports[p].gen = reg[p]
Present(p)  == reg[p] # 0 /\ on[p]
Forwards(p) == Present(p) /\ (Enrols(p) => br[Owner[p]].ports[p].state = "forwarding")

\* No set of forwarding ports closes a cycle through bridges and segments:
\* in a cycle, every bridge and every segment has at least two of its ports.
Acyclic(F) ==
  \A S \in SUBSET F : S # {} =>
    \E p \in S : \/ \A q \in S \ {p} : Owner[q] # Owner[p]
                 \/ \A q \in S \ {p} : SegOf[q] # SegOf[p]

UpForwarding == {p \in Ports : Forwards(p) /\ SegOf[p] \notin cut}

\* Wherever a working segment joins two parts of the network, forwarding
\* ports join them.
Joins(F, S) == \E p, q \in F : SegOf[p] = SegOf[q] /\ Owner[p] \in S /\ Owner[q] \notin S
Spanning ==
  \A S \in SUBSET Bridges :
    Joins({p \in Ports : Present(p) /\ SegOf[p] \notin cut}, S) => Joins(UpForwarding, S)

\* recomputeLocked, tickLocked: while every bridge runs the protocol and every
\* participating port is enrolled, forwarding ports never form a loop, not
\* even for the time the tree takes to form or to fail over.  (A segment that
\* comes back between two forwarding ports is a loop until the next BPDU.)
NoLoop ==
  (~healed /\ \A p \in Ports : br[Owner[p]].enabled /\ (Present(p) => Enrols(p))) => Acyclic(UpForwarding)

\* README: "Blocking ... Listening -> Learning -> Forwarding", "exactly one
\* port stays in Blocking", "switches to the backup": after the last
\* disturbance, if all bridges run the protocol, the forwarding ports settle on
\* a tree that spans what the working segments join.
Converges == <>[]((\A b \in Bridges : br[b].enabled) => Acyclic(UpForwarding) /\ Spanning)

\* README: "after joining the tree a port starts in Blocking, then goes through
\* Listening -> Learning -> Forwarding": a port that stays in the tree and
\* hears no other bridge ends up forwarding.
LonePortsForward ==
  <>[](\A p \in Ports : Present(p) => Forwards(p) \/ br[Owner[p]].ports[p].info # NoInfo)

\* signalTopologyChangeLocked: "We are root: advertise TC for maxAge +
\* fwdDelay"; README: "a topology change triggers the FDB's fast aging": once
\* the root advertises a change, every bridge flushes its FDB.
TopologyChangeReachesAll == \A b \in Bridges : br[b].stale ~> ~br[b].stale

\* tcnPending: "non-root: keep sending TCN until acked"; tcWhile: "root: how
\* long to set TC in configs": after the last disturbance the notification of
\* every bridge that is not root is acknowledged, and no root advertises the
\* change any more.
TopologyChangeEnds ==
  \A b \in Bridges : <>[](br[b].tcWhile = 0 /\ (br[b].tcnPending => IsRoot(br[b])))
=============================================================================

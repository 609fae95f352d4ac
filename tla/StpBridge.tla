------------------------------ MODULE StpBridge ------------------------------
(***************************************************************************)
(* The spanning-tree machine of one bridge (internal/switchcore/stp.go):   *)
(* what its handlers compute, as functions of the bridge's state.  Module  *)
(* Stp connects several of them.                                           *)
(*                                                                         *)
(* A bridge is a record: enabled and id (the configuration, the priority   *)
(* being part of id), ports (from the participating ports to their stpPort *)
(* records), the root it believes in, the two topology-change timers and   *)
(* the hello timer.  Time is counted in ticks of HelloTime / 2, the period *)
(* of run.  The field stale is a history variable: some root has begun to  *)
(* advertise a topology change since this bridge last flushed its FDB.     *)
(*                                                                         *)
(* Go's maps are iterated in any order; where that matters (equal vectors  *)
(* in the root election) an operator returns the set of possible results.  *)
(***************************************************************************)
EXTENDS Naturals

CONSTANTS
  Ports,          \* the ports of all bridges
  portCost,       \* the path cost of each port
  portIDValue,    \* priority and number of each port
  MaxAge, ForwardDelay,   \* in ticks
  Second,         \* one second in ticks: what a hop adds to the message age
  CostMod         \* the modulus of the cost's unsigned arithmetic

HelloTime == 2
NoPort == "none"   \* rootPort == ""

ASSUME TimerAssumption == MaxAge \in Nat \ {0} /\ ForwardDelay \in Nat \ {0} /\ Second \in Nat

AddCost(a, b) == (a + b) % CostMod
Least(a, b) == IF a < b THEN a ELSE b

-----------------------------------------------------------------------------
(* Priority vectors: [root, cost, bridge, port], lower is better. *)

better(a, b) ==
  \/ a.root < b.root
  \/ a.root = b.root /\ \/ a.cost < b.cost
                        \/ a.cost = b.cost /\ \/ a.bridge < b.bridge
                                              \/ a.bridge = b.bridge /\ a.port < b.port

NoInfo == [root |-> 0, cost |-> 0, bridge |-> 0, port |-> 0]   \* hasInfo = false

\* A port as resyncPortsLocked enrols it; gen tells the entry it is for.
Enrolled(g) == [gen |-> g, role |-> "blocked", state |-> "blocking", info |-> NoInfo,
                age |-> 0, timer |-> 0]

\* newSTPBridge.
NewBridge(id) == [enabled |-> FALSE, id |-> id, ports |-> <<>>, rootID |-> 0, rootCost |-> 0,
                  rootPort |-> NoPort, tcWhile |-> 0, tcnPending |-> FALSE, lastHello |-> 0,
                  stale |-> FALSE]

IsRoot(b) == b.rootPort = NoPort

-----------------------------------------------------------------------------
(* Root election and port roles. *)

Candidates(b) == {p \in DOMAIN b.ports : b.ports[p].info # NoInfo /\ b.ports[p].info.bridge # b.id}
Cand(b, p)    == [b.ports[p].info EXCEPT !.cost = AddCost(@, portCost[p])]
Own(b)        == [root |-> b.id, cost |-> 0, bridge |-> b.id, port |-> 0]

\* The ports on which the loop of recomputeLocked may end: the best
\* candidates that beat our own claim.
RootPorts(b) == {p \in Candidates(b) : /\ better(Cand(b, p), Own(b))
                                       /\ \A q \in Candidates(b) : ~better(Cand(b, q), Cand(b, p))}

Elect(b, p) ==
  IF p = NoPort THEN [b EXCEPT !.rootID = b.id, !.rootCost = 0, !.rootPort = NoPort]
  ELSE [b EXCEPT !.rootID = Cand(b, p).root, !.rootCost = Cand(b, p).cost, !.rootPort = p]

\* Our advertisement on p.
Advert(b, p) == [root |-> b.rootID, cost |-> b.rootCost, bridge |-> b.id, port |-> portIDValue[p]]

\* Mutant of designated: the comparison stops at the cost.
DesignatedByCost(b, p) ==
  LET i == b.ports[p].info
  IN i = NoInfo \/ b.rootID < i.root \/ (b.rootID = i.root /\ b.rootCost <= i.cost)

designated(b, p) == b.ports[p].info = NoInfo \/ better(Advert(b, p), b.ports[p].info)

RoleOf(b, p) == IF p = b.rootPort THEN "root" ELSE IF designated(b, p) THEN "designated" ELSE "blocked"

\* Mutant of applyRole: a port keeps its place in the climb when it is blocked.
ApplyKeepsState(sp, role) == [sp EXCEPT !.role = role, !.state = IF @ = "blocking" THEN "listening" ELSE @]

applyRole(sp, role) ==
  IF role = "blocked" THEN [sp EXCEPT !.role = role, !.state = "blocking"]
  ELSE IF sp.state = "blocking" THEN [sp EXCEPT !.role = role, !.state = "listening", !.timer = 0]
  ELSE [sp EXCEPT !.role = role]

\* The FDB is flushed whoever is root.
signalTopologyChange(b) ==
  IF IsRoot(b) THEN [b EXCEPT !.tcWhile = MaxAge + ForwardDelay, !.stale = FALSE]
  ELSE [b EXCEPT !.tcnPending = TRUE, !.stale = FALSE]

AssignRoles(b) ==
  LET nb == [b EXCEPT !.ports = [p \in DOMAIN b.ports |-> applyRole(b.ports[p], RoleOf(b, p))]]
  IN IF \E p \in DOMAIN b.ports : nb.ports[p].role # b.ports[p].role
     THEN signalTopologyChange(nb) ELSE nb

recompute(b) ==
  {AssignRoles(Elect(b, p)) : p \in IF RootPorts(b) = {} THEN {NoPort} ELSE RootPorts(b)}

-----------------------------------------------------------------------------
(* The handlers.  part maps the bridge's ports to the registered entry, 0  *)
(* for a port that is not there, disabled or without stp; gone is the set  *)
(* of <<port, entry>> pairs marked gone.                                   *)

resyncPorts(b, part, gone) ==
  LET seen == {p \in DOMAIN part : part[p] # 0}
      kept == {p \in DOMAIN b.ports \cap seen : <<p, b.ports[p].gen>> \notin gone}
      new  == seen \ DOMAIN b.ports
  IN [b EXCEPT !.ports = [p \in kept \cup new |-> IF p \in kept THEN b.ports[p] ELSE Enrolled(part[p])]]

\* becomeRootLocked ends in a recompute, which elects anew.
SetSTPConfig(b, enabled, id, part, gone) ==
  LET nb == [b EXCEPT !.enabled = enabled, !.id = id]
  IN IF enabled THEN recompute(resyncPorts(nb, part, gone)) ELSE {[nb EXCEPT !.ports = <<>>]}

\* The goroutine of portChangedLocked.
portChanged(b, part, gone) == IF b.enabled THEN recompute(resyncPorts(b, part, gone)) ELSE {b}

Tcn == [kind |-> "tcn", info |-> NoInfo, age |-> 0, tc |-> FALSE, tca |-> FALSE]

\* Ages are cut at MaxAge, where the receiver's next tick drops the info.
MessageAge(b) ==
  IF b.rootPort \in DOMAIN b.ports THEN Least(b.ports[b.rootPort].age + Second, MaxAge) ELSE 0

buildConfig(b, p, tc, tca) ==
  [kind |-> "config", info |-> Advert(b, p), age |-> MessageAge(b), tc |-> tc, tca |-> tca]

\* Mutant of transmitConfigs: the TC flag is forgotten.
TransmitNoTC(b) ==
  {<<p, buildConfig(b, p, FALSE, FALSE)>> : p \in {q \in DOMAIN b.ports : b.ports[q].role = "designated"}}

\* The configs of a hello; a bridge without fresh root info relays nothing.
transmitConfigs(b) ==
  IF IsRoot(b) \/ (b.rootPort \in DOMAIN b.ports /\ b.ports[b.rootPort].info # NoInfo)
  THEN {<<p, buildConfig(b, p, b.tcWhile > 0, FALSE)>> :
          p \in {q \in DOMAIN b.ports : b.ports[q].role = "designated"}}
  ELSE {}

transmitTCN(b) == IF b.tcnPending /\ b.rootPort \in DOMAIN b.ports THEN {<<b.rootPort, Tcn>>} ELSE {}

\* Mutant of Aged: info never expires.
AgedNever(sp) == IF sp.age + 1 < MaxAge THEN [sp EXCEPT !.age = @ + 1] ELSE sp

Aged(sp) == IF sp.info = NoInfo THEN sp
            ELSE IF sp.age + 1 >= MaxAge THEN [sp EXCEPT !.info = NoInfo, !.age = 0]
            ELSE [sp EXCEPT !.age = @ + 1]

\* Mutant of Progress: one delay instead of two.
ProgressSkips(sp) ==
  IF sp.role = "blocked" \/ sp.state # "listening" THEN sp
  ELSE IF sp.timer + 1 < ForwardDelay THEN [sp EXCEPT !.timer = @ + 1]
  ELSE [sp EXCEPT !.timer = 0, !.state = "forwarding"]

\* Mutant of Progress: nothing leads from learning to forwarding.
ProgressStops(sp) ==
  IF sp.role = "blocked" \/ sp.state # "listening" THEN sp
  ELSE IF sp.timer + 1 < ForwardDelay THEN [sp EXCEPT !.timer = @ + 1]
  ELSE [sp EXCEPT !.timer = 0, !.state = "learning"]

Progress(sp) ==
  IF sp.role = "blocked" \/ sp.state \notin {"listening", "learning"} THEN sp
  ELSE IF sp.timer + 1 < ForwardDelay THEN [sp EXCEPT !.timer = @ + 1]
  ELSE [sp EXCEPT !.timer = 0, !.state = IF sp.state = "listening" THEN "learning" ELSE "forwarding"]

\* The end of tickLocked.
Hello(b) ==
  IF b.lastHello + 1 < HelloTime THEN [b |-> [b EXCEPT !.lastHello = @ + 1], sent |-> {}]
  ELSE [b    |-> [b EXCEPT !.lastHello = 0, !.tcWhile = IF @ > HelloTime THEN @ - HelloTime ELSE 0],
        sent |-> transmitConfigs(b) \cup transmitTCN(b)]

\* The possible outcomes of a tick: the new state and what is sent.
tick(b, part, gone) ==
  LET rb   == resyncPorts(b, part, gone)
      ab   == [rb EXCEPT !.ports = [p \in DOMAIN rb.ports |-> Aged(rb.ports[p])]]
      lost == \E p \in DOMAIN rb.ports : rb.ports[p].info # ab.ports[p].info
      move(x) == [x EXCEPT !.ports = [p \in DOMAIN x.ports |-> Progress(x.ports[p])]]
  IN {Hello(move(x)) : x \in IF lost THEN recompute(ab) ELSE {ab}}

handleTCN(b, p) ==
  IF b.ports[p].role # "designated" THEN {[b |-> b, sent |-> {}]}
  ELSE LET nb == signalTopologyChange(b)
       IN {[b |-> nb, sent |-> {<<p, buildConfig(nb, p, FALSE, TRUE)>>}]}

\* The stored info is replaced by a better one, or by its own sender's.
Stores(sp, i) == \/ sp.info = NoInfo
                 \/ i.bridge = sp.info.bridge /\ i.port = sp.info.port
                 \/ better(i, sp.info)

\* Mutant of handleConfig: the acknowledgement is not looked at.
HandleConfigNoTCA(b, p, m) ==
  LET sb == [b EXCEPT !.ports[p].info = m.info, !.ports[p].age = m.age]
  IN {[b |-> [x EXCEPT !.stale = @ /\ ~m.tc], sent |-> {}] :
        x \in IF Stores(b.ports[p], m.info) THEN recompute(sb) ELSE {b}}

handleConfig(b, p, m) ==
  LET sb == [b EXCEPT !.ports[p].info = m.info, !.ports[p].age = m.age]
      after(x) == [x EXCEPT !.stale = @ /\ ~m.tc, !.tcnPending = @ /\ ~(m.tca /\ p = x.rootPort)]
  IN {[b |-> after(x), sent |-> {}] : x \in IF Stores(b.ports[p], m.info) THEN recompute(sb) ELSE {b}}

handleBPDU(b, p, m) ==
  IF ~b.enabled \/ p \notin DOMAIN b.ports THEN {[b |-> b, sent |-> {}]}
  ELSE IF m.kind = "tcn" THEN handleTCN(b, p) ELSE handleConfig(b, p, m)
=============================================================================

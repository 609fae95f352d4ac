--------------------------- MODULE ManagerProofs ---------------------------
(***************************************************************************)
(* Proofs about what overlapping API calls do to ports and gateways, for   *)
(* every value of the constants: any number of ports and gateways created  *)
(* under one identifier, any number of calls at a time, any forwards and   *)
(* configurations.                                                         *)
(***************************************************************************)
EXTENDS PortLifecycle, Gateway, TLAPS

-----------------------------------------------------------------------------
(* Ports: the Manager's records and the Switch's registry agree.           *)
(*                                                                         *)
(* The argument: the identifier, while it is registered, is in the charge  *)
(* of exactly one party: the CreatePort (or CreateGateway) call that       *)
(* registered it and has yet to record it, the record, or the DeletePort   *)
(* call that took the record and has yet to remove the port.               *)

NoneOr == Transports \cup {None}

Deletions == [who: NoneOr, n: Nat, of: {"ports", "gateways"}, pc: {"find", "remove", "close"}, t: NoneOr]
Downs     == [t: NoneOr, n: Nat, pc: {"hook", "status"}, seen: NoneOr]
CreatePCs == {"idle", "failed", "checked", "built", "added", "refused", "done"}

Types ==
  /\ ports \in NoneOr /\ gateways \in NoneOr /\ reg \in NoneOr
  /\ creates \in [Transports -> CreatePCs]
  /\ conns \in [Transports -> Nat]
  /\ downs \subseteq Downs
  /\ deletes \subseteq Deletions /\ deleted \in Nat

Removing == {x \in deletes : x.pc = "remove"}

\* Who is in charge of the identifier: each of them excludes the others.
OneInCharge ==
  /\ \A t \in Transports : creates[t] = "added" =>
       reg = t /\ ports = None /\ gateways = None /\ Removing = {}
  /\ ports # None => reg = ports /\ gateways = None /\ Removing = {}
  /\ gateways # None => reg = gateways /\ Removing = {}
  /\ \A x \in Removing : x.t = reg /\ reg # None
  /\ \A x, y \in Removing : x = y

\* A registered identifier is in somebody's charge.
InCharge ==
  reg # None => creates[reg] = "added" \/ reg \in {ports, gateways} \/ Removing # {}

\* A transport that is no longer registered is closed, or a RemovePort is
\* about to close it.
ClosedOrClosing ==
  \A t \in Transports : creates[t] \in {"refused", "done"} =>
    t = reg \/ t \in closed \/ \E x \in deletes : x.pc = "close" /\ x.t = t

IInv == Types /\ OneInCharge /\ InCharge /\ ClosedOrClosing

-----------------------------------------------------------------------------
LEMMA InitIInv == Init => IInv
<1> SUFFICES ASSUME Init PROVE IInv
  OBVIOUS
<1>1. Types
  BY DEF Init, Types, NoneOr, CreatePCs
<1>2. OneInCharge
  BY DEF Init, OneInCharge, Removing
<1>3. InCharge
  BY DEF Init, InCharge
<1>4. ClosedOrClosing
  BY DEF Init, ClosedOrClosing
<1>5. QED
  BY <1>1, <1>2, <1>3, <1>4 DEF IInv

(* A new call of DeletePort and one that finds its record are well-typed. *)
LEMMA DeletionType ==
  ASSUME NEW who \in NoneOr, NEW n \in Nat, NEW of \in {"ports", "gateways"}
  PROVE  Deletion(who, n, of) \in Deletions /\ Deletion(who, n, of).pc = "find"
BY DEF Deletion, Deletions, NoneOr

LEMMA MovedType ==
  ASSUME NEW x \in Deletions, NEW pc \in {"find", "remove", "close"}, NEW t \in NoneOr
  PROVE  /\ [x EXCEPT !.pc = pc, !.t = t] \in Deletions
         /\ [x EXCEPT !.pc = pc, !.t = t].pc = pc
         /\ [x EXCEPT !.pc = pc, !.t = t].t = t
BY DEF Deletions

(* Steps that leave the registry, the records and every deletion past its *)
(* search alone keep the invariant.                                       *)
LEMMA Quiet ==
  ASSUME IInv, Types', UNCHANGED <<ports, gateways, reg>>,
         \A t \in Transports : creates'[t] = creates[t] \/ (creates'[t] \in {"failed", "checked", "built"} /\ creates[t] # "added"),
         \A x : x.pc \in {"remove", "close"} => (x \in deletes' <=> x \in deletes),
         closed \subseteq closed'
  PROVE  IInv'
<1>1. Removing' = Removing
  BY DEF Removing
<1>2. OneInCharge'
  BY <1>1 DEF IInv, OneInCharge
<1>3. InCharge'
  BY <1>1 DEF IInv, InCharge, Types, NoneOr
<1>4. ClosedOrClosing'
  BY DEF IInv, ClosedOrClosing
<1>5. QED
  BY <1>2, <1>3, <1>4 DEF IInv

(* The calls of CreatePort and CreateGateway. *)
LEMMA CreateStep == ASSUME IInv, NEW t \in Transports, createCheck(t) \/ Create(t) PROVE IInv'
<1> USE DEF CreatePCs
<1>1. ASSUME createCheck(t) \/ createBuild(t) PROVE IInv'
  <2>1. Types'
    BY <1>1 DEF IInv, Types, createCheck, createBuild, records, transport, deleting
  <2>2. \A u \in Transports : creates'[u] = creates[u]
                              \/ (creates'[u] \in {"failed", "checked", "built"} /\ creates[u] # "added")
    BY <1>1 DEF IInv, Types, createCheck, createBuild
  <2>3. UNCHANGED <<ports, gateways, reg, closed, deletes>>
    BY <1>1 DEF createCheck, createBuild, records, transport, deleting
  <2>4. QED
    BY <2>1, <2>2, <2>3, Quiet
<1>2. ASSUME createAdd(t), reg = None PROVE IInv'
  <2>1. /\ reg' = t /\ creates' = [creates EXCEPT ![t] = "added"]
        /\ UNCHANGED <<ports, gateways, closed, deletes, downs, conns, deleted>>
    BY <1>2 DEF createAdd, records, transport, deleting
  <2>2. Types'
    BY <2>1 DEF IInv, Types, NoneOr
  <2>3. ports = None /\ gateways = None /\ Removing = {} /\ \A u \in Transports : creates[u] # "added"
    BY <1>2, LifecycleAssumption DEF IInv, OneInCharge
  <2>4. Removing' = {}
    BY <2>1, <2>3 DEF Removing
  <2>5. OneInCharge'
    BY <2>1, <2>3, <2>4 DEF IInv, Types, OneInCharge
  <2>6. InCharge'
    BY <2>1 DEF IInv, Types, InCharge
  <2>7. ClosedOrClosing'
    BY <1>2, <2>1, LifecycleAssumption DEF IInv, Types, ClosedOrClosing
  <2>8. QED
    BY <2>2, <2>5, <2>6, <2>7 DEF IInv
<1>3. ASSUME createAdd(t), reg # None PROVE IInv'
  <2>1. /\ creates[t] = "built" /\ creates' = [creates EXCEPT ![t] = "refused"] /\ closed' = closed \cup {t}
        /\ UNCHANGED <<ports, gateways, reg, deletes, downs, conns, deleted>>
    BY <1>3 DEF createAdd, Closed, records, deleting
  <2>2. Types'
    BY <2>1 DEF IInv, Types
  <2>3. Removing' = Removing
    BY <2>1 DEF Removing
  <2>4. \A u \in Transports : creates'[u] = "added" <=> creates[u] = "added"
    BY <2>1 DEF IInv, Types
  <2>5. OneInCharge'
    BY <2>1, <2>3, <2>4 DEF IInv, OneInCharge
  <2>6. InCharge'
    BY <2>1, <2>3, <2>4 DEF IInv, InCharge, Types, NoneOr
  <2>7. ClosedOrClosing'
    BY <2>1 DEF IInv, Types, ClosedOrClosing
  <2>8. QED
    BY <2>2, <2>5, <2>6, <2>7 DEF IInv
<1>4. ASSUME createRecord(t) PROVE IInv'
  <2>1. reg = t /\ ports = None /\ gateways = None /\ Removing = {}
    BY <1>4 DEF IInv, OneInCharge, createRecord
  <2>2. /\ creates' = [creates EXCEPT ![t] = "done"]
        /\ UNCHANGED <<reg, closed, deletes, downs, conns, deleted>>
        /\ {ports', gateways'} = {None, t}
    BY <1>4, <2>1 DEF createRecord, recordPort, recordGateway, transport
  <2>3. Types'
    BY <2>2 DEF IInv, Types, NoneOr
  <2>4. Removing' = {}
    BY <2>1, <2>2 DEF Removing
  <2>5. \A u \in Transports : creates'[u] # "added"
    BY <1>4, <2>1, <2>2 DEF IInv, OneInCharge, Types
  <2>6. OneInCharge'
    BY <2>1, <2>2, <2>4, <2>5, LifecycleAssumption DEF OneInCharge
  <2>7. InCharge'
    BY <2>1, <2>2 DEF InCharge
  <2>8. ClosedOrClosing'
    BY <2>1, <2>2 DEF IInv, Types, ClosedOrClosing
  <2>9. QED
    BY <2>3, <2>6, <2>7, <2>8 DEF IInv
<1>5. QED
  BY <1>1, <1>2, <1>3, <1>4 DEF Create

(* Transports, the hook, DELETE calls that begin, and PATCH. *)
LEMMA OtherStep ==
  ASSUME IInv,
         \/ \E t \in Transports : Connect(t) \/ Break(t) \/ onExit(t)
         \/ \E x \in downs : Hook(x)
         \/ deleteCall \/ patchFind \/ Patch \/ blockPort
  PROVE  IInv'
<1>1. ASSUME NEW t \in Transports, Connect(t) \/ Break(t) \/ onExit(t) PROVE IInv'
  <2>1. Down(t, conns[t]) \in Downs
    BY DEF Down, Downs, IInv, Types, NoneOr
  <2>2. Types' /\ UNCHANGED <<ports, gateways, reg, creates, closed, deletes>>
    BY <1>1, <2>1 DEF Connect, Break, onExit, IInv, Types, records, deleting
  <2>3. QED
    BY <2>2, Quiet
<1>2. ASSUME NEW x \in downs, hook(x) PROVE IInv'
  <2>1. [x EXCEPT !.pc = "status", !.seen = ports] \in Downs
    BY DEF Downs, IInv, Types
  <2>2. Types' /\ UNCHANGED <<ports, gateways, reg, creates, closed, deletes>>
    BY <1>2, <2>1 DEF hook, IInv, Types, records, transport, deleting
  <2>3. QED
    BY <2>2, Quiet
<1>3. ASSUME NEW x \in downs, hookStatus(x) PROVE IInv'
  <2> DEFINE d == Deletion(x.t, x.n, "ports")
  <2>1. x.t \in NoneOr /\ x.n \in Nat
    BY DEF IInv, Types, Downs
  <2>2. d \in Deletions /\ d.pc = "find"
    BY <2>1, DeletionType
  <2>3. /\ UNCHANGED <<ports, gateways, reg, creates, closed, conns, deleted>>
        /\ downs' \subseteq downs /\ deletes' \in {deletes, deletes \cup {d}}
    BY <1>3 DEF hookStatus, records, transport
  <2> HIDE DEF d
  <2>4. Types'
    BY <2>2, <2>3 DEF IInv, Types
  <2>5. QED
    BY <2>2, <2>3, <2>4, Quiet
<1>4. ASSUME deleteCall PROVE IInv'
  <2>1. PICK t \in Transports : deletes' = deletes \cup {Deletion(None, deleted, TableOf(t))}
    BY <1>4 DEF deleteCall
  <2> DEFINE d == Deletion(None, deleted, TableOf(t))
  <2>2. d \in Deletions /\ d.pc = "find"
    BY DeletionType DEF TableOf, IInv, Types, NoneOr
  <2>3. UNCHANGED <<ports, gateways, reg, creates, closed, conns, downs>> /\ deleted' = deleted + 1
    BY <1>4 DEF deleteCall, records, transport
  <2>4. deletes' = deletes \cup {d}
    BY <2>1
  <2> HIDE DEF d
  <2>5. Types'
    BY <2>2, <2>3, <2>4 DEF IInv, Types
  <2>6. QED
    BY <2>2, <2>3, <2>4, <2>5, Quiet
<1>5. ASSUME patchFind \/ Patch \/ blockPort PROVE IInv'
  <2>1. UNCHANGED <<ports, gateways, reg, creates, closed, conns, downs, deletes, deleted>>
    BY <1>5 DEF patchFind, Patch, patchRead, patchUpdate, blockPort, records, transport, deleting
  <2>2. Types'
    BY <2>1 DEF IInv, Types
  <2>3. QED
    BY <2>1, <2>2, Quiet
<1>6. QED
  BY <1>1, <1>2, <1>3, <1>4, <1>5 DEF Hook

(* DeletePort and DeleteGateway: taking the record, removing, closing. *)
LEMMA DeleteStep == ASSUME IInv, NEW x \in deletes, Delete(x) PROVE IInv'
<1>1. x \in Deletions
  BY DEF IInv, Types
<1>2. ASSUME deleteFind(x) PROVE IInv'
  <2> DEFINE rec == IF x.of = "ports" THEN ports ELSE gateways
             y == [x EXCEPT !.pc = "remove", !.t = rec]
  <2>1. /\ UNCHANGED <<reg, creates, closed, conns, downs, deleted>>
        /\ deletes' = IF rec = None THEN deletes \ {x} ELSE (deletes \ {x}) \cup {y}
        /\ ports' \in {ports, None} /\ gateways' \in {gateways, None}
    BY <1>2 DEF deleteFind, Moves, transport
  <2>2. rec \in NoneOr
    BY DEF IInv, Types
  <2>3. x.pc = "find"
    BY <1>2 DEF deleteFind
  <2>4. rec = None => ports' = ports /\ gateways' = gateways
    BY <1>1, <1>2 DEF deleteFind, Deletions
  <2>5. rec # None => reg = rec /\ ports' = None /\ gateways' = None /\ Removing = {}
                      /\ \A t \in Transports : creates[t] # "added"
    BY <1>1, <1>2 DEF deleteFind, Deletions, IInv, OneInCharge
  <2> HIDE DEF rec
  <2>6. y \in Deletions /\ y.pc = "remove" /\ y.t = rec
    BY <1>1, <2>2, MovedType
  <2> HIDE DEF y
  <2>7. Types'
    BY <2>1, <2>6 DEF IInv, Types, NoneOr
  <2>8. CASE rec = None
    BY <2>1, <2>3, <2>4, <2>7, <2>8, Quiet
  <2>9. CASE rec # None
    <3>1. Removing' = {y}
      BY <2>1, <2>5, <2>6, <2>9 DEF Removing
    <3>2. OneInCharge'
      BY <2>1, <2>5, <2>6, <2>9, <3>1 DEF OneInCharge
    <3>3. InCharge'
      BY <3>1 DEF InCharge
    <3>4. ClosedOrClosing'
      BY <2>1, <2>3, <2>9 DEF IInv, ClosedOrClosing
    <3>5. QED
      BY <2>7, <3>2, <3>3, <3>4 DEF IInv
  <2>10. QED
    BY <2>8, <2>9
<1>3. ASSUME deleteRemove(x) PROVE IInv'
  <2> DEFINE y == [x EXCEPT !.pc = "close", !.t = reg]
  <2>1. x \in Removing
    BY <1>3 DEF deleteRemove, Removing
  <2>2. reg # None /\ Removing = {x} /\ ports = None /\ gateways = None
        /\ \A t \in Transports : creates[t] # "added"
    BY <2>1 DEF IInv, OneInCharge
  <2>3. /\ UNCHANGED <<ports, gateways, creates, closed, conns, downs, deleted>>
        /\ reg' = None /\ deletes' = (deletes \ {x}) \cup {y}
    BY <1>3, <2>2 DEF deleteRemove, Moves, records, transport
  <2>4. y \in Deletions /\ y.pc = "close" /\ y.t = reg
    BY <1>1, MovedType DEF IInv, Types
  <2> HIDE DEF y
  <2>5. Types'
    BY <2>3, <2>4 DEF IInv, Types, NoneOr
  <2>6. Removing' = {}
    BY <2>2, <2>3, <2>4 DEF Removing
  <2>7. OneInCharge'
    BY <2>2, <2>3, <2>6 DEF OneInCharge
  <2>8. InCharge'
    BY <2>3 DEF InCharge
  <2>9. ClosedOrClosing'
    <3>1. x.pc = "remove"
      BY <1>3 DEF deleteRemove
    <3>2. \A t \in Transports : creates'[t] \in {"refused", "done"} =>
            t = reg \/ t \in closed \/ \E z \in deletes : z.pc = "close" /\ z.t = t
      BY <2>3 DEF IInv, ClosedOrClosing
    <3>3. QED
      BY <2>3, <2>4, <3>1, <3>2 DEF ClosedOrClosing
  <2>10. QED
    BY <2>5, <2>7, <2>8, <2>9 DEF IInv
<1>4. ASSUME deleteClose(x) PROVE IInv'
  <2>1. /\ UNCHANGED <<ports, gateways, reg, creates, conns, deleted>>
        /\ deletes' = deletes \ {x} /\ closed' = closed \cup {x.t} /\ downs' = downs \cup {Down(x.t, 0)}
        /\ x.pc = "close"
    BY <1>4 DEF deleteClose, Closed, records
  <2>2. Down(x.t, 0) \in Downs
    BY <1>1 DEF Down, Downs, Deletions, NoneOr
  <2>3. Types'
    BY <2>1, <2>2 DEF IInv, Types
  <2>4. Removing' = Removing
    BY <2>1 DEF Removing
  <2>5. OneInCharge'
    BY <2>1, <2>4 DEF IInv, OneInCharge
  <2>6. InCharge'
    BY <2>1, <2>4 DEF IInv, InCharge
  <2>7. ClosedOrClosing'
    BY <2>1 DEF IInv, ClosedOrClosing
  <2>8. QED
    BY <2>3, <2>5, <2>6, <2>7 DEF IInv
<1>5. QED
  BY <1>2, <1>3, <1>4 DEF Delete

LEMMA Inductive == IInv /\ [Next]_vars => IInv'
<1> SUFFICES ASSUME IInv, [Next]_vars PROVE IInv'
  OBVIOUS
<1>1. CASE Next
  BY <1>1, CreateStep, OtherStep, DeleteStep DEF Next
<1>2. CASE UNCHANGED vars
  <2>1. Types' /\ UNCHANGED <<ports, gateways, reg, creates, closed, deletes>>
    BY <1>2 DEF IInv, Types, vars, records, transport, deleting
  <2>2. QED
    BY <2>1, Quiet
<1>3. QED
  BY <1>1, <1>2

LEMMA Always == Spec => []IInv
BY InitIInv, Inductive, PTL DEF Spec

(* DeletePort removes by ID what it finds, and yet, however creations and  *)
(* deletions of the identifier overlap, what it finds is the port whose    *)
(* record it took.                                                         *)
THEOREM DeletionsAreExact == Spec => []DeletesItsOwn
<1>1. IInv => DeletesItsOwn
  BY DEF IInv, OneInCharge, Removing, DeletesItsOwn
<1>2. QED
  BY <1>1, Always, PTL

(* When no call is under way, the records of the Manager and the registry  *)
(* of the Switch agree.                                                    *)
THEOREM RecordsAgree == Spec => []RecordMatchesRegistry
<1>1. IInv => RecordMatchesRegistry
  <2> SUFFICES ASSUME IInv, AtRest PROVE {ports, gateways} \ {None} = {reg} \ {None}
    BY DEF RecordMatchesRegistry
  <2>1. Removing = {} /\ \A t \in Transports : creates[t] # "added"
    BY DEF AtRest, Removing
  <2>2. reg # None => reg \in {ports, gateways}
    BY <2>1 DEF IInv, InCharge, Types, NoneOr
  <2>3. (ports # None => ports = reg) /\ (gateways # None => gateways = reg)
    BY DEF IInv, OneInCharge
  <2>4. QED
    BY <2>2, <2>3
<1>2. QED
  BY <1>1, Always, PTL

(* When no call is under way, every transport that was built and is not    *)
(* registered is closed.                                                   *)
THEOREM TransportsDoNotLeak == Spec => []NothingLeaks
<1>1. IInv => NothingLeaks
  BY DEF IInv, ClosedOrClosing, NothingLeaks, AtRest
<1>2. QED
  BY <1>1, Always, PTL

-----------------------------------------------------------------------------
(* The router advertisements. *)

RaTypes ==
  /\ setter \in [Setters -> [pc : {"idle", "store", "kick"}, cfg : RaConfigs \cup {R!Off}]]
  /\ kick \in BOOLEAN
  /\ loop \in [pc : {"read", "send", "wait", "end"}, cfg : RaConfigs \cup {R!Off}]
  /\ raCfg \in RaConfigs \cup {R!Off}

\* A call that has stored its configuration and not yet put its token.
Owing == \E s \in Setters : setter[s].pc = "kick"

\* From the moment the loop copies raCfg, a copy that is old is known to
\* somebody: there is a token, or a call that is about to put one.
CopyIsCurrent == loop.pc \in {"send", "wait"} /\ ~kick /\ ~Owing => loop.cfg = raCfg

\* What the loop has gone through, it has sent.
CopyIsSent == loop.pc = "wait" => loop.cfg \in {R!Off, sent}

RaInv == RaTypes /\ CopyIsCurrent /\ CopyIsSent

LEMMA RaInit == R!Init => RaInv
<1> SUFFICES ASSUME R!Init PROVE RaInv
  OBVIOUS
<1>1. RaTypes
  BY DEF R!Init, RaTypes
<1>2. CopyIsCurrent /\ CopyIsSent
  BY DEF R!Init, CopyIsCurrent, CopyIsSent
<1> QED BY <1>1, <1>2 DEF RaInv

LEMMA RaStep == RaInv /\ [R!Next]_(R!vars) => RaInv'
<1> SUFFICES ASSUME RaInv, [R!Next]_(R!vars) PROVE RaInv'
  OBVIOUS
<1> USE DEF RaInv, RaTypes
<1>1. ASSUME NEW s \in Setters, NEW g \in RaConfigs \cup {R!Off}, R!Call(s, g) PROVE RaInv'
  <2>1. RaTypes'
    BY <1>1 DEF R!Call
  <2>2. Owing' => Owing
    BY <1>1 DEF R!Call, Owing
  <2>3. Owing => Owing'
    <3>1. ASSUME NEW t \in Setters, setter[t].pc = "kick" PROVE setter'[t].pc = "kick"
      BY <1>1, <3>1 DEF R!Call
    <3> QED BY <3>1 DEF Owing
  <2> QED BY <1>1, <2>1, <2>2, <2>3 DEF R!Call, CopyIsCurrent, CopyIsSent
<1>2. ASSUME NEW s \in Setters, R!SetConfig(s) PROVE RaInv'
  <2>1. RaTypes'
    <3>1. setter' \in [Setters -> [pc : {"idle", "store", "kick"}, cfg : RaConfigs \cup {R!Off}]]
      BY <1>2 DEF R!SetConfig
    <3>2. setter[s].cfg \in RaConfigs \cup {R!Off}
      OBVIOUS
    <3>3. kick' \in BOOLEAN /\ raCfg' \in RaConfigs \cup {R!Off} /\ loop' = loop
      BY <1>2, <3>2 DEF R!SetConfig
    <3> QED BY <3>1, <3>3
  <2>2. CASE setter[s].pc = "store"
    <3>1. setter'[s].pc = "kick"
      BY <1>2, <2>2 DEF R!SetConfig
    <3>2. Owing'
      BY <3>1 DEF Owing
    <3> QED BY <1>2, <2>1, <3>2 DEF R!SetConfig, CopyIsCurrent, CopyIsSent
  <2>3. CASE setter[s].pc = "kick"
    BY <1>2, <2>1, <2>3 DEF R!SetConfig, CopyIsCurrent, CopyIsSent
  <2> QED BY <1>2, <2>2, <2>3 DEF R!SetConfig
<1>3. CASE R!readConfig
  BY <1>3 DEF R!readConfig, CopyIsCurrent, CopyIsSent
<1>4. CASE R!send
  BY <1>4 DEF R!send, CopyIsCurrent, CopyIsSent, Owing
<1>5. CASE R!wake
  BY <1>5 DEF R!wake, CopyIsCurrent, CopyIsSent, Owing
<1>6. CASE R!timer
  BY <1>6 DEF R!timer, CopyIsCurrent, CopyIsSent, Owing
<1>7. CASE R!cancel
  BY <1>7 DEF R!cancel, CopyIsCurrent, CopyIsSent, Owing
<1>8. CASE UNCHANGED R!vars
  BY <1>8 DEF R!vars, CopyIsCurrent, CopyIsSent, Owing
<1> QED BY <1>1, <1>2, <1>3, <1>4, <1>5, <1>6, <1>7, <1>8 DEF R!Next, R!raLoop

\* However many calls of SetConfig overlap, the loop never waits with an old
\* configuration unless a token, or a call about to put one, will wake it.
THEOREM NoLostWakeup == R!Spec => []ConfigAdvertised
<1>1. RaInv => ConfigAdvertised
  BY DEF RaInv, CopyIsCurrent, CopyIsSent, Owing, ConfigAdvertised, R!ConfigAdvertised
<1> QED BY <1>1, RaInit, RaStep, PTL DEF R!Spec

-----------------------------------------------------------------------------
(* The port forwards. *)

AnySpec == Specs \cup {""}
CallPCs == {"idle", "scan", "change", "release", "record"}
Calls == [pc: CallPCs, op: {"none", "put"}, put: SUBSET Specs, del: SUBSET Nat, add: SUBSET Specs,
          spec: AnySpec, alone: BOOLEAN, result: {"none", "ok", "conflict", "refused"}]

FwdTypes ==
  /\ forwards \subseteq [id: Nat, spec: AnySpec]
  /\ fwdSeq \in Nat
  /\ call \in [Callers -> Calls]

\* IDs are never used again.
FreshIDs ==
  /\ \A f \in forwards : f.id <= fwdSeq
  /\ \A f, g \in forwards : f.id = g.id => f = g

\* The call has a listener in hand which no record is of: it has just opened
\* it, or is about to close it.
Holds(c) == call[c].pc \in {"release", "record"}

\* Until closeForwards takes the records, every open listener has exactly one
\* owner, a record or a call.
Owners ==
  gw \in {"recorded", "deleted", "cancelled"} =>
    /\ \A f, g \in forwards : f.spec = g.spec => f = g
    /\ \A f \in forwards : f.spec \in open
    /\ \A c \in Callers : Holds(c) =>
         call[c].spec \in open /\ \A f \in forwards : f.spec # call[c].spec
    /\ \A c, d \in Callers : Holds(c) /\ Holds(d) /\ call[c].spec = call[d].spec => c = d
    /\ \A s \in open : \/ \E f \in forwards : f.spec = s
                       \/ \E c \in Callers : Holds(c) /\ call[c].spec = s

\* What an undisturbed PUT has done so far: the records it will not delete and
\* the specs it has yet to add make up the set that was PUT.
Progress(c) ==
  /\ \A f \in forwards : f.id \notin call[c].del => f.spec \in call[c].put \ call[c].add
  /\ \A s \in call[c].put \ call[c].add : \E f \in forwards : f.id \notin call[c].del /\ f.spec = s
  /\ call[c].add \subseteq call[c].put
  /\ call[c].pc = "record" => call[c].del = {} /\ call[c].spec \in call[c].add

\* The result of the call; while it is under way there is none.
Outcome(c) ==
  /\ F!Busy(c) => call[c].result = "none"
  /\ call[c].op = "put" /\ gw = "recorded" =>
       /\ call[c].pc \in {"change", "release", "record"} => Progress(c)
       /\ F!Compatible(call[c].put) => call[c].result # "conflict"
       /\ call[c].result = "ok" => F!Installed = call[c].put

Undisturbed ==
  \A c \in Callers : call[c].alone => Outcome(c) /\ \A d \in Callers \ {c} : ~F!Busy(d)

FwdInv == FwdTypes /\ FreshIDs /\ Owners /\ Undisturbed

LEMMA FwdInit == F!Init => FwdInv
<1> SUFFICES ASSUME F!Init PROVE FwdInv
  OBVIOUS
<1>1. F!Idle \in Calls /\ F!Idle.pc = "idle" /\ F!Idle.alone = FALSE
  BY DEF F!Idle, Calls, CallPCs, AnySpec
<1>2. FwdTypes
  BY <1>1 DEF F!Init, FwdTypes
<1>3. \A c \in Callers : call[c] = F!Idle
  BY DEF F!Init
<1> QED BY <1>1, <1>2, <1>3 DEF F!Init, FwdInv, FreshIDs, Owners, Holds, Undisturbed

\* A step that changes neither records nor listeners nor what a call has in
\* hand.
LEMMA SameOwners ==
  ASSUME Owners, UNCHANGED <<gw, forwards, open>>,
         \A d \in Callers : (Holds(d)' <=> Holds(d)) /\ (Holds(d) => call'[d].spec = call[d].spec)
  PROVE  Owners'
BY DEF Owners

\* A call that begins.
LEMMA BeginKeeps ==
  ASSUME FwdInv, NEW c \in Callers, NEW x \in Calls, F!Begin(c, x),
         x.pc \in {"change", "scan"}, x.result = "none", x.op = "put" => x.pc = "scan"
  PROVE  FwdInv'
<1> USE DEF FwdInv
<1> DEFINE y == [x EXCEPT !.alone = \A e \in Callers : ~F!Busy(e)]
<1>1. y \in Calls /\ y.pc = x.pc /\ y.result = "none" /\ y.op = x.op /\ y.alone = (\A e \in Callers : ~F!Busy(e))
  BY DEF Calls
<1>2. F!Idle \in Calls /\ F!Idle.pc = "idle" /\ F!Idle.alone = FALSE
  BY DEF F!Idle, Calls, CallPCs, AnySpec
<1>3. call' = [d \in Callers |-> IF d = c THEN y ELSE IF F!Busy(d) THEN [call[d] EXCEPT !.alone = FALSE] ELSE F!Idle]
      /\ UNCHANGED <<gw, forwards, fwdSeq, open>>
  BY DEF F!Begin, F!fwdVars
<1> HIDE DEF y
<1>4. ASSUME NEW d \in Callers, d # c
      PROVE  /\ call'[d] \in Calls /\ call'[d].alone = FALSE
             /\ call'[d].pc = call[d].pc
             /\ F!Busy(d) => call'[d].spec = call[d].spec
  BY <1>2, <1>3, <1>4 DEF FwdTypes, Calls, F!Busy
<1>5. call'[c] = y
  BY <1>3
<1>6. FwdTypes'
  BY <1>1, <1>2, <1>3, <1>4, <1>5 DEF FwdTypes
<1>7. FreshIDs'
  BY <1>3 DEF FreshIDs
<1>8. \A d \in Callers : /\ Holds(d)' <=> Holds(d)
                         /\ Holds(d) => call'[d].spec = call[d].spec
  BY <1>1, <1>4, <1>5 DEF Holds, F!Begin, F!Busy
<1>9. Owners'
  BY <1>3, <1>8, SameOwners
<1>10. Outcome(c)'
  BY <1>1, <1>5 DEF Outcome, F!Busy
<1>11. y.alone => \A d \in Callers \ {c} : ~F!Busy(d)'
  BY <1>1, <1>4 DEF F!Busy
<1>12. Undisturbed'
  BY <1>4, <1>5, <1>10, <1>11 DEF Undisturbed
<1> QED BY <1>6, <1>7, <1>9, <1>12

\* What a busy caller does for itself leaves the others as they are, and none
\* of those is undisturbed.
LEMMA UndisturbedBy ==
  ASSUME FwdInv, NEW c \in Callers, F!Busy(c), \A d \in Callers \ {c} : call'[d] = call[d],
         call'[c].alone = call[c].alone,
         call[c].alone /\ Outcome(c) => Outcome(c)'
  PROVE  Undisturbed'
<1>1. \A d \in Callers \ {c} : ~call'[d].alone
  BY DEF FwdInv, Undisturbed
<1>2. call[c].alone => \A d \in Callers \ {c} : ~F!Busy(d)'
  BY DEF FwdInv, Undisturbed, F!Busy
<1>3. call[c].alone => Outcome(c)
  BY DEF FwdInv, Undisturbed
<1> QED BY <1>1, <1>2, <1>3 DEF Undisturbed

\* A step within a call, after Scan.
LEMMA UndisturbedSoFar ==
  ASSUME FwdInv, NEW c \in Callers,
         call[c].pc \in {"change", "release", "record"}, call'[c].pc \in {"change", "release", "record"},
         \A d \in Callers \ {c} : call'[d] = call[d],
         call'[c].put = call[c].put, call'[c].result = call[c].result,
         call'[c].alone = call[c].alone, call'[c].op = call[c].op, gw' = gw,
         Progress(c) => Progress(c)'
  PROVE  Undisturbed'
<1>1. F!Busy(c) /\ F!Busy(c)'
  BY DEF F!Busy
<1>2. Outcome(c) => Outcome(c)'
  <2> SUFFICES ASSUME Outcome(c) PROVE Outcome(c)'
    OBVIOUS
  <2>1. call'[c].result = "none"
    BY <1>1 DEF Outcome
  <2> QED BY <1>1, <2>1 DEF Outcome
<1> QED BY <1>1, <1>2, UndisturbedBy

\* A step of a call that neither opens nor closes a listener nor touches a
\* record: what the caller has in hand stays, and so do the owners.
LEMMA ScanKeeps ==
  ASSUME FwdInv, NEW c \in Callers, F!Scan(c)
  PROVE  FwdInv'
<1> USE DEF FwdInv
<1>1. PICK kept \in SUBSET {f \in forwards : f.spec \in call[c].put} :
        /\ {f.spec : f \in kept} = {f.spec : f \in forwards} \cap call[c].put
        /\ \A f, g \in kept : f.spec = g.spec => f = g
        /\ call' = [call EXCEPT ![c].pc = "change",
                                ![c].del = {f.id : f \in forwards \ kept},
                                ![c].add = call[c].put \ {f.spec : f \in kept}]
  BY DEF F!Scan
<1>2. UNCHANGED <<gw, forwards, fwdSeq, open>> /\ call[c].pc = "scan"
  BY DEF F!Scan, F!fwdVars
<1>3. call[c] \in Calls
  BY DEF FwdTypes
<1> DEFINE D == {f.id : f \in forwards \ kept}
           A == call[c].put \ {f.spec : f \in kept}
<1>4. D \in SUBSET Nat /\ A \in SUBSET Specs
  <2>1. \A f \in forwards : f.id \in Nat
    BY DEF FwdTypes
  <2>2. call[c].put \in SUBSET Specs
    BY <1>3 DEF Calls
  <2> QED BY <2>1, <2>2
<1>5. /\ \A f \in forwards : f.id \in D <=> f \notin kept
      /\ \A s : s \in A <=> s \in call[c].put /\ \A f \in kept : f.spec # s
  BY DEF FreshIDs
<1>6. call' = [call EXCEPT ![c].pc = "change", ![c].del = D, ![c].add = A]
  BY <1>1
<1> HIDE DEF D, A
<1>7. /\ call'[c] \in Calls /\ call'[c].pc = "change" /\ call'[c].del = D /\ call'[c].add = A
      /\ call'[c].put = call[c].put /\ call'[c].result = call[c].result
      /\ call'[c].alone = call[c].alone /\ call'[c].op = call[c].op
  BY <1>3, <1>4, <1>6 DEF FwdTypes, Calls, CallPCs
<1>8. \A d \in Callers \ {c} : call'[d] = call[d]
  BY <1>6 DEF FwdTypes
<1>9. FwdTypes' /\ FreshIDs'
  BY <1>2, <1>6, <1>7, <1>8 DEF FwdTypes, FreshIDs
<1>10. \A d \in Callers : /\ Holds(d)' <=> Holds(d)
                          /\ Holds(d) => call'[d].spec = call[d].spec
  BY <1>2, <1>7, <1>8 DEF Holds
<1>11. Owners'
  BY <1>2, <1>10, SameOwners
<1>12. Progress(c)'
  <2>1. ASSUME NEW f \in forwards, f.id \notin D PROVE f.spec \in call[c].put \ A
    BY <1>1, <1>5, <2>1
  <2>2. ASSUME NEW s \in call[c].put \ A PROVE \E f \in forwards : f.id \notin D /\ f.spec = s
    BY <1>1, <1>5, <2>2
  <2> QED BY <1>2, <1>5, <1>7, <2>1, <2>2 DEF Progress
<1>13. Outcome(c) => Outcome(c)'
  <2> SUFFICES ASSUME Outcome(c) PROVE Outcome(c)'
    OBVIOUS
  <2>1. call'[c].result = "none"
    BY <1>2, <1>7 DEF Outcome, F!Busy
  <2> QED BY <1>12, <2>1 DEF Outcome
<1>14. F!Busy(c)
  BY <1>2 DEF F!Busy
<1>15. Undisturbed'
  BY <1>7, <1>8, <1>13, <1>14, UndisturbedBy
<1> QED BY <1>9, <1>11, <1>15

LEMMA UnrecordKeeps ==
  ASSUME FwdInv, NEW c \in Callers, F!Unrecord(c)
  PROVE  FwdInv'
<1> USE DEF FwdInv
<1>1. PICK id \in call[c].del :
        LET recs == {f \in forwards : f.id = id} IN
         /\ forwards' = forwards \ recs
         /\ call' = [call EXCEPT ![c].del = @ \ {id},
                                 ![c].pc = IF recs = {} THEN @ ELSE "release",
                                 ![c].spec = IF recs = {} THEN @ ELSE (CHOOSE f \in recs : TRUE).spec]
  BY DEF F!Unrecord
<1>2. UNCHANGED <<gw, fwdSeq, open>> /\ call[c].pc = "change"
  BY DEF F!Unrecord
<1>3. call[c] \in Calls /\ F!Busy(c)
  BY <1>2 DEF FwdTypes, F!Busy
<1>4. \A d \in Callers \ {c} : call'[d] = call[d]
  BY <1>1 DEF FwdTypes
<1>5. CASE \A f \in forwards : f.id # id
  <2>1. /\ forwards' = forwards
        /\ call' = [call EXCEPT ![c].del = @ \ {id}, ![c].pc = @, ![c].spec = @]
    <3>1. {f \in forwards : f.id = id} = {}
      BY <1>5
    <3> QED BY <1>1, <3>1
  <2>2. /\ call'[c] \in Calls /\ call'[c].pc = "change" /\ call'[c].del = call[c].del \ {id}
        /\ call'[c].add = call[c].add /\ call'[c].put = call[c].put /\ call'[c].result = call[c].result
        /\ call'[c].alone = call[c].alone /\ call'[c].op = call[c].op
    BY <1>2, <1>3, <2>1 DEF FwdTypes, Calls
  <2>3. FwdTypes' /\ FreshIDs'
    BY <1>2, <2>1, <1>4, <2>2 DEF FwdTypes, FreshIDs
  <2>4. \A d \in Callers : (Holds(d)' <=> Holds(d)) /\ (Holds(d) => call'[d].spec = call[d].spec)
    BY <1>2, <1>4, <2>2 DEF Holds
  <2>5. Owners'
    BY <1>2, <2>1, <2>4, SameOwners
  <2>6. ASSUME Progress(c) PROVE Progress(c)'
    <3>1. forwards' = forwards
      BY <2>1
    <3>2. \A f \in forwards : f.id \notin call'[c].del <=> f.id \notin call[c].del
      BY <1>5, <2>2
    <3> QED BY <2>2, <2>6, <3>1, <3>2 DEF Progress
  <2>8. Undisturbed'
    BY <1>2, <1>4, <2>2, <2>6, UndisturbedSoFar
  <2> QED BY <2>3, <2>5, <2>8
<1>6. ASSUME NEW f \in forwards, f.id = id PROVE FwdInv'
  <2>1. {g \in forwards : g.id = id} = {f}
    BY <1>6 DEF FreshIDs
  <2>2. (CHOOSE g \in {f} : TRUE) = f
    OBVIOUS
  <2>3. /\ forwards' = forwards \ {f}
        /\ call' = [call EXCEPT ![c].del = @ \ {id}, ![c].pc = "release", ![c].spec = f.spec]
    BY <1>1, <2>1, <2>2
  <2>4. f \in [id: Nat, spec: AnySpec]
    BY DEF FwdTypes
  <2>5. /\ call'[c] \in Calls /\ call'[c].pc = "release" /\ call'[c].del = call[c].del \ {id}
        /\ call'[c].spec = f.spec
        /\ call'[c].add = call[c].add /\ call'[c].put = call[c].put /\ call'[c].result = call[c].result
        /\ call'[c].alone = call[c].alone /\ call'[c].op = call[c].op
    BY <1>3, <2>3, <2>4 DEF FwdTypes, Calls, CallPCs
  <2>6. FwdTypes'
    BY <1>2, <2>3, <1>4, <2>5 DEF FwdTypes
  <2>7. FreshIDs'
    BY <1>2, <2>3 DEF FreshIDs
  <2>8. \A d \in Callers \ {c} : (Holds(d)' <=> Holds(d)) /\ call'[d].spec = call[d].spec
    BY <1>4 DEF Holds
  <2>9. ~Holds(c) /\ Holds(c)' /\ call'[c].spec = f.spec
    BY <1>2, <2>5 DEF Holds
  <2>10. ASSUME gw \in {"recorded", "deleted", "cancelled"} PROVE Owners'
    <3>1. /\ \A g, h \in forwards' : g.spec = h.spec => g = h
          /\ \A g \in forwards' : g.spec \in open'
      BY <1>2, <2>3, <2>10 DEF Owners
    <3>2. ASSUME NEW d \in Callers, Holds(d)'
          PROVE  call'[d].spec \in open' /\ \A g \in forwards' : g.spec # call'[d].spec
      <4>1. CASE d = c
        <5>1. f.spec \in open /\ \A g \in forwards : g.spec = f.spec => g = f
          BY <2>10 DEF Owners
        <5>2. forwards' = forwards \ {f} /\ open' = open /\ call'[d].spec = f.spec
          BY <1>2, <2>3, <2>9, <4>1
        <5> QED BY <5>1, <5>2
      <4>2. CASE d # c
        <5>1. call[d].spec \in open /\ \A g \in forwards : g.spec # call[d].spec
          BY <2>8, <2>10, <3>2, <4>2 DEF Owners
        <5>2. forwards' = forwards \ {f} /\ open' = open /\ call'[d].spec = call[d].spec
          BY <1>2, <2>3, <2>8, <4>2
        <5> QED BY <5>1, <5>2
      <4> QED BY <4>1, <4>2
    <3>3. ASSUME NEW d \in Callers, NEW e \in Callers, Holds(d)', Holds(e)', call'[d].spec = call'[e].spec
          PROVE  d = e
      <4>1. \A x \in Callers : Holds(x) => call[x].spec # f.spec
        BY <2>10 DEF Owners
      <4>2. \A x, y \in Callers : Holds(x) /\ Holds(y) /\ call[x].spec = call[y].spec => x = y
        BY <2>10 DEF Owners
      <4> QED BY <2>8, <2>9, <3>3, <4>1, <4>2
    <3>4. ASSUME NEW s \in open'
          PROVE  \/ \E g \in forwards' : g.spec = s
                 \/ \E d \in Callers : Holds(d)' /\ call'[d].spec = s
      <4>1. CASE s = f.spec
        BY <2>9, <4>1
      <4>2. CASE \E g \in forwards : g.spec = s /\ g # f
        BY <2>3, <4>2
      <4>3. CASE \E d \in Callers : Holds(d) /\ call[d].spec = s
        BY <2>8, <2>9, <4>3
      <4> QED BY <1>2, <2>10, <4>1, <4>2, <4>3 DEF Owners
    <3> QED BY <3>1, <3>2, <3>3, <3>4 DEF Owners
  <2>11. ASSUME Progress(c) PROVE Progress(c)'
    <3>1. \A g \in forwards' : g.id \notin call'[c].del <=> g.id \notin call[c].del
      BY <1>6, <2>3, <2>5 DEF FreshIDs
    <3>2. \A g \in forwards : g.id \notin call[c].del => g \in forwards'
      BY <1>1, <1>6, <2>3
    <3> QED BY <2>3, <2>5, <2>11, <3>1, <3>2 DEF Progress
  <2>12. Undisturbed'
    BY <1>2, <1>4, <2>5, <2>11, UndisturbedSoFar
  <2>13. Owners'
    BY <1>2, <2>10 DEF Owners
  <2> QED BY <2>6, <2>7, <2>12, <2>13
<1> QED BY <1>5, <1>6

LEMMA ReleaseKeeps ==
  ASSUME FwdInv, NEW c \in Callers, F!Release(c)
  PROVE  FwdInv'
<1> USE DEF FwdInv
<1>1. /\ call[c].pc = "release" /\ open' = open \ {call[c].spec}
      /\ call' = [call EXCEPT ![c].pc = "change"]
      /\ UNCHANGED <<gw, forwards, fwdSeq>>
  BY DEF F!Release
<1>2. call[c] \in Calls /\ F!Busy(c)
  BY <1>1 DEF FwdTypes, F!Busy
<1>3. /\ call'[c] \in Calls /\ call'[c].pc = "change" /\ call'[c].del = call[c].del
      /\ call'[c].add = call[c].add /\ call'[c].put = call[c].put /\ call'[c].result = call[c].result
      /\ call'[c].alone = call[c].alone /\ call'[c].op = call[c].op
  BY <1>1, <1>2 DEF FwdTypes, Calls, CallPCs
<1>4. \A d \in Callers \ {c} : call'[d] = call[d]
  BY <1>1 DEF FwdTypes
<1>5. FwdTypes' /\ FreshIDs'
  BY <1>1, <1>3, <1>4 DEF FwdTypes, FreshIDs
<1>6. \A d \in Callers \ {c} : (Holds(d)' <=> Holds(d)) /\ call'[d].spec = call[d].spec
  BY <1>4 DEF Holds
<1>7. Holds(c) /\ ~Holds(c)'
  BY <1>1, <1>3 DEF Holds
<1>8. Owners'
  BY <1>1, <1>6, <1>7 DEF Owners
<1>9. Progress(c) => Progress(c)'
  BY <1>1, <1>3 DEF Progress
<1>10. Undisturbed'
  BY <1>1, <1>3, <1>4, <1>9, UndisturbedSoFar
<1> QED BY <1>5, <1>8, <1>10

LEMMA InstalledIs ==
  ASSUME NEW D, \A s \in D : \E f \in forwards : f.spec = s, \A f \in forwards : f.spec \in D
  PROVE  F!Installed = D
BY DEF F!Installed

\* A call that ends.
LEMMA EndKeeps ==
  ASSUME FwdInv, NEW c \in Callers, F!Ready(c),
         NEW result \in {"ok", "conflict", "refused"}, F!End(c, result),
         UNCHANGED <<gw, forwards, fwdSeq, open>>,
         result = "ok" => call[c].add = {},
         result = "conflict" => \E s \in call[c].add : F!Taken(s)
  PROVE  FwdInv'
<1> USE DEF FwdInv
<1>1. call[c] \in Calls /\ F!Busy(c) /\ call[c].pc = "change" /\ call[c].del = {}
  BY DEF FwdTypes, F!Busy, F!Ready
<1>2. /\ call'[c] \in Calls /\ call'[c].pc = "idle" /\ call'[c].result = result
      /\ call'[c].put = call[c].put /\ call'[c].alone = call[c].alone /\ call'[c].op = call[c].op
  BY <1>1 DEF FwdTypes, Calls, CallPCs, F!End
<1>3. call' \in [Callers -> Calls] /\ \A d \in Callers \ {c} : call'[d] = call[d]
  BY <1>2 DEF FwdTypes, F!End
<1>4. FwdTypes' /\ FreshIDs'
  BY <1>3 DEF FwdTypes, FreshIDs
<1>5. \A d \in Callers : (Holds(d)' <=> Holds(d)) /\ (Holds(d) => call'[d].spec = call[d].spec)
  BY <1>1, <1>2, <1>3 DEF Holds
<1>6. Owners'
  BY <1>5, SameOwners
<1>7. ASSUME call[c].alone, Outcome(c), call[c].op = "put", gw = "recorded"
      PROVE  /\ F!Compatible(call[c].put) => result # "conflict"
             /\ result = "ok" => F!Installed = call[c].put
  <2>1. Progress(c)
    BY <1>1, <1>7 DEF Outcome
  <2>2. \A f \in forwards : f.spec \in call[c].put \ call[c].add
    BY <1>1, <2>1 DEF Progress
  <2>3. ASSUME result = "ok" PROVE F!Installed = call[c].put
    <3>1. call[c].add = {}
      BY <2>3
    <3>2. \A s \in call[c].put : \E f \in forwards : f.spec = s
      BY <2>1, <3>1 DEF Progress
    <3>3. \A f \in forwards : f.spec \in call[c].put
      BY <2>2
    <3> QED BY <3>2, <3>3, InstalledIs
  <2>4. ASSUME result = "conflict" PROVE ~F!Compatible(call[c].put)
    <3>1. PICK s \in call[c].add, t \in open : BindOf[t] = BindOf[s]
      BY <2>4 DEF F!Taken
    <3>2. \A d \in Callers : ~Holds(d)
      BY <1>1, <1>7 DEF Undisturbed, F!Busy, Holds
    <3>3. PICK f \in forwards : f.spec = t
      BY <1>7, <3>2 DEF Owners
    <3>4. t \in call[c].put /\ s \in call[c].put /\ s # t
      BY <2>1, <2>2, <3>3 DEF Progress
    <3> QED BY <3>1, <3>4 DEF F!Compatible
  <2> QED BY <2>3, <2>4
<1>8. F!Installed' = F!Installed
  BY DEF F!Installed
<1>9. ~F!Busy(c)'
  BY <1>2 DEF F!Busy
<1>10. call[c].alone /\ Outcome(c) => Outcome(c)'
  <2>1. F!Compatible(call[c].put)' <=> F!Compatible(call[c].put)
    BY <1>2 DEF F!Compatible
  <2> QED BY <1>2, <1>7, <1>8, <1>9, <2>1 DEF Outcome
<1>11. Undisturbed'
  BY <1>1, <1>2, <1>3, <1>10, UndisturbedBy
<1> QED BY <1>4, <1>6, <1>11

LEMMA ListenKeeps ==
  ASSUME FwdInv, NEW c \in Callers, F!Listen(c)
  PROVE  FwdInv'
<1> USE DEF FwdInv
<1>1. PICK s \in call[c].add :
         \/ /\ ~F!Taken(s)
            /\ open' = open \cup {s}
            /\ call' = [call EXCEPT ![c].pc = "record", ![c].spec = s]
         \/ F!Taken(s) /\ F!End(c, "conflict") /\ UNCHANGED open
         \/ ~F!Taken(s) /\ F!End(c, "refused") /\ UNCHANGED open
  BY DEF F!Listen
<1>2. UNCHANGED <<gw, forwards, fwdSeq>> /\ F!Ready(c)
  BY DEF F!Listen
<1>3. CASE F!Taken(s) /\ F!End(c, "conflict") /\ UNCHANGED open
  BY <1>2, <1>3, EndKeeps
<1>4. CASE ~F!Taken(s) /\ F!End(c, "refused") /\ UNCHANGED open
  BY <1>2, <1>4, EndKeeps
<1>5. CASE /\ ~F!Taken(s)
           /\ open' = open \cup {s}
           /\ call' = [call EXCEPT ![c].pc = "record", ![c].spec = s]
  <2>1. call[c] \in Calls /\ F!Busy(c) /\ call[c].pc = "change" /\ call[c].del = {}
    BY <1>2 DEF FwdTypes, F!Busy, F!Ready
  <2>2. s \in AnySpec
    BY <2>1 DEF Calls, AnySpec
  <2>3. /\ call'[c] \in Calls /\ call'[c].pc = "record" /\ call'[c].spec = s
        /\ call'[c].del = {} /\ call'[c].add = call[c].add /\ call'[c].put = call[c].put
        /\ call'[c].result = call[c].result /\ call'[c].alone = call[c].alone /\ call'[c].op = call[c].op
    BY <1>5, <2>1, <2>2 DEF FwdTypes, Calls, CallPCs
  <2>4. call' \in [Callers -> Calls] /\ \A d \in Callers \ {c} : call'[d] = call[d]
    BY <1>5, <2>3 DEF FwdTypes
  <2>5. FwdTypes' /\ FreshIDs'
    BY <1>2, <2>4 DEF FwdTypes, FreshIDs
  <2>6. s \notin open /\ open' = open \cup {s}
    BY <1>5 DEF F!Taken
  <2>7. \A d \in Callers \ {c} : (Holds(d)' <=> Holds(d)) /\ call'[d].spec = call[d].spec
    BY <2>4 DEF Holds
  <2>8. ~Holds(c) /\ Holds(c)' /\ call'[c].spec = s
    BY <2>1, <2>3 DEF Holds
  <2>9. ASSUME gw \in {"recorded", "deleted", "cancelled"} PROVE Owners'
    <3>1. /\ \A g, h \in forwards' : g.spec = h.spec => g = h
          /\ \A g \in forwards' : g.spec \in open /\ g.spec \in open'
      BY <1>2, <2>6, <2>9 DEF Owners
    <3>2. \A d \in Callers \ {c} : Holds(d)' =>
            call'[d].spec \in open /\ \A g \in forwards' : g.spec # call'[d].spec
      BY <1>2, <2>7, <2>9 DEF Owners
    <3>3. \A d \in Callers : Holds(d)' =>
            call'[d].spec \in open' /\ \A g \in forwards' : g.spec # call'[d].spec
      BY <2>6, <2>8, <3>1, <3>2
    <3>4. \A d, e \in Callers \ {c} : Holds(d)' /\ Holds(e)' /\ call'[d].spec = call'[e].spec => d = e
      BY <2>7, <2>9 DEF Owners
    <3>5. \A d, e \in Callers : Holds(d)' /\ Holds(e)' /\ call'[d].spec = call'[e].spec => d = e
      BY <2>6, <2>8, <3>2, <3>4
    <3>6. ASSUME NEW t \in open'
          PROVE  \/ \E g \in forwards' : g.spec = t
                 \/ \E d \in Callers : Holds(d)' /\ call'[d].spec = t
      <4>1. CASE t = s
        BY <2>8, <4>1
      <4>2. CASE \E g \in forwards : g.spec = t
        BY <1>2, <4>2
      <4>3. CASE \E d \in Callers : Holds(d) /\ call[d].spec = t
        BY <2>7, <2>8, <4>3
      <4> QED BY <2>6, <2>9, <4>1, <4>2, <4>3 DEF Owners
    <3> QED BY <3>1, <3>3, <3>5, <3>6 DEF Owners
  <2>10. Owners'
    BY <1>2, <2>9 DEF Owners
  <2>11. Progress(c) => Progress(c)'
    BY <1>2, <2>1, <2>3 DEF Progress
  <2>12. Undisturbed'
    BY <1>2, <2>1, <2>3, <2>4, <2>11, UndisturbedSoFar
  <2> QED BY <2>5, <2>10, <2>12
<1> QED BY <1>1, <1>3, <1>4, <1>5

LEMMA RecordKeeps ==
  ASSUME FwdInv, NEW c \in Callers, F!Record(c)
  PROVE  FwdInv'
<1> USE DEF FwdInv
<1> DEFINE n == [id |-> fwdSeq + 1, spec |-> call[c].spec]
<1>1. /\ call[c].pc = "record" /\ fwdSeq' = fwdSeq + 1 /\ forwards' = forwards \cup {n}
      /\ call' = [call EXCEPT ![c].pc = "change", ![c].add = @ \ {call[c].spec}]
      /\ UNCHANGED <<gw, open>>
  BY DEF F!Record
<1>2. call[c] \in Calls /\ F!Busy(c)
  BY <1>1 DEF FwdTypes, F!Busy
<1>3. n \in [id: Nat, spec: AnySpec] /\ n.id = fwdSeq + 1 /\ n.spec = call[c].spec
  <2>1. fwdSeq + 1 \in Nat /\ call[c].spec \in AnySpec
    BY <1>2 DEF FwdTypes, Calls
  <2> QED BY <2>1
<1> HIDE DEF n
<1>4. /\ call'[c] \in Calls /\ call'[c].pc = "change" /\ call'[c].add = call[c].add \ {call[c].spec}
      /\ call'[c].del = call[c].del /\ call'[c].put = call[c].put
      /\ call'[c].result = call[c].result /\ call'[c].alone = call[c].alone /\ call'[c].op = call[c].op
  BY <1>1, <1>2 DEF FwdTypes, Calls, CallPCs
<1>5. call' \in [Callers -> Calls] /\ \A d \in Callers \ {c} : call'[d] = call[d]
  BY <1>1, <1>4 DEF FwdTypes
<1>6. FwdTypes'
  BY <1>1, <1>3, <1>5 DEF FwdTypes
<1>7. FreshIDs'
  <2>1. fwdSeq \in Nat /\ \A f \in forwards : f.id \in Nat /\ f.id <= fwdSeq
    BY DEF FwdTypes, FreshIDs
  <2>2. \A f \in forwards : f.id # n.id /\ f.id <= fwdSeq + 1
    BY <1>3, <2>1
  <2> QED BY <1>1, <1>3, <2>1, <2>2 DEF FreshIDs
<1>8. \A d \in Callers \ {c} : (Holds(d)' <=> Holds(d)) /\ call'[d].spec = call[d].spec
  BY <1>5 DEF Holds
<1>9. Holds(c) /\ ~Holds(c)'
  BY <1>1, <1>4 DEF Holds
<1>10. forwards' = forwards \cup {n} /\ open' = open
  BY <1>1
<1>11. ASSUME gw \in {"recorded", "deleted", "cancelled"} PROVE Owners'
  <2>1. call[c].spec \in open /\ \A f \in forwards : f.spec # call[c].spec
    BY <1>9, <1>11 DEF Owners
  <2>2. /\ \A f, g \in forwards : f.spec = g.spec => f = g
        /\ \A f \in forwards : f.spec \in open
    BY <1>11 DEF Owners
  <2>3. /\ \A f, g \in forwards' : f.spec = g.spec => f = g
        /\ \A f \in forwards' : f.spec \in open'
    BY <1>3, <1>10, <2>1, <2>2
  <2>4. \A d \in Callers \ {c} : Holds(d) => call[d].spec # n.spec
    BY <1>3, <1>9, <1>11 DEF Owners
  <2>5. \A d \in Callers \ {c} : Holds(d) =>
          call[d].spec \in open /\ \A f \in forwards : f.spec # call[d].spec
    BY <1>11 DEF Owners
  <2>6. \A d \in Callers : Holds(d)' =>
          call'[d].spec \in open' /\ \A f \in forwards' : f.spec # call'[d].spec
    BY <1>8, <1>9, <1>10, <2>4, <2>5
  <2>7. \A d, e \in Callers : Holds(d)' /\ Holds(e)' /\ call'[d].spec = call'[e].spec => d = e
    BY <1>8, <1>9, <1>11 DEF Owners
  <2>8. ASSUME NEW t \in open'
        PROVE  \/ \E f \in forwards' : f.spec = t
               \/ \E d \in Callers : Holds(d)' /\ call'[d].spec = t
    <3>1. CASE t = n.spec
      BY <1>10, <3>1
    <3>2. CASE \E f \in forwards : f.spec = t
      BY <1>10, <3>2
    <3>3. CASE \E d \in Callers \ {c} : Holds(d) /\ call[d].spec = t
      BY <1>8, <3>3
    <3> QED BY <1>3, <1>10, <1>11, <3>1, <3>2, <3>3 DEF Owners
  <2> QED BY <2>3, <2>6, <2>7, <2>8 DEF Owners
<1>12. Owners'
  BY <1>1, <1>11 DEF Owners
<1>13. ASSUME Progress(c) PROVE Progress(c)'
  <2>1. call[c].del = {} /\ n.spec \in call[c].add /\ call[c].add \subseteq call[c].put
    BY <1>1, <1>3, <1>13 DEF Progress
  <2>2. /\ \A f \in forwards : f.spec \in call[c].put \ call[c].add
        /\ \A s \in call[c].put \ call[c].add : \E f \in forwards : f.spec = s
    BY <1>13, <2>1 DEF Progress
  <2>3. call'[c].add = call[c].add \ {n.spec}
    BY <1>3, <1>4
  <2>4. \A f \in forwards' : f.spec \in call'[c].put \ call'[c].add
    BY <1>4, <1>10, <2>1, <2>2, <2>3
  <2>5. \A s \in call'[c].put \ call'[c].add : \E f \in forwards' : f.spec = s
    BY <1>4, <1>10, <2>1, <2>2, <2>3
  <2> QED BY <1>4, <2>1, <2>3, <2>4, <2>5 DEF Progress
<1>14. Undisturbed'
  BY <1>1, <1>4, <1>5, <1>13, UndisturbedSoFar
<1> QED BY <1>6, <1>7, <1>12, <1>14

\* DeleteGateway and Gateway.Close.
LEMMA CloseKeeps ==
  ASSUME FwdInv, F!DeleteGateway \/ F!Close
  PROVE  FwdInv'
<1> USE DEF FwdInv, F!fwdVars
<1>1. call' = call /\ fwdSeq' = fwdSeq /\ gw' # "recorded"
  BY DEF F!DeleteGateway, F!Close, F!cancel, F!closeForwards, F!closeListeners
<1>2. forwards' = forwards \/ forwards' = {}
  BY DEF F!DeleteGateway, F!Close, F!cancel, F!closeForwards, F!closeListeners
<1>3. FwdTypes' /\ FreshIDs'
  BY <1>1, <1>2 DEF FwdTypes, FreshIDs
<1>4. gw' \in {"taken", "closed"} \/ (gw \in {"recorded", "deleted"} /\ UNCHANGED <<forwards, open, call>>)
  BY DEF F!DeleteGateway, F!Close, F!cancel, F!closeForwards, F!closeListeners
<1>5. Owners'
  <2>1. CASE gw' \in {"taken", "closed"}
    BY <2>1 DEF Owners
  <2>2. CASE gw \in {"recorded", "deleted"} /\ UNCHANGED <<forwards, open, call>>
    BY <2>2 DEF Owners, Holds
  <2> QED BY <1>4, <2>1, <2>2
<1>6. Undisturbed'
  BY <1>1 DEF Undisturbed, Outcome, F!Busy
<1> QED BY <1>3, <1>5, <1>6

LEMMA FwdStep == FwdInv /\ [F!Next]_(F!vars) => FwdInv'
<1> SUFFICES ASSUME FwdInv, [F!Next]_(F!vars) PROVE FwdInv'
  OBVIOUS
<1>1. ASSUME NEW c \in Callers, NEW s \in Specs, F!AddForward(c, s) PROVE FwdInv'
  <2> DEFINE x == [F!Idle EXCEPT !.pc = "change", !.add = {s}]
  <2>1. x \in Calls /\ x.pc = "change" /\ x.result = "none" /\ x.op = "none"
    BY DEF F!Idle, Calls, CallPCs, AnySpec
  <2>2. F!Begin(c, x)
    BY <1>1 DEF F!AddForward
  <2> QED BY <2>1, <2>2, BeginKeeps
<1>2. ASSUME NEW c \in Callers, NEW f \in forwards, F!DeleteForward(c, f) PROVE FwdInv'
  <2> DEFINE x == [F!Idle EXCEPT !.pc = "change", !.del = {f.id}]
  <2>1. f.id \in Nat
    BY DEF FwdInv, FwdTypes
  <2>2. x \in Calls /\ x.pc = "change" /\ x.result = "none" /\ x.op = "none"
    BY <2>1 DEF F!Idle, Calls, CallPCs, AnySpec
  <2>3. F!Begin(c, x)
    BY <1>2 DEF F!DeleteForward
  <2> QED BY <2>2, <2>3, BeginKeeps
<1>3. ASSUME NEW c \in Callers, NEW D \in Puts, F!ReplaceForwards(c, D) PROVE FwdInv'
  <2> DEFINE x == [F!Idle EXCEPT !.pc = "scan", !.op = "put", !.put = D]
  <2>1. x \in Calls /\ x.pc = "scan" /\ x.result = "none"
    BY ForwardsAssumption DEF F!Idle, Calls, CallPCs, AnySpec
  <2>2. F!Begin(c, x)
    BY <1>3 DEF F!ReplaceForwards
  <2> QED BY <2>1, <2>2, BeginKeeps
<1>4. ASSUME NEW c \in Callers, F!Return(c) PROVE FwdInv'
  BY <1>4, EndKeeps DEF F!Return, F!Ready, F!fwdVars
<1>5. ASSUME NEW c \in Callers, F!Serve(c) PROVE FwdInv'
  BY <1>4, <1>5, ScanKeeps, UnrecordKeeps, ReleaseKeeps, ListenKeeps, RecordKeeps DEF F!Serve
<1>6. CASE UNCHANGED F!vars
  <2>1. UNCHANGED <<gw, forwards, fwdSeq, open, call>>
    BY <1>6 DEF F!vars, F!fwdVars
  <2>2. FwdTypes' /\ FreshIDs'
    BY <2>1 DEF FwdInv, FwdTypes, FreshIDs
  <2>3. \A c : Holds(c)' = Holds(c)
    BY <2>1 DEF Holds
  <2>4. Owners'
    BY <2>1, <2>3, SameOwners DEF FwdInv
  <2>5. \A c \in Callers : Progress(c) => Progress(c)'
    BY <2>1 DEF Progress
  <2>6. F!Installed' = F!Installed /\ \A c \in Callers : F!Busy(c)' = F!Busy(c)
    BY <2>1 DEF F!Busy, F!Installed
  <2>7. \A c \in Callers : F!Compatible(call[c].put)' = F!Compatible(call[c].put)
    BY <2>1 DEF F!Compatible
  <2>8. \A c \in Callers : Outcome(c) => Outcome(c)'
    BY <2>1, <2>5, <2>6, <2>7 DEF Outcome
  <2>9. Undisturbed'
    BY <2>1, <2>6, <2>8 DEF FwdInv, Undisturbed
  <2> QED BY <2>2, <2>4, <2>9 DEF FwdInv
<1> QED BY <1>1, <1>2, <1>3, <1>5, <1>6, CloseKeeps DEF F!Next

LEMMA FwdAlways == F!Spec => []FwdInv
BY FwdInit, FwdStep, PTL DEF F!Spec

\* When no call is under way, listeners and records correspond one to one,
\* whatever calls have overlapped before.
THEOREM ListenersHaveRecords == F!Spec => []NothingDangling
<1>1. FwdInv => NothingDangling
  <2> SUFFICES ASSUME FwdInv, \A c \in Callers : ~F!Busy(c), gw \in {"recorded", "deleted", "cancelled"}
               PROVE  open = F!Installed /\ \A f, g \in forwards : f.spec = g.spec => f = g
    BY DEF NothingDangling, F!NothingDangling
  <2>1. \A c \in Callers : ~Holds(c)
    BY DEF Holds, F!Busy
  <2>2. /\ \A f \in forwards : f.spec \in open
        /\ \A s \in open : \E f \in forwards : f.spec = s
        /\ \A f, g \in forwards : f.spec = g.spec => f = g
    BY <2>1 DEF FwdInv, Owners
  <2> QED BY <2>2, InstalledIs
<1> QED BY <1>1, FwdAlways, PTL

\* A PUT that no other call overlaps never trips over forwards that are there
\* already, and a PUT that succeeds has installed just what was PUT.
THEOREM PutConverges == F!Spec => []ReplaceInstalls
<1>1. FwdInv => ReplaceInstalls
  BY DEF FwdInv, Undisturbed, Outcome, ReplaceInstalls, F!ReplaceInstalls
<1> QED BY <1>1, FwdAlways, PTL
=============================================================================

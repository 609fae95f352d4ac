-------------------------- MODULE SwitchRefinement --------------------------
(***************************************************************************)
(* The proof that SwitchCore implements LearningSwitch, for every set of   *)
(* ports, stations, frames and goroutines.  Every step of the detailed     *)
(* specification is one of these seen through the refinement mapping: a    *)
(* step of its own in the tables, a flush (Forget), a transmission, or     *)
(* nothing (Quiet).  Which, follows from the inductive invariant IInv.     *)
(***************************************************************************)
EXTENDS SwitchCoreProofs

\* What the mapping makes of an FDB entry, of the FDB and of the copies.
Loc(v) == [portID |-> v.portID, port |-> v.port, static |-> v.static]
Where  == [k \in FdbKeys |-> Loc(fdb[k])]
Sent   == {[from |-> c.src, to |-> c.dst, dest |-> [vlan |-> c.key, mac |-> c.mac]] : c \in out}

SameTables == UNCHANGED <<ports, portNumSeq, eid, gone>>

\* The initial states are initial states of the abstract switch.
LEMMA MapInit == Init => Abstract!Init
<1> SUFFICES ASSUME Init PROVE Abstract!Init
  OBVIOUS
<1>1. {e \in Entries : gone[e]} = {}
  BY DEF Init
<1>2. Sent = {}
  BY DEF Init, Sent
<1>3. Where = [k \in FdbKeys |-> Abstract!Nowhere]
  BY DEF Init, Where, Loc, Absent, Abstract!Nowhere
<1> QED BY <1>1, <1>2, <1>3 DEF Init, Abstract!Init, Where, Loc, Sent

\* Steps that the mapping hides.
LEMMA MapQuiet == ASSUME SameTables, UNCHANGED fdb PROVE Abstract!Quiet
BY DEF SameTables, Abstract!Quiet, Abstract!tables

\* Every flush, by port, by VLAN or by age, forgets learned locations.
LEMMA MapForget ==
  ASSUME IInv, SameTables, NEW D, Purge(D)
  PROVE  \E S \in SUBSET FdbKeys : Abstract!Forget(S)
<1> DEFINE S == D \cap FdbKeys
           new(k) == IF k \in S /\ ~Where[k].static THEN Abstract!Nowhere ELSE Where[k]
<1>1. ASSUME NEW k \in FdbKeys PROVE Where'[k] = new(k)
  <2>1. Where[k] = Loc(fdb[k]) /\ Where'[k] = Loc(fdb'[k]) /\ Where[k].static = fdb[k].static
    BY DEF Where, Loc
  <2>2. Loc(Absent) = Abstract!Nowhere
    BY DEF Loc, Absent, Abstract!Nowhere
  <2>3. fdb'[k] = IF Dynamic(k) /\ k \in D THEN Absent ELSE fdb[k]
    BY DEF Purge
  <2> QED BY <2>1, <2>2, <2>3 DEF Dynamic
<1>2. Where' = [k \in FdbKeys |-> new(k)]
  BY <1>1 DEF Where
<1>3. Abstract!Forget(S)
  BY <1>2 DEF SameTables, Abstract!Forget, Abstract!tables, Where, Loc
<1> QED BY <1>3

\* One entry of the FDB is set.
LEMMA MapEntry ==
  ASSUME IInv, NEW k \in FdbKeys, NEW v, fdb' = [fdb EXCEPT ![k] = v]
  PROVE  Where' = [Where EXCEPT ![k] = Loc(v)]
<1>1. fdb \in [FdbKeys -> FdbVals]
  BY DEF IInv, TypeOK, FdbVals
<1>2. ASSUME NEW j \in FdbKeys PROVE Where'[j] = [Where EXCEPT ![k] = Loc(v)][j]
  BY <1>1 DEF Where
<1> QED BY <1>2 DEF Where

\* An allocated entry is an issued port.
LEMMA Issued ==
  ASSUME IInv, NEW e \in Entries, e <= portNumSeq PROVE e \in 1 .. portNumSeq
<1>1. portNumSeq \in 0 .. MaxEntry /\ e \in 1 .. MaxEntry /\ MaxEntry \in Nat
  BY BoundsAssumption DEF IInv, TypeOK, Entries
<1> QED BY <1>1

\* Learning binds a station to an issued port, unless its entry is static.
LEMMA MapLearn ==
  ASSUME IInv, NEW t \in Rx, Learn(t)
  PROVE  \/ Abstract!Quiet
         \/ \E k \in FdbKeys, o \in 1 .. portNumSeq : Abstract!Bind(k, o)
<1>0. PICK k \in FdbKeys, o \in Entries : k = LearnKey(t) /\ o = rx[t].e
  BY LearnFacts
<1>1. k \in FdbKeys /\ o \in Entries
  OBVIOUS
<1>2. SameTables
  BY DEF Learn, SameTables, entryVars
<1>3. CASE fdb[k].static
  <2>1. fdb' = fdb
    BY <1>0, <1>3 DEF Learn, learn, LearnKey
  <2> QED BY <1>2, <2>1, MapQuiet
<1>4. CASE ~fdb[k].static
  <2>1. fdb' = [fdb EXCEPT ![k] = Learned(t)]
    BY <1>0, <1>4 DEF Learn, learn, LearnKey, Learned
  <2>2. Where' = [Where EXCEPT ![k] = Loc(Learned(t))]
    BY <1>1, <2>1, MapEntry
  <2>3. Loc(Learned(t)) = [portID |-> eid[o], port |-> o, static |-> FALSE]
    BY <1>0 DEF Loc, Learned
  <2>4. o \in 1 .. portNumSeq
    <3>1. o <= portNumSeq
      BY <1>0 DEF IInv, Allocated
    <3> QED BY <1>1, <3>1, Issued
  <2>5. ~Where[k].static
    BY <1>1, <1>4 DEF Where, Loc
  <2>6. Abstract!Bind(k, o)
    BY <1>2, <2>2, <2>3, <2>5 DEF SameTables, Abstract!Bind, Abstract!At, Abstract!tables, Where, Loc
  <2> QED BY <1>1, <2>4, <2>6
<1> QED BY <1>3, <1>4

\* The registry: registration, removal and its second half, and Close.
LEMMA MapRegister ==
  ASSUME IInv, NEW id \in PortIDs, NEW a \in AttrChoices, AddPort(id, a)
  PROVE  Abstract!Register(id)
<1>1. portNumSeq + 1 \in Entries
  <2>1. portNumSeq \in 0 .. MaxEntry /\ MaxEntry \in Nat
    BY BoundsAssumption DEF IInv, TypeOK
  <2>2. portNumSeq < MaxEntry
    BY DEF AddPort
  <2> QED BY <2>1, <2>2 DEF Entries
<1> QED BY <1>1 DEF AddPort, Abstract!Register

LEMMA MapUnregister ==
  ASSUME IInv
  PROVE  /\ \A a \in Adm, id \in PortIDs : RemovePort(a, id) => Abstract!Unregister({id})
         /\ Close => Abstract!Unregister(PortIDs)
<1>0. ports \in [PortIDs -> {Nil} \cup Entries]
  BY DEF IInv, TypeOK
<1>1. ASSUME NEW a \in Adm, NEW id \in PortIDs, RemovePort(a, id) PROVE Abstract!Unregister({id})
  <2>1. ports' = [p \in PortIDs |-> IF p \in {id} THEN Nil ELSE ports[p]]
    BY <1>0, <1>1 DEF RemovePort
  <2> QED BY <1>1, <2>1 DEF RemovePort, Abstract!Unregister, entryVars
<1>2. ASSUME Close PROVE Abstract!Unregister(PortIDs)
  <2>1. ports' = [p \in PortIDs |-> IF p \in PortIDs THEN Nil ELSE ports[p]]
    BY <1>2 DEF Close
  <2> QED BY <1>2, <2>1 DEF Close, Abstract!Unregister, entryVars
<1> QED BY <1>1, <1>2

LEMMA MapRetire ==
  ASSUME IInv, NEW a \in Adm, RemoveGone(a)
  PROVE  \E o \in 1 .. portNumSeq : Abstract!Retire(o)
<1>0. PICK o \in Entries : o = adm[a].e
  BY DEF RemoveGone, IInv, InCall
<1>1. o \in Entries /\ o = adm[a].e /\ adm[a].pc = "gone"
  BY <1>0 DEF RemoveGone
<1>2. o \in 1 .. portNumSeq
  <2>1. o <= portNumSeq
    BY <1>1 DEF IInv, Allocated
  <2> QED BY <1>1, <2>1, Issued
<1>3. o \notin {ports[p] : p \in PortIDs} \ {Nil}
  BY <1>1 DEF IInv, RegistryConsistent
<1>4. {e \in Entries : gone'[e]} = {e \in Entries : gone[e]} \cup {o}
  <2>1. gone' = [gone EXCEPT ![o] = TRUE] /\ gone \in [Entries -> BOOLEAN]
    BY <1>1 DEF RemoveGone, IInv, TypeOK
  <2>2. ASSUME NEW e \in Entries PROVE gone'[e] <=> (gone[e] \/ e = o)
    BY <1>1, <2>1
  <2> QED BY <1>1, <2>2
<1>5. UNCHANGED <<ports, portNumSeq, eid, fdb>>
  BY DEF RemoveGone
<1>6. Abstract!Retire(o)
  BY <1>3, <1>4, <1>5 DEF Abstract!Retire, Abstract!Registered
<1> QED BY <1>2, <1>6

\* The static FDB API, the deletion of one entry, and time.
LEMMA MapFdbAdmin ==
  ASSUME IInv, FdbAdmin
  PROVE  Abstract!Change
<1>0. SameTables
  BY DEF FdbAdmin, AddStaticFDB, RemoveStaticFDB, DeleteFDBEntry, FlushFDB, SetFDBMaxAge, expire, Tick,
         FdbUnchanged, entryVars, SameTables
<1>1. ASSUME NEW k \in FdbKeys, NEW id \in PortIDs, AddStaticFDB(k, id) PROVE Abstract!Pin(k, id)
  <2> DEFINE v == [portID |-> id, port |-> Nil, age |-> 0, static |-> TRUE]
  <2>1. fdb' = [fdb EXCEPT ![k] = v]
    BY <1>1 DEF AddStaticFDB
  <2>2. Where' = [Where EXCEPT ![k] = Loc(v)]
    BY <2>1, MapEntry
  <2>3. Loc(v) = [portID |-> id, port |-> Nil, static |-> TRUE]
    BY DEF Loc
  <2> QED BY <1>0, <2>2, <2>3 DEF SameTables, Abstract!Pin, Abstract!Pinned, Abstract!tables, Where, Loc
<1>2. ASSUME NEW k \in FdbKeys, RemoveStaticFDB(k) PROVE Abstract!Unpin(k)
  <2>1. fdb[k].static /\ fdb' = [fdb EXCEPT ![k] = Absent]
    BY <1>2 DEF RemoveStaticFDB
  <2>2. Where' = [Where EXCEPT ![k] = Loc(Absent)] /\ Where[k].static
    BY <2>1, MapEntry DEF Where, Loc
  <2>3. Loc(Absent) = Abstract!Nowhere
    BY DEF Loc, Absent, Abstract!Nowhere
  <2> QED BY <1>0, <2>2, <2>3 DEF SameTables, Abstract!Unpin, Abstract!tables, Where, Loc
<1>3. ASSUME NEW k \in FdbKeys, DeleteFDBEntry(k) PROVE \E S \in SUBSET FdbKeys : Abstract!Forget(S)
  <2>1. Purge({k})
    BY <1>3 DEF DeleteFDBEntry, Purge, IInv, TypeOK
  <2> QED BY <1>0, <2>1, MapForget
<1>4. ASSUME NEW D, Purge(D) PROVE \E S \in SUBSET FdbKeys : Abstract!Forget(S)
  BY <1>0, <1>4, MapForget
<1>5. ASSUME Tick PROVE Abstract!Quiet
  <2>1. ASSUME NEW k \in FdbKeys PROVE Loc(fdb'[k]) = Loc(fdb[k])
    <3>1. fdb[k] \in FdbVals
      BY DEF IInv, TypeOK, FdbVals
    <3>2. fdb'[k] = fdb[k] \/ fdb'[k] = [fdb[k] EXCEPT !.age = @ + 1]
      BY <1>5 DEF Tick
    <3> QED BY <3>1, <3>2 DEF Loc, FdbVals
  <2>2. Where' = Where
    BY <2>1 DEF Where
  <2> QED BY <1>0, <2>2 DEF SameTables, Abstract!Quiet, Abstract!tables, Where, Loc
<1>6. ASSUME NEW m \in MaxAges, SetFDBMaxAge(m) PROVE Abstract!Quiet
  BY <1>0, <1>6, MapQuiet DEF SetFDBMaxAge
<1>7. ASSUME expire \/ \E ids, vlans : FlushFDB(ids, vlans) PROVE \E S \in SUBSET FdbKeys : Abstract!Forget(S)
  BY <1>4, <1>7 DEF expire, FlushFDB
<1> QED BY <1>1, <1>2, <1>3, <1>5, <1>6, <1>7 DEF FdbAdmin, Abstract!Change

\* Port attributes, removal, notification and Close.
LEMMA MapRegistry ==
  ASSUME IInv, Registry
  PROVE  Abstract!Change
<1>1. ASSUME NEW id, flushPort(id), SameTables PROVE \E S \in SUBSET FdbKeys : Abstract!Forget(S)
  BY <1>1, MapForget DEF flushPort
<1>2. ASSUME NEW a \in Adm, RemoveDown(a) \/ UpdateFlush(a) PROVE \E S \in SUBSET FdbKeys : Abstract!Forget(S)
  BY <1>1, <1>2 DEF RemoveDown, UpdateFlush, SameTables, entryVars
<1>3. ASSUME NEW id \in PortIDs, NotifyDown(id) PROVE \E S \in SUBSET FdbKeys : Abstract!Forget(S)
  BY <1>1, <1>3 DEF NotifyDown, SameTables, entryVars
<1>4. ASSUME NEW a \in Adm, NEW id \in PortIDs, NEW new \in AttrChoices, UpdatePortAttrs(a, id, new)
      PROVE  Abstract!Quiet
  BY <1>4, MapQuiet DEF UpdatePortAttrs, SameTables
<1> QED BY <1>2, <1>3, <1>4, MapRegister, MapUnregister, MapRetire DEF Registry, Abstract!Change

\* Deliveries up to the forwarding decision, and the spanning tree.
LEMMA MapPipeline ==
  ASSUME IInv, Pipeline \/ SpanningTree
  PROVE  Abstract!Change
<1>1. ASSUME NEW id, flushPort(id), SameTables PROVE \E S \in SUBSET FdbKeys : Abstract!Forget(S)
  BY <1>1, MapForget DEF flushPort
<1>2. ASSUME Pipeline, \A t \in Rx : ~Learn(t)
      PROVE  Abstract!Quiet \/ \E S \in SUBSET FdbKeys : Abstract!Forget(S)
  <2>1. SameTables
    BY <1>2 DEF Pipeline, Resolve, blockPort, BlockFlush, Drop, Shut, Accept, SameTables, entryVars
  <2>2. UNCHANGED fdb \/ \E id \in {eid[rx[t].e] : t \in Rx} : flushPort(id)
    BY <1>2 DEF Pipeline, Resolve, blockPort, BlockFlush, Drop, Shut, Accept
  <2> QED BY <1>1, <2>1, <2>2, MapQuiet
<1>3. ASSUME SpanningTree PROVE Abstract!Quiet \/ \E S \in SUBSET FdbKeys : Abstract!Forget(S)
  <2>1. SameTables
    BY <1>3 DEF SpanningTree, StpEnrol, StpWithdraw, StpBlock, StpClimb, StpUnchanged, SameTables
  <2>2. UNCHANGED fdb \/ \E id \in {eid[e] : e \in Entries} : flushPort(id)
    BY <1>3 DEF SpanningTree, StpEnrol, StpWithdraw, StpBlock, StpClimb
  <2> QED BY <1>1, <2>1, <2>2, MapQuiet
<1>4. CASE \E t \in Rx : Learn(t)
  BY <1>4, MapLearn DEF Abstract!Change
<1> QED BY <1>2, <1>3, <1>4 DEF Abstract!Change

\* A transmission whose copies go to allowed ports is an abstract one.
LEMMA MapSend ==
  ASSUME NEW t \in Rx, FinishForward(t), NEW o, o = rx[t].e, NEW d, d = DstKey(t),
         NEW T \in SUBSET Entries, out' = {Copy(t, p) : p \in T},
         \A p \in T : ~gone[p] /\ eid[p] # eid[o]
  PROVE  Abstract!Send(o, d, T)
<1>1. UNCHANGED <<ports, portNumSeq, eid, gone, fdb>>
  BY DEF FinishForward, entryVars
<1>2. Sent' = {[from |-> c.src, to |-> c.dst, dest |-> [vlan |-> c.key, mac |-> c.mac]] : c \in out'}
  BY DEF Sent
<1>3. ASSUME NEW p \in T
      PROVE  /\ Copy(t, p).src = o /\ Copy(t, p).dst = p
             /\ [vlan |-> Copy(t, p).key, mac |-> Copy(t, p).mac] = d
  BY DEF Copy, DstKey
<1>4. Sent' = {[from |-> o, to |-> p, dest |-> d] : p \in T}
  BY SMTT(30), <1>2, <1>3
<1>5. \A p \in T : p \notin {e \in Entries : gone[e]}
  OBVIOUS
<1> QED BY <1>1, <1>4, <1>5 DEF Abstract!Send, Abstract!tables, Sent

\* The goroutine that forwards has an issued port and a destination.
LEMMA Forwarder ==
  ASSUME IInv, NEW t \in Rx, rx[t].pc = "forward"
  PROVE  /\ rx[t].e \in 1 .. portNumSeq
         /\ DstKey(t) \in [vlan: Keys, mac: DstMACs]
<1>1. rx[t].e \in Entries /\ rx[t].e <= portNumSeq
  BY DEF IInv, InCall, Allocated
<1>2. rx[t].key \in Keys /\ rx[t].f \in Frames
  BY DEF IInv, TypeOK, InCall, RLocked
<1>3. rx[t].f.dst \in DstMACs
  BY <1>2, FrameAssumption
<1> QED BY <1>1, <1>2, <1>3, Issued DEF DstKey

LEMMA MapUnicast ==
  ASSUME IInv, NEW t \in Rx, Unicast(t)
  PROVE  Abstract!Transmit
<1>0. rx[t].pc = "forward" /\ Known(t) /\ FinishForward(t)
  BY DEF Unicast
<1>1. PICK o \in 1 .. portNumSeq, d \in [vlan: Keys, mac: DstMACs] : o = rx[t].e /\ d = DstKey(t)
  BY <1>0, Forwarder
<1>2. d \in FdbKeys /\ fdb[d] # Absent
  BY <1>0, <1>1 DEF Known, DstKey, FdbKeys
<1>3. Where[d] = Loc(fdb[d]) /\ Where[d] # Abstract!Nowhere
  <2>1. fdb[d].portID \in PortIDs
    BY <1>2 DEF IInv, FdbNamesPort
  <2> QED BY <1>2, <2>1, PortAssumption DEF Where, Loc, Abstract!Nowhere
<1>4. Abstract!Target(d) = Target(d)
  BY <1>2 DEF Abstract!Target, Target
<1>5. Target(d) \in Entries \cup {Nil}
  <2>1. fdb[d].portID \in PortIDs /\ fdb[d].port \in Entries \cup {Nil}
    BY <1>2 DEF IInv, FdbNamesPort, TypeOK
  <2> QED BY <2>1 DEF Target, IInv, TypeOK
<1>6. PICK T \in SUBSET ({Target(d)} \ {Nil}) :
        /\ out' = {Copy(t, p) : p \in T}
        /\ \A p \in T : ~gone[p] /\ eid[p] # eid[o]
  <2>1. CASE out' = {}
    <3>1. WITNESS {} \in SUBSET ({Target(d)} \ {Nil})
    <3> QED BY <2>1
  <2>2. CASE out' # {}
    <3>1. /\ out' = {Copy(t, Target(d))} /\ Target(d) # Nil /\ ~gone[Target(d)]
          /\ Eligible(rx[t].e, Target(d), rx[t].key)
      BY <1>1, <2>2 DEF Unicast
    <3>2. eid[Target(d)] # eid[o]
      BY <1>1, <3>1 DEF Eligible
    <3>3. {Target(d)} \in SUBSET ({Target(d)} \ {Nil})
      BY <3>1
    <3>4. /\ out' = {Copy(t, p) : p \in {Target(d)}}
          /\ \A p \in {Target(d)} : ~gone[p] /\ eid[p] # eid[o]
      BY <3>1, <3>2
    <3> QED BY <3>3, <3>4, Zenon
  <2> QED BY <2>1, <2>2
<1>7. T \in SUBSET Entries
  BY <1>5
<1>8. Abstract!Send(o, d, T)
  BY <1>0, <1>1, <1>6, <1>7, MapSend
<1>9. Abstract!Unicast(o, d)
  BY <1>2, <1>3, <1>4, <1>8 DEF Abstract!Unicast, Where, Loc
<1> QED BY <1>9 DEF Abstract!Transmit

LEMMA MapFlood ==
  ASSUME IInv, NEW t \in Rx, Flood(t) \/ StormDrop(t)
  PROVE  Abstract!Transmit
<1>0. rx[t].pc = "forward" /\ ~Known(t) /\ FinishForward(t)
  BY DEF Flood, StormDrop
<1>1. PICK o \in 1 .. portNumSeq, d \in [vlan: Keys, mac: DstMACs] : o = rx[t].e /\ d = DstKey(t)
  BY <1>0, Forwarder
<1>2. d \in FdbKeys => ~Where[d].static
  <2> SUFFICES ASSUME d \in FdbKeys PROVE ~fdb[d].static
    BY DEF Where, Loc
  <2>1. rx[t].f.dst \in MACs
    BY <1>1 DEF FdbKeys, DstKey
  <2>2. fdb[d] = Absent \/ Expired(d)
    BY <1>0, <1>1, <2>1 DEF Known
  <2> QED BY <2>2 DEF Absent, Expired
<1> DEFINE R == {ports[p] : p \in PortIDs} \ {Nil}
<1>3. R \subseteq Entries /\ \A p \in R : ~gone[p]
  <2> SUFFICES ASSUME NEW i \in PortIDs, ports[i] # Nil
               PROVE  ports[i] \in Entries /\ ~gone[ports[i]]
    OBVIOUS
  <2>1. ports[i] \in Entries
    BY DEF IInv, TypeOK
  <2> QED BY <2>1 DEF IInv, RegistryConsistent
<1>4. PICK T \in SUBSET R : /\ out' = {Copy(t, p) : p \in T}
                            /\ \A p \in T : eid[p] # eid[o]
  <2>1. CASE StormDrop(t)
    <3>1. WITNESS {} \in SUBSET R
    <3> QED BY <2>1 DEF StormDrop
  <2>2. CASE Flood(t)
    <3> DEFINE G == {p \in R : Eligible(rx[t].e, p, rx[t].key)}
    <3>1. out' = {Copy(t, p) : p \in G}
      BY <2>2 DEF Flood
    <3>2. \A p \in G : eid[p] # eid[o]
      BY <1>1 DEF Eligible
    <3>3. WITNESS G \in SUBSET R
    <3> QED BY <3>1, <3>2
  <2> QED BY <2>1, <2>2
<1>5. Abstract!Send(o, d, T)
  BY <1>0, <1>1, <1>3, <1>4, MapSend
<1>6. Abstract!Flood(o, d)
  BY <1>2, <1>5 DEF Abstract!Flood, Abstract!Registered, Where, Loc
<1> QED BY <1>6 DEF Abstract!Transmit

\* Every step of the Switch is a step of the abstract switch, or a stutter.
LEMMA MapNext == IInv /\ [Next]_vars => [Abstract!Next]_(Abstract!vars)
<1> SUFFICES ASSUME IInv, [Next]_vars PROVE [Abstract!Next]_(Abstract!vars)
  OBVIOUS
<1>1. CASE (Registry \/ Pipeline \/ SpanningTree \/ FdbAdmin) /\ out' = {}
  <2>1. Abstract!Change
    BY <1>1, MapRegistry, MapPipeline, MapFdbAdmin
  <2>2. Sent' = {}
    BY <1>1 DEF Sent
  <2> QED BY <2>1, <2>2 DEF Abstract!Next, Sent
<1>2. CASE Transmit
  <2>1. Abstract!Transmit
    BY <1>2, MapUnicast, MapFlood DEF Transmit
  <2> QED BY <2>1 DEF Abstract!Next
<1>3. CASE UNCHANGED vars
  BY <1>3 DEF vars, entryVars, Abstract!vars, Abstract!tables
<1> QED BY <1>1, <1>2, <1>3 DEF Next

\* switch.go, fdb.go: the Switch, with its goroutines, locks and cached
\* pointers, implements the atomic learning switch.
THEOREM Refinement == Spec => IsLearningSwitch
BY MapInit, MapNext, Invariance, PTL DEF Spec, IsLearningSwitch, Abstract!Spec
=============================================================================

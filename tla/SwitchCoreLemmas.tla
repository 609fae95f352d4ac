-------------------------- MODULE SwitchCoreLemmas --------------------------
(***************************************************************************)
(* The first half of the proof about SwitchCore, for every number of       *)
(* ports, goroutines, entries, addresses and VLANs: the VLAN rules, what a *)
(* step does to the FDB, and the parts of the invariant that are about     *)
(* types, the registry and allocated entries.                              *)
(***************************************************************************)
EXTENDS SwitchCore, SequenceTheorems, TLAPS

(* The key of a rejected frame is not that of a domain; 0 is that of one. *)
LEMMA VIDFacts == 0 \in VIDs /\ \A k \in VIDs : k # NoKey
<1>1. \A m \in Nat : 0 \in 0 .. m /\ \A k \in 0 .. m : k # -1
  OBVIOUS
<1>2. VIDMask \in Nat
  BY DEF VIDMask
<1>3. QED
  BY <1>1, <1>2 DEF VIDs, NoKey

(* ingressKey puts a frame into one of the domains its port can learn in. *)
LEMMA KeyLearnable ==
  ASSUME NEW v \in PortVLANs, NEW f \in Seq(VIDs), ingressKey(v, f) # NoKey
  PROVE  ingressKey(v, f) \in LearnableKeys(v)
<1>1. CASE f = <<>>
  BY <1>1, VIDFacts DEF ingressKey, LearnableKeys, tagged, untaggedKey
<1>2. CASE f # <<>>
  <2>1. v = VLANTrunk /\ ingressKey(v, f) = Head(f)
    BY <1>2 DEF ingressKey, tagged, vid
  <2>2. Head(f) \in VIDs
    BY <1>2, HeadTailProperties
  <2>3. QED
    BY <2>1, <2>2 DEF LearnableKeys
<1>3. QED
  BY <1>1, <1>2

(* RoundTrip below for an untagged frame. *)
LEMMA RoundTripUntagged ==
  ASSUME NEW v \in PortVLANs, NEW w \in PortVLANs, Member(v, ingressKey(w, <<>>))
  PROVE  ingressKey(v, egressFrame(v, ingressKey(w, <<>>), <<>>)) = ingressKey(w, <<>>)
<1> DEFINE key == ingressKey(w, <<>>)
<1> USE DEF VLANTrunk, VLANUntaggedOnly, untaggedKey, tagged
<1>1. untaggedForm(<<>>) = <<>> /\ taggedForm(key, <<>>) = <<key>>
  BY DEF untaggedForm, taggedForm
<1>2. ASSUME NEW u \in PortVLANs PROVE ingressKey(u, <<>>) = IF u = 4095 THEN 0 ELSE u
  BY <1>2 DEF ingressKey
<1>3. Head(<<key>>) = key /\ <<key>> # <<>>
  OBVIOUS
<1>4. ingressKey(4095, <<key>>) = key
  BY <1>3 DEF ingressKey, vid
<1> HIDE DEF key, tagged
<1>5. v = 4095 \/ v = key
  BY <1>2 DEF Member, key
<1>6. QED
  BY <1>1, <1>2, <1>4, <1>5 DEF egressFrame, key

(* RoundTrip below for a frame with one tag. *)
LEMMA RoundTripTagged ==
  ASSUME NEW v \in PortVLANs, NEW w \in PortVLANs, NEW f, f # <<>>, Tail(f) = <<>>,
         ingressKey(w, f) # NoKey, Member(v, ingressKey(w, f))
  PROVE  ingressKey(v, egressFrame(v, ingressKey(w, f), f)) = ingressKey(w, f)
<1> DEFINE key == ingressKey(w, f)
<1> USE DEF VLANTrunk, VLANUntaggedOnly, untaggedKey, tagged
<1>1. w = 4095 /\ ingressKey(4095, f) = key
  BY DEF ingressKey
<1>2. untaggedForm(f) = <<>> /\ taggedForm(key, f) = f
  BY DEF untaggedForm, taggedForm
<1>3. ingressKey(v, <<>>) = IF v = 4095 THEN 0 ELSE v
  BY DEF ingressKey
<1> HIDE DEF key, tagged
<1>4. v = 4095 \/ v = key
  BY DEF Member, key
<1>5. QED
  BY <1>1, <1>2, <1>3, <1>4 DEF egressFrame, key

(* The VLAN rules are mutually consistent: a frame that came in on a port  *)
(* with VLAN w and may leave through one with VLAN v leaves in the form    *)
(* that ingressKey, on a port with VLAN v, puts back into the same domain. *)
THEOREM RoundTrip ==
  ASSUME NEW v \in PortVLANs, NEW w \in PortVLANs, NEW f \in Seq(VIDs), Len(f) <= 1,
         ingressKey(w, f) # NoKey, Member(v, ingressKey(w, f))
  PROVE  ingressKey(v, egressFrame(v, ingressKey(w, f), f)) = ingressKey(w, f)
<1>1. CASE f = <<>>
  BY <1>1, RoundTripUntagged
<1>2. CASE f # <<>>
  <2>1. Tail(f) = <<>>
    BY <1>2
  <2>2. QED
    BY <1>2, <2>1, RoundTripTagged
<1>3. QED
  BY <1>1, <1>2

-----------------------------------------------------------------------------
(* How steps change the FDB. *)

FdbVals == [portID: PortIDs \cup {NoPort}, port: {Nil} \cup Entries, age: 0 .. AgeCap, static: BOOLEAN]

\* The value that thread t's learning stores.
Learned(t) == [portID |-> eid[rx[t].e], port |-> rx[t].e, age |-> 0, static |-> FALSE]
LearnKey(t) == [vlan |-> rx[t].key, mac |-> rx[t].f.src]

\* An entry v turns into w by deletion, by aging, or into a static one.
Fades(v, w) ==
  \/ w = v
  \/ w = Absent
  \/ w \in FdbVals /\ w.port = Nil /\ w.static /\ w.portID \in PortIDs
  \/ v # Absent /\ w \in FdbVals /\ w.port = v.port /\ w.portID = v.portID /\ w.static = v.static

(* Purge only deletes, and deletes every dynamic entry it is given. *)
LEMMA PurgeFacts ==
  ASSUME TypeOK, NEW D, Purge(D)
  PROVE  /\ fdb' \in [FdbKeys -> FdbVals]
         /\ \A k \in FdbKeys : Fades(fdb[k], fdb'[k])
         /\ \A k \in FdbKeys : k \in D /\ Dynamic(k) => fdb'[k] = Absent
<1>1. Absent \in FdbVals
  BY BoundsAssumption DEF Absent, FdbVals
<1>2. fdb \in [FdbKeys -> FdbVals]
  BY DEF TypeOK, FdbVals
<1>3. QED
  BY <1>1, <1>2 DEF Purge, Fades, Dynamic

(* A flush of a port's ID deletes every entry that points to the port. *)
LEMMA FlushFacts ==
  ASSUME IInv, NEW e \in Entries, flushPort(eid[e])
  PROVE  /\ fdb' \in [FdbKeys -> FdbVals]
         /\ \A k \in FdbKeys : Fades(fdb[k], fdb'[k])
         /\ \A k \in FdbKeys : fdb'[k].port # e
<1> DEFINE D == {k \in FdbKeys : fdb[k].portID = eid[e]}
<1>1. TypeOK /\ Purge(D)
  BY DEF IInv, flushPort
<1>2. fdb' \in [FdbKeys -> FdbVals] /\ \A k \in FdbKeys : Fades(fdb[k], fdb'[k])
  BY <1>1, PurgeFacts
<1>3. ASSUME NEW k \in FdbKeys PROVE fdb'[k].port # e
  <2>1. CASE fdb[k].port = e
    <3>1. fdb[k].portID = eid[e] /\ ~fdb[k].static /\ fdb[k] # Absent
      BY <2>1 DEF IInv, FdbNamesPort, Absent, Nil, Entries
    <3>2. fdb'[k] = Absent
      BY <1>1, <3>1, PurgeFacts DEF Dynamic
    <3>3. QED
      BY <3>2 DEF Absent, Nil, Entries
  <2>2. CASE fdb[k].port # e
    BY <1>2, <2>2 DEF Fades, Absent, Nil, Entries
  <2>3. QED
    BY <2>1, <2>2
<1>4. QED
  BY <1>2, <1>3

(* The steps by which entries fade; only Learn makes dynamic entries. *)
LEMMA FdbFades ==
  ASSUME IInv, Next, \A t \in Rx : ~Learn(t)
  PROVE  fdb' \in [FdbKeys -> FdbVals] /\ \A k \in FdbKeys : Fades(fdb[k], fdb'[k])
<1> DEFINE Goal == fdb' \in [FdbKeys -> FdbVals] /\ \A k \in FdbKeys : Fades(fdb[k], fdb'[k])
<1>0. TypeOK /\ InCall /\ fdb \in [FdbKeys -> FdbVals] /\ Absent \in FdbVals
  <2>1. Absent \in FdbVals
    BY BoundsAssumption DEF FdbVals, Absent
  <2>2. QED
    BY <2>1 DEF IInv, TypeOK, FdbVals
<1>1. ASSUME UNCHANGED fdb PROVE Goal
  BY <1>0, <1>1 DEF TypeOK, Fades
<1>2. ASSUME NEW id, flushPort(id) PROVE Goal
  BY <1>0, <1>2, PurgeFacts DEF flushPort
<1>3. ASSUME Registry PROVE Goal
  BY <1>1, <1>2, <1>3 DEF Registry, AddPort, RemovePort, RemoveGone, RemoveDown, UpdateFlush,
                          UpdatePortAttrs, NotifyDown, Close
<1>4. ASSUME Pipeline PROVE Goal
  BY <1>1, <1>2, <1>4 DEF Pipeline, Resolve, blockPort, BlockFlush, Drop, Shut, Accept
<1>5. ASSUME SpanningTree PROVE Goal
  BY <1>1, <1>2, <1>5 DEF SpanningTree, StpEnrol, StpWithdraw, StpBlock, StpClimb
<1>6. ASSUME Transmit PROVE Goal
  BY <1>1, <1>6 DEF Transmit, Unicast, StormDrop, Flood, FinishForward
<1>7. ASSUME NEW k \in FdbKeys, NEW id \in PortIDs, AddStaticFDB(k, id) PROVE Goal
  <2> DEFINE w == [portID |-> id, port |-> Nil, age |-> 0, static |-> TRUE]
  <2>1. w \in FdbVals
    BY BoundsAssumption DEF FdbVals
  <2>2. fdb' = [fdb EXCEPT ![k] = w]
    BY <1>7 DEF AddStaticFDB
  <2> HIDE DEF w
  <2>3. w.port = Nil /\ w.static /\ w.portID = id
    BY DEF w
  <2>4. QED
    BY <1>0, <2>1, <2>2, <2>3 DEF TypeOK, Fades
<1>8. ASSUME NEW k \in FdbKeys, RemoveStaticFDB(k) \/ DeleteFDBEntry(k) PROVE Goal
  BY <1>0, <1>8 DEF RemoveStaticFDB, DeleteFDBEntry, TypeOK, Fades
<1>9. ASSUME Tick PROVE Goal
  <2>1. ASSUME NEW k \in FdbKeys PROVE fdb'[k] \in FdbVals /\ Fades(fdb[k], fdb'[k])
    <3>1. fdb[k] \in FdbVals
      BY <1>0
    <3>2. CASE Dynamic(k) /\ fdb[k].age < AgeCap
      <4>1. fdb'[k] = [fdb[k] EXCEPT !.age = @ + 1]
        BY <1>9, <3>2 DEF Tick
      <4>2. [fdb[k] EXCEPT !.age = @ + 1] \in FdbVals
        BY <3>1, <3>2, BoundsAssumption DEF FdbVals
      <4>3. QED
        BY <3>1, <3>2, <4>1, <4>2 DEF Fades, Dynamic, FdbVals
    <3>3. CASE ~(Dynamic(k) /\ fdb[k].age < AgeCap)
      BY <1>9, <3>1, <3>3 DEF Tick, Fades
    <3>4. QED
      BY <3>2, <3>3
  <2>2. QED
    BY <1>9, <2>1 DEF Tick
<1>10. ASSUME FdbAdmin PROVE Goal
  BY <1>0, <1>1, <1>7, <1>8, <1>9, <1>10, PurgeFacts DEF FdbAdmin, FlushFDB, SetFDBMaxAge, expire
<1>11. QED
  BY <1>3, <1>4, <1>5, <1>6, <1>10 DEF Next

(* What Learn stores. *)
LEMMA LearnFacts ==
  ASSUME IInv, NEW t \in Rx, Learn(t)
  PROVE  /\ LearnKey(t) \in FdbKeys
         /\ rx[t].e \in Entries
         /\ Learned(t) \in FdbVals
         /\ fdb' \in [FdbKeys -> FdbVals]
         /\ \A k \in FdbKeys : fdb'[k] = fdb[k] \/ (k = LearnKey(t) /\ fdb'[k] = Learned(t))
<1>1. LearnKey(t) \in FdbKeys
  BY DEF IInv, TypeOK, InCall, Learn, RLocked, LearnKey, FdbKeys
<1>2. rx[t].e \in Entries
  BY DEF IInv, InCall, Learn
<1>3. Learned(t) \in FdbVals
  <2>1. eid[rx[t].e] \in PortIDs \cup {NoPort}
    BY <1>2 DEF IInv, TypeOK
  <2>2. 0 \in 0 .. AgeCap
    BY BoundsAssumption
  <2>3. QED
    BY <1>2, <2>1, <2>2 DEF Learned, FdbVals
<1>4. fdb' = fdb \/ fdb' = [fdb EXCEPT ![LearnKey(t)] = Learned(t)]
  BY DEF Learn, learn, Learned, LearnKey
<1>5. fdb \in [FdbKeys -> FdbVals]
  BY DEF IInv, TypeOK, FdbVals
<1>6. QED
  BY <1>1, <1>2, <1>3, <1>4, <1>5

-----------------------------------------------------------------------------
(* The parts of the invariant, one by one. *)

(* New satisfies the inductive invariant. *)
LEMMA InitIInv == Init => IInv
<1> SUFFICES ASSUME Init PROVE IInv
  OBVIOUS
<1>1. TypeOK
  <2>1. ZeroAttrs \in PortAttrs /\ ZeroAttrs.vlan \in UsedVLANs
    BY DEF ZeroAttrs, PortAttrs, PortVLANs, VLANUntaggedOnly, VLANTrunk, UsedVLANs
  <2>2. Absent \in FdbVals
    BY BoundsAssumption DEF Absent, FdbVals
  <2>3. Idle \in RxType
    BY DEF Idle, RxType
  <2>6. Idle.pc \notin RLocked
    BY DEF Idle, RLocked
  <2>7. AdmIdle \in AdmType
    BY DEF AdmIdle, AdmType
  <2>4. portNumSeq \in 0 .. MaxEntry
    <3>1. portNumSeq = 0
      BY Zenon DEF Init
    <3>2. QED
      BY <3>1, BoundsAssumption
  <2>5. QED
    BY <2>1, <2>2, <2>3, <2>4, <2>6, <2>7 DEF Init, TypeOK, FdbVals
<1>2. RegistryConsistent /\ ReasonMeansDisabled
  BY DEF Init, RegistryConsistent, ReasonMeansDisabled
<1>3. BlockedIsFlushed /\ LearnedInDomain /\ FdbNamesPort
  BY DEF Init, BlockedIsFlushed, LearnedInDomain, FdbNamesPort, Absent
<1>4. Allocated
  <2>1. Absent.port = 0 /\ Idle.e = 0 /\ AdmIdle.e = 0
    BY DEF Absent, Idle, AdmIdle, Nil
  <2>2. /\ ports = [p \in PortIDs |-> Nil] /\ portNumSeq = 0
        /\ fdb = [k \in FdbKeys |-> Absent] /\ ref = [t \in Rx |-> Nil]
        /\ rx = [t \in Rx |-> Idle] /\ adm = [a \in Adm |-> AdmIdle]
    BY Zenon DEF Init
  <2>3. \A e \in Entries : eid[e] = NoPort /\ blockReason[e] = "" /\ ~gone[e]
    BY Zenon DEF Init
  <2>4. \A e \in Entries : ~(e <= portNumSeq)
    BY <2>2, BoundsAssumption DEF Entries
  <2>5. \A p \in PortIDs : ports[p] <= portNumSeq
    BY <2>2 DEF Nil
  <2>6. \A t \in Rx : ref[t] <= portNumSeq /\ rx[t].e <= portNumSeq
    BY <2>1, <2>2 DEF Nil
  <2>7. (\A a \in Adm : adm[a].e <= portNumSeq) /\ (\A k \in FdbKeys : fdb[k].port <= portNumSeq)
    BY <2>1, <2>2
  <2>8. QED
    BY <2>3, <2>4, <2>5, <2>6, <2>7 DEF Allocated
<1>5. InCall
  BY DEF Init, InCall, Idle, AdmIdle, RLocked
<1>6. DomainPreserved
  BY DEF Init, DomainPreserved
<1>7. QED
  BY <1>1, <1>2, <1>3, <1>4, <1>5, <1>6 DEF IInv

\* TypeOK but for the FDB.
TypeRest ==
  /\ ports \in [PortIDs -> {Nil} \cup Entries]
  /\ portNumSeq \in 0 .. MaxEntry
  /\ eid \in [Entries -> PortIDs \cup {NoPort}]
  /\ attrs \in [Entries -> PortAttrs]
  /\ \A e \in Entries : attrs[e].vlan \in UsedVLANs
  /\ blockReason \in [Entries -> {"", "loop", "bpdu_guard"}]
  /\ gone \in [Entries -> BOOLEAN]
  /\ stpState \in [Entries -> {"off", "forwarding", "blocking", "listening", "learning"}]
  /\ maxAge \in MaxAges
  /\ ref \in [Rx -> {Nil} \cup Entries]
  /\ rx \in [Rx -> RxType]
  /\ \A t \in Rx : rx[t].pc \in RLocked => rx[t].key \in Keys
  /\ adm \in [Adm -> AdmType]
  /\ stopped \in BOOLEAN

(* Every step keeps the types. *)
LEMMA TypeStep ==
  ASSUME IInv, Next
  PROVE  TypeOK'
<1>1. fdb' \in [FdbKeys -> FdbVals]
  BY FdbFades, LearnFacts
<1>2. TypeRest /\ InCall
  BY DEF IInv, TypeOK, TypeRest
<1>0. AdmIdle \in AdmType /\ Idle \in RxType /\ Idle.pc \notin RLocked
  BY DEF AdmIdle, AdmType, Idle, RxType, RLocked
<1>3. ASSUME UNCHANGED <<ports, portNumSeq, entryVars, maxAge, ref, rx, adm, stopped>> PROVE TypeRest'
  BY <1>2, <1>3 DEF TypeRest, entryVars
<1>4. ASSUME Registry PROVE TypeRest'
  <2>1. ASSUME NEW id \in PortIDs, NEW a \in AttrChoices, AddPort(id, a) PROVE TypeRest'
    <3>1. portNumSeq + 1 \in Entries /\ portNumSeq' \in 0 .. MaxEntry
      <4>1. portNumSeq \in 0 .. MaxEntry
        BY <1>2 DEF TypeRest
      <4>2. portNumSeq < MaxEntry /\ portNumSeq' = portNumSeq + 1
        BY <2>1 DEF AddPort
      <4>3. QED
        BY <4>1, <4>2, BoundsAssumption DEF Entries
    <3>2. a \in PortAttrs /\ a.vlan \in UsedVLANs
      BY PortAssumption DEF UsedVLANs
    <3>3. QED
      BY <1>2, <2>1, <3>1, <3>2 DEF TypeRest, AddPort
  <2>2. ASSUME NEW a \in Adm, NEW id \in PortIDs, RemovePort(a, id) PROVE TypeRest'
    BY <1>2, <2>2 DEF TypeRest, RemovePort, AdmType, entryVars
  <2>3. ASSUME NEW a \in Adm, RemoveGone(a) PROVE TypeRest'
    BY <1>2, <2>3 DEF TypeRest, RemoveGone, AdmType, entryVars
  <2>4. ASSUME NEW a \in Adm, RemoveDown(a) \/ UpdateFlush(a) PROVE TypeRest'
    BY <1>0, <1>2, <2>4 DEF TypeRest, RemoveDown, UpdateFlush, entryVars
  <2>5. ASSUME NEW a \in Adm, NEW id \in PortIDs, NEW new \in AttrChoices, UpdatePortAttrs(a, id, new)
        PROVE TypeRest'
    <3>1. new \in PortAttrs /\ new.vlan \in UsedVLANs
      BY PortAssumption DEF UsedVLANs
    <3>2. ports[id] \in Entries
      BY <1>2, <2>5 DEF TypeRest, UpdatePortAttrs
    <3>3. reasonAfter(ports[id], new) \in {"", "loop", "bpdu_guard"}
      BY <1>2, <3>2 DEF TypeRest, reasonAfter
    <3>4. adm' \in [Adm -> AdmType]
      BY <1>2, <2>5, <3>2 DEF TypeRest, UpdatePortAttrs, AdmType, AdmIdle
    <3>5. QED
      BY <1>2, <2>5, <3>1, <3>2, <3>3, <3>4 DEF TypeRest, UpdatePortAttrs
  <2>6. ASSUME \E id \in PortIDs : NotifyDown(id) PROVE TypeRest'
    BY <1>3, <2>6 DEF NotifyDown
  <2>7. ASSUME Close PROVE TypeRest'
    BY <1>2, <2>7 DEF TypeRest, Close, entryVars
  <2>8. QED
    BY <1>4, <2>1, <2>2, <2>3, <2>4, <2>5, <2>6, <2>7 DEF Registry
<1>5. ASSUME Pipeline PROVE TypeRest'
  <2>1. ASSUME NEW t \in Rx, Resolve(t) PROVE TypeRest'
    BY <1>2, <2>1, PortAssumption DEF TypeRest, Resolve, RxType, Idle, RLocked, entryVars
  <2>2. ASSUME NEW t \in Rx, Learn(t) PROVE TypeRest'
    <3>1. [rx[t] EXCEPT !.pc = "forward"] \in RxType /\ [rx[t] EXCEPT !.pc = "forward"].key \in Keys
      BY <1>2, <2>2 DEF TypeRest, Learn, RxType, RLocked
    <3>2. QED
      BY <1>0, <1>2, <2>2, <3>1 DEF TypeRest, Learn, entryVars
  <2>3. ASSUME NEW t \in Rx, blockPort(t) PROVE TypeRest'
    <3>1. rx[t].e \in Entries
      BY <1>2, <2>3 DEF InCall, blockPort
    <3>2. attrs' \in [Entries -> PortAttrs] /\ \A e \in Entries : attrs'[e].vlan \in UsedVLANs
      <4>0. attrs[rx[t].e] \in PortAttrs
        BY <1>2, <3>1 DEF TypeRest
      <4>1. [attrs[rx[t].e] EXCEPT !.disabled = TRUE] \in PortAttrs
        BY <4>0, Zenon DEF PortAttrs
      <4>2. [attrs[rx[t].e] EXCEPT !.disabled = TRUE].vlan = attrs[rx[t].e].vlan
        BY <4>0 DEF PortAttrs
      <4>3. attrs' = [attrs EXCEPT ![rx[t].e] = [attrs[rx[t].e] EXCEPT !.disabled = TRUE]]
        BY <1>2, <2>3, <3>1 DEF TypeRest, blockPort
      <4>4. QED
        BY <1>2, <3>1, <4>1, <4>2, <4>3 DEF TypeRest
    <3>3. rx[t] \in RxType
      BY <1>2 DEF TypeRest
    <3>4. blockReason' \in [Entries -> {"", "loop", "bpdu_guard"}]
      BY <1>2, <2>3, <3>1, <3>3 DEF TypeRest, blockPort, RxType
    <3>5. QED
      <4>1. [rx[t] EXCEPT !.pc = "flush"] \in RxType /\ [rx[t] EXCEPT !.pc = "flush"].pc \notin RLocked
        BY <3>3 DEF RxType, RLocked
      <4>2. rx' = [rx EXCEPT ![t] = [rx[t] EXCEPT !.pc = "flush"]]
        BY <2>3 DEF blockPort
      <4>3. rx' \in [Rx -> RxType] /\ \A u \in Rx : rx'[u].pc \in RLocked => rx'[u].key \in Keys
        BY <1>2, <4>1, <4>2 DEF TypeRest
      <4>4. UNCHANGED <<ports, portNumSeq, eid, gone, stpState, maxAge, ref, adm, stopped>>
        BY <2>3 DEF blockPort
      <4>5. QED
        BY <1>2, <3>2, <3>4, <4>3, <4>4 DEF TypeRest
  <2>4. ASSUME NEW t \in Rx, BlockFlush(t) PROVE TypeRest'
    BY <1>2, <2>4 DEF TypeRest, BlockFlush, RxType, Idle, RLocked, entryVars
  <2>5. ASSUME NEW t \in Rx, NEW f \in Frames, Drop(t, f) PROVE TypeRest'
    BY <1>2, <2>5 DEF TypeRest, Drop, RxType, Idle, RLocked, entryVars
  <2>6. ASSUME NEW t \in Rx, NEW f \in Frames, Shut(t, f) PROVE TypeRest'
    <3> DEFINE r == [rx[t] EXCEPT !.pc = "block", !.reason = IF f.dst = ProbeMAC THEN "loop" ELSE "bpdu_guard"]
    <3>0. rx[t] \in RxType
      BY <1>2 DEF TypeRest
    <3>1. r \in RxType /\ r.pc \notin RLocked
      BY <3>0 DEF RxType, RLocked
    <3>2. rx' = [rx EXCEPT ![t] = r]
      BY <1>2, <2>6 DEF TypeRest, Shut
    <3> HIDE DEF r
    <3>3. QED
      BY <1>2, <2>6, <3>1, <3>2 DEF TypeRest, Shut, entryVars
  <2>7. ASSUME NEW t \in Rx, NEW f \in Frames, Accept(t, f) PROVE TypeRest'
    <3>1. rx[t].e \in Entries /\ rx[t] \in RxType
      BY <1>2, <2>7 DEF InCall, TypeRest, Accept
    <3>2. Key(rx[t].e, f) \in Keys
      BY <1>2, <2>7, <3>1, FrameAssumption DEF TypeRest, Accept, Accepts, Key
    <3>3. rx' \in [Rx -> RxType] /\ \A u \in Rx : rx'[u].pc \in RLocked => rx'[u].key \in Keys
      BY <1>2, <2>7, <3>1, <3>2 DEF TypeRest, Accept, RxType, Idle, RLocked
    <3>4. QED
      BY <1>2, <2>7, <3>3 DEF TypeRest, Accept, entryVars
  <2>8. QED
    BY <1>5, <2>1, <2>2, <2>3, <2>4, <2>5, <2>6, <2>7 DEF Pipeline
<1>6. ASSUME SpanningTree PROVE TypeRest'
  <2>1. \E e \in Entries, x \in {"off", "forwarding", "blocking", "listening", "learning"} :
          stpState' = [stpState EXCEPT ![e] = x]
    BY <1>6 DEF SpanningTree, StpEnrol, StpWithdraw, StpBlock, StpClimb
  <2>2. UNCHANGED <<ports, portNumSeq, eid, attrs, blockReason, gone, maxAge, ref, rx, adm, stopped>>
    BY <1>6 DEF SpanningTree, StpEnrol, StpWithdraw, StpBlock, StpClimb, StpUnchanged
  <2>3. QED
    BY <1>2, <2>1, <2>2 DEF TypeRest
<1>7. ASSUME FdbAdmin PROVE TypeRest'
  <2>1. ASSUME NEW m \in MaxAges, SetFDBMaxAge(m) PROVE TypeRest'
    BY <1>2, <2>1 DEF TypeRest, SetFDBMaxAge, FdbUnchanged, entryVars
  <2>2. QED
    BY <1>3, <1>7, <2>1 DEF FdbAdmin, AddStaticFDB, RemoveStaticFDB, DeleteFDBEntry, FlushFDB, expire,
                            Tick, FdbUnchanged
<1>8. ASSUME Transmit PROVE TypeRest'
  BY <1>0, <1>2, <1>8 DEF TypeRest, Transmit, Unicast, StormDrop, Flood, FinishForward, entryVars
<1>9. QED
  BY <1>1, <1>4, <1>5, <1>6, <1>7, <1>8 DEF Next, TypeOK, TypeRest, FdbVals

(* Every step keeps the registry consistent. *)
LEMMA RegistryStep ==
  ASSUME IInv, Next
  PROVE  RegistryConsistent'
<1>1. TypeRest /\ RegistryConsistent /\ Allocated /\ InCall
  BY DEF IInv, TypeOK, TypeRest
<1>2. ASSUME UNCHANGED <<ports, eid, gone, adm>> PROVE RegistryConsistent'
  BY <1>1, <1>2 DEF RegistryConsistent
<1>3. ASSUME NEW id \in PortIDs, NEW a \in AttrChoices, AddPort(id, a) PROVE RegistryConsistent'
  <2> DEFINE n == portNumSeq + 1
  <2>1. portNumSeq \in Nat /\ n \in Entries /\ n # Nil
    <3>1. portNumSeq \in 0 .. MaxEntry /\ portNumSeq < MaxEntry
      BY <1>1, <1>3 DEF TypeRest, AddPort
    <3>2. QED
      BY <3>1, BoundsAssumption DEF Entries, Nil
  <2>2. ASSUME NEW x \in {Nil} \cup Entries, x <= portNumSeq PROVE x # n
    BY <2>1, <2>2, BoundsAssumption DEF Entries, Nil
  <2>3. (\A p \in PortIDs : ports[p] # n) /\ (\A b \in Adm : adm[b].e # n)
    <3>1. \A p \in PortIDs : ports[p] # n
      BY <1>1, <2>2 DEF TypeRest, Allocated
    <3>2. \A b \in Adm : adm[b].e # n
      BY <1>1, <2>2 DEF TypeRest, Allocated, AdmType
    <3>3. QED
      BY <3>1, <3>2
  <2>4. ~gone[n]
    <3>1. ~(n <= portNumSeq)
      BY <2>1
    <3>2. QED
      BY <1>1, <2>1, <3>1 DEF Allocated
  <2>5. ports' = [ports EXCEPT ![id] = n] /\ eid' = [eid EXCEPT ![n] = id] /\ gone' = gone /\ adm' = adm
    BY <1>3 DEF AddPort
  <2> HIDE DEF n
  <2>6. QED
    BY <1>1, <2>1, <2>3, <2>4, <2>5 DEF RegistryConsistent, TypeRest
<1>4. ASSUME NEW a \in Adm, NEW id \in PortIDs, RemovePort(a, id) PROVE RegistryConsistent'
  <2>1. SUFFICES ASSUME NEW p \in PortIDs, ports'[p] # Nil
                 PROVE  /\ eid'[ports'[p]] = p /\ ~gone'[ports'[p]]
                        /\ \A b \in Adm : adm'[b].pc \in {"gone", "down"} => adm'[b].e # ports'[p]
    BY DEF RegistryConsistent
  <2>2. /\ ports' = [ports EXCEPT ![id] = Nil] /\ UNCHANGED <<eid, gone>>
        /\ adm' = [adm EXCEPT ![a] = [pc |-> "gone", e |-> ports[id]]] /\ ports[id] # Nil
    BY <1>4 DEF RemovePort, entryVars
  <2>3. p # id /\ ports'[p] = ports[p] /\ ports[p] # ports[id]
    BY <1>1, <2>1, <2>2 DEF RegistryConsistent, TypeRest
  <2>4. adm'[a].e = ports[id] /\ \A b \in Adm : b # a => adm'[b] = adm[b]
    BY <1>1, <2>2 DEF TypeRest
  <2>5. QED
    BY <1>1, <2>1, <2>2, <2>3, <2>4 DEF RegistryConsistent
<1>5. ASSUME NEW a \in Adm, RemoveGone(a) PROVE RegistryConsistent'
  <2>1. adm' = [adm EXCEPT ![a] = [pc |-> "down", e |-> adm[a].e]] /\ adm[a].pc = "gone"
    BY <1>5 DEF RemoveGone
  <2>2. \A b \in Adm : adm'[b].e = adm[b].e /\ (adm'[b].pc \in {"gone", "down"} => adm[b].pc \in {"gone", "down"})
    BY <1>1, <2>1 DEF TypeRest
  <2>3. UNCHANGED <<ports, eid>> /\ gone' = [gone EXCEPT ![adm[a].e] = TRUE]
    BY <1>5 DEF RemoveGone
  <2>4. \A p \in PortIDs : ports[p] # Nil => ~gone'[ports[p]]
    <3>1. \A p \in PortIDs : ports[p] # Nil => adm[a].e # ports[p] /\ ports[p] \in Entries /\ ~gone[ports[p]]
      BY <1>1, <2>1 DEF RegistryConsistent, TypeRest
    <3>2. gone \in [Entries -> BOOLEAN]
      BY <1>1 DEF TypeRest
    <3>3. QED
      BY <2>3, <3>1, <3>2
  <2>5. UNCHANGED <<ports, eid>>
    BY <2>3
  <2>6. \A p \in PortIDs : ports[p] # Nil =>
          eid[ports[p]] = p /\ \A b \in Adm : adm[b].pc \in {"gone", "down"} => adm[b].e # ports[p]
    BY <1>1, Zenon DEF RegistryConsistent
  <2>7. \A p \in PortIDs : ports[p] # Nil =>
          \A b \in Adm : adm'[b].pc \in {"gone", "down"} => adm'[b].e # ports[p]
    BY <2>2, <2>6
  <2>8. \A p \in PortIDs : ports[p] # Nil =>
          /\ eid[ports[p]] = p
          /\ ~gone'[ports[p]]
          /\ \A b \in Adm : adm'[b].pc \in {"gone", "down"} => adm'[b].e # ports[p]
    BY <2>4, <2>6, <2>7, Zenon
  <2>9. ports' = ports /\ eid' = eid
    BY <2>5
  <2>10. QED
    BY <2>8, <2>9 DEF RegistryConsistent
<1>6. ASSUME NEW a \in Adm, RemoveDown(a) \/ UpdateFlush(a) PROVE RegistryConsistent'
  <2>1. adm' = [adm EXCEPT ![a] = AdmIdle] /\ UNCHANGED <<ports, eid, gone>>
    BY <1>6 DEF RemoveDown, UpdateFlush, entryVars
  <2>2. adm'[a].pc = "idle" /\ \A b \in Adm : b # a => adm'[b] = adm[b]
    BY <1>1, <2>1 DEF TypeRest, AdmIdle
  <2>3. QED
    BY <1>1, <2>1, <2>2 DEF RegistryConsistent
<1>7. ASSUME NEW a \in Adm, NEW id \in PortIDs, NEW new, UpdatePortAttrs(a, id, new) PROVE RegistryConsistent'
  BY <1>1, <1>7 DEF RegistryConsistent, TypeRest, UpdatePortAttrs, AdmIdle
<1>8. ASSUME Close PROVE RegistryConsistent'
  BY <1>8 DEF RegistryConsistent, Close
<1>9. ASSUME Registry PROVE RegistryConsistent'
  BY <1>2, <1>3, <1>4, <1>5, <1>6, <1>7, <1>8, <1>9 DEF Registry, NotifyDown, entryVars
<1>10. ASSUME Pipeline \/ SpanningTree PROVE UNCHANGED <<ports, eid, gone, adm>>
  BY <1>10 DEF Pipeline, Resolve, Learn, blockPort, BlockFlush, Drop, Shut, Accept, SpanningTree, StpEnrol,
               StpWithdraw, StpBlock, StpClimb, StpUnchanged, entryVars
<1>11. ASSUME FdbAdmin \/ Transmit PROVE UNCHANGED <<ports, eid, gone, adm>>
  BY <1>11 DEF FdbAdmin, AddStaticFDB, RemoveStaticFDB, DeleteFDBEntry, FlushFDB, SetFDBMaxAge, expire, Tick,
               FdbUnchanged, Transmit, Unicast, StormDrop, Flood, FinishForward, entryVars
<1>12. QED
  BY <1>2, <1>9, <1>10, <1>11 DEF Next

(* The port an FDB entry leads to changes only by deletion or by learning. *)
LEMMA FdbPortStep ==
  ASSUME IInv, Next, NEW k \in FdbKeys
  PROVE  \/ fdb'[k].port = Nil
         \/ fdb'[k].port = fdb[k].port
         \/ \E t \in Rx : Learn(t) /\ k = LearnKey(t) /\ fdb'[k].port = rx[t].e
<1>1. CASE \E t \in Rx : Learn(t)
  <2>1. PICK t \in Rx : Learn(t)
    BY <1>1
  <2>2. fdb'[k] = fdb[k] \/ (k = LearnKey(t) /\ fdb'[k] = Learned(t))
    BY <2>1, LearnFacts
  <2>3. Learned(t).port = rx[t].e
    BY DEF Learned
  <2>4. QED
    BY <2>1, <2>2, <2>3
<1>2. CASE \A t \in Rx : ~Learn(t)
  <2>1. Fades(fdb[k], fdb'[k])
    BY <1>2, FdbFades
  <2>2. Absent.port = Nil
    BY DEF Absent
  <2>3. QED
    BY <2>1, <2>2, Zenon DEF Fades
<1>3. QED
  BY <1>1, <1>2

(* No step uses an entry that AddPort has not made. *)
LEMMA AllocStep ==
  ASSUME IInv, Next
  PROVE  Allocated'
<1>1. TypeRest /\ Allocated /\ InCall
  BY DEF IInv, TypeOK, TypeRest
<1>2. portNumSeq \in Nat /\ MaxEntry \in Nat /\ Entries = 1 .. MaxEntry /\ Nil = 0
  <2>1. portNumSeq \in 0 .. MaxEntry
    BY <1>1 DEF TypeRest
  <2>2. QED
    BY <2>1, BoundsAssumption DEF Entries, Nil
<1>t. /\ ports \in [PortIDs -> {Nil} \cup Entries] /\ ref \in [Rx -> {Nil} \cup Entries]
      /\ rx \in [Rx -> RxType] /\ adm \in [Adm -> AdmType]
  BY <1>1 DEF TypeRest
<1>a. /\ \A p \in PortIDs : ports[p] <= portNumSeq
      /\ \A t \in Rx : ref[t] <= portNumSeq /\ rx[t].e <= portNumSeq
      /\ \A a \in Adm : adm[a].e <= portNumSeq
      /\ \A k \in FdbKeys : fdb[k].port <= portNumSeq
      /\ 0 <= portNumSeq
  <2>1. 0 <= portNumSeq
    BY <1>2
  <2>2. QED
    BY <1>1, <2>1 DEF Allocated
<1>3. ASSUME NEW k \in FdbKeys PROVE fdb'[k].port <= portNumSeq
  <2>1. Nil <= portNumSeq
    BY <1>2
  <2>2. QED
    BY <1>a, <2>1, FdbPortStep
<1>4. ASSUME NEW id \in PortIDs, NEW a \in AttrChoices, AddPort(id, a) PROVE Allocated'
  <2> DEFINE n == portNumSeq + 1
  <2>1. /\ portNumSeq' = n /\ ports' = [ports EXCEPT ![id] = n] /\ eid' = [eid EXCEPT ![n] = id]
        /\ UNCHANGED <<blockReason, gone, ref, rx, adm>>
    BY <1>4 DEF AddPort
  <2>2. \A x : x \in {Nil} \cup Entries /\ x <= portNumSeq => x <= portNumSeq'
    BY <1>2, <2>1
  <2>3. n \in Entries
    <3>1. portNumSeq < MaxEntry
      BY <1>4 DEF AddPort
    <3>2. QED
      BY <1>2, <3>1
  <2>4. \A p \in PortIDs : ports'[p] <= portNumSeq'
    <3>1. \A p \in PortIDs : ports'[p] = ports[p] \/ ports'[p] = n
      BY <1>t, <2>1
    <3>2. n <= portNumSeq'
      BY <1>2, <2>1
    <3> HIDE DEF n
    <3>3. QED
      BY <1>t, <1>a, <2>2, <3>1, <3>2
  <2>5. \A t \in Rx : ref'[t] <= portNumSeq' /\ rx'[t].e <= portNumSeq'
    BY <1>1, <2>1, <2>2 DEF Allocated, TypeRest, RxType
  <2>6. \A b \in Adm : adm'[b].e <= portNumSeq'
    BY <1>1, <2>1, <2>2 DEF Allocated, TypeRest, AdmType
  <2>7. \A k \in FdbKeys : fdb'[k].port <= portNumSeq'
    <3>1. fdb' = fdb /\ fdb \in [FdbKeys -> FdbVals]
      BY <1>4 DEF AddPort, IInv, TypeOK, FdbVals
    <3>2. QED
      BY <1>1, <2>2, <3>1 DEF Allocated, FdbVals
  <2>8. \A e \in Entries : IF e <= portNumSeq' THEN eid'[e] \in PortIDs
                            ELSE eid'[e] = NoPort /\ blockReason'[e] = "" /\ ~gone'[e]
    <3>1. \A e \in Entries : e <= portNumSeq' => e = n \/ e <= portNumSeq
      BY <1>2, <2>1
    <3>2. \A e \in Entries : ~(e <= portNumSeq') => e # n /\ ~(e <= portNumSeq)
      BY <1>2, <2>1
    <3> HIDE DEF n
    <3>3. \A e \in Entries : e # n => eid'[e] = eid[e]
      BY <1>1, <2>1 DEF TypeRest
    <3>4. eid'[n] = id
      BY <1>1, <2>1, <2>3 DEF TypeRest
    <3>5. \A e \in Entries : ~(e <= portNumSeq) => eid[e] = NoPort /\ blockReason'[e] = "" /\ ~gone'[e]
      BY <1>1, <2>1, Zenon DEF Allocated
    <3>6. \A e \in Entries : e <= portNumSeq => eid[e] \in PortIDs
      BY <1>1 DEF Allocated
    <3>7. QED
      BY <3>1, <3>2, <3>3, <3>4, <3>5, <3>6
  <2>9. QED
    BY <2>4, <2>5, <2>6, <2>7, <2>8 DEF Allocated
<1>5. ASSUME NEW t \in Rx, blockPort(t) PROVE Allocated'
  <2>1. rx[t].e \in Entries /\ rx[t].e <= portNumSeq
    BY <1>1, <1>5 DEF InCall, blockPort, Allocated
  <2>2. UNCHANGED <<ports, portNumSeq, eid, gone, ref, adm>>
    BY <1>5 DEF blockPort
  <2>3. \A e \in Entries : ~(e <= portNumSeq) => blockReason'[e] = blockReason[e]
    BY <1>1, <1>5, <2>1 DEF TypeRest, blockPort
  <2>4. \A u \in Rx : rx'[u].e = rx[u].e
    BY <1>1, <1>5 DEF TypeRest, RxType, blockPort
  <2>5. QED
    BY <1>1, <1>3, <2>2, <2>3, <2>4 DEF Allocated
<1>6. ASSUME NEW a \in Adm, NEW id \in PortIDs, NEW new, UpdatePortAttrs(a, id, new) PROVE Allocated'
  <2>1. ports[id] \in Entries /\ ports[id] <= portNumSeq
    BY <1>1, <1>6 DEF UpdatePortAttrs, Allocated, TypeRest
  <2>2. UNCHANGED <<ports, portNumSeq, eid, gone, ref, rx>>
    BY <1>6 DEF UpdatePortAttrs
  <2>3. \A e \in Entries : ~(e <= portNumSeq) => blockReason'[e] = blockReason[e]
    BY <1>1, <1>6, <2>1 DEF TypeRest, UpdatePortAttrs
  <2>4. AdmIdle.e = 0
    BY DEF AdmIdle, Nil
  <2>5. \A b \in Adm : adm'[b].e <= portNumSeq
    <3>1. \A b \in Adm : adm'[b].e = 0 \/ adm'[b].e = ports[id] \/ adm'[b].e = adm[b].e
      BY <1>t, <1>6, <2>4 DEF UpdatePortAttrs
    <3>2. QED
      BY <1>a, <2>1, <3>1
  <2>6. QED
    BY <1>1, <1>3, <2>2, <2>3, <2>5 DEF Allocated
<1>7. ASSUME NEW a \in Adm, RemoveGone(a) PROVE Allocated'
  <2>1. adm[a].e \in Entries /\ adm[a].e <= portNumSeq
    BY <1>1, <1>7 DEF InCall, RemoveGone, Allocated
  <2>2. UNCHANGED <<ports, portNumSeq, eid, blockReason, ref, rx>>
    BY <1>7 DEF RemoveGone
  <2>3. \A e \in Entries : ~(e <= portNumSeq) => ~gone'[e]
    <3>1. \A e \in Entries : ~(e <= portNumSeq) => ~gone[e] /\ e # adm[a].e
      BY <1>1, <2>1 DEF Allocated
    <3>2. QED
      BY <1>1, <1>7, <3>1 DEF TypeRest, RemoveGone
  <2>4. \A b \in Adm : adm'[b].e = adm[b].e
    BY <1>1, <1>7 DEF TypeRest, RemoveGone
  <2>5. QED
    BY <1>1, <1>3, <2>2, <2>3, <2>4 DEF Allocated
<1>8. ASSUME /\ UNCHANGED <<portNumSeq, eid, blockReason, gone>>
             /\ \A p \in PortIDs : ports'[p] <= portNumSeq
             /\ \A t \in Rx : ref'[t] <= portNumSeq /\ rx'[t].e <= portNumSeq
             /\ \A a \in Adm : adm'[a].e <= portNumSeq
      PROVE  Allocated'
  BY <1>1, <1>3, <1>8 DEF Allocated
<1>9. Idle.e = 0 /\ AdmIdle.e = 0
  BY DEF Idle, AdmIdle, Nil
<1>10. ASSUME NEW a \in Adm, NEW id \in PortIDs, RemovePort(a, id) PROVE Allocated'
  <2>1. UNCHANGED <<portNumSeq, eid, blockReason, gone, ref, rx>>
    BY <1>10 DEF RemovePort, entryVars
  <2>2. \A p \in PortIDs : ports'[p] = 0 \/ ports'[p] = ports[p]
    BY <1>t, <1>10 DEF RemovePort, Nil
  <2>3. \A b \in Adm : adm'[b].e = ports[id] \/ adm'[b].e = adm[b].e
    BY <1>t, <1>10 DEF RemovePort
  <2>4. QED
    BY <1>a, <1>8, <2>1, <2>2, <2>3
<1>11. ASSUME NEW a \in Adm, RemoveDown(a) \/ UpdateFlush(a) PROVE Allocated'
  <2>1. UNCHANGED <<ports, portNumSeq, eid, blockReason, gone, ref, rx>> /\ adm' = [adm EXCEPT ![a] = AdmIdle]
    BY <1>11 DEF RemoveDown, UpdateFlush, entryVars
  <2>2. QED
    BY <1>t, <1>a, <1>8, <1>9, <2>1
<1>12. ASSUME Close PROVE Allocated'
  <2>1. UNCHANGED <<portNumSeq, eid, blockReason, gone, ref, rx, adm>> /\ ports' = [p \in PortIDs |-> 0]
    BY <1>12 DEF Close, entryVars, Nil
  <2>2. QED
    BY <1>t, <1>a, <1>8, <2>1
<1>13. ASSUME Registry PROVE Allocated'
  <2>1. ASSUME NEW id \in PortIDs, NotifyDown(id) PROVE Allocated'
    BY <1>1, <1>8, <2>1 DEF Allocated, NotifyDown, entryVars
  <2>2. QED
    BY <1>4, <1>6, <1>7, <1>10, <1>11, <1>12, <1>13, <2>1 DEF Registry
<1>14. ASSUME Pipeline PROVE Allocated'
  <2>1. ASSUME NEW t \in Rx, Resolve(t) PROVE Allocated'
    <3> DEFINE e == IF ref[t] # Nil /\ ~gone[ref[t]] THEN ref[t] ELSE ports[RefOf[t]]
    <3>1. e <= portNumSeq
      BY <1>1, PortAssumption DEF Allocated
    <3>2. [Idle EXCEPT !.pc = "deliver", !.e = e].e = e
      BY DEF Idle
    <3>3. ref' = [ref EXCEPT ![t] = e] /\ rx' = [rx EXCEPT ![t] = [Idle EXCEPT !.pc = "deliver", !.e = e]]
      BY <2>1 DEF Resolve
    <3>4. UNCHANGED <<ports, portNumSeq, eid, blockReason, gone, adm>>
      BY <2>1 DEF Resolve, entryVars
    <3> HIDE DEF e
    <3>5. ref'[t] = e /\ rx'[t].e = e /\ \A u \in Rx : u # t => ref'[u] = ref[u] /\ rx'[u] = rx[u]
      BY <1>1, <3>2, <3>3 DEF TypeRest
    <3>6. \A u \in Rx : ref'[u] <= portNumSeq /\ rx'[u].e <= portNumSeq
      BY <1>1, <3>1, <3>5, Zenon DEF Allocated
    <3>7. QED
      BY <1>1, <1>8, <3>4, <3>6 DEF Allocated
  <2>2. ASSUME NEW t \in Rx, Learn(t) \/ BlockFlush(t) \/ \E f \in Frames : Drop(t, f) \/ Shut(t, f) \/ Accept(t, f)
        PROVE  Allocated'
    <3>1. UNCHANGED <<ports, portNumSeq, eid, blockReason, gone, ref, adm>>
      BY <2>2 DEF Learn, BlockFlush, Drop, Shut, Accept, entryVars
    <3>2. rx[t] \in RxType
      BY <1>1 DEF TypeRest
    <3>3. \A u \in Rx : rx'[u].e = 0 \/ rx'[u].e = rx[u].e
      <4>1. CASE Learn(t)
        BY <1>t, <1>9, <3>2, <4>1 DEF Learn, RxType
      <4>2. CASE BlockFlush(t) \/ \E f \in Frames : Drop(t, f)
        BY <1>t, <1>9, <4>2 DEF BlockFlush, Drop
      <4>3. ASSUME NEW f \in Frames, Shut(t, f) PROVE \A u \in Rx : rx'[u].e = 0 \/ rx'[u].e = rx[u].e
        BY <1>t, <3>2, <4>3 DEF Shut, RxType
      <4>4. ASSUME NEW f \in Frames, Accept(t, f) PROVE \A u \in Rx : rx'[u].e = 0 \/ rx'[u].e = rx[u].e
        BY <1>t, <1>9, <3>2, <4>4 DEF Accept, RxType
      <4>5. QED
        BY <2>2, <4>1, <4>2, <4>3, <4>4
    <3>4. QED
      BY <1>a, <1>8, <3>1, <3>3
  <2>3. QED
    BY <1>5, <1>14, <2>1, <2>2 DEF Pipeline
<1>15. ASSUME SpanningTree \/ FdbAdmin PROVE Allocated'
  <2>1. UNCHANGED <<ports, portNumSeq, eid, blockReason, gone, ref, rx, adm>>
    BY <1>15 DEF SpanningTree, StpEnrol, StpWithdraw, StpBlock, StpClimb, StpUnchanged, FdbAdmin, AddStaticFDB,
                 RemoveStaticFDB, DeleteFDBEntry, FlushFDB, SetFDBMaxAge, expire, Tick, FdbUnchanged, entryVars
  <2>2. QED
    BY <1>1, <1>8, <2>1 DEF Allocated
<1>16. ASSUME Transmit PROVE Allocated'
  <2>1. UNCHANGED <<ports, portNumSeq, eid, blockReason, gone, ref, adm>> /\ \E t \in Rx : rx' = [rx EXCEPT ![t] = Idle]
    BY <1>16 DEF Transmit, Unicast, StormDrop, Flood, FinishForward, entryVars
  <2>2. QED
    BY <1>t, <1>a, <1>8, <1>9, <2>1
<1>17. QED
  BY <1>13, <1>14, <1>15, <1>16 DEF Next
=============================================================================

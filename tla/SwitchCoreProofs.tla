-------------------------- MODULE SwitchCoreProofs --------------------------
(***************************************************************************)
(* The second half of the proof about SwitchCore: the calls in progress,   *)
(* the FDB's contents, the copies sent, and the theorems.                  *)
(***************************************************************************)
EXTENDS SwitchCoreLemmas

\* InCall for one delivery.
RxOK(r) ==
  /\ r.pc # "idle" => r.e \in Entries
  /\ r.pc \in RLocked => r.f \in Frames /\ ~attrs[r.e].disabled /\ r.key = Key(r.e, r.f)
  /\ r.pc = "learn" => r.f.src \in MACs

(* No step disturbs a call in progress: attributes change only under the   *)
(* write lock, and a delivery that holds the read lock has admitted its    *)
(* frame by the attributes its port still has.                             *)
LEMMA InCallStep ==
  ASSUME IInv, Next
  PROVE  InCall'
<1> DEFINE AdmOK == \A a \in Adm : adm'[a].pc # "idle" => adm'[a].e \in Entries
<1>1. TypeRest /\ InCall
  BY DEF IInv, TypeOK, TypeRest
<1>2. /\ ports \in [PortIDs -> {Nil} \cup Entries] /\ ref \in [Rx -> {Nil} \cup Entries]
      /\ rx \in [Rx -> RxType] /\ adm \in [Adm -> AdmType]
  BY <1>1 DEF TypeRest
<1>3. /\ \A a \in Adm : adm[a].pc # "idle" => adm[a].e \in Entries
      /\ \A t \in Rx : RxOK(rx[t])
  BY <1>1 DEF InCall, RxOK
<1>4. AdmIdle.pc = "idle" /\ Idle.pc = "idle" /\ "idle" \notin RLocked /\ "learn" \in RLocked
  BY DEF AdmIdle, Idle, RLocked
<1>5. ASSUME AdmOK, attrs' = attrs, \A t \in Rx : rx'[t] = rx[t] \/ RxOK(rx'[t]) PROVE InCall'
  BY <1>3, <1>5 DEF InCall, RxOK, Key
<1>6. ASSUME AdmOK, Unlocked, \A t \in Rx : rx'[t] = rx[t] \/ (rx'[t].e = rx[t].e /\ rx[t].pc # "idle" /\ rx'[t].pc = "flush")
      PROVE InCall'
  <2>1. \A t \in Rx : rx'[t].pc \notin RLocked /\ (rx'[t].pc # "idle" => rx'[t].e \in Entries)
    BY <1>3, <1>6 DEF Unlocked, RxOK, RLocked
  <2>2. QED
    BY <1>4, <1>6, <2>1 DEF InCall
<1>7. ASSUME NEW id \in PortIDs, NEW a \in AttrChoices, AddPort(id, a) PROVE InCall'
  BY <1>3, <1>6, <1>7 DEF AddPort
<1>8. ASSUME NEW a \in Adm, NEW id \in PortIDs, RemovePort(a, id) PROVE InCall'
  <2>1. ports[id] \in Entries
    BY <1>2, <1>8 DEF RemovePort
  <2>2. AdmOK
    BY <1>2, <1>3, <1>8, <2>1 DEF RemovePort
  <2>3. QED
    BY <1>5, <1>8, <2>2 DEF RemovePort, entryVars
<1>9. ASSUME NEW a \in Adm, RemoveGone(a) \/ RemoveDown(a) \/ UpdateFlush(a) PROVE InCall'
  <2>1. AdmOK
    BY <1>2, <1>3, <1>4, <1>9 DEF RemoveGone, RemoveDown, UpdateFlush
  <2>2. QED
    BY <1>5, <1>9, <2>1 DEF RemoveGone, RemoveDown, UpdateFlush, entryVars
<1>10. ASSUME NEW a \in Adm, NEW id \in PortIDs, NEW new, UpdatePortAttrs(a, id, new) PROVE InCall'
  <2>1. ports[id] \in Entries
    BY <1>2, <1>10 DEF UpdatePortAttrs
  <2>2. AdmOK
    BY <1>2, <1>3, <1>4, <1>10, <2>1 DEF UpdatePortAttrs
  <2>3. QED
    BY <1>6, <1>10, <2>2 DEF UpdatePortAttrs
<1>11. ASSUME (\E id \in PortIDs : NotifyDown(id)) \/ Close PROVE InCall'
  BY <1>3, <1>5, <1>11 DEF NotifyDown, Close, entryVars
<1>12. ASSUME NEW t \in Rx, blockPort(t) PROVE InCall'
  <2>1. \A u \in Rx : rx'[u] = rx[u] \/ (rx'[u].e = rx[u].e /\ rx[u].pc # "idle" /\ rx'[u].pc = "flush")
    BY <1>2, <1>12 DEF blockPort, RxType
  <2>2. QED
    BY <1>3, <1>6, <1>12, <2>1 DEF blockPort
<1>13. ASSUME NEW t \in Rx, Resolve(t) PROVE InCall'
  <2> DEFINE e == IF ref[t] # Nil /\ ~gone[ref[t]] THEN ref[t] ELSE ports[RefOf[t]]
             r == [Idle EXCEPT !.pc = "deliver", !.e = e]
  <2>1. e \in Entries
    BY <1>2, <1>13, PortAssumption DEF Resolve
  <2>2. RxOK(r)
    BY <2>1 DEF RxOK, Idle, RLocked
  <2>3. rx' = [rx EXCEPT ![t] = r] /\ UNCHANGED <<adm, attrs>>
    BY <1>13 DEF Resolve, entryVars
  <2> HIDE DEF r
  <2>4. QED
    BY <1>2, <1>3, <1>5, <2>2, <2>3
<1>14. ASSUME NEW t \in Rx, Learn(t) PROVE InCall'
  <2>1. RxOK([rx[t] EXCEPT !.pc = "forward"]) /\ RxOK(Idle)
    BY <1>2, <1>3, <1>4, <1>14 DEF RxOK, Learn, RxType, RLocked
  <2>2. UNCHANGED <<adm, attrs>> /\ (rx' = [rx EXCEPT ![t] = [rx[t] EXCEPT !.pc = "forward"]] \/ rx' = [rx EXCEPT ![t] = Idle])
    BY <1>14 DEF Learn, entryVars
  <2>3. QED
    BY <1>2, <1>3, <1>5, <2>1, <2>2
<1>15. ASSUME NEW t \in Rx, UNCHANGED <<adm, attrs>>, rx' = [rx EXCEPT ![t] = Idle] PROVE InCall'
  <2>1. RxOK(Idle)
    BY <1>4 DEF RxOK
  <2>2. QED
    BY <1>2, <1>3, <1>5, <1>15, <2>1
<1>16. ASSUME NEW t \in Rx, NEW f \in Frames, Shut(t, f) PROVE InCall'
  <2> DEFINE r == [rx[t] EXCEPT !.pc = "block", !.reason = IF f.dst = ProbeMAC THEN "loop" ELSE "bpdu_guard"]
  <2>1. RxOK(r)
    BY <1>2, <1>3, <1>16 DEF RxOK, Shut, RxType, RLocked
  <2>2. rx' = [rx EXCEPT ![t] = r] /\ UNCHANGED <<adm, attrs>>
    BY <1>16 DEF Shut, entryVars
  <2> HIDE DEF r
  <2>3. QED
    BY <1>2, <1>3, <1>5, <2>1, <2>2
<1>17. ASSUME NEW t \in Rx, NEW f \in Frames, Accept(t, f) PROVE InCall'
  <2> DEFINE e == rx[t].e
             r == [rx[t] EXCEPT !.pc = IF f.src = GroupMAC THEN "forward" ELSE "learn", !.key = Key(e, f), !.f = f]
  <2>1. e \in Entries /\ ~attrs[e].disabled
    BY <1>3, <1>17 DEF RxOK, Accept, Accepts, Open
  <2>2. f.src # GroupMAC => f.src \in MACs
    BY FrameAssumption DEF SrcMACs
  <2>3. r.e = e /\ r.f = f /\ r.key = Key(e, f) /\ (r.pc = "learn" => f.src # GroupMAC) /\ r.pc # "idle"
    BY <1>2 DEF RxType
  <2>4. UNCHANGED <<adm, attrs>> /\ (rx' = [rx EXCEPT ![t] = r] \/ rx' = [rx EXCEPT ![t] = Idle])
    BY <1>17 DEF Accept, entryVars
  <2> HIDE DEF r, e
  <2>5. RxOK(r) /\ RxOK(Idle)
    BY <1>4, <2>1, <2>2, <2>3 DEF RxOK
  <2>6. QED
    BY <1>2, <1>3, <1>5, <2>4, <2>5
<1>18. ASSUME Pipeline PROVE InCall'
  BY <1>12, <1>13, <1>14, <1>15, <1>16, <1>17, <1>18 DEF Pipeline, BlockFlush, Drop, entryVars
<1>19. ASSUME Registry PROVE InCall'
  BY <1>7, <1>8, <1>9, <1>10, <1>11, <1>19 DEF Registry
<1>20. ASSUME SpanningTree \/ FdbAdmin PROVE InCall'
  <2>1. UNCHANGED <<attrs, rx, adm>>
    BY <1>20 DEF SpanningTree, StpEnrol, StpWithdraw, StpBlock, StpClimb, StpUnchanged, FdbAdmin, AddStaticFDB,
                 RemoveStaticFDB, DeleteFDBEntry, FlushFDB, SetFDBMaxAge, expire, Tick, FdbUnchanged, entryVars
  <2>2. QED
    BY <1>3, <1>5, <2>1
<1>21. ASSUME Transmit PROVE InCall'
  BY <1>15, <1>21 DEF Transmit, Unicast, StormDrop, Flood, FinishForward, entryVars
<1>22. QED
  BY <1>18, <1>19, <1>20, <1>21 DEF Next

(* What a step may do to the fields of an entry. *)
LEMMA EntryStep ==
  ASSUME IInv, Next, NEW e \in Entries
  PROVE  /\ e <= portNumSeq => eid'[e] = eid[e]
         /\ \/ blockReason'[e] \in {"", blockReason[e]}
            \/ \E t \in Rx : blockPort(t) /\ rx[t].e = e
         /\ \/ attrs'[e] = attrs[e]
            \/ ~(e <= portNumSeq) /\ UNCHANGED blockReason
            \/ \E t \in Rx : blockPort(t) /\ rx[t].e = e
            \/ \E a \in Adm, id \in PortIDs, new \in AttrChoices : UpdatePortAttrs(a, id, new) /\ ports[id] = e
<1> DEFINE Goal == /\ e <= portNumSeq => eid'[e] = eid[e]
                   /\ \/ blockReason'[e] \in {"", blockReason[e]}
                      \/ \E t \in Rx : blockPort(t) /\ rx[t].e = e
                   /\ \/ attrs'[e] = attrs[e]
                      \/ ~(e <= portNumSeq) /\ UNCHANGED blockReason
                      \/ \E t \in Rx : blockPort(t) /\ rx[t].e = e
                      \/ \E a \in Adm, id \in PortIDs, new \in AttrChoices : UpdatePortAttrs(a, id, new) /\ ports[id] = e
<1>1. /\ eid \in [Entries -> PortIDs \cup {NoPort}] /\ attrs \in [Entries -> PortAttrs]
      /\ blockReason \in [Entries -> {"", "loop", "bpdu_guard"}] /\ InCall
  BY DEF IInv, TypeOK
<1>2. ASSUME UNCHANGED <<eid, attrs, blockReason>> PROVE Goal
  BY <1>2
<1>3. ASSUME NEW id \in PortIDs, NEW a \in AttrChoices, AddPort(id, a) PROVE Goal
  <2>1. e <= portNumSeq => e # portNumSeq + 1
    <3>1. portNumSeq \in 0 .. MaxEntry
      BY DEF IInv, TypeOK
    <3>2. QED
      BY <3>1, BoundsAssumption DEF Entries
  <2> DEFINE n == portNumSeq + 1
  <2>2. eid' = [eid EXCEPT ![n] = id] /\ attrs' = [attrs EXCEPT ![n] = a] /\ UNCHANGED blockReason
    BY <1>3 DEF AddPort
  <2> HIDE DEF n
  <2>3. e <= portNumSeq => e # n
    BY <2>1 DEF n
  <2>4. QED
    BY <1>1, <2>2, <2>3
<1>4. ASSUME NEW a \in Adm, NEW id \in PortIDs, NEW new \in AttrChoices, UpdatePortAttrs(a, id, new) PROVE Goal
  <2>1. CASE ports[id] = e
    <3>1. eid' = eid /\ blockReason'[e] \in {"", blockReason[e]}
      BY <1>1, <1>4, <2>1 DEF UpdatePortAttrs, reasonAfter
    <3>2. QED
      BY <1>4, <2>1, <3>1
  <2>2. CASE ports[id] # e
    BY <1>1, <1>4, <2>2 DEF UpdatePortAttrs
  <2>3. QED
    BY <2>1, <2>2
<1>5. ASSUME NEW t \in Rx, blockPort(t) PROVE Goal
  <2>1. CASE rx[t].e = e
    BY <1>5, <2>1 DEF blockPort
  <2>2. CASE rx[t].e # e
    BY <1>1, <1>5, <2>2 DEF blockPort
  <2>3. QED
    BY <2>1, <2>2
<1>6. ASSUME Registry PROVE Goal
  <2>1. ASSUME NEW a \in Adm, NEW id \in PortIDs, RemovePort(a, id) PROVE UNCHANGED <<eid, attrs, blockReason>>
    BY <2>1 DEF RemovePort, entryVars
  <2>2. ASSUME (\E id \in PortIDs : NotifyDown(id)) \/ Close \/ \E a \in Adm : RemoveGone(a) \/ RemoveDown(a) \/ UpdateFlush(a)
        PROVE  UNCHANGED <<eid, attrs, blockReason>>
    BY <2>2 DEF RemoveGone, RemoveDown, UpdateFlush, NotifyDown, Close, entryVars
  <2>3. QED
    BY <1>2, <1>3, <1>4, <1>6, <2>1, <2>2 DEF Registry
<1>7. ASSUME Pipeline PROVE Goal
  <2>1. ASSUME NEW t \in Rx, Resolve(t) \/ Learn(t) \/ BlockFlush(t) \/ \E f \in Frames : Drop(t, f) \/ Shut(t, f) \/ Accept(t, f)
        PROVE  UNCHANGED <<eid, attrs, blockReason>>
    BY <2>1 DEF Resolve, Learn, BlockFlush, Drop, Shut, Accept, entryVars
  <2>2. QED
    BY <1>2, <1>5, <1>7, <2>1 DEF Pipeline
<1>8. ASSUME SpanningTree \/ FdbAdmin \/ Transmit PROVE Goal
  <2>1. UNCHANGED <<eid, attrs, blockReason>>
    BY <1>8 DEF SpanningTree, StpEnrol, StpWithdraw, StpBlock, StpClimb, StpUnchanged, FdbAdmin, AddStaticFDB,
                RemoveStaticFDB, DeleteFDBEntry, FlushFDB, SetFDBMaxAge, expire, Tick, FdbUnchanged, entryVars,
                Transmit, Unicast, StormDrop, Flood, FinishForward
  <2>2. QED
    BY <1>2, <2>1
<1>9. QED
  BY <1>6, <1>7, <1>8 DEF Next

(* Every dynamic FDB entry names the port it points to. *)
LEMMA NamesStep ==
  ASSUME IInv, Next
  PROVE  FdbNamesPort'
<1>1. FdbNamesPort /\ Allocated /\ fdb \in [FdbKeys -> FdbVals]
  BY DEF IInv, TypeOK, FdbVals
<1>2. SUFFICES ASSUME NEW k \in FdbKeys
               PROVE  /\ fdb'[k].port # Nil => ~fdb'[k].static /\ fdb'[k].portID = eid'[fdb'[k].port]
                      /\ fdb'[k] # Absent => fdb'[k].portID \in PortIDs
  BY DEF FdbNamesPort
<1>3. CASE \E t \in Rx : Learn(t)
  <2>1. PICK t \in Rx : Learn(t)
    BY <1>3
  <2>2. eid' = eid /\ eid[rx[t].e] \in PortIDs
    BY <1>1, <2>1, LearnFacts DEF Learn, entryVars, Allocated
  <2>3. fdb'[k] = fdb[k] \/ fdb'[k] = Learned(t)
    BY <2>1, LearnFacts
  <2>4. Learned(t).port = rx[t].e /\ ~Learned(t).static /\ Learned(t).portID = eid[rx[t].e]
    BY DEF Learned
  <2>5. QED
    BY <1>1, <2>2, <2>3, <2>4 DEF FdbNamesPort
<1>4. CASE \A t \in Rx : ~Learn(t)
  <2>1. Fades(fdb[k], fdb'[k])
    BY <1>4, FdbFades
  <2>2. fdb[k].port # Nil => eid'[fdb[k].port] = eid[fdb[k].port]
    BY <1>1, EntryStep DEF Allocated, FdbVals
  <2>3. Absent.port = Nil
    BY DEF Absent
  <2>4. QED
    BY <1>1, <2>1, <2>2, <2>3 DEF Fades, FdbNamesPort
<1>5. QED
  BY <1>3, <1>4

(* A reason is never left on an enabled port. *)
LEMMA ReasonStep ==
  ASSUME IInv, Next
  PROVE  ReasonMeansDisabled'
<1>1. /\ ReasonMeansDisabled /\ Allocated /\ InCall /\ attrs \in [Entries -> PortAttrs]
      /\ blockReason \in [Entries -> {"", "loop", "bpdu_guard"}]
  BY DEF IInv, TypeOK
<1>2. SUFFICES ASSUME NEW e \in Entries, blockReason'[e] # "" PROVE attrs'[e].disabled
  BY DEF ReasonMeansDisabled
<1>3. CASE \E t \in Rx : blockPort(t) /\ rx[t].e = e
  <2>1. attrs' = [attrs EXCEPT ![e].disabled = TRUE]
    BY <1>3, Zenon DEF blockPort
  <2>2. attrs[e] \in PortAttrs /\ attrs'[e] = [attrs[e] EXCEPT !.disabled = TRUE]
    BY <1>1, <2>1, Zenon
  <2>3. QED
    BY <2>2 DEF PortAttrs
<1>4. CASE \E a \in Adm, id \in PortIDs, new \in AttrChoices : UpdatePortAttrs(a, id, new) /\ ports[id] = e
  <2>1. PICK a \in Adm, id \in PortIDs, new \in AttrChoices : UpdatePortAttrs(a, id, new) /\ ports[id] = e
    BY <1>4
  <2>2. blockReason'[e] = reasonAfter(e, new) /\ attrs'[e] = new
    BY <1>1, <2>1 DEF UpdatePortAttrs
  <2>3. blockReason[e] # "" /\ ~(attrs[e].disabled /\ ~new.disabled)
    BY <1>2, <2>2 DEF reasonAfter
  <2>4. QED
    BY <1>1, <2>2, <2>3 DEF ReasonMeansDisabled
<1>5. CASE attrs'[e] = attrs[e] /\ ~\E t \in Rx : blockPort(t) /\ rx[t].e = e
  BY <1>1, <1>2, <1>5, EntryStep DEF ReasonMeansDisabled
<1>6. CASE ~(e <= portNumSeq) /\ UNCHANGED blockReason
  BY <1>1, <1>2, <1>6 DEF Allocated
<1>7. QED
  BY <1>3, <1>4, <1>5, <1>6, EntryStep

(* A port that blockPort shut and flushed stays without learned addresses. *)
LEMMA BlockedStep ==
  ASSUME IInv, Next
  PROVE  BlockedIsFlushed'
<1>1. /\ ReasonMeansDisabled /\ BlockedIsFlushed /\ InCall /\ rx \in [Rx -> RxType]
      /\ "learn" \in RLocked /\ Nil \notin Entries
  <2>1. Nil \notin Entries
    BY BoundsAssumption DEF Nil, Entries
  <2>2. QED
    BY <2>1 DEF IInv, TypeOK, RLocked
<1>2. SUFFICES ASSUME NEW e \in Entries, blockReason'[e] # "",
                      \A t \in Rx : ~(rx'[t].pc = "flush" /\ rx'[t].e = e),
                      NEW k \in FdbKeys
               PROVE  fdb'[k].port # e
  BY DEF BlockedIsFlushed
<1>3. ASSUME NEW t \in Rx, blockPort(t), rx[t].e = e PROVE FALSE
  BY <1>1, <1>2, <1>3 DEF blockPort, RxType
<1>4. blockReason[e] # ""
  BY <1>2, <1>3, EntryStep
<1>5. CASE \E t \in Rx : rx[t].pc = "flush" /\ rx[t].e = e
  <2>1. PICK t \in Rx : rx[t].pc = "flush" /\ rx[t].e = e
    BY <1>5
  <2>2. rx'[t] # rx[t]
    BY <1>2, <2>1
  <2>3. BlockFlush(t)
    <3>1. ASSUME Pipeline PROVE BlockFlush(t)
      <4>1. ASSUME NEW u \in Rx, BlockFlush(u), u # t PROVE rx'[t] = rx[t]
        BY <1>1, <4>1 DEF BlockFlush
      <4>2. ASSUME NEW u \in Rx, Resolve(u) \/ Learn(u) \/ blockPort(u)
                             \/ \E f \in Frames : Drop(u, f) \/ Shut(u, f) \/ Accept(u, f)
            PROVE  rx[u].pc # "flush" /\ \E r : rx' = [rx EXCEPT ![u] = r]
        BY <4>2, Zenon DEF Resolve, Learn, blockPort, Drop, Shut, Accept
      <4>3. ASSUME NEW u \in Rx, Resolve(u) \/ Learn(u) \/ blockPort(u)
                             \/ \E f \in Frames : Drop(u, f) \/ Shut(u, f) \/ Accept(u, f)
            PROVE  rx'[t] = rx[t]
        BY <1>1, <2>1, <4>2, <4>3
      <4>4. QED
        BY <2>2, <3>1, <4>1, <4>3 DEF Pipeline
    <3>2. ASSUME Registry \/ SpanningTree \/ FdbAdmin PROVE rx' = rx
      BY <3>2 DEF Registry, AddPort, RemovePort, RemoveGone, RemoveDown, UpdateFlush, UpdatePortAttrs, NotifyDown,
                  Close, SpanningTree, StpEnrol, StpWithdraw, StpBlock, StpClimb, StpUnchanged, FdbAdmin, AddStaticFDB,
                  RemoveStaticFDB, DeleteFDBEntry, FlushFDB, SetFDBMaxAge, expire, Tick, FdbUnchanged
    <3>3. ASSUME Transmit PROVE rx'[t] = rx[t]
      BY <1>1, <2>1, <3>3 DEF Transmit, Unicast, StormDrop, Flood, FinishForward
    <3>4. QED
      BY <2>2, <3>1, <3>2, <3>3 DEF Next
  <2>4. QED
    BY <2>1, <2>3, FlushFacts DEF BlockFlush
<1>6. CASE \A t \in Rx : ~(rx[t].pc = "flush" /\ rx[t].e = e)
  <2>1. fdb[k].port # e /\ attrs[e].disabled
    BY <1>1, <1>4, <1>6 DEF BlockedIsFlushed, ReasonMeansDisabled
  <2>2. ASSUME NEW t \in Rx, Learn(t) PROVE rx[t].e # e
    BY <1>1, <2>1, <2>2 DEF InCall, Learn
  <2>3. QED
    BY <1>1, <2>1, <2>2, FdbPortStep
<1>7. QED
  BY <1>5, <1>6

(* A VLAN change leaves nothing of the old domain behind. *)
LEMMA DomainStep ==
  ASSUME IInv, Next
  PROVE  LearnedInDomain'
<1>1. /\ LearnedInDomain /\ InCall /\ Allocated /\ attrs \in [Entries -> PortAttrs]
      /\ adm \in [Adm -> AdmType] /\ fdb \in [FdbKeys -> FdbVals] /\ fdb' \in [FdbKeys -> FdbVals]
  BY FdbFades, LearnFacts DEF IInv, TypeOK, FdbVals
<1>2. SUFFICES ASSUME NEW k \in FdbKeys, fdb'[k].port # Nil,
                      \A a \in Adm : ~(adm'[a].pc = "flush" /\ adm'[a].e = fdb'[k].port)
               PROVE  k.vlan \in LearnableKeys(attrs'[fdb'[k].port].vlan)
  BY DEF LearnedInDomain
<1> DEFINE e == fdb'[k].port
<1>3. e \in Entries
  BY <1>1, <1>2 DEF FdbVals
<1>4. ASSUME NEW t \in Rx, Learn(t), k = LearnKey(t), e = rx[t].e PROVE k.vlan \in LearnableKeys(attrs'[e].vlan)
  <2>1. /\ attrs' = attrs /\ rx[t].f \in Frames /\ rx[t].key = Key(e, rx[t].f) /\ rx[t].key \in Keys
    BY <1>1, <1>4 DEF Learn, entryVars, InCall, RLocked, IInv, TypeOK
  <2>2. k.vlan = ingressKey(attrs[e].vlan, rx[t].f.tags) /\ k.vlan # NoKey
    <3>1. k.vlan = rx[t].key
      BY <1>4 DEF LearnKey
    <3>2. rx[t].key = ingressKey(attrs[e].vlan, rx[t].f.tags)
      BY <2>1, Zenon DEF Key
    <3>3. Keys \subseteq VIDs
      BY FrameAssumption, Zenon
    <3>4. rx[t].key # NoKey
      BY <2>1, <3>3, VIDFacts
    <3>5. QED
      BY <3>1, <3>2, <3>4, Zenon
  <2>3. attrs[e].vlan \in PortVLANs /\ rx[t].f.tags \in Seq(VIDs)
    BY <1>1, <1>3, <2>1, FrameAssumption DEF PortAttrs
  <2>4. QED
    BY <2>1, <2>2, <2>3, KeyLearnable
<1>5. ASSUME e = fdb[k].port PROVE k.vlan \in LearnableKeys(attrs'[e].vlan)
  <2>1. ASSUME NEW a \in Adm, adm[a].pc = "flush", adm[a].e = e PROVE FALSE
    <3>1. adm'[a] # adm[a]
      BY <1>2, <2>1
    <3>2. UpdateFlush(a)
      <4>1. ASSUME Registry PROVE UpdateFlush(a)
        BY <1>1, <2>1, <3>1, <4>1 DEF Registry, AddPort, RemovePort, RemoveGone, RemoveDown, UpdateFlush,
                                      UpdatePortAttrs, NotifyDown, Close
      <4>2. ASSUME Pipeline \/ SpanningTree \/ FdbAdmin \/ Transmit PROVE adm' = adm
        BY <4>2 DEF Pipeline, Resolve, Learn, blockPort, BlockFlush, Drop, Shut, Accept, SpanningTree, StpEnrol,
                    StpWithdraw, StpBlock, StpClimb, StpUnchanged, FdbAdmin, AddStaticFDB, RemoveStaticFDB,
                    DeleteFDBEntry, FlushFDB, SetFDBMaxAge, expire, Tick, FdbUnchanged, Transmit, Unicast, StormDrop,
                    Flood, FinishForward
      <4>3. QED
        BY <3>1, <4>1, <4>2 DEF Next
    <3>3. QED
      BY <1>3, <2>1, <3>2, FlushFacts DEF UpdateFlush
  <2>2. k.vlan \in LearnableKeys(attrs[e].vlan) /\ e <= portNumSeq
    BY <1>1, <1>2, <1>5, <2>1 DEF LearnedInDomain, Allocated
  <2>3. attrs'[e].vlan = attrs[e].vlan
    <3>1. ASSUME NEW t \in Rx, blockPort(t), rx[t].e = e PROVE attrs'[e].vlan = attrs[e].vlan
      <4>1. attrs' = [attrs EXCEPT ![e].disabled = TRUE]
        BY <3>1, Zenon DEF blockPort
      <4>2. attrs[e] \in PortAttrs /\ attrs'[e] = [attrs[e] EXCEPT !.disabled = TRUE]
        BY <1>1, <1>3, <4>1, Zenon
      <4>3. QED
        BY <4>2 DEF PortAttrs
    <3>2. ASSUME NEW a \in Adm, NEW id \in PortIDs, NEW new \in AttrChoices, UpdatePortAttrs(a, id, new), ports[id] = e
          PROVE  attrs'[e].vlan = attrs[e].vlan
      <4>1. attrs'[e] = new
        BY <1>1, <1>3, <3>2 DEF UpdatePortAttrs
      <4>2. vlanChanged(e, new) => adm'[a] = [pc |-> "flush", e |-> e]
        BY <1>1, <3>2 DEF UpdatePortAttrs
      <4>3. ~vlanChanged(e, new)
        BY <1>2, <4>2
      <4>4. QED
        BY <4>1, <4>3 DEF vlanChanged
    <3>3. QED
      BY <1>3, <2>2, <3>1, <3>2, EntryStep
  <2>4. QED
    BY <2>2, <2>3
<1>6. QED
  BY <1>2, <1>4, <1>5, FdbPortStep

(* The copies a step sends respect isolation and the domain. *)
LEMMA CopyStep ==
  ASSUME IInv, Next
  PROVE  DomainPreserved'
<1>1. CASE out' = {}
  BY <1>1 DEF DomainPreserved
<1>2. ASSUME NEW t \in Rx, rx[t].pc = "forward", NEW d \in Entries, Eligible(rx[t].e, d, rx[t].key), UNCHANGED <<eid, attrs>>,
             NEW c, c = Copy(t, d)
      PROVE  /\ eid'[c.dst] # eid'[c.src]
             /\ ~(attrs'[c.src].isolated /\ attrs'[c.dst].isolated)
             /\ Len(c.in) <= 1 => ingressKey(attrs'[c.dst].vlan, c.tags) = ingressKey(attrs'[c.src].vlan, c.in)
  <2> DEFINE e == rx[t].e
             f == rx[t].f
  <2>1. e \in Entries /\ f \in Frames /\ rx[t].key = ingressKey(attrs[e].vlan, f.tags) /\ rx[t].key \in Keys
    BY <1>2 DEF IInv, TypeOK, InCall, RLocked, Key
  <2>2. rx[t].key # NoKey
    <3>1. Keys \subseteq VIDs
      BY FrameAssumption, Zenon
    <3>2. rx[t].key \in Keys
      BY <2>1
    <3>3. QED
      BY <3>1, <3>2, VIDFacts
  <2>3. f.tags \in Seq(VIDs) /\ attrs[e].vlan \in PortVLANs /\ attrs[d].vlan \in PortVLANs
    BY <2>1, FrameAssumption DEF IInv, TypeOK, PortAttrs
  <2>4. Member(attrs[d].vlan, rx[t].key) /\ ~(attrs[e].isolated /\ attrs[d].isolated) /\ eid[d] # eid[e]
    BY <1>2 DEF Eligible, egressEligible
  <2>5. c.src = e /\ c.dst = d /\ c.in = f.tags /\ c.tags = egressFrame(attrs[d].vlan, rx[t].key, f.tags)
    BY <1>2 DEF Copy
  <2>6. Len(f.tags) <= 1 => ingressKey(attrs[d].vlan, c.tags) = rx[t].key
    <3> HIDE DEF e, f
    <3>1. SUFFICES ASSUME Len(f.tags) <= 1 PROVE ingressKey(attrs[d].vlan, c.tags) = rx[t].key
      OBVIOUS
    <3>2. ingressKey(attrs[e].vlan, f.tags) # NoKey /\ Member(attrs[d].vlan, ingressKey(attrs[e].vlan, f.tags))
      BY <2>1, <2>2, <2>4
    <3>3. ingressKey(attrs[d].vlan, egressFrame(attrs[d].vlan, ingressKey(attrs[e].vlan, f.tags), f.tags))
            = ingressKey(attrs[e].vlan, f.tags)
      BY <2>3, <3>1, <3>2, RoundTrip
    <3>4. QED
      BY <2>1, <2>5, <3>3
  <2>7. QED
    BY <1>2, <2>1, <2>4, <2>5, <2>6
<1>3. ASSUME NEW t \in Rx, Unicast(t) PROVE DomainPreserved'
  <2> DEFINE d == Target(DstKey(t))
  <2>1. CASE out' = {}
    BY <2>1 DEF DomainPreserved
  <2>2. CASE out' = {Copy(t, d)} /\ d # Nil /\ Eligible(rx[t].e, d, rx[t].key)
    <3>1. DstKey(t) \in FdbKeys /\ fdb[DstKey(t)] # Absent
      BY <1>3 DEF Unicast, Known, DstKey, FdbKeys, IInv, TypeOK, RLocked
    <3>2. d \in Entries
      BY <2>2, <3>1 DEF Target, IInv, TypeOK, FdbNamesPort
    <3>3. rx[t].pc = "forward" /\ UNCHANGED <<eid, attrs>>
      BY <1>3 DEF Unicast, FinishForward, entryVars
    <3> HIDE DEF d
    <3>4. QED
      BY <1>2, <2>2, <3>2, <3>3 DEF DomainPreserved
  <2>3. QED
    BY <1>3, <2>1, <2>2 DEF Unicast
<1>4. ASSUME NEW t \in Rx, Flood(t) PROVE DomainPreserved'
  <2>1. SUFFICES ASSUME NEW c \in out'
                 PROVE  /\ eid'[c.dst] # eid'[c.src]
                        /\ ~(attrs'[c.src].isolated /\ attrs'[c.dst].isolated)
                        /\ Len(c.in) <= 1 => ingressKey(attrs'[c.dst].vlan, c.tags) = ingressKey(attrs'[c.src].vlan, c.in)
    BY DEF DomainPreserved
  <2>2. PICK d \in {ports[p] : p \in PortIDs} \ {Nil} : Eligible(rx[t].e, d, rx[t].key) /\ c = Copy(t, d)
    BY <1>4, <2>1 DEF Flood
  <2>3. d \in Entries
    <3>1. ports \in [PortIDs -> {Nil} \cup Entries]
      BY DEF IInv, TypeOK
    <3>2. QED
      BY <2>2, <3>1
  <2>4. rx[t].pc = "forward" /\ UNCHANGED <<eid, attrs>>
    BY <1>4 DEF Flood, FinishForward, entryVars
  <2>5. QED
    BY <1>2, <2>2, <2>3, <2>4
<1>5. QED
  BY <1>1, <1>3, <1>4 DEF Next, Transmit, StormDrop

-----------------------------------------------------------------------------
(* The theorems. *)

(* Every step, and stuttering, keeps the inductive invariant. *)
LEMMA StepIInv == IInv /\ [Next]_vars => IInv'
<1> SUFFICES ASSUME IInv, [Next]_vars PROVE IInv'
  OBVIOUS
<1>1. CASE Next
  BY <1>1, TypeStep, RegistryStep, AllocStep, InCallStep, NamesStep, ReasonStep, BlockedStep, DomainStep, CopyStep
     DEF IInv
<1>2. CASE UNCHANGED vars
  <2> USE <1>2 DEF vars, entryVars
  <2>1. TypeOK' /\ RegistryConsistent'
    BY DEF IInv, TypeOK, RegistryConsistent
  <2>2. Allocated' /\ InCall'
    BY DEF IInv, Allocated, InCall, Key
  <2>3. FdbNamesPort' /\ ReasonMeansDisabled' /\ BlockedIsFlushed'
    BY DEF IInv, FdbNamesPort, ReasonMeansDisabled, BlockedIsFlushed
  <2>4. LearnedInDomain'
    BY DEF IInv, LearnedInDomain
  <2>5. DomainPreserved'
    BY DEF IInv, DomainPreserved
  <2>6. QED
    BY <2>1, <2>2, <2>3, <2>4, <2>5 DEF IInv
<1>3. QED
  BY <1>1, <1>2

(* The inductive invariant holds in every reachable state. *)
LEMMA Invariance == Spec => []IInv
<1>1. QED
  BY InitIInv, StepIInv, PTL DEF Spec

(* The switch keeps its types; a delivery past classification has a domain. *)
THEOREM TypeCorrect == Spec => []TypeOK
<1>1. IInv => TypeOK
  BY DEF IInv
<1>2. QED
  BY <1>1, Invariance, PTL

(* AddPort and RemovePort: a registered port is never gone and is never the *)
(* victim of a RemovePort that is still running, so an ID can be reused at  *)
(* once.                                                                    *)
THEOREM RegistrySafe == Spec => []RegistryConsistent
<1>1. IInv => RegistryConsistent
  BY DEF IInv
<1>2. QED
  BY <1>1, Invariance, PTL

(* blockPort: a port shut by the loop detection or the BPDU guard has no   *)
(* learned address once its flush is done, whatever deliveries overlap.    *)
THEOREM BlockedStaysFlushed == Spec => []BlockedIsFlushed
<1>1. IInv => BlockedIsFlushed
  BY DEF IInv
<1>2. QED
  BY <1>1, Invariance, PTL

(* blockPort and UpdatePortAttrs: only a disabled port has a block reason. *)
THEOREM ReasonSound == Spec => []ReasonMeansDisabled
<1>1. IInv => ReasonMeansDisabled
  BY DEF IInv
<1>2. QED
  BY <1>1, Invariance, PTL

(* UpdatePortAttrs: learned addresses are in a domain of the port, except  *)
(* while the flush of a VLAN change is on its way.                         *)
THEOREM LearnedStaysInDomain == Spec => []LearnedInDomain
<1>1. IInv => LearnedInDomain
  BY DEF IInv
<1>2. QED
  BY <1>1, Invariance, PTL

(* deliver: no copy goes back to its source, joins two isolated ports or   *)
(* changes its VLAN domain.                                                *)
THEOREM CopiesPreserveDomain == Spec => []DomainPreserved
<1>1. IInv => DomainPreserved
  BY DEF IInv
<1>2. QED
  BY <1>1, Invariance, PTL

(* A step leaves a static FDB entry alone or is a call of the static API.  *)
LEMMA StaticStep ==
  ASSUME IInv, [Next]_vars, NEW k \in FdbKeys, fdb[k].static
  PROVE  fdb'[k] = fdb[k] \/ RemoveStaticFDB(k) \/ \E id \in PortIDs : AddStaticFDB(k, id)
<1>1. fdb \in [FdbKeys -> FdbVals]
  BY DEF IInv, TypeOK, FdbVals
<1>2. ASSUME NEW D, Purge(D) PROVE fdb'[k] = fdb[k]
  BY <1>2 DEF Purge, Dynamic
<1>3. ASSUME UNCHANGED vars PROVE fdb'[k] = fdb[k]
  BY <1>3 DEF vars
<1>4. ASSUME Registry \/ SpanningTree PROVE fdb'[k] = fdb[k]
  BY <1>2, <1>4 DEF Registry, AddPort, RemovePort, RemoveGone, RemoveDown, UpdateFlush, UpdatePortAttrs, NotifyDown, Close,
                    SpanningTree, StpEnrol, StpWithdraw, StpBlock, StpClimb, flushPort
<1>5. ASSUME NEW t \in Rx, Learn(t) PROVE fdb'[k] = fdb[k]
  BY <1>1, <1>5 DEF Learn, learn
<1>6. ASSUME Pipeline \/ Transmit PROVE fdb'[k] = fdb[k]
  BY <1>2, <1>5, <1>6 DEF Pipeline, Resolve, blockPort, BlockFlush, flushPort, Drop, Shut, Accept, Transmit, Unicast,
                          StormDrop, Flood, FinishForward
<1>7. ASSUME NEW j \in FdbKeys, DeleteFDBEntry(j) PROVE fdb'[k] = fdb[k]
  BY <1>1, <1>7 DEF DeleteFDBEntry, Dynamic
<1>8. ASSUME NEW j \in FdbKeys, j # k, RemoveStaticFDB(j) \/ \E id \in PortIDs : AddStaticFDB(j, id) PROVE fdb'[k] = fdb[k]
  BY <1>1, <1>8 DEF RemoveStaticFDB, AddStaticFDB
<1>9. ASSUME Tick PROVE fdb'[k] = fdb[k]
  BY <1>9 DEF Tick, Dynamic
<1>10. ASSUME FdbAdmin PROVE fdb'[k] = fdb[k] \/ RemoveStaticFDB(k) \/ \E id \in PortIDs : AddStaticFDB(k, id)
  BY <1>2, <1>7, <1>8, <1>9, <1>10 DEF FdbAdmin, FlushFDB, SetFDBMaxAge, expire
<1>11. QED
  BY <1>3, <1>4, <1>6, <1>10 DEF Next

(* fdb.go: static entries change through the static FDB API alone. *)
THEOREM StaticEntriesPinned == Spec => StaticPinned
<1>1. IInv /\ [Next]_vars => [StaticKept]_vars
  <2> SUFFICES ASSUME IInv, [Next]_vars, NEW k \in FdbKeys, fdb[k].static
               PROVE  fdb'[k] = fdb[k] \/ RemoveStaticFDB(k) \/ \E id \in PortIDs : AddStaticFDB(k, id)
    BY DEF StaticKept
  <2>1. QED
    BY StaticStep
<1>2. QED
  BY <1>1, Invariance, PTL DEF Spec, StaticPinned
=============================================================================

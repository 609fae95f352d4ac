----------------------------- MODULE SwitchCore -----------------------------
(***************************************************************************)
(* The forwarding core (internal/switchcore: switch.go, fdb.go, vlan.go,   *)
(* the blocking part of protect.go): the port registry, the cached PortRef *)
(* pointers, the forwarding database and the frame pipeline, with the      *)
(* interleavings that Switch.mu and fdb.mu leave open.                     *)
(*                                                                         *)
(*  - Rx are the receive goroutines of the transports, each delivering     *)
(*    through its own PortRef (RefOf gives the port ID it is for);         *)
(*  - Adm are the goroutines of API calls that add, remove or change ports.*)
(*                                                                         *)
(* Switch.mu is a read-write lock.  A delivery holds it for reading from   *)
(* the gone test to its end: rx[t].pc in RLocked.  Writers hold it within  *)
(* a single action, so a writer's action needs Unlocked.  gone.Store and   *)
(* everything in the FDB happen outside Switch.mu and may fall anywhere    *)
(* between the steps of a delivery.                                        *)
(***************************************************************************)
EXTENDS Vlan, FiniteSets

CONSTANTS
  PortIDs,      \* port identifiers
  MACs,         \* unicast MAC addresses
  Keys,         \* the VLAN keys that occur
  Frames,       \* the frames that arrive: [tags, src, dst]
  AttrChoices,  \* the attributes ports are given
  Rx, Adm,      \* receive goroutines, API goroutines
  RefOf,        \* the port ID of each receive goroutine's PortRef
  MaxEntry,     \* bound: how many times AddPort registers a port
  AgeCap,       \* bound: ages are counted up to AgeCap
  MaxAges,      \* the values maxAge may be set to
  NoMAC         \* SecurityMAC == nil

Entries == 1 .. MaxEntry   \* portEntry objects, in order of allocation
Nil     == 0               \* the nil *portEntry
NoPort  == "none"          \* the empty port ID

\* Destinations and sources that are not unicast addresses.
GroupMAC    == "group"      \* broadcast or multicast
ProbeMAC    == "probe"      \* a loop probe of this switch instance
BpduMAC     == "bpdu"       \* a BPDU
ReservedMAC == "reserved"   \* another 802.1D reserved group address
SrcMACs     == MACs \cup {GroupMAC}
DstMACs     == MACs \cup {GroupMAC, ProbeMAC, BpduMAC, ReservedMAC}

PortAttrs == [vlan: PortVLANs, isolated: BOOLEAN, disabled: BOOLEAN, secMAC: MACs \cup {NoMAC},
              bpduGuard: BOOLEAN, stp: BOOLEAN, storm: BOOLEAN]

\* The attributes of an entry that is not allocated yet.
ZeroAttrs == [vlan |-> VLANUntaggedOnly, isolated |-> FALSE, disabled |-> FALSE, secMAC |-> NoMAC,
              bpduGuard |-> FALSE, stp |-> FALSE, storm |-> FALSE]
UsedVLANs == {VLANUntaggedOnly} \cup {a.vlan : a \in AttrChoices}

ASSUME BoundsAssumption == MaxEntry \in Nat /\ AgeCap \in Nat /\ MaxAges \subseteq Nat \ {0}

ASSUME PortAssumption ==
  /\ RefOf \in [Rx -> PortIDs]
  /\ NoPort \notin PortIDs
  /\ AttrChoices \subseteq PortAttrs

ASSUME FrameAssumption ==
  /\ Frames \subseteq [tags: Seq(VIDs), src: SrcMACs, dst: DstMACs]
  /\ \A f \in Frames, v \in UsedVLANs : ingressKey(v, f.tags) \in Keys \cup {NoKey}
  /\ Keys \subseteq VIDs
  /\ MACs \cap {GroupMAC, ProbeMAC, BpduMAC, ReservedMAC} = {}

VARIABLES
  ports,        \* Switch.ports: ID -> entry or Nil
  portNumSeq,   \* Switch.portNumSeq; the next entry is portNumSeq + 1
  eid, attrs, blockReason, gone, stpState,   \* the fields of the entries
  fdb,          \* fdb.m
  maxAge,       \* fdb.maxAge
  ref,          \* PortRef.cached of every receive goroutine
  rx,           \* the delivery each receive goroutine is in
  adm,          \* the call each API goroutine is in
  stopped,      \* Switch.stop is closed
  out           \* the copies sent by the last step

entryVars == <<eid, attrs, blockReason, gone, stpState>>
vars == <<ports, portNumSeq, entryVars, fdb, maxAge, ref, rx, adm, stopped, out>>

-----------------------------------------------------------------------------
(* The forwarding database. *)

FdbKeys == [vlan: Keys, mac: MACs]
Absent  == [portID |-> NoPort, port |-> Nil, age |-> 0, static |-> FALSE]

Dynamic(k) == fdb[k] # Absent /\ ~fdb[k].static

\* f.now().Sub(lastSeen) > maxAge, and the same test in expire.
Expired(k) == ~fdb[k].static /\ fdb[k].age > maxAge

\* Mutant of learn: it does not look for a static entry.
LearnAlways(k, e) ==
  fdb' = [fdb EXCEPT ![k] = [portID |-> eid[e], port |-> e, age |-> 0, static |-> FALSE]]

learn(k, e) ==
  fdb' = IF fdb[k].static THEN fdb
         ELSE [fdb EXCEPT ![k] = [portID |-> eid[e], port |-> e, age |-> 0, static |-> FALSE]]

\* Delete the dynamic entries in D.
Purge(D) == fdb' = [k \in FdbKeys |-> IF Dynamic(k) /\ k \in D THEN Absent ELSE fdb[k]]

flushPort(id) == Purge({k \in FdbKeys : fdb[k].portID = id})

-----------------------------------------------------------------------------
(* Switch.mu. *)

RLocked  == {"learn", "forward"}
Unlocked == \A t \in Rx : rx[t].pc \notin RLocked

NoFrame == [tags |-> <<>>, src |-> GroupMAC, dst |-> GroupMAC]
Idle    == [pc |-> "idle", e |-> Nil, key |-> NoKey, f |-> NoFrame, reason |-> ""]

RxType  == [pc: {"idle", "deliver", "learn", "forward", "block", "flush"}, e: {Nil} \cup Entries,
            key: Keys \cup {NoKey}, f: Frames \cup {NoFrame}, reason: {"", "loop", "bpdu_guard"}]
AdmType == [pc: {"idle", "gone", "down", "flush"}, e: {Nil} \cup Entries]
AdmIdle == [pc |-> "idle", e |-> Nil]

Init ==
  /\ ports = [p \in PortIDs |-> Nil]
  /\ portNumSeq = 0
  /\ eid = [e \in Entries |-> NoPort]
  /\ attrs = [e \in Entries |-> ZeroAttrs]
  /\ blockReason = [e \in Entries |-> ""]
  /\ gone = [e \in Entries |-> FALSE]
  /\ stpState = [e \in Entries |-> "off"]
  /\ fdb = [k \in FdbKeys |-> Absent]
  /\ maxAge \in MaxAges
  /\ ref = [t \in Rx |-> Nil]
  /\ rx = [t \in Rx |-> Idle]
  /\ adm = [a \in Adm |-> AdmIdle]
  /\ stopped = FALSE
  /\ out = {}

-----------------------------------------------------------------------------
(* The port registry. *)

AddPort(id, a) ==
  /\ Unlocked
  /\ ports[id] = Nil
  /\ portNumSeq < MaxEntry
  /\ LET e == portNumSeq + 1 IN
       /\ portNumSeq' = e
       /\ ports' = [ports EXCEPT ![id] = e]
       /\ eid' = [eid EXCEPT ![e] = id]
       /\ attrs' = [attrs EXCEPT ![e] = a]
  /\ UNCHANGED <<blockReason, gone, stpState, fdb, maxAge, ref, rx, adm, stopped>>

\* RemovePort up to the unlock: only the registry forgets the entry.
RemovePort(a, id) ==
  /\ adm[a].pc = "idle"
  /\ Unlocked
  /\ ports[id] # Nil
  /\ ports' = [ports EXCEPT ![id] = Nil]
  /\ adm' = [adm EXCEPT ![a] = [pc |-> "gone", e |-> ports[id]]]
  /\ UNCHANGED <<portNumSeq, entryVars, fdb, maxAge, ref, rx, stopped>>

\* Mutant of RemoveGone: the entry is looked up again by its ID.
GoneByID(a) ==
  /\ adm[a].pc = "gone"
  /\ gone' = [e \in Entries |-> gone[e] \/ e = ports[eid[adm[a].e]]]
  /\ adm' = [adm EXCEPT ![a] = [pc |-> "down", e |-> @.e]]
  /\ UNCHANGED <<ports, portNumSeq, eid, attrs, blockReason, stpState, fdb, maxAge, ref, rx, stopped>>

\* e.gone.Store(true), after the unlock.
RemoveGone(a) ==
  /\ adm[a].pc = "gone"
  /\ gone' = [gone EXCEPT ![adm[a].e] = TRUE]
  /\ adm' = [adm EXCEPT ![a] = [pc |-> "down", e |-> @.e]]
  /\ UNCHANGED <<ports, portNumSeq, eid, attrs, blockReason, stpState, fdb, maxAge, ref, rx, stopped>>

\* e.port.Close() and portDown, whose first act is flushPort.
RemoveDown(a) ==
  /\ adm[a].pc = "down"
  /\ flushPort(eid[adm[a].e])
  /\ adm' = [adm EXCEPT ![a] = AdmIdle]
  /\ UNCHANGED <<ports, portNumSeq, entryVars, maxAge, ref, rx, stopped>>

\* A transport reports that its peer is gone; the port stays registered.
NotifyDown(id) ==
  /\ flushPort(id)
  /\ UNCHANGED <<ports, portNumSeq, entryVars, maxAge, ref, rx, adm, stopped>>

\* Mutants of the two below: the test is forgotten.
NoFlushNeeded(e, new) == FALSE
KeepReason(e, new)    == blockReason[e]

vlanChanged(e, new) == attrs[e].vlan # new.vlan
reasonAfter(e, new) == IF attrs[e].disabled /\ ~new.disabled THEN "" ELSE blockReason[e]

UpdatePortAttrs(a, id, new) ==
  LET e == ports[id] IN
  /\ adm[a].pc = "idle"
  /\ Unlocked
  /\ e # Nil
  /\ attrs' = [attrs EXCEPT ![e] = new]
  /\ blockReason' = [blockReason EXCEPT ![e] = reasonAfter(e, new)]
  /\ adm' = [adm EXCEPT ![a] = IF vlanChanged(e, new) THEN [pc |-> "flush", e |-> e] ELSE AdmIdle]
  /\ UNCHANGED <<ports, portNumSeq, eid, gone, stpState, fdb, maxAge, ref, rx, stopped>>

\* The flush of a VLAN change, after the unlock.
UpdateFlush(a) ==
  /\ adm[a].pc = "flush"
  /\ flushPort(eid[adm[a].e])
  /\ adm' = [adm EXCEPT ![a] = AdmIdle]
  /\ UNCHANGED <<ports, portNumSeq, entryVars, maxAge, ref, rx, stopped>>

\* Close empties the registry without marking the entries gone.
Close ==
  /\ Unlocked
  /\ stopped' = TRUE
  /\ ports' = [p \in PortIDs |-> Nil]
  /\ UNCHANGED <<portNumSeq, entryVars, fdb, maxAge, ref, rx, adm>>

-----------------------------------------------------------------------------
(* The frame pipeline. *)

\* PortRef.Deliver: the cached entry unless it is gone, else the registry's.
Resolve(t) ==
  LET e == IF ref[t] # Nil /\ ~gone[ref[t]] THEN ref[t] ELSE ports[RefOf[t]] IN
  /\ rx[t].pc = "idle"
  /\ e # Nil
  /\ ref' = [ref EXCEPT ![t] = e]
  /\ rx' = [rx EXCEPT ![t] = [Idle EXCEPT !.pc = "deliver", !.e = e]]
  /\ UNCHANGED <<ports, portNumSeq, entryVars, fdb, maxAge, adm, stopped>>

\* The tests of deliver, in the order it makes them.
Open(e)       == ~gone[e] /\ ~attrs[e].disabled
Shuts(e, f)   == f.dst = ProbeMAC \/ (f.dst = BpduMAC /\ attrs[e].bpduGuard)
Consumed(f)   == f.dst \in {ProbeMAC, BpduMAC, ReservedMAC}
StpGate(e)    == stpState[e] \notin {"blocking", "listening"}
Secure(e, f)  == attrs[e].secMAC # NoMAC => f.src = attrs[e].secMAC
Key(e, f)     == ingressKey(attrs[e].vlan, f.tags)

\* Mutant of Accepts: the frames ingressKey rejects go through.
AcceptsAnyTag(e, f) == Open(e) /\ ~Consumed(f) /\ StpGate(e) /\ Secure(e, f)

Accepts(e, f) == /\ Open(e) /\ ~Consumed(f) /\ StpGate(e)
                 /\ Key(e, f) # NoKey /\ Secure(e, f)

\* deliver ends early: a dropped frame, or a group address the bridge
\* consumes (a BPDU of a participating port goes to the STP machine).
Drop(t, f) ==
  /\ rx[t].pc = "deliver"
  /\ ~Accepts(rx[t].e, f)
  /\ ~(Open(rx[t].e) /\ Shuts(rx[t].e, f))
  /\ rx' = [rx EXCEPT ![t] = Idle]
  /\ UNCHANGED <<ports, portNumSeq, entryVars, fdb, maxAge, ref, adm, stopped>>

\* A loop probe came back, or a guarded port received a BPDU.
Shut(t, f) ==
  /\ rx[t].pc = "deliver"
  /\ Open(rx[t].e) /\ Shuts(rx[t].e, f)
  /\ rx' = [rx EXCEPT ![t] = [@ EXCEPT !.pc = "block",
                                       !.reason = IF f.dst = ProbeMAC THEN "loop" ELSE "bpdu_guard"]]
  /\ UNCHANGED <<ports, portNumSeq, entryVars, fdb, maxAge, ref, adm, stopped>>

\* The frame is classified; from here on the read lock is held.  A frame from
\* a group address is not learned, and a learning port forwards nothing.
Accept(t, f) ==
  LET e == rx[t].e IN
  /\ rx[t].pc = "deliver"
  /\ Accepts(e, f)
  /\ rx' = [rx EXCEPT ![t] =
              IF f.src = GroupMAC /\ stpState[e] = "learning" THEN Idle
              ELSE [@ EXCEPT !.pc = IF f.src = GroupMAC THEN "forward" ELSE "learn",
                             !.key = Key(e, f), !.f = f]]
  /\ UNCHANGED <<ports, portNumSeq, entryVars, fdb, maxAge, ref, adm, stopped>>

Learn(t) ==
  LET e == rx[t].e IN
  /\ rx[t].pc = "learn"
  /\ learn([vlan |-> rx[t].key, mac |-> rx[t].f.src], e)
  /\ rx' = [rx EXCEPT ![t] = IF stpState[e] = "learning" THEN Idle ELSE [@ EXCEPT !.pc = "forward"]]
  /\ UNCHANGED <<ports, portNumSeq, entryVars, maxAge, ref, adm, stopped>>

\* Mutant of blockPort: it does not wait for the deliveries in progress.
BlockUnlocked(t) ==
  LET e == rx[t].e IN
  /\ rx[t].pc = "block"
  /\ attrs' = [attrs EXCEPT ![e].disabled = TRUE]
  /\ blockReason' = [blockReason EXCEPT ![e] = IF attrs[e].disabled THEN @ ELSE rx[t].reason]
  /\ rx' = [rx EXCEPT ![t] = [@ EXCEPT !.pc = "flush"]]
  /\ UNCHANGED <<ports, portNumSeq, eid, gone, stpState, fdb, maxAge, ref, adm, stopped>>

\* blockPort, and the flush after its unlock.
blockPort(t) ==
  LET e == rx[t].e IN
  /\ rx[t].pc = "block"
  /\ Unlocked
  /\ attrs' = [attrs EXCEPT ![e].disabled = TRUE]
  /\ blockReason' = [blockReason EXCEPT ![e] = IF attrs[e].disabled THEN @ ELSE rx[t].reason]
  /\ rx' = [rx EXCEPT ![t] = [@ EXCEPT !.pc = "flush"]]
  /\ UNCHANGED <<ports, portNumSeq, eid, gone, stpState, fdb, maxAge, ref, adm, stopped>>

BlockFlush(t) ==
  /\ rx[t].pc = "flush"
  /\ flushPort(eid[rx[t].e])
  /\ rx' = [rx EXCEPT ![t] = Idle]
  /\ UNCHANGED <<ports, portNumSeq, entryVars, maxAge, ref, adm, stopped>>

-----------------------------------------------------------------------------
(* Transmission: the only steps that set out to something. *)

Eligible(e, d, key) ==
  /\ eid[d] # eid[e]
  /\ stpState[d] \in {"off", "forwarding"}
  /\ egressEligible(attrs[e], attrs[d], key)

Copy(t, d) == [src |-> rx[t].e, dst |-> d, key |-> rx[t].key, mac |-> rx[t].f.dst, in |-> rx[t].f.tags,
               tags |-> egressFrame(attrs[d].vlan, rx[t].key, rx[t].f.tags)]

DstKey(t)  == [vlan |-> rx[t].key, mac |-> rx[t].f.dst]
\* lookup finds a port ID.
Known(t)   == rx[t].f.dst \in MACs /\ fdb[DstKey(t)] # Absent /\ ~Expired(DstKey(t))
\* The entry a hit leads to; a static one is resolved by its ID.
Target(k)  == IF fdb[k].port # Nil THEN fdb[k].port ELSE ports[fdb[k].portID]

FinishForward(t) ==
  /\ rx' = [rx EXCEPT ![t] = Idle]
  /\ UNCHANGED <<ports, portNumSeq, entryVars, fdb, maxAge, ref, adm, stopped>>

\* A RemovePort past its unlock may set gone after the lookup and before the
\* test of gone: the frame is dropped.
Leaving(d) == \E a \in Adm : adm[a].pc = "gone" /\ adm[a].e = d

\* Mutant of Unicast: the learned pointer is used without a look at gone.
UnicastUnchecked(t) ==
  /\ rx[t].pc = "forward"
  /\ Known(t)
  /\ LET d == Target(DstKey(t))
     IN out' = IF d # Nil /\ Eligible(rx[t].e, d, rx[t].key) THEN {Copy(t, d)} ELSE {}
  /\ FinishForward(t)

Unicast(t) ==
  /\ rx[t].pc = "forward"
  /\ Known(t)
  /\ LET d    == Target(DstKey(t))
         sent == d # Nil /\ ~gone[d] /\ Eligible(rx[t].e, d, rx[t].key)
     IN \/ sent /\ out' = {Copy(t, d)}
        \/ (~sent \/ Leaving(d)) /\ out' = {}
  /\ FinishForward(t)

StormDrop(t) ==
  /\ rx[t].pc = "forward"
  /\ ~Known(t)
  /\ attrs[rx[t].e].storm
  /\ out' = {}
  /\ FinishForward(t)

Flood(t) ==
  /\ rx[t].pc = "forward"
  /\ ~Known(t)
  /\ LET targets == {d \in {ports[p] : p \in PortIDs} \ {Nil} : Eligible(rx[t].e, d, rx[t].key)}
     IN out' = {Copy(t, d) : d \in targets}
  /\ FinishForward(t)

-----------------------------------------------------------------------------
(* What the spanning tree does to the dataplane, under Switch.mu.  When it *)
(* does it is the subject of module Stp.  "off" is an entry that is not in *)
(* stpBridge.ports; in the code it has the value of "forwarding".          *)

StpUnchanged == UNCHANGED <<ports, portNumSeq, eid, attrs, blockReason, gone, maxAge, ref, rx, adm, stopped>>

\* resyncPortsLocked enrols a port, or withdraws one.  A stale participant
\* under the same ID keeps a new entry out.
StpEnrol(e) ==
  /\ Unlocked
  /\ \E p \in PortIDs : ports[p] = e
  /\ attrs[e].stp /\ ~attrs[e].disabled
  /\ \A d \in Entries : eid[d] = eid[e] => stpState[d] = "off"
  /\ stpState' = [stpState EXCEPT ![e] = "blocking"]
  /\ UNCHANGED fdb /\ StpUnchanged

StpWithdraw(e) ==
  /\ Unlocked
  /\ stpState[e] # "off"
  /\ stpState' = [stpState EXCEPT ![e] = "off"]
  /\ UNCHANGED fdb /\ StpUnchanged

\* applyRoleLocked: the role is now "blocked".
StpBlock(e) ==
  /\ Unlocked
  /\ stpState[e] \notin {"off", "blocking"}
  /\ stpState' = [stpState EXCEPT ![e] = "blocking"]
  /\ flushPort(eid[e])
  /\ StpUnchanged

\* The climb of a root or designated port: applyRoleLocked and tickLocked.
StpClimb(e) ==
  /\ Unlocked
  /\ \/ /\ stpState[e] = "blocking"
        /\ stpState' = [stpState EXCEPT ![e] = "listening"]
        /\ UNCHANGED fdb
     \/ /\ stpState[e] = "listening"
        /\ stpState' = [stpState EXCEPT ![e] = "learning"]
        /\ UNCHANGED fdb
     \/ /\ stpState[e] = "learning"
        /\ stpState' = [stpState EXCEPT ![e] = "forwarding"]
        /\ flushPort(eid[e])
  /\ StpUnchanged

-----------------------------------------------------------------------------
(* The FDB's own operations: the API and the aging sweep. *)

FdbUnchanged == UNCHANGED <<ports, portNumSeq, entryVars, ref, rx, adm, stopped>>

StaticVLANs == 0 .. 4094   \* a frame's VID may be 4095, a static entry's not

AddStaticFDB(k, id) ==
  /\ k.vlan \in StaticVLANs
  /\ fdb' = [fdb EXCEPT ![k] = [portID |-> id, port |-> Nil, age |-> 0, static |-> TRUE]]
  /\ UNCHANGED maxAge /\ FdbUnchanged

RemoveStaticFDB(k) ==
  /\ fdb[k].static
  /\ fdb' = [fdb EXCEPT ![k] = Absent]
  /\ UNCHANGED maxAge /\ FdbUnchanged

DeleteFDBEntry(k) ==
  /\ Dynamic(k)
  /\ fdb' = [fdb EXCEPT ![k] = Absent]
  /\ UNCHANGED maxAge /\ FdbUnchanged

\* ids and vlans are what the optional filters match.
FlushFDB(ids, vlans) ==
  /\ Purge({k \in FdbKeys : fdb[k].portID \in ids /\ k.vlan \in vlans})
  /\ UNCHANGED maxAge /\ FdbUnchanged

SetFDBMaxAge(m) ==
  /\ maxAge' = m
  /\ UNCHANGED fdb /\ FdbUnchanged

\* Mutant of expire: entries of removed ports are left to flushPort.
ExpireRegistered ==
  /\ ~stopped
  /\ Purge({k \in FdbKeys : Expired(k) /\ ~gone[fdb[k].port]})
  /\ UNCHANGED maxAge /\ FdbUnchanged

expire ==
  /\ ~stopped
  /\ Purge({k \in FdbKeys : Expired(k)})
  /\ UNCHANGED maxAge /\ FdbUnchanged

\* Time passes for every entry alike.
Tick ==
  /\ \E k \in FdbKeys : Dynamic(k) /\ fdb[k].age < AgeCap
  /\ fdb' = [k \in FdbKeys |-> IF Dynamic(k) /\ fdb[k].age < AgeCap
                               THEN [fdb[k] EXCEPT !.age = @ + 1] ELSE fdb[k]]
  /\ UNCHANGED maxAge /\ FdbUnchanged

-----------------------------------------------------------------------------

Registry ==
  \/ \E id \in PortIDs, a \in AttrChoices : AddPort(id, a)
  \/ \E a \in Adm, id \in PortIDs : RemovePort(a, id)
  \/ \E a \in Adm : RemoveGone(a) \/ RemoveDown(a) \/ UpdateFlush(a)
  \/ \E a \in Adm, id \in PortIDs, new \in AttrChoices : UpdatePortAttrs(a, id, new)
  \/ \E id \in PortIDs : NotifyDown(id)
  \/ Close

Pipeline ==
  \/ \E t \in Rx : Resolve(t) \/ Learn(t) \/ blockPort(t) \/ BlockFlush(t)
  \/ \E t \in Rx, f \in Frames : Drop(t, f) \/ Shut(t, f) \/ Accept(t, f)

SpanningTree ==
  \E e \in Entries : StpEnrol(e) \/ StpWithdraw(e) \/ StpBlock(e) \/ StpClimb(e)

FdbAdmin ==
  \/ \E k \in FdbKeys, id \in PortIDs : AddStaticFDB(k, id)
  \/ \E k \in FdbKeys : RemoveStaticFDB(k) \/ DeleteFDBEntry(k)
  \/ \E ids \in {{id} : id \in PortIDs} \cup {PortIDs}, vlans \in {{v} : v \in Keys} \cup {Keys} :
       FlushFDB(ids, vlans)
  \/ \E m \in MaxAges : SetFDBMaxAge(m)
  \/ expire
  \/ Tick

Transmit == \E t \in Rx : Unicast(t) \/ StormDrop(t) \/ Flood(t)

Next == \/ (Registry \/ Pipeline \/ SpanningTree \/ FdbAdmin) /\ out' = {}
        \/ Transmit

Spec == Init /\ [][Next]_vars

\* The aging ticker runs for as long as the switch is not closed.
FairSpec == Spec /\ WF_vars(Tick /\ out' = {}) /\ WF_vars(expire /\ out' = {})

-----------------------------------------------------------------------------
(* Properties. *)

\* Types; a delivery past classification has a domain.
TypeOK ==
  /\ ports \in [PortIDs -> {Nil} \cup Entries]
  /\ portNumSeq \in 0 .. MaxEntry
  /\ eid \in [Entries -> PortIDs \cup {NoPort}]
  /\ attrs \in [Entries -> PortAttrs]
  /\ \A e \in Entries : attrs[e].vlan \in UsedVLANs
  /\ blockReason \in [Entries -> {"", "loop", "bpdu_guard"}]
  /\ gone \in [Entries -> BOOLEAN]
  /\ stpState \in [Entries -> {"off", "forwarding", "blocking", "listening", "learning"}]
  /\ fdb \in [FdbKeys -> [portID: PortIDs \cup {NoPort}, port: {Nil} \cup Entries,
                         age: 0 .. AgeCap, static: BOOLEAN]]
  /\ maxAge \in MaxAges
  /\ ref \in [Rx -> {Nil} \cup Entries]
  /\ rx \in [Rx -> RxType]
  /\ \A t \in Rx : rx[t].pc \in RLocked => rx[t].key \in Keys
  /\ adm \in [Adm -> AdmType]
  /\ stopped \in BOOLEAN

\* The registry (AddPort, RemovePort): a registered entry carries the ID it is
\* registered under, is not gone, and is not in the hands of a RemovePort that
\* is still running; so a port re-created under the ID of a removed one is
\* never invalidated by that removal.
RegistryConsistent ==
  \A p \in PortIDs : ports[p] # Nil =>
    /\ eid[ports[p]] = p
    /\ ~gone[ports[p]]
    /\ \A a \in Adm : adm[a].pc \in {"gone", "down"} => adm[a].e # ports[p]

\* blockPort: once its flush is done, a port shut by the loop detection or the
\* BPDU guard has no learned address, and keeps none until it is re-enabled,
\* whatever deliveries were in progress when it was shut.
BlockedIsFlushed ==
  \A e \in Entries :
    blockReason[e] # "" /\ (\A t \in Rx : ~(rx[t].pc = "flush" /\ rx[t].e = e))
      => \A k \in FdbKeys : fdb[k].port # e

\* blockReason: it says why a disabled port is disabled; it is never left on
\* an enabled port.
ReasonMeansDisabled == \A e \in Entries : blockReason[e] # "" => attrs[e].disabled

\* The keys under which a port with this VLAN attribute can learn.
LearnableKeys(vlan) == IF vlan = VLANTrunk THEN VIDs
                       ELSE IF vlan = VLANUntaggedOnly THEN {untaggedKey} ELSE {vlan}

\* UpdatePortAttrs: when no VLAN flush is pending for a port, every address
\* learned on it is in a domain the port's present VLAN attribute can learn
\* in: a change of VLAN leaves nothing of the old domain behind, even when
\* deliveries and several changes overlap.
LearnedInDomain ==
  \A k \in FdbKeys :
    fdb[k].port # Nil /\ (\A a \in Adm : ~(adm[a].pc = "flush" /\ adm[a].e = fdb[k].port))
      => k.vlan \in LearnableKeys(attrs[fdb[k].port].vlan)

\* deliver, egressEligible, egressFrame: a copy never goes back to its source
\* port, never joins two isolated ports, and (for a frame with at most one
\* tag) leaves in the form that a peer port with the destination's VLAN
\* attribute would classify into the very domain the frame came in with.
DomainPreserved ==
  \A c \in out :
    /\ eid[c.dst] # eid[c.src]
    /\ ~(attrs[c.src].isolated /\ attrs[c.dst].isolated)
    /\ Len(c.in) <= 1 => ingressKey(attrs[c.dst].vlan, c.tags) = ingressKey(attrs[c.src].vlan, c.in)

\* A step that changes a static entry is a call of the static FDB API.
StaticKept ==
  \A k \in FdbKeys : fdb[k].static =>
    \/ fdb'[k] = fdb[k]
    \/ RemoveStaticFDB(k)
    \/ \E id \in PortIDs : AddStaticFDB(k, id)

\* fdb: a static entry is changed by the static FDB API alone; learning,
\* flushes, aging, port removal and the spanning tree leave it as it is.
StaticPinned == [][StaticKept]_vars

\* A dynamic entry that leads to a removed port, where frames are dropped
\* instead of flooded.
Stale(k) == fdb[k].port # Nil /\ gone[fdb[k].port]

\* RemovePort, ageLoop: a delivery that overlaps RemovePort may learn after the
\* flush; the entry does not stay for ever: it expires, or the address
\* is learned elsewhere.
StaleEntriesHeal == \A k \in FdbKeys : (Stale(k) /\ ~stopped) ~> (~Stale(k) \/ stopped)

\* The abstract switch: entries are port objects, and locations have no age.
Abstract == INSTANCE LearningSwitch
  WITH Objects  <- Entries,
       Stations <- FdbKeys,
       Dests    <- [vlan: Keys, mac: DstMACs],
       table    <- ports,
       issued   <- portNumSeq,
       name     <- eid,
       retired  <- {e \in Entries : gone[e]},
       where    <- [k \in FdbKeys |-> [portID |-> fdb[k].portID, port |-> fdb[k].port,
                                       static |-> fdb[k].static]],
       sent     <- {[from |-> c.src, to |-> c.dst, dest |-> [vlan |-> c.key, mac |-> c.mac]] : c \in out}

\* deliver, RemovePort, fdb: with its goroutines, its two locks and its cached
\* pointers the Switch behaves as a switch whose steps are atomic: a removed
\* port is retired once and for good, never while it is registered; only
\* issued ports are learned; static locations are changed by the API alone;
\* and copies go to registered ports or to where the destination is, never to
\* a retired port, back to the source, or past a static location.
IsLearningSwitch == Abstract!Spec

-----------------------------------------------------------------------------
(* The inductive invariant behind the safety properties above. *)

\* Every pointer leads to an allocated entry, and only allocated ones are used.
Allocated ==
  /\ \A p \in PortIDs : ports[p] <= portNumSeq
  /\ \A t \in Rx : ref[t] <= portNumSeq /\ rx[t].e <= portNumSeq
  /\ \A a \in Adm : adm[a].e <= portNumSeq
  /\ \A k \in FdbKeys : fdb[k].port <= portNumSeq
  /\ \A e \in Entries : IF e <= portNumSeq THEN eid[e] \in PortIDs
                         ELSE eid[e] = NoPort /\ blockReason[e] = "" /\ ~gone[e]

\* A goroutine in the middle of a call has an entry; one that holds the read
\* lock has a frame that the entry's attributes, which nobody can change
\* meanwhile, admit into the domain it computed.
InCall ==
  /\ \A a \in Adm : adm[a].pc # "idle" => adm[a].e \in Entries
  /\ \A t \in Rx :
       /\ rx[t].pc # "idle" => rx[t].e \in Entries
       /\ rx[t].pc \in RLocked => /\ rx[t].f \in Frames
                                 /\ ~attrs[rx[t].e].disabled
                                 /\ rx[t].key = Key(rx[t].e, rx[t].f)
       /\ rx[t].pc = "learn" => rx[t].f.src \in MACs

\* A dynamic entry names the port it points to, so a flush by ID finds it.
FdbNamesPort ==
  \A k \in FdbKeys :
    /\ fdb[k].port # Nil => ~fdb[k].static /\ fdb[k].portID = eid[fdb[k].port]
    /\ fdb[k] # Absent => fdb[k].portID \in PortIDs

IInv == /\ TypeOK /\ RegistryConsistent /\ Allocated /\ InCall /\ FdbNamesPort
        /\ ReasonMeansDisabled /\ BlockedIsFlushed /\ LearnedInDomain /\ DomainPreserved
=============================================================================

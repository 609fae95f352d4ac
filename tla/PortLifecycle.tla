--------------------------- MODULE PortLifecycle ---------------------------
(***************************************************************************)
(* The life of the ports that share one identifier: CreatePort, PatchPort, *)
(* DeletePort and the OnPortDown hook of internal/manager/manager.go, and  *)
(* CreateGateway and DeleteGateway of gateways.go, over the Switch's       *)
(* registry and the transports of internal/ports/client.go and server.go   *)
(* (StreamServer has the details of the latter).                           *)
(*                                                                         *)
(* Processes: API calls, the onExit goroutines of transports, the calls of *)
(* Switch.portDown they and RemovePort make, and the DeletePort goroutines *)
(* the hook starts.  A step is a critical section or a call without one.   *)
(***************************************************************************)
EXTENDS Naturals, FiniteSets

CONSTANTS
  Transports,  \* one for each CreatePort or CreateGateway call
  Kinds,       \* what they may be: "gateway", "client", "server" (replacing_mode replace)
  AutoRemove,  \* auto_remove of each request
  MaxConns,    \* bound: connections of a server
  MaxDeletes,  \* bound: DELETE calls
  MaxPatches,  \* bound: PATCH calls, none of them with "enabled"
  None

ASSUME LifecycleAssumption ==
  /\ Kinds \subseteq [Transports -> {"client", "server", "gateway"}]
  /\ AutoRemove \in [Transports -> BOOLEAN]
  /\ {MaxConns, MaxDeletes, MaxPatches} \subseteq Nat
  /\ None \notin Transports

VARIABLES
  kind,
  ports,    \* Manager.ports: the recorded transport, or None
  gateways, \* Manager.gateways: the recorded gateway, or None
  reg,      \* Switch.ports: the registered transport, or None
  shut,     \* the registered entry is Disabled
  creates,  \* where each CreatePort call is
  conn,     \* each transport's connection: "none", "up", "broken" (pump stopped)
  conns,    \* how many connections each transport has had
  closed,   \* the transports that were closed
  downs,    \* the calls of Switch.portDown under way
  deletes,  \* the calls of DeletePort under way
  deleted,  \* how many DELETE calls were made
  patch,    \* the PATCH call: where it is, the attributes it holds
  patched   \* how many PATCH calls were made

transport == <<conn, conns, closed>>
deleting  == <<deletes, deleted>>
patching  == <<patch, patched>>
records   == <<kind, ports, gateways>>
vars == <<records, reg, shut, creates, transport, downs, deleting, patching>>

NoPatch == [pc |-> "idle", shut |-> FALSE]

Init ==
  /\ kind \in Kinds
  /\ ports = None
  /\ gateways = None
  /\ reg = None
  /\ shut = FALSE
  /\ creates = [t \in Transports |-> "idle"]
  /\ conn = [t \in Transports |-> "none"]
  /\ conns = [t \in Transports |-> 0]
  /\ closed = {}
  /\ downs = {}
  /\ deletes = {}
  /\ deleted = 0
  /\ patch = NoPatch
  /\ patched = 0

-----------------------------------------------------------------------------
(* Transports. *)

Online(t) == conn[t] # "none"   \* Status().Online: pump # nil

\* A client reaches a server port; adopt replaces a connection that is there.
Connect(t) ==
  /\ kind[t] = "server" /\ creates[t] \in {"built", "added", "done"} /\ t \notin closed
  /\ conns[t] < MaxConns
  /\ conn' = [conn EXCEPT ![t] = "up"]
  /\ conns' = [conns EXCEPT ![t] = @ + 1]
  /\ UNCHANGED <<records, reg, shut, creates, closed, downs, deleting, patching>>

\* The peer goes: rxLoop or txLoop stops the pump, which starts onExit.
Break(t) ==
  /\ conn[t] = "up"
  /\ conn' = [conn EXCEPT ![t] = "broken"]
  /\ UNCHANGED <<records, reg, shut, creates, conns, closed, downs, deleting, patching>>

\* NotifyDown of a pump is one call; n tells those of a transport apart.
Down(t, n) == [t |-> t, n |-> n, pc |-> "hook", seen |-> None]

\* Mutant of onExit: NotifyDown comes before p.pump = nil.
ReportFirst(t) ==
  /\ conn[t] = "broken"
  /\ \/ Down(t, conns[t]) \notin downs /\ downs' = downs \cup {Down(t, conns[t])} /\ UNCHANGED conn
     \/ conn' = [conn EXCEPT ![t] = "none"] /\ UNCHANGED downs
  /\ UNCHANGED <<records, reg, shut, creates, conns, closed, deleting, patching>>

\* onExit: p.pump = nil, then Switch.NotifyDown.
onExit(t) ==
  /\ conn[t] = "broken"
  /\ conn' = [conn EXCEPT ![t] = "none"]
  /\ downs' = downs \cup {Down(t, conns[t])}
  /\ UNCHANGED <<records, reg, shut, creates, conns, closed, deleting, patching>>

\* Close: a client stops its pump; a server also forgets it, so that its
\* onExit reports nothing.
Closed(t) ==
  /\ closed' = closed \cup {t}
  /\ conn' = [conn EXCEPT ![t] = IF kind[t] = "client" /\ @ = "up" THEN "broken"
                                 ELSE IF kind[t] = "client" THEN @ ELSE "none"]
  /\ UNCHANGED conns

-----------------------------------------------------------------------------
(* CreatePort, CreateGateway *)

TableOf(t)  == IF kind[t] = "gateway" THEN "gateways" ELSE "ports"
Recorded(t) == IF kind[t] = "gateway" THEN gateways ELSE ports

createCheck(t) ==
  /\ creates[t] = "idle"
  /\ creates' = [creates EXCEPT ![t] = IF Recorded(t) # None THEN "failed" ELSE "checked"]
  /\ UNCHANGED <<records, reg, shut, transport, downs, deleting, patching>>

\* NewClient dials and starts the pump, NewServer listens, gateway.New builds a
\* network stack; each may fail.
createBuild(t) ==
  /\ creates[t] = "checked"
  /\ \/ /\ creates' = [creates EXCEPT ![t] = "built"]
        /\ conn' = [conn EXCEPT ![t] = IF kind[t] = "client" THEN "up" ELSE "none"]
        /\ conns' = [conns EXCEPT ![t] = IF kind[t] = "client" THEN 1 ELSE 0]
     \/ creates' = [creates EXCEPT ![t] = "failed"] /\ UNCHANGED <<conn, conns>>
  /\ UNCHANGED <<records, reg, shut, closed, downs, deleting, patching>>

\* Mutant of createAdd: a refused transport is left open.
AddLeaks(t) ==
  /\ creates[t] = "built"
  /\ reg' = IF reg = None THEN t ELSE reg
  /\ creates' = [creates EXCEPT ![t] = IF reg = None THEN "added" ELSE "refused"]
  /\ UNCHANGED <<records, shut, transport, downs, deleting, patching>>

\* Switch.AddPort; if the ID is taken, port.Close().
createAdd(t) ==
  /\ creates[t] = "built"
  /\ \/ /\ reg = None
        /\ reg' = t
        /\ shut' = FALSE
        /\ creates' = [creates EXCEPT ![t] = "added"]
        /\ UNCHANGED transport
     \/ /\ reg # None
        /\ Closed(t)
        /\ creates' = [creates EXCEPT ![t] = "refused"]
        /\ UNCHANGED <<reg, shut>>
  /\ UNCHANGED <<records, downs, deleting, patching>>

\* DeletePort, or DeleteGateway, number n of who.
Deletion(who, n, of) == [who |-> who, n |-> n, of |-> of, pc |-> "find", t |-> None]

recordPort(t) ==
  /\ kind[t] # "gateway"
  /\ ports' = t
  /\ UNCHANGED <<gateways, deletes>>

\* CreateGateway looks for a record again: a second one removes its port.
recordGateway(t) ==
  /\ kind[t] = "gateway"
  /\ gateways' = IF gateways = None THEN t ELSE gateways
  /\ deletes' = IF gateways = None THEN deletes
                ELSE deletes \cup {[Deletion(t, 0, "gateways") EXCEPT !.pc = "remove", !.t = t]}
  /\ UNCHANGED ports

createRecord(t) ==
  /\ creates[t] = "added"
  /\ recordPort(t) \/ recordGateway(t)
  /\ creates' = [creates EXCEPT ![t] = "done"]
  /\ UNCHANGED <<kind, reg, shut, transport, downs, deleted, patching>>

-----------------------------------------------------------------------------
(* The OnPortDown hook: under Manager.mu it looks the port up; then it       *)
(* releases leases and reads the transport's status.                         *)

hook(x) ==
  /\ x \in downs /\ x.pc = "hook"
  /\ downs' = (downs \ {x}) \cup {[x EXCEPT !.pc = "status", !.seen = ports]}
  /\ UNCHANGED <<records, reg, shut, creates, transport, deleting, patching>>

Unrecoverable(t) == t # None /\ AutoRemove[t] /\ ~Online(t)

hookStatus(x) ==
  /\ x \in downs /\ x.pc = "status"
  /\ downs' = downs \ {x}
  /\ deletes' = IF Unrecoverable(x.seen) THEN deletes \cup {Deletion(x.t, x.n, "ports")} ELSE deletes
  /\ UNCHANGED <<records, reg, shut, creates, transport, deleted, patching>>

-----------------------------------------------------------------------------
(* DeletePort, DeleteGateway *)

deleteCall ==
  /\ deleted < MaxDeletes
  /\ deleted' = deleted + 1
  /\ \E t \in Transports : deletes' = deletes \cup {Deletion(None, deleted, TableOf(t))}
  /\ UNCHANGED <<records, reg, shut, creates, transport, downs, patching>>

Moves(x, pc, t) == deletes' = (deletes \ {x}) \cup {[x EXCEPT !.pc = pc, !.t = t]}

\* Mutant of deleteFind: an unknown port is not reported as an error.
FindAnyway(x) ==
  /\ x \in deletes /\ x.pc = "find"
  /\ ports' = None
  /\ Moves(x, "remove", ports)
  /\ UNCHANGED <<kind, gateways, reg, shut, creates, transport, downs, deleted, patching>>

deleteFind(x) ==
  /\ x \in deletes /\ x.pc = "find"
  /\ LET rec == IF x.of = "ports" THEN ports ELSE gateways IN
       IF rec = None THEN deletes' = deletes \ {x} ELSE Moves(x, "remove", rec)
  /\ ports' = IF x.of = "ports" THEN None ELSE ports
  /\ gateways' = IF x.of = "gateways" THEN None ELSE gateways
  /\ UNCHANGED <<kind, reg, shut, creates, transport, downs, deleted, patching>>

\* Mutant of deleteRemove: the record goes, the port stays.
RemoveNothing(x) ==
  /\ x \in deletes /\ x.pc = "remove"
  /\ deletes' = deletes \ {x}
  /\ UNCHANGED <<records, reg, shut, creates, transport, downs, deleted, patching>>

\* Switch.RemovePort unregisters what it finds under the ID ...
deleteRemove(x) ==
  /\ x \in deletes /\ x.pc = "remove"
  /\ reg' = None
  /\ shut' = FALSE
  /\ IF reg = None THEN deletes' = deletes \ {x} ELSE Moves(x, "close", reg)
  /\ UNCHANGED <<records, creates, transport, downs, deleted, patching>>

\* ... and closes it; its call of portDown goes on as the others do.
deleteClose(x) ==
  /\ x \in deletes /\ x.pc = "close"
  /\ Closed(x.t)
  /\ deletes' = deletes \ {x}
  /\ downs' = downs \cup {Down(x.t, 0)}
  /\ UNCHANGED <<records, reg, shut, creates, deleted, patching>>

-----------------------------------------------------------------------------
(* PatchPort of an attribute other than enabled, and blockPort.              *)

patchFind ==
  /\ patch.pc = "idle" /\ patched < MaxPatches /\ ports # None
  /\ patch' = [patch EXCEPT !.pc = "read"]
  /\ patched' = patched + 1
  /\ UNCHANGED <<records, reg, shut, creates, transport, downs, deleting>>

\* Switch.PortAttrs; an ID that is not registered is an error.
patchRead ==
  /\ patch.pc = "read"
  /\ patch' = IF reg = None THEN NoPatch ELSE [patch EXCEPT !.pc = "update", !.shut = shut]
  /\ UNCHANGED <<records, reg, shut, creates, transport, downs, deleting, patched>>

\* Switch.UpdatePortAttrs, with the attributes read before and the patch.
patchUpdate ==
  /\ patch.pc = "update"
  /\ shut' = (reg # None /\ patch.shut)
  /\ patch' = NoPatch
  /\ UNCHANGED <<records, reg, creates, transport, downs, deleting, patched>>

blockPort ==
  /\ reg # None /\ ~shut
  /\ shut' = TRUE
  /\ UNCHANGED <<records, reg, creates, transport, downs, deleting, patching>>

-----------------------------------------------------------------------------
Create(t) == createBuild(t) \/ createAdd(t) \/ createRecord(t)
Hook(x)   == hook(x) \/ hookStatus(x)
Delete(x) == deleteFind(x) \/ deleteRemove(x) \/ deleteClose(x)
Patch     == patchRead \/ patchUpdate

Next ==
  \/ \E t \in Transports : createCheck(t) \/ Create(t) \/ Connect(t) \/ Break(t) \/ onExit(t)
  \/ \E x \in downs : Hook(x)
  \/ deleteCall \/ \E x \in deletes : Delete(x)
  \/ patchFind \/ Patch \/ blockPort

Spec == Init /\ [][Next]_vars

\* Calls and goroutines that have been started come to their end.
FairSpec ==
  /\ Spec
  /\ \A t \in Transports : WF_vars(Create(t)) /\ WF_vars(onExit(t))
  /\ WF_vars(\E x \in downs : Hook(x)) /\ WF_vars(\E x \in deletes : Delete(x))

-----------------------------------------------------------------------------
(* Properties. *)

\* No call is under way, nor is a connection that has ended unnoticed.
AtRest ==
  /\ \A t \in Transports : creates[t] \in {"idle", "failed", "refused", "done"} /\ conn[t] # "broken"
  /\ downs = {} /\ deletes = {}

\* CreatePort, CreateGateway and their deletions: when no call is under way, the
\* Manager's records and the Switch's registry agree on who has the identifier,
\* although the records of ports and of gateways know nothing of each other and
\* have another lock than the registry.
RecordMatchesRegistry == AtRest => {ports, gateways} \ {None} = {reg} \ {None}

\* CreatePort closes what AddPort refuses, RemovePort what it removes: when no
\* call is under way, a transport that was built and is not registered is
\* closed.
NothingLeaks ==
  AtRest => \A t \in Transports \ {reg} : creates[t] \in {"refused", "done"} => t \in closed

\* DeletePort: the port that it removes from the Switch is the one whose record
\* it took, although it removes by ID what a CreatePort may have replaced.
DeletesItsOwn == \A x \in deletes : x.pc = "remove" => reg = x.t

\* New: "unless the port opted out, remove it entirely (peer closing the socket
\* ... reclaims the port without a DELETE call)": a recorded port whose
\* connection ends is removed, unless somebody connects again.
LostPortsGo ==
  \A t \in Transports :
    AutoRemove[t] /\ ports = t /\ conn[t] = "broken" ~> ports # t \/ conn[t] = "up"
=============================================================================

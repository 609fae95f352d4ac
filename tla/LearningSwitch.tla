--------------------------- MODULE LearningSwitch ---------------------------
(***************************************************************************)
(* What internal/switchcore promises, without goroutines, locks, cached    *)
(* pointers, attributes or clocks: a table of ports in which every         *)
(* registration is a new object, a table of where stations are, and        *)
(* copies of frames that go where the tables say.  Every step is atomic.   *)
(*                                                                         *)
(* A removed port is retired some time after it has left the table.  Until *)
(* and after then a station may still be bound to it, because a frame that *)
(* was under way is learned late; but nothing is sent to a retired port.   *)
(***************************************************************************)
EXTENDS Naturals

CONSTANTS
  PortIDs,
  Objects,   \* the port objects: numbers, in order of registration
  Stations,  \* what a location is kept for
  Dests,     \* what a frame is addressed to: a station or a group
  Nil, NoPort

VARIABLES
  table,     \* ID -> registered object, or Nil
  issued,    \* the object registered last
  name,      \* the ID each object was registered under
  retired,   \* the objects that get no frames any more
  where,     \* station -> location
  sent       \* the copies of the last step: [from, to, dest]

tables == <<table, issued, name, retired>>
vars   == <<tables, where, sent>>

Nowhere     == [portID |-> NoPort, port |-> Nil, static |-> FALSE]
At(o)       == [portID |-> name[o], port |-> o, static |-> FALSE]
Pinned(id)  == [portID |-> id, port |-> Nil, static |-> TRUE]
Registered  == {table[id] : id \in PortIDs} \ {Nil}
Target(s)   == IF where[s].port # Nil THEN where[s].port ELSE table[where[s].portID]

Init ==
  /\ table = [id \in PortIDs |-> Nil]
  /\ issued = 0
  /\ name = [o \in Objects |-> NoPort]
  /\ retired = {}
  /\ where = [s \in Stations |-> Nowhere]
  /\ sent = {}

Register(id) ==
  /\ table[id] = Nil /\ issued + 1 \in Objects
  /\ issued' = issued + 1
  /\ table' = [table EXCEPT ![id] = issued + 1]
  /\ name' = [name EXCEPT ![issued + 1] = id]
  /\ UNCHANGED <<retired, where>>

Unregister(ids) ==
  /\ table' = [id \in PortIDs |-> IF id \in ids THEN Nil ELSE table[id]]
  /\ UNCHANGED <<issued, name, retired, where>>

\* Only an object that has left the table, for good, is retired.
Retire(o) ==
  /\ o \notin Registered
  /\ retired' = retired \cup {o}
  /\ UNCHANGED <<table, issued, name, where>>

Bind(s, o) ==
  /\ ~where[s].static
  /\ where' = [where EXCEPT ![s] = At(o)]
  /\ UNCHANGED tables

\* Flushes, aging: any set of learned locations.
Forget(S) ==
  /\ where' = [s \in Stations |-> IF s \in S /\ ~where[s].static THEN Nowhere ELSE where[s]]
  /\ UNCHANGED tables

Pin(s, id) ==
  /\ where' = [where EXCEPT ![s] = Pinned(id)]
  /\ UNCHANGED tables

Unpin(s) ==
  /\ where[s].static
  /\ where' = [where EXCEPT ![s] = Nowhere]
  /\ UNCHANGED tables

Quiet == UNCHANGED <<tables, where>>

\* Copies of a frame from o for d go to the ports in T: not back to the port
\* it came from, and not to a retired one.
Send(o, d, T) ==
  /\ \A p \in T : p \notin retired /\ name[p] # name[o]
  /\ sent' = {[from |-> o, to |-> p, dest |-> d] : p \in T}
  /\ UNCHANGED <<tables, where>>

\* A frame for a station with a location goes there, if anywhere; any other,
\* and one for a location that has become too old, to registered ports.
Unicast(o, d) == d \in Stations /\ where[d] # Nowhere /\ \E T \in SUBSET ({Target(d)} \ {Nil}) : Send(o, d, T)
Flood(o, d)   == (d \in Stations => ~where[d].static) /\ \E T \in SUBSET Registered : Send(o, d, T)

Change ==
  \/ \E id \in PortIDs : Register(id)
  \/ \E ids \in {{id} : id \in PortIDs} \cup {PortIDs} : Unregister(ids)
  \/ \E o \in 1 .. issued : Retire(o)
  \/ \E s \in Stations, o \in 1 .. issued : Bind(s, o)
  \/ \E S \in SUBSET Stations : Forget(S)
  \/ \E s \in Stations, id \in PortIDs : Pin(s, id)
  \/ \E s \in Stations : Unpin(s)
  \/ Quiet

Transmit == \E o \in 1 .. issued, d \in Dests : Unicast(o, d) \/ Flood(o, d)

Next == (Change /\ sent' = {}) \/ Transmit

Spec == Init /\ [][Next]_vars
=============================================================================

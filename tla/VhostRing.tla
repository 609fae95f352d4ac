----------------------------- MODULE VhostRing -----------------------------
(***************************************************************************)
(* A vhost-user session: NetDevice of internal/vhostuser/device.go, with   *)
(* one of its two rings (queue.go), the front-end that configures it and   *)
(* the guest's driver.                                                     *)
(*                                                                         *)
(* Processes: serve, which handles the front-end's messages; txPump        *)
(* goroutines; WriteFrame calls of the switch; Close; the guest.  A step   *)
(* is a critical section of NetDevice.mu, a read of the kick eventfd, or   *)
(* a step of the guest.  A chain is its head; what it holds, the call      *)
(* eventfd and SET_VRING_NUM, which comes first, are left out.             *)
(***************************************************************************)
EXTENDS Integers, Sequences, FiniteSets

CONSTANTS
  Queues,    \* the rings to consider, subset of {"rx", "tx"}
  Num,       \* vring.num
  IndexMod,  \* ring indices are counted modulo this, 2^16 in the code
  Broken,    \* the chains that resolveChain rejects
  MaxKicks,  \* bound: kick descriptors the front-end sends
  MaxMaps    \* bound: memory tables it sends

Heads == 0 .. Num - 1

ASSUME VhostAssumption ==
  /\ Queues \subseteq {"rx", "tx"}
  /\ Num \in Nat \ {0} /\ IndexMod \in Nat /\ IndexMod > Num /\ IndexMod % Num = 0
  /\ Broken \subseteq Heads
  /\ MaxKicks \in Nat /\ MaxMaps \in Nat

VARIABLES
  queue, mrg,  \* which ring; whether mergeable buffers were negotiated
  protoOn,
  mem, maps,   \* the mapped memory table (0: none); how many there have been
  ring,        \* vring; desc names the table its slices point into, kick the descriptor
  pumps,       \* the txPump goroutines, each with its descriptor
  serving,     \* serve: "on", "last" (closed, a message still in hand), "ended"
  kicks,       \* how many kick descriptors there have been
  events,      \* the open descriptors that are readable
  base,        \* front-end: the reply to GET_VRING_BASE, -1 if used or none
  avail, availRing, used, usedRing,  \* the rings in guest memory
  seen, free, owed  \* driver: next used index, free chains, a kick yet to be sent

session == <<protoOn, mem, maps, serving, kicks, base>>
rings   == <<avail, availRing, used, usedRing>>
driver  == <<seen, free, owed>>
fixed   == <<queue, mrg>>
vars    == <<fixed, session, ring, pumps, events, rings, driver>>

Init ==
  /\ queue \in Queues /\ mrg \in {FALSE, queue = "rx"}
  /\ protoOn = FALSE
  /\ mem = 0 /\ maps = 0
  /\ ring = [desc |-> 0, kick |-> 0, enabled |-> FALSE, started |-> FALSE,
             pumpRunning |-> FALSE, lastAvail |-> 0, usedIdx |-> 0]
  /\ pumps = <<>>
  /\ serving = "on"
  /\ kicks = 0
  /\ events = {}
  /\ base = -1
  /\ avail = 0 /\ used = 0 /\ seen = 0
  /\ availRing = [i \in Heads |-> 0] /\ usedRing = [i \in Heads |-> 0]
  /\ free = Heads
  /\ owed = FALSE

-----------------------------------------------------------------------------
(* Starting and stopping the ring. *)

NewPump(fd) == [fd |-> fd, pc |-> "drain"]

\* What can be read of the descriptor that r has; the ring's former one, if it
\* was another, is closed.
Readable(r) == events \cap {r.kick}

\* Mutant of startRing: the kicks of a pause are not made up for.
StartNoPoke(r) ==
  /\ ring' = [r EXCEPT !.started = TRUE, !.pumpRunning = queue = "tx"]
  /\ pumps' = IF queue = "tx" /\ ~r.pumpRunning THEN Append(pumps, NewPump(r.kick)) ELSE pumps
  /\ events' = Readable(r)

\* Mutant of startRing: every start has its pump.
StartAlways(r) ==
  /\ ring' = [r EXCEPT !.started = TRUE, !.pumpRunning = queue = "tx"]
  /\ pumps' = IF queue = "tx" THEN Append(pumps, NewPump(r.kick)) ELSE pumps
  /\ events' = Readable(r)

\* The transmit ring gets a pump, or the pump it has is poked.
startRing(r) ==
  /\ ring' = [r EXCEPT !.started = TRUE, !.pumpRunning = queue = "tx"]
  /\ pumps'  = IF queue = "tx" /\ ~r.pumpRunning THEN Append(pumps, NewPump(r.kick)) ELSE pumps
  /\ events' = IF queue = "tx" /\ r.pumpRunning THEN {r.kick} ELSE Readable(r)

\* evalRingLocked, on the ring and the memory table that the caller leaves.
evalRing(r, m) ==
  LET ready == ~r.started /\ m # 0 /\ r.desc # 0 /\ r.kick # 0 /\ (protoOn => r.enabled)
  IN IF ready THEN startRing(r) ELSE ring' = r /\ events' = Readable(r) /\ UNCHANGED pumps

stopRing(r) == [r EXCEPT !.started = FALSE, !.kick = 0, !.desc = 0, !.enabled = FALSE]

-----------------------------------------------------------------------------
(* handle.  serve takes a message, or has taken one when Close comes.        *)

Handles == /\ serving \in {"on", "last"}
           /\ serving' = IF serving = "on" THEN "on" ELSE "ended"
           /\ UNCHANGED <<fixed, rings, driver>>

SetFeatures(on) ==
  /\ Handles /\ protoOn # on
  /\ protoOn' = on
  /\ UNCHANGED <<mem, maps, kicks, base, ring, pumps, events>>

\* Mutant of setMemTable: the rings are not stopped.
MemTableOnly ==
  /\ Handles /\ maps < MaxMaps
  /\ maps' = maps + 1 /\ mem' = maps + 1
  /\ evalRing(ring, maps + 1)
  /\ UNCHANGED <<protoOn, kicks, base>>

setMemTable ==
  /\ Handles /\ maps < MaxMaps
  /\ maps' = maps + 1 /\ mem' = maps + 1
  /\ evalRing(IF mem # 0 THEN stopRing(ring) ELSE ring, maps + 1)
  /\ UNCHANGED <<protoOn, kicks, base>>

\* Without a memory table it is an error, which ends the session (Hangup).
setVringAddr ==
  /\ Handles /\ mem # 0
  /\ evalRing([ring EXCEPT !.desc = mem, !.usedIdx = used], mem)
  /\ UNCHANGED <<protoOn, mem, maps, kicks, base>>

\* setVringFDLocked with a new descriptor, or (0) with none.
setVringKick(fd) ==
  /\ Handles
  /\ \/ fd = 0 /\ UNCHANGED kicks
     \/ fd = kicks + 1 /\ fd <= MaxKicks /\ kicks' = fd
  /\ base' = -1
  /\ evalRing([ring EXCEPT !.kick = fd, !.started = @ /\ ring.kick = 0], mem)
  /\ UNCHANGED <<protoOn, mem, maps>>

SetVringEnable(on) ==
  /\ Handles
  /\ IF on THEN evalRing([ring EXCEPT !.enabled = TRUE], mem)
     ELSE /\ ring' = [ring EXCEPT !.enabled = FALSE, !.started = FALSE]
          /\ UNCHANGED <<pumps, events>>
  /\ UNCHANGED <<protoOn, mem, maps, kicks, base>>

GetVringBase ==
  /\ Handles
  /\ ring' = stopRing(ring)
  /\ events' = {}
  /\ base' = ring.lastAvail
  /\ UNCHANGED <<protoOn, mem, maps, kicks, pumps>>

\* The front-end gives back what it was told, before it sends a descriptor.
SetVringBase ==
  /\ Handles /\ base >= 0
  /\ ring' = [ring EXCEPT !.lastAvail = base]
  /\ base' = -1
  /\ UNCHANGED <<protoOn, mem, maps, kicks, pumps, events>>

ResetOwner ==
  /\ Handles
  /\ ring' = stopRing(ring)
  /\ events' = {}
  /\ UNCHANGED <<protoOn, mem, maps, kicks, base, pumps>>

TearDown == /\ ring' = stopRing(ring)
            /\ events' = {}
            /\ mem' = 0
            /\ UNCHANGED <<fixed, protoOn, maps, kicks, base, pumps, rings, driver>>

\* Close by the port: serve may be about to handle one more message.
Close == serving = "on" /\ serving' \in {"last", "ended"} /\ TearDown

\* serve meets an error of the connection or of a message, and closes.
Hangup == serving = "on" /\ serving' = "ended" /\ TearDown

-----------------------------------------------------------------------------
(* The data path. *)

Dist(i, j) == (j - i) % IndexMod            \* from index i to index j
Waiting    == Dist(ring.lastAvail, avail)   \* the chains popAvail still finds
ChainAt(i) == availRing[(ring.lastAvail + i) % Num]

\* Mutant of giveBack: the chains of a batch are put into the used ring in
\* reverse order.
GiveBackReversed(n) ==
  /\ ring' = [ring EXCEPT !.lastAvail = (@ + n) % IndexMod, !.usedIdx = (@ + n) % IndexMod]
  /\ usedRing' = [s \in Heads |->
       LET i == (s - ring.usedIdx) % Num IN IF i < n THEN ChainAt(n - 1 - i) ELSE usedRing[s]]
  /\ used' = (ring.usedIdx + n) % IndexMod
  /\ UNCHANGED <<avail, availRing>>

\* setUsedElem and publishUsed for the next n available chains.
giveBack(n) ==
  /\ ring' = [ring EXCEPT !.lastAvail = (@ + n) % IndexMod, !.usedIdx = (@ + n) % IndexMod]
  /\ usedRing' = [s \in Heads |->
       LET i == (s - ring.usedIdx) % Num IN IF i < n THEN ChainAt(i) ELSE usedRing[s]]
  /\ used' = (ring.usedIdx + n) % IndexMod
  /\ UNCHANGED <<avail, availRing>>

SetPump(i, p) == pumps' = [pumps EXCEPT ![i] = p]

\* txPump: drainTXLocked, then the frames go to the switch.
drain(i) ==
  /\ pumps[i].pc = "drain"
  /\ IF ring.started /\ mem # 0 THEN giveBack(Waiting) ELSE UNCHANGED <<ring, rings>>
  /\ SetPump(i, [pumps[i] EXCEPT !.pc = "wait"])
  /\ UNCHANGED <<fixed, session, events, driver>>

readKick(i) ==
  /\ pumps[i].pc = "wait" /\ pumps[i].fd = ring.kick /\ ring.kick \in events
  /\ events' = events \ {ring.kick}
  /\ SetPump(i, [pumps[i] EXCEPT !.pc = "drain"])
  /\ UNCHANGED <<fixed, session, ring, rings, driver>>

\* Mutant of exitPump: a failing read is tried again.
ExitRetries(i) ==
  /\ pumps[i].pc = "wait" /\ pumps[i].fd # ring.kick
  /\ SetPump(i, [pumps[i] EXCEPT !.pc = "drain"])
  /\ UNCHANGED <<fixed, session, ring, events, rings, driver>>

\* The descriptor was closed: a new pump takes over, or none.
exitPump(i) ==
  /\ pumps[i].pc = "wait" /\ pumps[i].fd # ring.kick
  /\ IF ring.started /\ ring.kick # 0
     THEN SetPump(i, NewPump(ring.kick)) /\ UNCHANGED ring
     ELSE /\ pumps' = SubSeq(pumps, 1, i - 1) \o SubSeq(pumps, i + 1, Len(pumps))
          /\ ring' = [ring EXCEPT !.pumpRunning = FALSE]
  /\ UNCHANGED <<fixed, session, events, rings, driver>>

txPump(i) == drain(i) \/ readKick(i) \/ exitPump(i)

\* Out of buffers: v.lastAvail = startAvail.
tooShort == UNCHANGED <<ring, rings>>

\* WriteFrame of a frame that fills k chains, up to and with the first one
\* that is broken; without mergeable buffers only one chain is tried.
WriteFrame(k) ==
  LET tried == {i \in 0 .. k - 1 : i < Waiting /\ (mrg \/ i = 0)}
      bad   == {i \in tried : ChainAt(i) \in Broken}
  IN /\ queue = "rx" /\ ring.started /\ mem # 0
     /\ \/ \E b \in bad : (\A i \in bad : b <= i) /\ giveBack(b + 1)
        \/ bad = {} /\ Cardinality(tried) = k /\ giveBack(k)
        \/ bad = {} /\ Cardinality(tried) < k /\ tooShort
     /\ UNCHANGED <<fixed, session, pumps, events, driver>>

-----------------------------------------------------------------------------
(* The guest's driver. *)

Offer(h) ==
  /\ h \in free
  /\ free' = free \ {h}
  /\ availRing' = [availRing EXCEPT ![avail % Num] = h]
  /\ avail' = (avail + 1) % IndexMod
  /\ owed' = (queue = "tx")   \* nobody reads the receive ring's kicks
  /\ UNCHANGED <<fixed, session, ring, pumps, events, used, usedRing, seen>>

Kick ==
  /\ owed
  /\ owed' = FALSE
  /\ events' = {ring.kick} \ {0}   \* one that is closed has no reader
  /\ UNCHANGED <<fixed, session, ring, pumps, rings, seen, free>>

Collect ==
  /\ seen # used
  /\ free' = free \cup {usedRing[seen % Num]}
  /\ seen' = (seen + 1) % IndexMod
  /\ UNCHANGED <<fixed, session, ring, pumps, events, rings, owed>>

-----------------------------------------------------------------------------
handle == \/ setMemTable \/ setVringAddr \/ GetVringBase \/ SetVringBase \/ ResetOwner
          \/ \E fd \in 0 .. MaxKicks : setVringKick(fd)
          \/ \E on \in BOOLEAN : SetFeatures(on) \/ SetVringEnable(on)

Pumping == \E i \in 1 .. Len(pumps) : txPump(i)

Next == \/ handle \/ Close \/ Hangup \/ Pumping \/ Kick \/ Collect
        \/ \E k \in 1 .. Num : WriteFrame(k)
        \/ \E h \in Heads : Offer(h)

Spec == Init /\ [][Next]_vars

\* Goroutines go on, and a driver that has offered chains kicks.
FairSpec == Spec /\ WF_vars(Pumping) /\ WF_vars(Kick)

-----------------------------------------------------------------------------
(* Properties. *)

Index == 0 .. IndexMod - 1
Rings == [desc: Nat, kick: Nat, enabled: BOOLEAN, started: BOOLEAN,
          pumpRunning: BOOLEAN, lastAvail: Index, usedIdx: Index]

\* NetDevice: "Guest memory is only touched with d.mu held and v.started true;
\* teardown (which unmaps) flips started under the same lock": a started ring
\* points into the memory table that is mapped now, never into an older one.
StartedIsMapped == ring.started => mem # 0 /\ ring.desc = mem /\ ring.kick # 0

\* vring.pumpRunning "tracks whether a TX pump goroutine is alive": there is at
\* most one pump, whatever pauses, stops and new descriptors overlap with it.
OnePump == Len(pumps) <= 1 /\ (ring.pumpRunning <=> pumps # <<>>)

\* The abstract queue: the rings read from lastAvail to avail and from seen to
\* used.
Window(f, i, n) == [k \in 1 .. n |-> f[(i + (k - 1)) % Num]]
Offered  == Window(availRing, ring.lastAvail, Waiting)
Returned == Window(usedRing, seen, Dist(seen, used))

Queue == INSTANCE ChainQueue
  WITH Chains <- Heads, offered <- Offered, returned <- Returned

\* queue.go, drainTXLocked, WriteFrame: to the driver a ring is a queue that
\* gives every chain back once and in the order of the offers; configuration,
\* pauses, new memory tables, restarts from a saved index and the end of the
\* session are invisible in it.
IsChainQueue == Queue!Spec

\* evalRingLocked: "chains queued during the pause are processed now": a
\* transmit ring that stays started is emptied again and again, so no kick is
\* lost in a pause, a change of the descriptor or the end of a pump.
TxServed == []<>(queue = "rx" \/ ~ring.started \/ Waiting = 0)

\* stopRingLocked: closing the descriptor "unblocks the pump's eventfd read ->
\* pump exits": after the end of the session no pump is left.
PumpsEnd == []<>(serving # "on" => pumps = <<>>)
=============================================================================

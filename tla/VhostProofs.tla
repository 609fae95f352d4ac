----------------------------- MODULE VhostProofs -----------------------------
(***************************************************************************)
(* Proofs about a vhost-user port and its sessions: about VhostRing for    *)
(* every ring size, index width, number of kick descriptors and memory     *)
(* tables, and about VhostPort for any number of sessions.                 *)
(***************************************************************************)
EXTENDS Vhost, TLAPS

-----------------------------------------------------------------------------
(* The ring of a session.  It never points into unmapped memory while it   *)
(* is started, and it never has two pumps.  Neither is inductive alone:    *)
(* StartedIsMapped needs that the ring's slices, started or not, belong to *)
(* the present memory table; OnePump needs that only the transmit ring has *)
(* pumps.                                                                  *)

Pumps == [fd: Nat, pc: {"drain", "wait"}]

Types ==
  /\ queue \in {"rx", "tx"}
  /\ ring \in Rings
  /\ maps \in Nat /\ mem \in 0 .. maps
  /\ kicks \in 0 .. MaxKicks /\ ring.kick <= kicks
  /\ pumps \in Seq(Pumps)
  /\ \A i \in 1 .. Len(pumps) : pumps[i].fd \in 1 .. MaxKicks
  /\ events \subseteq 1 .. MaxKicks
  /\ base \in Index \cup {-1}
  /\ {avail, used, seen} \subseteq Index

\* The slices of the ring, when it has any, point into the present table.
DescIsMapped == ring.desc # 0 => ring.desc = mem

OnlyTxPumps == pumps # <<>> => queue = "tx"

Inv == Types /\ DescIsMapped /\ StartedIsMapped /\ OnePump /\ OnlyTxPumps

-----------------------------------------------------------------------------
(* Lemmas. *)

\* What the step proofs need of the assumption on the constants.
LEMMA Bounds == IndexMod \in Nat \ {0} /\ MaxKicks \in Nat /\ Num \in Nat
BY VhostAssumption

\* Index arithmetic stays in range, as that of the code's uint16 does.
LEMMA ModIndex == \A a \in Int : a % IndexMod \in Index
BY Bounds DEF Index

\* A ring with a new pump, or with none, keeps the pump's type and number.
LEMMA OneMore ==
  ASSUME NEW p \in Pumps, p.fd \in 1 .. MaxKicks
  PROVE  LET q == Append(<<>>, p) IN
           q \in Seq(Pumps) /\ Len(q) = 1 /\ q # <<>> /\ \A i \in 1 .. Len(q) : q[i].fd \in 1 .. MaxKicks
OBVIOUS

\* What evalRingLocked may be relied on for: it starts a ring only when its
\* slices point into the table m and it has a descriptor, and starts a pump
\* only for a transmit ring that has none.
LEMMA EvalRing ==
  ASSUME Inv, NEW r \in Rings, NEW m \in Nat,
         r.pumpRunning = ring.pumpRunning, r.kick <= MaxKicks,
         r.desc # 0 => r.desc = m,
         r.started => m # 0 /\ r.desc = m /\ r.kick # 0,
         evalRing(r, m)
  PROVE  /\ ring' \in Rings /\ ring'.kick = r.kick
         /\ ring'.desc # 0 => ring'.desc = m
         /\ ring'.started => m # 0 /\ ring'.desc = m /\ ring'.kick # 0
         /\ pumps' \in Seq(Pumps) /\ Len(pumps') <= 1
         /\ \A i \in 1 .. Len(pumps') : pumps'[i].fd \in 1 .. MaxKicks
         /\ ring'.pumpRunning <=> pumps' # <<>>
         /\ pumps' # <<>> => queue = "tx"
         /\ events' \subseteq 1 .. MaxKicks
<1> USE Bounds
<1> DEFINE ready == ~r.started /\ m # 0 /\ r.desc # 0 /\ r.kick # 0 /\ (protoOn => r.enabled)
<1>1. CASE ~ready
  <2>1. ring' = r /\ pumps' = pumps /\ events' \subseteq events
    BY <1>1 DEF evalRing, Readable
  <2> QED BY <2>1 DEF Inv, Types, OnePump, OnlyTxPumps, Rings
<1>2. CASE ready
  <2>1. startRing(r)
    BY <1>2 DEF evalRing
  <2>2. ring' = [r EXCEPT !.started = TRUE, !.pumpRunning = queue = "tx"]
    BY <2>1 DEF startRing
  <2>3. /\ ring' \in Rings /\ ring'.kick = r.kick /\ ring'.desc = r.desc
        /\ ring'.started /\ ring'.pumpRunning = (queue = "tx")
    BY <2>2 DEF Rings
  <2>4. /\ ring'.desc # 0 => ring'.desc = m
        /\ ring'.started => m # 0 /\ ring'.desc = m /\ ring'.kick # 0
    BY <2>3, <1>2
  <2>5. CASE queue = "tx" /\ ~r.pumpRunning
    <3>1. pumps = <<>>
      BY <2>5 DEF Inv, OnePump
    <3>2. pumps' = Append(<<>>, NewPump(r.kick)) /\ events' \subseteq events
      BY <2>1, <2>5, <3>1 DEF startRing, Readable
    <3>3. NewPump(r.kick) \in Pumps /\ NewPump(r.kick).fd \in 1 .. MaxKicks
      BY <1>2 DEF NewPump, Pumps, Rings
    <3>4. /\ pumps' \in Seq(Pumps) /\ Len(pumps') = 1 /\ pumps' # <<>>
          /\ \A i \in 1 .. Len(pumps') : pumps'[i].fd \in 1 .. MaxKicks
      BY <3>2, <3>3, OneMore
    <3>5. events' \subseteq 1 .. MaxKicks
      BY <3>2 DEF Inv, Types
    <3>6. ring'.pumpRunning
      BY <2>3, <2>5
    <3> QED BY <2>3, <2>4, <2>5, <3>4, <3>5, <3>6
  <2>6. CASE queue = "tx" /\ r.pumpRunning
    <3>1. pumps' = pumps /\ events' = {r.kick}
      BY <2>1, <2>6 DEF startRing
    <3>2. r.kick \in 1 .. MaxKicks
      BY <1>2 DEF Rings
    <3> QED BY <2>3, <2>4, <2>6, <3>1, <3>2 DEF Inv, Types, OnePump
  <2>7. CASE queue # "tx"
    <3>1. pumps' = pumps /\ events' \subseteq events
      BY <2>1, <2>7 DEF startRing, Readable
    <3>2. pumps = <<>>
      BY <2>7 DEF Inv, OnlyTxPumps
    <3> QED BY <2>3, <2>4, <2>7, <3>1, <3>2 DEF Inv, Types, OnePump
  <2> QED BY <2>5, <2>6, <2>7
<1> QED BY <1>1, <1>2

\* stopRingLocked keeps the ring's type, its indices and its pump.
LEMMA StopRing ==
  ASSUME NEW r \in Rings
  PROVE  /\ stopRing(r) \in Rings /\ ~stopRing(r).started
         /\ stopRing(r).desc = 0 /\ stopRing(r).kick = 0
         /\ stopRing(r).pumpRunning = r.pumpRunning /\ stopRing(r).lastAvail = r.lastAvail
BY DEF Rings, stopRing

-----------------------------------------------------------------------------
(* The messages of the front-end. *)

\* A handler that ends in evalRingLocked with ring r and table mem'.
LEMMA EvalStep ==
  ASSUME Inv, Handles, NEW r \in Rings,
         r.pumpRunning = ring.pumpRunning, r.kick <= kicks',
         r.desc # 0 => r.desc = mem',
         r.started => mem' # 0 /\ r.desc = mem' /\ r.kick # 0,
         maps' \in Nat, mem' \in 0 .. maps', kicks' \in 0 .. MaxKicks, base' \in Index \cup {-1},
         evalRing(r, mem')
  PROVE  Inv'
<1> USE Bounds
<1>1. mem' \in Nat /\ r.kick <= MaxKicks
  BY DEF Rings
<1>2. queue' = queue /\ avail' = avail /\ used' = used /\ seen' = seen
  BY DEF Handles, fixed, rings, driver
<1>3. /\ ring' \in Rings /\ ring'.kick = r.kick
      /\ ring'.desc # 0 => ring'.desc = mem'
      /\ ring'.started => mem' # 0 /\ ring'.desc = mem' /\ ring'.kick # 0
      /\ pumps' \in Seq(Pumps) /\ Len(pumps') <= 1
      /\ \A i \in 1 .. Len(pumps') : pumps'[i].fd \in 1 .. MaxKicks
      /\ ring'.pumpRunning <=> pumps' # <<>>
      /\ pumps' # <<>> => queue = "tx"
      /\ events' \subseteq 1 .. MaxKicks
  BY <1>1, EvalRing
<1>4. Types'
  BY <1>2, <1>3 DEF Inv, Types
<1> QED BY <1>2, <1>3, <1>4 DEF Inv, DescIsMapped, StartedIsMapped, OnePump, OnlyTxPumps

\* A handler that only stops the ring or changes one of its fields.
LEMMA QuietStep ==
  ASSUME Inv, Handles, ring' \in Rings, ring'.pumpRunning = ring.pumpRunning,
         ring'.desc \in {0, ring.desc}, ring'.kick \in {0, ring.kick},
         ring'.started => ring.started /\ ring'.desc = ring.desc /\ ring'.kick = ring.kick,
         base' \in Index \cup {-1}, events' \subseteq events, UNCHANGED <<mem, maps, kicks, pumps>>
  PROVE  Inv'
<1> USE Bounds
<1>1. queue' = queue /\ avail' = avail /\ used' = used /\ seen' = seen
  BY DEF Handles, fixed, rings, driver
<1>2. Types'
  BY <1>1 DEF Inv, Types, Rings
<1> QED BY <1>1, <1>2 DEF Inv, DescIsMapped, StartedIsMapped, OnePump, OnlyTxPumps

\* Every message that NetDevice.handle acts on keeps the invariant.
LEMMA HandleStep == Inv /\ handle => Inv'
<1> SUFFICES ASSUME Inv, handle PROVE Inv'
  OBVIOUS
<1> USE Bounds
<1>0. ring \in Rings /\ mem \in Nat /\ maps \in Nat /\ kicks \in 0 .. MaxKicks /\ ring.kick <= kicks
  BY DEF Inv, Types
<1>1. CASE setMemTable
  <2> DEFINE r == IF mem # 0 THEN stopRing(ring) ELSE ring
  <2>1. Handles /\ mem' = maps + 1 /\ maps' = maps + 1 /\ kicks' = kicks /\ base' = base /\ evalRing(r, mem')
    BY <1>1 DEF setMemTable
  <2>2. r \in Rings /\ r.pumpRunning = ring.pumpRunning /\ r.kick <= kicks' /\ r.desc = 0 /\ ~r.started
    BY <1>0, <2>1, StopRing DEF Inv, DescIsMapped, StartedIsMapped, Rings
  <2> QED BY <1>0, <2>1, <2>2, EvalStep DEF Inv, Types
<1>2. CASE setVringAddr
  <2> DEFINE r == [ring EXCEPT !.desc = mem, !.usedIdx = used]
  <2>1. Handles /\ mem # 0 /\ mem' = mem /\ maps' = maps /\ kicks' = kicks /\ base' = base /\ evalRing(r, mem')
    BY <1>2 DEF setVringAddr
  <2>2. used \in Index
    BY DEF Inv, Types
  <2>3. /\ r \in Rings /\ r.pumpRunning = ring.pumpRunning /\ r.kick = ring.kick /\ r.desc = mem
        /\ r.started = ring.started
    BY <1>0, <2>2 DEF Rings
  <2>4. r.started => mem' # 0 /\ r.desc = mem' /\ r.kick # 0
    BY <2>1, <2>3 DEF Inv, StartedIsMapped
  <2> QED BY <1>0, <2>1, <2>3, <2>4, EvalStep DEF Inv, Types
<1>3. CASE GetVringBase
  <2>1. ring' = stopRing(ring) /\ base' = ring.lastAvail
    BY <1>3 DEF GetVringBase
  <2>2. base' \in Index
    BY <1>0, <2>1 DEF Rings
  <2>3. Handles /\ events' = {} /\ UNCHANGED <<mem, maps, kicks, pumps>>
    BY <1>3 DEF GetVringBase
  <2> QED BY <1>0, <2>1, <2>2, <2>3, StopRing, QuietStep
<1>4. CASE SetVringBase
  <2>1. Handles /\ base >= 0 /\ ring' = [ring EXCEPT !.lastAvail = base] /\ base' = -1
        /\ UNCHANGED <<mem, maps, kicks, pumps, events>>
    BY <1>4 DEF SetVringBase
  <2>2. base \in Index
    BY <2>1 DEF Inv, Types
  <2>3. /\ ring' \in Rings /\ ring'.pumpRunning = ring.pumpRunning /\ ring'.desc = ring.desc
        /\ ring'.kick = ring.kick /\ ring'.started = ring.started
    BY <1>0, <2>1, <2>2 DEF Rings
  <2> QED BY <2>1, <2>3, QuietStep
<1>5. CASE ResetOwner
  <2>1. Handles /\ ring' = stopRing(ring) /\ base' = base /\ events' = {} /\ UNCHANGED <<mem, maps, kicks, pumps>>
    BY <1>5 DEF ResetOwner
  <2>2. base' \in Index \cup {-1}
    BY <2>1 DEF Inv, Types
  <2> QED BY <1>0, <2>1, <2>2, StopRing, QuietStep
<1>6. ASSUME NEW fd \in 0 .. MaxKicks, setVringKick(fd) PROVE Inv'
  <2> DEFINE r == [ring EXCEPT !.kick = fd, !.started = @ /\ ring.kick = 0]
  <2>1. Handles /\ mem' = mem /\ maps' = maps /\ base' = -1 /\ evalRing(r, mem')
    BY <1>6 DEF setVringKick
  <2>2. kicks' \in 0 .. MaxKicks /\ fd <= kicks'
    BY <1>0, <1>6 DEF setVringKick
  <2>3. ring.started => ring.kick # 0
    BY DEF Inv, StartedIsMapped
  <2>4. (ring.started /\ ring.kick = 0) = FALSE
    BY <2>3, Zenon
  <2> DEFINE q == [ring EXCEPT !.kick = fd, !.started = FALSE]
  <2>5. /\ q \in Rings /\ q.pumpRunning = ring.pumpRunning /\ q.kick = fd /\ q.desc = ring.desc
        /\ ~q.started
    <3>1. fd \in Nat
      OBVIOUS
    <3> QED BY <1>0, <3>1 DEF Rings
  <2>6. /\ r \in Rings /\ r.pumpRunning = ring.pumpRunning /\ r.kick = fd /\ r.desc = ring.desc
        /\ ~r.started
    <3>1. r = q
      BY <2>4
    <3> QED BY <2>5, <3>1, Zenon
  <2>7. r.desc # 0 => r.desc = mem'
    BY <2>1, <2>6 DEF Inv, DescIsMapped
  <2> QED BY <1>0, <2>1, <2>2, <2>6, <2>7, EvalStep DEF Inv, Types
<1>7. ASSUME NEW on \in BOOLEAN, SetFeatures(on) PROVE Inv'
  <2>1. Handles /\ base' = base /\ ring' = ring /\ UNCHANGED <<mem, maps, kicks, pumps, events>>
    BY <1>7 DEF SetFeatures
  <2> QED BY <1>0, <2>1, QuietStep DEF Inv, Types
<1>8. ASSUME NEW on \in BOOLEAN, SetVringEnable(on) PROVE Inv'
  <2>0. Handles /\ UNCHANGED <<mem, maps, kicks, base>>
    BY <1>8 DEF SetVringEnable
  <2>1. CASE on
    <3> DEFINE r == [ring EXCEPT !.enabled = TRUE]
    <3>1. evalRing(r, mem')
      BY <1>8, <2>0, <2>1 DEF SetVringEnable
    <3>2. /\ r \in Rings /\ r.pumpRunning = ring.pumpRunning /\ r.kick = ring.kick
          /\ r.desc = ring.desc /\ r.started = ring.started
      BY <1>0 DEF Rings
    <3>3. /\ r.desc # 0 => r.desc = mem'
          /\ r.started => mem' # 0 /\ r.desc = mem' /\ r.kick # 0
      BY <2>0, <3>2 DEF Inv, DescIsMapped, StartedIsMapped
    <3> QED BY <1>0, <2>0, <3>1, <3>2, <3>3, EvalStep DEF Inv, Types
  <2>2. CASE ~on
    <3>1. ring' = [ring EXCEPT !.enabled = FALSE, !.started = FALSE] /\ UNCHANGED <<pumps, events>>
      BY <1>8, <2>2 DEF SetVringEnable
    <3>2. /\ ring' \in Rings /\ ring'.pumpRunning = ring.pumpRunning /\ ring'.desc = ring.desc
          /\ ring'.kick = ring.kick /\ ~ring'.started
      BY <1>0, <3>1 DEF Rings
    <3>3. base' \in Index \cup {-1}
      BY <2>0 DEF Inv, Types
    <3> QED BY <2>0, <3>1, <3>2, <3>3, QuietStep
  <2> QED BY <2>1, <2>2
<1> QED BY <1>1, <1>2, <1>3, <1>4, <1>5, <1>6, <1>7, <1>8 DEF handle

-----------------------------------------------------------------------------
(* Close, the pump, WriteFrame and the driver. *)

\* Close stops the ring and unmaps the memory in one critical section.
LEMMA TearDownStep ==
  ASSUME Inv, TearDown PROVE Inv'
<1> USE Bounds
<1>1. /\ ring' = stopRing(ring) /\ mem' = 0 /\ events' = {}
      /\ UNCHANGED <<queue, maps, kicks, base, pumps, avail, used, seen>>
  BY DEF TearDown, fixed, rings, driver
<1>2. /\ ring' \in Rings /\ ~ring'.started /\ ring'.desc = 0 /\ ring'.kick = 0
      /\ ring'.pumpRunning = ring.pumpRunning
  BY <1>1, StopRing DEF Inv, Types
<1>3. Types'
  BY <1>1, <1>2 DEF Inv, Types
<1> QED BY <1>1, <1>2, <1>3 DEF Inv, DescIsMapped, StartedIsMapped, OnePump, OnlyTxPumps

\* Chains that are given back move only the indices.
LEMMA GiveBack ==
  ASSUME Inv, NEW n \in Int, giveBack(n)
  PROVE  /\ ring' \in Rings /\ used' \in Index /\ avail' = avail
         /\ ring'.desc = ring.desc /\ ring'.kick = ring.kick /\ ring'.started = ring.started
         /\ ring'.pumpRunning = ring.pumpRunning
<1> USE Bounds
<1>1. ring \in Rings /\ ring.lastAvail \in Int /\ ring.usedIdx \in Int
  BY DEF Inv, Types, Rings, Index
<1> DEFINE a == (ring.lastAvail + n) % IndexMod
           u == (ring.usedIdx + n) % IndexMod
<1>2. a \in Index /\ u \in Index
  BY <1>1, ModIndex
<1>3. ring' = [ring EXCEPT !.lastAvail = a, !.usedIdx = u] /\ used' = u /\ avail' = avail
  BY DEF giveBack
<1> HIDE DEF a, u
<1> QED BY <1>1, <1>2, <1>3 DEF Rings

\* A step that changes the ring's indices and nothing of the session.
LEMMA DataStep ==
  ASSUME Inv, ring' \in Rings, {avail', used', seen'} \subseteq Index,
         ring'.desc = ring.desc, ring'.kick = ring.kick, ring'.started = ring.started,
         ring'.pumpRunning = ring.pumpRunning, events' \subseteq 1 .. MaxKicks,
         UNCHANGED <<queue, mem, maps, kicks, base>>,
         pumps' \in Seq(Pumps), Len(pumps') = Len(pumps),
         \A i \in 1 .. Len(pumps) : pumps'[i].fd \in 1 .. MaxKicks
  PROVE  Inv'
<1> USE Bounds
<1>1. pumps' = <<>> <=> pumps = <<>>
  BY DEF Inv, Types
<1>2. Types'
  BY DEF Inv, Types
<1> QED BY <1>1, <1>2 DEF Inv, DescIsMapped, StartedIsMapped, OnePump, OnlyTxPumps

\* One pump's record is replaced.
LEMMA SetPumpKeeps ==
  ASSUME Inv, NEW i \in 1 .. Len(pumps), NEW p \in Pumps, p.fd \in 1 .. MaxKicks, SetPump(i, p)
  PROVE  /\ pumps' \in Seq(Pumps) /\ Len(pumps') = Len(pumps)
         /\ \A j \in 1 .. Len(pumps) : pumps'[j].fd \in 1 .. MaxKicks
BY DEF Inv, Types, SetPump

LEMMA PumpStep ==
  ASSUME Inv, NEW i \in 1 .. Len(pumps), txPump(i) PROVE Inv'
<1> USE Bounds
<1>0. /\ pumps \in Seq(Pumps) /\ pumps[i] \in Pumps /\ pumps[i].fd \in 1 .. MaxKicks
      /\ ring \in Rings /\ {avail, used, seen} \subseteq Index
  BY DEF Inv, Types
<1>1. CASE drain(i)
  <2>1. SetPump(i, [pumps[i] EXCEPT !.pc = "wait"]) /\ UNCHANGED <<fixed, session, events, driver>>
    BY <1>1 DEF drain
  <2>2. /\ [pumps[i] EXCEPT !.pc = "wait"] \in Pumps
        /\ [pumps[i] EXCEPT !.pc = "wait"].fd \in 1 .. MaxKicks
    BY <1>0 DEF Pumps
  <2>3. UNCHANGED <<queue, mem, maps, kicks, base, events, seen>>
    BY <2>1 DEF fixed, session, driver
  <2>4. /\ ring' \in Rings /\ used' \in Index /\ avail' = avail
        /\ ring'.desc = ring.desc /\ ring'.kick = ring.kick /\ ring'.started = ring.started
        /\ ring'.pumpRunning = ring.pumpRunning
    <3>1. CASE ring.started /\ mem # 0
      <4>1. Waiting \in Int
        <5>1. avail \in Int /\ ring.lastAvail \in Int
          BY <1>0 DEF Index, Rings
        <5> DEFINE d == avail - ring.lastAvail
        <5>2. d \in Int
          BY <5>1
        <5> HIDE DEF d
        <5>3. d % IndexMod \in Index
          BY <5>2, ModIndex
        <5> QED BY <5>3 DEF Waiting, Dist, Index, d
      <4>2. giveBack(Waiting)
        BY <1>1, <3>1 DEF drain
      <4> QED BY <4>1, <4>2, GiveBack
    <3>2. CASE ~(ring.started /\ mem # 0)
      <4>1. UNCHANGED <<ring, rings>>
        BY <1>1, <3>2 DEF drain
      <4> QED BY <1>0, <4>1 DEF rings
    <3> QED BY <3>1, <3>2
  <2>5. events' \subseteq 1 .. MaxKicks
    BY <2>3 DEF Inv, Types
  <2> QED BY <1>0, <2>1, <2>2, <2>3, <2>4, <2>5, SetPumpKeeps, DataStep
<1>2. CASE readKick(i)
  <2>1. /\ SetPump(i, [pumps[i] EXCEPT !.pc = "drain"]) /\ events' = events \ {ring.kick}
        /\ UNCHANGED <<queue, mem, maps, kicks, base, ring, avail, used, seen>>
    BY <1>2 DEF readKick, fixed, session, rings, driver
  <2>2. /\ [pumps[i] EXCEPT !.pc = "drain"] \in Pumps
        /\ [pumps[i] EXCEPT !.pc = "drain"].fd \in 1 .. MaxKicks
    BY <1>0 DEF Pumps
  <2>3. events' \subseteq 1 .. MaxKicks
    BY <2>1 DEF Inv, Types
  <2> QED BY <1>0, <2>1, <2>2, <2>3, SetPumpKeeps, DataStep
<1>3. CASE exitPump(i)
  <2>0. UNCHANGED <<queue, mem, maps, kicks, base, events, avail, used, seen>>
    BY <1>3 DEF exitPump, fixed, session, rings, driver
  <2>1. CASE ring.started /\ ring.kick # 0
    <3>1. SetPump(i, NewPump(ring.kick)) /\ ring' = ring
      BY <1>3, <2>1 DEF exitPump
    <3>2. ring.kick \in 1 .. MaxKicks
      BY <1>0, <2>1 DEF Inv, Types, Rings
    <3>3. NewPump(ring.kick) \in Pumps /\ NewPump(ring.kick).fd \in 1 .. MaxKicks
      BY <3>2 DEF NewPump, Pumps
    <3>4. events' \subseteq 1 .. MaxKicks
      BY <2>0 DEF Inv, Types
    <3> QED BY <1>0, <2>0, <3>1, <3>3, <3>4, SetPumpKeeps, DataStep
  <2>2. CASE ~(ring.started /\ ring.kick # 0)
    <3>1. /\ pumps' = SubSeq(pumps, 1, i - 1) \o SubSeq(pumps, i + 1, Len(pumps))
          /\ ring' = [ring EXCEPT !.pumpRunning = FALSE]
      BY <1>3, <2>2 DEF exitPump
    <3>2. i = 1 /\ Len(pumps) = 1
      <4>1. Len(pumps) <= 1
        BY Zenon DEF Inv, OnePump
      <4>2. Len(pumps) \in Nat
        BY <1>0
      <4>3. i \in 1 .. Len(pumps)
        OBVIOUS
      <4> QED BY <4>1, <4>2, <4>3
    <3>3. pumps' = <<>>
      BY <1>0, <3>1, <3>2
    <3>4. /\ ring' \in Rings /\ ring'.desc = ring.desc /\ ring'.kick = ring.kick
          /\ ring'.started = ring.started /\ ~ring'.pumpRunning
      BY <1>0, <3>1 DEF Rings
    <3>5. Types'
      BY <2>0, <3>3, <3>4 DEF Inv, Types
    <3> QED BY <2>0, <3>3, <3>4, <3>5 DEF Inv, DescIsMapped, StartedIsMapped, OnePump, OnlyTxPumps
  <2> QED BY <2>1, <2>2
<1> QED BY <1>1, <1>2, <1>3 DEF txPump

LEMMA WriteStep ==
  ASSUME Inv, NEW k \in 1 .. Num, WriteFrame(k) PROVE Inv'
<1> USE Bounds
<1>0. ring \in Rings /\ {avail, used, seen} \subseteq Index /\ pumps \in Seq(Pumps)
  BY DEF Inv, Types
<1>1. UNCHANGED <<queue, mem, maps, kicks, base, pumps, events, seen>>
  BY DEF WriteFrame, fixed, session, driver
<1>2. \/ \E n \in Int : giveBack(n)
      \/ UNCHANGED <<ring, rings>>
  BY DEF WriteFrame, tooShort
<1>3. /\ ring' \in Rings /\ used' \in Index /\ avail' = avail
      /\ ring'.desc = ring.desc /\ ring'.kick = ring.kick /\ ring'.started = ring.started
      /\ ring'.pumpRunning = ring.pumpRunning
  <2>1. CASE \E n \in Int : giveBack(n)
    BY <2>1, GiveBack
  <2>2. CASE UNCHANGED <<ring, rings>>
    BY <1>0, <2>2 DEF rings
  <2> QED BY <1>2, <2>1, <2>2
<1>4. /\ pumps' \in Seq(Pumps) /\ Len(pumps') = Len(pumps) /\ events' \subseteq 1 .. MaxKicks
      /\ \A i \in 1 .. Len(pumps) : pumps'[i].fd \in 1 .. MaxKicks
  BY <1>1 DEF Inv, Types
<1> QED BY <1>0, <1>1, <1>3, <1>4, DataStep

LEMMA DriverStep ==
  ASSUME Inv, Kick \/ Collect \/ \E h \in Heads : Offer(h) PROVE Inv'
<1> USE Bounds
<1>0. /\ {avail, used, seen} \subseteq Index /\ kicks \in 0 .. MaxKicks /\ events \subseteq 1 .. MaxKicks
      /\ ring \in Rings
  BY DEF Inv, Types
<1>1. (avail + 1) % IndexMod \in Index /\ (seen + 1) % IndexMod \in Index
  BY <1>0, ModIndex DEF Index
<1>2. UNCHANGED <<queue, mem, maps, kicks, base, ring, pumps, used>>
  BY DEF Kick, Collect, Offer, fixed, session, rings, driver
<1>3. avail' \in {avail, (avail + 1) % IndexMod} /\ seen' \in {seen, (seen + 1) % IndexMod}
  BY DEF Kick, Collect, Offer, rings, driver
<1>4. events' \subseteq 1 .. MaxKicks
  <2>1. events' = events \/ events' = {ring.kick} \ {0}
    BY DEF Kick, Collect, Offer
  <2>2. ring.kick # 0 => ring.kick \in 1 .. MaxKicks
    BY <1>0 DEF Inv, Types, Rings
  <2> QED BY <1>0, <2>1, <2>2
<1>5. /\ pumps' \in Seq(Pumps) /\ Len(pumps') = Len(pumps)
      /\ \A i \in 1 .. Len(pumps) : pumps'[i].fd \in 1 .. MaxKicks
  BY <1>2 DEF Inv, Types
<1> QED BY <1>0, <1>1, <1>2, <1>3, <1>4, <1>5, DataStep

-----------------------------------------------------------------------------
(* The theorems. *)

LEMMA InitInv == Init => Inv
<1> SUFFICES ASSUME Init PROVE Inv
  OBVIOUS
<1> USE Bounds
<1>1. 0 \in Index
  BY DEF Index
<1>2. queue \in {"rx", "tx"}
  BY VhostAssumption DEF Init
<1>3. Types
  BY <1>1, <1>2 DEF Init, Types, Rings
<1> QED BY <1>3 DEF Init, Inv, DescIsMapped, StartedIsMapped, OnePump, OnlyTxPumps

LEMMA NextInv == Inv /\ [Next]_vars => Inv'
<1> SUFFICES ASSUME Inv, [Next]_vars PROVE Inv'
  OBVIOUS
<1>1. CASE handle
  BY <1>1, HandleStep
<1>2. CASE Close \/ Hangup
  BY <1>2, TearDownStep DEF Close, Hangup
<1>3. CASE Pumping
  BY <1>3, PumpStep DEF Pumping
<1>4. CASE Kick \/ Collect \/ \E h \in Heads : Offer(h)
  BY <1>4, DriverStep
<1>5. ASSUME NEW k \in 1 .. Num, WriteFrame(k) PROVE Inv'
  BY <1>5, WriteStep
<1>6. CASE UNCHANGED vars
  BY <1>6 DEF vars, fixed, session, rings, driver, Inv, Types, DescIsMapped, StartedIsMapped,
              OnePump, OnlyTxPumps
<1> QED BY <1>1, <1>2, <1>3, <1>4, <1>5, <1>6 DEF Next

LEMMA AlwaysInv == Spec => []Inv
BY InitInv, NextInv, PTL DEF Spec

\* NetDevice: a started ring points into the memory table that is mapped, for
\* any number of memory tables, kick descriptors, pauses and restarts, and
\* for a message that is handled after Close.
THEOREM StartedRingIsMapped == Spec => []StartedIsMapped
BY AlwaysInv, PTL DEF Inv

\* evalRingLocked, txPump: the ring never has two pumps, and pumpRunning says
\* whether it has one, for any number of descriptors and any ring size.
THEOREM AtMostOnePump == Spec => []OnePump
BY AlwaysInv, PTL DEF Inv

-----------------------------------------------------------------------------
(* The port.  Neither of its properties is inductive: LiveIsInstalled needs *)
(* that the accept loop, from the moment it has made room to adopt, finds  *)
(* no session installed, and EndIsReported that up outlives a session only *)
(* while the accept loop is about to install the next one.                 *)

AccPCs == {"accept", "test", "kick", "relock", "adopt", "end"}

PortTypes ==
  /\ closed \in BOOLEAN /\ up \in BOOLEAN
  /\ dev \in Sessions \cup {None}
  /\ st \in [Sessions -> {"away", "open", "refused", "live", "closed", "ended"}]
  /\ acc \in [pc: AccPCs, c: Sessions \cup {None}, old: Sessions \cup {None}]
  /\ closer \in [pc: {"idle", "marked", "stop", "done"}, dev: Sessions \cup {None}]

\* Between test and adopt nobody else installs a session.
Replacing == acc.pc \in {"kick", "relock", "adopt"}

AcceptLoop ==
  /\ acc.pc \in {"test", "kick", "relock", "adopt"} => acc.c \in Sessions /\ st[acc.c] = "open"
  /\ Replacing => dev = None
  /\ IF acc.pc = "kick" THEN acc.old \in Sessions ELSE acc.old = None

\* Who knows of a session that came up: the field, a State(false) that is about
\* to call NotifyDown, or nobody needs to.
Reports ==
  ~closed => /\ up => dev # None \/ Replacing
             /\ upSince # {} => up \/ notify # {}

PortInv == PortTypes /\ AcceptLoop /\ LiveIsInstalled /\ Reports

LEMMA PortInit == P!Init => PortInv
<1> SUFFICES ASSUME P!Init PROVE PortInv
  OBVIOUS
<1>1. PICK c \in Sessions \cup {None} :
        /\ acc = IF c = None THEN P!Idle ELSE [P!Idle EXCEPT !.pc = "adopt", !.c = c]
  BY PortAssumption DEF P!Init
<1>2. acc.c = c /\ acc.old = None /\ acc.pc = (IF c = None THEN "accept" ELSE "adopt")
      /\ acc \in [pc: AccPCs, c: Sessions \cup {None}, old: Sessions \cup {None}]
  BY <1>1 DEF P!Idle, AccPCs
<1>3. \A d \in Sessions : st[d] # "live" /\ (st[d] = "open" <=> d = c)
  BY <1>2, PortAssumption DEF P!Init
<1>4. PortTypes
  BY <1>2 DEF P!Init, PortTypes
<1>5. AcceptLoop
  BY <1>2, <1>3 DEF P!Init, AcceptLoop, Replacing
<1>6. LiveIsInstalled /\ Reports
  BY <1>3 DEF P!Init, LiveIsInstalled, P!LiveIsInstalled, Reports
<1> QED BY <1>4, <1>5, <1>6 DEF PortInv

\* NetDevice.Close of one session, by whomever: it is live no more, and the
\* others are as they were.
LEMMA CloseDevFacts ==
  ASSUME PortTypes, NEW c \in Sessions, P!CloseDev(c)
  PROVE  /\ st' \in [Sessions -> {"away", "open", "refused", "live", "closed", "ended"}]
         /\ \A d \in Sessions : st'[d] = IF d = c /\ st[c] = "live" THEN "closed" ELSE st[d]
BY DEF PortTypes, P!CloseDev

LEMMA PortStep == PortInv /\ [P!Next]_(P!vars) => PortInv'
<1> SUFFICES ASSUME PortInv, [P!Next]_(P!vars) PROVE PortInv'
  OBVIOUS
<1> USE PortAssumption DEF PortInv, LiveIsInstalled, P!LiveIsInstalled, P!Idle, P!fields
<1>1. CASE P!test
  <2>1. CASE closed /\ P!Refuse("end") /\ UNCHANGED dev
    BY <1>1, <2>1 DEF P!test, P!Refuse, PortTypes, AccPCs, AcceptLoop, Replacing, Reports
  <2>2. CASE ~closed /\ dev # None /\ P!Refuse("accept") /\ UNCHANGED dev
    BY <1>1, <2>2 DEF P!test, P!Refuse, PortTypes, AccPCs, AcceptLoop, Replacing, Reports
  <2>3. CASE ~closed /\ dev # None /\ dev' = None /\ acc' = [acc EXCEPT !.pc = "kick", !.old = dev] /\ UNCHANGED st
    BY <1>1, <2>3 DEF P!test, PortTypes, AccPCs, AcceptLoop, Replacing, Reports
  <2>4. CASE ~closed /\ dev = None /\ acc' = [acc EXCEPT !.pc = "adopt"] /\ UNCHANGED <<st, dev>>
    BY <1>1, <2>4 DEF P!test, PortTypes, AccPCs, AcceptLoop, Replacing, Reports
  <2> QED BY <1>1, <2>1, <2>2, <2>3, <2>4 DEF P!test
<1>2. CASE P!kick
  <2>1. /\ st' \in [Sessions -> {"away", "open", "refused", "live", "closed", "ended"}]
        /\ \A d \in Sessions : st'[d] = IF d = acc.old /\ st[d] = "live" THEN "closed" ELSE st[d]
    BY <1>2, CloseDevFacts DEF P!kick, AcceptLoop
  <2>2. acc' \in [pc: AccPCs, c: Sessions \cup {None}, old: Sessions \cup {None}]
        /\ acc'.pc = "relock" /\ acc'.c = acc.c /\ acc'.old = None
    BY <1>2 DEF P!kick, PortTypes, AccPCs
  <2> QED BY <1>2, <2>1, <2>2 DEF P!kick, PortTypes, AcceptLoop, Replacing, Reports
<1>3. CASE P!relock
  BY <1>3 DEF P!relock, P!Refuse, PortTypes, AccPCs, AcceptLoop, Replacing, Reports
<1>4. CASE P!adopt
  BY <1>4 DEF P!adopt, PortTypes, AccPCs, AcceptLoop, Replacing, Reports
<1>5. ASSUME NEW c \in Sessions, P!Accept(c) PROVE PortInv'
  BY <1>5 DEF P!Accept, PortTypes, AccPCs, AcceptLoop, Replacing, Reports
<1>6. ASSUME NEW c \in Sessions, P!RingStarts(c) PROVE PortInv'
  BY <1>6 DEF P!RingStarts, PortTypes, AcceptLoop, Replacing, Reports
<1>7. ASSUME NEW c \in Sessions, P!PeerGoes(c) PROVE PortInv'
  BY <1>7, CloseDevFacts DEF P!PeerGoes, PortTypes, AcceptLoop, Replacing, Reports
<1>8. ASSUME NEW c \in Sessions, P!StateUp(c) PROVE PortInv'
  <2>1. PortTypes'
    BY <1>8 DEF P!StateUp, P!Stale, PortTypes
  <2>2. AcceptLoop' /\ LiveIsInstalled'
    BY <1>8 DEF P!StateUp, P!Stale, PortTypes, AcceptLoop, Replacing
  <2>3. CASE dev = c
    BY <1>8, <2>1, <2>2, <2>3 DEF P!StateUp, P!Stale, Replacing, Reports
  <2>4. CASE dev # c
    BY <1>8, <2>1, <2>2, <2>4 DEF P!StateUp, P!Stale, Replacing, Reports
  <2> QED BY <2>3, <2>4
<1>9. ASSUME NEW c \in Sessions, P!StateDown(c) PROVE PortInv'
  <2>1. PortTypes'
    BY <1>9 DEF P!StateDown, P!Stale, PortTypes
  <2>2. AcceptLoop' /\ LiveIsInstalled'
    BY <1>9 DEF P!StateDown, P!Stale, PortTypes, AcceptLoop, Replacing
  <2>3. CASE dev = c
    BY <1>9, <2>1, <2>2, <2>3 DEF P!StateDown, P!Stale, Replacing, Reports
  <2>4. CASE dev # c
    BY <1>9, <2>1, <2>2, <2>4 DEF P!StateDown, P!Stale, Replacing, Reports
  <2> QED BY <2>3, <2>4
<1>10. ASSUME NEW c \in Sessions, P!NotifyDown(c) PROVE PortInv'
  BY <1>10 DEF P!NotifyDown, PortTypes, AcceptLoop, Replacing, Reports
<1>11. CASE P!Close
  BY <1>11 DEF P!Close, PortTypes, AcceptLoop, Replacing, Reports
<1>12. CASE P!CloseListener
  BY <1>12 DEF P!CloseListener, PortTypes, AcceptLoop, Replacing, Reports
<1>13. CASE P!CloseSession
  BY <1>13, CloseDevFacts DEF P!CloseSession, PortTypes, AcceptLoop, Replacing, Reports
<1>14. CASE UNCHANGED P!vars
  BY <1>14 DEF P!vars, PortTypes, AcceptLoop, Replacing, Reports
<1> QED BY <1>1, <1>2, <1>3, <1>4, <1>5, <1>6, <1>7, <1>8, <1>9, <1>10, <1>11, <1>12, <1>13, <1>14
        DEF P!Next, P!acceptLoop

LEMMA PortAlways == P!Spec => []PortInv
BY PortInit, PortStep, PTL DEF P!Spec

\* acceptLoop, adopt, State: until the port is closed, a session that
\* runs is the one frames are sent to, however sessions end, are replaced or
\* are turned away.
THEOREM LiveSessionIsInstalled == P!Spec => []LiveIsInstalled
<1>1. PortInv => LiveIsInstalled
  BY DEF PortInv
<1> QED BY <1>1, PortAlways, PTL

\* State: a port that has come to rest without a session has told the Switch so
\* since a session last came up, in whatever order the goroutines that report
\* the sessions' states run.
THEOREM EndOfSessionIsReported == P!Spec => []EndIsReported
<1>1. PortInv => EndIsReported
  BY DEF PortInv, Reports, Replacing, EndIsReported, P!EndIsReported
<1> QED BY <1>1, PortAlways, PTL
=============================================================================

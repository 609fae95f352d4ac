----------------------------- MODULE DhcpProofs -----------------------------
(***************************************************************************)
(* Proofs about Dhcp for any clients, addresses, ports, pools and static   *)
(* bindings: an address that a client counts on is leased to it at least   *)
(* as long as it counts on it, so no two clients count on one address.     *)
(*                                                                         *)
(* BoundIsLeased is not inductive.  The worker answers a message in three  *)
(* critical sections, and between them the API, the ports and the clock    *)
(* change everything it has read: Choice says what stays true of the       *)
(* address and of the time it has chosen.  OneMessage is the clients' part *)
(* of it: no message of a client is left in the queue that would end what  *)
(* the client has come to count on since it was sent.                      *)
(***************************************************************************)
EXTENDS Dhcp, NaturalsInduction, WellFoundedInduction, TLAPS

Frames == [type: {"discover", "request", "release", "decline"}, c: Clients,
           ip: Addrs \cup {None}, opt: BOOLEAN]
WorkPCs == {"idle", "statics", "choose", "book"}
Work == [pc: WorkPCs, c: Clients \cup {None}, type: {"discover", "request", None},
         want: Addrs \cup {None}, opt: BOOLEAN, cfg: Configs \cup {None}, statics: SUBSET Bindings,
         left: Nat, ip: Addrs \cup {None}, static: BOOLEAN]
Beliefs == [ip: Addrs, left: Nat]

DhcpTypes ==
  /\ cfg \in Configs /\ statics \subseteq Bindings
  /\ leases \in [Addrs -> Leases \cup {None}]
  /\ txq \in Seq(Frames)
  /\ work \in Work
  /\ bound \in [Clients -> Beliefs \cup {None}]

\* A client has one message under way, and has given up its address before it
\* says so.
OneMessage ==
  /\ \A i, j \in 1 .. Len(txq) : txq[i].c = txq[j].c => i = j
  /\ \A i \in 1 .. Len(txq) :
       /\ txq[i].c # work.c
       /\ txq[i].type \in {"release", "decline"} => bound[txq[i].c] = None

\* What selectIP has read stays true until it books: the address it has chosen
\* is nobody else's, and the new lease outlasts the one it replaces.
Choice ==
  /\ IF work.pc = "idle" THEN work.c = None ELSE work.c \in Clients
  /\ work.pc \in {"statics", "choose"} => work.cfg \in Configs
  /\ work.left <= LeaseTime
  /\ work.pc \in {"choose", "book"} /\ bound[work.c] # None => bound[work.c].left <= work.left
  /\ work.pc = "book" =>
       /\ work.ip \in Addrs
       /\ \A c \in Clients \ (evicted \cup {work.c}) : bound[c] # None => bound[c].ip # work.ip

\* A client counts on its address for a positive time, not longer than a lease.
Counts == \A c \in Clients : bound[c] # None => bound[c].left > 0 /\ bound[c].left <= LeaseTime

DhcpInv == DhcpTypes /\ OneMessage /\ Choice /\ Counts /\ BoundIsLeased

LEMMA IdleWork == DhcpAssumption => Idle \in Work /\ Idle.pc = "idle" /\ Idle.c = None /\ Idle.left = 0
BY DEF Idle, Work, WorkPCs

LEMMA NoneFacts ==
  /\ None \notin Addrs /\ None \notin Clients /\ None \notin Leases
  /\ Addrs \subseteq Nat /\ LeaseTime \in Nat /\ LeaseTime > 0
BY DhcpAssumption DEF DhcpAssumption

LEMMA LeaseType ==
  ASSUME NEW c \in Clients, NEW left \in Nat, NEW static \in BOOLEAN
  PROVE  /\ Lease(c, left, static) \in Leases /\ Declined(left) \in Leases
         /\ Lease(c, left, static).client = c /\ Lease(c, left, static).left = left
BY DEF Lease, Declined, Leases, Ports

LEMMA QueueTypes ==
  ASSUME DhcpInv
  PROVE  /\ txq \in Seq(Frames) /\ Len(txq) \in Nat
         /\ \A i \in 1 .. Len(txq) : txq[i] \in Frames /\ txq[i].c \in Clients
<1>1. txq \in Seq(Frames) /\ Len(txq) \in Nat
  BY DEF DhcpInv, DhcpTypes
<1>2. \A i \in 1 .. Len(txq) : txq[i] \in Frames
  BY <1>1
<1>3. \A f \in Frames : f.c \in Clients
  BY DEF Frames
<1> QED BY <1>1, <1>2, <1>3

LEMMA DhcpInit == Init => DhcpInv
<1> SUFFICES ASSUME Init PROVE DhcpInv
  OBVIOUS
<1>1. DhcpTypes
  BY IdleWork, DhcpAssumption DEF Init, DhcpTypes
<1>2. OneMessage /\ Counts /\ BoundIsLeased
  BY DEF Init, OneMessage, Counts, BoundIsLeased
<1>3. Choice
  BY IdleWork, DhcpAssumption, NoneFacts DEF Init, Choice
<1> QED BY <1>1, <1>2, <1>3 DEF DhcpInv

\* A client that counts on an address has an active lease of it.
LEMMA BoundFacts ==
  ASSUME DhcpInv, NEW c \in Clients, bound[c] # None
  PROVE  /\ bound[c] \in Beliefs /\ bound[c].ip \in Addrs /\ bound[c].left \in Nat
         /\ bound[c].left > 0 /\ bound[c].left <= LeaseTime
         /\ c \notin evicted => Active(bound[c].ip) /\ leases[bound[c].ip].client = c
<1>1. bound[c] \in Beliefs
  BY DEF DhcpInv, DhcpTypes
<1>2. bound[c].ip \in Addrs /\ bound[c].left \in Nat
  BY <1>1 DEF Beliefs
<1>3. bound[c].left > 0 /\ bound[c].left <= LeaseTime
  BY DEF DhcpInv, Counts
<1>4. ASSUME c \notin evicted PROVE Active(bound[c].ip) /\ leases[bound[c].ip].client = c
  <2>1. /\ leases[bound[c].ip] # None /\ leases[bound[c].ip].client = c
        /\ leases[bound[c].ip].left >= bound[c].left
    BY <1>4 DEF DhcpInv, BoundIsLeased
  <2>2. leases[bound[c].ip] \in Leases
    BY <1>2, <2>1 DEF DhcpInv, DhcpTypes
  <2>3. leases[bound[c].ip].left \in Nat
    BY <2>2 DEF Leases
  <2> QED BY <1>2, <1>3, <2>1, <2>3 DEF Active
<1> QED BY <1>1, <1>2, <1>3, <1>4

\* Steps of others than the worker and the clients that only take addresses away.
LEMMA Shrinks ==
  ASSUME DhcpInv, work' = work, evicted \subseteq evicted',
         \A c \in Clients : bound'[c] \in {bound[c], None}
  PROVE  Choice' /\ Counts' /\ (txq' = txq => OneMessage')
<1>1. Counts'
  BY DEF DhcpInv, Counts
<1>2. ASSUME txq' = txq PROVE OneMessage'
  BY <1>2, QueueTypes DEF DhcpInv, OneMessage
<1>3. Choice'
  BY DEF DhcpInv, Choice
<1> QED BY <1>1, <1>2, <1>3

\* Leases that end without the client's doing.
LEMMA EvictsKeeps ==
  ASSUME DhcpInv, bound' = bound, evicted \subseteq evicted',
         \A c \in Clients \ evicted' : bound[c] # None => leases'[bound[c].ip] = leases[bound[c].ip]
  PROVE  BoundIsLeased'
BY DEF DhcpInv, BoundIsLeased

\* The worker's reply, with the lease it goes with: the client's own lease is
\* replaced by one that lasts at least as long, and nobody else's is touched.
LEMMA FinishKeeps ==
  ASSUME DhcpInv, work.pc \in {"choose", "book"}, NEW got \in Addrs \cup {None}, NEW static \in BOOLEAN,
         Finish(got), UNCHANGED <<cfg, statics, txq>>,
         IF got = None THEN leases' = leases ELSE set(got, Lease(work.c, work.left, static)),
         \A c \in Clients \ (evicted \cup {work.c}) : bound[c] # None => bound[c].ip # got
  PROVE  DhcpInv'
<1> DEFINE c == work.c
           l == Lease(c, work.left, static)
           b == [ip |-> got, left |-> work.left]
<1>1. c \in Clients /\ work.left \in Nat /\ work.left <= LeaseTime
  BY DEF DhcpInv, DhcpTypes, Choice, Work
<1>2. l \in Leases /\ l.client = c /\ l.left = work.left /\ l # None
  BY <1>1, LeaseType, NoneFacts
<1>3. work' = Idle /\ Idle \in Work /\ Idle.pc = "idle" /\ Idle.c = None /\ Idle.left = 0
  BY IdleWork, DhcpAssumption DEF Finish
<1>4. \/ bound' = bound /\ evicted' = evicted
      \/ /\ bound' = [bound EXCEPT ![c] = None] /\ evicted' = evicted \ {c}
      \/ /\ got # None /\ work.left > 0
         /\ bound' = [bound EXCEPT ![c] = b] /\ evicted' = evicted \ {c}
  BY DEF Finish, Replies, Bound
<1>5. /\ \A d \in Clients \ {c} : bound'[d] = bound[d] /\ (d \notin evicted' => d \notin evicted)
      /\ \/ bound'[c] = bound[c] /\ (c \notin evicted' => c \notin evicted)
         \/ bound'[c] = None
         \/ got # None /\ work.left > 0 /\ bound'[c] = b
  BY <1>1, <1>4 DEF DhcpInv, DhcpTypes
<1>6. got # None => b \in Beliefs /\ b.ip = got /\ b.left = work.left
  BY <1>1 DEF Beliefs
<1>7. bound' \in [Clients -> Beliefs \cup {None}]
  BY <1>4, <1>6 DEF DhcpInv, DhcpTypes
<1>8. \A a \in Addrs : leases'[a] = IF a = got THEN l ELSE leases[a]
  BY NoneFacts DEF set, DhcpInv, DhcpTypes
<1>9. leases' \in [Addrs -> Leases \cup {None}]
  BY <1>2 DEF set, DhcpInv, DhcpTypes
<1> HIDE DEF c, l, b
<1>10. DhcpTypes'
  BY <1>3, <1>7, <1>9 DEF DhcpInv, DhcpTypes
<1>11. OneMessage'
  <2>1. \A i \in 1 .. Len(txq) : txq[i].c \in Clients /\ txq[i].c # c
    BY QueueTypes DEF DhcpInv, OneMessage, c
  <2> QED BY <1>3, <1>5, <2>1, NoneFacts DEF DhcpInv, OneMessage
<1>12. Choice'
  BY <1>3, NoneFacts DEF Choice
<1>13. Counts'
  BY <1>1, <1>5, <1>6 DEF DhcpInv, Counts
<1>14. ASSUME NEW d \in Clients \ {c}, d \notin evicted', bound'[d] # None
       PROVE  LET m == leases'[bound'[d].ip] IN m # None /\ m.client = d /\ m.left >= bound'[d].left
  <2>1. bound'[d] = bound[d] /\ d \notin evicted
    BY <1>5, <1>14
  <2>2. bound[d].ip \in Addrs /\ bound[d].ip # got
    BY <1>14, <2>1, BoundFacts DEF c
  <2>3. leases'[bound[d].ip] = leases[bound[d].ip]
    BY <1>8, <2>2
  <2> QED BY <1>14, <2>1, <2>3 DEF DhcpInv, BoundIsLeased
<1>15. ASSUME c \notin evicted', bound'[c] # None
       PROVE  LET m == leases'[bound'[c].ip] IN m # None /\ m.client = c /\ m.left >= bound'[c].left
  <2>1. CASE bound'[c] = bound[c] /\ c \notin evicted
    <3>1. bound[c].ip \in Addrs /\ bound[c].left \in Nat
      BY <1>1, <1>15, <2>1, BoundFacts
    <3>2. CASE bound[c].ip = got
      <4>1. bound[c].left <= work.left
        BY <1>15, <2>1 DEF DhcpInv, Choice, c
      <4> QED BY <1>1, <1>2, <1>8, <2>1, <3>1, <3>2, <4>1
    <3>3. CASE bound[c].ip # got
      BY <1>1, <1>8, <1>15, <2>1, <3>1, <3>3 DEF DhcpInv, BoundIsLeased
    <3> QED BY <3>2, <3>3
  <2>2. CASE got # None /\ bound'[c] = b
    BY <1>1, <1>2, <1>6, <1>8, <2>2
  <2> QED BY <1>5, <1>15, <2>1, <2>2
<1>16. BoundIsLeased'
  BY <1>14, <1>15 DEF BoundIsLeased
<1> QED BY <1>10, <1>11, <1>12, <1>13, <1>16 DEF DhcpInv

\* A frame enters the queue.
LEMMA EnqueueKeeps ==
  ASSUME DhcpInv, NEW f \in Frames, Enqueue(f), ~Outstanding(f.c), UNCHANGED <<cfg, statics, leases, work, evicted>>,
         bound' = bound \/ bound' = [bound EXCEPT ![f.c] = None],
         f.type \in {"release", "decline"} => bound' = [bound EXCEPT ![f.c] = None]
  PROVE  DhcpInv'
<1>1. txq' = Append(txq, f) /\ f.c \in Clients
  BY DEF Enqueue, Frames
<1>2. /\ \A d \in Clients : bound'[d] \in {bound[d], None}
      /\ f.type \in {"release", "decline"} => bound'[f.c] = None
      /\ bound' \in [Clients -> Beliefs \cup {None}]
  BY <1>1 DEF DhcpInv, DhcpTypes
<1>3. DhcpTypes'
  BY <1>1, <1>2 DEF DhcpInv, DhcpTypes
<1>4. Choice' /\ Counts'
  BY <1>2, Shrinks
<1>5. /\ Len(txq') = Len(txq) + 1 /\ txq'[Len(txq) + 1] = f
      /\ \A i \in 1 .. Len(txq) : txq'[i] = txq[i]
  BY <1>1, QueueTypes
<1>6. work.c # f.c /\ \A i \in 1 .. Len(txq) : txq[i].c # f.c
  BY DEF Outstanding
<1>7. OneMessage'
  <2>1. \A i \in 1 .. Len(txq') : i \in 1 .. Len(txq) \/ i = Len(txq) + 1
    BY <1>5, QueueTypes
  <2>2. \A i, j \in 1 .. Len(txq') : txq'[i].c = txq'[j].c => i = j
    BY <1>5, <1>6, <2>1 DEF DhcpInv, OneMessage
  <2>3. ASSUME NEW i \in 1 .. Len(txq')
        PROVE  /\ txq'[i].c # work'.c
               /\ txq'[i].type \in {"release", "decline"} => bound'[txq'[i].c] = None
    <3>1. CASE i = Len(txq) + 1
      BY <1>2, <1>5, <1>6, <3>1
    <3>2. CASE i \in 1 .. Len(txq)
      <4>1. /\ txq[i].c \in Clients /\ txq[i].c # work.c
            /\ txq[i].type \in {"release", "decline"} => bound[txq[i].c] = None
        BY <3>2, QueueTypes DEF DhcpInv, OneMessage
      <4>2. txq'[i] = txq[i]
        BY <1>5, <3>2
      <4> QED BY <1>2, <4>1, <4>2
    <3> QED BY <2>1, <3>1, <3>2
  <2> QED BY <2>2, <2>3 DEF OneMessage
<1>8. BoundIsLeased'
  BY <1>2 DEF DhcpInv, BoundIsLeased
<1> QED BY <1>3, <1>4, <1>7, <1>8 DEF DhcpInv

\* The worker takes the first frame of the queue.
LEMMA Dequeued ==
  ASSUME DhcpInv, txq # <<>>, txq' = Tail(txq)
  PROVE  /\ Head(txq) \in Frames /\ Head(txq).c \in Clients /\ txq' \in Seq(Frames)
         /\ Head(txq).type \in {"release", "decline"} => bound[Head(txq).c] = None
         /\ \A i \in 1 .. Len(txq') : /\ i + 1 \in 1 .. Len(txq) /\ txq'[i] = txq[i + 1]
                                      /\ txq'[i].c # Head(txq).c
<1>1. /\ Len(txq) > 0 /\ Head(txq) = txq[1] /\ 1 \in 1 .. Len(txq) /\ txq' \in Seq(Frames)
      /\ Len(txq') = Len(txq) - 1
  BY QueueTypes
<1>2. \A i \in 1 .. Len(txq') : i + 1 \in 1 .. Len(txq) /\ txq'[i] = txq[i + 1] /\ i + 1 # 1
  BY <1>1, QueueTypes
<1>3. \A i \in 1 .. Len(txq') : txq'[i].c # Head(txq).c
  BY <1>1, <1>2 DEF DhcpInv, OneMessage
<1> QED BY <1>1, <1>2, <1>3, QueueTypes DEF DhcpInv, OneMessage

LEMMA handleFrameKeeps == DhcpInv /\ handleFrame => DhcpInv'
<1> SUFFICES ASSUME DhcpInv, handleFrame PROVE DhcpInv'
  OBVIOUS
<1> DEFINE f == Head(txq)
<1>1. work = Idle /\ txq # <<>> /\ txq' = Tail(txq) /\ UNCHANGED <<cfg, statics, bound>>
  BY DEF handleFrame
<1>2. /\ f \in Frames /\ f.c \in Clients /\ txq' \in Seq(Frames)
      /\ f.type \in {"release", "decline"} => bound[f.c] = None
  BY <1>1, Dequeued
<1>3. Idle \in Work /\ Idle.pc = "idle" /\ Idle.c = None /\ Idle.left = 0
  BY IdleWork, DhcpAssumption
<1>4. ASSUME work' = work \/ work'.c = f.c PROVE OneMessage'
  <2>1. \A i \in 1 .. Len(txq') : i + 1 \in 1 .. Len(txq) /\ txq'[i] = txq[i + 1] /\ txq'[i].c # f.c
    BY <1>1, Dequeued
  <2>2. \A i \in 1 .. Len(txq') : /\ txq'[i].c # work'.c
                                  /\ txq'[i].type \in {"release", "decline"} => bound'[txq'[i].c] = None
    BY <1>1, <1>4, <2>1 DEF DhcpInv, OneMessage
  <2>3. ASSUME NEW i \in 1 .. Len(txq'), NEW j \in 1 .. Len(txq'), txq'[i].c = txq'[j].c PROVE i = j
    <3>1. i + 1 \in 1 .. Len(txq) /\ j + 1 \in 1 .. Len(txq) /\ txq[i + 1].c = txq[j + 1].c
      BY <2>1, <2>3
    <3>2. \A x, y \in 1 .. Len(txq) : txq[x].c = txq[y].c => x = y
      BY DEF DhcpInv, OneMessage
    <3>3. i + 1 = j + 1
      BY <3>1, <3>2
    <3> QED BY <3>3
  <2> QED BY <2>2, <2>3 DEF OneMessage
<1>5. ASSUME UNCHANGED <<work, leases, evicted>> PROVE DhcpInv'
  <2>1. DhcpTypes'
    BY <1>1, <1>2, <1>5 DEF DhcpInv, DhcpTypes
  <2>2. Choice' /\ Counts'
    BY <1>1, <1>5, Shrinks
  <2>3. BoundIsLeased'
    BY <1>1, <1>5 DEF DhcpInv, BoundIsLeased
  <2> QED BY <1>4, <1>5, <2>1, <2>2, <2>3 DEF DhcpInv
<1>6. ASSUME f.type \in {"discover", "request"}, UNCHANGED <<leases, evicted>>,
             work' = [Idle EXCEPT !.pc = "statics", !.c = f.c, !.type = f.type, !.want = f.ip,
                                  !.opt = f.opt, !.cfg = cfg]
      PROVE  DhcpInv'
  <2>1. f.ip \in Addrs \cup {None} /\ f.opt \in BOOLEAN /\ cfg \in Configs
    BY <1>2 DEF Frames, DhcpInv, DhcpTypes
  <2>2. work' \in Work /\ work'.pc = "statics" /\ work'.c = f.c /\ work'.cfg = cfg /\ work'.left = 0
    BY <1>2, <1>6, <2>1 DEF Idle, Work, WorkPCs
  <2>3. DhcpTypes'
    BY <1>1, <1>2, <1>6, <2>2 DEF DhcpInv, DhcpTypes
  <2>4. Choice'
    BY <1>2, <2>1, <2>2, NoneFacts DEF Choice
  <2>5. Counts' /\ BoundIsLeased'
    BY <1>1, <1>6 DEF DhcpInv, Counts, BoundIsLeased
  <2> QED BY <1>4, <2>2, <2>3, <2>4, <2>5 DEF DhcpInv
<1>7. ASSUME NEW a, NEW l \in Leases \cup {None}, f.type \in {"release", "decline"},
             set(a, l), Evicts({a}, {f.c}), UNCHANGED work
      PROVE  DhcpInv'
  <2>1. leases' \in [Addrs -> Leases \cup {None}] /\ \A x \in Addrs \ {a} : leases'[x] = leases[x]
    BY <1>7 DEF set, DhcpInv, DhcpTypes
  <2>2. BoundIsLeased' /\ evicted \subseteq evicted'
    <3>1. evicted' = evicted \cup {c \in Clients \ {f.c} : bound[c] # None /\ bound[c].ip \in {a}}
      BY <1>7 DEF Evicts
    <3>2. \A c \in Clients \ evicted' : bound[c] # None => bound[c].ip \in Addrs \ {a}
      BY <1>2, <1>7, <3>1, BoundFacts
    <3> QED BY <1>1, <2>1, <3>1, <3>2, EvictsKeeps
  <2>3. Choice' /\ Counts'
    BY <1>1, <1>7, <2>2, Shrinks
  <2>4. DhcpTypes'
    BY <1>1, <1>2, <1>7, <2>1 DEF DhcpInv, DhcpTypes
  <2> QED BY <1>4, <1>7, <2>2, <2>3, <2>4 DEF DhcpInv
<1>8. Declined(LeaseTime) \in Leases
  BY <1>2, LeaseType, NoneFacts
<1> HIDE DEF f
<1> QED BY <1>5, <1>6, <1>7, <1>8 DEF handleFrame, f

LEMMA copyStaticsKeeps == DhcpInv /\ copyStatics => DhcpInv'
<1> SUFFICES ASSUME DhcpInv, copyStatics PROVE DhcpInv'
  OBVIOUS
<1>1. /\ work.pc = "statics"
      /\ work' = [work EXCEPT !.pc = "choose", !.statics = statics, !.left = LeaseTime]
      /\ UNCHANGED <<cfg, statics, leases, txq, bound, evicted>>
  BY DEF copyStatics, server, client
<1>2. /\ work' \in Work /\ work'.pc = "choose" /\ work'.c = work.c /\ work'.left = LeaseTime
      /\ work'.cfg = work.cfg
  BY <1>1, NoneFacts DEF DhcpInv, DhcpTypes, Work, WorkPCs
<1>3. work.c \in Clients /\ work.cfg \in Configs
  BY <1>1 DEF DhcpInv, Choice
<1>4. DhcpTypes'
  BY <1>1, <1>2 DEF DhcpInv, DhcpTypes
<1>5. OneMessage'
  BY <1>1, <1>2 DEF DhcpInv, OneMessage
<1>6. Choice'
  BY <1>1, <1>2, <1>3, NoneFacts, BoundFacts DEF Choice
<1>7. Counts' /\ BoundIsLeased'
  BY <1>1 DEF DhcpInv, Counts, BoundIsLeased
<1> QED BY <1>4, <1>5, <1>6, <1>7 DEF DhcpInv

LEMMA LowestOf ==
  ASSUME NEW S \in SUBSET Nat, S # {}
  PROVE  \E a \in S : \A b \in S : a <= b
<1>1. PICK a \in S : \A b \in S : ~(<<b, a>> \in OpToRel(<, Nat))
  BY WFMin, NatLessThanWellFounded
<1>2. \A b \in S : ~(b < a)
  BY <1>1 DEF OpToRel
<1> QED BY <1>2

\* allocate returns an address of the pool that is not leased.
LEMMA AllocateFree ==
  ASSUME NEW g \in Configs, NEW sips
  PROVE  allocate(g, sips) = None \/ (allocate(g, sips) \in Addrs /\ ~Active(allocate(g, sips)))
<1> DEFINE S == Free(g, sips)
<1>1. S \subseteq Addrs /\ \A a \in S : ~Active(a)
  BY DhcpAssumption DEF DhcpAssumption, Free
<1>2. S \subseteq Nat
  BY <1>1, NoneFacts
<1>3. allocate(g, sips) = IF S = {} THEN None ELSE CHOOSE a \in S : \A b \in S : a <= b
  BY DEF allocate
<1> HIDE DEF S
<1>4. ASSUME S # {} PROVE \E a \in S : \A b \in S : a <= b
  BY <1>2, <1>4, LowestOf
<1> QED BY <1>1, <1>3, <1>4

\* An address that is free for c is not one that another client counts on.
LEMMA FreeForOne ==
  ASSUME DhcpInv, NEW c \in Clients, NEW a \in Addrs, ~inUse(a, c)
  PROVE  \A d \in Clients \ (evicted \cup {c}) : bound[d] # None => bound[d].ip # a
BY BoundFacts DEF inUse

\* selectIP leaves its critical sections with an address.
LEMMA SettlesKeeps ==
  ASSUME DhcpInv, work.pc = "choose", NEW a \in Addrs, NEW static \in BOOLEAN, ~inUse(a, work.c),
         Settles(a, static), UNCHANGED <<cfg, statics, txq>>
  PROVE  DhcpInv'
<1>1. /\ work' = [work EXCEPT !.pc = "book", !.ip = a, !.static = static, !.opt = FALSE, !.cfg = None, !.statics = {}]
      /\ UNCHANGED <<leases, bound, evicted>>
  BY DEF Settles
<1>2. work \in Work
  BY DEF DhcpInv, DhcpTypes
<1>3. work' \in Work /\ work'.pc = "book" /\ work'.c = work.c /\ work'.ip = a /\ work'.left = work.left
  BY <1>1, <1>2 DEF Work, WorkPCs
<1>4. work.c \in Clients
  BY DEF DhcpInv, Choice
<1>5. DhcpTypes'
  BY <1>1, <1>3 DEF DhcpInv, DhcpTypes
<1>6. OneMessage'
  BY <1>1, <1>3 DEF DhcpInv, OneMessage
<1>7. \A d \in Clients \ (evicted \cup {work.c}) : bound[d] # None => bound[d].ip # a
  BY <1>4, FreeForOne
<1>8. Choice'
  BY <1>1, <1>3, <1>4, <1>7 DEF DhcpInv, Choice
<1>9. Counts' /\ BoundIsLeased'
  BY <1>1 DEF DhcpInv, Counts, BoundIsLeased
<1> QED BY <1>5, <1>6, <1>8, <1>9 DEF DhcpInv

LEMMA selectIPKeeps == DhcpInv /\ selectIP => DhcpInv'
<1> SUFFICES ASSUME DhcpInv, selectIP PROVE DhcpInv'
  OBVIOUS
<1> DEFINE c == work.c
           m == matchBinding(work.statics, c)
           got == allocate(work.cfg, staticIPs)
<1>1. work.pc = "choose" /\ UNCHANGED <<cfg, statics, txq>>
  BY DEF selectIP
<1>2. c \in Clients /\ work.cfg \in Configs /\ work.statics \subseteq Bindings
  BY <1>1 DEF DhcpInv, DhcpTypes, Choice, Work
<1>3. \A b \in m : b.ip \in Addrs
  BY <1>2, DhcpAssumption DEF matchBinding, DhcpAssumption
<1>4. ASSUME Finish(None), UNCHANGED leases PROVE DhcpInv'
  <2>1. \A d \in Clients \ (evicted \cup {work.c}) : bound[d] # None => bound[d].ip # None
    BY BoundFacts, NoneFacts
  <2> QED BY <1>1, <1>4, <2>1, FinishKeeps
<1>5. ASSUME NEW b \in m, ~inUse(b.ip, c), Settles(b.ip, TRUE) PROVE DhcpInv'
  BY <1>1, <1>3, <1>5, SettlesKeeps
<1>6. ASSUME NEW a \in byClient(c), Settles(a, FALSE) PROVE DhcpInv'
  <2>1. a \in Addrs /\ ~inUse(a, c)
    BY DEF byClient, inUse
  <2> QED BY <1>1, <1>6, <2>1, SettlesKeeps
<1>7. ASSUME mayHave(work.want), Settles(work.want, FALSE) PROVE DhcpInv'
  <2>1. work.want \in work.cfg.start .. work.cfg.end /\ ~inUse(work.want, c)
    BY <1>7 DEF mayHave
  <2>2. work.want \in Addrs
    BY <1>2, <2>1, DhcpAssumption DEF DhcpAssumption
  <2> QED BY <1>1, <1>7, <2>1, <2>2, SettlesKeeps
<1>8. ASSUME got # None, set(got, Lease(c, work.left, FALSE)), Finish(got) PROVE DhcpInv'
  <2>1. got \in Addrs /\ ~Active(got)
    BY <1>2, <1>8, AllocateFree
  <2>2. \A d \in Clients \ (evicted \cup {c}) : bound[d] # None => bound[d].ip # got
    BY <2>1, BoundFacts
  <2> QED BY <1>1, <1>8, <2>1, <2>2, FinishKeeps
<1> HIDE DEF got
<1> QED BY <1>4, <1>5, <1>6, <1>7, <1>8 DEF selectIP, got

LEMMA bookKeeps == DhcpInv /\ book => DhcpInv'
<1> SUFFICES ASSUME DhcpInv, book PROVE DhcpInv'
  OBVIOUS
<1>1. /\ work.pc = "book" /\ set(work.ip, Lease(work.c, work.left, work.static)) /\ Finish(work.ip)
      /\ UNCHANGED <<cfg, statics, txq>>
  BY DEF book
<1>2. work.ip \in Addrs /\ work.ip # None /\ work.static \in BOOLEAN
  BY <1>1, NoneFacts DEF DhcpInv, DhcpTypes, Choice, Work
<1>3. \A d \in Clients \ (evicted \cup {work.c}) : bound[d] # None => bound[d].ip # work.ip
  BY <1>1 DEF DhcpInv, Choice
<1> QED BY <1>1, <1>2, <1>3, FinishKeeps

\* Nothing that the invariant speaks of changes but the configuration.
LEMMA ConfigKeeps ==
  ASSUME DhcpInv, cfg' \in Configs, statics' \subseteq Bindings,
         UNCHANGED <<leases, txq, work, bound, evicted>>
  PROVE  DhcpInv'
<1>1. DhcpTypes'
  BY DEF DhcpInv, DhcpTypes
<1>2. Choice' /\ Counts' /\ OneMessage'
  BY Shrinks
<1>3. BoundIsLeased'
  BY DEF DhcpInv, BoundIsLeased
<1> QED BY <1>1, <1>2, <1>3 DEF DhcpInv

LEMMA APIKeeps == DhcpInv /\ API => DhcpInv'
<1> SUFFICES ASSUME DhcpInv, API PROVE DhcpInv'
  OBVIOUS
<1>1. cfg \in Configs /\ statics \subseteq Bindings
  BY DEF DhcpInv, DhcpTypes
<1>2. ASSUME NEW f \in Configs, SetConfig(f) PROVE DhcpInv'
  BY <1>1, <1>2, ConfigKeeps DEF SetConfig, client
<1>3. ASSUME NEW b \in Bindings, PutStatic(b) \/ DeleteStatic(b) PROVE DhcpInv'
  BY <1>1, <1>3, ConfigKeeps DEF PutStatic, DeleteStatic, client
<1>4. ASSUME NEW S \in SUBSET Bindings, ReplaceStatics(S) PROVE DhcpInv'
  BY <1>1, <1>4, ConfigKeeps DEF ReplaceStatics, client
<1>5. ASSUME NEW a \in Addrs, ReleaseLease(a) PROVE DhcpInv'
  <2>1. leases' = [leases EXCEPT ![a] = None] /\ Evicts({a}, {}) /\ UNCHANGED <<cfg, statics, txq, work, bound>>
    BY <1>5 DEF ReleaseLease, set
  <2>2. leases' \in [Addrs -> Leases \cup {None}] /\ \A x \in Addrs \ {a} : leases'[x] = leases[x]
    BY <2>1 DEF DhcpInv, DhcpTypes
  <2>3. BoundIsLeased' /\ evicted \subseteq evicted'
    <3>1. evicted' = evicted \cup {c \in Clients \ {} : bound[c] # None /\ bound[c].ip \in {a}}
      BY <2>1 DEF Evicts
    <3>2. \A c \in Clients \ evicted' : bound[c] # None => bound[c].ip \in Addrs \ {a}
      BY <3>1, BoundFacts
    <3> QED BY <2>1, <2>2, <3>1, <3>2, EvictsKeeps
  <2>4. Choice' /\ Counts' /\ OneMessage'
    BY <2>1, <2>3, Shrinks
  <2>5. DhcpTypes'
    BY <2>1, <2>2 DEF DhcpInv, DhcpTypes
  <2> QED BY <2>3, <2>4, <2>5 DEF DhcpInv
<1> QED BY <1>2, <1>3, <1>4, <1>5 DEF API

LEMMA AskKeeps ==
  ASSUME DhcpInv, NEW c \in Clients, NEW type \in {"discover", "request"}, NEW want \in Addrs \cup {None},
         Ask(c, type, want)
  PROVE  DhcpInv'
<1> DEFINE f == [type |-> type, c |-> c, ip |-> want, opt |-> bound[c] = None]
<1>1. f \in Frames /\ f.c = c /\ f.type = type
  BY DEF Frames
<1>2. Enqueue(f) /\ ~Outstanding(c) /\ UNCHANGED <<cfg, statics, leases, work, evicted, bound>>
  BY DEF Ask, server, client
<1> HIDE DEF f
<1> QED BY <1>1, <1>2, EnqueueKeeps

LEMMA GiveUpKeeps ==
  ASSUME DhcpInv, NEW c \in Clients, NEW type \in {"release", "decline"}, GiveUp(c, type)
  PROVE  DhcpInv'
<1> DEFINE f == [type |-> type, c |-> c, ip |-> IF family = "v4" THEN bound[c].ip ELSE None, opt |-> FALSE]
<1>1. bound[c] # None /\ ~Outstanding(c) /\ Enqueue(f) /\ bound' = [bound EXCEPT ![c] = None]
      /\ UNCHANGED <<cfg, statics, leases, work, evicted>>
  BY DEF GiveUp, server
<1>2. bound[c].ip \in Addrs
  BY <1>1, BoundFacts
<1>3. f \in Frames /\ f.c = c /\ f.type = type
  BY <1>2 DEF Frames
<1> HIDE DEF f
<1> QED BY <1>1, <1>3, EnqueueKeeps

LEMMA PortKeeps ==
  ASSUME DhcpInv, NEW p \in Ports, PortLost(p) \/ PortBack(p) \/ PortDown(p)
  PROVE  DhcpInv'
<1>1. CASE PortLost(p)
  <2>1. /\ bound' = [c \in Clients |-> IF Ident[c].port = p THEN None ELSE bound[c]]
        /\ UNCHANGED <<cfg, statics, leases, txq, work, evicted>>
    BY <1>1 DEF PortLost, server
  <2>2. bound' \in [Clients -> Beliefs \cup {None}] /\ \A c \in Clients : bound'[c] \in {bound[c], None}
    BY <2>1 DEF DhcpInv, DhcpTypes
  <2>3. Choice' /\ Counts' /\ OneMessage'
    BY <2>1, <2>2, Shrinks
  <2>4. DhcpTypes'
    BY <2>1, <2>2 DEF DhcpInv, DhcpTypes
  <2>5. BoundIsLeased'
    BY <2>1, <2>2 DEF DhcpInv, BoundIsLeased
  <2> QED BY <2>3, <2>4, <2>5 DEF DhcpInv
<1>2. CASE PortBack(p)
  BY <1>2, ConfigKeeps DEF PortBack, server, DhcpInv, DhcpTypes
<1>3. CASE PortDown(p)
  <2> DEFINE A == {a \in Addrs : leases[a] # None /\ leases[a].port = p}
  <2>1. leases' = [a \in Addrs |-> IF a \in A THEN None ELSE leases[a]] /\ Evicts(A, {})
        /\ UNCHANGED <<cfg, statics, txq, work, bound>>
    BY <1>3 DEF PortDown
  <2> HIDE DEF A
  <2>2. leases' \in [Addrs -> Leases \cup {None}] /\ \A x \in Addrs \ A : leases'[x] = leases[x]
    BY <2>1 DEF DhcpInv, DhcpTypes
  <2>3. BoundIsLeased' /\ evicted \subseteq evicted'
    <3>1. evicted' = evicted \cup {c \in Clients \ {} : bound[c] # None /\ bound[c].ip \in A}
      BY <2>1 DEF Evicts
    <3>2. \A c \in Clients \ evicted' : bound[c] # None => bound[c].ip \in Addrs \ A
      BY <3>1, BoundFacts
    <3> QED BY <2>1, <2>2, <3>1, <3>2, EvictsKeeps
  <2>4. Choice' /\ Counts' /\ OneMessage'
    BY <2>1, <2>3, Shrinks
  <2>5. DhcpTypes'
    BY <2>1, <2>2 DEF DhcpInv, DhcpTypes
  <2> QED BY <2>3, <2>4, <2>5 DEF DhcpInv
<1> QED BY <1>1, <1>2, <1>3

\* The clock moves leases, the clients' counts and the worker's new lease alike.
LEMMA TickKeeps == DhcpInv /\ Tick => DhcpInv'
<1> SUFFICES ASSUME DhcpInv, Tick PROVE DhcpInv'
  OBVIOUS
<1>1. UNCHANGED <<cfg, statics, txq, evicted>>
  BY DEF Tick
<1>2. \A n \in Nat : Less(n) \in Nat /\ Less(n) <= n /\ \A k \in Nat : k <= n /\ k > 1 => k - 1 <= Less(n)
  BY DEF Less
<1>3. work \in Work /\ work.left \in Nat
  BY DEF DhcpInv, DhcpTypes, Work
<1>4. work' = [work EXCEPT !.left = Less(work.left)]
  BY <1>3 DEF Tick, Work
<1>5. /\ work' \in Work /\ work'.left = Less(work.left) /\ work'.pc = work.pc /\ work'.c = work.c
      /\ work'.cfg = work.cfg /\ work'.ip = work.ip
  BY <1>2, <1>3, <1>4 DEF Work
<1>6. ASSUME NEW a \in Addrs
      PROVE  /\ leases'[a] \in Leases \cup {None}
             /\ leases[a] # None => /\ leases'[a] # None /\ leases'[a].client = leases[a].client
                                    /\ leases[a].left \in Nat /\ leases'[a].left = Less(leases[a].left)
  <2>1. leases'[a] = IF leases[a] = None THEN None ELSE [leases[a] EXCEPT !.left = Less(@)]
    BY DEF Tick
  <2>2. CASE leases[a] # None
    <3>1. leases[a] \in Leases
      BY <2>2 DEF DhcpInv, DhcpTypes
    <3>2. leases[a].left \in Nat /\ Less(leases[a].left) \in Nat
      BY <1>2, <3>1 DEF Leases
    <3>3. /\ leases'[a] \in Leases /\ leases'[a].client = leases[a].client
          /\ leases'[a].left = Less(leases[a].left)
      BY <2>1, <2>2, <3>1, <3>2 DEF Leases
    <3> QED BY <3>2, <3>3, NoneFacts
  <2> QED BY <2>1, <2>2
<1>7. leases' \in [Addrs -> Leases \cup {None}]
  <2>1. leases' = [a \in Addrs |-> leases'[a]]
    BY DEF Tick
  <2> QED BY <1>6, <2>1
<1>8. ASSUME NEW c \in Clients
      PROVE  \/ bound'[c] = None
             \/ /\ bound[c] # None /\ bound'[c] \in Beliefs /\ bound'[c].ip = bound[c].ip
                /\ bound[c].left > 1 /\ bound'[c].left = bound[c].left - 1
  <2>1. bound'[c] = IF bound[c] = None \/ bound[c].left <= 1 THEN None ELSE [bound[c] EXCEPT !.left = @ - 1]
    BY DEF Tick
  <2>2. CASE bound[c] # None /\ ~(bound[c].left <= 1)
    <3>0. bound[c] \in Beliefs /\ bound[c].left \in Nat
      BY <2>2, BoundFacts
    <3>1. bound[c] \in Beliefs /\ bound[c].left \in Nat /\ bound[c].left > 1 /\ bound[c].left - 1 \in Nat
      BY <2>2, <3>0
    <3>2. bound'[c] \in Beliefs /\ bound'[c].ip = bound[c].ip /\ bound'[c].left = bound[c].left - 1
      BY <2>1, <2>2, <3>1 DEF Beliefs
    <3> QED BY <2>2, <3>1, <3>2
  <2> QED BY <2>1, <2>2
<1>9. bound' \in [Clients -> Beliefs \cup {None}]
  <2>1. bound' = [c \in Clients |-> bound'[c]]
    BY DEF Tick
  <2> QED BY <1>8, <2>1
<1>10. DhcpTypes'
  BY <1>1, <1>5, <1>7, <1>9 DEF DhcpInv, DhcpTypes
<1>11. OneMessage'
  BY <1>1, <1>5, <1>8, QueueTypes DEF DhcpInv, OneMessage
<1>12. ASSUME NEW c \in Clients, bound'[c] # None PROVE bound'[c].left > 0 /\ bound'[c].left <= LeaseTime
  <2>1. bound[c] # None /\ bound[c].left > 1 /\ bound'[c].left = bound[c].left - 1
    BY <1>8, <1>12
  <2>2. bound[c].left \in Nat /\ bound[c].left <= LeaseTime
    BY <2>1, BoundFacts
  <2>3. LeaseTime \in Nat
    BY NoneFacts
  <2> QED BY <2>1, <2>2, <2>3
<1>13. Choice'
  <2>1. work'.left <= LeaseTime
    <3>1. work.left <= LeaseTime
      BY DEF DhcpInv, Choice
    <3>2. Less(work.left) \in Nat /\ Less(work.left) <= work.left
      BY <1>2, <1>3
    <3> QED BY <1>3, <1>5, <3>1, <3>2, NoneFacts
  <2>2. ASSUME work.pc \in {"choose", "book"}, bound'[work.c] # None PROVE bound'[work.c].left <= work'.left
    <3>1. work.c \in Clients
      BY <2>2 DEF DhcpInv, Choice
    <3>2. bound[work.c] # None /\ bound[work.c].left > 1 /\ bound'[work.c].left = bound[work.c].left - 1
      BY <1>8, <2>2, <3>1
    <3>3. bound[work.c].left \in Nat /\ bound[work.c].left <= work.left
      BY <2>2, <3>1, <3>2, BoundFacts DEF DhcpInv, Choice
    <3> QED BY <1>2, <1>3, <1>5, <3>2, <3>3
  <2>3. ASSUME work.pc = "book", NEW c \in Clients \ (evicted \cup {work.c}), bound'[c] # None
        PROVE  bound'[c].ip # work.ip
    BY <1>8, <2>3 DEF DhcpInv, Choice
  <2> QED BY <1>1, <1>5, <2>1, <2>2, <2>3 DEF DhcpInv, Choice
<1>14. ASSUME NEW c \in Clients \ evicted', bound'[c] # None
       PROVE  LET l == leases'[bound'[c].ip] IN l # None /\ l.client = c /\ l.left >= bound'[c].left
  <2>1. /\ bound[c] # None /\ bound'[c].ip = bound[c].ip
        /\ bound[c].left > 1 /\ bound'[c].left = bound[c].left - 1
    BY <1>8, <1>14
  <2>2. bound[c].ip \in Addrs /\ bound[c].left \in Nat
    BY <2>1, BoundFacts
  <2>3. /\ leases[bound[c].ip] # None /\ leases[bound[c].ip].client = c
        /\ leases[bound[c].ip].left >= bound[c].left
    BY <1>1, <2>1 DEF DhcpInv, BoundIsLeased
  <2>4. /\ leases'[bound[c].ip] # None /\ leases'[bound[c].ip].client = c
        /\ leases[bound[c].ip].left \in Nat /\ leases'[bound[c].ip].left = Less(leases[bound[c].ip].left)
    BY <1>6, <2>2, <2>3
  <2>5. Less(leases[bound[c].ip].left) \in Nat /\ bound[c].left - 1 <= Less(leases[bound[c].ip].left)
    BY <1>2, <2>1, <2>2, <2>3, <2>4
  <2> QED BY <2>1, <2>2, <2>4, <2>5
<1>15. BoundIsLeased'
  BY <1>14 DEF BoundIsLeased
<1>16. Counts'
  BY <1>12 DEF Counts
<1> QED BY <1>10, <1>11, <1>13, <1>15, <1>16 DEF DhcpInv

LEMMA expireSweepKeeps == DhcpInv /\ expireSweep => DhcpInv'
<1> SUFFICES ASSUME DhcpInv, expireSweep PROVE DhcpInv'
  OBVIOUS
<1>1. /\ leases' = [a \in Addrs |-> IF Active(a) THEN leases[a] ELSE None]
      /\ UNCHANGED <<cfg, statics, txq, work, bound, evicted>>
  BY DEF expireSweep, client
<1>2. DhcpTypes'
  BY <1>1 DEF DhcpInv, DhcpTypes
<1>3. Choice' /\ Counts' /\ OneMessage'
  BY <1>1, Shrinks
<1>4. ASSUME NEW c \in Clients \ evicted, bound[c] # None PROVE leases'[bound[c].ip] = leases[bound[c].ip]
  BY <1>1, <1>4, BoundFacts
<1>5. bound' = bound /\ evicted' = evicted
  BY <1>1
<1>6. BoundIsLeased'
  BY <1>4, <1>5 DEF DhcpInv, BoundIsLeased
<1> QED BY <1>2, <1>3, <1>6 DEF DhcpInv

LEMMA DhcpStep == DhcpInv /\ [Next]_vars => DhcpInv'
<1> SUFFICES ASSUME DhcpInv, [Next]_vars PROVE DhcpInv'
  OBVIOUS
<1>1. ASSUME NEW c \in Clients, Ask(c, "discover", None) PROVE DhcpInv'
  BY <1>1, AskKeeps
<1>2. ASSUME NEW c \in Clients, NEW a \in Wanted, Ask(c, "request", a) PROVE DhcpInv'
  <2>1. a \in Addrs \cup {None}
    BY DEF Wanted
  <2> QED BY <1>2, <2>1, AskKeeps
<1>3. CASE UNCHANGED vars
  BY <1>3, ConfigKeeps DEF vars, server, client, DhcpInv, DhcpTypes
<1> QED BY <1>1, <1>2, <1>3, GiveUpKeeps, PortKeeps, APIKeeps, TickKeeps, expireSweepKeeps,
           handleFrameKeeps, copyStaticsKeeps, selectIPKeeps, bookKeeps
        DEF Next, txWorker

LEMMA DhcpAlways == Spec => []DhcpInv
BY DhcpInit, DhcpStep, PTL DEF Spec

\* An address that a client counts on is leased to it for at least as long,
\* whatever the API, the ports and the clock do between the worker's critical
\* sections.
THEOREM BeliefsAreLeased == Spec => []BoundIsLeased
<1>1. DhcpInv => BoundIsLeased
  BY DEF DhcpInv
<1> QED BY <1>1, DhcpAlways, PTL

\* What the leases are for: no two clients count on one address, unless the
\* lease of one of them was ended by somebody else.
THEOREM AddressesAreExclusive ==
  Spec => [](\A c, d \in Clients \ evicted :
               bound[c] # None /\ bound[d] # None /\ bound[c].ip = bound[d].ip => c = d)
<1>1. BoundIsLeased => \A c, d \in Clients \ evicted :
        bound[c] # None /\ bound[d] # None /\ bound[c].ip = bound[d].ip => c = d
  BY DEF BoundIsLeased
<1> QED BY <1>1, BeliefsAreLeased, PTL
=============================================================================

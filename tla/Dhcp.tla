-------------------------------- MODULE Dhcp --------------------------------
(***************************************************************************)
(* The gateway's DHCP servers, internal/gateway/dhcp4.go and dhcp6.go,     *)
(* with their lease table and static bindings (binding.go), the queue and  *)
(* the worker of gateway.go that feed them, and their clients.             *)
(*                                                                         *)
(* Processes: txWorker, which is alone in the handlers; the port-down hook *)
(* of the Manager; API calls; clients behind switchports; the clock.  A    *)
(* step is a critical section of dhcp4Server.mu or leaseTable.mu.  Addresses *)
(* are numbers, a clientKey is the client, lease times are counted in      *)
(* ticks; the messages' bytes are left out.                                *)
(***************************************************************************)
EXTENDS Integers, Sequences, FiniteSets

CONSTANTS
  Addrs, gwIP,   \* the addresses of the network, the gateway's own
  Clients,       \* the clients, told apart by clientKey(mac, clientID)
  Ident,         \* each client's [port, mac, cid]
  Bindings,      \* the StaticBindings the API may configure
  Configs,       \* the configurations it may set
  LeaseTime,     \* of all configurations, in ticks
  QueueLen,      \* capacity of Gateway.txq
  Families,      \* subset of {"v4", "v6"}
  MaxChanges,    \* bound: API calls, port-downs, RELEASEs and DECLINEs
  Unset, None

Ports  == {Ident[c].port : c \in Clients}
Leases == [client: Clients \cup {"declined"}, port: Ports \cup {""}, left: Nat, static: BOOLEAN]

ASSUME DhcpAssumption ==
  /\ Addrs \subseteq Nat /\ gwIP \in Addrs
  /\ LeaseTime \in Nat \ {0} /\ QueueLen \in Nat \ {0} /\ MaxChanges \in Nat
  /\ Families \subseteq {"v4", "v6"}
  /\ None \notin Addrs \cup Clients \cup Leases
  /\ \A f \in Configs : f.enabled \in BOOLEAN /\ f.start .. f.end \subseteq Addrs
  /\ \A b \in Bindings : b.ip \in Addrs /\ b.order \in Int /\ <<b.port, b.mac, b.cid>> # <<Unset, Unset, Unset>>

VARIABLES
  family,   \* which of the two servers
  cfg, statics,
  leases,   \* leaseTable.leases: address -> Lease, or None
  txq,      \* Gateway.txq
  work,     \* txWorker inside selectIP
  hooks,    \* the ports with a PortDown call under way
  bound,    \* what each client believes: [ip, left], or None
  evicted,  \* clients whose lease went without their doing
  up,       \* the ports that are online
  changes

server == <<cfg, statics, leases>>
client == <<bound, evicted, up>>
vars == <<family, server, txq, work, hooks, client, changes>>

Lease(c, left, static) == [client |-> c, port |-> Ident[c].port, left |-> left, static |-> static]
Declined(left) == [client |-> "declined", port |-> "", left |-> left, static |-> FALSE]

Idle == [pc |-> "idle", c |-> None, type |-> None, want |-> None, opt |-> FALSE, cfg |-> None,
         statics |-> {}, left |-> 0, ip |-> None, static |-> FALSE]

\* A server just configured, with its bindings or without any.
Init ==
  /\ family \in Families
  /\ cfg \in Configs /\ cfg.enabled
  /\ statics \in {{}, Bindings}
  /\ leases = [a \in Addrs |-> None]
  /\ txq = <<>>
  /\ work = Idle
  /\ hooks = {}
  /\ bound = [c \in Clients |-> None]
  /\ evicted = {}
  /\ up = Ports
  /\ changes = 0

-----------------------------------------------------------------------------
(* binding.go *)

Conditions == {"port", "mac", "cid"}
Score(b)      == Cardinality({k \in Conditions : b[k] # Unset})
Matches(b, c) == \A k \in Conditions : b[k] \in {Unset, Ident[c][k]}
Beats(a, b)   == Score(a) > Score(b) \/ (Score(a) = Score(b) /\ a.order > b.order)

\* matchBinding: most conditions, then the higher Order; among equals it is
\* the first that the iteration over the map meets.
matchBinding(bs, c) ==
  LET m == {b \in bs : Matches(b, c)} IN {b \in m : \A a \in m : ~Beats(a, b)}

Active(a) == leases[a] # None /\ leases[a].left > 0

\* Mutant of inUse: the reply to any client is that the address is free.
InUseNever(a, c) == FALSE

inUse(a, c) == Active(a) /\ leases[a].client # c

\* byClient: the lease is the first that the iteration over the map meets.
byClient(c) == {a \in Addrs : Active(a) /\ leases[a].client = c}

set(a, l) == leases' = [leases EXCEPT ![a] = l]

\* The clients that lose a lease somebody else ends; A: the addresses.
Evicts(A, by) ==
  evicted' = evicted \cup {c \in Clients \ by : bound[c] # None /\ bound[c].ip \in A}

\* allocate: the lowest address that is neither skipped nor leased.
Free(f, sips) == {a \in f.start .. f.end : a # gwIP /\ a \notin sips /\ ~Active(a)}
allocate(f, sips) ==
  IF Free(f, sips) = {} THEN None ELSE CHOOSE a \in Free(f, sips) : \A b \in Free(f, sips) : a <= b

-----------------------------------------------------------------------------
(* Clients.  One without an address asks for any but the gateway's; one    *)
(* with an address renews it, releases it or declines it.  A client has    *)
(* one request at a time under way.  The address is in option 50 (opt), or *)
(* in ciaddr when the client renews.                                       *)

Enqueue(f) == Len(txq) < QueueLen /\ txq' = Append(txq, f)   \* Gateway.Send; full: dropped

Changes == changes < MaxChanges /\ changes' = changes + 1

Outstanding(c) == \/ \E i \in 1 .. Len(txq) : txq[i].c = c
                  \/ work.c = c

Ask(c, type, want) ==
  /\ Ident[c].port \in up
  /\ bound[c] # None => type = "request" /\ want \in {None, bound[c].ip}
  /\ ~Outstanding(c)
  /\ Enqueue([type |-> type, c |-> c, ip |-> want, opt |-> bound[c] = None])
  /\ UNCHANGED <<family, server, work, hooks, client, changes>>

\* RELEASE, or (DHCPv4) DECLINE, of the address the client was given.
GiveUp(c, type) ==
  /\ Changes /\ Ident[c].port \in up /\ bound[c] # None /\ ~Outstanding(c)
  /\ type = "decline" => family = "v4"
  /\ Enqueue([type |-> type, c |-> c, ip |-> IF family = "v4" THEN bound[c].ip ELSE None, opt |-> FALSE])
  /\ bound' = [bound EXCEPT ![c] = None]
  /\ UNCHANGED <<family, server, work, hooks, evicted, up>>

\* The reply to a request reaches the client, or is lost.  A client counts
\* its lease from the moment it asked, so not longer than the server does.
Bound(c, b) == bound' = [bound EXCEPT ![c] = b] /\ evicted' = evicted \ {c}
Replies(w, got) ==
  \/ UNCHANGED <<bound, evicted>>
  \/ /\ w.type = "request" /\ Ident[w.c].port \in up
     /\ \/ family = "v4" /\ got # w.want /\ Bound(w.c, None)                  \* NAK
        \/ /\ got # None /\ w.left > 0 /\ (family = "v4" => got = w.want)
           /\ Bound(w.c, [ip |-> got, left |-> w.left])                      \* ACK, Reply

-----------------------------------------------------------------------------
(* txWorker: handleFrame, selectIP *)

\* handleFrame takes a frame with a copy of the configuration.
handleFrame ==
  /\ work = Idle /\ txq # <<>>
  /\ txq' = Tail(txq)
  /\ LET f == Head(txq) IN
     \/ ~cfg.enabled /\ UNCHANGED <<work, leases, evicted>>
     \/ /\ cfg.enabled /\ f.type \in {"discover", "request"}
        /\ work' = [Idle EXCEPT !.pc = "statics", !.c = f.c, !.type = f.type, !.want = f.ip,
                                !.opt = f.opt, !.cfg = cfg]
        /\ UNCHANGED <<leases, evicted>>
     \/ /\ cfg.enabled /\ f.type = "release"
        /\ \E a \in IF family = "v4" THEN {f.ip} ELSE byClient(f.c) : set(a, None) /\ Evicts({a}, {f.c})
        /\ UNCHANGED work
     \/ /\ cfg.enabled /\ f.type = "release" /\ family = "v6" /\ byClient(f.c) = {}
        /\ UNCHANGED <<work, leases, evicted>>
     \/ /\ cfg.enabled /\ f.type = "decline"
        /\ set(f.ip, Declined(LeaseTime))
        /\ Evicts({f.ip}, {f.c})
        /\ UNCHANGED work
  /\ UNCHANGED <<family, cfg, statics, hooks, bound, up, changes>>

\* selectIP copies the bindings and reads the clock for the new lease.
copyStatics ==
  /\ work.pc = "statics"
  /\ work' = [work EXCEPT !.pc = "choose", !.statics = statics, !.left = LeaseTime]
  /\ UNCHANGED <<family, server, txq, hooks, client, changes>>

staticIPs == {b.ip : b \in work.statics}

\* Mutant of mayKeep: a binding does not keep the address from its holder.
KeepsAll(a) == TRUE

\* The client's lease is renewed unless its address is now bound to somebody.
mayKeep(a) == a \notin staticIPs

\* Honor a requested address when it is free and inside the pool.
mayHave(a) == /\ family = "v4" /\ work.opt /\ a \in work.cfg.start .. work.cfg.end
              /\ a # gwIP /\ a \notin staticIPs /\ ~inUse(a, work.c)

Settles(a, static) ==
  /\ work' = [work EXCEPT !.pc = "book", !.ip = a, !.static = static, !.opt = FALSE, !.cfg = None, !.statics = {}]
  /\ UNCHANGED <<leases, bound, evicted>>

Finish(got) == work' = Idle /\ Replies(work, got)

\* selectIP chooses: the static binding, the client's lease, the requested
\* address, then the pool, where allocate books at once.
selectIP ==
  /\ work.pc = "choose"
  /\ LET c == work.c
         m == matchBinding(work.statics, c)
         new == byClient(c) = {} \/ \E a \in byClient(c) : ~mayKeep(a)
         got == allocate(work.cfg, staticIPs)
     IN \/ \E b \in m : \/ inUse(b.ip, c) /\ Finish(None) /\ UNCHANGED leases
                        \/ ~inUse(b.ip, c) /\ Settles(b.ip, TRUE)
        \/ m = {} /\ \E a \in byClient(c) : mayKeep(a) /\ Settles(a, FALSE)
        \/ m = {} /\ new /\ mayHave(work.want) /\ Settles(work.want, FALSE)
        \/ /\ m = {} /\ new /\ ~mayHave(work.want)
           /\ IF got = None THEN UNCHANGED leases ELSE set(got, Lease(c, work.left, FALSE))
           /\ Finish(got)
  /\ UNCHANGED <<family, cfg, statics, txq, hooks, up, changes>>

\* leaseTable.set, and the reply.
book ==
  /\ work.pc = "book"
  /\ set(work.ip, Lease(work.c, work.left, work.static))
  /\ Finish(work.ip)
  /\ UNCHANGED <<family, cfg, statics, txq, hooks, up, changes>>

-----------------------------------------------------------------------------
(* Ports, the API, the clock. *)

\* A port goes offline; the clients behind it are cut off.
PortLost(p) ==
  /\ Changes /\ p \in up
  /\ up' = up \ {p}
  /\ hooks' = hooks \cup {p}
  /\ bound' = [c \in Clients |-> IF Ident[c].port = p THEN None ELSE bound[c]]
  /\ UNCHANGED <<family, server, txq, work, evicted>>

PortBack(p) ==
  /\ p \notin up
  /\ up' = up \cup {p}
  /\ UNCHANGED <<family, server, txq, work, hooks, bound, evicted, changes>>

\* PortDown -> releaseByPort
PortDown(p) ==
  /\ p \in hooks
  /\ hooks' = hooks \ {p}
  /\ LET A == {a \in Addrs : leases[a] # None /\ leases[a].port = p} IN
       /\ leases' = [a \in Addrs |-> IF a \in A THEN None ELSE leases[a]]
       /\ Evicts(A, {})
  /\ UNCHANGED <<family, cfg, statics, txq, work, bound, up, changes>>

SetConfig(f) ==
  /\ Changes /\ f # cfg
  /\ cfg' = f
  /\ UNCHANGED <<family, statics, leases, txq, work, hooks, client>>

PutStatic(b) ==
  /\ Changes /\ b \notin statics
  /\ statics' = {x \in statics : x.id # b.id} \cup {b}
  /\ UNCHANGED <<family, cfg, leases, txq, work, hooks, client>>

DeleteStatic(b) ==
  /\ Changes /\ b \in statics
  /\ statics' = statics \ {b}
  /\ UNCHANGED <<family, cfg, leases, txq, work, hooks, client>>

\* buildStaticSet refuses a set in which an ID occurs twice.
ReplaceStatics(S) ==
  /\ Changes /\ S # statics /\ \A a, b \in S : a.id = b.id => a = b
  /\ statics' = S
  /\ UNCHANGED <<family, cfg, leases, txq, work, hooks, client>>

ReleaseLease(a) ==
  /\ Changes /\ leases[a] # None
  /\ set(a, None)
  /\ Evicts({a}, {})
  /\ UNCHANGED <<family, cfg, statics, txq, work, hooks, bound, up>>

Less(left) == IF left > 0 THEN left - 1 ELSE 0
Tick ==
  /\ leases' = [a \in Addrs |-> IF leases[a] = None THEN None ELSE [leases[a] EXCEPT !.left = Less(@)]]
  /\ bound' = [c \in Clients |-> IF bound[c] = None \/ bound[c].left <= 1 THEN None
                                 ELSE [bound[c] EXCEPT !.left = @ - 1]]
  /\ work' = [work EXCEPT !.left = Less(@)]
  /\ UNCHANGED <<family, cfg, statics, txq, hooks, evicted, up, changes>>

\* Mutant of expireSweep: it takes nothing.
SweepNothing ==
  /\ \E a \in Addrs : leases[a] # None /\ ~Active(a)
  /\ UNCHANGED vars

expireSweep ==
  /\ \E a \in Addrs : leases[a] # None /\ ~Active(a)
  /\ leases' = [a \in Addrs |-> IF Active(a) THEN leases[a] ELSE None]
  /\ UNCHANGED <<family, cfg, statics, txq, work, hooks, client, changes>>

-----------------------------------------------------------------------------
txWorker == handleFrame \/ copyStatics \/ selectIP \/ book

API == \/ \E f \in Configs : SetConfig(f)
       \/ \E b \in Bindings : PutStatic(b) \/ DeleteStatic(b)
       \/ \E S \in SUBSET Bindings : ReplaceStatics(S)
       \/ \E a \in Addrs : ReleaseLease(a)

\* A DHCPv6 server does not look at the address the client asks for.
Wanted == IF family = "v4" THEN Addrs \ {gwIP} ELSE {None}

Next ==
  \/ txWorker \/ API \/ Tick \/ expireSweep
  \/ \E c \in Clients : \/ Ask(c, "discover", None)
                        \/ \E a \in Wanted : Ask(c, "request", a)
                        \/ \E type \in {"release", "decline"} : GiveUp(c, type)
  \/ \E p \in Ports : PortLost(p) \/ PortBack(p) \/ PortDown(p)

Spec == Init /\ [][Next]_vars

\* The worker, started hooks, the clock and sweepLoop go on; clients need not.
FairSpec ==
  /\ Spec
  /\ WF_vars(txWorker) /\ WF_vars(Tick) /\ WF_vars(expireSweep)
  /\ \A p \in Ports : WF_vars(PortDown(p))

-----------------------------------------------------------------------------
(* Properties. *)

\* selectIP, inUse, allocate: an address that a client was given, and has not
\* given up, is leased to that client for at least as long as the client counts
\* on it, so that no two clients ever use one address; except for clients whose
\* lease was ended by somebody else (port-down, API, a late RELEASE).
BoundIsLeased ==
  \A c \in Clients \ evicted : bound[c] # None =>
    LET l == leases[bound[c].ip] IN l # None /\ l.client = c /\ l.left >= bound[c].left

\* selectIP, StaticBinding ("pins an IP to a client"): if a binding stays, its
\* address ends up with the clients of bindings for it and nobody else,
\* whoever had it before and however often they renew it.
StaticWins ==
  \A b \in Bindings : <>[](b \in statics) =>
    <>[](leases[b.ip] = None \/ leases[b.ip].client = "declined"
         \/ \E x \in statics : x.ip = b.ip /\ Matches(x, leases[b.ip].client))

\* releaseByPort, expireSweep; src/README.md:249 promises that the leases of a
\* port that goes offline are released: if a port stays
\* offline, no lease is left for it, not even one that the worker books for a
\* frame it still had in its queue.
OfflineHoldsNothing ==
  \A p \in Ports : <>[](p \notin up) =>
    <>[](\A a \in Addrs : leases[a] = None \/ leases[a].port # p)
=============================================================================

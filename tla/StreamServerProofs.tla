------------------------- MODULE StreamServerProofs -------------------------
(***************************************************************************)
(* Proofs about a stream server port, for any number of connections, any   *)
(* names of peers and each replacing mode: it has one connection at a time *)
(* (replace, occupy) or a registered port for each (multiplex), its tables *)
(* agree with the Switch's, and a closed one has no connection left.       *)
(***************************************************************************)
EXTENDS StreamServer, FiniteSetTheorems, WellFoundedInduction, TLAPS

NoneOr  == Conns \cup {None}
Attrs   == Nat \cup {None}
Entries == [conn: NoneOr, attrs: Attrs]
AccPCs  == {"accept", "adopt", "kick", "relock", "start", "addSub", "register", "undo"}
Accs    == [pc: AccPCs, c: NoneOr, old: NoneOr, attrs: Attrs]

Types ==
  /\ mode \in Modes /\ peerString \in PeerStrings /\ closed \in BOOLEAN
  /\ pump \in NoneOr /\ attrs \in Nat
  /\ subs \in [SubIDs -> NoneOr]
  /\ st \in [Conns -> {"away", "open", "refused", "ready", "running", "stopped"}]
  /\ exit \in [Conns -> {"no", "pending", "report", "done"}]
  /\ subID \in [Conns -> SubIDs \cup {None}]
  /\ acc \in Accs
  /\ closer \in [pc: {"idle", "marked", "stop"}, todo: SUBSET Conns]
  /\ updater \in [todo: SUBSET SubIDs, attrs: Attrs]
  /\ reg \in [SubIDs -> Entries]

\* The accept loop: what it holds at each place, and which of its places
\* belong to which mode.
Loop ==
  /\ acc.pc # "accept" => acc.c \in Conns
  /\ acc.pc \in {"adopt", "kick", "relock", "addSub"} => st[acc.c] = "open"
  /\ acc.pc = "kick" => acc.old \in Conns
  /\ acc.pc \in {"kick", "relock"} => pump = None
  /\ acc.pc \in {"register", "undo"} =>
       /\ st[acc.c] = "ready" \/ (closed /\ st[acc.c] = "stopped")
       /\ subID[acc.c] \in SubIDs /\ subs[subID[acc.c]] \in {acc.c, None}
       /\ \A i \in SubIDs : reg[i].conn # acc.c
  /\ IF mode = "multiplex" THEN acc.pc \notin {"adopt", "kick", "relock"} /\ pump = None
     ELSE /\ acc.pc \notin {"addSub", "register", "undo"}
          /\ \A i \in SubIDs : subs[i] = None /\ reg[i].conn = None

\* onExit is started when a pump is stopped; Close marks the port first.
Phases ==
  /\ \A c \in Conns : exit[c] = "no" <=> st[c] # "stopped"
  /\ closed <=> closer.pc # "idle"
  /\ closed => pump = None
  /\ ~closed => closer.todo = {}

\* A live connection is the port's, or is about to be stopped.
Single ==
  /\ mode # "multiplex" =>
       /\ \A c \in Conns : Live(c) => pump = c \/ (acc.pc = "kick" /\ acc.old = c) \/ c \in closer.todo
       /\ \A c, d \in closer.todo : c = d
       /\ closer.todo # {} => acc.pc # "kick"
  /\ closed => \A c \in Conns : Live(c) => c \in closer.todo \/ (acc.pc = "kick" /\ acc.old = c)

\* The table of subports: a live connection is in it, and what is in it is live
\* or on its way out.
Table ==
  /\ anonIDs = {i \in AnonIDs : subs[i] # None}
  /\ \A i \in SubIDs, c \in Conns : subs[i] = c => subID[c] = i /\ (Live(c) \/ exit[c] = "pending")
  /\ mode = "multiplex" => \A c \in Conns :
       /\ st[c] \in {"ready", "running", "stopped"} => subID[c] \in SubIDs
       /\ Live(c) => subs[subID[c]] = c
       /\ exit[c] = "pending" => subs[subID[c]] = c \/ (closed /\ subs[subID[c]] = None)

\* The Switch's registry: likewise.
Registered ==
  /\ \A i \in SubIDs, c \in Conns : reg[i].conn = c =>
       subID[c] = i /\ (Live(c) \/ exit[c] \in {"pending", "report"} \/ closed)
  /\ \A i \in SubIDs : reg[i].conn = None => reg[i] = Free
  /\ mode = "multiplex" => \A c \in Conns : Live(c) =>
       reg[subID[c]].conn = c \/ (acc.c = c /\ acc.pc \in {"register", "undo"})

IInv == Types /\ Loop /\ Phases /\ Single /\ Table /\ Registered

-----------------------------------------------------------------------------
(* Lemmas. *)

\* A set of naturals that is not empty has a smallest element.
LEMMA Smallest ==
  ASSUME NEW S \in SUBSET Nat, S # {}
  PROVE  \E m \in S : \A k \in S : m <= k
<1>1. PICK m \in S : \A k \in S : ~(<<k, m>> \in OpToRel(<, Nat))
  BY WFMin, NatLessThanWellFounded
<1>2. \A k \in S : ~(k < m)
  BY <1>1 DEF OpToRel
<1>3. QED
  BY <1>2

\* What SubIDs has to offer.
LEMMA SubIDFacts ==
  /\ AnonIDs \subseteq SubIDs
  /\ \A f \in PeerStrings, c \in Conns : f[c] # "" => f[c] \in SubIDs
<1>1. ASSUME NEW f \in PeerStrings, NEW c \in Conns PROVE f[c] \in Names
  <2>1. f[c] \in {f[d] : d \in Conns}
    OBVIOUS
  <2>2. {f[d] : d \in Conns} \in {{g[d] : d \in Conns} : g \in PeerStrings}
    OBVIOUS
  <2>3. QED
    BY <2>1, <2>2, Zenon DEF Names
<1>2. QED
  BY <1>1 DEF SubIDs

\* allocAnonLocked: there is always a number left, because each number in use
\* belongs to a connection, and there is one number more than connections.
LEMMA NumberLeft == ASSUME Types, Table PROVE AnonIDs \ anonIDs # {}
<1> SUFFICES ASSUME AnonIDs \ anonIDs = {} PROVE FALSE
  OBVIOUS
<1> DEFINE T == {subID[c] : c \in Conns}
<1>1. IsFiniteSet(Conns) /\ Cardinality(Conns) \in Nat
  BY ServerAssumption, FS_CardinalityType
<1>2. subID \in Surjection(Conns, T)
  BY DEF Types, Surjection
<1>3. IsFiniteSet(T) /\ Cardinality(T) <= Cardinality(Conns)
  BY <1>1, <1>2, FS_Surjection
<1>4. AnonIDs \subseteq T
  <2> SUFFICES ASSUME NEW i \in AnonIDs PROVE i \in T
    OBVIOUS
  <2>1. i \in anonIDs /\ i \in SubIDs
    BY SubIDFacts
  <2>2. subs[i] # None /\ subs[i] \in NoneOr
    BY <2>1 DEF Table, Types
  <2>3. subs[i] \in Conns /\ subID[subs[i]] = i
    BY <2>1, <2>2, Zenon DEF Table, NoneOr
  <2>4. QED
    BY <2>3
<1> HIDE DEF T
<1>5. Cardinality(AnonIDs) = Cardinality(Conns) + 1
  BY <1>1, FS_Interval DEF AnonIDs
<1>6. Cardinality(AnonIDs) <= Cardinality(T)
  BY <1>3, <1>4, FS_Subset
<1>7. Cardinality(T) \in Nat
  BY <1>3, FS_CardinalityType
<1>8. QED
  BY <1>1, <1>3, <1>5, <1>6, <1>7

LEMMA NewSubIDType == ASSUME Types, Table, acc.c \in Conns PROVE NewSubID \in SubIDs
<1>1. CASE peerString[acc.c] = ""
  <2>1. AnonIDs \ anonIDs \in SUBSET Nat /\ AnonIDs \ anonIDs # {}
    BY NumberLeft DEF AnonIDs
  <2>2. \E i \in AnonIDs \ anonIDs : \A j \in AnonIDs \ anonIDs : i <= j
    BY <2>1, Smallest
  <2>3. allocAnon \in AnonIDs
    BY <2>2 DEF allocAnon
  <2>4. QED
    BY <1>1, <2>3, SubIDFacts DEF NewSubID
<1>2. CASE peerString[acc.c] # ""
  BY <1>2, SubIDFacts DEF NewSubID, Types
<1>3. QED
  BY <1>1, <1>2

LEMMA InitIInv == Init => IInv
<1> SUFFICES ASSUME Init PROVE IInv
  OBVIOUS
<1> USE DEF Init, Idle, Free, NoneOr, Live
<1>1. Types
  BY DEF Types, Attrs, Entries, Accs, AccPCs
<1>2. Loop
  BY DEF Loop
<1>3. Phases
  BY DEF Phases
<1>4. Single
  BY DEF Single
<1>5. Table
  BY SubIDFacts, ServerAssumption DEF Table
<1>6. Registered
  BY ServerAssumption DEF Registered
<1>7. QED
  BY <1>1, <1>2, <1>3, <1>4, <1>5, <1>6 DEF IInv

-----------------------------------------------------------------------------
(* Steps of the accept loop, the pumps and Close. *)

\* pump.stop, whoever calls it.
LEMMA StopFacts ==
  ASSUME IInv, NEW S \in SUBSET Conns, stop(S),
         UNCHANGED <<mode, closed, subs, anonIDs, subID, reg>>
  PROVE  /\ st' \in [Conns -> {"away", "open", "refused", "ready", "running", "stopped"}]
         /\ exit' \in [Conns -> {"no", "pending", "report", "done"}]
         /\ \A c \in Conns : /\ st'[c] = IF c \in S /\ Live(c) THEN "stopped" ELSE st[c]
                             /\ exit'[c] = IF c \in S /\ Live(c) THEN "pending" ELSE exit[c]
         /\ \A c \in Conns : exit'[c] = "no" <=> st'[c] # "stopped"
         /\ Table'
         /\ \A i \in SubIDs, c \in Conns : reg'[i].conn = c =>
              subID'[c] = i /\ (Live(c)' \/ exit'[c] \in {"pending", "report"} \/ closed')
<1> USE DEF Live
<1>1. st \in [Conns -> {"away", "open", "refused", "ready", "running", "stopped"}]
      /\ exit \in [Conns -> {"no", "pending", "report", "done"}]
  BY DEF IInv, Types
<1>2. \A c \in Conns : /\ st'[c] = IF c \in S /\ Live(c) THEN "stopped" ELSE st[c]
                      /\ exit'[c] = IF c \in S /\ Live(c) THEN "pending" ELSE exit[c]
  BY DEF stop
<1>3. st' \in [Conns -> {"away", "open", "refused", "ready", "running", "stopped"}]
      /\ exit' \in [Conns -> {"no", "pending", "report", "done"}]
  BY <1>1 DEF stop
<1>5. \A c \in Conns : exit'[c] = "no" <=> st'[c] # "stopped"
  BY <1>2 DEF IInv, Phases
<1>7. ASSUME NEW i \in SubIDs, NEW c \in Conns, subs'[i] = c
      PROVE  subID'[c] = i /\ (Live(c)' \/ exit'[c] = "pending")
  <2>1. subID[c] = i /\ (Live(c) \/ exit[c] = "pending")
    BY <1>7 DEF IInv, Table
  <2>2. QED
    BY <1>2, <2>1
<1>8. ASSUME mode = "multiplex", NEW c \in Conns
      PROVE  /\ st'[c] \in {"ready", "running", "stopped"} => subID'[c] \in SubIDs
             /\ Live(c)' => subs'[subID'[c]] = c
             /\ exit'[c] = "pending" => subs'[subID'[c]] = c \/ (closed' /\ subs'[subID'[c]] = None)
  BY <1>2, <1>8 DEF IInv, Table
<1>9. anonIDs' = {i \in AnonIDs : subs'[i] # None}
  BY DEF IInv, Table
<1>10. Table'
  BY <1>7, <1>8, <1>9 DEF Table
<1>11. ASSUME NEW i \in SubIDs, NEW c \in Conns, reg'[i].conn = c
       PROVE  subID'[c] = i /\ (Live(c)' \/ exit'[c] \in {"pending", "report"} \/ closed')
  <2>1. subID[c] = i /\ (Live(c) \/ exit[c] \in {"pending", "report"} \/ closed)
    BY <1>11 DEF IInv, Registered
  <2>2. QED
    BY <1>2, <2>1
<1>12. QED
  BY <1>2, <1>3, <1>5, <1>10, <1>11

LEMMA PumpFailsStep == ASSUME IInv, NEW c \in Conns, PumpFails(c) PROVE IInv'
<1> USE DEF Live
<1>1. /\ st[c] = "running" /\ stop({c})
      /\ UNCHANGED <<mode, peerString, closed, pump, attrs, subs, anonIDs, subID, acc, closer, updater, reg>>
  BY DEF PumpFails, consts, fields
<1>2. Types'
  BY <1>1, StopFacts DEF IInv, Types
<1>3. Loop'
  BY <1>1, StopFacts DEF IInv, Loop
<1>4. Phases'
  BY <1>1, StopFacts DEF IInv, Phases
<1>5. Single'
  BY <1>1, StopFacts DEF IInv, Single
<1>6. Table'
  BY <1>1, StopFacts
<1>7. Registered'
  BY <1>1, StopFacts DEF IInv, Registered
<1>8. QED
  BY <1>2, <1>3, <1>4, <1>5, <1>6, <1>7 DEF IInv

\* A connection is accepted or turned away: it is not in any table.
LEMMA OutsideFacts ==
  ASSUME IInv, NEW d \in Conns, st[d] \in {"away", "open"}, NEW s \in {"open", "refused"},
         st' = [st EXCEPT ![d] = s],
         acc.pc \notin {"register", "undo", "kick"}, acc'.pc # "kick",
         acc' \in Accs,
         UNCHANGED <<mode, peerString, closed, pump, attrs, subs, anonIDs, exit, subID, closer, updater, reg>>
  PROVE  Types' /\ Phases' /\ Single' /\ Table' /\ Registered'
<1> USE DEF Live
<1>1. \A c \in Conns : /\ c # d => st'[c] = st[c]
                      /\ st'[d] = s
  BY DEF IInv, Types
<1>2. \A c \in Conns : Live(c)' <=> Live(c)
  BY <1>1
<1>3. Types'
  BY DEF IInv, Types
<1>4. Phases'
  BY <1>1 DEF IInv, Phases
<1>5. Single'
  BY <1>2 DEF IInv, Single
<1>6. Table'
  <2>1. \A i \in SubIDs, c \in Conns : subs'[i] = c => subID'[c] = i /\ (Live(c)' \/ exit'[c] = "pending")
    BY <1>2 DEF IInv, Table
  <2>2. ASSUME mode = "multiplex", NEW c \in Conns
        PROVE  /\ st'[c] \in {"ready", "running", "stopped"} => subID'[c] \in SubIDs
               /\ Live(c)' => subs'[subID'[c]] = c
               /\ exit'[c] = "pending" => subs'[subID'[c]] = c \/ (closed' /\ subs'[subID'[c]] = None)
    BY <1>1, <2>2 DEF IInv, Table
  <2>3. QED
    BY <2>1, <2>2 DEF IInv, Table
<1>7. Registered'
  BY <1>2 DEF IInv, Registered
<1>8. QED
  BY <1>3, <1>4, <1>5, <1>6, <1>7

\* The accept loop goes on with the same connection.
LEMMA Moved ==
  ASSUME NEW a \in Accs, NEW p \in AccPCs
  PROVE  LET m == [a EXCEPT !.pc = p] IN m \in Accs /\ m.pc = p /\ m.c = a.c
  BY DEF Accs

LEMMA PCs == "kick" \in AccPCs /\ "relock" \in AccPCs /\ "start" \in AccPCs
             /\ "register" \in AccPCs /\ "undo" \in AccPCs
  BY DEF AccPCs

LEMMA AcceptStep == ASSUME IInv, NEW c \in Conns, Accept(c) PROVE IInv'
<1>1. /\ acc.pc = "accept" /\ st[c] = "away" /\ st' = [st EXCEPT ![c] = "open"]
      /\ acc' = [pc |-> IF mode = "multiplex" THEN "addSub" ELSE "adopt", c |-> c, old |-> None, attrs |-> None]
      /\ UNCHANGED <<mode, peerString, closed, pump, attrs, subs, anonIDs, exit, subID, closer, updater, reg>>
  BY DEF Accept, Idle, consts, fields
<1>2. acc' \in Accs /\ acc'.pc \in {"addSub", "adopt"} /\ acc'.c = c
  BY <1>1 DEF Accs, AccPCs, NoneOr, Attrs
<1>3. Types' /\ Phases' /\ Single' /\ Table' /\ Registered'
  BY <1>1, <1>2, OutsideFacts
<1>4. Loop'
  BY <1>1, <1>2 DEF IInv, Loop, Types
<1>5. QED
  BY <1>3, <1>4 DEF IInv

LEMMA RefusedStep ==
  ASSUME IInv, acc.pc \in {"adopt", "relock", "addSub"}, Refused,
         UNCHANGED <<mode, peerString, closed, pump, attrs, subs, anonIDs, subID, closer, updater, reg>>
  PROVE  IInv'
<1>1. /\ acc.c \in Conns /\ st[acc.c] = "open" /\ st' = [st EXCEPT ![acc.c] = "refused"]
      /\ acc' = [pc |-> "accept", c |-> None, old |-> None, attrs |-> None] /\ exit' = exit
  BY DEF IInv, Loop, Refused, Idle
<1>2. acc' \in Accs /\ acc'.pc = "accept"
  BY <1>1 DEF Accs, AccPCs, NoneOr, Attrs
<1>3. Types' /\ Phases' /\ Single' /\ Table' /\ Registered'
  BY <1>1, <1>2, OutsideFacts
<1>4. Loop'
  BY <1>2 DEF IInv, Loop
<1>5. QED
  BY <1>3, <1>4 DEF IInv

LEMMA InstalledStep ==
  ASSUME IInv, acc.pc \in {"adopt", "relock"}, ~closed, pump = None, Installed,
         UNCHANGED <<mode, peerString, closed, attrs, subs, anonIDs, subID, closer, updater, reg>>
  PROVE  IInv'
<1> USE DEF Live
<1>1. /\ acc.c \in Conns /\ st[acc.c] = "open" /\ mode # "multiplex" /\ closer.todo = {}
  BY DEF IInv, Loop, Phases
<1>2. /\ pump' = acc.c /\ st' = [st EXCEPT ![acc.c] = "ready"] /\ acc' = [acc EXCEPT !.pc = "start"]
      /\ exit' = exit
  BY DEF Installed
<1>3. acc' \in Accs /\ acc'.pc = "start" /\ acc'.c = acc.c
  BY <1>2, Moved, PCs DEF IInv, Types
<1>4. \A c \in Conns : ~Live(c)
  BY <1>1, ServerAssumption DEF IInv, Single
<1>5. \A c \in Conns : (c # acc.c => st'[c] = st[c]) /\ st'[acc.c] = "ready"
  BY <1>1, <1>2 DEF IInv, Types
<1>6. Types'
  BY <1>1, <1>2, <1>3 DEF IInv, Types, NoneOr
<1>7. Loop'
  BY <1>1, <1>3 DEF IInv, Loop
<1>8. Phases'
  BY <1>1, <1>2, <1>5 DEF IInv, Phases
<1>9. Single'
  BY <1>1, <1>2, <1>4, <1>5 DEF IInv, Single
<1>10. \A i \in SubIDs : subs[i] = None /\ reg[i].conn = None
  BY <1>1 DEF IInv, Loop
<1>11. Table'
  BY <1>1, <1>10, ServerAssumption DEF IInv, Table
<1>12. Registered'
  BY <1>1, <1>10, ServerAssumption DEF IInv, Registered
<1>13. QED
  BY <1>6, <1>7, <1>8, <1>9, <1>11, <1>12 DEF IInv

LEMMA AdoptStep == ASSUME IInv, adopt \/ adoptRelock PROVE IInv'
<1>1. acc.pc \in {"adopt", "relock"}
      /\ UNCHANGED <<mode, peerString, closed, attrs, subs, anonIDs, subID, closer, updater, reg>>
  BY DEF adopt, adoptRelock, consts
<1>2. CASE Refused /\ UNCHANGED pump
  BY <1>1, <1>2, RefusedStep
<1>3. CASE ~closed /\ pump = None /\ Installed
  BY <1>1, <1>3, InstalledStep
<1>4. CASE /\ acc.pc = "adopt" /\ ~closed /\ pump # None /\ mode = "replace"
           /\ pump' = None /\ acc' = [acc EXCEPT !.pc = "kick", !.old = pump] /\ UNCHANGED pumps
  <2> USE DEF Live
  <2>1. acc \in Accs /\ pump \in Conns
    BY <1>4 DEF IInv, Types, NoneOr
  <2>2. acc' \in Accs
        /\ acc'.pc = "kick" /\ acc'.c = acc.c /\ acc'.old = pump
    BY <1>4, <2>1, PCs DEF Accs, NoneOr
  <2>3. st' = st /\ exit' = exit
    BY <1>4 DEF pumps
  <2>4. Types'
    BY <1>1, <1>4, <2>2, <2>3 DEF IInv, Types, NoneOr
  <2>5. Loop'
    BY <1>1, <1>4, <2>1, <2>2, <2>3 DEF IInv, Loop
  <2>6. Phases'
    BY <1>1, <1>4, <2>3 DEF IInv, Phases
  <2>7. Single'
    BY <1>1, <1>4, <2>2, <2>3 DEF IInv, Single, Phases
  <2>8. Table'
    BY <1>1, <2>3 DEF IInv, Table
  <2>9. Registered'
    BY <1>1, <1>4, <2>3 DEF IInv, Registered
  <2>10. QED
    BY <2>4, <2>5, <2>6, <2>7, <2>8, <2>9 DEF IInv
<1>5. QED
  BY <1>2, <1>3, <1>4 DEF adopt, adoptRelock, LostRace

LEMMA AdoptKickStep == ASSUME IInv, adoptKick PROVE IInv'
<1> USE DEF Live
<1>1. /\ acc.pc = "kick" /\ stop({acc.old}) /\ acc' = [acc EXCEPT !.pc = "relock"]
      /\ UNCHANGED <<mode, peerString, closed, pump, attrs, subs, anonIDs, subID, closer, updater, reg>>
  BY DEF adoptKick, consts, fields
<1>2. {acc.old} \in SUBSET Conns /\ mode # "multiplex" /\ st[acc.c] = "open" /\ acc.c \in Conns /\ pump = None
  BY <1>1 DEF IInv, Loop
<1>3. acc' \in Accs /\ acc'.pc = "relock" /\ acc'.c = acc.c
  BY <1>1, Moved, PCs DEF IInv, Types
<1>4. Types'
  BY <1>1, <1>2, <1>3, StopFacts DEF IInv, Types
<1>5. Loop'
  BY <1>1, <1>2, <1>3, StopFacts DEF IInv, Loop
<1>6. Phases'
  BY <1>1, <1>2, StopFacts DEF IInv, Phases
<1>7. Single'
  BY <1>1, <1>2, <1>3, StopFacts DEF IInv, Single
<1>8. Table'
  BY <1>1, <1>2, StopFacts
<1>9. Registered'
  BY <1>1, <1>2, StopFacts DEF IInv, Registered
<1>10. QED
  BY <1>4, <1>5, <1>6, <1>7, <1>8, <1>9 DEF IInv

LEMMA CloseStopStep == ASSUME IInv, NEW c \in Conns, CloseStop(c) PROVE IInv'
<1> USE DEF Live
<1>1. /\ closer.pc = "stop" /\ c \in closer.todo /\ stop({c})
      /\ closer' = [closer EXCEPT !.todo = closer.todo \ {c}]
      /\ UNCHANGED <<mode, peerString, closed, pump, attrs, subs, anonIDs, subID, acc, updater, reg>>
  BY DEF CloseStop, consts, fields
<1>2. closer' \in [pc: {"idle", "marked", "stop"}, todo: SUBSET Conns]
      /\ closer'.pc = "stop" /\ closer'.todo = closer.todo \ {c}
  BY <1>1 DEF IInv, Types
<1>3. closed
  BY <1>1 DEF IInv, Phases
<1>4. Types'
  BY <1>1, <1>2, StopFacts DEF IInv, Types
<1>5. Loop'
  BY <1>1, <1>2, <1>3, StopFacts DEF IInv, Loop
<1>6. Phases'
  BY <1>1, <1>2, StopFacts DEF IInv, Phases
<1>7. Single'
  <2>1. ASSUME NEW d \in Conns, Live(d)' PROVE d # c /\ Live(d)
    BY <1>1, <2>1, StopFacts
  <2>2. mode # "multiplex" => closer.todo = {c} /\ acc.pc # "kick"
    BY <1>1 DEF IInv, Single
  <2>3. QED
    BY <1>1, <1>2, <2>1, <2>2 DEF IInv, Single
<1>8. Table'
  BY <1>1, StopFacts
<1>9. Registered'
  BY <1>1, StopFacts DEF IInv, Registered
<1>10. QED
  BY <1>4, <1>5, <1>6, <1>7, <1>8, <1>9 DEF IInv

LEMMA StartStep == ASSUME IInv, start PROVE IInv'
<1> USE DEF Live
<1>1. /\ acc.pc = "start" /\ acc.c \in Conns
      /\ st' = [st EXCEPT ![acc.c] = IF st[acc.c] = "ready" THEN "running" ELSE st[acc.c]]
      /\ acc' = [pc |-> "accept", c |-> None, old |-> None, attrs |-> None]
      /\ UNCHANGED <<mode, peerString, closed, pump, attrs, subs, anonIDs, exit, subID, closer, updater, reg>>
  BY DEF start, Idle, consts, fields, IInv, Loop
<1>2. \A c \in Conns : st'[c] = IF c = acc.c /\ st[c] = "ready" THEN "running" ELSE st[c]
  BY <1>1 DEF IInv, Types
<1>3. \A c \in Conns : Live(c)' <=> Live(c)
  BY <1>2
<1>4. acc' \in Accs /\ acc'.pc = "accept"
  BY <1>1 DEF Accs, AccPCs, NoneOr, Attrs
<1>5. Types'
  BY <1>1, <1>4 DEF IInv, Types
<1>6. Loop'
  BY <1>1, <1>4 DEF IInv, Loop
<1>7. Phases'
  BY <1>1, <1>2 DEF IInv, Phases
<1>8. Single'
  BY <1>1, <1>3, <1>4 DEF IInv, Single
<1>9. Table'
  <2>1. ASSUME NEW i \in SubIDs, NEW c \in Conns, subs'[i] = c
        PROVE  subID'[c] = i /\ (Live(c)' \/ exit'[c] = "pending")
    <3>1. subID[c] = i /\ (Live(c) \/ exit[c] = "pending")
      BY <1>1, <2>1 DEF IInv, Table
    <3>2. QED
      BY <1>1, <1>3, <3>1
  <2>2. ASSUME mode = "multiplex", NEW c \in Conns
        PROVE  /\ st'[c] \in {"ready", "running", "stopped"} => subID'[c] \in SubIDs
               /\ Live(c)' => subs'[subID'[c]] = c
               /\ exit'[c] = "pending" => subs'[subID'[c]] = c \/ (closed' /\ subs'[subID'[c]] = None)
    BY <1>1, <1>2, <2>2 DEF IInv, Table
  <2>3. QED
    BY <1>1, <2>1, <2>2 DEF IInv, Table
<1>10. Registered'
  BY <1>1, <1>3 DEF IInv, Registered
<1>11. QED
  BY <1>5, <1>6, <1>7, <1>8, <1>9, <1>10 DEF IInv

LEMMA CloseStep == ASSUME IInv, Close PROVE IInv'
<1> USE DEF Live
<1>1. /\ closer.pc = "idle" /\ closed' = TRUE /\ pump' = None
      /\ closer' = [pc |-> "marked", todo |-> ({pump} \cup {subs[i] : i \in SubIDs}) \ {None}]
      /\ UNCHANGED <<mode, peerString, attrs, subs, anonIDs, st, exit, subID, acc, updater, reg>>
  BY DEF Close, consts, pumps
<1>2. ~closed /\ closer.todo = {}
  BY <1>1 DEF IInv, Phases
<1>3. closer'.todo \subseteq Conns /\ closer'.pc = "marked"
  BY <1>1 DEF IInv, Types, NoneOr
<1>4. pump \in Conns => pump \in closer'.todo
  BY <1>1, ServerAssumption
<1>5. \A i \in SubIDs : subs[i] \in Conns => subs[i] \in closer'.todo
  BY <1>1, ServerAssumption
<1>6. Types'
  BY <1>1, <1>3 DEF IInv, Types, NoneOr
<1>7. Loop'
  BY <1>1 DEF IInv, Loop
<1>8. Phases'
  BY <1>1 DEF IInv, Phases
<1>9. Single'
  <2>1. CASE mode = "multiplex"
    <3>1. ASSUME NEW c \in Conns, Live(c) PROVE c \in closer'.todo
      <4>1. subID[c] \in SubIDs /\ subs[subID[c]] = c
        BY <2>1, <3>1 DEF IInv, Table
      <4>2. QED
        BY <1>5, <4>1
    <3>2. QED
      BY <1>1, <2>1, <3>1 DEF Single
  <2>2. CASE mode # "multiplex"
    <3>1. closer'.todo = {pump} \ {None}
      BY <1>1, <2>2 DEF IInv, Loop
    <3>2. acc.pc = "kick" => pump = None
      BY DEF IInv, Loop
    <3>3. \A c \in Conns : Live(c) => pump = c \/ (acc.pc = "kick" /\ acc.old = c)
      BY <1>2, <2>2 DEF IInv, Single
    <3>4. QED
      BY <1>1, <1>4, <2>2, <3>1, <3>2, <3>3 DEF Single
  <2>3. QED
    BY <2>1, <2>2
<1>10. Table'
  BY <1>1, <1>2 DEF IInv, Table
<1>11. Registered'
  BY <1>1 DEF IInv, Registered
<1>12. QED
  BY <1>6, <1>7, <1>8, <1>9, <1>10, <1>11 DEF IInv

LEMMA CloseListenerStep == ASSUME IInv, CloseListener PROVE IInv'
<1> USE DEF Live
<1>1. /\ closer.pc = "marked" /\ closer' = [closer EXCEPT !.pc = "stop"]
      /\ UNCHANGED <<mode, peerString, closed, pump, attrs, subs, anonIDs, st, exit, subID, acc, updater, reg>>
  BY DEF CloseListener, consts, fields, pumps
<1>2. closer' \in [pc: {"idle", "marked", "stop"}, todo: SUBSET Conns]
      /\ closer'.pc = "stop" /\ closer'.todo = closer.todo
  BY <1>1 DEF IInv, Types
<1>3. Types'
  BY <1>1, <1>2 DEF IInv, Types
<1>4. Loop'
  BY <1>1 DEF IInv, Loop
<1>5. Phases'
  BY <1>1, <1>2 DEF IInv, Phases
<1>6. Single'
  BY <1>1, <1>2 DEF IInv, Single
<1>7. Table'
  BY <1>1 DEF IInv, Table
<1>8. Registered'
  BY <1>1 DEF IInv, Registered
<1>9. QED
  BY <1>3, <1>4, <1>5, <1>6, <1>7, <1>8 DEF IInv

-----------------------------------------------------------------------------
(* Steps of the subports of a multiplex port. *)

LEMMA AddSubStep == ASSUME IInv, addSub PROVE IInv'
<1> USE DEF Live
<1>1. /\ acc.pc = "addSub" /\ acc.c \in Conns /\ st[acc.c] = "open" /\ mode = "multiplex"
      /\ UNCHANGED <<mode, peerString, closed, pump, attrs, closer, updater, reg>>
  BY DEF addSub, consts, IInv, Loop
<1>2. CASE Refused /\ UNCHANGED <<subs, anonIDs, subID>>
  BY <1>1, <1>2, RefusedStep
<1>3. ASSUME ~closed, NEW i, i = NewSubID, subs[i] = None,
             subs' = [subs EXCEPT ![i] = acc.c], anonIDs' = anonIDs \cup ({i} \cap AnonIDs),
             subID' = [subID EXCEPT ![acc.c] = i], st' = [st EXCEPT ![acc.c] = "ready"],
             acc' = [acc EXCEPT !.pc = "register", !.attrs = attrs], exit' = exit
      PROVE  IInv'
  <2>1. i \in SubIDs
    BY <1>1, <1>3, NewSubIDType DEF IInv
  <2>2. acc' \in Accs /\ acc'.pc = "register" /\ acc'.c = acc.c
    <3>1. acc \in Accs /\ attrs \in Attrs
      BY DEF IInv, Types, Attrs
    <3>2. QED
      BY <1>3, <3>1, PCs DEF Accs
  <2>3. \A c \in Conns : /\ c # acc.c => st'[c] = st[c] /\ subID'[c] = subID[c]
                        /\ st'[acc.c] = "ready" /\ subID'[acc.c] = i
    BY <1>1, <1>3 DEF IInv, Types
  <2>4. \A j \in SubIDs : (j # i => subs'[j] = subs[j]) /\ subs'[i] = acc.c
    BY <1>3, <2>1 DEF IInv, Types
  <2>5. exit[acc.c] = "no" /\ None # acc.c
    BY <1>1, ServerAssumption DEF IInv, Phases
  <2>6. \A j \in SubIDs : subs[j] # acc.c /\ reg[j].conn # acc.c
    BY <1>1, <1>3, <2>5 DEF IInv, Table, Registered
  <2>7. Types'
    BY <1>1, <1>3, <2>1, <2>2 DEF IInv, Types, NoneOr
  <2>8. Loop'
    BY <1>1, <2>1, <2>2, <2>3, <2>4, <2>6 DEF IInv, Loop
  <2>9. Phases'
    BY <1>1, <1>3, <2>3 DEF IInv, Phases
  <2>10. Single'
    BY <1>1, <1>3 DEF Single
  <2>11. Table'
    <3>1. anonIDs' = {j \in AnonIDs : subs'[j] # None}
      <4>1. anonIDs = {j \in AnonIDs : subs[j] # None}
        BY DEF IInv, Table
      <4>2. \A j \in AnonIDs : subs'[j] # None <=> j = i \/ subs[j] # None
        BY <2>1, <2>4, <2>5, SubIDFacts
      <4>3. QED
        BY <1>3, <4>1, <4>2
    <3>2. ASSUME NEW j \in SubIDs, NEW c \in Conns, subs'[j] = c
          PROVE  subID'[c] = j /\ (Live(c)' \/ exit'[c] = "pending")
      <4>1. CASE j = i
        BY <2>3, <2>4, <3>2, <4>1
      <4>2. CASE j # i
        BY <1>3, <2>3, <2>4, <2>6, <3>2, <4>2 DEF IInv, Table
      <4>3. QED
        BY <4>1, <4>2
    <3>3. ASSUME NEW c \in Conns
          PROVE  /\ st'[c] \in {"ready", "running", "stopped"} => subID'[c] \in SubIDs
                 /\ Live(c)' => subs'[subID'[c]] = c
                 /\ exit'[c] = "pending" => subs'[subID'[c]] = c
      <4>1. CASE c = acc.c
        BY <1>3, <2>1, <2>3, <2>4, <2>5, <4>1
      <4>2. CASE c # acc.c
        <5>1. c # None /\ (exit[c] = "pending" => st[c] = "stopped")
          BY ServerAssumption DEF IInv, Phases
        <5>2. /\ st[c] \in {"ready", "running", "stopped"} => subID[c] \in SubIDs
              /\ Live(c) => subs[subID[c]] = c
              /\ exit[c] = "pending" => subs[subID[c]] = c
          BY <1>1, <1>3 DEF IInv, Table
        <5>3. QED
          BY <1>3, <2>3, <2>4, <4>2, <5>1, <5>2
      <4>3. QED
        BY <4>1, <4>2
    <3>4. QED
      BY <3>1, <3>2, <3>3 DEF Table
  <2>12. Registered'
    <3>1. ASSUME NEW j \in SubIDs, NEW c \in Conns, reg'[j].conn = c
          PROVE  subID'[c] = j /\ (Live(c)' \/ exit'[c] \in {"pending", "report"} \/ closed')
      BY <1>1, <1>3, <2>3, <2>6, <3>1 DEF IInv, Registered
    <3>2. ASSUME NEW c \in Conns, Live(c)'
          PROVE  reg'[subID'[c]].conn = c \/ (acc'.c = c /\ acc'.pc \in {"register", "undo"})
      BY <1>1, <2>2, <2>3, <3>2 DEF IInv, Registered
    <3>3. \A j \in SubIDs : reg'[j].conn = None => reg'[j] = Free
      BY <1>1 DEF IInv, Registered
    <3>4. QED
      BY <3>1, <3>2, <3>3 DEF Registered
  <2>13. QED
    BY <2>7, <2>8, <2>9, <2>10, <2>11, <2>12 DEF IInv
<1>4. QED
  BY <1>2, <1>3 DEF addSub

LEMMA RegisterStep == ASSUME IInv, acc.pc = "register", Register(subID[acc.c]) PROVE IInv'
<1> USE DEF Live
<1>1. UNCHANGED <<mode, peerString, closed, pump, attrs, subs, anonIDs, st, exit, subID, closer, updater>>
  BY DEF Register, consts, fields, pumps
<1> DEFINE i == subID[acc.c]
<1>2. /\ acc.c \in Conns /\ i \in SubIDs /\ mode = "multiplex" /\ acc \in Accs
      /\ None # acc.c /\ (Live(acc.c) \/ closed) /\ \A j \in SubIDs : reg[j].conn # acc.c
  BY ServerAssumption DEF IInv, Loop, Types
<1>3. CASE reg[i] # Free /\ acc' = [acc EXCEPT !.pc = "undo"] /\ UNCHANGED reg
  <2>1. acc' \in Accs /\ acc'.pc = "undo" /\ acc'.c = acc.c
    BY <1>2, <1>3, Moved, PCs
  <2>2. Types'
    BY <1>1, <1>3, <2>1 DEF IInv, Types
  <2>3. Loop'
    BY <1>1, <1>2, <1>3, <2>1 DEF IInv, Loop
  <2>4. Phases' /\ Table'
    BY <1>1 DEF IInv, Phases, Table
  <2>5. Single'
    BY <1>1, <1>2, <2>1 DEF IInv, Single
  <2>6. Registered'
    BY <1>1, <1>3, <2>1 DEF IInv, Registered
  <2>7. QED
    BY <2>2, <2>3, <2>4, <2>5, <2>6 DEF IInv
<1>4. CASE /\ reg[i] = Free /\ acc' = [acc EXCEPT !.pc = "start"]
           /\ reg' = [reg EXCEPT ![i] = [conn |-> acc.c, attrs |-> acc.attrs]]
  <2>1. acc' \in Accs /\ acc'.pc = "start" /\ acc'.c = acc.c
    BY <1>2, <1>4, Moved, PCs
  <2>2. [conn |-> acc.c, attrs |-> acc.attrs] \in Entries
    BY <1>2 DEF Accs, Entries, NoneOr
  <2>3. reg \in [SubIDs -> Entries] /\ reg' \in [SubIDs -> Entries]
    BY <1>4, <2>2 DEF IInv, Types
  <2>4. \A j \in SubIDs : (j # i => reg'[j] = reg[j]) /\ reg'[i].conn = acc.c
    BY <1>2, <1>4, <2>3
  <2>5. reg[i].conn = None
    BY <1>4 DEF Free
  <2>6. Types'
    BY <1>1, <2>1, <2>3 DEF IInv, Types
  <2>7. Loop'
    BY <1>1, <1>2, <2>1 DEF IInv, Loop
  <2>8. Phases' /\ Table'
    BY <1>1 DEF IInv, Phases, Table
  <2>9. Single'
    BY <1>1, <1>2, <2>1 DEF IInv, Single
  <2>10. Registered'
    <3>1. ASSUME NEW j \in SubIDs, NEW c \in Conns, reg'[j].conn = c
          PROVE  subID'[c] = j /\ (Live(c)' \/ exit'[c] \in {"pending", "report"} \/ closed')
      <4>1. CASE j = i
        BY <1>1, <1>2, <2>4, <3>1, <4>1
      <4>2. CASE j # i
        BY <1>1, <2>4, <3>1, <4>2 DEF IInv, Registered
      <4>3. QED
        BY <4>1, <4>2
    <3>2. ASSUME NEW c \in Conns, Live(c)' PROVE reg'[subID'[c]].conn = c
      <4>1. CASE c = acc.c
        BY <1>1, <1>2, <2>4, <4>1
      <4>2. CASE c # acc.c
        <5>1. reg[subID[c]].conn = c /\ subID[c] \in SubIDs /\ c # None
          BY <1>1, <1>2, <3>2, <4>2, ServerAssumption DEF IInv, Registered, Table
        <5>2. QED
          BY <1>1, <2>4, <2>5, <5>1
      <4>3. QED
        BY <4>1, <4>2
    <3>3. \A j \in SubIDs : reg'[j].conn = None => reg'[j] = Free
      BY <1>2, <2>4 DEF IInv, Registered
    <3>4. QED
      BY <3>1, <3>2, <3>3 DEF Registered
  <2>11. QED
    BY <2>6, <2>7, <2>8, <2>9, <2>10 DEF IInv
<1>5. QED
  BY <1>3, <1>4 DEF Register

\* delete(s.subs, subID): the entry is this connection's, or none is left.
LEMMA ForgetFacts ==
  ASSUME IInv, NEW i \in SubIDs, forget(i)
  PROVE  /\ subs' \in [SubIDs -> NoneOr]
         /\ \A j \in SubIDs : subs'[j] = IF j = i THEN None ELSE subs[j]
         /\ anonIDs' = {j \in AnonIDs : subs'[j] # None}
<1>1. subs \in [SubIDs -> NoneOr] /\ anonIDs = {j \in AnonIDs : subs[j] # None}
  BY DEF IInv, Types, Table
<1>2. subs' = [subs EXCEPT ![i] = None] /\ anonIDs' = anonIDs \ {i}
  BY DEF forget
<1>3. \A j \in SubIDs : subs'[j] = IF j = i THEN None ELSE subs[j]
  BY <1>1, <1>2
<1>4. \A j \in AnonIDs : subs'[j] # None <=> j # i /\ subs[j] # None
  BY <1>3, SubIDFacts
<1>5. QED
  BY <1>1, <1>2, <1>3, <1>4 DEF NoneOr

\* A replace or occupy port has no subports.
LEMMA NoSubs ==
  ASSUME IInv, mode # "multiplex", UNCHANGED <<mode, subs, anonIDs, reg>>
  PROVE  Table' /\ Registered'
<1>1. \A i \in SubIDs : subs'[i] = None /\ reg'[i].conn = None
  BY DEF IInv, Loop
<1>2. \A c \in Conns : c # None
  BY ServerAssumption
<1>3. anonIDs' = {i \in AnonIDs : subs'[i] # None}
  BY DEF IInv, Table
<1>4. \A i \in SubIDs : reg'[i].conn = None => reg'[i] = Free
  BY DEF IInv, Registered
<1>5. Table'
  BY <1>1, <1>2, <1>3, Zenon DEF Table
<1>6. Registered'
  BY <1>1, <1>2, <1>4, Zenon DEF Registered
<1>7. QED
  BY <1>5, <1>6

LEMMA AddSubUndoStep == ASSUME IInv, addSubUndo PROVE IInv'
<1> USE DEF Live
<1> DEFINE i == subID[acc.c]
<1>1. /\ acc.pc = "undo" /\ forget(i)
      /\ st' = [st EXCEPT ![acc.c] = IF st[acc.c] = "ready" THEN "refused" ELSE st[acc.c]]
      /\ acc' = [pc |-> "accept", c |-> None, old |-> None, attrs |-> None]
      /\ UNCHANGED <<mode, peerString, closed, pump, attrs, exit, subID, closer, updater, reg>>
  BY DEF addSubUndo, Idle, consts
<1>2. /\ acc.c \in Conns /\ i \in SubIDs /\ mode = "multiplex" /\ subs[i] \in {acc.c, None}
      /\ (st[acc.c] = "ready" \/ (closed /\ st[acc.c] = "stopped"))
      /\ \A j \in SubIDs : reg[j].conn # acc.c
  BY <1>1 DEF IInv, Loop
<1>3. /\ \A c \in Conns : c # acc.c => st'[c] = st[c]
      /\ \/ st[acc.c] = "ready" /\ st'[acc.c] = "refused"
         \/ closed /\ st[acc.c] = "stopped" /\ st'[acc.c] = "stopped"
  BY <1>1, <1>2 DEF IInv, Types
<1>4. ASSUME NEW c \in Conns, Live(c)' PROVE Live(c) /\ c # acc.c
  <2>1. c # acc.c
    BY <1>3, <1>4
  <2>2. QED
    BY <1>3, <1>4, <2>1
<1>5. acc' \in Accs /\ acc'.pc = "accept"
  BY <1>1 DEF Accs, AccPCs, NoneOr, Attrs
<1>6. /\ subs' \in [SubIDs -> NoneOr]
      /\ \A j \in SubIDs : subs'[j] = IF j = i THEN None ELSE subs[j]
      /\ anonIDs' = {j \in AnonIDs : subs'[j] # None}
  BY <1>1, <1>2, ForgetFacts
<1> HIDE DEF i
<1>7. Types'
  BY <1>1, <1>5, <1>6 DEF IInv, Types
<1>8. Loop'
  BY <1>1, <1>2, <1>5 DEF IInv, Loop
<1>9. Phases'
  <2>1. ASSUME NEW c \in Conns PROVE exit[c] = "no" <=> st'[c] # "stopped"
    <3>1. exit[c] = "no" <=> st[c] # "stopped"
      BY DEF IInv, Phases
    <3>2. CASE c = acc.c
      BY <1>2, <1>3, <3>1, <3>2
    <3>3. CASE c # acc.c
      BY <1>3, <3>1, <3>3
    <3>4. QED
      BY <3>2, <3>3
  <2>2. QED
    BY <1>1, <2>1 DEF IInv, Phases
<1>10. Single'
  BY <1>1, <1>2, <1>4, <1>5 DEF IInv, Single
<1>11. Table'
  <2>1. ASSUME NEW j \in SubIDs, NEW c \in Conns, subs'[j] = c
        PROVE  subID'[c] = j /\ (Live(c)' \/ exit'[c] = "pending")
    <3>1. j # i /\ subs[j] = c
      BY <1>6, <2>1, ServerAssumption
    <3>2. subID[c] = j /\ (Live(c) \/ exit[c] = "pending")
      BY <3>1 DEF IInv, Table
    <3>3. QED
      BY <1>1, <1>3, <3>1, <3>2 DEF i
  <2>2. ASSUME NEW c \in Conns
        PROVE  /\ st'[c] \in {"ready", "running", "stopped"} => subID'[c] \in SubIDs
               /\ Live(c)' => subs'[subID'[c]] = c
               /\ exit'[c] = "pending" => subs'[subID'[c]] = c \/ (closed' /\ subs'[subID'[c]] = None)
    <3>1. /\ st[c] \in {"ready", "running", "stopped"} => subID[c] \in SubIDs
          /\ Live(c) => subs[subID[c]] = c
          /\ exit[c] = "pending" => subs[subID[c]] = c \/ (closed /\ subs[subID[c]] = None)
          /\ exit[c] = "pending" => st[c] = "stopped"
      BY <1>2 DEF IInv, Table, Phases
    <3>2. c # None
      BY ServerAssumption
    <3>3. CASE c # acc.c
      BY <1>1, <1>2, <1>3, <1>6, <3>1, <3>2, <3>3
    <3>4. CASE c = acc.c
      BY <1>1, <1>2, <1>3, <1>6, <3>1, <3>4 DEF i
    <3>5. QED
      BY <3>3, <3>4
  <2>3. QED
    BY <1>6, <2>1, <2>2 DEF Table
<1>12. Registered'
  <2>1. ASSUME NEW j \in SubIDs, NEW c \in Conns, reg'[j].conn = c
        PROVE  subID'[c] = j /\ (Live(c)' \/ exit'[c] \in {"pending", "report"} \/ closed')
    <3>1. subID[c] = j /\ (Live(c) \/ exit[c] \in {"pending", "report"} \/ closed)
      BY <1>1, <2>1 DEF IInv, Registered
    <3>2. c # acc.c
      BY <1>1, <1>2, <2>1
    <3>3. QED
      BY <1>1, <1>3, <3>1, <3>2
  <2>2. ASSUME NEW c \in Conns, Live(c)' PROVE reg'[subID'[c]].conn = c
    BY <1>1, <1>2, <1>4, <2>2 DEF IInv, Registered
  <2>3. \A j \in SubIDs : reg'[j].conn = None => reg'[j] = Free
    BY <1>1 DEF IInv, Registered
  <2>4. QED
    BY <2>1, <2>2, <2>3 DEF Registered
<1>13. QED
  BY <1>7, <1>8, <1>9, <1>10, <1>11, <1>12 DEF IInv

LEMMA OnExitStep == ASSUME IInv, NEW c \in Conns, onExit(c) PROVE IInv'
<1> USE DEF Live
<1>1. exit[c] = "pending" /\ UNCHANGED <<mode, peerString, closed, attrs, st, subID, acc, closer, updater, reg>>
  BY DEF onExit, consts
<1>2. st[c] = "stopped" /\ exit \in [Conns -> {"no", "pending", "report", "done"}]
  BY <1>1 DEF IInv, Phases, Types
<1>3. CASE mode = "multiplex"
  <2> DEFINE i == subID[c]
  <2>1. forget(i) /\ exit' = [exit EXCEPT ![c] = "report"] /\ UNCHANGED pump
    BY <1>3 DEF onExit
  <2>2. i \in SubIDs /\ (subs[i] = c \/ (closed /\ subs[i] = None))
    BY <1>1, <1>2, <1>3 DEF IInv, Table
  <2>3. /\ subs' \in [SubIDs -> NoneOr]
        /\ \A j \in SubIDs : subs'[j] = IF j = i THEN None ELSE subs[j]
        /\ anonIDs' = {j \in AnonIDs : subs'[j] # None}
    BY <2>1, <2>2, ForgetFacts
  <2> HIDE DEF i
  <2>4. \A d \in Conns : exit'[d] = IF d = c THEN "report" ELSE exit[d]
    BY <1>2, <2>1
  <2>5. Types'
    BY <1>1, <1>2, <2>1, <2>3 DEF IInv, Types
  <2>6. Loop'
    BY <1>1, <1>3, <2>1, <2>3 DEF IInv, Loop
  <2>7. Phases'
    BY <1>1, <1>2, <2>1, <2>4 DEF IInv, Phases
  <2>8. Single'
    BY <1>1, <2>1 DEF IInv, Single
  <2>9. Table'
    <3>1. ASSUME NEW j \in SubIDs, NEW d \in Conns, subs'[j] = d
          PROVE  subID'[d] = j /\ (Live(d)' \/ exit'[d] = "pending")
      <4>1. j # i /\ subs[j] = d
        BY <2>3, <3>1, ServerAssumption
      <4>2. subID[d] = j /\ (Live(d) \/ exit[d] = "pending")
        BY <4>1 DEF IInv, Table
      <4>3. QED
        BY <1>1, <2>4, <4>1, <4>2 DEF i
    <3>2. ASSUME NEW d \in Conns
          PROVE  /\ st'[d] \in {"ready", "running", "stopped"} => subID'[d] \in SubIDs
                 /\ Live(d)' => subs'[subID'[d]] = d
                 /\ exit'[d] = "pending" => subs'[subID'[d]] = d \/ (closed' /\ subs'[subID'[d]] = None)
      <4>1. /\ st[d] \in {"ready", "running", "stopped"} => subID[d] \in SubIDs
            /\ Live(d) => subs[subID[d]] = d
            /\ exit[d] = "pending" => subs[subID[d]] = d \/ (closed /\ subs[subID[d]] = None)
            /\ exit[d] = "pending" => st[d] = "stopped"
        BY <1>3 DEF IInv, Table, Phases
      <4>2. d # None
        BY ServerAssumption
      <4>3. CASE d = c
        BY <1>1, <1>2, <2>4, <4>1, <4>3
      <4>4. CASE d # c
        BY <1>1, <2>2, <2>3, <2>4, <4>1, <4>2, <4>4
      <4>5. QED
        BY <4>3, <4>4
    <3>3. QED
      BY <2>3, <3>1, <3>2 DEF Table
  <2>10. Registered'
    <3>1. ASSUME NEW j \in SubIDs, NEW d \in Conns, reg'[j].conn = d
          PROVE  subID'[d] = j /\ (Live(d)' \/ exit'[d] \in {"pending", "report"} \/ closed')
      <4>1. subID[d] = j /\ (Live(d) \/ exit[d] \in {"pending", "report"} \/ closed)
        BY <1>1, <3>1 DEF IInv, Registered
      <4>2. QED
        BY <1>1, <2>4, <4>1
    <3>2. QED
      BY <1>1, <3>1 DEF IInv, Registered
  <2>11. QED
    BY <2>5, <2>6, <2>7, <2>8, <2>9, <2>10 DEF IInv
<1>4. CASE mode # "multiplex"
  <2>1. /\ pump' = IF Offline THEN None ELSE pump
        /\ exit' = [exit EXCEPT ![c] = After(Offline)] /\ UNCHANGED <<subs, anonIDs>>
    BY <1>4 DEF onExit
  <2>2. After(Offline) \in {"report", "done"}
    BY DEF After
  <2>3. \A d \in Conns : exit'[d] = IF d = c THEN After(Offline) ELSE exit[d]
    BY <1>2, <2>1
  <2>5. Types'
    BY <1>1, <1>2, <2>1, <2>2 DEF IInv, Types, NoneOr
  <2>6. Loop'
    BY <1>1, <1>4, <2>1 DEF IInv, Loop
  <2>7. Phases'
    BY <1>1, <1>2, <2>1, <2>2, <2>3 DEF IInv, Phases
  <2>8. Single'
    BY <1>1, <2>1, ServerAssumption DEF IInv, Single, Offline
  <2>9. Table' /\ Registered'
    BY <1>1, <1>4, <2>1, NoSubs
  <2>10. QED
    BY <2>5, <2>6, <2>7, <2>8, <2>9 DEF IInv
<1>5. QED
  BY <1>3, <1>4

LEMMA NotifyDownStep == ASSUME IInv, NEW c \in Conns, NotifyDown(c) PROVE IInv'
<1> USE DEF Live
<1>1. /\ exit[c] = "report" /\ mode # "multiplex" /\ exit' = [exit EXCEPT ![c] = "done"]
      /\ UNCHANGED <<mode, peerString, closed, pump, attrs, subs, anonIDs, st, subID, acc, closer, updater, reg>>
  BY DEF NotifyDown, consts, fields
<1>2. exit \in [Conns -> {"no", "pending", "report", "done"}]
  BY DEF IInv, Types
<1>3. \A d \in Conns : exit'[d] = IF d = c THEN "done" ELSE exit[d]
  BY <1>1, <1>2
<1>5. Types'
  BY <1>1, <1>2 DEF IInv, Types
<1>6. Loop'
  BY <1>1 DEF IInv, Loop
<1>7. Phases'
  <2>1. ASSUME NEW d \in Conns PROVE exit'[d] = "no" <=> st[d] # "stopped"
    <3>1. exit[d] = "no" <=> st[d] # "stopped"
      BY DEF IInv, Phases
    <3>2. QED
      BY <1>1, <1>3, <3>1
  <2>2. QED
    BY <1>1, <2>1 DEF IInv, Phases
<1>8. Single'
  BY <1>1 DEF IInv, Single
<1>9. Table' /\ Registered'
  BY <1>1, NoSubs
<1>10. QED
  BY <1>5, <1>6, <1>7, <1>8, <1>9 DEF IInv

\* The port that RemovePort finds may be a newer connection's: it is stopped,
\* so no live connection is left without its port.
LEMMA RemovePortStep == ASSUME IInv, NEW c \in Conns, RemovePort(c) PROVE IInv'
<1> USE DEF Live
<1> DEFINE i == subID[c]
           victim == {reg[i].conn} \ {None}
<1>1. /\ exit[c] = "report" /\ mode = "multiplex"
      /\ st' = [x \in Conns |-> IF x \in victim /\ Live(x) THEN "stopped" ELSE st[x]]
      /\ exit' = [x \in Conns |-> IF x = c THEN "done"
                                  ELSE IF x \in victim /\ Live(x) THEN "pending" ELSE exit[x]]
      /\ reg' = [reg EXCEPT ![i] = Free]
      /\ UNCHANGED <<mode, peerString, closed, pump, attrs, subs, anonIDs, subID, acc, closer, updater>>
  BY DEF RemovePort, consts, fields
<1>2. st[c] = "stopped" /\ i \in SubIDs
  BY <1>1 DEF IInv, Phases, Table
<1>3. \A d \in Conns : d \in victim <=> reg[i].conn = d
  BY ServerAssumption
<1>4. /\ reg \in [SubIDs -> Entries] /\ Free \in Entries /\ Free.conn = None
      /\ st \in [Conns -> {"away", "open", "refused", "ready", "running", "stopped"}]
      /\ exit \in [Conns -> {"no", "pending", "report", "done"}]
  BY DEF IInv, Types, Free, Entries, NoneOr, Attrs
<1>5. \A j \in SubIDs : reg'[j] = IF j = i THEN Free ELSE reg[j]
  BY <1>1, <1>4
<1>6. \A d \in Conns : st'[d] = IF reg[i].conn = d /\ Live(d) THEN "stopped" ELSE st[d]
  BY <1>1, <1>3
<1>7. \A d \in Conns : exit'[d] = IF d = c THEN "done"
                               ELSE IF reg[i].conn = d /\ Live(d) THEN "pending" ELSE exit[d]
  BY <1>1, <1>3
<1>8. /\ st' \in [Conns -> {"away", "open", "refused", "ready", "running", "stopped"}]
      /\ exit' \in [Conns -> {"no", "pending", "report", "done"}]
      /\ reg' \in [SubIDs -> Entries]
  BY <1>1, <1>4
<1> HIDE DEF i, victim
<1>9. Types'
  BY <1>1, <1>8 DEF IInv, Types
<1>10. Loop'
  <2>1. acc.pc \in {"register", "undo"} => acc.c \in Conns /\ reg[i].conn # acc.c
    BY <1>2 DEF IInv, Loop
  <2>2. acc.pc # "accept" => acc.c \in Conns
    BY DEF IInv, Loop
  <2>3. acc.pc \in {"adopt", "kick", "relock", "addSub"} => st'[acc.c] = "open"
    BY <1>6, <2>2 DEF IInv, Loop
  <2>4. acc.pc \in {"register", "undo"} => st'[acc.c] = st[acc.c]
    BY <1>6, <2>1
  <2>5. acc.pc \in {"register", "undo"} => \A j \in SubIDs : reg'[j].conn # acc.c
    BY <1>4, <1>5, <2>1, ServerAssumption DEF IInv, Loop
  <2>6. QED
    BY <1>1, <2>2, <2>3, <2>4, <2>5 DEF IInv, Loop
<1>11. Phases'
  BY <1>1, <1>2, <1>6, <1>7 DEF IInv, Phases
<1>12. Single'
  BY <1>1, <1>6 DEF IInv, Single
<1>13. Table'
  <2>1. ASSUME NEW j \in SubIDs, NEW d \in Conns, subs'[j] = d
        PROVE  subID'[d] = j /\ (Live(d)' \/ exit'[d] = "pending")
    <3>1. subID[d] = j /\ (Live(d) \/ exit[d] = "pending")
      BY <1>1, <2>1 DEF IInv, Table
    <3>2. QED
      BY <1>1, <1>2, <1>6, <1>7, <3>1
  <2>2. ASSUME NEW d \in Conns
        PROVE  /\ st'[d] \in {"ready", "running", "stopped"} => subID'[d] \in SubIDs
               /\ Live(d)' => subs'[subID'[d]] = d
               /\ exit'[d] = "pending" => subs'[subID'[d]] = d \/ (closed' /\ subs'[subID'[d]] = None)
    <3>1. /\ st[d] \in {"ready", "running", "stopped"} => subID[d] \in SubIDs
          /\ Live(d) => subs[subID[d]] = d
          /\ exit[d] = "pending" => subs[subID[d]] = d \/ (closed /\ subs[subID[d]] = None)
      BY <1>1 DEF IInv, Table
    <3>2. QED
      BY <1>1, <1>6, <1>7, <3>1
  <2>3. QED
    BY <1>1, <2>1, <2>2 DEF IInv, Table
<1>14. Registered'
  <2>1. ASSUME NEW j \in SubIDs, NEW d \in Conns, reg'[j].conn = d
        PROVE  subID'[d] = j /\ (Live(d)' \/ exit'[d] \in {"pending", "report"} \/ closed')
    <3>1. j # i /\ reg[j].conn = d
      BY <1>4, <1>5, <2>1, ServerAssumption
    <3>2. subID[d] = j /\ (Live(d) \/ exit[d] \in {"pending", "report"} \/ closed)
      BY <3>1 DEF IInv, Registered
    <3>3. d # c
      BY <3>1, <3>2 DEF i
    <3>4. QED
      BY <1>1, <1>6, <1>7, <3>2, <3>3
  <2>2. ASSUME NEW d \in Conns, Live(d)'
        PROVE  reg'[subID'[d]].conn = d \/ (acc'.c = d /\ acc'.pc \in {"register", "undo"})
    <3>1. Live(d) /\ reg[i].conn # d
      BY <1>6, <2>2
    <3>2. subID[d] \in SubIDs /\ (reg[subID[d]].conn = d \/ (acc.c = d /\ acc.pc \in {"register", "undo"}))
      BY <1>1, <3>1 DEF IInv, Registered, Table
    <3>3. QED
      BY <1>1, <1>5, <3>1, <3>2
  <2>3. \A j \in SubIDs : reg'[j].conn = None => reg'[j] = Free
    BY <1>5 DEF IInv, Registered
  <2>4. QED
    BY <2>1, <2>2, <2>3 DEF Registered
<1>15. QED
  BY <1>9, <1>10, <1>11, <1>12, <1>13, <1>14 DEF IInv

LEMMA UpdateSubAttrsStep == ASSUME IInv, UpdateSubAttrs PROVE IInv'
<1> USE DEF Live
<1>1. /\ attrs' = attrs + 1
      /\ updater' = [todo |-> {i \in SubIDs : subs[i] # None}, attrs |-> attrs + 1]
      /\ UNCHANGED <<mode, peerString, closed, pump, subs, anonIDs, st, exit, subID, acc, closer, reg>>
  BY DEF UpdateSubAttrs, consts, pumps
<1>2. Types'
  <2>1. attrs \in Nat /\ attrs' \in Nat
    BY <1>1 DEF IInv, Types
  <2>2. updater' \in [todo: SUBSET SubIDs, attrs: Attrs]
    BY <1>1, <2>1 DEF Attrs
  <2>3. QED
    BY <1>1, <2>1, <2>2 DEF IInv, Types
<1>3. Loop' /\ Phases'
  BY <1>1 DEF IInv, Loop, Phases
<1>4. Single'
  BY <1>1 DEF IInv, Single
<1>5. Table'
  BY <1>1 DEF IInv, Table
<1>6. Registered'
  BY <1>1 DEF IInv, Registered
<1>7. QED
  BY <1>2, <1>3, <1>4, <1>5, <1>6 DEF IInv

LEMMA UpdateOneStep == ASSUME IInv, NEW i \in SubIDs, UpdateOne(i) PROVE IInv'
<1> USE DEF Live
<1>1. /\ reg' = IF reg[i] = Free THEN reg ELSE [reg EXCEPT ![i] = [reg[i] EXCEPT !.attrs = updater.attrs]]
      /\ updater' = [updater EXCEPT !.todo = updater.todo \ {i}]
      /\ UNCHANGED <<mode, peerString, closed, pump, attrs, subs, anonIDs, st, exit, subID, acc, closer>>
  BY DEF UpdateOne, consts, fields, pumps
<1>2. reg \in [SubIDs -> Entries] /\ updater \in [todo: SUBSET SubIDs, attrs: Attrs]
  BY DEF IInv, Types
<1>3. updater' \in [todo: SUBSET SubIDs, attrs: Attrs]
  BY <1>1, <1>2
<1>4. [reg[i] EXCEPT !.attrs = updater.attrs] \in Entries
      /\ [reg[i] EXCEPT !.attrs = updater.attrs].conn = reg[i].conn
  BY <1>2 DEF Entries
<1>5. /\ reg' \in [SubIDs -> Entries]
      /\ \A j \in SubIDs : reg'[j].conn = reg[j].conn /\ (reg[j] = Free => reg'[j] = Free)
  BY <1>1, <1>2, <1>4
<1>6. Types'
  BY <1>1, <1>3, <1>5 DEF IInv, Types
<1>7. Loop'
  BY <1>1, <1>5 DEF IInv, Loop
<1>8. Phases' /\ Single' /\ Table'
  BY <1>1 DEF IInv, Phases, Single, Table
<1>9. Registered'
  <2>1. ASSUME NEW c \in Conns, Live(c)', mode = "multiplex"
        PROVE  reg'[subID'[c]].conn = c \/ (acc'.c = c /\ acc'.pc \in {"register", "undo"})
    <3>1. subID[c] \in SubIDs
      BY <1>1, <2>1 DEF IInv, Table
    <3>2. QED
      BY <1>1, <1>5, <2>1, <3>1 DEF IInv, Registered
  <2>2. QED
    BY <1>1, <1>5, <2>1 DEF IInv, Registered
<1>10. QED
  BY <1>6, <1>7, <1>8, <1>9 DEF IInv

-----------------------------------------------------------------------------
(* The inductive invariant. *)

LEMMA Inductive == IInv /\ [Next]_vars => IInv'
<1> SUFFICES ASSUME IInv, [Next]_vars PROVE IInv'
  OBVIOUS
<1>1. CASE UNCHANGED vars
  <2>1. UNCHANGED <<mode, peerString, closed, pump, attrs, subs, anonIDs, st, exit, subID, acc, closer, updater, reg>>
    BY <1>1 DEF vars, consts, fields, pumps
  <2>2. Types' /\ Loop' /\ Phases'
    BY <2>1 DEF IInv, Types, Loop, Phases
  <2>3. Single'
    BY <2>1 DEF IInv, Single, Live
  <2>4. Table'
    BY <2>1 DEF IInv, Table, Live
  <2>5. Registered'
    BY <2>1 DEF IInv, Registered, Live
  <2>6. QED
    BY <2>2, <2>3, <2>4, <2>5 DEF IInv
<1>2. CASE acceptLoop
  BY <1>2, AdoptStep, AdoptKickStep, StartStep, AddSubStep, AddSubUndoStep, RegisterStep, Zenon DEF acceptLoop
<1>3. ASSUME NEW c \in Conns, Accept(c) \/ PumpFails(c) \/ Exits(c) PROVE IInv'
  BY <1>3, AcceptStep, PumpFailsStep, OnExitStep, NotifyDownStep, RemovePortStep, Zenon DEF Exits
<1>4. CASE Close \/ Closing
  BY <1>4, CloseStep, CloseListenerStep, CloseStopStep, Zenon DEF Closing
<1>5. CASE UpdateSubAttrs
  BY <1>5, UpdateSubAttrsStep
<1>6. ASSUME NEW i \in SubIDs, UpdateOne(i) PROVE IInv'
  BY <1>6, UpdateOneStep
<1>7. QED
  BY <1>1, <1>2, <1>3, <1>4, <1>5, <1>6, Zenon DEF Next

LEMMA Always == Spec => []IInv
  BY InitIInv, Inductive, PTL DEF Spec

-----------------------------------------------------------------------------
(* The results. *)

\* adopt, "the previous connection is closed first": whatever accepts, failing
\* pumps, onExit callbacks and Close interleave, a replace or occupy port of any
\* number of clients has at most one live connection.
THEOREM OneAtATime == Spec => []OneConnection
<1>1. IInv => OneConnection
  <2> SUFFICES ASSUME IInv, mode # "multiplex"
               PROVE  Cardinality({c \in Conns : Live(c)}) <= 1
    BY DEF OneConnection
  <2>1. ASSUME NEW c \in Conns, NEW d \in Conns, Live(c), Live(d) PROVE c = d
    <3>1. /\ pump = c \/ (acc.pc = "kick" /\ acc.old = c) \/ c \in closer.todo
          /\ pump = d \/ (acc.pc = "kick" /\ acc.old = d) \/ d \in closer.todo
      BY <2>1 DEF IInv, Single
    <3>2. /\ \A x, y \in closer.todo : x = y
          /\ closer.todo # {} => acc.pc # "kick"
      BY DEF IInv, Single
    <3>3. acc.pc = "kick" => pump = None
      BY DEF IInv, Loop
    <3>4. closer.todo # {} => pump = None
      BY DEF IInv, Phases
    <3>5. c # None /\ d # None
      BY ServerAssumption
    <3>6. QED
      BY <3>1, <3>2, <3>3, <3>4, <3>5
  <2>2. CASE {c \in Conns : Live(c)} = {}
    BY <2>2, FS_EmptySet
  <2>3. CASE {c \in Conns : Live(c)} # {}
    <3>1. PICK c \in Conns : Live(c)
      BY <2>3
    <3>2. {d \in Conns : Live(d)} = {c}
      BY <2>1, <3>1
    <3>3. QED
      BY <3>2, FS_Singleton
  <2>4. QED
    BY <2>2, <2>3
<1>2. QED
  BY <1>1, Always, PTL

\* Close: once it has stopped the pumps it found and the accept loop is through
\* with the connection it may have had in hand, no connection is live, whether
\* it was being adopted, replaced or registered when Close began.
THEOREM CloseStopsAll == Spec => []ClosedMeansStopped
<1>1. IInv => ClosedMeansStopped
  BY DEF IInv, Single, Phases, ClosedMeansStopped
<1>2. QED
  BY <1>1, Always, PTL

\* addSub: a running connection of a multiplex port always has its own subport
\* in the Switch, although onExit removes by ID what may be a newer connection's.
THEOREM RunningIsRegistered == Spec => []LiveHasPort
<1>1. IInv => LiveHasPort
  <2> SUFFICES ASSUME IInv, NEW c \in Conns, mode = "multiplex", st[c] = "running"
               PROVE  reg[subID[c]].conn = c
    BY DEF LiveHasPort
  <2>1. reg[subID[c]].conn = c \/ (acc.c = c /\ acc.pc \in {"register", "undo"})
    BY DEF IInv, Registered, Live
  <2>2. ~(acc.c = c /\ acc.pc \in {"register", "undo"})
    BY DEF IInv, Loop
  <2>3. QED
    BY <2>1, <2>2
<1>2. QED
  BY <1>1, Always, PTL

\* addSub, onExit, allocAnonLocked: whenever no connection is coming or going,
\* the server's table, the Switch's registry and the numbers in use agree.
THEOREM TablesAgree == Spec => []SubsMatchRegistry
<1>1. IInv => SubsMatchRegistry
  <2> SUFFICES ASSUME IInv, AtRest, ~closed
               PROVE  /\ \A i \in SubIDs : subs[i] = reg[i].conn /\ (subs[i] # None => Live(subs[i]))
                      /\ anonIDs = {i \in AnonIDs : subs[i] # None}
    BY DEF SubsMatchRegistry
  <2>1. acc.pc = "accept" /\ \A c \in Conns : exit[c] \notin {"pending", "report"}
    BY DEF AtRest
  <2>2. ASSUME NEW i \in SubIDs
        PROVE  subs[i] = reg[i].conn /\ (subs[i] # None => Live(subs[i]))
    <3>1. subs[i] \in NoneOr /\ reg[i].conn \in NoneOr
      BY DEF IInv, Types, Entries
    <3>2. CASE mode # "multiplex"
      BY <3>2 DEF IInv, Loop
    <3>3. ASSUME NEW c \in Conns, subs[i] = c PROVE Live(c) /\ subID[c] = i
      BY <2>1, <3>3 DEF IInv, Table
    <3>4. ASSUME NEW c \in Conns, reg[i].conn = c PROVE Live(c) /\ subID[c] = i
      BY <2>1, <3>4 DEF IInv, Registered
    <3>5. ASSUME mode = "multiplex", NEW c \in Conns, Live(c), subID[c] = i
          PROVE  subs[i] = c /\ reg[i].conn = c
      BY <2>1, <3>5 DEF IInv, Table, Registered
    <3>6. QED
      BY <3>1, <3>2, <3>3, <3>4, <3>5 DEF NoneOr
  <2>3. QED
    BY <2>2 DEF IInv, Table
<1>2. QED
  BY <1>1, Always, PTL
=============================================================================

---------------------------- MODULE StreamServer ----------------------------
(***************************************************************************)
(* A stream server port: streamServer of internal/ports/server.go with the *)
(* pumps of its connections (pump.go) and the subports it registers.       *)
(*                                                                         *)
(* Processes: the accept loop, which is alone in adopt and addSub; one     *)
(* onExit goroutine per stopped pump; a caller of Close; a caller of       *)
(* UpdateSubAttrs.  A step is a critical section of streamServer.mu or a   *)
(* call made without it; frames and their queues are left out.             *)
(***************************************************************************)
EXTENDS Naturals, FiniteSets

CONSTANTS
  Conns,        \* the connections that clients may open
  Modes,        \* the replacing modes to consider
  PeerStrings,  \* the functions peerString may be: a name or "" per connection
  MaxUpdates,   \* bound: how often the port's attributes are changed
  None

ASSUME ServerAssumption ==
  /\ Modes \subseteq {"replace", "occupy", "multiplex"}
  /\ MaxUpdates \in Nat /\ None \notin Conns /\ IsFiniteSet(Conns)

VARIABLES
  mode, peerString,
  closed, pump,  \* streamServer's fields
  attrs,    \* its attributes: the number of the update they came with
  subs,     \* subport ID -> connection, or None
  anonIDs,  \* the anonymous numbers in use
  st,       \* each connection's pump
  subID,    \* each connection's subport ID, None before addSub
  exit,     \* each pump's onExit goroutine
  acc,      \* the accept loop: where it is, its connection, the one it kicks, attrs
  closer,   \* Close: where it is, the pumps it has yet to stop
  updater,  \* UpdateSubAttrs: the subports it has yet to update, with what
  reg,      \* the Switch's registry of subports
  known     \* connections whose stations the Switch knows (FDB, leases)

fields  == <<closed, pump, attrs, subs, anonIDs>>
pumps   == <<st, exit>>
consts  == <<mode, peerString>>
vars    == <<consts, fields, pumps, subID, acc, closer, updater, reg, known>>

AnonIDs == 0 .. Cardinality(Conns)
Names   == UNION {{f[c] : c \in Conns} : f \in PeerStrings}
SubIDs  == AnonIDs \cup (Names \ {""})
Free    == [conn |-> None, attrs |-> None]
Idle    == [pc |-> "accept", c |-> None, old |-> None, attrs |-> None]
Live(c) == st[c] \in {"ready", "running"}

Init ==
  /\ mode \in Modes
  /\ peerString \in PeerStrings
  /\ closed = FALSE
  /\ pump = None
  /\ attrs = 0
  /\ subs = [i \in SubIDs |-> None]
  /\ anonIDs = {}
  /\ st = [c \in Conns |-> "away"]
  /\ subID = [c \in Conns |-> None]
  /\ exit = [c \in Conns |-> "no"]
  /\ acc = Idle
  /\ closer = [pc |-> "idle", todo |-> {}]
  /\ updater = [todo |-> {}, attrs |-> None]
  /\ reg = [i \in SubIDs |-> Free]
  /\ known = {}

-----------------------------------------------------------------------------
(* pump.go *)

\* pump.stop of each pump in S: the first call closes the connection and
\* starts onExit.
stop(S) ==
  LET T == {c \in S : Live(c)} IN
    /\ st' = [c \in Conns |-> IF c \in T THEN "stopped" ELSE st[c]]
    /\ exit' = [c \in Conns |-> IF c \in T THEN "pending" ELSE exit[c]]

\* rxLoop or txLoop meets an error: the peer has gone.
PumpFails(c) ==
  /\ st[c] = "running"
  /\ stop({c})
  /\ UNCHANGED <<consts, fields, subID, acc, closer, updater, reg, known>>

-----------------------------------------------------------------------------
(* acceptLoop *)

\* The listener is open until Close closes it.
Accept(c) ==
  /\ acc.pc = "accept" /\ closer.pc \in {"idle", "marked"}
  /\ st[c] = "away"
  /\ st' = [st EXCEPT ![c] = "open"]
  /\ acc' = [Idle EXCEPT !.pc = IF mode = "multiplex" THEN "addSub" ELSE "adopt", !.c = c]
  /\ UNCHANGED <<consts, fields, exit, subID, closer, updater, reg, known>>

\* conn.Close(), return: the newcomer is turned away.
Refused == /\ st' = [st EXCEPT ![acc.c] = "refused"]
           /\ acc' = Idle
           /\ UNCHANGED exit

Installed == /\ pump' = acc.c
             /\ st' = [st EXCEPT ![acc.c] = "ready"]
             /\ known' = known \cup {acc.c}
             /\ acc' = [acc EXCEPT !.pc = "start"]
             /\ UNCHANGED exit

\* adopt, up to its first unlock.
adopt ==
  /\ acc.pc = "adopt"
  /\ \/ (closed \/ (pump # None /\ mode = "occupy")) /\ Refused /\ UNCHANGED <<pump, known>>
     \/ ~closed /\ pump = None /\ Installed
     \/ /\ ~closed /\ pump # None /\ mode = "replace"
        /\ pump' = None
        /\ acc' = [acc EXCEPT !.pc = "kick", !.old = pump]
        /\ UNCHANGED <<pumps, known>>
  /\ UNCHANGED <<consts, closed, attrs, subs, anonIDs, subID, closer, updater, reg>>

\* Mutant of adoptKick: the old pump is left running.
KickForgotten ==
  /\ acc.pc = "kick"
  /\ acc' = [acc EXCEPT !.pc = "relock"]
  /\ UNCHANGED <<consts, fields, pumps, subID, closer, updater, reg, known>>

adoptKick ==
  /\ acc.pc = "kick"
  /\ stop({acc.old})
  /\ acc' = [acc EXCEPT !.pc = "relock"]
  /\ UNCHANGED <<consts, fields, subID, closer, updater, reg, known>>

\* Mutant of LostRace: only another connection is looked for.
LostToConn == pump # None

\* "Lost a race with Close or another accept."
LostRace == closed \/ pump # None

adoptRelock ==
  /\ acc.pc = "relock"
  /\ \/ LostRace /\ Refused /\ UNCHANGED <<pump, known>>
     \/ ~LostRace /\ Installed
  /\ UNCHANGED <<consts, closed, attrs, subs, anonIDs, subID, closer, updater, reg>>

\* pump.start: the loops of a pump that has been stopped meanwhile end at once.
start ==
  /\ acc.pc = "start"
  /\ st' = [st EXCEPT ![acc.c] = IF @ = "ready" THEN "running" ELSE @]
  /\ acc' = Idle
  /\ UNCHANGED <<consts, fields, exit, subID, closer, updater, reg, known>>

\* allocAnonLocked
allocAnon == CHOOSE i \in AnonIDs \ anonIDs : \A j \in AnonIDs \ anonIDs : i <= j

NewSubID == IF peerString[acc.c] = "" THEN allocAnon ELSE peerString[acc.c]

\* addSub, up to its unlock.
addSub ==
  /\ acc.pc = "addSub"
  /\ \/ (closed \/ subs[NewSubID] # None) /\ Refused /\ UNCHANGED <<subs, anonIDs, subID>>
     \/ /\ ~closed /\ subs[NewSubID] = None
        /\ subs' = [subs EXCEPT ![NewSubID] = acc.c]
        /\ anonIDs' = anonIDs \cup ({NewSubID} \cap AnonIDs)
        /\ subID' = [subID EXCEPT ![acc.c] = NewSubID]
        /\ st' = [st EXCEPT ![acc.c] = "ready"]
        /\ acc' = [acc EXCEPT !.pc = "register", !.attrs = attrs]
        /\ UNCHANGED exit
  /\ UNCHANGED <<consts, closed, pump, attrs, closer, updater, reg, known>>

\* Mutant of Register: a failing AddPort is not looked at.
RegisterUnchecked(i) ==
  /\ acc.pc = "register"
  /\ acc' = [acc EXCEPT !.pc = "start"]
  /\ reg' = [reg EXCEPT ![i] = IF @ = Free THEN [conn |-> acc.c, attrs |-> acc.attrs] ELSE @]
  /\ UNCHANGED <<consts, fields, pumps, subID, closer, updater, known>>

\* addSub's call of Switch.AddPort, which refuses an ID that is taken.
Register(i) ==
  /\ acc.pc = "register"
  /\ \/ /\ reg[i] = Free
        /\ reg' = [reg EXCEPT ![i] = [conn |-> acc.c, attrs |-> acc.attrs]]
        /\ acc' = [acc EXCEPT !.pc = "start"]
     \/ reg[i] # Free /\ acc' = [acc EXCEPT !.pc = "undo"] /\ UNCHANGED reg
  /\ UNCHANGED <<consts, fields, pumps, subID, closer, updater, known>>

\* Mutant of forget: the anonymous number is not given back.
ForgetSubOnly(i) == subs' = [subs EXCEPT ![i] = None] /\ UNCHANGED anonIDs

\* delete(s.subs, subID) and delete(s.anonIDs, anonID)
forget(i) == subs' = [subs EXCEPT ![i] = None] /\ anonIDs' = anonIDs \ {i}

addSubUndo ==
  /\ acc.pc = "undo"
  /\ forget(subID[acc.c])
  /\ st' = [st EXCEPT ![acc.c] = IF @ = "ready" THEN "refused" ELSE @]
  /\ acc' = Idle
  /\ UNCHANGED <<consts, closed, pump, attrs, exit, subID, closer, updater, reg, known>>

-----------------------------------------------------------------------------
(* The onExit callbacks. *)

\* Mutant of Offline: a connection that has ended is taken for a live one.
NeverOffline == FALSE

\* The port's present connection has ended, be it this callback's or not.
Offline == pump # None /\ ~Live(pump)

\* Mutant of After: offline is not set.
AfterSilent(offline) == "done"

\* if offline { s.sw.NotifyDown(s.id) }
After(offline) == IF offline THEN "report" ELSE "done"

onExit(c) ==
  /\ exit[c] = "pending"
  /\ \/ /\ mode = "multiplex"
        /\ forget(subID[c])
        /\ exit' = [exit EXCEPT ![c] = "report"]
        /\ UNCHANGED pump
     \/ /\ mode # "multiplex"
        /\ pump' = IF Offline THEN None ELSE pump
        /\ exit' = [exit EXCEPT ![c] = After(Offline)]
        /\ UNCHANGED <<subs, anonIDs>>
  /\ UNCHANGED <<consts, closed, attrs, st, subID, acc, closer, updater, reg, known>>

\* After its unlock onExit calls Switch.NotifyDown for the port ...
NotifyDown(c) ==
  /\ exit[c] = "report" /\ mode # "multiplex"
  /\ exit' = [exit EXCEPT ![c] = "done"]
  /\ known' = {}
  /\ UNCHANGED <<consts, fields, st, subID, acc, closer, updater, reg>>

\* ... or Switch.RemovePort, which closes the port it finds under the ID.
RemovePort(c) ==
  /\ exit[c] = "report" /\ mode = "multiplex"
  /\ LET victim == {reg[subID[c]].conn} \ {None}
     IN /\ st' = [x \in Conns |-> IF x \in victim /\ Live(x) THEN "stopped" ELSE st[x]]
        /\ exit' = [x \in Conns |-> IF x = c THEN "done"
                                    ELSE IF x \in victim /\ Live(x) THEN "pending" ELSE exit[x]]
  /\ reg' = [reg EXCEPT ![subID[c]] = Free]
  /\ UNCHANGED <<consts, fields, subID, acc, closer, updater, known>>

-----------------------------------------------------------------------------
(* Close and UpdateSubAttrs *)

Close ==
  /\ closer.pc = "idle"
  /\ closed' = TRUE
  /\ pump' = None
  /\ closer' = [pc |-> "marked", todo |-> ({pump} \cup {subs[i] : i \in SubIDs}) \ {None}]
  /\ UNCHANGED <<consts, attrs, subs, anonIDs, pumps, subID, acc, updater, reg, known>>

CloseListener ==
  /\ closer.pc = "marked"
  /\ closer' = [closer EXCEPT !.pc = "stop"]
  /\ UNCHANGED <<consts, fields, pumps, subID, acc, updater, reg, known>>

CloseStop(c) ==
  /\ closer.pc = "stop" /\ c \in closer.todo
  /\ stop({c})
  /\ closer' = [closer EXCEPT !.todo = @ \ {c}]
  /\ UNCHANGED <<consts, fields, subID, acc, updater, reg, known>>

UpdateSubAttrs ==
  /\ updater.todo = {} /\ attrs < MaxUpdates
  /\ attrs' = attrs + 1
  /\ updater' = [todo |-> {i \in SubIDs : subs[i] # None}, attrs |-> attrs + 1]
  /\ UNCHANGED <<consts, closed, pump, subs, anonIDs, pumps, subID, acc, closer, reg, known>>

\* Switch.UpdatePortAttrs of one subport; an unknown ID is an error that
\* nobody looks at.
UpdateOne(i) ==
  /\ i \in updater.todo
  /\ reg' = IF reg[i] = Free THEN reg ELSE [reg EXCEPT ![i].attrs = updater.attrs]
  /\ updater' = [updater EXCEPT !.todo = @ \ {i}]
  /\ UNCHANGED <<consts, fields, pumps, subID, acc, closer, known>>

-----------------------------------------------------------------------------
acceptLoop == adopt \/ adoptKick \/ adoptRelock \/ start \/ addSub \/ addSubUndo
              \/ (acc.pc = "register" /\ Register(subID[acc.c]))
Exits(c)   == onExit(c) \/ NotifyDown(c) \/ RemovePort(c)
Closing    == CloseListener \/ \E c \in Conns : CloseStop(c)

Next ==
  \/ acceptLoop
  \/ \E c \in Conns : Accept(c) \/ PumpFails(c) \/ Exits(c)
  \/ Close \/ Closing
  \/ UpdateSubAttrs
  \/ \E i \in SubIDs : UpdateOne(i)

Spec == Init /\ [][Next]_vars

\* Started goroutines and calls get to run; clients and the API need not act.
FairSpec ==
  /\ Spec
  /\ WF_vars(acceptLoop) /\ WF_vars(Closing)
  /\ \A c \in Conns : WF_vars(Exits(c))
  /\ \A i \in SubIDs : WF_vars(UpdateOne(i))

-----------------------------------------------------------------------------
(* Properties. *)

AtRest == /\ acc.pc = "accept"
          /\ \A c \in Conns : exit[c] \in {"no", "done"}

\* adopt: "With kickOld the previous connection is closed first; otherwise conn
\* is rejected while one is live": a replace or occupy port never has two live
\* connections, whatever accepts, failures and Close interleave.
OneConnection == mode # "multiplex" => Cardinality({c \in Conns : Live(c)}) <= 1

\* adopt, addSub, Close: once Close has returned and the accept loop is done
\* with the connection it may hold, no connection is left open.
ClosedMeansStopped ==
  closer.pc = "stop" /\ closer.todo = {} /\ acc.pc = "accept" => \A c \in Conns : ~Live(c)

\* addSub: "registers conn as its own switchport": every running connection of
\* a multiplex port has the port registered under its subport ID to itself,
\* although IDs are used again while old connections are still on their way out.
LiveHasPort ==
  \A c \in Conns : mode = "multiplex" /\ st[c] = "running" => reg[subID[c]].conn = c

\* addSub, onExit, allocAnonLocked: when no connection is coming or going, the
\* server's subports, the Switch's ports and the numbers in use agree.
SubsMatchRegistry ==
  AtRest /\ ~closed =>
    /\ \A i \in SubIDs : subs[i] = reg[i].conn /\ (subs[i] # None => Live(subs[i]))
    /\ anonIDs = {i \in AnonIDs : subs[i] # None}

\* The onExit callbacks: a connection that has ended does not keep the port
\* occupied, nor its subport registered.
Holds(c) == pump = c \/ \E i \in SubIDs : subs[i] = c \/ reg[i].conn = c
DeadLeave == []<>(closed \/ \A c \in Conns : st[c] = "stopped" => ~Holds(c))

\* NotifyDown is called "when their transport went offline while the port
\* itself stays registered": if the port stays without a connection, the Switch
\* hears of it and forgets the stations behind the ones that have gone, even
\* when several connections replaced each other and failed at the same time.
DownIsReported ==
  mode # "multiplex" /\ pump = None ~> known = {} \/ pump # None \/ closed

\* Close: "onExit removes it from the switch": when a closed server has come to
\* rest, none of its subports is registered.
ClosedMeansGone ==
  closer.pc = "stop" /\ closer.todo = {} /\ AtRest => \A i \in SubIDs : reg[i] = Free
=============================================================================

------------------------------ MODULE Forwards ------------------------------
(***************************************************************************)
(* The port forwards of a gateway, internal/gateway/forwards.go, from the  *)
(* calls of internal/manager/gateways.go to Gateway.Close.                 *)
(*                                                                         *)
(* Processes: API calls, which keep the gateway they have looked up also   *)
(* when it is deleted meanwhile, and DeleteGateway.  A step is a critical  *)
(* section of fwdMu or Manager.mu, or a call made without one.             *)
(***************************************************************************)
EXTENDS Naturals

CONSTANTS
  Callers,   \* goroutines that serve API calls
  Specs,     \* ForwardSpec: type, network, bind and host
  BindOf,    \* the address a spec listens on
  Puts,      \* the sets of specs that are PUT
  MaxCalls   \* bound: how many calls are made

VARIABLES
  gw,        \* "recorded", "deleted" (record gone), "cancelled", "taken", "closed"
  closing,   \* the specs whose listeners closeForwards has yet to close
  forwards,  \* Gateway.forwards: the set of its records
  fwdSeq,    \* Gateway.fwdSeq
  open,      \* the specs whose listeners are open
  call,      \* the call each caller is in
  calls      \* how many calls were made

fwdVars == <<forwards, fwdSeq, open>>
vars    == <<gw, closing, fwdVars, call, calls>>

\* del: the IDs still to delete; add: the specs still to add; spec: the one in
\* hand; alone: no other call has been under way since this one began.
Idle == [pc |-> "idle", op |-> "none", put |-> {}, del |-> {}, add |-> {}, spec |-> "",
         alone |-> FALSE, result |-> "none"]

Init ==
  /\ gw = "recorded"
  /\ closing = {}
  /\ forwards = {} /\ fwdSeq = 0 /\ open = {}
  /\ call = [c \in Callers |-> Idle]
  /\ calls = 0

-----------------------------------------------------------------------------
(* The calls of the Manager look the gateway up first. *)

Busy(c) == call[c].pc # "idle"

Begin(c, x) ==
  /\ gw = "recorded" /\ calls < MaxCalls /\ ~Busy(c)
  /\ calls' = calls + 1
  /\ call' = [d \in Callers |-> IF d = c THEN [x EXCEPT !.alone = \A e \in Callers : ~Busy(e)]
                                ELSE IF Busy(d) THEN [call[d] EXCEPT !.alone = FALSE] ELSE Idle]
  /\ UNCHANGED <<gw, closing, fwdVars>>

AddForward(c, s)      == Begin(c, [Idle EXCEPT !.pc = "change", !.add = {s}])
DeleteForward(c, f)   == Begin(c, [Idle EXCEPT !.pc = "change", !.del = {f.id}])
ReplaceForwards(c, D) == Begin(c, [Idle EXCEPT !.pc = "scan", !.op = "put", !.put = D])

End(c, result) == call' = [call EXCEPT ![c].pc = "idle", ![c].result = result]

-----------------------------------------------------------------------------
(* Forwards *)

\* ReplaceForwards, pass 1: of the records of a wanted spec one is kept, the
\* one the iteration meets first.
Scan(c) ==
  /\ call[c].pc = "scan"
  /\ \E kept \in SUBSET {f \in forwards : f.spec \in call[c].put} :
       /\ {f.spec : f \in kept} = {f.spec : f \in forwards} \cap call[c].put
       /\ \A f, g \in kept : f.spec = g.spec => f = g
       /\ call' = [call EXCEPT ![c].pc = "change",
                               ![c].del = {f.id : f \in forwards \ kept},
                               ![c].add = call[c].put \ {f.spec : f \in kept}]
  /\ UNCHANGED <<gw, closing, fwdVars, calls>>

\* DeleteForward, up to its unlock; an ID that is not there is an error, which
\* ReplaceForwards ignores.
Unrecord(c) ==
  /\ call[c].pc = "change"
  /\ \E id \in call[c].del :
       LET recs == {f \in forwards : f.id = id} IN
         /\ forwards' = forwards \ recs
         /\ call' = [call EXCEPT ![c].del = @ \ {id},
                                 ![c].pc = IF recs = {} THEN @ ELSE "release",
                                 ![c].spec = IF recs = {} THEN @ ELSE (CHOOSE f \in recs : TRUE).spec]
  /\ UNCHANGED <<gw, closing, fwdSeq, open, calls>>

\* listener.Close(), or fwdTable.Remove.
Release(c) ==
  /\ call[c].pc = "release"
  /\ open' = open \ {call[c].spec}
  /\ call' = [call EXCEPT ![c].pc = "change"]
  /\ UNCHANGED <<gw, closing, forwards, fwdSeq, calls>>

\* A listener, or an entry of fwdTable, has its address for itself.
Taken(s) == \E t \in open : BindOf[t] = BindOf[s]

\* Mutant of Ready: what is missing is added before the rest is deleted.
ReadyAtOnce(c) == call[c].pc = "change"

\* Pass 2 comes after pass 1.
Ready(c) == call[c].pc = "change" /\ call[c].del = {}

\* AddForward, up to its lock: it listens, which fails when the address is
\* taken, by another forward or on the host ("refused").
Listen(c) ==
  /\ Ready(c)
  /\ \E s \in call[c].add :
       \/ /\ ~Taken(s)
          /\ open' = open \cup {s}
          /\ call' = [call EXCEPT ![c].pc = "record", ![c].spec = s]
       \/ Taken(s) /\ End(c, "conflict") /\ UNCHANGED open
       \/ ~Taken(s) /\ End(c, "refused") /\ UNCHANGED open
  /\ UNCHANGED <<gw, closing, forwards, fwdSeq, calls>>

\* Mutant of Record: the ID is not a new one.
RecordSameID(c) ==
  /\ call[c].pc = "record"
  /\ forwards' = {f \in forwards : f.id # 1} \cup {[id |-> 1, spec |-> call[c].spec]}
  /\ call' = [call EXCEPT ![c].pc = "change", ![c].add = @ \ {call[c].spec}]
  /\ UNCHANGED <<gw, closing, fwdSeq, open, calls>>

Record(c) ==
  /\ call[c].pc = "record"
  /\ fwdSeq' = fwdSeq + 1
  /\ forwards' = forwards \cup {[id |-> fwdSeq + 1, spec |-> call[c].spec]}
  /\ call' = [call EXCEPT ![c].pc = "change", ![c].add = @ \ {call[c].spec}]
  /\ UNCHANGED <<gw, closing, open, calls>>

Return(c) ==
  /\ call[c].pc = "change" /\ call[c].del = {} /\ call[c].add = {}
  /\ End(c, "ok")
  /\ UNCHANGED <<gw, closing, fwdVars, calls>>

-----------------------------------------------------------------------------
(* DeleteGateway; RemovePort calls Close. *)

DeleteGateway ==
  /\ gw = "recorded"
  /\ gw' = "deleted"
  /\ UNCHANGED <<closing, fwdVars, call, calls>>

cancel ==
  /\ gw = "deleted"
  /\ gw' = "cancelled"
  /\ UNCHANGED <<closing, fwdVars, call, calls>>

\* closeForwards takes the records under fwdMu ...
closeForwards ==
  /\ gw = "cancelled"
  /\ gw' = "taken"
  /\ closing' = {f.spec : f \in forwards}
  /\ forwards' = {}
  /\ UNCHANGED <<fwdSeq, open, call, calls>>

\* ... and closes their listeners without it; ep.Close and stk.Destroy follow.
\* The entries of fwdTable go with the gateway.
closeListeners ==
  /\ gw = "taken"
  /\ \/ \E s \in closing : closing' = closing \ {s} /\ open' = open \ {s} /\ UNCHANGED gw
     \/ closing = {} /\ gw' = "closed" /\ UNCHANGED <<closing, open>>
  /\ UNCHANGED <<forwards, fwdSeq, call, calls>>

-----------------------------------------------------------------------------
Serve(c) == Scan(c) \/ Unrecord(c) \/ Release(c) \/ Listen(c) \/ Record(c) \/ Return(c)
Close    == cancel \/ closeForwards \/ closeListeners

Next ==
  \/ \E c \in Callers :
       \/ \E s \in Specs : AddForward(c, s)
       \/ \E f \in forwards : DeleteForward(c, f)
       \/ \E D \in Puts : ReplaceForwards(c, D)
       \/ Serve(c)
  \/ DeleteGateway \/ Close

Spec == Init /\ [][Next]_vars

-----------------------------------------------------------------------------
(* Properties. *)

Installed == {f.spec : f \in forwards}

\* AddForward, DeleteForward, ReplaceForwards: when no call is under way, the
\* listeners that are open are those of the records, each of one record,
\* although listeners are opened and closed outside fwdMu.  (A call that
\* closeForwards overtakes may leave one open.)
NothingDangling ==
  (\A c \in Callers : ~Busy(c)) /\ gw \in {"recorded", "deleted", "cancelled"} =>
    open = Installed /\ \A f, g \in forwards : f.spec = g.spec => f = g

\* No two specs for one address; ReplaceForwards rejects only equal specs.
Compatible(D) == \A s, t \in D : BindOf[s] = BindOf[t] => s = t

\* ReplaceForwards: "extra rules are removed, missing ones added", "re-PUT to
\* converge": a PUT that no other call overlaps never fails because of the
\* forwards that are there, whatever earlier calls have left behind, unless it
\* contradicts itself; and if it succeeds the set that was PUT is installed.
ReplaceInstalls ==
  gw = "recorded" => \A c \in Callers : call[c].alone /\ call[c].op = "put" =>
    /\ Compatible(call[c].put) => call[c].result # "conflict"
    /\ call[c].result = "ok" => Installed = call[c].put
=============================================================================

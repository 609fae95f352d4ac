---------------------------- MODULE RouterAdvert ----------------------------
(***************************************************************************)
(* The router advertisements of a gateway: raServer of                     *)
(* internal/gateway/ra.go.  Processes: calls of SetConfig, the             *)
(* advertisement loop, and Gateway.Close, which cancels the context.       *)
(* Answers to solicitations change no state.                               *)
(***************************************************************************)
EXTENDS Naturals

CONSTANTS
  Setters,   \* the calls of SetConfig
  Configs    \* the configurations that are enabled

Off == "off"   \* SLAACConfig with Enabled = false

VARIABLES
  done,      \* the gateway's context is cancelled
  setter,    \* the call of SetConfig each setter is in
  cfg, kick, \* raServer's fields; kick holds a token
  loop,      \* the loop: where it is, its copy of cfg
  sent       \* the configuration advertised last

vars == <<done, setter, cfg, kick, loop, sent>>

Init ==
  /\ done = FALSE
  /\ setter = [s \in Setters |-> [pc |-> "idle", cfg |-> Off]]
  /\ cfg = Off /\ kick = FALSE
  /\ loop = [pc |-> "read", cfg |-> Off]
  /\ sent = Off

Call(s, g) ==
  /\ setter[s].pc = "idle"
  /\ setter' = [setter EXCEPT ![s] = [pc |-> "store", cfg |-> g]]
  /\ UNCHANGED <<done, cfg, kick, loop, sent>>

\* Mutant of SetConfig: the loop is woken before the configuration is stored.
KickFirst(s) ==
  /\ \/ /\ setter[s].pc = "store" /\ kick' = TRUE
        /\ setter' = [setter EXCEPT ![s].pc = "kick"] /\ UNCHANGED cfg
     \/ /\ setter[s].pc = "kick" /\ cfg' = setter[s].cfg
        /\ setter' = [setter EXCEPT ![s].pc = "idle"] /\ UNCHANGED kick
  /\ UNCHANGED <<done, loop, sent>>

\* The configuration is stored under mu, then the loop is woken; a token that
\* is there already is enough.
SetConfig(s) ==
  /\ \/ /\ setter[s].pc = "store" /\ cfg' = setter[s].cfg
        /\ setter' = [setter EXCEPT ![s].pc = "kick"] /\ UNCHANGED kick
     \/ /\ setter[s].pc = "kick" /\ kick' = TRUE
        /\ setter' = [setter EXCEPT ![s].pc = "idle"] /\ UNCHANGED cfg
  /\ UNCHANGED <<done, loop, sent>>

readConfig ==
  /\ loop.pc = "read"
  /\ loop' = [pc |-> "send", cfg |-> cfg]
  /\ UNCHANGED <<done, setter, cfg, kick, sent>>

\* With Enabled unset nothing is sent.
send ==
  /\ loop.pc = "send"
  /\ sent' = IF loop.cfg = Off THEN sent ELSE loop.cfg
  /\ loop' = [loop EXCEPT !.pc = "wait"]
  /\ UNCHANGED <<done, setter, cfg, kick>>

\* select: any of the channels that are ready may be taken.
wake ==
  /\ loop.pc = "wait"
  /\ \/ done /\ loop' = [loop EXCEPT !.pc = "end"] /\ UNCHANGED kick
     \/ kick /\ kick' = FALSE /\ loop' = [loop EXCEPT !.pc = "read"]
  /\ UNCHANGED <<done, setter, cfg, sent>>

\* The timer, of cfg.Interval or an hour.
timer ==
  /\ loop.pc = "wait"
  /\ loop' = [loop EXCEPT !.pc = "read"]
  /\ UNCHANGED <<done, setter, cfg, kick, sent>>

cancel ==
  /\ ~done
  /\ done' = TRUE
  /\ UNCHANGED <<setter, cfg, kick, loop, sent>>

raLoop == readConfig \/ send \/ wake

Next ==
  \/ \E s \in Setters : SetConfig(s) \/ \E g \in Configs \cup {Off} : Call(s, g)
  \/ raLoop \/ timer \/ cancel

Spec == Init /\ [][Next]_vars

-----------------------------------------------------------------------------
(* Properties. *)

\* raServer.kick "wakes the loop after config changes": no wake-up is lost.  A
\* loop that waits without a token, when no call is between its two steps, has
\* advertised the configuration that is stored, so no change is left to the
\* timer, although calls overlap, tokens are coalesced and the loop copies the
\* configuration at its own time.
ConfigAdvertised ==
  loop.pc = "wait" /\ ~kick /\ (\A s \in Setters : setter[s].pc # "kick") =>
    loop.cfg = cfg /\ cfg \in {Off, sent}
=============================================================================

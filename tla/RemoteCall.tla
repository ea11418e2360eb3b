----------------------------- MODULE RemoteCall -----------------------------
(***************************************************************************)
(* What a station may rely on when it sends requests to a board over a     *)
(* line that loses things: a request is performed at most once, now, later *)
(* or never; the answer it is told, if it is told one before it gives up,  *)
(* is what performing that very request came to.                           *)
(***************************************************************************)
CONSTANTS Calls, Answers, Nothing

VARIABLES
  phase,   \* "new", "open", or "closed": answered or given up
  done,    \* what performing each request came to
  told     \* the answer to the last request, once the station took it

vars == <<phase, done, told>>

Init ==
  /\ phase = [s \in Calls |-> "new"]
  /\ done = [s \in Calls |-> Nothing] /\ told = Nothing

Send(s) ==
  /\ phase[s] = "new" /\ phase' = [phase EXCEPT ![s] = "open"]
  /\ told' = Nothing /\ UNCHANGED done

Perform(s) ==
  /\ phase[s] # "new" /\ done[s] = Nothing
  /\ \E a \in Answers : done' = [done EXCEPT ![s] = a]
  /\ UNCHANGED <<phase, told>>

Tell(s) ==
  /\ phase[s] = "open" /\ done[s] # Nothing
  /\ told' = done[s]
  /\ phase' = [phase EXCEPT ![s] = "closed"]
  /\ UNCHANGED done

GiveUp(s) ==
  /\ phase[s] = "open" /\ phase' = [phase EXCEPT ![s] = "closed"]
  /\ UNCHANGED <<done, told>>

Next == \E s \in Calls : Send(s) \/ Perform(s) \/ Tell(s) \/ GiveUp(s)

Spec == Init /\ [][Next]_vars
=============================================================================

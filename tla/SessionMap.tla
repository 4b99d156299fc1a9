----------------------------- MODULE SessionMap -----------------------------
(***************************************************************************)
(* What the handlers expect of the session storage interface               *)
(* (struct oidfed_session_storage): a map from session identifiers to      *)
(* sessions whose set, get and remove take effect at one instant between   *)
(* the call and the return.                                                *)
(***************************************************************************)
CONSTANTS Thread, Sid, Session, SidOf, NoSession

VARIABLES map, stage, call, ret

mapVars == <<map, stage, call, ret>>

NullableSession == Session \union {NoSession}

\* The arguments of one call.  remove writes NULL under the key; get writes
\* nothing.
SetCall == {[op |-> "set", sid |-> SidOf[s], val |-> s] : s \in Session}
GetCall == {[op |-> "get", sid |-> k, val |-> NoSession] : k \in Sid}
RemoveCall == {[op |-> "remove", sid |-> k, val |-> NoSession] : k \in Sid}
NoCall == [op |-> "none", val |-> NoSession]

Init ==
    /\ map = [k \in Sid |-> NoSession]
    /\ stage = [t \in Thread |-> "idle"]
    /\ call = [t \in Thread |-> NoCall]
    /\ ret = [t \in Thread |-> NoSession]

Invoke(t) ==
    /\ stage[t] = "idle"
    /\ stage' = [stage EXCEPT ![t] = "called"]
    /\ \E c \in SetCall \union GetCall \union RemoveCall : call' = [call EXCEPT ![t] = c]
    /\ UNCHANGED <<map, ret>>

TakeEffect(t) ==
    /\ stage[t] = "called"
    /\ stage' = [stage EXCEPT ![t] = "done"]
    /\ IF call[t].op = "get"
       THEN ret' = [ret EXCEPT ![t] = map[call[t].sid]] /\ UNCHANGED map
       ELSE map' = [map EXCEPT ![call[t].sid] = call[t].val] /\ UNCHANGED ret
    /\ UNCHANGED call

Return(t) ==
    /\ stage[t] = "done"
    /\ stage' = [stage EXCEPT ![t] = "idle"]
    /\ call' = [call EXCEPT ![t] = NoCall]
    /\ ret' = [ret EXCEPT ![t] = NoSession]
    /\ UNCHANGED map

Next == \E t \in Thread : Invoke(t) \/ TakeEffect(t) \/ Return(t)

Spec == Init /\ [][Next]_mapVars
=============================================================================

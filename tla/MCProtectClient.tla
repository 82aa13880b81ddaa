-------------------------- MODULE MCProtectClient --------------------------
(***************************************************************************)
(* ProtectClient for TLC: each call is made once, and the clock only runs  *)
(* while a timer is pending, which bounds it.                              *)
(***************************************************************************)
EXTENDS ProtectClient

TimerPending(c) ==
    \/ pc[c] = "limiter" /\ limiterPc[c] = "sleeping" /\ limiterWake[c] > now
    \/ pc[c] \in {"inflight", "drain", "body"} /\ deadline[c] > now
    \/ pc[c] = "backoff" /\ wake[c] > now

MCTick ==
    /\ \E c \in Calls : TimerPending(c)
    /\ Tick

\* All calls have returned.  Requests the server never saw may be left.
Quiescent ==
    /\ \A c \in Calls : pc[c] = "done"
    /\ UNCHANGED vars

MCNext ==
    \/ MCTick
    \/ Quiescent
    \/ \E c \in Calls : RejectUrl(c) \/ Issue(c) \/ Advance(c) \/ Environment(c)

MCSpec == Init /\ [][MCNext]_vars

\* The executor polls every call and the clock runs; the server, the network
\* and the application owe nothing.
MCFairSpec ==
    /\ MCSpec
    /\ WF_vars(MCTick)
    /\ \A c \in Calls : WF_vars(Advance(c))
=============================================================================

--------------------------- MODULE MCRateLimiter ---------------------------
(***************************************************************************)
(* RateLimiter for TLC: no request arrives from the time Horizon on, and   *)
(* the clock then only runs while a caller sleeps.                         *)
(***************************************************************************)
EXTENDS RateLimiter, TLC

CONSTANT Horizon

MCTick ==
    /\ now < Horizon \/ \E c \in Callers : pc[c] = "sleeping" /\ wake[c] > now
    /\ Tick

MCArrive(c) == now < Horizon /\ Arrive(c)

\* All requests have been served; nothing is left to do.
Quiescent ==
    /\ now >= Horizon
    /\ \A c \in Callers : pc[c] = "idle"
    /\ UNCHANGED vars

MCNext ==
    \/ MCTick
    \/ Quiescent
    \/ \E c \in Callers : MCArrive(c) \/ Proceed(c)

MCSpec == Init /\ [][MCNext]_vars

\* The executor polls every runnable caller and the clock does not stop.
MCFairSpec ==
    /\ MCSpec
    /\ WF_vars(MCTick)
    /\ \A c \in Callers : WF_vars(Proceed(c))

\* The middleware treats callers alike.
CallerSymmetry == Permutations(Callers)
=============================================================================

---------------------------- MODULE CallContract ----------------------------
(***************************************************************************)
(* What a method of ProtectClient promises its caller about the server,    *)
(* with no retry loop, limiter, clock or network in sight.                 *)
(*                                                                         *)
(* A call may reach the server `budget` times.  Its single result tells    *)
(* the caller what the server did:                                         *)
(*   "ok"       the server carried the request out at least once;          *)
(*   "refused"  the server answered with a status below 500 that is no     *)
(*              success, or the request was not even sent; of a call with  *)
(*              a budget of one it means that the request was not carried  *)
(*              out and never will be;                                     *)
(*   "unknown"  anything: the request may even be carried out later.       *)
(***************************************************************************)
EXTENDS Naturals

CONSTANTS Calls, MaxBudget

VARIABLES budget,   \* how often each call may be carried out
          effects,  \* how often the server carried it out
          outcome   \* what the caller was told

vars == <<budget, effects, outcome>>

Results == {"ok", "refused", "unknown"}

TypeOK ==
    /\ budget \in [Calls -> 1..MaxBudget]
    /\ effects \in [Calls -> 0..MaxBudget]
    /\ outcome \in [Calls -> Results \cup {"pending"}]

Init ==
    /\ budget \in [Calls -> 1..MaxBudget]
    /\ effects = [c \in Calls |-> 0]
    /\ outcome = [c \in Calls |-> "pending"]

\* The server carries the request out.
Apply(c) ==
    /\ effects[c] < budget[c]
    /\ budget[c] = 1 => outcome[c] \in {"pending", "unknown"}
    /\ effects' = [effects EXCEPT ![c] = @ + 1]
    /\ UNCHANGED <<budget, outcome>>

\* The method returns.
Return(c, r) ==
    /\ outcome[c] = "pending"
    /\ r = "ok" => effects[c] >= 1
    /\ (r = "refused" /\ budget[c] = 1) => effects[c] = 0
    /\ outcome' = [outcome EXCEPT ![c] = r]
    /\ UNCHANGED <<budget, effects>>

Next == \E c \in Calls : Apply(c) \/ \E r \in Results : Return(c, r)

Spec == Init /\ [][Next]_vars

\* The caller of an unretried call can rely on the result: it is carried out
\* at most once, exactly once after "ok", never after "refused".
AtMostOnce ==
    \A c \in Calls : budget[c] = 1 =>
        /\ effects[c] <= 1
        /\ outcome[c] = "ok" => effects[c] = 1
        /\ outcome[c] = "refused" => effects[c] = 0
=============================================================================

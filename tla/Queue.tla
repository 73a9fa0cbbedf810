------------------------------- MODULE Queue -------------------------------
(***************************************************************************)
(* What the durable job queue promises, without leases, retry counts and    *)
(* cleanup intents: a waiting job is granted to one execution at a time,    *)
(* and only the execution it is granted to finishes it or gives it back.    *)
(* An execution whose job was revoked may go on working; all it can still   *)
(* do to the job is to hand off what it left behind, where the type of the  *)
(* job has that door.  A finished job stays finished, but for those that    *)
(* may be started again and for such a handoff of a failed one.  The queue  *)
(* itself (JobQueue) and the modules that contain as much of it as they     *)
(* depend on are shown to implement this.                                   *)
(***************************************************************************)
CONSTANTS
    Jobs, Tokens, None,
    Withdrawable,  \* jobs that can be called off while they wait
    Restartable,   \* jobs that can be started again
    HandsOff       \* jobs whose executions hand off what they leave behind

VARIABLES
    state,    \* job -> absent, waiting, held, completed or failed
    holder,   \* job -> the execution it is granted to, or None
    working   \* execution -> the job it works on, granted still or lost, or None

vars == <<state, holder, working>>

Init ==
    /\ state \in [Jobs -> {"absent", "waiting"}]
    /\ holder = [j \in Jobs |-> None]
    /\ working = [c \in Tokens |-> None]

Put(j, s, c) ==
    /\ state' = [state EXCEPT ![j] = s]
    /\ holder' = [holder EXCEPT ![j] = c]

Stops(c) == working' = [working EXCEPT ![c] = None]

\* Producers.
Submit(j) == state[j] = "absent" /\ Put(j, "waiting", None) /\ UNCHANGED working

Withdraw(j) ==
    /\ j \in Withdrawable /\ state[j] = "waiting"
    /\ Put(j, "failed", None) /\ UNCHANGED working

Restart(j) ==
    /\ j \in Restartable /\ state[j] \in {"completed", "failed"}
    /\ Put(j, "waiting", None) /\ UNCHANGED working

\* What a failed job left undone was done by hand.
Attest(j) ==
    /\ j \in Restartable /\ state[j] = "failed"
    /\ Put(j, "completed", None) /\ UNCHANGED working

\* An execution takes one job, and is used for one claim.
Grant(c, j) ==
    /\ working[c] = None /\ \A k \in Jobs : holder[k] # c
    /\ state[j] = "waiting"
    /\ Put(j, "held", c) /\ working' = [working EXCEPT ![c] = j]

\* Jobs whose holders have not been heard of, all in one go.
Revoke(lost) ==
    /\ lost # {} /\ \A j \in lost : state[j] = "held"
    /\ state' = [j \in Jobs |-> IF j \in lost THEN "waiting" ELSE state[j]]
    /\ holder' = [j \in Jobs |-> IF j \in lost THEN None ELSE holder[j]]
    /\ UNCHANGED working

\* The holder's own writes; it may miss the answer to what it gave back.
Holds(c) == working[c] \in Jobs /\ holder[working[c]] = c

Finish(c, s) == Holds(c) /\ Put(working[c], s, None) /\ Stops(c)

GiveBack(c) ==
    /\ Holds(c) /\ Put(working[c], "waiting", None)
    /\ Stops(c) \/ UNCHANGED working

HandOff(c) ==
    /\ working[c] \in HandsOff /\ state[working[c]] # "completed"
    /\ Put(working[c], "waiting", None)
    /\ Stops(c) \/ UNCHANGED working

\* An execution dies or stops, and the job is left as it is.
Stop(c) == working[c] \in Jobs /\ Stops(c) /\ UNCHANGED <<state, holder>>

Next ==
    \/ \E j \in Jobs : Submit(j) \/ Withdraw(j) \/ Restart(j) \/ Attest(j)
    \/ \E c \in Tokens, j \in Jobs : Grant(c, j)
    \/ \E lost \in SUBSET Jobs : Revoke(lost)
    \/ \E c \in Tokens : \/ Finish(c, "completed") \/ Finish(c, "failed")
                         \/ GiveBack(c) \/ HandOff(c) \/ Stop(c)

Spec == Init /\ [][Next]_vars
=============================================================================

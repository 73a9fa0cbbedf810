----------------------------- MODULE WorkLease -----------------------------
(***************************************************************************)
(* Named work leases (internal/worklease): one row of worker_work_leases   *)
(* and the RunExclusive calls of all worker replicas that compete for it.  *)
(* Leases with different names share nothing, so one name is modelled.     *)
(* A run is identified by its claim token.                                 *)
(*                                                                         *)
(* Time is discrete.  Clock moves only when no ticker and no write timeout *)
(* is due: the heartbeat goroutine is scheduled in time and the process is *)
(* never suspended.                                                        *)
(***************************************************************************)
EXTENDS Naturals

CONSTANTS
    Runs,               \* claim tokens, one for each RunExclusive call
    None,               \* no claim token (SQL NULL)
    Duration,           \* how long a claim lives without renewal
    HeartbeatInterval,  \* time between two renewals
    WriteTimeout,       \* how long a renewal may take
    MaxGeneration       \* bound on the number of claims

ASSUME NoneIsNoRun == None \notin Runs
ASSUME DurationsOrdered ==
    /\ Duration \in Nat /\ HeartbeatInterval \in Nat /\ WriteTimeout \in Nat
    /\ 0 < WriteTimeout /\ WriteTimeout <= HeartbeatInterval /\ WriteTimeout <= Duration
ASSUME MaxGenerationIsNat == MaxGeneration \in Nat

VARIABLES row,  \* the row: claim_token, the age of claimed_at, generation
          runs  \* each RunExclusive call

vars == <<row, runs>>

\* pc: "claimed" while the answer of TryClaimWorkLease is under way, "run" in fn,
\*     "join" at <-done, "release" in the deferred function.
\* maintain: the heartbeat goroutine; answer: what its renewal found.
\* cause: why the lease context was cancelled; tick: time since the last tick;
\* sinceOK: time since lastOK.  renewed and lost are history: a renewal was
\* acknowledged, and how long the row belongs to somebody else.
IdleRun == [pc |-> "idle", maintain |-> "done", answer |-> "none", cause |-> "none",
            tick |-> 0, sinceOK |-> 0, generation |-> 0, renewed |-> FALSE, lost |-> 0]

PCs == {"idle", "claimed", "run", "join", "release"}
Causes == {"none", "lost", "expired", "finished", "canceled"}

\* The types of the state.
TypeOK ==
    /\ row \in [token : Runs \cup {None}, age : 0 .. Duration + 1, generation : Nat]
    /\ runs \in [Runs -> [pc : PCs, maintain : {"sleep", "write", "done"},
                          answer : {"none", "owned", "lost"}, cause : Causes,
                          tick : Nat, sinceOK : Nat, generation : Nat,
                          renewed : BOOLEAN, lost : Nat]]

Init ==
    /\ row = [token |-> None, age |-> 0, generation |-> 0]
    /\ runs = [r \in Runs |-> IdleRun]

\* Neither fn nor its context know of a loss.
Uncancelled(r) == runs[r].pc = "run" /\ runs[r].cause = "none"

Set(r, run) == runs' = [runs EXCEPT ![r] = run]

\* The first cancellation of the lease context decides its cause; lastOK is not
\* read again.
Cancelled(run, cause) ==
    IF run.cause # "none" THEN run
    ELSE [run EXCEPT !.cause = cause, !.sinceOK = 0, !.renewed = FALSE, !.lost = 0]

-----------------------------------------------------------------------------
(* More plausible bugs, each the mutated form of one definition below *)

RenewFailedKeepsGoing(r) ==
    /\ runs[r].maintain = "write"
    /\ Set(r, [runs[r] EXCEPT !.maintain = "sleep", !.answer = "none", !.sinceOK = 0])
    /\ UNCHANGED row

MaintainStopsUnlessFinished(r) ==
    /\ runs[r].maintain = "sleep"
    /\ runs[r].cause \notin {"none", "finished"}
    /\ Set(r, [runs[r] EXCEPT !.maintain = "done"])
    /\ UNCHANGED row

ReleasedAnyToken(r) == [row EXCEPT !.token = None, !.age = 0]

-----------------------------------------------------------------------------
(* Claiming *)

Claimable == row.token = None \/ row.age > Duration

TryClaimWorkLease(r) ==
    /\ runs[r].pc = "idle"
    /\ row.token # r
    /\ Claimable
    /\ row.generation < MaxGeneration
    /\ row' = [token |-> r, age |-> 0, generation |-> row.generation + 1]
    /\ Set(r, [IdleRun EXCEPT !.pc = "claimed", !.generation = row.generation + 1])

\* The answer may take any time: TryClaimWorkLease has no deadline of its own.
Start(r) ==
    /\ runs[r].pc = "claimed"
    /\ Set(r, [runs[r] EXCEPT !.pc = "run", !.maintain = "sleep"])
    /\ UNCHANGED row

-----------------------------------------------------------------------------
(* maintain: the heartbeat goroutine *)

HeartbeatTick(r) ==
    /\ runs[r].maintain = "sleep"
    /\ runs[r].cause = "none"
    /\ runs[r].tick = HeartbeatInterval
    /\ Set(r, [runs[r] EXCEPT !.maintain = "write", !.tick = 0])
    /\ UNCHANGED row

RenewWorkLease(r) ==
    /\ runs[r].maintain = "write"
    /\ runs[r].answer = "none"
    /\ row' = IF row.token = r THEN [row EXCEPT !.age = 0] ELSE row
    /\ Set(r, [runs[r] EXCEPT !.answer = IF row.token = r THEN "owned" ELSE "lost"])

RenewAnswered(r) ==
    /\ runs[r].maintain = "write"
    /\ \/ /\ runs[r].answer = "owned"
          /\ Set(r, [runs[r] EXCEPT !.maintain = "sleep", !.answer = "none",
                                    !.sinceOK = 0, !.lost = 0, !.renewed = runs[r].cause = "none"])
       \/ /\ runs[r].answer = "lost"
          /\ Set(r, [Cancelled(runs[r], "lost") EXCEPT !.maintain = "done", !.answer = "none"])
    /\ UNCHANGED row

\* An error, a timeout, or an answer that never arrived.
RenewFailed(r) ==
    /\ runs[r].maintain = "write"
    /\ \/ /\ runs[r].sinceOK >= Duration
          /\ Set(r, [Cancelled(runs[r], "expired") EXCEPT !.maintain = "done", !.answer = "none"])
       \/ /\ runs[r].sinceOK < Duration
          /\ Set(r, [runs[r] EXCEPT !.maintain = "sleep", !.answer = "none"])
    /\ UNCHANGED row

MaintainStops(r) ==
    /\ runs[r].maintain = "sleep"
    /\ runs[r].cause # "none"
    /\ Set(r, [runs[r] EXCEPT !.maintain = "done"])
    /\ UNCHANGED row

-----------------------------------------------------------------------------
(* The run and its end *)

\* The worker shuts down: the parent context is cancelled.
Shutdown(r) ==
    /\ Uncancelled(r)
    /\ Set(r, Cancelled(runs[r], "canceled"))
    /\ UNCHANGED row

FnReturns(r) ==
    /\ runs[r].pc = "run"
    /\ Set(r, [Cancelled(runs[r], "finished") EXCEPT !.pc = "join"])
    /\ UNCHANGED row

Join(r) ==
    /\ runs[r].pc = "join"
    /\ runs[r].maintain = "done"
    /\ Set(r, [runs[r] EXCEPT !.pc = "release"])
    /\ UNCHANGED row

Released(r) == IF row.token = r THEN [row EXCEPT !.token = None, !.age = 0] ELSE row

\* The deferred release; its failure is only logged.
ReleaseWorkLease(r) ==
    /\ runs[r].pc = "release"
    /\ row' \in {row, Released(r)}
    /\ Set(r, IdleRun)

\* The process dies, or the answer to a claim is lost: nobody releases the row.
Crash(r) ==
    /\ runs[r].pc # "idle"
    /\ Set(r, IdleRun)
    /\ UNCHANGED row

-----------------------------------------------------------------------------
(* Time *)

Older(run, owns) ==
    IF run.cause = "none" /\ run.pc = "run"
    THEN [run EXCEPT !.tick = @ + 1, !.sinceOK = @ + 1, !.lost = IF owns THEN 0 ELSE @ + 1]
    ELSE [run EXCEPT !.tick = IF run.maintain = "write" THEN @ + 1 ELSE @]

Clock ==
    /\ \A r \in Runs :
          /\ runs[r].maintain = "sleep" /\ runs[r].cause = "none" => runs[r].tick < HeartbeatInterval
          /\ runs[r].maintain = "write" => runs[r].tick < WriteTimeout
    /\ row' = IF row.token = None \/ row.age > Duration THEN row ELSE [row EXCEPT !.age = @ + 1]
    /\ runs' = [r \in Runs |-> Older(runs[r], row.token = r)]

RunStep(r) ==
    \/ TryClaimWorkLease(r) \/ Start(r)
    \/ HeartbeatTick(r) \/ RenewWorkLease(r) \/ RenewAnswered(r) \/ RenewFailed(r)
    \/ MaintainStops(r)
    \/ Shutdown(r) \/ FnReturns(r) \/ Join(r) \/ ReleaseWorkLease(r) \/ Crash(r)

Next == (\E r \in Runs : RunStep(r)) \/ Clock

Spec == Init /\ [][Next]_vars

(* A run whose context is cancelled returns (the callers' fn honour it), and   *)
(* the goroutine and the deferred function end.                               *)
FairSpec ==
    /\ Spec
    /\ \A r \in Runs :
          /\ WF_vars(runs[r].cause # "none" /\ FnReturns(r))
          /\ WF_vars(RenewAnswered(r) \/ RenewFailed(r))
          /\ WF_vars(MaintainStops(r))
          /\ WF_vars(Join(r))
          /\ WF_vars(ReleaseWorkLease(r))

-----------------------------------------------------------------------------
(* Properties *)

\* RunExclusive stops a run that lost its row: a run whose renewals were ever
\* acknowledged goes on for at most a heartbeat and two write timeouts after
\* somebody else claimed the row, even when no renewal reaches the database any
\* more; one whose claim was answered late, for at most Duration longer.
OverlapBounded ==
    \A r \in Runs : Uncancelled(r) =>
        runs[r].lost <= IF runs[r].renewed THEN HeartbeatInterval + 2 * WriteTimeout
                        ELSE Duration + HeartbeatInterval + WriteTimeout

\* When RenewWorkLease's answer "owned" reaches maintain, which then moves lastOK,
\* the row still carries this run's token and its generation: nobody can have
\* claimed it since.
AcknowledgementIsCurrent ==
    \A r \in Runs : runs[r].maintain = "write" /\ runs[r].answer = "owned" =>
        row.token = r /\ row.generation = runs[r].generation

\* The inductive invariant.  RunLocal relates the fields of one run: the clocks
\* of its heartbeat bound the time since lastOK.  RunAndRow relates a run to the
\* row: an acknowledged renewal is at most WriteTimeout older than lastOK, so the
\* row cannot have been claimed earlier than Duration - WriteTimeout after it.
RunLocal(r) ==
    /\ runs[r].pc = "idle" => runs[r] = IdleRun
    /\ runs[r].pc = "claimed" => /\ runs[r].cause = "none" /\ runs[r].maintain = "done"
                                 /\ runs[r].tick = 0 /\ runs[r].sinceOK = 0
                                 /\ runs[r].lost = 0 /\ ~runs[r].renewed
    /\ runs[r].pc \in {"join", "release"} => runs[r].cause # "none"
    /\ runs[r].pc = "release" => runs[r].maintain = "done"
    /\ Uncancelled(r) => runs[r].maintain # "done"
    /\ runs[r].answer # "none" => runs[r].maintain = "write"
    /\ runs[r].maintain = "write" => runs[r].tick <= WriteTimeout
    /\ Uncancelled(r) /\ runs[r].maintain = "sleep" =>
          runs[r].tick <= HeartbeatInterval /\ runs[r].sinceOK < Duration + runs[r].tick
    /\ Uncancelled(r) /\ runs[r].maintain = "write" =>
          runs[r].sinceOK < Duration + HeartbeatInterval + runs[r].tick
    /\ Uncancelled(r) => runs[r].lost <= runs[r].sinceOK

RunAndRow(r) ==
    /\ row.token = r /\ runs[r].pc # "idle" => runs[r].generation = row.generation
    /\ runs[r].answer = "owned" => row.token = r /\ row.age <= runs[r].tick
    /\ Uncancelled(r) /\ row.token = r => runs[r].lost = 0
    /\ Uncancelled(r) /\ runs[r].renewed /\ row.token = r =>
          row.age <= runs[r].sinceOK + WriteTimeout
    /\ Uncancelled(r) /\ runs[r].renewed /\ row.token # r =>
          runs[r].lost + Duration < runs[r].sinceOK + WriteTimeout

IInv ==
    /\ TypeOK
    /\ row.token = None => row.age = 0
    /\ \A r \in Runs : RunLocal(r) /\ RunAndRow(r)

\* RunExclusive returns once its lease context is cancelled: <-done never waits
\* for a heartbeat goroutine that does not end.
CancelledRunEnds ==
    \A r \in Runs : runs[r].cause # "none" ~> runs[r].pc = "idle"

\* The row and its runs implement the lease of module Lease: grants only when
\* free or lapsed, each with a new generation, and the release of a superseded
\* run leaves its successor's claim alone.
Abstract == INSTANCE Lease WITH
    holder <- row.token,
    lapsed <- row.age > Duration,
    generation <- row.generation,
    active <- {r \in Runs : runs[r].pc # "idle"}

ImplementsLease == Abstract!Spec
=============================================================================

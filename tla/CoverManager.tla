---------------------------- MODULE CoverManager ----------------------------
(***************************************************************************)
(* The workers that fetch cover pages (pkg/cover/manager.go), one for each *)
(* domain, composed with the AdaptiveCover that tells them how many of the *)
(* domains are active.  The programs give them one; the mobile engine      *)
(* gives them none, and there every domain is active.                      *)
(*                                                                         *)
(* A worker starts after a delay, and then for ever looks at the level,    *)
(* fetches a page or skips its turn, and waits, until the context is done. *)
(***************************************************************************)
EXTENDS AdaptiveCover

CONSTANTS
    Domains,        \* the number of config.Domains
    ActiveDomains   \* ActiveDomains[l]: of level l

ASSUME ManagerAssumption ==
    /\ Domains \in Nat
    /\ ActiveDomains \in [Levels -> Nat]

VARIABLES
    adaptive,   \* the manager has an AdaptiveCover
    ctx,        \* the context given to Start: "live" or "done"
    worker,     \* where each domainWorker is
    running     \* Manager.running

managerVars == <<adaptive, ctx, worker, running>>
allVars == <<vars, managerVars>>

Workers == 0..(Domains - 1)

\* Start has marked the manager as running and started its workers.
Start ==
    /\ Init
    /\ adaptive \in BOOLEAN
    /\ ctx = "live"
    /\ worker = [i \in Workers |-> "starting"]
    /\ running = TRUE

Goto(i, pc) == worker' = [worker EXCEPT ![i] = pc]

\* A delay is over: the first one, that of a skipped or dormant turn, or the
\* interval between two requests.
Wake(i) ==
    /\ worker[i] \in {"starting", "waiting"}
    /\ Goto(i, "looping")
    /\ UNCHANGED <<vars, adaptive, ctx, running>>

\* Mutant: one domain too many is active.
IsActiveOneMore(i, l) == adaptive => i <= ActiveDomains[l]

\* The worker's domain is active at level l.
IsActive(i, l) == adaptive => i < ActiveDomains[l]

\* A worker that finds the context live begins a request when its domain is
\* active at the level of the moment.
BeginRequest(i) ==
    /\ worker[i] = "looping"
    /\ ctx = "live"
    /\ IsActive(i, currentLevel)
    /\ Goto(i, "request")
    /\ UNCHANGED <<vars, adaptive, ctx, running>>

\* It waits when its domain is dormant, and now and then for no reason.
SkipTurn(i) ==
    /\ worker[i] = "looping"
    /\ ctx = "live"
    /\ Goto(i, "waiting")
    /\ UNCHANGED <<vars, adaptive, ctx, running>>

\* sendRequest returns with a page or an error (after 15 s at most, and soon
\* when the context is done).
EndRequest(i) ==
    /\ worker[i] = "request"
    /\ Goto(i, "waiting")
    /\ UNCHANGED <<vars, adaptive, ctx, running>>

\* Mutant: after the context is done a worker goes round its loop again.
StopContinues(i) ==
    /\ worker[i] \in {"starting", "looping", "waiting"}
    /\ ctx = "done"
    /\ Goto(i, "looping")
    /\ running' = FALSE
    /\ UNCHANGED <<vars, adaptive, ctx>>

\* The context is done: the worker returns, and the first one that does marks
\* the whole manager as not running.
Stop(i) ==
    /\ worker[i] \in {"starting", "looping", "waiting"}
    /\ ctx = "done"
    /\ Goto(i, "stopped")
    /\ running' = FALSE
    /\ UNCHANGED <<vars, adaptive, ctx>>

\* The program ends, or the mobile engine disconnects.
Cancel ==
    /\ ctx = "live"
    /\ ctx' = "done"
    /\ UNCHANGED <<vars, adaptive, worker, running>>

\* The level follows the traffic whatever the workers do.
CoverStep == adaptive /\ Next /\ UNCHANGED managerVars

WorkerStep(i) ==
    Wake(i) \/ BeginRequest(i) \/ SkipTurn(i) \/ EndRequest(i) \/ Stop(i)

ManagerNext == CoverStep \/ Cancel \/ \E i \in Workers : WorkerStep(i)

ManagerSpec == Start /\ [][ManagerNext]_allVars

\* The ticker and every worker's timers run; a turn is skipped at random (one in
\* twenty), so that a worker that comes back to its loop fetches in the end.
FairManagerSpec ==
    /\ ManagerSpec
    /\ WF_allVars(adaptive /\ Tick /\ UNCHANGED managerVars)
    /\ WF_allVars(adaptive /\ Recalculate /\ UNCHANGED managerVars)
    /\ \A i \in Workers : WF_allVars(WorkerStep(i)) /\ SF_allVars(BeginRequest(i))

---------------------------------------------------------------------------
(* Properties. *)

\* The type invariant of the workers. One that has stopped has seen the context
\* done, and the manager tells that it is not running only after one has.
WorkersTypeOK ==
    /\ adaptive \in BOOLEAN /\ running \in BOOLEAN
    /\ ctx \in {"live", "done"}
    /\ worker \in [Workers -> {"starting", "looping", "request", "waiting", "stopped"}]
    /\ \A i \in Workers : worker[i] = "stopped" => ctx = "done" /\ ~running
    /\ ~running => \E i \in Workers : worker[i] = "stopped"

\* When the user's traffic has stopped, the idle level's domains are fetched from
\* for ever and no others are, whatever the workers were doing when the level
\* changed; without an AdaptiveCover all of them are.
CoverFollowsLevel ==
    \A i \in Workers :
        IF i < ActiveDomains[0]
          THEN []<>(ctx = "done" \/ worker[i] = "request")
          ELSE /\ adaptive => <>[](worker[i] # "request")
               /\ ~adaptive => []<>(ctx = "done" \/ worker[i] = "request")

\* When the context is done every worker stops, those in the middle of a request
\* too, although the first to stop already tells that the manager is not running.
WorkersStop ==
    []<>(ctx = "done" =>
            /\ \A i \in Workers : worker[i] = "stopped"
            /\ Domains > 0 => ~running)
=============================================================================

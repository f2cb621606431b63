----------------------------- MODULE SyncEngine -----------------------------
(***************************************************************************)
(* The run loop of `SyncEngine` (sync/engine.ts): single-flight `sync()`,  *)
(* the rerun flag, the memoized provisioning seam, the order of one        *)
(* replication cycle, backoff after a failure, and `stop()`.               *)
(*                                                                         *)
(* JavaScript runs one thing at a time, so an action is what happens       *)
(* between two awaits; every await is a point where the host's calls       *)
(* (sync, invalidateProvisioning, stop) and the retry timer interleave.    *)
(* pc[r] names the injected call run r is awaiting.                        *)
(***************************************************************************)
EXTENDS Integers

CONSTANTS
    RunId,              \* names for invocations of run()
    NoRun,              \* the null of currentRun and abortController
    Remints,            \* is the optional remintPending seam injected?
    HostModes,          \* the statuses on whose onStatusChange callback a
                        \* host may call sync() synchronously, or "never"
    MaxDisturbances,    \* bound: failing calls and resolved conflicts
    MaxInvalidations    \* bound: invalidateProvisioning() calls

ASSUME RunIdAssumption == NoRun \notin RunId
ASSUME FlagAssumption ==
    /\ Remints \in BOOLEAN
    /\ HostModes \subseteq {"never", "syncing", "synced"}
ASSUME BoundAssumption ==
    /\ MaxDisturbances \in Nat /\ MaxInvalidations \in Nat

VARIABLES
    status,                 \* what onStatusChange last reported
    running,
    rerunRequested,
    stopped,
    failureCount,
    currentRun,             \* the promise sync() hands out
    abortController,        \* the run whose signal stop() aborts
    retryArmed,             \* cancelRetry /= null
    provisioned,
    provisioningGeneration,
    migrated,               \* the durable migrated milestone
    pc,                     \* [RunId -> the call the run awaits]
    aborted,                \* [RunId -> signal.aborted]
    generation,             \* [RunId -> the generation its cycle began at]
    firstCycle,             \* [RunId -> BOOLEAN]
    reenterOn,              \* this host's choice among HostModes, for good
    disturbances            \* bounded environment trouble so far

\* History: unserved says that sync() was called and no push snapshot was
\* read since; published is the newest generation for which a provisioning
\* call that began at it has succeeded (-1: none yet).
VARIABLES unserved, published

\* Groups of variables that change together.
runFlags == <<status, running, currentRun, abortController, aborted>>
retry == <<failureCount, retryArmed>>
environment == <<disturbances, reenterOn>>
memo == <<provisioned, provisioningGeneration, published>>
milestone == <<migrated, firstCycle>>
vars == <<runFlags, retry, memo, milestone, rerunRequested, stopped, pc,
          generation, environment, unserved>>

-----------------------------------------------------------------------------
(* Phases of a run. *)

Awaiting == {"ensureProvisioned", "remintPending", "isMigrated", "firstPull",
             "runLazyMigration", "stampMigrated", "getDirty", "runPush",
             "pull", "stampLastSynced"}
Phase == Awaiting \cup {"none", "cycleDone", "cycleFailed"}

Active(r) == pc[r] # "none"

AfterProvisioning == IF Remints THEN "remintPending" ELSE "isMigrated"
CycleStart == IF provisioned THEN AfterProvisioning ELSE "ensureProvisioned"

FlagsOK ==
    /\ running \in BOOLEAN /\ rerunRequested \in BOOLEAN /\ stopped \in BOOLEAN
    /\ retryArmed \in BOOLEAN /\ provisioned \in BOOLEAN /\ migrated \in BOOLEAN
    /\ unserved \in BOOLEAN
    /\ aborted \in [RunId -> BOOLEAN]
    /\ firstCycle \in [RunId -> BOOLEAN]
RunsOK ==
    /\ status \in {"idle", "syncing", "synced", "error"}
    /\ reenterOn \in HostModes
    /\ currentRun \in RunId \cup {NoRun}
    /\ abortController \in RunId \cup {NoRun}
    /\ pc \in [RunId -> Phase]
CountsOK ==
    /\ failureCount \in Nat
    /\ disturbances \in 0..MaxDisturbances
    /\ provisioningGeneration \in 0..MaxInvalidations
    /\ generation \in [RunId -> Nat]
    /\ published \in Int

\* The types of the engine's fields and of its runs.
TypeOK == FlagsOK /\ RunsOK /\ CountsOK

Init ==
    /\ status = "idle"
    /\ running = FALSE /\ rerunRequested = FALSE /\ stopped = FALSE
    /\ failureCount = 0 /\ disturbances = 0
    /\ currentRun = NoRun /\ abortController = NoRun
    /\ retryArmed = FALSE
    /\ provisioned = FALSE /\ provisioningGeneration = 0
    /\ migrated \in BOOLEAN
    /\ pc = [r \in RunId |-> "none"]
    /\ aborted = [r \in RunId |-> FALSE]
    /\ generation = [r \in RunId |-> 0]
    /\ firstCycle = [r \in RunId |-> FALSE]
    /\ reenterOn \in HostModes
    /\ unserved = FALSE
    /\ published = -1

-----------------------------------------------------------------------------
(* sync(), run() and the loop around runCycle(). *)

\* The body of run() up to its first await, for a run r that sync() starts;
\* `synchronous` code leaves currentRun = r once run() has returned.
Run(r) ==
    /\ pc[r] = "none"
    /\ running' = TRUE /\ currentRun' = r
    /\ status' = "syncing"
    /\ retryArmed' = FALSE
    /\ abortController' = r /\ aborted' = [aborted EXCEPT ![r] = FALSE]
    /\ rerunRequested' = FALSE
    /\ pc' = [pc EXCEPT ![r] = CycleStart]
    /\ generation' = [generation EXCEPT ![r] = provisioningGeneration]

\* The same when the host's onStatusChange("syncing") callback calls sync():
\* running is set but currentRun is still null, so a second run q starts
\* inside the first, which then overwrites abortController and currentRun.
RunReentered(r, q) ==
    /\ r # q /\ pc[r] = "none" /\ pc[q] = "none"
    /\ status # "syncing"
    /\ running' = TRUE /\ currentRun' = r
    /\ status' = "syncing"
    /\ retryArmed' = FALSE
    /\ abortController' = r
    /\ aborted' = [aborted EXCEPT ![r] = FALSE, ![q] = FALSE]
    /\ rerunRequested' = FALSE
    /\ pc' = [pc EXCEPT ![r] = CycleStart, ![q] = CycleStart]
    /\ generation' = [generation EXCEPT ![r] = provisioningGeneration,
                                        ![q] = provisioningGeneration]

\* sync() on an engine that is not stopped: coalesce or start.
InFlightUnlessFlagged == running /\ currentRun # NoRun /\ rerunRequested
InFlight == running /\ currentRun # NoRun
CoalesceForgetful(armed) ==
    UNCHANGED <<rerunRequested, runFlags, retryArmed, pc, generation>>
Coalesce(armed) ==
    /\ rerunRequested' = TRUE
    /\ retryArmed' = armed
    /\ UNCHANGED <<runFlags, pc, generation>>
StartOrCoalesce(armed) ==
    \/ InFlight /\ Coalesce(armed)
    \/ ~InFlight /\ \E r \in RunId : Run(r)
    \/ ~InFlight /\ reenterOn = "syncing"
                 /\ \E r, q \in RunId : RunReentered(r, q)

Sync ==
    /\ ~stopped
    /\ unserved' = TRUE
    /\ StartOrCoalesce(retryArmed)
    /\ UNCHANGED <<failureCount, memo, milestone, stopped,
                   environment>>

\* The timer scheduleRetry armed fires and calls sync().
RetryFires ==
    /\ retryArmed
    /\ ~stopped
    /\ StartOrCoalesce(FALSE)
    /\ UNCHANGED <<failureCount, memo, milestone, stopped,
                   environment, unserved>>

\* run()'s do-while condition holds: another cycle in the same run.
CycleAgain(r) ==
    /\ pc[r] = "cycleDone"
    /\ rerunRequested /\ ~aborted[r] /\ ~stopped
    /\ rerunRequested' = FALSE
    /\ pc' = [pc EXCEPT ![r] = CycleStart]
    /\ generation' = [generation EXCEPT ![r] = provisioningGeneration]
    /\ UNCHANGED <<runFlags, retry, memo, milestone, stopped, environment,
                   unserved>>

FinallyUndefined(r) ==
    /\ running' = FALSE /\ currentRun' = "undefined"
    /\ pc' = [pc EXCEPT ![r] = "none"]

\* run()'s finally block.
Finally(r) ==
    /\ running' = FALSE /\ currentRun' = NoRun
    /\ pc' = [pc EXCEPT ![r] = "none"]

\* The loop ends: "synced" unless the run was aborted. A host that calls
\* sync() from the "synced" callback finds running and currentRun still set
\* and only flags a rerun that nothing reads any more.
Settle(r) ==
    /\ pc[r] = "cycleDone"
    /\ ~rerunRequested \/ aborted[r] \/ stopped
    /\ Finally(r)
    /\ IF ~aborted[r] /\ ~stopped
       THEN /\ failureCount' = 0
            /\ status' = "synced"
            /\ \/ UNCHANGED <<rerunRequested, unserved>>
               \/ /\ reenterOn = "synced" /\ status # "synced" /\ InFlight
                  /\ rerunRequested' = TRUE /\ unserved' = TRUE
       ELSE UNCHANGED <<failureCount, status, rerunRequested, unserved>>
    /\ UNCHANGED <<abortController, aborted, retryArmed, memo, milestone,
                   stopped, generation, environment>>

FailUnarmed(r) ==
    /\ pc[r] = "cycleFailed"
    /\ Finally(r)
    /\ IF ~aborted[r] /\ ~stopped THEN status' = "error" ELSE UNCHANGED status
    /\ UNCHANGED <<retry, abortController, aborted, memo, milestone, stopped,
                   rerunRequested, generation, environment, unserved>>

\* run()'s catch and finally: report the error and arm a retry, unless
\* stop() is what unwound the run.
Fail(r) ==
    /\ pc[r] = "cycleFailed"
    /\ Finally(r)
    /\ IF ~aborted[r] /\ ~stopped
       THEN /\ status' = "error"
            /\ failureCount' = failureCount + 1
            /\ retryArmed' = TRUE
       ELSE UNCHANGED <<status, failureCount, retryArmed>>
    /\ UNCHANGED <<abortController, aborted, memo, milestone, stopped,
                   rerunRequested, generation, environment, unserved>>

-----------------------------------------------------------------------------
(* runCycle(): what follows each await. *)

\* Resume r from an awaited call and go on, or return where the code checks
\* signal.aborted.
Goto(r, from, to) ==
    /\ pc[r] = from
    /\ pc' = [pc EXCEPT ![r] = IF aborted[r] THEN "cycleDone" ELSE to]
    /\ UNCHANGED <<runFlags, retry, stopped, generation>>

ProvisionedUnconditionally(r) ==
    /\ Goto(r, "ensureProvisioned", AfterProvisioning)
    /\ provisioned' = TRUE
    /\ published' = IF generation[r] > published THEN generation[r]
                                                 ELSE published
    /\ UNCHANGED <<milestone, provisioningGeneration, rerunRequested,
                   environment, unserved>>

\* ensureProvisioned resolves: the memo is set only if no invalidation
\* landed while the call was in flight.
Provisioned(r) ==
    /\ Goto(r, "ensureProvisioned", AfterProvisioning)
    /\ provisioned' = (provisioned \/ generation[r] = provisioningGeneration)
    /\ published' = IF generation[r] > published THEN generation[r]
                                                 ELSE published
    /\ UNCHANGED <<milestone, provisioningGeneration, rerunRequested,
                   environment, unserved>>

Reminted(r) ==
    /\ Goto(r, "remintPending", "isMigrated")
    /\ UNCHANGED <<memo, milestone, rerunRequested, environment, unserved>>

\* isMigrated answers; the code does not look at the signal here.
IsMigrated(r) ==
    /\ pc[r] = "isMigrated"
    /\ firstCycle' = [firstCycle EXCEPT ![r] = ~migrated]
    /\ pc' = [pc EXCEPT ![r] = IF migrated THEN "runLazyMigration"
                                           ELSE "firstPull"]
    /\ UNCHANGED <<runFlags, retry, memo, migrated, rerunRequested, stopped,
                   generation, environment, unserved>>

FirstPulled(r) ==
    /\ Goto(r, "firstPull", "runLazyMigration")
    /\ UNCHANGED <<memo, milestone, rerunRequested, environment, unserved>>

Swept(r) ==
    /\ Goto(r, "runLazyMigration",
            IF firstCycle[r] THEN "stampMigrated" ELSE "getDirty")
    /\ UNCHANGED <<memo, milestone, rerunRequested, environment, unserved>>

StampedMigrated(r) ==
    /\ Goto(r, "stampMigrated", "getDirty")
    /\ migrated' = TRUE
    /\ UNCHANGED <<memo, firstCycle, rerunRequested, environment, unserved>>

\* runPush reads its one snapshot of the dirty set, then checks the signal
\* before every replica of it.
DirtyRead(r) ==
    /\ pc[r] = "getDirty"
    /\ pc' = [pc EXCEPT ![r] = "runPush"]
    /\ unserved' = FALSE
    /\ UNCHANGED <<runFlags, retry, memo, milestone, rerunRequested, stopped,
                   generation, environment>>

\* runPush returns; a resolved conflict asks for another cycle.
Pushed(r) ==
    /\ Goto(r, "runPush", "pull")
    /\ \/ UNCHANGED <<rerunRequested, disturbances>>
       \/ /\ disturbances < MaxDisturbances
          /\ disturbances' = disturbances + 1
          /\ rerunRequested' = (rerunRequested \/ ~aborted[r])
    /\ UNCHANGED <<memo, milestone, reenterOn, unserved>>

Pulled(r) ==
    /\ Goto(r, "pull", "stampLastSynced")
    /\ UNCHANGED <<memo, milestone, rerunRequested, environment, unserved>>

StampedLastSynced(r) ==
    /\ pc[r] = "stampLastSynced"
    /\ pc' = [pc EXCEPT ![r] = "cycleDone"]
    /\ UNCHANGED <<runFlags, retry, memo, milestone, rerunRequested, stopped,
                   generation, environment, unserved>>

\* Any awaited call may reject; nothing it would have recorded is recorded.
Reject(r) ==
    /\ pc[r] \in Awaiting
    /\ disturbances < MaxDisturbances
    /\ disturbances' = disturbances + 1
    /\ pc' = [pc EXCEPT ![r] = "cycleFailed"]
    /\ UNCHANGED <<runFlags, retry, memo, milestone, rerunRequested, stopped,
                   generation, reenterOn, unserved>>

-----------------------------------------------------------------------------
(* The other public calls. *)

InvalidateProvisioning ==
    /\ provisioningGeneration < MaxInvalidations
    /\ provisioned' = FALSE
    /\ provisioningGeneration' = provisioningGeneration + 1
    /\ UNCHANGED <<runFlags, retry, published, milestone, rerunRequested,
                   stopped, pc, generation, environment, unserved>>

StopWithoutAbort ==
    /\ ~stopped
    /\ stopped' = TRUE
    /\ status' = "idle"
    /\ UNCHANGED <<running, currentRun, abortController, aborted, retry, memo,
                   milestone, rerunRequested, pc, generation, environment,
                   unserved>>

Stop ==
    /\ ~stopped
    /\ stopped' = TRUE
    /\ aborted' = IF abortController = NoRun THEN aborted
                  ELSE [aborted EXCEPT ![abortController] = TRUE]
    /\ retryArmed' = FALSE
    /\ status' = "idle"
    /\ UNCHANGED <<running, currentRun, abortController, failureCount,
                   memo, milestone, rerunRequested, pc,
                   generation, environment, unserved>>

-----------------------------------------------------------------------------
RunStep(r) ==
    \/ CycleAgain(r) \/ Settle(r) \/ Fail(r)
    \/ Provisioned(r) \/ Reminted(r) \/ IsMigrated(r) \/ FirstPulled(r)
    \/ Swept(r) \/ StampedMigrated(r) \/ DirtyRead(r) \/ Pushed(r)
    \/ Pulled(r) \/ StampedLastSynced(r)

Next ==
    \/ Sync \/ RetryFires \/ InvalidateProvisioning \/ Stop
    \/ \E r \in RunId : RunStep(r) \/ Reject(r)

\* Fairness: every call the engine awaits settles in the end (the ports time
\* out), the event loop resumes a settled await, and an armed timer fires.
Fairness == WF_vars(RetryFires) /\ \A r \in RunId : WF_vars(RunStep(r))

Spec == Init /\ [][Next]_vars /\ Fairness

-----------------------------------------------------------------------------
(* Properties. *)

\* The host's status callback never calls sync() synchronously.
Quiet == reenterOn = "never"

\* `sync()` is single-flight, as its comment says without exception: at most
\* one invocation of run() has a cycle in flight.
AlwaysSingleFlight ==
    \A r, q \in RunId : Active(r) /\ Active(q) => r = q

\* `sync()` is single-flight on a quiet host: however host calls, the retry
\* timer and the ends of runs interleave, two cycles never push the same
\* dirty set side by side.
SingleFlight == Quiet => AlwaysSingleFlight

\* The engine of a quiet host rests as "synced" only when every sync() call
\* it accepted was followed by a push snapshot: a write that lands in the
\* middle of a cycle, announced by sync(), is never left behind by the rerun
\* flag.
RestMeansServed ==
    Quiet /\ status = "synced" /\ ~running => ~unserved

\* Descriptor before content: a cycle that reaches the push was preceded by
\* a successful ensureProvisioned that began no earlier than the last
\* invalidation the cycle could see; an invalidation that lands while a
\* provisioning call is in flight outlives that call.
PushAfterProvisioning ==
    \A r \in RunId :
        pc[r] \in {"getDirty", "runPush"} => published >= generation[r]

\* stop() is final on a quiet host: afterwards no run begins a push, the
\* closing pull or a durable stamp, the status stays "idle" and no retry is
\* armed again.
StopIsFinal ==
    [][Quiet /\ stopped =>
        /\ \A r \in RunId :
             pc'[r] \in {"getDirty", "pull", "stampMigrated",
                         "stampLastSynced"} => pc'[r] = pc[r]
        /\ status' = "idle" /\ ~retryArmed']_vars

\* Every accepted request of a quiet host is covered by a later push
\* snapshot, through failures and backoff, unless the engine is stopped.
RequestServed == (Quiet /\ unserved) ~> (~unserved \/ stopped)

\* The engine implements the contract of sync() (SyncContract): while it is
\* not stopped it is active, backing off or at rest, and it comes to rest
\* only with nothing outstanding. The contract is a quiet host's; the engine
\* of any other host maps to one that is never asked for anything.
Contract == INSTANCE SyncContract WITH
    outstanding <- Quiet /\ unserved,
    mode <- IF ~Quiet THEN "resting"
            ELSE IF stopped THEN "stopped"
            ELSE IF running THEN "active"
            ELSE IF retryArmed THEN "backoff" ELSE "resting"
ImplementsContract == Contract!Spec

-----------------------------------------------------------------------------
(* The inductive strengthening the proofs use. *)

\* After its snapshot a run that may still settle has a rerun flagged for
\* every request it did not cover.
PastSnapshot == {"runPush", "pull", "stampLastSynced", "cycleDone"}
Provisioning == {"none", "ensureProvisioned", "cycleDone", "cycleFailed"}

\* Provisioning: the memo is never newer than what was published, and a run
\* past the seam holds a published generation.
ProvisioningInv ==
    /\ \A r \in RunId : generation[r] <= provisioningGeneration
    /\ provisioned => published = provisioningGeneration
    /\ published <= provisioningGeneration
    /\ \A r \in RunId : pc[r] \notin Provisioning => published >= generation[r]

\* The run an engine whose host does not re-enter has in flight is the one
\* its fields name; stop() has aborted it; whoever waits is not forgotten.
FlightInv ==
    /\ \A r \in RunId : Active(r) => running /\ currentRun = r
                                             /\ abortController = r
    /\ running => currentRun \in RunId /\ Active(currentRun)
    /\ \A r \in RunId : Active(r) => (aborted[r] <=> stopped)
    /\ retryArmed => ~running /\ ~stopped /\ status = "error"
    /\ status = "synced" => ~running
    /\ stopped => status = "idle"
    /\ ~running /\ ~stopped /\ ~retryArmed => ~unserved
    /\ \A r \in RunId :
          pc[r] \in PastSnapshot /\ ~stopped /\ unserved => rerunRequested

\* The inductive invariant behind the theorems of SyncEngineProofs: what a
\* non-re-entrant host's engine keeps true between any two awaits.
IInv == TypeOK /\ ProvisioningInv /\ FlightInv
=============================================================================

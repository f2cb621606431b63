-------------------------- MODULE SyncEngineProofs --------------------------
(***************************************************************************)
(* Proofs about SyncEngine, for any set of run names and any bounds.       *)
(***************************************************************************)
EXTENDS SyncEngine, TLAPS

\* Every step of the engine, its timer or its host keeps the Boolean fields
\* Boolean.
LEMMA FlagsPreserved == TypeOK /\ [Next]_vars => FlagsOK'
<1> SUFFICES ASSUME TypeOK, [Next]_vars PROVE FlagsOK'
  OBVIOUS
<1> USE DEF TypeOK, FlagsOK, vars, runFlags, retry, memo, milestone, environment
<1>1. ASSUME NEW armed \in BOOLEAN, StartOrCoalesce(armed)
      PROVE  /\ running' \in BOOLEAN /\ rerunRequested' \in BOOLEAN
             /\ retryArmed' \in BOOLEAN /\ aborted' \in [RunId -> BOOLEAN]
  BY <1>1, Zenon DEF StartOrCoalesce, InFlight, Coalesce, Run, RunReentered
<1>2. CASE Sync
  BY <1>2, <1>1, Zenon DEF Sync
<1>3. CASE RetryFires
  BY <1>3, <1>1, Zenon DEF RetryFires
<1>4. CASE InvalidateProvisioning
  BY <1>4, Zenon DEF InvalidateProvisioning
<1>5. CASE Stop
  BY <1>5, Zenon DEF Stop
<1>6. ASSUME NEW r \in RunId, RunStep(r) PROVE FlagsOK'
  <2>1. CASE CycleAgain(r) \/ Settle(r) \/ Fail(r)
    BY <2>1, Zenon DEF CycleAgain, Settle, Fail, Finally
  <2>2. CASE Provisioned(r)
    BY <2>2, Zenon DEF Provisioned, Goto
  <2>3. CASE Reminted(r) \/ FirstPulled(r) \/ Swept(r) \/ Pulled(r)
    BY <2>3, Zenon DEF Reminted, FirstPulled, Swept, Pulled, Goto
  <2>4. CASE IsMigrated(r) \/ StampedMigrated(r) \/ DirtyRead(r)
    BY <2>4, Zenon DEF IsMigrated, StampedMigrated, DirtyRead, Goto
  <2>5. CASE Pushed(r) \/ StampedLastSynced(r)
    BY <2>5, Zenon DEF Pushed, StampedLastSynced, Goto
  <2> QED BY <1>6, <2>1, <2>2, <2>3, <2>4, <2>5 DEF RunStep
<1>7. ASSUME NEW r \in RunId, Reject(r) PROVE FlagsOK'
  BY <1>7, Zenon DEF Reject
<1>8. CASE UNCHANGED vars
  BY <1>8, Zenon
<1> QED BY <1>2, <1>3, <1>4, <1>5, <1>6, <1>7, <1>8 DEF Next

\* Every step keeps status, run references and phases in their sets, and the
\* counters within their bounds.
LEMMA RestPreserved == TypeOK /\ [Next]_vars => RunsOK' /\ CountsOK'
<1> SUFFICES ASSUME TypeOK, [Next]_vars PROVE RunsOK' /\ CountsOK'
  OBVIOUS
<1> USE RunIdAssumption, FlagAssumption, BoundAssumption
<1> USE DEF TypeOK, RunsOK, CountsOK, Phase, Awaiting,
            RunIdAssumption, FlagAssumption, BoundAssumption
<1> USE DEF vars, runFlags, retry, memo, milestone, environment
<1>a. AfterProvisioning \in Phase /\ CycleStart \in Phase
  BY DEF AfterProvisioning, CycleStart
<1>1. ASSUME NEW armed \in BOOLEAN, StartOrCoalesce(armed)
      PROVE  /\ status' \in {"idle", "syncing", "synced", "error"}
             /\ currentRun' \in RunId \cup {NoRun}
             /\ abortController' \in RunId \cup {NoRun}
             /\ pc' \in [RunId -> Phase]
             /\ generation' \in [RunId -> Nat]
  <2>1. CASE Coalesce(armed)
    BY <2>1 DEF Coalesce
  <2>2. CASE \E r \in RunId : Run(r)
    <3> PICK r \in RunId : Run(r)  BY <2>2
    <3> QED BY <1>a DEF Run
  <2>3. CASE \E r, q \in RunId : RunReentered(r, q)
    <3> PICK r \in RunId, q \in RunId : RunReentered(r, q)  BY <2>3
    <3> QED BY <1>a DEF RunReentered
  <2> QED BY <1>1, <2>1, <2>2, <2>3 DEF StartOrCoalesce
<1>2. CASE Sync
  <2>1. StartOrCoalesce(retryArmed) /\ retryArmed \in BOOLEAN
    BY <1>2, Zenon DEF Sync, FlagsOK
  <2>2. /\ status' \in {"idle", "syncing", "synced", "error"}
        /\ currentRun' \in RunId \cup {NoRun}
        /\ abortController' \in RunId \cup {NoRun}
        /\ pc' \in [RunId -> Phase]
        /\ generation' \in [RunId -> Nat]
    BY <2>1, <1>1, Zenon
  <2> QED BY <1>2, <2>2 DEF Sync
<1>3. CASE RetryFires
  <2>1. StartOrCoalesce(FALSE)
    BY <1>3 DEF RetryFires
  <2>2. /\ status' \in {"idle", "syncing", "synced", "error"}
        /\ currentRun' \in RunId \cup {NoRun}
        /\ abortController' \in RunId \cup {NoRun}
        /\ pc' \in [RunId -> Phase]
        /\ generation' \in [RunId -> Nat]
    BY <2>1, <1>1, Zenon
  <2> QED BY <1>3, <2>2 DEF RetryFires
<1>4. CASE InvalidateProvisioning
  BY <1>4 DEF InvalidateProvisioning
<1>5. CASE Stop
  BY <1>5 DEF Stop
<1>6. ASSUME NEW r \in RunId, RunStep(r) PROVE RunsOK' /\ CountsOK'
  <2>1. CASE CycleAgain(r)
    BY <2>1, <1>a DEF CycleAgain
  <2>2. CASE Settle(r) \/ Fail(r)
    BY <2>2 DEF Settle, Fail, Finally
  <2>3. CASE Provisioned(r)
    BY <2>3, <1>a DEF Provisioned, Goto
  <2>4. CASE Reminted(r) \/ FirstPulled(r) \/ Swept(r) \/ Pulled(r)
    BY <2>4 DEF Reminted, FirstPulled, Swept, Pulled, Goto
  <2>5. CASE IsMigrated(r) \/ StampedMigrated(r) \/ DirtyRead(r)
    BY <2>5 DEF IsMigrated, StampedMigrated, DirtyRead, Goto
  <2>6. CASE Pushed(r) \/ StampedLastSynced(r)
    BY <2>6 DEF Pushed, StampedLastSynced, Goto
  <2> QED BY <1>6, <2>1, <2>2, <2>3, <2>4, <2>5, <2>6 DEF RunStep
<1>7. ASSUME NEW r \in RunId, Reject(r) PROVE RunsOK' /\ CountsOK'
  BY <1>7 DEF Reject
<1>8. CASE UNCHANGED vars
  BY <1>8
<1> QED BY <1>2, <1>3, <1>4, <1>5, <1>6, <1>7, <1>8 DEF Next

\* Every reachable state of the engine is well typed: in particular
\* currentRun and abortController always name a run or null.
THEOREM TypeCorrect == Spec => []TypeOK
<1>1. Init => TypeOK
  <2>1. Init => FlagsOK
    BY Zenon DEF Init, FlagsOK
  <2>2. Init => RunsOK /\ CountsOK
    BY RunIdAssumption, FlagAssumption, BoundAssumption
       DEF Init, RunsOK, CountsOK, Phase, Awaiting,
           RunIdAssumption, FlagAssumption, BoundAssumption
  <2> QED BY <2>1, <2>2 DEF TypeOK
<1>2. TypeOK /\ [Next]_vars => TypeOK'
  BY FlagsPreserved, RestPreserved DEF TypeOK
<1> QED BY <1>1, <1>2, PTL DEF Spec

-----------------------------------------------------------------------------
\* The provisioning memo stays sound under every step: this is the case
\* split on where an invalidation lands relative to an in-flight call.
LEMMA ProvisioningPreserved ==
    TypeOK /\ ProvisioningInv /\ [Next]_vars => ProvisioningInv'
<1> SUFFICES ASSUME TypeOK, ProvisioningInv, [Next]_vars PROVE ProvisioningInv'
  OBVIOUS
<1> USE BoundAssumption
<1> USE DEF TypeOK, RunsOK, CountsOK, ProvisioningInv, Provisioning,
            BoundAssumption
<1> USE DEF vars, runFlags, retry, memo, milestone, environment
<1>a. AfterProvisioning \in Phase /\ CycleStart \in Phase
  BY FlagAssumption DEF AfterProvisioning, CycleStart, Phase, Awaiting
<1>b. CycleStart \notin Provisioning => provisioned
  BY DEF CycleStart
<1>c. ASSUME NEW r \in RunId,
             pc' = [pc EXCEPT ![r] = CycleStart],
             generation' = [generation EXCEPT ![r] = provisioningGeneration],
             UNCHANGED memo
      PROVE  ProvisioningInv'
  BY <1>b, <1>c
<1>1. ASSUME NEW armed \in BOOLEAN, StartOrCoalesce(armed), UNCHANGED memo
      PROVE  ProvisioningInv'
  <2>1. CASE Coalesce(armed)
    BY <1>1, <2>1 DEF Coalesce
  <2>2. CASE \E r \in RunId : Run(r)
    <3> PICK r \in RunId : Run(r)  BY <2>2
    <3> QED BY <1>1, <1>c DEF Run
  <2>3. CASE \E r, q \in RunId : RunReentered(r, q)
    <3> PICK r \in RunId, q \in RunId : RunReentered(r, q)  BY <2>3
    <3> QED BY <1>1, <1>b DEF RunReentered
  <2> QED BY <1>1, <2>1, <2>2, <2>3 DEF StartOrCoalesce
<1>2. CASE Sync
  <2>1. StartOrCoalesce(retryArmed) /\ retryArmed \in BOOLEAN /\ UNCHANGED memo
    BY <1>2, Zenon DEF Sync, FlagsOK
  <2> QED BY <2>1, <1>1, Zenon
<1>3. CASE RetryFires
  <2>1. StartOrCoalesce(FALSE) /\ UNCHANGED memo
    BY <1>3 DEF RetryFires
  <2> QED BY <2>1, <1>1, Zenon
<1>4. CASE InvalidateProvisioning
  <2>1. ~provisioned' /\ UNCHANGED <<published, generation, pc>>
    BY <1>4, Zenon DEF InvalidateProvisioning
  <2> QED BY <1>4, <2>1 DEF InvalidateProvisioning
<1>5. CASE Stop
  BY <1>5 DEF Stop
<1>6. ASSUME NEW r \in RunId, RunStep(r) PROVE ProvisioningInv'
  <2>1. CASE CycleAgain(r)
    BY <2>1, <1>c DEF CycleAgain
  <2>2. CASE Settle(r) \/ Fail(r)
    BY <2>2 DEF Settle, Fail, Finally
  <2>3. CASE Provisioned(r)
    <3>1. /\ published' \in Int /\ generation[r] \in Int
          /\ published' >= published /\ published' >= generation[r]
          /\ published' <= provisioningGeneration
      BY <2>3 DEF Provisioned
    <3>2. provisioned' => published' = provisioningGeneration
      <4>1. CASE provisioned
        BY <2>3, <4>1, <3>1 DEF Provisioned
      <4>2. CASE generation[r] = provisioningGeneration
        BY <4>2, <3>1
      <4> QED BY <2>3, <4>1, <4>2, Zenon DEF Provisioned
    <3> QED BY <2>3, <3>1, <3>2 DEF Provisioned, Goto
  <2>4. CASE Reminted(r) \/ FirstPulled(r) \/ Swept(r) \/ Pulled(r)
    BY <2>4 DEF Reminted, FirstPulled, Swept, Pulled, Goto
  <2>5. CASE IsMigrated(r) \/ StampedMigrated(r) \/ DirtyRead(r)
    BY <2>5 DEF IsMigrated, StampedMigrated, DirtyRead, Goto
  <2>6. CASE Pushed(r) \/ StampedLastSynced(r)
    BY <2>6 DEF Pushed, StampedLastSynced, Goto
  <2> QED BY <1>6, <2>1, <2>2, <2>3, <2>4, <2>5, <2>6 DEF RunStep
<1>7. ASSUME NEW r \in RunId, Reject(r) PROVE ProvisioningInv'
  BY <1>7 DEF Reject
<1>8. CASE UNCHANGED vars
  BY <1>8
<1> QED BY <1>2, <1>3, <1>4, <1>5, <1>6, <1>7, <1>8 DEF Next

\* Descriptor before content, for every host and any number of
\* invalidations: no cycle reads the dirty set before a provisioning call
\* that began at the cycle's own generation, or later, has succeeded.
THEOREM PushIsProvisioned == Spec => []PushAfterProvisioning
<1>1. Init => ProvisioningInv
  BY BoundAssumption DEF Init, ProvisioningInv, Provisioning, BoundAssumption
<1>2. TypeOK /\ ProvisioningInv /\ [Next]_vars => ProvisioningInv'
  BY ProvisioningPreserved
<1>3. ProvisioningInv => PushAfterProvisioning
  BY DEF ProvisioningInv, Provisioning, PushAfterProvisioning
<1> QED BY <1>1, <1>2, <1>3, TypeCorrect, PTL DEF Spec

-----------------------------------------------------------------------------
\* What a host's callback does is fixed for good.
LEMMA HostFixed == [Next]_vars => reenterOn' = reenterOn
<1> SUFFICES ASSUME [Next]_vars PROVE reenterOn' = reenterOn
  OBVIOUS
<1> USE DEF vars, environment
<1>1. CASE Sync \/ RetryFires \/ InvalidateProvisioning \/ Stop
  BY <1>1, Zenon DEF Sync, RetryFires, InvalidateProvisioning, Stop
<1>2. ASSUME NEW r \in RunId, RunStep(r) \/ Reject(r)
      PROVE  reenterOn' = reenterOn
  BY <1>2, Zenon DEF RunStep, CycleAgain, Settle, Fail, Provisioned, Reminted,
     IsMigrated, FirstPulled, Swept, StampedMigrated, DirtyRead, Pushed,
     Pulled, StampedLastSynced, Reject
<1> QED BY <1>1, <1>2, Zenon DEF Next

\* The engine's own account of its run in flight survives every step, when
\* the host does not re-enter it.
LEMMA FlightPreserved ==
    TypeOK /\ Quiet /\ FlightInv /\ [Next]_vars => FlightInv'
<1> SUFFICES ASSUME TypeOK, Quiet, FlightInv, [Next]_vars PROVE FlightInv'
  OBVIOUS
<1> USE RunIdAssumption
<1> USE DEF TypeOK, FlagsOK, RunsOK, FlightInv, Active, PastSnapshot,
            Phase, Awaiting, RunIdAssumption
<1> USE DEF vars, runFlags, retry, memo, milestone, environment
<1>q. reenterOn = "never"
  BY DEF Quiet
<1>a. /\ CycleStart # "none" /\ CycleStart \notin PastSnapshot
      /\ AfterProvisioning # "none" /\ AfterProvisioning \notin PastSnapshot
  BY DEF CycleStart, AfterProvisioning
<1>1. CASE Sync
  <2>1. CASE InFlight /\ Coalesce(retryArmed)
    BY <1>1, <2>1, Zenon DEF Sync, Coalesce, InFlight
  <2>2. CASE ~InFlight /\ \E r \in RunId : Run(r)
    <3> PICK r \in RunId : Run(r)  BY <2>2
    <3> QED BY <1>1, <2>2, <1>a, Zenon DEF Sync, Run, InFlight
  <2> QED BY <1>1, <1>q, <2>1, <2>2, Zenon DEF Sync, StartOrCoalesce
<1>2. CASE RetryFires
  <2>1. CASE ~InFlight /\ \E r \in RunId : Run(r)
    <3> PICK r \in RunId : Run(r)  BY <2>1
    <3> QED BY <1>2, <2>1, <1>a, Zenon DEF RetryFires, Run, InFlight
  <2> QED BY <1>2, <1>q, <2>1, Zenon DEF RetryFires, StartOrCoalesce, InFlight
<1>3. CASE InvalidateProvisioning
  BY <1>3, Zenon DEF InvalidateProvisioning
<1>4. CASE Stop
  BY <1>4, Zenon DEF Stop
<1>5. ASSUME NEW r \in RunId, RunStep(r) PROVE FlightInv'
  <2>1. CASE CycleAgain(r)
    BY <2>1, <1>a, Zenon DEF CycleAgain
  <2>2. CASE Settle(r)
    BY <2>2, <1>q, Zenon DEF Settle, Finally
  <2>3. CASE Fail(r)
    BY <2>3, Zenon DEF Fail, Finally
  <2>4. CASE Provisioned(r)
    BY <2>4, <1>a, Zenon DEF Provisioned, Goto
  <2>5. CASE Reminted(r)
    BY <2>5, Zenon DEF Reminted, Goto
  <2>6. CASE IsMigrated(r)
    BY <2>6, Zenon DEF IsMigrated
  <2>7. CASE FirstPulled(r)
    BY <2>7, Zenon DEF FirstPulled, Goto
  <2>8. CASE Swept(r)
    BY <2>8, Zenon DEF Swept, Goto
  <2>9. CASE StampedMigrated(r)
    BY <2>9, Zenon DEF StampedMigrated, Goto
  <2>10. CASE DirtyRead(r)
    BY <2>10, Zenon DEF DirtyRead
  <2>11. CASE Pushed(r)
    BY <2>11, Zenon DEF Pushed, Goto
  <2>12. CASE Pulled(r)
    BY <2>12, Zenon DEF Pulled, Goto
  <2>13. CASE StampedLastSynced(r)
    BY <2>13, Zenon DEF StampedLastSynced
  <2> QED BY <1>5, <2>1, <2>2, <2>3, <2>4, <2>5, <2>6, <2>7, <2>8, <2>9,
             <2>10, <2>11, <2>12, <2>13 DEF RunStep
<1>6. ASSUME NEW r \in RunId, Reject(r) PROVE FlightInv'
  BY <1>6, Zenon DEF Reject
<1>7. CASE UNCHANGED vars
  BY <1>7, Zenon
<1> QED BY <1>1, <1>2, <1>3, <1>4, <1>5, <1>6, <1>7 DEF Next

\* The engine of a quiet host keeps the inductive invariant.
LEMMA QuietInvariant == Spec => [](Quiet => FlightInv)
<1>1. Init => FlightInv
  BY Zenon DEF Init, FlightInv, Active, PastSnapshot
<1>2. TypeOK /\ (Quiet => FlightInv) /\ [Next]_vars => (Quiet => FlightInv)'
  BY FlightPreserved, HostFixed, Zenon DEF Quiet
<1> QED BY <1>1, <1>2, TypeCorrect, PTL DEF Spec

\* sync() is single-flight for any number of host calls, timer firings and
\* failures, as long as no status callback calls sync() synchronously.
THEOREM EngineIsSingleFlight == Spec => []SingleFlight
<1>1. (Quiet => FlightInv) => SingleFlight
  BY Zenon DEF FlightInv, SingleFlight, AlwaysSingleFlight, Active
<1> QED BY <1>1, QuietInvariant, PTL

\* An engine that rests as "synced" has covered every request it accepted.
THEOREM EngineRestsServed == Spec => []RestMeansServed
<1>1. TypeOK /\ (Quiet => FlightInv) => RestMeansServed
  BY Zenon DEF FlightInv, RestMeansServed
<1> QED BY <1>1, QuietInvariant, TypeCorrect, PTL

\* After stop() no step begins a push, the closing pull or a durable stamp,
\* reports a status or arms a retry.
THEOREM EngineStopsForGood == Spec => StopIsFinal
<1> DEFINE Final ==
      Quiet /\ stopped =>
        /\ \A r \in RunId :
             pc'[r] \in {"getDirty", "pull", "stampMigrated",
                         "stampLastSynced"} => pc'[r] = pc[r]
        /\ status' = "idle" /\ ~retryArmed'
<1>1. TypeOK /\ (Quiet => FlightInv) /\ [Next]_vars => Final
  <2> SUFFICES ASSUME TypeOK, FlightInv, [Next]_vars, stopped
               PROVE  /\ \A r \in RunId :
                           pc'[r] \in {"getDirty", "pull", "stampMigrated",
                                       "stampLastSynced"} => pc'[r] = pc[r]
                      /\ status' = "idle" /\ ~retryArmed'
    OBVIOUS
  <2> USE DEF TypeOK, FlagsOK, RunsOK, FlightInv, Active
  <2> USE DEF vars, runFlags, retry, memo, milestone, environment
  <2>1. CASE Sync \/ RetryFires \/ InvalidateProvisioning \/ Stop
    BY <2>1 DEF Sync, RetryFires, InvalidateProvisioning, Stop
  <2>2. ASSUME NEW r \in RunId, RunStep(r) \/ Reject(r)
        PROVE  /\ \A s \in RunId :
                    pc'[s] \in {"getDirty", "pull", "stampMigrated",
                                "stampLastSynced"} => pc'[s] = pc[s]
               /\ status' = "idle" /\ ~retryArmed'
    <3>1. Active(r)
      BY <2>2, Zenon DEF RunStep, CycleAgain, Settle, Fail, Provisioned,
         Reminted, IsMigrated, FirstPulled, Swept, StampedMigrated, DirtyRead,
         Pushed, Pulled, StampedLastSynced, Goto, Reject, Awaiting
    <3>2. aborted[r] /\ status = "idle" /\ ~retryArmed
      BY <3>1, Zenon
    <3>3. ASSUME NEW ph \in Phase, pc' = [pc EXCEPT ![r] = ph],
                 ph \notin {"getDirty", "pull", "stampMigrated",
                            "stampLastSynced"}
          PROVE  \A s \in RunId :
                    pc'[s] \in {"getDirty", "pull", "stampMigrated",
                                "stampLastSynced"} => pc'[s] = pc[s]
      BY <3>3
    <3>4. UNCHANGED <<status, retryArmed>>
      BY <2>2, <3>2, Zenon DEF RunStep, CycleAgain, Settle, Fail, Provisioned,
         Reminted, IsMigrated, FirstPulled, Swept, StampedMigrated, DirtyRead,
         Pushed, Pulled, StampedLastSynced, Goto, Reject
    <3>5. \E ph \in {"none", "cycleDone", "cycleFailed", "firstPull",
                     "runLazyMigration", "runPush"} :
              pc' = [pc EXCEPT ![r] = ph]
      <4>1. CASE CycleAgain(r) \/ Settle(r) \/ Fail(r) \/ Reject(r)
        BY <4>1, <3>2, Zenon DEF CycleAgain, Settle, Fail, Finally, Reject
      <4>2. CASE Provisioned(r) \/ Reminted(r) \/ FirstPulled(r) \/ Swept(r)
        <5>1. pc' = [pc EXCEPT ![r] = "cycleDone"]
          BY <4>2, <3>2, Zenon
             DEF Provisioned, Reminted, FirstPulled, Swept, Goto
        <5> QED BY <5>1, Zenon
      <4>3. CASE IsMigrated(r)
        BY <4>3, Zenon DEF IsMigrated
      <4>4. CASE DirtyRead(r) \/ StampedLastSynced(r)
        BY <4>4, Zenon DEF DirtyRead, StampedLastSynced
      <4>5. CASE StampedMigrated(r) \/ Pushed(r) \/ Pulled(r)
        <5>1. pc' = [pc EXCEPT ![r] = "cycleDone"]
          BY <4>5, <3>2, Zenon DEF StampedMigrated, Pushed, Pulled, Goto
        <5> QED BY <5>1, Zenon
      <4> QED BY <2>2, <4>1, <4>2, <4>3, <4>4, <4>5, Zenon DEF RunStep
    <3>6. \A s \in RunId :
             pc'[s] \in {"getDirty", "pull", "stampMigrated",
                         "stampLastSynced"} => pc'[s] = pc[s]
      BY <3>3, <3>5 DEF Phase, Awaiting
    <3> QED BY <3>2, <3>4, <3>6, Zenon
  <2>3. CASE UNCHANGED vars
    BY <2>3, Zenon
  <2> QED BY <2>1, <2>2, <2>3, Zenon DEF Next
<1> QED BY <1>1, QuietInvariant, TypeCorrect, PTL DEF Spec, StopIsFinal

\* The engine implements the contract of sync(): every step of the engine,
\* its timer or its host is a step of SyncContract or leaves the contract's
\* view of the engine alone.
THEOREM EngineImplementsContract == Spec => ImplementsContract
<1>1. Init => Contract!Init
  BY Zenon DEF Init, Contract!Init
<1>2. [Next]_vars /\ ~Quiet => [Contract!Next]_(Contract!vars)
  BY HostFixed, Zenon DEF Quiet, Contract!vars
<1>3. TypeOK /\ Quiet /\ FlightInv /\ [Next]_vars
        => [Contract!Next]_(Contract!vars)
  <2> SUFFICES ASSUME TypeOK, Quiet, FlightInv, [Next]_vars
               PROVE  [Contract!Next]_(Contract!vars)
    OBVIOUS
  <2>i. Quiet'
    BY HostFixed, Zenon DEF Quiet
  <2> USE <2>i
  <2> USE DEF vars, runFlags, retry, memo, milestone, environment
  <2> USE DEF Contract!Next, Contract!vars
  <2>q. reenterOn = "never"
    BY DEF Quiet
  <2>1. CASE Sync
    <3>1. ~stopped /\ unserved' = TRUE /\ stopped' = stopped
      BY <2>1, Zenon DEF Sync
    <3>2. running'
      <4>1. CASE InFlight /\ Coalesce(retryArmed)
        BY <4>1 DEF InFlight, Coalesce
      <4>2. CASE \E r \in RunId : Run(r)
        BY <4>2, Zenon DEF Run
      <4> QED BY <2>1, <2>q, <4>1, <4>2, Zenon DEF Sync, StartOrCoalesce
    <3> QED BY <3>1, <3>2, Zenon DEF Contract!Request
  <2>2. CASE RetryFires
    <3>1. ~stopped /\ UNCHANGED <<unserved, stopped>> /\ retryArmed /\ ~running
      BY <2>2, Zenon DEF RetryFires, FlightInv
    <3>2. running'
      <4>1. CASE InFlight /\ Coalesce(FALSE)
        BY <4>1 DEF InFlight, Coalesce
      <4>2. CASE \E r \in RunId : Run(r)
        BY <4>2, Zenon DEF Run
      <4> QED BY <2>2, <2>q, <4>1, <4>2, Zenon DEF RetryFires, StartOrCoalesce
    <3> QED BY <3>1, <3>2, Zenon DEF Contract!Retry
  <2>3. CASE InvalidateProvisioning \/ UNCHANGED vars
    <3>1. UNCHANGED <<unserved, stopped, running, retryArmed>>
      BY <2>3, Zenon DEF InvalidateProvisioning
    <3> QED BY <3>1
  <2>4. CASE Stop
    BY <2>4, Zenon DEF Stop, Contract!Stop
  <2>5. ASSUME NEW r \in RunId, RunStep(r) \/ Reject(r)
        PROVE  [Contract!Next]_(Contract!vars)
    <3>1. Active(r) /\ running /\ (aborted[r] <=> stopped)
      BY <2>5, Zenon DEF RunStep, CycleAgain, Settle, Fail, Provisioned,
         Reminted, IsMigrated, FirstPulled, Swept, StampedMigrated, DirtyRead,
         Pushed, Pulled, StampedLastSynced, Goto, Reject, Awaiting,
         FlightInv, Active
    <3>2. CASE Settle(r)
      <4>1. ~stopped => ~unserved
        BY <3>2, <3>1, Zenon DEF Settle, FlightInv, PastSnapshot
      <4>2. ~running' /\ UNCHANGED <<stopped, retryArmed, unserved>>
        BY <3>2, <2>q, Zenon DEF Settle, Finally
      <4>3. ~retryArmed
        BY <3>1, Zenon DEF FlightInv
      <4> QED BY <3>1, <4>1, <4>2, <4>3, Zenon DEF Contract!Settle
    <3>3. CASE Fail(r)
      <4>1. /\ ~running' /\ UNCHANGED <<stopped, unserved>>
            /\ ~stopped => retryArmed'
        BY <3>3, <3>1, Zenon DEF Fail, Finally
      <4> QED BY <3>1, <4>1, Zenon DEF Contract!BackOff
    <3>4. CASE DirtyRead(r)
      BY <3>4, <3>1, Zenon DEF DirtyRead, Contract!Serve, Contract!Drain
    <3>5. CASE ~(Settle(r) \/ Fail(r) \/ DirtyRead(r))
      <4>1. UNCHANGED <<unserved, stopped, running, retryArmed>>
        BY <2>5, <3>5, Zenon DEF RunStep, CycleAgain, Provisioned, Reminted,
           IsMigrated, FirstPulled, Swept, StampedMigrated, Pushed, Pulled,
           StampedLastSynced, Goto, Reject
      <4> QED BY <4>1
    <3> QED BY <3>2, <3>3, <3>4, <3>5, Zenon
  <2> QED BY <2>1, <2>2, <2>3, <2>4, <2>5, Zenon DEF Next
<1> QED BY <1>1, <1>2, <1>3, QuietInvariant, TypeCorrect, PTL
        DEF Spec, ImplementsContract, Contract!Spec
=============================================================================

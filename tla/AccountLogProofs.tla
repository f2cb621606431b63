-------------------------- MODULE AccountLogProofs --------------------------
(***************************************************************************)
(* Proofs about AccountLog, for any set of clients and any bounds.         *)
(***************************************************************************)
EXTENDS AccountLog, TLAPS, WellFoundedInduction

\* The head of a published log is an entry.
LEMMA HeadTyped ==
    ASSUME NEW l \in Seq(Entry), l # <<>>
    PROVE  Head_(l) \in Entry
  BY DEF Head_

\* updateDID hands its entry on, or throws.
LEMMA UpdateTyped ==
    ASSUME NEW l \in Seq(Entry), NEW e \in Entry
    PROVE  UpdateDID(l, e) = Throw \/ UpdateDID(l, e) = Plan("put", e)
  BY DEF UpdateDID

\* signAccountEntry hands its entry on, or throws.
LEMMA SignTyped ==
    ASSUME NEW l \in Seq(Entry), NEW k, NEW e \in Entry
    PROVE  SignAccountEntry(l, k, e) \in {Throw, Plan("put", e)}
  BY UpdateTyped DEF SignAccountEntry

\* What a ceremony may make of a log: a stage it can go to, with an entry
\* wherever that stage publishes one.
PlanOK(l, j, p) ==
    \/ p = Throw \/ p = Conclude
    \/ \E e \in Entry : p = Plan("put", e)
    \/ p = Plan("persist", NoEntry) /\ l # <<>>
    \/ p = Plan("rollForward", NoEntry) /\ j.opts.pending \in Key

\* Every ceremony plans within those alternatives, whatever log it read.
LEMMA PlanTyped ==
    ASSUME NEW l \in Seq(Entry), NEW c \in Client, NEW j \in Job,
           j.opts \in Seeds, j.keys \in Seeds, j.target \in Client
    PROVE  PlanOK(l, j, PlanOf(l, c, j))
<1>1. CASE j.op = "ensure"
  <2> DEFINE e == [ukeys |-> {j.opts.update},
                   hashes |-> {j.opts.update, j.opts.staged},
                   vms |-> {c}, by |-> c]
  <2>1. e \in Entry
    BY DEF Entry, Seeds
  <2>2. PlanOf(l, c, j) = EnsureDidWebvh(l, c, j)
    BY <1>1 DEF PlanOf
  <2>3. PlanOf(l, c, j) \in {Throw, Conclude, Plan("put", e)}
    BY <2>2 DEF EnsureDidWebvh
  <2> QED
    BY <2>1, <2>3 DEF PlanOK
<1>2. CASE j.op = "rotate"
  <2>1. PlanOf(l, c, j) = RotateWebvhUpdateKey(l, c, j)
    BY <1>2 DEF PlanOf
  <2> QED
    BY <2>1 DEF RotateWebvhUpdateKey, PlanOK, Seeds
<1>3. CASE j.op = "enroll"
  <2>1. PlanOf(l, c, j) = EnrollWebvhClient(l, c, j)
    BY <1>3 DEF PlanOf
  <2>2. CASE l = <<>>
    BY <2>1, <2>2 DEF EnrollWebvhClient, PlanOK
  <2>3. CASE l # <<>>
    <3> DEFINE h == Head_(l)
               new == {j.keys.update, j.keys.staged}
               commit == [h EXCEPT !.hashes = @ \cup new, !.by = c]
               add == [h EXCEPT !.ukeys = @ \cup {j.keys.update},
                                !.vms = @ \cup {j.target}, !.by = c]
    <3>1. h \in Entry
      BY <2>3, HeadTyped
    <3>2. commit \in Entry /\ add \in Entry
      BY <3>1 DEF Entry, Seeds
    <3>3. PlanOf(l, c, j) \in {Conclude, SignAccountEntry(l, j.opts.update, add),
                               SignAccountEntry(l, j.opts.update, commit)}
      BY <2>1, <2>3 DEF EnrollWebvhClient
    <3> QED
      BY <3>2, <3>3, SignTyped DEF PlanOK
  <2> QED
    BY <2>2, <2>3
<1>4. CASE j.op = "revoke"
  <2>1. PlanOf(l, c, j) = RevokeWebvhClient(l, c, j)
    BY <1>4 DEF PlanOf
  <2>2. CASE l = <<>>
    BY <2>1, <2>2 DEF RevokeWebvhClient, PlanOK
  <2>3. CASE l # <<>>
    <3> DEFINE key == CurrentRevokedUpdateKey(l, j.target, j.keys.update)
               e == RemovalEntry(l, c, j.target, key)
    <3>1. Head_(l) \in Entry
      BY <2>3, HeadTyped
    <3>2. e \in Entry
      BY <3>1 DEF RemovalEntry, Entry
    <3>3. PlanOf(l, c, j) \in {Throw, Conclude,
                               SignAccountEntry(l, j.opts.update, e)}
      BY <2>1, <2>3 DEF RevokeWebvhClient
    <3> QED
      BY <3>2, <3>3, SignTyped DEF PlanOK
  <2> QED
    BY <2>2, <2>3
<1> QED
  BY <1>1, <1>2, <1>3, <1>4 DEF Job, Op

-----------------------------------------------------------------------------
\* A fresh seed is a key of its client.
LEMMA FreshTyped ==
    ASSUME SeedsOK, NEW c \in Client
    PROVE  Fresh(c) \in Key /\ <<c, minted[c]>> \in Key /\ minted[c] + 1 \in Nat \ {0}
  BY DEF SeedsOK, Fresh, Key

\* A client is minted with seeds: two keys of its own, and no third.
LEMMA MintedTyped ==
    ASSUME NEW c \in Client
    PROVE  /\ First(c) \in Key /\ Second(c) \in Key /\ First(c) # Second(c)
           /\ Owner(First(c)) = c /\ Owner(Second(c)) = c
           /\ MintedSeeds(c) \in Seeds
  BY DEF First, Second, MintedSeeds, Seeds, Key, Owner

\* Ending a ceremony keeps the types of what it held.
LEMMA EndTyped ==
    ASSUME TypeOK, NEW c \in Client, End(c)
    PROVE  JobsOK' /\ seen' \in [Client -> Seq(Entry)]
           /\ draft' \in [Client -> Entry \cup {NoEntry}]
<1>1. Idle \in Job
  BY BoundAssumption DEF Idle, Job, Stage, Op, BoundAssumption
<1>2. job' \in [Client -> Job] /\ seen' \in [Client -> Seq(Entry)]
      /\ draft' \in [Client -> Entry \cup {NoEntry}]
  BY <1>1 DEF End, TypeOK, LogsOK, JobsOK
<1>3. ASSUME NEW d \in Client, d # c
      PROVE  job'[d] = job[d] /\ seen'[d] = seen[d] /\ draft'[d] = draft[d]
  BY <1>3 DEF End, TypeOK, LogsOK, JobsOK
<1>4. job'[c].stage = "idle"
  BY DEF End, TypeOK, JobsOK, Idle
<1> QED
  BY SMTT(20), <1>2, <1>3, <1>4 DEF TypeOK, JobsOK

\* Moving one ceremony to another stage keeps its job well typed.
LEMMA GotoTyped ==
    ASSUME TypeOK, NEW c \in Client, NEW stage \in Stage, Goto(c, stage)
    PROVE  /\ job' \in [Client -> Job]
           /\ job'[c] = [job[c] EXCEPT !.stage = stage]
           /\ job'[c].stage = stage /\ job'[c].opts = job[c].opts
           /\ job'[c].keys = job[c].keys /\ job'[c].target = job[c].target
           /\ \A d \in Client : d # c => job'[d] = job[d]
<1>1. job \in [Client -> Job] /\ job[c] \in Job
  BY DEF TypeOK, JobsOK
<1>2. [job[c] EXCEPT !.stage = stage] \in Job
  BY <1>1 DEF Job
<1> QED
  BY <1>1, <1>2 DEF Goto, Job

\* Starting a ceremony keeps every type.
LEMMA StartTyped ==
    ASSUME TypeOK, NEW c \in Client, NEW op \in Op, NEW t \in Client,
           NEW k \in Seeds, Start(c, op, t, k)
    PROVE  LogsOK' /\ SeedsOK' /\ JobsOK'
<1> DEFINE j == [stage |-> "read", op |-> op, step |-> "commit",
                 target |-> t, keys |-> k, opts |-> seeds[c], attempt |-> 1]
<1>1. j \in Job /\ seeds[c] \in Seeds
  BY BoundAssumption DEF BoundAssumption, Job, Stage, TypeOK, SeedsOK
<1>2. job' = [job EXCEPT ![c] = j] /\ UNCHANGED <<seen, draft>>
  BY DEF Start
<1>3. JobsOK'
  BY <1>1, <1>2 DEF TypeOK, JobsOK
<1> QED
  BY <1>3 DEF Start, TypeOK, LogsOK, SeedsOK

\* TypeOK is kept by every step.
LEMMA TypeStep == TypeOK /\ [Next]_vars => TypeOK'
<1> SUFFICES ASSUME TypeOK, [Next]_vars PROVE TypeOK'
  OBVIOUS
<1> USE DEF counters
<1>1. ASSUME NEW c \in Client, HostCalls(c) PROVE TypeOK'
  <2>0. seeds[c] \in Seeds /\ \A t \in Client : seeds[t] \in Seeds
    BY DEF TypeOK, SeedsOK
  <2>1. CASE StartEnsure(c)
    BY <2>0, <2>1, StartTyped DEF StartEnsure, Op, TypeOK, CountersOK, Start
  <2>2. CASE StartRotate(c)
    <3>1. LogsOK' /\ SeedsOK' /\ JobsOK'
      BY <2>0, <2>2, StartTyped DEF StartRotate, Op
    <3>2. CountersOK'
      BY <2>2, BoundAssumption DEF StartRotate, Counted, Start, TypeOK,
         CountersOK, BoundAssumption
    <3> QED
      BY <3>1, <3>2 DEF TypeOK
  <2>3. ASSUME NEW t \in Client, StartEnroll(c, t) PROVE TypeOK'
    <3>1. LogsOK' /\ SeedsOK' /\ JobsOK'
      BY <2>3, MintedTyped, StartTyped DEF StartEnroll, Op
    <3>2. CountersOK'
      BY <2>3, BoundAssumption DEF StartEnroll, Counted, Start, TypeOK,
         CountersOK, BoundAssumption
    <3> QED
      BY <3>1, <3>2 DEF TypeOK
  <2>4. ASSUME NEW t \in Client, StartRevoke(c, t) PROVE TypeOK'
    <3> DEFINE listed == AttributeClientUpdateKey(log, t)
               key == IF t \in Enrolled(log) /\ listed \in Key THEN listed
                      ELSE First(t)
               k == [MintedSeeds(t) EXCEPT !.update = key]
    <3>0. First(t) \in Key /\ MintedSeeds(t) \in Seeds
      BY MintedTyped
    <3>1. key \in Key
      BY <3>0
    <3>2. k \in Seeds
      <4> HIDE DEF key
      <4> QED
        BY <3>0, <3>1 DEF Seeds
    <3>3. Start(c, "revoke", t, k)
      BY <2>4 DEF StartRevoke
    <3>4. LogsOK' /\ SeedsOK' /\ JobsOK'
      <4> HIDE DEF k
      <4> QED
        BY <3>2, <3>3, StartTyped DEF Op
    <3>5. CountersOK'
      BY <2>4, BoundAssumption DEF StartRevoke, Counted, Start, TypeOK,
         CountersOK, BoundAssumption
    <3> QED
      BY <3>4, <3>5 DEF TypeOK
  <2> QED
    BY <1>1, <2>1, <2>2, <2>3, <2>4 DEF HostCalls
<1>2. ASSUME NEW c \in Client, ReadPublishedLog(c) PROVE TypeOK'
  <2> DEFINE plan == PlanOf(log, c, job[c])
  <2>0. log \in Seq(Entry) /\ job[c] \in Job /\ job[c].opts \in Seeds
        /\ job[c].keys \in Seeds /\ job[c].target \in Client
    BY <1>2 DEF ReadPublishedLog, TypeOK, LogsOK, JobsOK
  <2>1. PlanOK(log, job[c], plan)
    BY <2>0, PlanTyped
  <2>2. CASE End(c)
    BY <1>2, <2>2, EndTyped DEF ReadPublishedLog, TypeOK, LogsOK, SeedsOK,
       CountersOK
  <2>3. CASE ~End(c)
    <3>1. /\ Goto(c, plan.stage) /\ pin' = [pin EXCEPT ![c] = log]
          /\ seen' = [seen EXCEPT ![c] = log]
          /\ draft' = [draft EXCEPT ![c] = plan.draft]
          /\ UNCHANGED <<log, didJson, seeds, minted, wire, counters>>
      BY <1>2, <2>3, Zenon DEF ReadPublishedLog
    <3> HIDE DEF plan
    <3>2. /\ plan.stage \in Stage /\ plan.draft \in Entry \cup {NoEntry}
          /\ plan.stage \in {"put", "sent", "acked"} => plan.draft \in Entry
          /\ plan.stage = "persist" => log # <<>>
          /\ plan.stage = "rollForward" => job[c].opts.pending \in Key
      BY <2>1 DEF PlanOK, Plan, Throw, Conclude, Stage
    <3>3. LogsOK' /\ SeedsOK' /\ CountersOK'
      BY <2>0, <3>1, <3>2 DEF TypeOK, LogsOK, SeedsOK, CountersOK
    <3>4. /\ job' \in [Client -> Job] /\ job'[c].stage = plan.stage
          /\ job'[c].opts = job[c].opts /\ job'[c].keys = job[c].keys
          /\ job'[c].target = job[c].target
          /\ \A d \in Client : d # c => job'[d] = job[d]
      BY <3>1, <3>2, GotoTyped
    <3>5. /\ seen'[c] = log /\ draft'[c] = plan.draft
          /\ \A d \in Client : d # c => seen'[d] = seen[d] /\ draft'[d] = draft[d]
      BY <3>1 DEF TypeOK, LogsOK
    <3>6. JobsOK'
      BY <2>0, <3>2, <3>4, <3>5 DEF TypeOK, JobsOK
    <3> QED
      BY <3>3, <3>6 DEF TypeOK
  <2> QED
    BY <2>2, <2>3
<1>3. ASSUME NEW c \in Client, PersistPending(c) PROVE TypeOK'
  <2> DEFINE e == RotationEntry(seen[c], c, job[c].opts, Fresh(c))
             plan == UpdateDID(seen[c], e)
             s == [job[c].opts EXCEPT !.pending = Fresh(c)]
  <2>0. /\ seen[c] \in Seq(Entry) /\ seen[c] # <<>> /\ job[c].opts \in Seeds
        /\ Fresh(c) \in Key /\ minted[c] + 1 \in Nat \ {0}
    BY <1>3, FreshTyped DEF PersistPending, TypeOK, LogsOK, JobsOK
  <2>1. e \in Entry
    BY <2>0, HeadTyped DEF RotationEntry, Entry, Seeds
  <2>2. plan = Throw \/ plan = Plan("put", e)
    BY <2>0, <2>1, UpdateTyped
  <2>3. s \in Seeds
    BY <2>0 DEF Seeds
  <2>4. SeedsOK'
    BY <1>3, <2>0, <2>3 DEF PersistPending, TypeOK, SeedsOK
  <2>5. CASE End(c)
    BY <1>3, <2>4, <2>5, EndTyped DEF PersistPending, TypeOK, LogsOK, CountersOK
  <2>6. CASE ~End(c)
    <3>1. /\ Goto(c, plan.stage) /\ draft' = [draft EXCEPT ![c] = plan.draft]
          /\ UNCHANGED seen /\ plan.stage # "idle"
          /\ UNCHANGED <<log, didJson, pin, wire, counters>>
      BY <1>3, <2>6, Zenon DEF PersistPending
    <3>2. plan.stage = "put" /\ plan.draft = e
      BY <2>2, <3>1 DEF Plan, Throw
    <3> HIDE DEF plan, e
    <3>3. LogsOK' /\ CountersOK'
      BY <2>1, <3>1, <3>2 DEF TypeOK, LogsOK, CountersOK
    <3>4. /\ job' \in [Client -> Job] /\ job'[c].stage = "put"
          /\ job'[c].opts = job[c].opts /\ job'[c].keys = job[c].keys
          /\ job'[c].target = job[c].target
          /\ \A d \in Client : d # c => job'[d] = job[d]
      BY <3>1, <3>2, GotoTyped DEF Stage
    <3>5. /\ draft'[c] = e
          /\ \A d \in Client : d # c => draft'[d] = draft[d]
      BY <3>1, <3>2 DEF TypeOK, LogsOK
    <3>6. job[c].stage = "persist"
      BY <1>3 DEF PersistPending
    <3>7. JobsOK'
      BY <2>1, <3>1, <3>4, <3>5, <3>6 DEF TypeOK, JobsOK
    <3> QED
      BY <2>4, <3>3, <3>7 DEF TypeOK
  <2> QED
    BY <2>5, <2>6
<1>4. ASSUME NEW c \in Client, PutLogResource(c) PROVE TypeOK'
  <2>1. draft[c] \in Entry /\ seen[c] \in Seq(Entry)
    BY <1>4 DEF PutLogResource, TypeOK, LogsOK, JobsOK
  <2>2. LogsOK' /\ SeedsOK' /\ CountersOK'
    BY <1>4, <2>1 DEF PutLogResource, TypeOK, LogsOK, SeedsOK, CountersOK, Request
  <2>3. /\ job' \in [Client -> Job] /\ job'[c].stage = "sent"
        /\ job'[c].opts = job[c].opts /\ job'[c].keys = job[c].keys
        /\ job'[c].target = job[c].target
        /\ \A d \in Client : d # c => job'[d] = job[d]
    BY <1>4, GotoTyped DEF PutLogResource, Stage
  <2>4. JobsOK'
    BY <1>4, <2>1, <2>3 DEF PutLogResource, TypeOK, JobsOK
  <2> QED
    BY <2>2, <2>4 DEF TypeOK
<1>5. ASSUME NEW c \in Client, Acked(c) PROVE TypeOK'
  <2>1. draft[c] \in Entry /\ seen[c] \in Seq(Entry)
    BY <1>5 DEF Acked, TypeOK, LogsOK, JobsOK
  <2>2. LogsOK' /\ SeedsOK' /\ CountersOK'
    BY <1>5, <2>1 DEF Acked, TypeOK, LogsOK, SeedsOK, CountersOK
  <2>3. /\ job' \in [Client -> Job] /\ job'[c].stage = "project"
        /\ job'[c].opts = job[c].opts /\ job'[c].keys = job[c].keys
        /\ job'[c].target = job[c].target
        /\ \A d \in Client : d # c => job'[d] = job[d]
    BY <1>5, GotoTyped DEF Acked, Stage
  <2>4. JobsOK'
    BY <1>5, <2>3 DEF Acked, TypeOK, JobsOK
  <2> QED
    BY <2>2, <2>4 DEF TypeOK
<1>6. ASSUME NEW c \in Client, Conflict(c) PROVE TypeOK'
  <2>1. CASE End(c)
    BY <1>6, <2>1, EndTyped DEF Conflict, TypeOK, LogsOK, SeedsOK, CountersOK
  <2>2. CASE ~End(c)
    <3>1. /\ ~(job[c].attempt >= Attempts)
          /\ job' = [job EXCEPT ![c] = [@ EXCEPT !.stage = "read",
                                 !.step = "commit", !.attempt = job[c].attempt + 1]]
          /\ seen' = [seen EXCEPT ![c] = <<>>]
          /\ draft' = [draft EXCEPT ![c] = NoEntry]
          /\ UNCHANGED <<log, didJson, seeds, minted, pin, wire, counters>>
      BY <1>6, <2>2, Zenon DEF Conflict
    <3>2. job \in [Client -> Job] /\ job[c].opts \in Seeds /\ job[c].keys \in Seeds
          /\ job[c].target \in Client
      BY <1>6 DEF Conflict, TypeOK, JobsOK
    <3>3. job[c].attempt + 1 \in 0..Attempts
      BY <3>1, <3>2, BoundAssumption DEF Job, BoundAssumption
    <3>4. /\ job' \in [Client -> Job] /\ job'[c].stage = "read"
          /\ job'[c].opts = job[c].opts /\ job'[c].keys = job[c].keys
          /\ job'[c].target = job[c].target
          /\ \A d \in Client : d # c => job'[d] = job[d]
      <4>1. /\ job[c] \in [stage : Stage, op : Op, step : {"commit", "add"},
                   target : Client \cup {"none"}, keys : Seeds \cup {<<>>},
                   opts : Seeds \cup {<<>>}, attempt : 0..Attempts]
            /\ "read" \in Stage
        BY <3>2 DEF Job, Stage
      <4>2. [job[c] EXCEPT !.stage = "read", !.step = "commit",
                           !.attempt = job[c].attempt + 1] \in Job
        BY <3>3, <4>1 DEF Job
      <4>3. job' \in [Client -> Job]
        BY <3>1, <3>2, <4>2
      <4>4. job'[c] = [job[c] EXCEPT !.stage = "read", !.step = "commit",
                           !.attempt = job[c].attempt + 1]
            /\ \A d \in Client : d # c => job'[d] = job[d]
        BY <3>1, <3>2
      <4>5. /\ job'[c].stage = "read"
            /\ job'[c].opts = job[c].opts /\ job'[c].keys = job[c].keys
            /\ job'[c].target = job[c].target
        BY <4>1, <4>4
      <4> QED
        BY <4>3, <4>4, <4>5
    <3>5. LogsOK' /\ SeedsOK' /\ CountersOK'
      BY <3>1 DEF TypeOK, LogsOK, SeedsOK, CountersOK
    <3>6. JobsOK'
      BY <3>1, <3>2, <3>4 DEF TypeOK, JobsOK, LogsOK
    <3> QED
      BY <3>5, <3>6 DEF TypeOK
  <2> QED
    BY <2>1, <2>2
<1>7. ASSUME NEW c \in Client, RollForward(c) PROVE TypeOK'
  <2>1. job[c].opts \in Seeds /\ job[c].opts.pending \in Key
    BY <1>7 DEF RollForward, TypeOK, JobsOK
  <2>2. LogsOK' /\ SeedsOK' /\ CountersOK'
    BY <1>7, <2>1 DEF RollForward, TypeOK, LogsOK, SeedsOK, CountersOK, Seeds
  <2>3. /\ job' \in [Client -> Job] /\ job'[c].stage = "project"
        /\ job'[c].opts = job[c].opts /\ job'[c].keys = job[c].keys
        /\ job'[c].target = job[c].target
        /\ \A d \in Client : d # c => job'[d] = job[d]
    BY <1>7, GotoTyped DEF RollForward, Stage
  <2>4. JobsOK'
    BY <1>7, <2>3 DEF RollForward, TypeOK, JobsOK
  <2> QED
    BY <2>2, <2>4 DEF TypeOK
<1>8. ASSUME NEW c \in Client, PutDidWebProjection(c) PROVE TypeOK'
  <2>1. /\ job[c].stage = "project"
        /\ didJson' = IF draft[c] = NoEntry THEN Enrolled(seen[c]) ELSE draft[c].vms
        /\ UNCHANGED <<log, seeds, minted, pin, wire, counters>>
    BY <1>8 DEF PutDidWebProjection
  <2>2. didJson' \subseteq Client
    BY <2>1, HeadTyped DEF TypeOK, LogsOK, Enrolled, Entry
  <2>3. CASE End(c)
    BY <2>1, <2>2, <2>3, EndTyped DEF TypeOK, LogsOK, SeedsOK, CountersOK
  <2>4. CASE Goto(c, "finalize") /\ UNCHANGED <<seen, draft>>
    <3>1. /\ job' \in [Client -> Job] /\ job'[c].stage = "finalize"
          /\ job'[c].opts = job[c].opts /\ job'[c].keys = job[c].keys
          /\ job'[c].target = job[c].target
          /\ \A d \in Client : d # c => job'[d] = job[d]
      BY <2>4, GotoTyped DEF Stage
    <3>2. JobsOK'
      BY <2>1, <2>4, <3>1 DEF TypeOK, JobsOK
    <3> QED
      BY <2>1, <2>2, <2>4, <3>2 DEF TypeOK, LogsOK, SeedsOK, CountersOK
  <2> DEFINE j == [job[c] EXCEPT !.stage = "read", !.step = "add"]
  <2>5. CASE /\ job' = [job EXCEPT ![c] = j]
             /\ seen' = [seen EXCEPT ![c] = <<>>]
             /\ draft' = [draft EXCEPT ![c] = NoEntry]
    <3>1. job[c] \in Job /\ job[c].opts \in Seeds /\ job[c].keys \in Seeds
          /\ job[c].target \in Client
      BY <2>1 DEF TypeOK, JobsOK
    <3>2. j \in Job /\ j.stage = "read" /\ j.opts = job[c].opts
          /\ j.keys = job[c].keys /\ j.target = job[c].target
      BY <3>1 DEF Job, Stage
    <3> HIDE DEF j
    <3>3. LogsOK' /\ SeedsOK' /\ CountersOK'
      BY <2>1, <2>2, <2>5 DEF TypeOK, LogsOK, SeedsOK, CountersOK
    <3>4. JobsOK'
      BY <2>5, <3>1, <3>2 DEF TypeOK, JobsOK, LogsOK
    <3> QED
      BY <3>3, <3>4 DEF TypeOK
  <2> QED
    BY <1>8, <2>3, <2>4, <2>5 DEF PutDidWebProjection
<1>9. ASSUME NEW c \in Client, Finalize(c) PROVE TypeOK'
  <2>1. job[c].opts \in Seeds /\ <<c, minted[c]>> \in Key
    BY <1>9, FreshTyped DEF Finalize, TypeOK, JobsOK
  <2>2. SeedsOK'
    BY <1>9, <2>1 DEF Finalize, TypeOK, SeedsOK, Seeds
  <2> QED
    BY <1>9, <2>2, EndTyped DEF Finalize, TypeOK, LogsOK, CountersOK
<1>10. ASSUME NEW c \in Client, CutShort(c) PROVE TypeOK'
  <2>1. CountersOK'
    BY <1>10, BoundAssumption DEF CutShort, TypeOK, CountersOK, BoundAssumption
  <2>2. JobsOK' /\ SeedsOK' /\ LogsOK'
    BY <1>10, EndTyped DEF CutShort, TypeOK, LogsOK, SeedsOK
  <2> QED
    BY <2>1, <2>2 DEF TypeOK
<1>11. ASSUME NEW m \in wire, Land(m) PROVE TypeOK'
  <2>1. m \in Request /\ m.by \in Client /\ m.base \in Seq(Entry) /\ m.entry \in Entry
    BY DEF TypeOK, LogsOK, Request
  <2>2. LogsOK' /\ SeedsOK' /\ CountersOK'
    BY <1>11, <2>1 DEF Land, TypeOK, LogsOK, SeedsOK, CountersOK
  <2>3. CASE ~Waiting(m)
    BY <1>11, <2>2, <2>3 DEF Land, TypeOK, JobsOK
  <2>4. CASE Waiting(m)
    <3> DEFINE stage == IF Accepts(m) THEN "acked" ELSE "conflict"
    <3>1. Goto(m.by, stage) /\ UNCHANGED <<seen, draft>>
      BY <1>11, <2>4 DEF Land, Goto
    <3>2. stage \in Stage /\ draft[m.by] \in Entry /\ job[m.by].stage = "sent"
          /\ stage \in {"acked", "conflict"}
      BY <2>1, <2>4 DEF Stage, Waiting
    <3> HIDE DEF stage
    <3>3. /\ job' \in [Client -> Job] /\ job'[m.by].stage = stage
          /\ job'[m.by].opts = job[m.by].opts /\ job'[m.by].keys = job[m.by].keys
          /\ job'[m.by].target = job[m.by].target
          /\ \A d \in Client : d # m.by => job'[d] = job[d]
      BY <2>1, <3>1, <3>2, GotoTyped
    <3>4. JobsOK'
      BY <2>1, <3>1, <3>2, <3>3 DEF TypeOK, JobsOK
    <3> QED
      BY <2>2, <3>4 DEF TypeOK
  <2> QED
    BY <2>3, <2>4
<1>12. CASE HostRollsBack
  <2>1. PICK n \in 0..(Len(log) - 1) : log' = SubSeq(log, 1, n)
    BY <1>12 DEF HostRollsBack
  <2>2. log' \in Seq(Entry)
    BY <2>1 DEF TypeOK, LogsOK
  <2>3. CountersOK'
    BY <1>12, BoundAssumption DEF HostRollsBack, TypeOK, CountersOK, BoundAssumption
  <2> QED
    BY <1>12, <2>2, <2>3 DEF HostRollsBack, TypeOK, LogsOK, SeedsOK, JobsOK
<1>13. CASE UNCHANGED vars
  BY <1>13 DEF vars, TypeOK, LogsOK, SeedsOK, JobsOK, CountersOK
<1> QED
  BY <1>1, <1>2, <1>3, <1>4, <1>5, <1>6, <1>7, <1>8, <1>9, <1>10, <1>11,
     <1>12, <1>13 DEF Next, CeremonyStep

\* Every reachable state is well typed: a ceremony that publishes holds an
\* entry, one that rolls its seeds forward holds the next seed.
THEOREM TypeCorrect == Spec => []TypeOK
<1>1. Init => TypeOK
  <2> SUFFICES ASSUME Init PROVE TypeOK
    OBVIOUS
  <2>1. LogsOK /\ CountersOK
    BY BoundAssumption DEF Init, LogsOK, CountersOK, BoundAssumption
  <2>2. SeedsOK
    BY MintedTyped DEF Init, SeedsOK
  <2>3. Idle \in Job /\ Idle.stage = "idle"
    BY BoundAssumption DEF Idle, Job, Stage, Op, BoundAssumption
  <2>4. JobsOK
    BY <2>3 DEF Init, JobsOK
  <2> QED
    BY <2>1, <2>2, <2>4 DEF TypeOK
<1> QED
  BY <1>1, TypeStep, PTL DEF Spec

-----------------------------------------------------------------------------
\* From its read to its write a ceremony's pin is the log it read.
PinInv ==
    \A c \in Client :
        job[c].stage \in {"persist", "put", "sent", "acked"} => pin[c] = seen[c]

\* A step of one client leaves the others' ceremonies alone.
LEMMA PinElsewhere ==
    ASSUME PinInv, NEW c \in Client,
           \A d \in Client \ {c} : job'[d] = job[d] /\ pin'[d] = pin[d]
                                   /\ seen'[d] = seen[d],
           job'[c].stage \in {"persist", "put", "sent", "acked"}
               => pin'[c] = seen'[c]
    PROVE  PinInv'
  BY DEF PinInv

\* Every step keeps the pin of a ceremony between its read and its write equal
\* to the log it read: nothing else of that client moves it.
LEMMA PinStep == TypeOK /\ PinInv /\ [Next]_vars => PinInv'
<1> SUFFICES ASSUME TypeOK, PinInv, [Next]_vars PROVE PinInv'
  OBVIOUS
<1>0. /\ job \in [Client -> Job] /\ pin \in [Client -> Seq(Entry)]
      /\ seen \in [Client -> Seq(Entry)] /\ log \in Seq(Entry)
  BY DEF TypeOK, LogsOK, JobsOK
<1>1. ASSUME NEW c \in Client, End(c), UNCHANGED pin PROVE PinInv'
  BY <1>0, <1>1, PinElsewhere DEF End, Idle
<1>2. ASSUME NEW c \in Client, NEW stage \in Stage, Goto(c, stage),
             \A d \in Client \ {c} : pin'[d] = pin[d] /\ seen'[d] = seen[d],
             stage \in {"persist", "put", "sent", "acked"} => pin'[c] = seen'[c]
      PROVE  PinInv'
  <2>1. job'[c].stage = stage /\ \A d \in Client \ {c} : job'[d] = job[d]
    BY <1>2, GotoTyped
  <2> QED
    BY <1>2, <2>1, PinElsewhere
<1>3. ASSUME NEW c \in Client, HostCalls(c) PROVE PinInv'
  <2>1. ASSUME NEW op, NEW t, NEW k, Start(c, op, t, k) PROVE PinInv'
    BY <1>0, <2>1, PinElsewhere DEF Start
  <2> QED
    BY <1>3, <2>1 DEF HostCalls, StartEnsure, StartRotate, StartEnroll,
       StartRevoke
<1>4. ASSUME NEW c \in Client, ReadPublishedLog(c) PROVE PinInv'
  <2> DEFINE plan == PlanOf(log, c, job[c])
  <2>1. CASE End(c)
    <3>1. job'[c].stage = "idle"
      BY <1>0, <2>1 DEF End, Idle
    <3>2. \A d \in Client \ {c} : job'[d] = job[d] /\ seen'[d] = seen[d]
      BY <1>0, <2>1 DEF End
    <3>3. \A d \in Client \ {c} : pin'[d] = pin[d]
      BY <1>0, <1>4 DEF ReadPublishedLog
    <3> QED
      BY <3>1, <3>2, <3>3, PinElsewhere
  <2>2. CASE ~End(c)
    <3>1. /\ Goto(c, plan.stage) /\ pin' = [pin EXCEPT ![c] = log]
          /\ seen' = [seen EXCEPT ![c] = log]
      BY <1>4, <2>2, Zenon DEF ReadPublishedLog
    <3>2. /\ job[c] \in Job /\ job[c].opts \in Seeds /\ job[c].keys \in Seeds
          /\ job[c].target \in Client
      BY <1>4 DEF ReadPublishedLog, TypeOK, JobsOK
    <3>3. PlanOK(log, job[c], plan)
      BY <1>0, <3>2, PlanTyped
    <3> HIDE DEF plan
    <3>4. plan.stage \in Stage
      BY <3>3 DEF PlanOK, Plan, Throw, Conclude, Stage
    <3> QED
      BY <1>0, <1>2, <3>1, <3>4
  <2> QED
    BY <2>1, <2>2
<1>5. ASSUME NEW c \in Client, PersistPending(c) PROVE PinInv'
  <2> DEFINE plan == UpdateDID(seen[c],
                         RotationEntry(seen[c], c, job[c].opts, Fresh(c)))
  <2>1. CASE End(c)
    BY <1>1, <1>5, <2>1 DEF PersistPending
  <2>2. CASE ~End(c)
    <3>1. Goto(c, plan.stage) /\ UNCHANGED <<pin, seen>>
      BY <1>5, <2>2, Zenon DEF PersistPending
    <3>2. plan.stage \in {"idle", "put"}
      BY DEF UpdateDID, Plan, Throw
    <3> HIDE DEF plan
    <3>3. pin[c] = seen[c]
      BY <1>5 DEF PersistPending, PinInv
    <3> QED
      BY <1>2, <3>1, <3>2, <3>3 DEF Stage
  <2> QED
    BY <2>1, <2>2
<1>6. ASSUME NEW c \in Client, PutLogResource(c) PROVE PinInv'
  <2>1. pin[c] = seen[c]
    BY <1>6 DEF PutLogResource, PinInv
  <2> QED
    BY <1>2, <1>6, <2>1 DEF PutLogResource, Stage
<1>7. ASSUME NEW c \in Client, Acked(c) PROVE PinInv'
  BY <1>0, <1>2, <1>7 DEF Acked, Stage
<1>8. ASSUME NEW c \in Client, Conflict(c) PROVE PinInv'
  <2>1. CASE End(c)
    BY <1>1, <1>8, <2>1 DEF Conflict
  <2>2. CASE ~End(c)
    <3>1. /\ job' = [job EXCEPT ![c] = [@ EXCEPT !.stage = "read",
                                 !.step = "commit", !.attempt = job[c].attempt + 1]]
          /\ seen' = [seen EXCEPT ![c] = <<>>] /\ UNCHANGED pin
      BY <1>8, <2>2, Zenon DEF Conflict
    <3>2. job'[c].stage = "read" /\ \A d \in Client \ {c} : job'[d] = job[d]
      BY <1>0, <3>1 DEF Job
    <3> QED
      BY <1>0, <3>1, <3>2, PinElsewhere
  <2> QED
    BY <2>1, <2>2
<1>9. ASSUME NEW c \in Client, RollForward(c) PROVE PinInv'
  BY <1>2, <1>9 DEF RollForward, Stage
<1>10. ASSUME NEW c \in Client, PutDidWebProjection(c) PROVE PinInv'
  <2>1. CASE End(c)
    BY <1>1, <1>10, <2>1 DEF PutDidWebProjection
  <2>2. CASE Goto(c, "finalize") /\ UNCHANGED <<seen, draft>>
    BY <1>2, <1>10, <2>2 DEF PutDidWebProjection, Stage
  <2>3. CASE /\ job' = [job EXCEPT ![c] = [@ EXCEPT !.stage = "read",
                                                    !.step = "add"]]
             /\ seen' = [seen EXCEPT ![c] = <<>>]
    <3>1. job'[c].stage = "read" /\ \A d \in Client \ {c} : job'[d] = job[d]
      BY <1>0, <2>3 DEF Job
    <3>2. UNCHANGED pin
      BY <1>10 DEF PutDidWebProjection
    <3> QED
      BY <1>0, <2>3, <3>1, <3>2, PinElsewhere
  <2> QED
    BY <1>10, <2>1, <2>2, <2>3 DEF PutDidWebProjection
<1>11. ASSUME NEW c \in Client, Finalize(c) \/ CutShort(c) PROVE PinInv'
  BY <1>1, <1>11 DEF Finalize, CutShort
<1>12. ASSUME NEW m \in wire, Land(m) PROVE PinInv'
  <2>1. m.by \in Client
    BY DEF TypeOK, LogsOK, Request
  <2>2. CASE ~Waiting(m)
    BY <1>12, <2>2 DEF Land, PinInv
  <2>3. CASE Waiting(m)
    <3> DEFINE stage == IF Accepts(m) THEN "acked" ELSE "conflict"
    <3>1. Goto(m.by, stage) /\ UNCHANGED <<seen, pin>> /\ stage \in Stage
      BY <1>12, <2>3 DEF Land, Goto, Stage
    <3>2. pin[m.by] = seen[m.by]
      BY <2>1, <2>3 DEF Waiting, PinInv
    <3> HIDE DEF stage
    <3> QED
      BY <1>2, <2>1, <3>1, <3>2
  <2> QED
    BY <2>2, <2>3
<1>13. CASE HostRollsBack \/ UNCHANGED vars
  BY <1>13 DEF HostRollsBack, vars, PinInv
<1> QED
  BY <1>3, <1>4, <1>5, <1>6, <1>7, <1>8, <1>9, <1>10, <1>11, <1>12, <1>13
     DEF Next, CeremonyStep

\* A log is a prefix of itself and of itself with one more entry.
LEMMA PrefixFacts ==
    ASSUME NEW s \in Seq(Entry)
    PROVE  IsPrefix(s, s) /\ \A e \in Entry : IsPrefix(s, Append(s, e))
  BY DEF IsPrefix

\* Only a read of a longer history and the answer to a write move a pin, and
\* both keep what it stood for; for any number of clients, cut ceremonies and
\* rollbacks of the host.
LEMMA PinMoves ==
    ASSUME TypeOK, PinInv, [Next]_vars, NEW c \in Client
    PROVE  IsPrefix(pin[c], pin'[c])
<1>0. /\ pin \in [Client -> Seq(Entry)] /\ pin[c] \in Seq(Entry)
  BY DEF TypeOK, LogsOK
<1>1. CASE pin'[c] = pin[c]
  BY <1>0, <1>1, PrefixFacts
<1>2. CASE ReadPublishedLog(c)
  BY <1>0, <1>1, <1>2 DEF ReadPublishedLog, Continuous
<1>3. CASE Acked(c)
  <2>1. pin[c] = seen[c] /\ draft[c] \in Entry
    BY <1>3 DEF Acked, PinInv, TypeOK, JobsOK
  <2>2. pin'[c] = Append(pin[c], draft[c])
    BY <1>0, <1>3, <2>1 DEF Acked
  <2> QED
    BY <1>0, <2>1, <2>2, PrefixFacts
<1>4. ASSUME NEW d \in Client, d # c, ReadPublishedLog(d) \/ Acked(d)
      PROVE  pin'[c] = pin[c]
  BY <1>0, <1>4 DEF ReadPublishedLog, Acked
<1>5. ASSUME NEW d \in Client,
             \/ HostCalls(d) \/ PersistPending(d) \/ PutLogResource(d)
             \/ Conflict(d) \/ RollForward(d) \/ PutDidWebProjection(d)
             \/ Finalize(d) \/ CutShort(d)
      PROVE  pin' = pin
  BY <1>5 DEF HostCalls, StartEnsure, StartRotate, StartEnroll, StartRevoke,
     Start, PersistPending, PutLogResource, Conflict, RollForward,
     PutDidWebProjection, Finalize, CutShort
<1>6. ASSUME (\E m \in wire : Land(m)) \/ HostRollsBack \/ UNCHANGED vars
      PROVE  pin' = pin
  BY <1>6 DEF Land, HostRollsBack, vars
<1> QED
  BY <1>1, <1>2, <1>3, <1>4, <1>5, <1>6 DEF Next, CeremonyStep

\* checkAndAdvanceAccountLogPin and putLogResource together never rewind a
\* client's chain-head pin, whatever the host serves.
THEOREM PinsNeverRewind == Spec => PinNeverRewinds
<1>1. Init => PinInv
  BY DEF Init, PinInv, Idle
<1>2. TypeOK /\ PinInv /\ [Next]_vars
        => [\A c \in Client : IsPrefix(pin[c], pin'[c])]_vars
  BY PinMoves
<1> QED
  BY <1>1, <1>2, PinStep, TypeCorrect, PTL DEF Spec, PinNeverRewinds
-----------------------------------------------------------------------------
(* Why the entries resolve. Two update keys of one client may be authorized *)
(* together - its first, approved again after it rotated, and the one it    *)
(* rotated to - and a removal strikes a key with what attributeStagedHash   *)
(* finds beside it. On a host that serves what it was given and drops what  *)
(* its sender gave up on, that is never the other key: the two were         *)
(* revealed by entries which committed nothing they share.                  *)

\* The clients some entry of the log names.
Ever(l) == UNION {l[i].vms : i \in DOMAIN l}

\* What a log's head authorizes and commits, and what the entry e adds to it.
HeadKeys(l) == IF l = <<>> THEN {} ELSE Head_(l).ukeys
HeadHashes(l) == IF l = <<>> THEN {} ELSE Head_(l).hashes
NewKeys(l, e) == e.ukeys \ HeadKeys(l)
NewHashes(l, e) == e.hashes \ HeadHashes(l)
Added(l, e) == NewKeys(l, e) \cup NewHashes(l, e)

\* The key of k's client that its request presents.
IsFirst(k) == k = First(Owner(k))

\* An entry that reveals the key k, which no request presents, commits a key
\* to follow it, and neither then nor by what it keeps the first key of that
\* client - if that is the one k follows.
RevealsNext(l, e, k) ==
    /\ NewHashes(l, e) \ {k} # {}
    /\ First(Owner(k)) \notin NewHashes(l, e)
    /\ k = Second(Owner(k)) => First(Owner(k)) \notin e.hashes

\* An entry that may follow the log l: it resolves; whatever it adds is one
\* client's; beside a client's first key it authorizes at most one other; and
\* what it commits beside a key it adds is what that key's ceremony commits.
MayFollow(l, e) ==
    /\ e.ukeys \subseteq e.hashes
    /\ l # <<>> => e.ukeys \subseteq Head_(l).hashes
    /\ \A k, n \in Added(l, e) : Owner(k) = Owner(n)
    /\ \A k, n \in e.ukeys :
         Owner(k) = Owner(n) /\ ~IsFirst(k) /\ ~IsFirst(n) => k = n
    /\ \A k \in NewKeys(l, e) : ~IsFirst(k) => RevealsNext(l, e, k)
    /\ \A k \in Added(l, e) :
         IsFirst(k) => NewHashes(l, e) \subseteq {k, Second(Owner(k))}

\* A log each entry of which may follow the ones before it.
Sealed(l) == \A i \in DOMAIN l : MayFollow(SubSeq(l, 1, i - 1), l[i])

\* Some numbers have a least one.
LEMMA Least ==
    ASSUME NEW S, S \subseteq Nat, S # {}
    PROVE  \E i \in S : \A j \in S : i <= j
<1> DEFINE R == OpToRel(<, Nat)
<1>1. IsWellFoundedOn(R, Nat)
  BY NatLessThanWellFounded
<1> HIDE DEF R
<1>2. PICK i \in S : \A j \in S : ~(<<j, i>> \in R)
  BY <1>1, WFMin
<1>3. \A j \in S : ~(j < i)
  BY <1>2 DEF R, OpToRel
<1> QED
  BY <1>3

\* lastIndex over some positions of a log is one of them, and the last.
LEMMA LastIndexIs ==
    ASSUME NEW n \in Nat, NEW S, S \subseteq 1..n, S # {}
    PROVE  LastIndex(S) \in S /\ \A i \in S : i <= LastIndex(S)
<1> DEFINE T == {n - i : i \in S}
<1>1. T \subseteq Nat /\ T # {}
  <2>1. \A i \in S : n - i \in Nat
    OBVIOUS
  <2>2. PICK i \in S : TRUE
    OBVIOUS
  <2>3. n - i \in T
    BY <2>2
  <2> QED
    BY <2>1, <2>3
<1> HIDE DEF T
<1>2. PICK x \in T : \A y \in T : x <= y
  BY <1>1, Least
<1>3. PICK t \in S : x = n - t
  BY <1>2 DEF T
<1>4. ASSUME NEW i \in S PROVE i <= t
  <2>1. n - i \in T
    BY DEF T
  <2> QED
    BY <1>2, <1>3, <2>1
<1> QED
  BY <1>4 DEF LastIndex

\* What does not hold at a position and does at a later one begins in between.
LEMMA Begins ==
    ASSUME NEW T, NEW a \in Nat, NEW b \in Nat, a < b, a \notin T, b \in T
    PROVE  \E i \in (a + 1)..b : i \in T /\ i - 1 \notin T
<1> DEFINE S == {i \in (a + 1)..b : i \in T}
<1>1. S \subseteq Nat /\ b \in S
  OBVIOUS
<1>2. PICK i \in S : \A j \in S : i <= j
  BY <1>1, Least
<1>3. i - 1 \notin T
  <2>1. CASE i = a + 1
    BY <2>1
  <2>2. CASE i # a + 1
    BY <1>2, <2>2
  <2> QED
    BY <2>1, <2>2
<1> QED
  BY <1>2, <1>3

\* The history before an entry.
LEMMA Before ==
    ASSUME NEW l \in Seq(Entry), NEW i \in DOMAIN l
    PROVE  /\ SubSeq(l, 1, i - 1) \in Seq(Entry) /\ l[i] \in Entry
           /\ HeadKeys(SubSeq(l, 1, i - 1)) = IF i = 1 THEN {} ELSE l[i - 1].ukeys
           /\ HeadHashes(SubSeq(l, 1, i - 1)) = IF i = 1 THEN {} ELSE l[i - 1].hashes
           /\ NewKeys(SubSeq(l, 1, i - 1), l[i]) = AddedKeys(l, i)
           /\ NewHashes(SubSeq(l, 1, i - 1), l[i]) = AddedHashes(l, i)
           /\ Ever(SubSeq(l, 1, i - 1)) \subseteq Ever(l) /\ l[i].vms \subseteq Ever(l)
<1>1. PICK p : p = SubSeq(l, 1, i - 1)
  OBVIOUS
<1>2. /\ p \in Seq(Entry) /\ l[i] \in Entry /\ Len(p) = i - 1 /\ i \in 1..Len(l)
      /\ \A j \in 1..(i - 1) : p[j] = l[j]
  BY <1>1
<1>3. i = 1 => p = <<>>
  BY <1>2
<1>4. i # 1 => p # <<>> /\ Head_(p) = l[i - 1]
  BY <1>2 DEF Head_
<1>5. /\ HeadKeys(p) = IF i = 1 THEN {} ELSE l[i - 1].ukeys
      /\ HeadHashes(p) = IF i = 1 THEN {} ELSE l[i - 1].hashes
  BY <1>3, <1>4 DEF HeadKeys, HeadHashes
<1>6. NewKeys(p, l[i]) = AddedKeys(l, i) /\ NewHashes(p, l[i]) = AddedHashes(l, i)
  BY <1>5 DEF NewKeys, NewHashes, AddedKeys, AddedHashes
<1>7. Ever(p) \subseteq Ever(l) /\ l[i].vms \subseteq Ever(l)
  <2>1. DOMAIN p = 1..(i - 1) /\ DOMAIN l = 1..Len(l)
    BY <1>2
  <2> QED
    BY <1>2, <2>1 DEF Ever
<1> QED
  BY <1>1, <1>2, <1>5, <1>6, <1>7

\* A sealed log with one more entry that may follow it is sealed.
LEMMA Seal ==
    ASSUME NEW l \in Seq(Entry), NEW e \in Entry, Sealed(l), MayFollow(l, e)
    PROVE  Sealed(Append(l, e))
<1>1. PICK n \in Nat : n = Len(l) /\ DOMAIN l = 1..n
  OBVIOUS
<1>2. PICK a : a = Append(l, e)
  OBVIOUS
<1>3. a \in Seq(Entry) /\ DOMAIN a = 1..(n + 1) /\ Len(a) = n + 1
  BY <1>1, <1>2
<1>4. ASSUME NEW i \in 1..(n + 1) PROVE MayFollow(SubSeq(a, 1, i - 1), a[i])
  <2>1. CASE i \in 1..n
    <3>1. SubSeq(a, 1, i - 1) = SubSeq(l, 1, i - 1) /\ a[i] = l[i]
      BY <1>1, <1>2, <1>3, <2>1
    <3>2. MayFollow(SubSeq(l, 1, i - 1), l[i])
      BY <1>1, <2>1 DEF Sealed
    <3> QED
      BY <3>1, <3>2
  <2>2. CASE i = n + 1
    <3>1. SubSeq(a, 1, i - 1) = l /\ a[i] = e
      BY <1>1, <1>2, <1>3, <2>2
    <3> QED
      BY <3>1
  <2> QED
    BY <1>1, <2>1, <2>2
<1> QED
  BY <1>2, <1>3, <1>4 DEF Sealed

\* What the head of a sealed log is.
HeadSealed(l) ==
    /\ Head_(l).ukeys \subseteq Head_(l).hashes
    /\ \A k, n \in Head_(l).ukeys :
         Owner(k) = Owner(n) /\ ~IsFirst(k) /\ ~IsFirst(n) => k = n
    /\ Head_(l).vms \subseteq Ever(l)

\* The head of a sealed log.
LEMMA SealedHead ==
    ASSUME NEW l \in Seq(Entry), l # <<>>, Sealed(l)
    PROVE  HeadSealed(l) /\ Head_(l) \in Entry
<1>1. PICK n \in DOMAIN l : n = Len(l) /\ Head_(l) = l[n]
  BY DEF Head_
<1>2. MayFollow(SubSeq(l, 1, n - 1), l[n])
  BY DEF Sealed
<1>3. Ever(SubSeq(l, 1, n - 1)) \subseteq Ever(l) /\ l[n].vms \subseteq Ever(l)
  BY Before
<1>4. HeadSealed(l)
  BY <1>1, <1>2, <1>3 DEF MayFollow, HeadSealed
<1> QED
  BY <1>4, HeadTyped

\* A log one entry longer names what that entry does too.
LEMMA EverGrows ==
    ASSUME NEW l \in Seq(Entry), NEW e \in Entry
    PROVE  Ever(Append(l, e)) = Ever(l) \cup e.vms
<1>1. PICK n \in Nat : n = Len(l) /\ DOMAIN l = 1..n
  OBVIOUS
<1>2. PICK a : a = Append(l, e)
  OBVIOUS
<1>3. DOMAIN a = 1..(n + 1) /\ a[n + 1] = e /\ \A i \in 1..n : a[i] = l[i]
  BY <1>1, <1>2
<1>4. \A i \in 1..n : a[i].vms \subseteq Ever(l)
  BY <1>1, <1>3 DEF Ever
<1>5. \A i \in 1..n : i \in 1..(n + 1)
  BY <1>1
<1>6. Ever(l) \subseteq Ever(a)
  BY <1>1, <1>3, <1>5 DEF Ever
<1>7. e.vms \subseteq Ever(a)
  BY <1>1, <1>3 DEF Ever
<1>8. \A i \in 1..(n + 1) : i \in 1..n \/ i = n + 1
  BY <1>1
<1>9. Ever(a) \subseteq Ever(l) \cup e.vms
  BY <1>3, <1>4, <1>8 DEF Ever
<1> QED
  BY <1>2, <1>6, <1>7, <1>9

\* What an entry of a sealed log is.
EntrySealed(l, i) ==
    /\ l[i].ukeys \subseteq l[i].hashes
    /\ i # 1 => l[i].ukeys \subseteq l[i - 1].hashes
    /\ \A k, n \in AddedKeys(l, i) \cup AddedHashes(l, i) : Owner(k) = Owner(n)
    /\ \A k, n \in l[i].ukeys :
         Owner(k) = Owner(n) /\ ~IsFirst(k) /\ ~IsFirst(n) => k = n
    /\ \A k \in AddedKeys(l, i) : ~IsFirst(k) =>
         /\ AddedHashes(l, i) \ {k} # {}
         /\ First(Owner(k)) \notin AddedHashes(l, i)
         /\ k = Second(Owner(k)) => First(Owner(k)) \notin l[i].hashes
    /\ \A k \in AddedKeys(l, i) \cup AddedHashes(l, i) :
         IsFirst(k) => AddedHashes(l, i) \subseteq {k, Second(Owner(k))}

LEMMA SealedEntry ==
    ASSUME NEW l \in Seq(Entry), Sealed(l), NEW i \in DOMAIN l
    PROVE  EntrySealed(l, i)
<1>1. PICK p : p = SubSeq(l, 1, i - 1)
  OBVIOUS
<1>2. MayFollow(p, l[i])
  BY <1>1 DEF Sealed
<1>3. /\ NewKeys(p, l[i]) = AddedKeys(l, i) /\ NewHashes(p, l[i]) = AddedHashes(l, i)
      /\ Added(p, l[i]) = AddedKeys(l, i) \cup AddedHashes(l, i)
  BY <1>1, Before DEF Added
<1>4. i # 1 => p # <<>> /\ Head_(p) = l[i - 1]
  BY <1>1 DEF Head_
<1> QED
  BY <1>2, <1>3, <1>4 DEF MayFollow, RevealsNext, EntrySealed

\* An authorized key was revealed by some entry and authorized ever since.
LEMMA Standing ==
    ASSUME NEW l \in Seq(Entry), NEW n \in DOMAIN l, NEW k \in l[n].ukeys
    PROVE  \E r \in 1..n : k \in AddedKeys(l, r) /\ \A i \in r..n : k \in l[i].ukeys
<1>1. n \in Nat /\ n \in 1..Len(l)
  OBVIOUS
<1> DEFINE S == {r \in 1..n : \A i \in r..n : k \in l[i].ukeys}
<1>2. S \subseteq Nat /\ n \in S
  BY <1>1
<1>3. PICK r \in S : \A j \in S : r <= j
  BY <1>2, Least
<1>4. r # 1 => k \notin l[r - 1].ukeys
  <2>1. SUFFICES ASSUME r # 1, k \in l[r - 1].ukeys PROVE FALSE
    OBVIOUS
  <2>2. r - 1 \in 1..n /\ \A i \in (r - 1)..n : i = r - 1 \/ i \in r..n
    BY <1>1, <1>3, <2>1
  <2>3. r - 1 \in S
    BY <1>3, <2>1, <2>2
  <2> QED
    BY <1>1, <1>3, <2>3
<1>5. k \in AddedKeys(l, r)
  BY <1>1, <1>3, <1>4 DEF AddedKeys
<1> QED
  BY <1>3, <1>5

\* attributeStagedHash returns other hashes of the same client.
LEMMA StagedIsOwn ==
    ASSUME NEW l \in Seq(Entry), Sealed(l), NEW k, NEW h \in AttributeStagedHash(l, k)
    PROVE  h # k /\ Owner(h) = Owner(k)
<1>1. PICK reveals : reveals = {i \in DOMAIN l : k \in AddedKeys(l, i)}
  OBVIOUS
<1>2. PICK commits : commits = {i \in DOMAIN l : i <= LastIndex(reveals)
                                                 /\ k \in AddedHashes(l, i)}
  OBVIOUS
<1>3. ASSUME NEW i \in DOMAIN l, k \in AddedKeys(l, i) \cup AddedHashes(l, i),
             h \in AddedHashes(l, i) \ {k}
      PROVE  h # k /\ Owner(h) = Owner(k)
  <2>1. EntrySealed(l, i)
    BY SealedEntry
  <2> QED
    BY <1>3, <2>1 DEF EntrySealed
<1>4. \/ reveals # {} /\ h \in AddedHashes(l, LastIndex(reveals)) \ {k}
      \/ commits # {} /\ h \in AddedHashes(l, LastIndex(commits)) \ {k}
  BY <1>1, <1>2 DEF AttributeStagedHash
<1>5. PICK n \in Nat : DOMAIN l = 1..n
  OBVIOUS
<1>6. reveals # {} => LastIndex(reveals) \in reveals
  BY <1>1, <1>5, LastIndexIs
<1>7. commits # {} => LastIndex(commits) \in commits
  BY <1>2, <1>5, LastIndexIs
<1> QED
  BY <1>1, <1>2, <1>3, <1>4, <1>6, <1>7

\* Where two keys of one client are authorized together, what
\* attributeStagedHash finds beside the one is not the other.
LEMMA StrikesNoOther ==
    ASSUME NEW l \in Seq(Entry), l # <<>>, Sealed(l),
           NEW k \in Head_(l).ukeys, NEW m \in Head_(l).ukeys, k # m
    PROVE  m \notin AttributeStagedHash(l, k)
<1> SUFFICES ASSUME m \in AttributeStagedHash(l, k) PROVE FALSE
  OBVIOUS
<1>1. PICK n \in Nat : n = Len(l) /\ DOMAIN l = 1..n /\ Head_(l) = l[n] /\ n \in DOMAIN l
  BY DEF Head_
<1>2. Owner(m) = Owner(k)
  BY StagedIsOwn
<1>3. \A i \in DOMAIN l : EntrySealed(l, i)
  BY SealedEntry
<1>4. IsFirst(k) \/ IsFirst(m)
  BY <1>1, <1>2, <1>3 DEF EntrySealed
<1>5. PICK reveals : reveals = {i \in DOMAIN l : k \in AddedKeys(l, i)}
  OBVIOUS
<1>6. PICK L : L = LastIndex(reveals)
  OBVIOUS
<1>7. PICK commits : commits = {i \in DOMAIN l : i <= L /\ k \in AddedHashes(l, i)}
  OBVIOUS
<1>8. reveals # {} => L \in reveals /\ \A i \in reveals : i <= L
  BY <1>1, <1>5, <1>6, LastIndexIs
<1>9. PICK C : C = LastIndex(commits)
  OBVIOUS
<1>10. commits # {} => C \in commits /\ \A i \in commits : i <= C
  BY <1>1, <1>7, <1>9, LastIndexIs
<1>11. /\ reveals # {}
       /\ \/ m \in AddedHashes(l, L) \ {k}
          \/ /\ AddedHashes(l, L) \ {k} = {} /\ commits # {}
             /\ m \in AddedHashes(l, C) \ {k}
  BY <1>5, <1>6, <1>7, <1>9 DEF AttributeStagedHash
<1>12. CASE ~IsFirst(k)
  <2>1. m = First(Owner(k))
    BY <1>2, <1>4, <1>12 DEF IsFirst
  <2>2. EntrySealed(l, L) /\ k \in AddedKeys(l, L)
    BY <1>3, <1>5, <1>8, <1>11
  <2>3. AddedHashes(l, L) \ {k} # {} /\ m \notin AddedHashes(l, L)
    BY <1>12, <2>1, <2>2 DEF EntrySealed
  <2> QED
    BY <1>11, <2>3
<1>13. CASE IsFirst(k)
  <2>1. PICK A \in 1..n : k \in AddedKeys(l, A) /\ \A i \in A..n : k \in l[i].ukeys
    BY <1>1, Standing
  <2>2. PICK R \in 1..n : m \in AddedKeys(l, R) /\ \A i \in R..n : m \in l[i].ukeys
    BY <1>1, Standing
  <2>3. \A i \in DOMAIN l : l[i].ukeys \subseteq l[i].hashes
    BY <1>3 DEF EntrySealed
  <2>4. m = Second(Owner(m)) /\ ~IsFirst(m)
    <3>1. \A i \in DOMAIN l : k \in AddedKeys(l, i) \cup AddedHashes(l, i)
            => AddedHashes(l, i) \subseteq {k, Second(Owner(k))}
      BY <1>3, <1>13 DEF EntrySealed
    <3>2. m \in {k, Second(Owner(k))}
      BY <1>5, <1>7, <1>8, <1>10, <1>11, <3>1
    <3> QED
      BY <1>2, <1>13, <3>2 DEF IsFirst
  <2>5. k \notin l[R].hashes
    BY <1>1, <1>2, <1>3, <1>13, <2>2, <2>4 DEF EntrySealed, IsFirst
  <2>6. R < A
    BY <1>1, <2>1, <2>3, <2>5
  <2>7. A <= L /\ L \in 1..n /\ k \in l[L].hashes
    BY <1>1, <1>5, <1>8, <2>1, <2>3
  <2>8. ASSUME NEW i \in 1..n, R < i PROVE m \notin AddedHashes(l, i)
    <3>1. i - 1 \in R..n /\ i # 1 /\ i - 1 \in 1..n
      BY <2>8
    <3>2. m \in l[i - 1].ukeys
      BY <2>2, <3>1
    <3>3. m \in l[i - 1].hashes
      BY <1>1, <2>3, <3>1, <3>2
    <3> QED
      BY <3>1, <3>3 DEF AddedHashes
  <2>9. m \notin AddedHashes(l, L)
    BY <1>1, <2>6, <2>7, <2>8
  <2>10. commits # {} /\ m \in AddedHashes(l, C)
    BY <1>11, <2>9
  <2>11. R < C
    <3> DEFINE T == {i \in DOMAIN l : k \in l[i].hashes}
    <3>1. R \notin T /\ L \in T /\ R < L /\ R \in Nat /\ L \in Nat
      BY <1>1, <2>5, <2>6, <2>7
    <3> HIDE DEF T
    <3>2. PICK i \in (R + 1)..L : i \in T /\ i - 1 \notin T
      BY <3>1, Begins
    <3>3. i \in 1..n /\ i # 1 /\ i - 1 \in DOMAIN l
      BY <1>1, <2>7, <3>2
    <3>4. k \in l[i].hashes /\ k \notin l[i - 1].hashes
      BY <3>2, <3>3 DEF T
    <3>5. i \in commits
      BY <1>1, <1>7, <2>7, <3>2, <3>3, <3>4 DEF AddedHashes
    <3> QED
      BY <1>1, <1>7, <1>10, <3>2, <3>5
  <2>12. C \in 1..n
    BY <1>1, <1>7, <1>10, <2>10
  <2> QED
    BY <2>8, <2>10, <2>11, <2>12
<1> QED
  BY <1>12, <1>13

-----------------------------------------------------------------------------
\* What a client holds. Seeds are its own and all different, each minted by
\* it; the first two go together, and no later seed is one of them.
Serial(k) == k[2]
Pairing(c, s) ==
    /\ Owner(s.update) = c /\ Owner(s.staged) = c
    /\ s.update # s.staged /\ s.staged # First(c)
    /\ s.update = First(c) <=> s.staged = Second(c)
Following(c, s) ==
    s.pending # NoKey => /\ Owner(s.pending) = c
                         /\ s.pending \notin {s.update, s.staged, First(c), Second(c)}
Dates(m, s) ==
    /\ Serial(s.update) <= m /\ Serial(s.staged) <= m
    /\ s.pending # NoKey => Serial(s.pending) <= m

\* A client the log never named holds the first two still; one that holds its
\* first key as the current one is authorized for no later one.
Born(c, s) == s.update = First(c) /\ s.staged = Second(c)
Early(c, l, s) ==
    s.update = First(c) => Mine(HeadKeys(l), c) \subseteq {First(c), Second(c)}

KeysOK(c, l, m, s) ==
    /\ Pairing(c, s) /\ Following(c, s) /\ Dates(m, s)
    /\ c \notin Ever(l) => Born(c, s)
    /\ Early(c, l, s)

\* Every key an entry brings in was minted by its client.
Dated(S, m) == \A k \in S : Serial(k) <= m[Owner(k)]

\* What is put over the log l: an entry that may follow it and reveals first
\* keys only, or those of K.
Puts(l, e, K, m) ==
    /\ MayFollow(l, e) /\ Dated(Added(l, e), m)
    /\ \A k \in NewKeys(l, e) : IsFirst(k) \/ k \in K

-----------------------------------------------------------------------------
\* The entries the ceremonies sign may follow the logs they read.

\* The first two keys of a client.
LEMMA BornFacts ==
    ASSUME NEW c \in Client, NEW s \in Seeds, Born(c, s),
           NEW m \in [Client -> Nat], 2 <= m[c]
    PROVE  /\ Owner(s.update) = c /\ Owner(s.staged) = c /\ s.update # s.staged
           /\ IsFirst(s.update) /\ ~IsFirst(s.staged) /\ s.staged = Second(c)
           /\ Serial(s.update) <= m[c] /\ Serial(s.staged) <= m[c]
  BY DEF Born, First, Second, Owner, IsFirst, Serial

\* The genesis entry.
LEMMA GenesisFollows ==
    ASSUME NEW c \in Client, NEW s \in Seeds, Born(c, s),
           NEW m \in [Client -> Nat], 2 <= m[c], NEW K
    PROVE  Puts(<<>>, [ukeys |-> {s.update}, hashes |-> {s.update, s.staged},
                       vms |-> {c}, by |-> c], K, m)
<1>1. PICK e : e = [ukeys |-> {s.update}, hashes |-> {s.update, s.staged},
                    vms |-> {c}, by |-> c]
  OBVIOUS
<1>2. /\ e.ukeys = {s.update} /\ e.hashes = {s.update, s.staged}
      /\ NewKeys(<<>>, e) = {s.update} /\ NewHashes(<<>>, e) = {s.update, s.staged}
      /\ Added(<<>>, e) = {s.update, s.staged}
  BY <1>1 DEF Added, NewKeys, NewHashes, HeadKeys, HeadHashes
<1>3. MayFollow(<<>>, e)
  BY <1>2, BornFacts DEF MayFollow
<1>4. Dated(Added(<<>>, e), m) /\ \A k \in NewKeys(<<>>, e) : IsFirst(k)
  BY <1>2, BornFacts DEF Dated
<1>5. Puts(<<>>, e, K, m)
  BY <1>3, <1>4 DEF Puts
<1> QED
  BY <1>1, <1>5

\* A rotation's entry, once updateDID has let it through: it reveals the
\* staged key and commits a seed that no entry has committed before.
LEMMA RotationFollows ==
    ASSUME NEW l \in Seq(Entry), l # <<>>, Sealed(l), NEW c \in Client,
           NEW s \in Seeds, Pairing(c, s), Early(c, l, s),
           s.update \in Head_(l).ukeys, s.staged \notin Head_(l).ukeys,
           NEW fresh, Owner(fresh) = c, fresh \notin Head_(l).hashes,
           fresh \notin {First(c), s.staged},
           NEW m, Serial(s.staged) <= m[c], Serial(fresh) <= m[c],
           RotationEntry(l, c, s, fresh).ukeys \subseteq Head_(l).hashes
    PROVE  Puts(l, RotationEntry(l, c, s, fresh), {s.staged}, m)
<1>1. PICK e : e = RotationEntry(l, c, s, fresh)
  OBVIOUS
<1>2. PICK h \in Entry : h = Head_(l) /\ HeadSealed(l)
  BY SealedHead
<1>3. /\ e.ukeys = (h.ukeys \ {s.update}) \cup {s.staged}
      /\ e.hashes = (h.hashes \ {s.update}) \cup {s.staged, fresh}
      /\ e.ukeys \subseteq h.hashes
  BY <1>1, <1>2 DEF RotationEntry
<1>4. Owner(s.update) = c /\ Owner(s.staged) = c /\ s.staged # First(c)
  BY DEF Pairing
<1>5. e.ukeys \subseteq e.hashes
  BY <1>2, <1>3 DEF HeadSealed
<1>6. ASSUME NEW k \in e.ukeys, NEW n \in e.ukeys, Owner(k) = Owner(n),
             ~IsFirst(k), ~IsFirst(n)
      PROVE  k = n
  <2>1. CASE Owner(k) # c
    BY <1>2, <1>3, <1>4, <1>6, <2>1 DEF HeadSealed
  <2>2. CASE Owner(k) = c /\ s.update = First(c)
    <3>1. Mine(h.ukeys, c) \subseteq {First(c), s.staged}
      BY <1>2, <2>2 DEF Early, Pairing, HeadKeys
    <3> QED
      BY <1>3, <1>6, <2>2, <3>1 DEF Mine, IsFirst
  <2>3. CASE Owner(k) = c /\ s.update # First(c)
    <3>1. ~IsFirst(s.update) /\ s.update \in h.ukeys
      BY <1>2, <1>4, <2>3 DEF IsFirst
    <3> QED
      BY <1>2, <1>3, <1>4, <1>6, <2>3, <3>1 DEF HeadSealed
  <2> QED
    BY <2>1, <2>2, <2>3
<1>7. /\ NewKeys(l, e) = {s.staged}
      /\ NewHashes(l, e) \subseteq {s.staged, fresh} /\ fresh \in NewHashes(l, e)
      /\ Added(l, e) \subseteq {s.staged, fresh}
  BY <1>2, <1>3 DEF Added, NewKeys, NewHashes, HeadKeys, HeadHashes
<1>8. RevealsNext(l, e, s.staged)
  <2>1. s.staged = Second(c) => s.update = First(c)
    BY DEF Pairing
  <2> QED
    BY <1>3, <1>4, <1>7, <2>1 DEF RevealsNext
<1>9. \A k \in Added(l, e) : ~IsFirst(k) /\ Owner(k) = c
  BY <1>4, <1>7 DEF IsFirst
<1>10. MayFollow(l, e)
  BY <1>2, <1>3, <1>5, <1>6, <1>7, <1>8, <1>9 DEF MayFollow
<1> QED
  BY <1>1, <1>4, <1>7, <1>10 DEF Puts, Dated

\* An enrollment's commit entry.
LEMMA CommitFollows ==
    ASSUME NEW l \in Seq(Entry), l # <<>>, Sealed(l), NEW c \in Client,
           NEW t \in Client, NEW s \in Seeds, Born(t, s),
           NEW m \in [Client -> Nat], 2 <= m[t], NEW K
    PROVE  Puts(l, [Head_(l) EXCEPT !.hashes = @ \cup {s.update, s.staged},
                                    !.by = c], K, m)
<1>1. PICK e : e = [Head_(l) EXCEPT !.hashes = @ \cup {s.update, s.staged},
                                    !.by = c]
  OBVIOUS
<1>2. PICK h \in Entry : h = Head_(l) /\ HeadSealed(l)
  BY SealedHead
<1>3. e.ukeys = h.ukeys /\ e.hashes = h.hashes \cup {s.update, s.staged}
  BY <1>1, <1>2 DEF Entry
<1>4. NewKeys(l, e) = {} /\ Added(l, e) \subseteq {s.update, s.staged}
      /\ NewHashes(l, e) \subseteq {s.update, s.staged}
  BY <1>2, <1>3 DEF Added, NewKeys, NewHashes, HeadKeys, HeadHashes
<1>5. MayFollow(l, e)
  BY <1>2, <1>3, <1>4, BornFacts DEF MayFollow, HeadSealed
<1> QED
  BY <1>1, <1>4, <1>5, BornFacts DEF Puts, Dated

\* An enrollment's add entry: it authorizes a first key, beside whatever other
\* key that client rotated to.
LEMMA AddFollows ==
    ASSUME NEW l \in Seq(Entry), l # <<>>, Sealed(l), NEW c \in Client,
           NEW t \in Client, NEW s \in Seeds, Born(t, s),
           NEW m \in [Client -> Nat], 2 <= m[t], NEW K,
           NEW e, e = [Head_(l) EXCEPT !.ukeys = @ \cup {s.update},
                                       !.vms = @ \cup {t}, !.by = c],
           e.ukeys \subseteq Head_(l).hashes
    PROVE  Puts(l, e, K, m)
<1>1. PICK h \in Entry : h = Head_(l) /\ HeadSealed(l)
  BY SealedHead
<1>2. /\ e.ukeys = h.ukeys \cup {s.update} /\ e.hashes = h.hashes
      /\ e.ukeys \subseteq h.hashes
  BY <1>1 DEF Entry
<1>3. NewKeys(l, e) \subseteq {s.update} /\ NewHashes(l, e) = {}
      /\ Added(l, e) \subseteq {s.update}
  BY <1>1, <1>2 DEF Added, NewKeys, NewHashes, HeadKeys, HeadHashes
<1>4. IsFirst(s.update)
  BY BornFacts
<1>5. MayFollow(l, e)
  BY <1>1, <1>2, <1>3, <1>4 DEF MayFollow, HeadSealed
<1> QED
  BY <1>3, <1>5, BornFacts DEF Puts, Dated

\* A removal takes away the key it was given and a commitment beside it, which
\* is no other authorized key.
LEMMA RemovalFollows ==
    ASSUME NEW l \in Seq(Entry), l # <<>>, Sealed(l), NEW c \in Client,
           NEW t, NEW key, NEW K, NEW m
    PROVE  Puts(l, RemovalEntry(l, c, t, key), K, m)
<1>1. PICK e : e = RemovalEntry(l, c, t, key)
  OBVIOUS
<1>2. PICK h \in Entry : h = Head_(l) /\ HeadSealed(l)
  BY SealedHead
<1>3. PICK staged : staged = IF key \in h.ukeys THEN AttributeStagedHash(l, key)
                                                ELSE {}
  OBVIOUS
<1>4. e.ukeys = h.ukeys \ {key} /\ e.hashes = h.hashes \ ({key} \cup staged)
  BY <1>1, <1>2, <1>3 DEF RemovalEntry
<1>5. ASSUME NEW k \in e.ukeys PROVE k \notin staged
  BY <1>2, <1>3, <1>4, StrikesNoOther
<1>6. e.ukeys \subseteq e.hashes /\ e.ukeys \subseteq h.hashes
  BY <1>2, <1>4, <1>5 DEF HeadSealed
<1>7. NewKeys(l, e) = {} /\ NewHashes(l, e) = {} /\ Added(l, e) = {}
  BY <1>2, <1>4 DEF Added, NewKeys, NewHashes, HeadKeys, HeadHashes
<1>8. MayFollow(l, e)
  BY <1>2, <1>4, <1>6, <1>7 DEF MayFollow, HeadSealed
<1> QED
  BY <1>1, <1>7, <1>8 DEF Puts, Dated

\* What a ceremony's plan hands to its write. A rotation persists over a log
\* that authorizes its current key and not yet the staged one, and once it has
\* signed, the seed it committed is minted later than the one it revealed.
PlanWrites(l, c, j, p, m) ==
    /\ p.stage = "persist" =>
         /\ l # <<>> /\ j.op = "rotate" /\ Early(c, l, j.opts)
         /\ j.opts.update \in Head_(l).ukeys /\ j.opts.staged \notin Head_(l).ukeys
    /\ p.stage \in {"put", "sent"} =>
         Puts(l, p.draft, IF j.op = "rotate" THEN {j.opts.staged} ELSE {}, m)
    /\ p.stage = "rollForward" => j.op = "rotate"
    /\ p.stage = "finalize" => j.op = "rotate" /\ p.draft # NoEntry
    /\ p.stage \notin {"idle", "read"} /\ j.op = "rotate" /\ p.draft # NoEntry =>
         Serial(j.opts.staged) < m[c]

\* updateDID and signAccountEntry check what the entry needs of the log.
LEMMA SignWrites ==
    ASSUME NEW l \in Seq(Entry), NEW c, NEW j, NEW k, NEW e, NEW p, NEW m,
           p = SignAccountEntry(l, k, e), j.op # "rotate",
           e.ukeys \subseteq Head_(l).hashes => Puts(l, e, {}, m)
    PROVE  PlanWrites(l, c, j, p, m)
  BY DEF PlanWrites, SignAccountEntry, UpdateDID, Throw, Plan

\* Every ceremony plans so, over a sealed log.
LEMMA PlanSealed ==
    ASSUME NEW l \in Seq(Entry), Sealed(l), NEW c \in Client, NEW j \in Job,
           j.opts \in Seeds, j.keys \in Seeds, j.target \in Client,
           NEW m \in [Client -> Nat], \A d \in Client : 2 <= m[d],
           l = <<>> => Born(c, j.opts), Early(c, l, j.opts),
           j.op = "enroll" => Born(j.target, j.keys)
    PROVE  PlanWrites(l, c, j, PlanOf(l, c, j), m)
<1>0. PlanWrites(l, c, j, Conclude, m) /\ PlanWrites(l, c, j, Throw, m)
  BY DEF PlanWrites, Conclude, Throw, Plan
<1>1. CASE j.op = "ensure"
  <2>1. PICK e : e = [ukeys |-> {j.opts.update},
                      hashes |-> {j.opts.update, j.opts.staged},
                      vms |-> {c}, by |-> c]
    OBVIOUS
  <2>2. PlanOf(l, c, j) = EnsureDidWebvh(l, c, j)
    BY <1>1 DEF PlanOf
  <2>3. PlanOf(l, c, j) \in {Throw, Conclude} \/ (l = <<>> /\ PlanOf(l, c, j) = Plan("put", e))
    BY <2>1, <2>2 DEF EnsureDidWebvh
  <2>4. l = <<>> => Puts(l, e, {}, m)
    BY <2>1, GenesisFollows
  <2>5. l = <<>> => PlanWrites(l, c, j, Plan("put", e), m)
    BY <1>1, <2>4 DEF PlanWrites, Plan
  <2> QED
    BY <1>0, <2>3, <2>5
<1>2. CASE j.op = "rotate"
  <2>1. PlanOf(l, c, j) = RotateWebvhUpdateKey(l, c, j)
    BY <1>2 DEF PlanOf
  <2> QED
    BY <1>2, <2>1 DEF RotateWebvhUpdateKey, PlanWrites, Plan, Throw
<1>3. CASE j.op = "enroll"
  <2>1. PlanOf(l, c, j) = EnrollWebvhClient(l, c, j)
    BY <1>3 DEF PlanOf
  <2>2. CASE l = <<>>
    BY <1>0, <2>1, <2>2 DEF EnrollWebvhClient
  <2>3. CASE l # <<>>
    <3>1. PICK commit : commit =
                [Head_(l) EXCEPT !.hashes = @ \cup {j.keys.update, j.keys.staged},
                                 !.by = c]
      OBVIOUS
    <3>2. PICK add : add = [Head_(l) EXCEPT !.ukeys = @ \cup {j.keys.update},
                                    !.vms = @ \cup {j.target}, !.by = c]
      OBVIOUS
    <3>3. PlanOf(l, c, j) \in {Conclude, SignAccountEntry(l, j.opts.update, add),
                               SignAccountEntry(l, j.opts.update, commit)}
      BY <2>1, <2>3, <3>1, <3>2 DEF EnrollWebvhClient
    <3>4. Puts(l, commit, {}, m)
      BY <1>3, <2>3, <3>1, CommitFollows
    <3>5. add.ukeys \subseteq Head_(l).hashes => Puts(l, add, {}, m)
      BY <1>3, <2>3, <3>2, AddFollows
    <3>6. PlanWrites(l, c, j, SignAccountEntry(l, j.opts.update, commit), m)
      BY <1>3, <3>4, SignWrites
    <3>7. PlanWrites(l, c, j, SignAccountEntry(l, j.opts.update, add), m)
      BY <1>3, <3>5, SignWrites
    <3> QED
      BY <1>0, <3>3, <3>6, <3>7
  <2> QED
    BY <2>2, <2>3
<1>4. CASE j.op = "revoke"
  <2>1. PlanOf(l, c, j) = RevokeWebvhClient(l, c, j)
    BY <1>4 DEF PlanOf
  <2>2. CASE l = <<>>
    BY <1>0, <2>1, <2>2 DEF RevokeWebvhClient
  <2>3. CASE l # <<>>
    <3>1. PICK e : e = RemovalEntry(l, c, j.target,
                         CurrentRevokedUpdateKey(l, j.target, j.keys.update))
      OBVIOUS
    <3>2. PlanOf(l, c, j) \in {Throw, Conclude,
                               SignAccountEntry(l, j.opts.update, e)}
      BY <2>1, <2>3, <3>1 DEF RevokeWebvhClient
    <3>3. Puts(l, e, {}, m)
      BY <2>3, <3>1, RemovalFollows
    <3>4. PlanWrites(l, c, j, SignAccountEntry(l, j.opts.update, e), m)
      BY <1>4, <3>3, SignWrites
    <3> QED
      BY <1>0, <3>2, <3>4
  <2> QED
    BY <2>2, <2>3
<1> QED
  BY <1>1, <1>2, <1>3, <1>4 DEF Job, Op

-----------------------------------------------------------------------------
\* The invariant: what each client holds, and the requests under way.

\* A ceremony's options are seeds its client held when it began; only a client
\* in the log rotates, and an enrollment presents its target's first two keys.
CallOK(c) ==
    job[c].stage # "idle" =>
        /\ KeysOK(c, log, minted[c], job[c].opts)
        /\ seeds[c].update = First(c) => job[c].opts.update = First(c)
        /\ job[c].op = "rotate" => c \in Ever(log)
        /\ job[c].op = "enroll" => Born(job[c].target, job[c].keys)

\* A client's seeds are its own, the log it read is sealed, and what it is
\* about to write may follow that log.
ClientOK(c) ==
    /\ 2 <= minted[c] /\ KeysOK(c, log, minted[c], seeds[c])
    /\ CallOK(c)
    /\ Sealed(seen[c]) /\ Dated(HeadHashes(seen[c]), minted)
    /\ PlanWrites(seen[c], c, job[c], Plan(job[c].stage, draft[c]), minted)

LogInv ==
    /\ Sealed(log) /\ Dated(HeadHashes(log), minted)
    /\ \A m \in wire : m.by \in Client /\ Waiting(m)
    /\ \A c \in Client : ClientOK(c)

\* The same, as long as the host has not rolled the log back.
ResolveInv == rollbacks = 0 => LogInv

\* The other clients' ceremonies stay what they are.
Alone(c) ==
    \A d \in Client \ {c} : /\ job'[d] = job[d] /\ seeds'[d] = seeds[d]
                            /\ seen'[d] = seen[d] /\ draft'[d] = draft[d]
                            /\ minted'[d] = minted[d]

\* A client mints seeds and never unmints one.
Mints(c) == minted' \in [Client -> Nat] /\ minted[c] <= minted'[c]

\* What a log's head commits, and what an entry adds to it, are keys.
LEMMA KeysTyped ==
    ASSUME NEW l \in Seq(Entry)
    PROVE  /\ HeadKeys(l) \subseteq Key /\ HeadHashes(l) \subseteq Key
           /\ \A e \in Entry : Added(l, e) \subseteq Key
  BY HeadTyped DEF HeadKeys, HeadHashes, Added, NewKeys, NewHashes, Entry

\* Keys minted by now are so later on.
LEMMA DatedGrows ==
    ASSUME NEW S, S \subseteq Key, NEW m \in [Client -> Nat],
           NEW n \in [Client -> Nat], \A d \in Client : m[d] <= n[d], Dated(S, m)
    PROVE  Dated(S, n)
<1> SUFFICES ASSUME NEW k \in S PROVE Serial(k) <= n[Owner(k)]
  BY DEF Dated
<1>1. Serial(k) \in Nat /\ Owner(k) \in Client
  BY DEF Key, Serial, Owner
<1>2. Serial(k) <= m[Owner(k)]
  BY DEF Dated
<1> QED
  BY <1>1, <1>2

LEMMA WritesGrow ==
    ASSUME NEW l \in Seq(Entry), NEW c \in Client, NEW j, NEW p,
           NEW m \in [Client -> Nat], NEW n \in [Client -> Nat],
           \A d \in Client : m[d] <= n[d],
           p.stage \in {"put", "sent"} => p.draft \in Entry,
           p.stage # "idle" => j.opts \in Seeds,
           PlanWrites(l, c, j, p, m)
    PROVE  PlanWrites(l, c, j, p, n)
<1>1. p.stage # "idle" => Serial(j.opts.staged) \in Nat
  BY DEF Seeds, Key, Serial
<1>2. p.stage \in {"put", "sent"} /\ Dated(Added(l, p.draft), m) => Dated(Added(l, p.draft), n)
  BY KeysTyped, DatedGrows
<1> QED
  BY <1>1, <1>2 DEF PlanWrites, Puts

\* A step of one client that does not write the log concerns that client only.
LEMMA OneClient ==
    ASSUME TypeOK, LogInv, NEW c \in Client, Alone(c), Mints(c), log' = log,
           ClientOK(c)',
           \A m \in wire' : \/ m \in wire /\ m.by # c
                            \/ m.by = c /\ Waiting(m)'
    PROVE  LogInv'
<1>1. ASSUME NEW m \in wire' PROVE m.by \in Client /\ Waiting(m)'
  BY DEF LogInv, Alone, Waiting
<1>2. /\ minted \in [Client -> Nat] /\ minted' \in [Client -> Nat]
      /\ \A d \in Client : minted[d] <= minted'[d]
      /\ log \in Seq(Entry) /\ seen \in [Client -> Seq(Entry)]
  BY DEF TypeOK, SeedsOK, LogsOK, Mints, Alone
<1>3. ASSUME NEW d \in Client, d # c PROVE ClientOK(d)'
  <2>1. /\ job'[d] = job[d] /\ seeds'[d] = seeds[d] /\ seen'[d] = seen[d]
        /\ draft'[d] = draft[d] /\ minted'[d] = minted[d] /\ ClientOK(d)
    BY <1>3 DEF Alone, LogInv
  <2>2. CallOK(d)'
    BY <2>1 DEF ClientOK, CallOK
  <2>3. Dated(HeadHashes(seen[d]), minted')
    BY <1>2, <2>1, KeysTyped, DatedGrows DEF ClientOK
  <2>4. PICK p : p = Plan(job[d].stage, draft[d])
    OBVIOUS
  <2>5. /\ p.stage = job[d].stage /\ p.draft = draft[d]
        /\ PlanWrites(seen[d], d, job[d], p, minted)
    BY <2>1, <2>4 DEF ClientOK, Plan
  <2>6. /\ p.stage \in {"put", "sent"} => p.draft \in Entry
        /\ p.stage # "idle" => job[d].opts \in Seeds
    BY <2>5 DEF TypeOK, JobsOK
  <2>7. PlanWrites(seen[d], d, job[d], p, minted')
    BY <1>2, <2>5, <2>6, WritesGrow
  <2> QED
    BY <2>1, <2>2, <2>3, <2>4, <2>7 DEF ClientOK
<1>4. Sealed(log') /\ Dated(HeadHashes(log'), minted')
  BY <1>2, KeysTyped, DatedGrows DEF LogInv
<1> QED
  BY <1>1, <1>3, <1>4 DEF LogInv

\* Nothing of a client that does not wait for an answer is under way.
LEMMA NotWaiting ==
    ASSUME LogInv, NEW c \in Client, job[c].stage # "sent", NEW m \in wire
    PROVE  m.by # c
  BY DEF LogInv, Waiting

\* A ceremony that is over leaves a client with its seeds.
LEMMA EndOK ==
    ASSUME TypeOK, LogInv, NEW c \in Client, End(c), Mints(c), log' = log,
           KeysOK(c, log, minted'[c], seeds'[c]),
           \A d \in Client \ {c} : seeds'[d] = seeds[d] /\ minted'[d] = minted[d],
           \A m \in wire' : m \in wire /\ m.by # c
    PROVE  LogInv'
<1>1. /\ job \in [Client -> Job] /\ seen \in [Client -> Seq(Entry)]
      /\ draft \in [Client -> Entry \cup {NoEntry}]
  BY DEF TypeOK, LogsOK, JobsOK
<1>2. Alone(c)
  BY <1>1 DEF End, Alone
<1>3. job'[c].stage = "idle" /\ seen'[c] = <<>>
  BY <1>1 DEF End, Idle
<1>4. Sealed(seen'[c]) /\ Dated(HeadHashes(seen'[c]), minted')
  BY <1>3 DEF Sealed, Dated, HeadHashes
<1>5. PlanWrites(seen'[c], c, job'[c], Plan(job'[c].stage, draft'[c]), minted')
  BY <1>3 DEF PlanWrites, Plan
<1>6. 2 <= minted'[c]
  BY DEF LogInv, ClientOK, Mints, TypeOK, SeedsOK
<1>7. ClientOK(c)'
  BY <1>3, <1>4, <1>5, <1>6 DEF ClientOK, CallOK
<1> QED
  BY <1>2, <1>7, OneClient

\* A ceremony moves on: what it holds for its write is right.
LEMMA MoveOK ==
    ASSUME TypeOK, LogInv, NEW c \in Client, log' = log, Alone(c), Mints(c),
           job[c].stage # "idle",
           job'[c].op = job[c].op, job'[c].opts = job[c].opts,
           job'[c].keys = job[c].keys, job'[c].target = job[c].target,
           KeysOK(c, log, minted'[c], seeds'[c]),
           seeds'[c].update = First(c) => job[c].opts.update = First(c),
           KeysOK(c, log, minted'[c], job[c].opts),
           Sealed(seen'[c]), Dated(HeadHashes(seen'[c]), minted'),
           PlanWrites(seen'[c], c, job'[c], Plan(job'[c].stage, draft'[c]), minted'),
           \A m \in wire' : \/ m \in wire /\ m.by # c
                            \/ m.by = c /\ Waiting(m)'
    PROVE  LogInv'
<1>1. ClientOK(c) /\ CallOK(c)
  BY DEF LogInv, ClientOK
<1>2. CallOK(c)'
  BY <1>1 DEF CallOK
<1>3. 2 <= minted'[c]
  BY <1>1 DEF ClientOK, Mints, TypeOK, SeedsOK
<1>4. ClientOK(c)'
  BY <1>2, <1>3 DEF ClientOK
<1> QED
  BY <1>4, OneClient

\* The same for a step that mints nothing and keeps the seeds.
LEMMA StayOK ==
    ASSUME TypeOK, LogInv, NEW c \in Client, UNCHANGED <<log, seeds, minted>>,
           job[c].stage # "idle",
           job'[c].op = job[c].op, job'[c].opts = job[c].opts,
           job'[c].keys = job[c].keys, job'[c].target = job[c].target,
           \A d \in Client \ {c} : /\ job'[d] = job[d] /\ seen'[d] = seen[d]
                                   /\ draft'[d] = draft[d],
           Sealed(seen'[c]), Dated(HeadHashes(seen'[c]), minted),
           PlanWrites(seen'[c], c, job'[c], Plan(job'[c].stage, draft'[c]), minted),
           \A m \in wire' : \/ m \in wire /\ m.by # c
                            \/ m.by = c /\ Waiting(m)'
    PROVE  LogInv'
<1>1. ClientOK(c) /\ CallOK(c)
  BY DEF LogInv, ClientOK
<1>2. /\ KeysOK(c, log, minted'[c], seeds'[c])
      /\ KeysOK(c, log, minted'[c], job[c].opts)
      /\ seeds'[c].update = First(c) => job[c].opts.update = First(c)
  BY <1>1 DEF ClientOK, CallOK
<1>3. Alone(c) /\ Mints(c)
  BY DEF Alone, Mints, TypeOK, SeedsOK
<1>4. /\ Dated(HeadHashes(seen'[c]), minted')
      /\ PlanWrites(seen'[c], c, job'[c], Plan(job'[c].stage, draft'[c]), minted')
  OBVIOUS
<1> QED
  BY <1>2, <1>3, <1>4, MoveOK

\* A ceremony moved to another stage is the same ceremony.
LEMMA GotoSame ==
    ASSUME TypeOK, NEW c \in Client, NEW stage \in Stage, Goto(c, stage)
    PROVE  /\ job'[c].stage = stage /\ job'[c].op = job[c].op
           /\ job'[c].opts = job[c].opts /\ job'[c].keys = job[c].keys
           /\ job'[c].target = job[c].target
           /\ \A d \in Client \ {c} : job'[d] = job[d]
<1>1. job[c] \in Job /\ job'[c] = [job[c] EXCEPT !.stage = stage]
  BY GotoTyped DEF TypeOK, JobsOK
<1>2. job'[c].op = job[c].op
  BY <1>1 DEF Job
<1> QED
  BY <1>2, GotoTyped

\* The requests under way are of other clients than one that does not wait.
LEMMA OthersWait ==
    ASSUME LogInv, NEW c \in Client, job[c].stage # "sent", wire' = wire
    PROVE  \A m \in wire' : m \in wire /\ m.by # c
  BY NotWaiting

\* A ceremony starts with seeds its client has persisted; a rotation is of a
\* client in the log, an enrollment presents first keys.
LEMMA StartKeeps ==
    ASSUME TypeOK, LogInv, NEW c \in Client, NEW op, NEW t \in Client, NEW k,
           Start(c, op, t, k),
           op = "rotate" => c \in Ever(log), op = "enroll" => Born(t, k)
    PROVE  LogInv'
<1>1. /\ job[c].stage = "idle" /\ ClientOK(c)
      /\ UNCHANGED <<log, seeds, minted, seen, draft, wire>>
  BY DEF Start, LogInv
<1>2. PICK j : j = [stage |-> "read", op |-> op, step |-> "commit",
                    target |-> t, keys |-> k, opts |-> seeds[c], attempt |-> 1]
  OBVIOUS
<1>3. job'[c] = j /\ \A d \in Client \ {c} : job'[d] = job[d]
  BY <1>2 DEF Start, TypeOK, JobsOK
<1>4. /\ j.stage = "read" /\ j.op = op /\ j.target = t /\ j.keys = k
      /\ j.opts = seeds[c]
  BY <1>2
<1>5. CallOK(c)'
  BY <1>1, <1>3, <1>4 DEF ClientOK, CallOK
<1>6. PlanWrites(seen[c], c, j, Plan(j.stage, draft[c]), minted)
  BY <1>4 DEF PlanWrites, Plan
<1>7. ClientOK(c)'
  BY <1>1, <1>3, <1>5, <1>6 DEF ClientOK
<1>8. Alone(c) /\ Mints(c)
  BY <1>1, <1>3 DEF Alone, Mints, TypeOK, SeedsOK
<1> QED
  BY <1>1, <1>7, <1>8, NotWaiting, OneClient

\* Every ceremony a host calls starts so.
LEMMA CallsKeep ==
    ASSUME TypeOK, LogInv, NEW c \in Client, HostCalls(c)
    PROVE  LogInv'
<1>1. CASE StartEnsure(c)
  BY <1>1, StartKeeps DEF StartEnsure
<1>2. CASE StartRotate(c)
  <2>1. log \in Seq(Entry) /\ Sealed(log)
    BY DEF TypeOK, LogsOK, LogInv
  <2>2. c \in Ever(log)
    BY <1>2, <2>1, SealedHead DEF StartRotate, Enrolled, HeadSealed
  <2> QED
    BY <1>2, <2>2, StartKeeps DEF StartRotate
<1>3. ASSUME NEW t \in Client, StartEnroll(c, t) PROVE LogInv'
  <2>1. Start(c, "enroll", t, MintedSeeds(t))
    BY <1>3 DEF StartEnroll
  <2>2. Born(t, MintedSeeds(t))
    BY DEF Born, MintedSeeds
  <2> QED
    BY <2>1, <2>2, StartKeeps
<1>4. ASSUME NEW t \in Client, StartRevoke(c, t) PROVE LogInv'
  <2>1. PICK k : Start(c, "revoke", t, k)
    BY <1>4 DEF StartRevoke
  <2> QED
    BY <2>1, StartKeeps
<1> QED
  BY <1>1, <1>2, <1>3, <1>4 DEF HostCalls

\* The plan made of a log just read suits that log.
LEMMA ReadKeeps ==
    ASSUME TypeOK, LogInv, NEW c \in Client, ReadPublishedLog(c)
    PROVE  LogInv'
<1>1. /\ job[c].stage = "read" /\ ClientOK(c) /\ CallOK(c) /\ job[c] \in Job
      /\ log \in Seq(Entry) /\ job[c].opts \in Seeds /\ job[c].keys \in Seeds
      /\ job[c].target \in Client /\ minted \in [Client -> Nat]
      /\ UNCHANGED <<log, seeds, minted, wire>>
  BY DEF ReadPublishedLog, LogInv, ClientOK, TypeOK, LogsOK, SeedsOK, JobsOK
<1>2. \A m \in wire' : m \in wire /\ m.by # c
  BY <1>1, OthersWait
<1>3. CASE End(c)
  BY <1>1, <1>2, <1>3, EndOK DEF ClientOK, Mints
<1>4. CASE ~End(c)
  <2>1. PICK plan : plan = PlanOf(log, c, job[c])
    OBVIOUS
  <2>2. /\ Goto(c, plan.stage)
        /\ seen' = [seen EXCEPT ![c] = log]
        /\ draft' = [draft EXCEPT ![c] = plan.draft]
    BY <1>4, <2>1, Zenon DEF ReadPublishedLog
  <2>3. /\ Early(c, log, job[c].opts)
        /\ log = <<>> => Born(c, job[c].opts)
        /\ Sealed(log) /\ \A d \in Client : 2 <= minted[d]
        /\ job[c].op = "enroll" => Born(job[c].target, job[c].keys)
    BY <1>1 DEF CallOK, KeysOK, Ever, LogInv, ClientOK
  <2>4. PlanWrites(log, c, job[c], plan, minted)
    BY <1>1, <2>1, <2>3, PlanSealed
  <2>5. plan.stage \in Stage
    <3>1. PlanOK(log, job[c], plan)
      BY <1>1, <2>1, PlanTyped
    <3> QED
      BY <3>1 DEF PlanOK, Plan, Throw, Conclude, Stage
  <2>6. /\ job'[c].stage = plan.stage /\ job'[c].op = job[c].op
        /\ job'[c].opts = job[c].opts /\ job'[c].keys = job[c].keys
        /\ job'[c].target = job[c].target
        /\ \A d \in Client \ {c} : job'[d] = job[d]
    BY <2>2, <2>5, GotoSame
  <2>7. /\ seen'[c] = log /\ draft'[c] = plan.draft
        /\ \A d \in Client \ {c} : seen'[d] = seen[d] /\ draft'[d] = draft[d]
    BY <2>2 DEF TypeOK, LogsOK
  <2>8. PlanWrites(seen'[c], c, job'[c], Plan(job'[c].stage, draft'[c]), minted)
    BY <2>4, <2>6, <2>7 DEF PlanWrites, Plan
  <2>9. Sealed(seen'[c]) /\ Dated(HeadHashes(seen'[c]), minted)
    BY <2>7 DEF LogInv
  <2> QED
    BY <1>1, <1>2, <2>6, <2>7, <2>8, <2>9, StayOK
<1> QED
  BY <1>3, <1>4

\* A rotation's entry may follow the log its ceremony read.
LEMMA PersistKeeps ==
    ASSUME TypeOK, LogInv, NEW c \in Client, PersistPending(c)
    PROVE  LogInv'
<1>1. /\ job[c].stage = "persist" /\ ClientOK(c) /\ CallOK(c)
      /\ job[c].opts \in Seeds /\ minted \in [Client -> Nat]
      /\ seen[c] \in Seq(Entry) /\ seen[c] # <<>>
      /\ UNCHANGED <<log, wire>>
  BY DEF PersistPending, LogInv, ClientOK, TypeOK, LogsOK, SeedsOK, JobsOK
<1>2. /\ job[c].op = "rotate" /\ Early(c, seen[c], job[c].opts)
      /\ job[c].opts.update \in Head_(seen[c]).ukeys
      /\ job[c].opts.staged \notin Head_(seen[c]).ukeys
      /\ KeysOK(c, log, minted[c], job[c].opts)
      /\ Sealed(seen[c]) /\ Dated(HeadHashes(seen[c]), minted)
      /\ 2 <= minted[c]
  BY <1>1 DEF ClientOK, CallOK, PlanWrites, Plan
<1>3. \A m \in wire' : m \in wire /\ m.by # c
  BY <1>1, OthersWait
<1>4. PICK s : s = [job[c].opts EXCEPT !.pending = Fresh(c)]
  OBVIOUS
<1>5. PICK n \in Nat : n = minted[c]
  BY <1>1
<1>6. /\ minted' \in [Client -> Nat] /\ minted'[c] = n + 1 /\ Mints(c)
      /\ seeds'[c] = s
      /\ \A d \in Client \ {c} : seeds'[d] = seeds[d] /\ minted'[d] = minted[d]
  BY <1>1, <1>4, <1>5 DEF PersistPending, TypeOK, SeedsOK, Mints
<1>7. PICK f : f = Fresh(c)
  OBVIOUS
<1>8. Owner(f) = c /\ Serial(f) = n + 1 /\ f # NoKey
  BY <1>5, <1>7 DEF Fresh, Owner, Serial, NoKey
<1>9. /\ Serial(job[c].opts.update) \in Nat /\ Serial(job[c].opts.staged) \in Nat
      /\ Serial(job[c].opts.update) <= n /\ Serial(job[c].opts.staged) <= n
  BY <1>1, <1>2, <1>5 DEF KeysOK, Dates, Seeds, Key, Serial
<1>10. f \notin {First(c), Second(c), job[c].opts.update, job[c].opts.staged}
  BY <1>2, <1>5, <1>8, <1>9 DEF First, Second, Serial
<1>11. /\ s.update = job[c].opts.update /\ s.staged = job[c].opts.staged
       /\ s.pending = f
  BY <1>1, <1>4, <1>7 DEF Seeds
<1>12. KeysOK(c, log, n + 1, s)
  BY <1>2, <1>8, <1>9, <1>10, <1>11 DEF KeysOK, Pairing, Following, Dates, Born, Early
<1>13. KeysOK(c, log, n + 1, job[c].opts)
  <2>1. job[c].opts.pending # NoKey =>
          Serial(job[c].opts.pending) \in Nat /\ Serial(job[c].opts.pending) <= n
    BY <1>1, <1>2, <1>5 DEF KeysOK, Dates, Seeds, Key, Serial
  <2> QED
    BY <1>2, <1>9, <2>1 DEF KeysOK, Dates
<1>14. CASE End(c)
  BY <1>1, <1>3, <1>6, <1>12, <1>14, EndOK
<1>15. CASE ~End(c)
  <2>1. PICK e : e = RotationEntry(seen[c], c, job[c].opts, f)
    OBVIOUS
  <2>2. PICK plan : plan = UpdateDID(seen[c], e)
    OBVIOUS
  <2>3. /\ Goto(c, plan.stage) /\ draft' = [draft EXCEPT ![c] = plan.draft]
        /\ UNCHANGED seen /\ plan.stage # "idle"
    BY <1>7, <1>15, <2>1, <2>2, Zenon DEF PersistPending
  <2>4. plan.stage = "put" /\ plan.draft = e /\ e.ukeys \subseteq Head_(seen[c]).hashes
    BY <2>2, <2>3 DEF UpdateDID, Plan, Throw
  <2>5. f \notin Head_(seen[c]).hashes
    BY <1>1, <1>2, <1>5, <1>8 DEF Dated, HeadHashes
  <2>6. Puts(seen[c], e, {job[c].opts.staged}, minted')
    <3>1. PICK o \in Seeds : o = job[c].opts
      BY <1>1
    <3>2. Pairing(c, o) /\ Early(c, seen[c], o)
      BY <1>2, <3>1 DEF KeysOK
    <3>3. Serial(o.staged) <= minted'[c] /\ Serial(f) <= minted'[c]
      BY <1>5, <1>6, <1>8, <1>9, <3>1
    <3> QED
      BY <1>1, <1>2, <1>8, <1>10, <2>1, <2>4, <2>5, <3>1, <3>2, <3>3,
         RotationFollows
  <2>7. /\ job'[c].stage = "put" /\ job'[c].op = job[c].op
        /\ job'[c].opts = job[c].opts /\ job'[c].keys = job[c].keys
        /\ job'[c].target = job[c].target
        /\ \A d \in Client \ {c} : job'[d] = job[d]
    BY <2>3, <2>4, GotoSame DEF Stage
  <2>8. /\ seen'[c] = seen[c] /\ draft'[c] = e
        /\ \A d \in Client \ {c} : seen'[d] = seen[d] /\ draft'[d] = draft[d]
    BY <2>3, <2>4 DEF TypeOK, LogsOK
  <2>9. PlanWrites(seen'[c], c, job'[c], Plan(job'[c].stage, draft'[c]), minted')
    BY <1>2, <1>6, <1>9, <2>6, <2>7, <2>8 DEF PlanWrites, Plan
  <2>10. Alone(c)
    BY <1>6, <2>7, <2>8 DEF Alone
  <2>11. Dated(HeadHashes(seen'[c]), minted')
    <3>1. \A d \in Client : minted[d] <= minted'[d]
      BY <1>1, <1>5, <1>6
    <3> QED
      BY <1>1, <1>2, <1>6, <2>8, <3>1, KeysTyped, DatedGrows
  <2>12. Sealed(seen'[c])
    BY <1>2, <2>8
  <2>13. seeds'[c].update = First(c) => job[c].opts.update = First(c)
    BY <1>6, <1>11
  <2> QED
    BY <1>1, <1>3, <1>6, <1>12, <1>13, <2>7, <2>9, <2>10, <2>11, <2>12, <2>13, MoveOK
<1> QED
  BY <1>14, <1>15

\* The request carries what the ceremony read and signed.
LEMMA PutKeeps ==
    ASSUME TypeOK, LogInv, NEW c \in Client, PutLogResource(c)
    PROVE  LogInv'
<1>1. /\ job[c].stage = "put" /\ ClientOK(c) /\ Goto(c, "sent")
      /\ UNCHANGED <<log, seeds, minted, seen, draft>>
      /\ wire' = wire \cup {[by |-> c, base |-> seen[c], entry |-> draft[c]]}
  BY DEF PutLogResource, LogInv
<1>2. /\ job'[c].stage = "sent" /\ job'[c].op = job[c].op
      /\ job'[c].opts = job[c].opts /\ job'[c].keys = job[c].keys
      /\ job'[c].target = job[c].target
      /\ \A d \in Client \ {c} : job'[d] = job[d]
  BY <1>1, GotoSame DEF Stage
<1>3. PlanWrites(seen'[c], c, job'[c], Plan(job'[c].stage, draft'[c]), minted)
  BY <1>1, <1>2 DEF ClientOK, PlanWrites, Plan
<1>4. ASSUME NEW m \in wire'
      PROVE  \/ m \in wire /\ m.by # c
             \/ m.by = c /\ Waiting(m)'
  <2>1. CASE m \in wire
    BY <1>1, <2>1, NotWaiting
  <2>2. CASE m = [by |-> c, base |-> seen[c], entry |-> draft[c]]
    BY <1>1, <1>2, <2>2 DEF Waiting
  <2> QED
    BY <1>1, <2>1, <2>2
<1>5. Sealed(seen'[c]) /\ Dated(HeadHashes(seen'[c]), minted)
  BY <1>1 DEF ClientOK
<1> QED
  BY <1>1, <1>2, <1>3, <1>4, <1>5, StayOK

\* The answer moves the pin; the ceremony holds what it held.
LEMMA AckedKeeps ==
    ASSUME TypeOK, LogInv, NEW c \in Client, Acked(c)
    PROVE  LogInv'
<1>1. /\ job[c].stage = "acked" /\ ClientOK(c) /\ Goto(c, "project")
      /\ UNCHANGED <<log, seeds, minted, seen, draft, wire>>
  BY DEF Acked, LogInv
<1>2. /\ job'[c].stage = "project" /\ job'[c].op = job[c].op
      /\ job'[c].opts = job[c].opts /\ job'[c].keys = job[c].keys
      /\ job'[c].target = job[c].target
      /\ \A d \in Client \ {c} : job'[d] = job[d]
  BY <1>1, GotoSame DEF Stage
<1>3. PlanWrites(seen'[c], c, job'[c], Plan(job'[c].stage, draft'[c]), minted)
  BY <1>1, <1>2 DEF ClientOK, PlanWrites, Plan
<1>4. Sealed(seen'[c]) /\ Dated(HeadHashes(seen'[c]), minted)
  BY <1>1 DEF ClientOK
<1>5. \A m \in wire' : m \in wire /\ m.by # c
  BY <1>1, OthersWait
<1> QED
  BY <1>1, <1>2, <1>3, <1>4, <1>5, StayOK

\* A ceremony that goes back to its read holds nothing for a write.
LEMMA ReadAgain ==
    ASSUME TypeOK, LogInv, NEW c \in Client, NEW j,
           job' = [job EXCEPT ![c] = j], j.stage = "read",
           j.op = job[c].op, j.opts = job[c].opts, j.keys = job[c].keys,
           j.target = job[c].target,
           job[c].stage \notin {"idle", "sent"},
           seen' = [seen EXCEPT ![c] = <<>>],
           draft' = [draft EXCEPT ![c] = NoEntry],
           UNCHANGED <<log, seeds, minted, wire>>
    PROVE  LogInv'
<1>1. /\ job'[c] = j /\ seen'[c] = <<>>
      /\ \A d \in Client \ {c} : /\ job'[d] = job[d] /\ seen'[d] = seen[d]
                                 /\ draft'[d] = draft[d]
  BY DEF TypeOK, LogsOK, JobsOK
<1>2. PlanWrites(seen'[c], c, job'[c], Plan(job'[c].stage, draft'[c]), minted)
  BY <1>1 DEF PlanWrites, Plan
<1>3. Sealed(seen'[c]) /\ Dated(HeadHashes(seen'[c]), minted)
  BY <1>1 DEF Sealed, Dated, HeadHashes
<1>4. \A m \in wire' : m \in wire /\ m.by # c
  BY OthersWait
<1> QED
  BY <1>1, <1>2, <1>3, <1>4, StayOK

\* A refused write starts the ceremony over, or ends it.
LEMMA ConflictKeeps ==
    ASSUME TypeOK, LogInv, NEW c \in Client, Conflict(c)
    PROVE  LogInv'
<1>1. /\ job[c].stage = "conflict" /\ ClientOK(c) /\ job[c] \in Job
      /\ UNCHANGED <<log, seeds, minted, wire>> /\ Mints(c)
  BY DEF Conflict, LogInv, TypeOK, JobsOK, SeedsOK, Mints
<1>2. CASE End(c)
  BY <1>1, <1>2, OthersWait, EndOK DEF ClientOK
<1>3. CASE ~End(c)
  <2>1. PICK j : j = [job[c] EXCEPT !.stage = "read", !.step = "commit",
                                    !.attempt = job[c].attempt + 1]
    OBVIOUS
  <2>2. /\ job' = [job EXCEPT ![c] = j]
        /\ seen' = [seen EXCEPT ![c] = <<>>]
        /\ draft' = [draft EXCEPT ![c] = NoEntry]
    BY <1>3, <2>1, Zenon DEF Conflict
  <2>3. /\ j.stage = "read" /\ j.op = job[c].op /\ j.opts = job[c].opts
        /\ j.keys = job[c].keys /\ j.target = job[c].target
    BY <1>1, <2>1 DEF Job
  <2> QED
    BY <1>1, <2>2, <2>3, ReadAgain
<1> QED
  BY <1>2, <1>3

\* A rotation found in the log moves the seeds up: the staged seed is current,
\* and the one persisted before its publication follows it.
LEMMA RollForwardKeeps ==
    ASSUME TypeOK, LogInv, NEW c \in Client, RollForward(c)
    PROVE  LogInv'
<1>1. /\ job[c].stage = "rollForward" /\ ClientOK(c) /\ CallOK(c)
      /\ Goto(c, "project")
      /\ job[c].opts.pending \in Key
      /\ UNCHANGED <<log, minted, seen, draft, wire>>
  BY DEF RollForward, LogInv, ClientOK, TypeOK, JobsOK
<1>2. /\ job'[c].stage = "project" /\ job'[c].op = job[c].op
      /\ job'[c].opts = job[c].opts /\ job'[c].keys = job[c].keys
      /\ job'[c].target = job[c].target
      /\ \A d \in Client \ {c} : job'[d] = job[d]
  BY <1>1, GotoSame DEF Stage
<1>3. PICK s : s = [update |-> job[c].opts.staged, staged |-> job[c].opts.pending,
                    pending |-> NoKey]
  OBVIOUS
<1>4. seeds'[c] = s /\ \A d \in Client \ {c} : seeds'[d] = seeds[d]
  BY <1>3 DEF RollForward, TypeOK, SeedsOK
<1>5. job[c].opts.pending # NoKey
  BY <1>1 DEF Key, NoKey
<1>6. KeysOK(c, log, minted[c], job[c].opts) /\ c \in Ever(log)
  BY <1>1 DEF CallOK, ClientOK, PlanWrites, Plan
<1>7. KeysOK(c, log, minted[c], s) /\ s.update # First(c)
  BY <1>3, <1>5, <1>6 DEF KeysOK, Pairing, Following, Dates, Early
<1>8. PlanWrites(seen'[c], c, job'[c], Plan(job'[c].stage, draft'[c]), minted)
  BY <1>1, <1>2 DEF ClientOK, PlanWrites, Plan
<1>9. Alone(c) /\ Mints(c) /\ Sealed(seen'[c]) /\ Dated(HeadHashes(seen'[c]), minted)
  BY <1>1, <1>2, <1>4 DEF Alone, ClientOK, Mints, TypeOK, SeedsOK
<1>10. \A m \in wire' : m \in wire /\ m.by # c
  BY <1>1, OthersWait
<1>11. /\ KeysOK(c, log, minted'[c], seeds'[c])
       /\ KeysOK(c, log, minted'[c], job[c].opts)
       /\ seeds'[c].update # First(c) /\ minted' = minted
  BY <1>1, <1>4, <1>6, <1>7
<1> QED
  BY <1>1, <1>2, <1>8, <1>9, <1>10, <1>11, MoveOK

\* After the did:web write a rotation goes on to its last persist, and an
\* enrollment's commit to its add entry's read.
LEMMA ProjectKeeps ==
    ASSUME TypeOK, LogInv, NEW c \in Client, PutDidWebProjection(c)
    PROVE  LogInv'
<1>1. /\ job[c].stage = "project" /\ ClientOK(c) /\ job[c] \in Job
      /\ UNCHANGED <<log, seeds, minted, wire>> /\ Mints(c)
  BY DEF PutDidWebProjection, LogInv, TypeOK, JobsOK, SeedsOK, Mints
<1>2. CASE End(c)
  BY <1>1, <1>2, OthersWait, EndOK DEF ClientOK
<1>3. CASE /\ draft[c] # NoEntry /\ job[c].op = "rotate" /\ Goto(c, "finalize")
           /\ UNCHANGED <<seen, draft>>
  <2>1. /\ job'[c].stage = "finalize" /\ job'[c].op = job[c].op
        /\ job'[c].opts = job[c].opts /\ job'[c].keys = job[c].keys
        /\ job'[c].target = job[c].target
        /\ \A d \in Client \ {c} : job'[d] = job[d]
    BY <1>3, GotoSame DEF Stage
  <2>2. PlanWrites(seen'[c], c, job'[c], Plan(job'[c].stage, draft'[c]), minted)
    BY <1>1, <1>3, <2>1 DEF ClientOK, PlanWrites, Plan
  <2>3. Sealed(seen'[c]) /\ Dated(HeadHashes(seen'[c]), minted)
    BY <1>1, <1>3 DEF ClientOK
  <2>4. \A m \in wire' : m \in wire /\ m.by # c
    BY <1>1, OthersWait
  <2> QED
    BY <1>1, <1>3, <2>1, <2>2, <2>3, <2>4, StayOK
<1>4. CASE /\ job' = [job EXCEPT ![c] = [@ EXCEPT !.stage = "read",
                                                  !.step = "add"]]
           /\ seen' = [seen EXCEPT ![c] = <<>>]
           /\ draft' = [draft EXCEPT ![c] = NoEntry]
  <2>1. PICK j : j = [job[c] EXCEPT !.stage = "read", !.step = "add"]
    OBVIOUS
  <2>2. /\ j.stage = "read" /\ j.op = job[c].op /\ j.opts = job[c].opts
        /\ j.keys = job[c].keys /\ j.target = job[c].target
    BY <1>1, <2>1 DEF Job
  <2>3. job' = [job EXCEPT ![c] = j]
    BY <1>4, <2>1
  <2> QED
    BY <1>1, <1>4, <2>2, <2>3, ReadAgain
<1> QED
  BY <1>2, <1>3, <1>4 DEF PutDidWebProjection

\* A rotation's last seeds: the key it revealed and the one it minted last.
LEMMA FinalizeKeeps ==
    ASSUME TypeOK, LogInv, NEW c \in Client, Finalize(c)
    PROVE  LogInv'
<1>1. /\ job[c].stage = "finalize" /\ ClientOK(c) /\ CallOK(c) /\ End(c)
      /\ job[c].opts \in Seeds /\ minted \in [Client -> Nat]
      /\ UNCHANGED <<log, minted, wire>>
  BY DEF Finalize, LogInv, ClientOK, TypeOK, SeedsOK, JobsOK
<1>2. PICK s : s = [update |-> job[c].opts.staged, staged |-> <<c, minted[c]>>,
                    pending |-> NoKey]
  OBVIOUS
<1>3. seeds'[c] = s /\ \A d \in Client \ {c} : seeds'[d] = seeds[d]
  BY <1>2 DEF Finalize, TypeOK, SeedsOK
<1>4. /\ KeysOK(c, log, minted[c], job[c].opts) /\ c \in Ever(log)
      /\ Serial(job[c].opts.staged) < minted[c] /\ 2 <= minted[c]
  BY <1>1 DEF CallOK, ClientOK, PlanWrites, Plan
<1>5. PICK n \in Nat \ {0} : job[c].opts.staged = <<c, n>>
  BY <1>1, <1>4 DEF KeysOK, Pairing, Owner, Seeds, Key
<1>6. n # 1 /\ n < minted[c]
  BY <1>4, <1>5 DEF KeysOK, Pairing, First, Serial
<1>7. KeysOK(c, log, minted[c], s)
  <2>1. s.update = <<c, n>> /\ s.staged = <<c, minted[c]>> /\ s.pending = NoKey
    BY <1>2, <1>5
  <2>2. s.staged \notin {First(c), Second(c), s.update}
    BY <1>1, <1>4, <1>6, <2>1 DEF First, Second
  <2>3. s.update # First(c)
    BY <1>6, <2>1 DEF First
  <2>4. Pairing(c, s) /\ Following(c, s) /\ Dates(minted[c], s)
    BY <1>1, <1>6, <2>1, <2>2, <2>3 DEF Pairing, Following, Dates, Owner, Serial
  <2> QED
    BY <1>4, <2>3, <2>4 DEF KeysOK, Early
<1> QED
  BY <1>1, <1>3, <1>7, OthersWait, EndOK DEF Mints

\* A client that gives up takes its request with it, unless requests may be
\* delayed.
LEMMA CutKeeps ==
    ASSUME TypeOK, LogInv, Delayed = FALSE, NEW c \in Client, CutShort(c)
    PROVE  LogInv'
<1>1. /\ End(c) /\ ClientOK(c) /\ UNCHANGED <<log, seeds, minted>>
      /\ wire' = {m \in wire : m.by # c} /\ Mints(c)
  BY DEF CutShort, LogInv, Mints, TypeOK, SeedsOK
<1> QED
  BY <1>1, EndOK DEF ClientOK

\* What a longer log's head is.
LEMMA AppendHead ==
    ASSUME NEW l \in Seq(Entry), NEW e \in Entry
    PROVE  /\ Append(l, e) \in Seq(Entry) /\ Append(l, e) # <<>>
           /\ Head_(Append(l, e)) = e /\ HeadKeys(Append(l, e)) = e.ukeys
           /\ HeadHashes(Append(l, e)) = e.hashes
  BY DEF Head_, HeadKeys, HeadHashes

\* A client's seeds stay right over a longer log, unless the entry reveals a
\* later key of a client that still holds its first as the current one.
LEMMA KeysAfter ==
    ASSUME NEW l \in Seq(Entry), NEW e \in Entry, NEW K, NEW m,
           Puts(l, e, K, m), NEW d \in Client, NEW x, NEW s, KeysOK(d, l, x, s),
           s.update = First(d) => \A k \in K : Owner(k) = d => k = Second(d)
    PROVE  KeysOK(d, Append(l, e), x, s)
<1>1. Ever(l) \subseteq Ever(Append(l, e)) /\ HeadKeys(Append(l, e)) = e.ukeys
  BY EverGrows, AppendHead
<1>2. Early(d, Append(l, e), s)
  <2> SUFFICES ASSUME s.update = First(d), NEW k \in e.ukeys, Owner(k) = d
               PROVE  k \in {First(d), Second(d)}
    BY <1>1 DEF Early, Mine
  <2>1. CASE k \in HeadKeys(l)
    BY <2>1 DEF KeysOK, Early, Mine
  <2>2. CASE k \notin HeadKeys(l)
    BY <2>2 DEF Puts, NewKeys, IsFirst
  <2> QED
    BY <2>1, <2>2
<1> QED
  BY <1>1, <1>2 DEF KeysOK

\* A request that lands on the log its sender read makes it a sealed log.
LEMMA LandKeeps ==
    ASSUME TypeOK, LogInv, NEW m \in wire, Land(m)
    PROVE  LogInv'
<1>1. PICK c \in Client : c = m.by
  BY DEF LogInv
<1>2. /\ job[c].stage = "sent" /\ seen[c] = m.base /\ draft[c] = m.entry
      /\ ClientOK(c) /\ CallOK(c) /\ m \in Request /\ wire \subseteq Request
      /\ log \in Seq(Entry) /\ m.entry \in Entry /\ m.base \in Seq(Entry)
      /\ minted \in [Client -> Nat]
  BY <1>1 DEF LogInv, ClientOK, Waiting, TypeOK, LogsOK, SeedsOK, Request
<1>3. PICK stage \in {"acked", "conflict"} :
        stage = IF Accepts(m) THEN "acked" ELSE "conflict"
  OBVIOUS
<1>4. /\ Goto(c, stage) /\ UNCHANGED <<seeds, minted, seen, draft>>
      /\ wire' = wire \ {m}
      /\ log' = IF Accepts(m) THEN Append(m.base, m.entry) ELSE log
  BY <1>1, <1>3 DEF Land, Goto, LogInv
<1>5. /\ job'[c].stage = stage /\ job'[c].op = job[c].op
      /\ job'[c].opts = job[c].opts /\ job'[c].keys = job[c].keys
      /\ job'[c].target = job[c].target
      /\ \A d \in Client \ {c} : job'[d] = job[d]
  BY <1>4, GotoSame DEF Stage
<1>6. ASSUME NEW n \in wire' PROVE n \in wire /\ n.by # c
  <2>1. n \in wire /\ n # m /\ n \in Request
    BY <1>2, <1>4
  <2>2. SUFFICES ASSUME n.by = c PROVE FALSE
    BY <2>1
  <2>3. n.base = m.base /\ n.entry = m.entry
    BY <1>2, <2>1, <2>2 DEF LogInv, Waiting
  <2> QED
    BY <1>1, <1>2, <2>1, <2>2, <2>3 DEF Request
<1>7. PlanWrites(seen'[c], c, job'[c], Plan(job'[c].stage, draft'[c]), minted)
  BY <1>2, <1>3, <1>4, <1>5 DEF ClientOK, PlanWrites, Plan
<1>8. Sealed(seen'[c]) /\ Dated(HeadHashes(seen'[c]), minted)
  BY <1>2, <1>4 DEF ClientOK
<1>9. CASE ~Accepts(m)
  <2>1. UNCHANGED <<log, seeds, minted, seen, draft>>
    BY <1>4, <1>9
  <2> QED
    BY <1>2, <1>5, <1>6, <1>7, <1>8, <2>1, StayOK
<1>10. CASE Accepts(m)
  <2>1. PICK e \in Entry : e = m.entry /\ e = draft[c] /\ log' = Append(log, e)
        /\ log = seen[c]
    BY <1>2, <1>4, <1>10 DEF Accepts
  <2>2. PICK K : K = IF job[c].op = "rotate" THEN {job[c].opts.staged} ELSE {}
    OBVIOUS
  <2>3. Puts(log, e, K, minted)
    BY <1>2, <2>1, <2>2 DEF ClientOK, PlanWrites, Plan
  <2>4. Sealed(log')
    BY <1>2, <2>1, <2>3, Seal DEF Puts, LogInv
  <2>5. Dated(HeadHashes(log'), minted)
    <3>1. HeadHashes(log') = e.hashes /\ e.hashes \subseteq HeadHashes(log) \cup Added(log, e)
      BY <1>2, <2>1, AppendHead DEF Added, NewHashes
    <3> QED
      BY <2>3, <3>1 DEF LogInv, Puts, Dated
  <2>6. Ever(log) \subseteq Ever(log')
    BY <1>2, <2>1, EverGrows
  <2>7. ASSUME NEW d \in Client, d # c PROVE ClientOK(d)'
    <3>1. /\ ClientOK(d) /\ CallOK(d) /\ job'[d] = job[d] /\ seeds'[d] = seeds[d]
          /\ seen'[d] = seen[d] /\ draft'[d] = draft[d] /\ minted'[d] = minted[d]
          /\ minted' = minted
      BY <1>4, <1>5, <2>7 DEF LogInv, ClientOK
    <3>2. \A k \in K : Owner(k) = c
      BY <1>2, <2>2 DEF CallOK, KeysOK, Pairing
    <3>3. ASSUME NEW s, KeysOK(d, log, minted[d], s)
          PROVE  KeysOK(d, log', minted[d], s)
      BY <1>2, <2>1, <2>3, <2>7, <3>2, <3>3, KeysAfter
    <3>4. KeysOK(d, log', minted'[d], seeds'[d])
      BY <3>1, <3>3 DEF ClientOK
    <3>5. CallOK(d)'
      <4>1. job[d].stage # "idle" => KeysOK(d, log', minted[d], job[d].opts)
        BY <3>1, <3>3 DEF CallOK
      <4> QED
        BY <2>6, <3>1, <4>1 DEF CallOK
    <3> QED
      BY <3>1, <3>4, <3>5 DEF ClientOK
  <2>8. ClientOK(c)'
    <3>1. ASSUME NEW s, KeysOK(c, log, minted[c], s),
                 s.update = First(c) => job[c].opts.update = First(c)
          PROVE  KeysOK(c, log', minted[c], s)
      <4>1. s.update = First(c) => \A k \in K : Owner(k) = c => k = Second(c)
        BY <1>2, <2>2, <3>1 DEF CallOK, KeysOK, Pairing
      <4> QED
        BY <1>2, <2>1, <2>3, <3>1, <4>1, KeysAfter
    <3>2. KeysOK(c, log', minted[c], seeds[c])
      BY <1>2, <3>1 DEF ClientOK, CallOK
    <3>3. KeysOK(c, log', minted[c], job[c].opts)
      BY <1>2, <3>1 DEF CallOK
    <3>4. CallOK(c)'
      BY <1>2, <1>4, <1>5, <2>6, <3>3 DEF CallOK
    <3> QED
      BY <1>2, <1>4, <1>7, <1>8, <3>2, <3>4 DEF ClientOK
  <2>9. ASSUME NEW n \in wire' PROVE n.by \in Client /\ Waiting(n)'
    <3>1. n \in wire /\ n.by # c /\ n.by \in Client /\ Waiting(n)
      BY <1>6 DEF LogInv
    <3> QED
      BY <1>4, <1>5, <3>1 DEF Waiting
  <2>10. Dated(HeadHashes(log'), minted')
    BY <1>4, <2>5
  <2> QED
    BY <2>4, <2>7, <2>8, <2>9, <2>10 DEF LogInv
<1> QED
  BY <1>9, <1>10

\* ResolveInv is kept by every step, where no request is delayed.
LEMMA ResolveStep ==
    ASSUME Delayed = FALSE
    PROVE  TypeOK /\ ResolveInv /\ [Next]_vars => ResolveInv'
<1> SUFFICES ASSUME TypeOK, ResolveInv, [Next]_vars, rollbacks' = 0
             PROVE  LogInv'
  BY DEF ResolveInv
<1>1. CASE HostRollsBack
  <2>1. rollbacks \in Nat /\ rollbacks' = rollbacks + 1
    BY <1>1 DEF HostRollsBack, TypeOK, CountersOK
  <2> QED
    BY <2>1
<1>2. CASE ~HostRollsBack
  <2>1. rollbacks' = rollbacks
    <3>1. ASSUME NEW c \in Client, HostCalls(c) PROVE rollbacks' = rollbacks
      BY <3>1 DEF HostCalls, StartEnsure, StartRotate, StartEnroll,
         StartRevoke, Start
    <3>2. ASSUME NEW c \in Client, CeremonyStep(c) \/ CutShort(c)
          PROVE  rollbacks' = rollbacks
      BY <3>2 DEF CeremonyStep, ReadPublishedLog, PersistPending,
         PutLogResource, Acked, Conflict, RollForward, PutDidWebProjection,
         Finalize, CutShort, counters
    <3>3. ASSUME NEW m \in wire, Land(m) PROVE rollbacks' = rollbacks
      BY <3>3 DEF Land, counters
    <3>4. CASE UNCHANGED vars
      BY <3>4 DEF vars
    <3> QED
      BY <1>2, <3>1, <3>2, <3>3, <3>4 DEF Next
  <2>2. LogInv
    BY <2>1 DEF ResolveInv
  <2>3. CASE UNCHANGED vars
    BY <2>2, <2>3 DEF vars, LogInv, ClientOK, CallOK, Waiting
  <2>4. ASSUME NEW c \in Client, HostCalls(c) \/ CeremonyStep(c) \/ CutShort(c)
        PROVE  LogInv'
    BY <2>2, <2>4, CallsKeep, ReadKeeps, PersistKeeps, PutKeeps, AckedKeeps,
       ConflictKeeps, RollForwardKeeps, ProjectKeeps, FinalizeKeeps, CutKeeps
       DEF CeremonyStep
  <2>5. ASSUME NEW m \in wire, Land(m) PROVE LogInv'
    BY <2>2, <2>5, LandKeeps
  <2> QED
    BY <1>2, <2>3, <2>4, <2>5 DEF Next
<1> QED
  BY <1>1, <1>2

\* Nothing is published and every client holds the seeds it was born with.
LEMMA ResolveInit == Init => ResolveInv
<1> SUFFICES ASSUME Init PROVE LogInv
  BY DEF ResolveInv
<1>1. Sealed(<<>>) /\ Dated(HeadHashes(<<>>), minted)
  BY DEF Sealed, Dated, HeadHashes
<1>2. ASSUME NEW c \in Client PROVE ClientOK(c)
  <2>1. PICK s : s = MintedSeeds(c)
    OBVIOUS
  <2>2. /\ seeds[c] = s /\ minted[c] = 2 /\ job[c].stage = "idle"
        /\ seen[c] = <<>> /\ log = <<>>
    BY <2>1 DEF Init, Idle
  <2>3. /\ s.update = First(c) /\ s.staged = Second(c) /\ s.pending = NoKey
        /\ Serial(First(c)) = 1 /\ Serial(Second(c)) = 2
    BY <2>1 DEF MintedSeeds, First, Second, Serial
  <2>4. Early(c, <<>>, s)
    BY DEF Early, Mine, HeadKeys
  <2>5. KeysOK(c, <<>>, 2, s)
    BY <2>3, <2>4, MintedTyped DEF KeysOK, Pairing, Following, Dates, Born
  <2>6. PlanWrites(seen[c], c, job[c], Plan(job[c].stage, draft[c]), minted)
    BY <2>2 DEF PlanWrites, Plan
  <2> QED
    BY <1>1, <2>2, <2>5, <2>6 DEF ClientOK, CallOK
<1> QED
  BY <1>1, <1>2 DEF Init, LogInv

\* A sealed log resolves, entry by entry.
LEMMA SealedResolves ==
    ASSUME TypeOK, Sealed(log)
    PROVE  LogResolves
<1>1. ASSUME NEW i \in DOMAIN log
      PROVE  /\ log[i].ukeys \subseteq log[i].hashes
             /\ i > 1 => log[i].ukeys \subseteq log[i - 1].hashes
  <2>1. PICK p : p = SubSeq(log, 1, i - 1)
    OBVIOUS
  <2>2. MayFollow(p, log[i])
    BY <2>1 DEF Sealed
  <2>3. log \in Seq(Entry) /\ i \in 1..Len(log)
    BY DEF TypeOK, LogsOK
  <2>4. i > 1 => p # <<>> /\ Head_(p) = log[i - 1]
    BY <2>1, <2>3 DEF Head_
  <2> QED
    BY <2>2, <2>4 DEF MayFollow
<1> QED
  BY <1>1 DEF LogResolves

\* enrollClient.ts, revokeClient.ts and the rotation keep the account log one
\* that resolves: for any clients, ceremonies, retries and crashes, on a host
\* that serves what it was given, and where a request its sender gave up on
\* never lands, every entry's update keys are committed by the entry before it
\* and carried over in its own commitments.
THEOREM EntriesResolve ==
    ASSUME Delayed = FALSE
    PROVE  Spec => [](rollbacks = 0 => LogResolves)
<1>1. TypeOK /\ ResolveInv => (rollbacks = 0 => LogResolves)
  BY SealedResolves DEF ResolveInv, LogInv
<1> QED
  BY <1>1, ResolveInit, ResolveStep, TypeCorrect, PTL DEF Spec
-----------------------------------------------------------------------------
(***************************************************************************)
(* What the account log and its clients' seeds hold of each other: a       *)
(* removed client is out, and an enrolled one can go on from its durable   *)
(* seeds alone. Both rest on the log telling its own story (Told): each    *)
(* entry edits the keys of one client, in one of six ways, and each client *)
(* stands in it with one key and one next key, with what is left of an     *)
(* invitation, or with nothing - as long as it was not approved again      *)
(* after nothing of its first approval stood. From that follows what       *)
(* listClients and clientRemovalFields work out of the log: the very key   *)
(* and commitment the client owns.                                         *)
(***************************************************************************)

\* An approval of client c was committed; the second time, it is ApprovedAgain.
Approved(l, c) == \E i \in DOMAIN l : First(c) \in AddedHashes(l, i)

\* What an entry holds of a client: its key k and its next key n, nothing, the
\* commitments of an enrollment that is not finished, or the one a removal
\* leaves of those.
Pair(e, c, k, n) == k # n /\ Mine(e.ukeys, c) = {k} /\ Mine(e.hashes, c) = {k, n}
Nothing(e, c) == Mine(e.ukeys, c) = {} /\ Mine(e.hashes, c) = {}
Committed(e, c) ==
    Mine(e.ukeys, c) = {} /\ Mine(e.hashes, c) = {First(c), Second(c)}
Withdrawn(e, c) == Mine(e.ukeys, c) = {} /\ Mine(e.hashes, c) = {Second(c)}

\* The six things an entry may do, all to one client x.
Founds(l, e, x) == l = <<>> /\ x \in e.vms /\ Pair(e, x, First(x), Second(x))
Commits(l, e, x) ==
    /\ l # <<>> /\ x \notin Ever(l) /\ x \notin e.vms
    /\ Nothing(Top(l), x) /\ Committed(e, x)
Withdraws(l, e, x) ==
    /\ l # <<>> /\ x \notin Ever(l) /\ x \notin e.vms
    /\ Committed(Top(l), x) /\ Withdrawn(e, x)
Adds(l, e, x) ==
    /\ l # <<>> /\ x \notin Ever(l) /\ x \in e.vms
    /\ Committed(Top(l), x) /\ Pair(e, x, First(x), Second(x))
Rotates(l, e, x) ==
    /\ l # <<>> /\ x \in Top(l).vms /\ x \in e.vms
    /\ \E k, n, f : Pair(Top(l), x, k, n) /\ Pair(e, x, n, f) /\ f \notin {k, First(x)}
Removes(l, e, x) ==
    /\ l # <<>> /\ x \in Top(l).vms /\ x \notin e.vms /\ Nothing(e, x)
    /\ \E y \in Client \ {x} : y \in Top(l).vms \/ ApprovedAgain(l, y)

\* The entry leaves client d as it is.
Same(l, e, d) ==
    /\ Mine(e.ukeys, d) = Mine(Top(l).ukeys, d)
    /\ Mine(e.hashes, d) = Mine(Top(l).hashes, d)
    /\ d \in e.vms <=> d \in Top(l).vms

Changes(l, e, x) ==
    \/ Founds(l, e, x) \/ Commits(l, e, x) \/ Withdraws(l, e, x)
    \/ Adds(l, e, x) \/ Rotates(l, e, x) \/ Removes(l, e, x)

\* The entry is an edit of client x; of one approved again it may be any.
EditOf(l, e, x) ==
    /\ \A d \in Client \ {x} : Same(l, e, d)
    /\ ApprovedAgain(Append(l, e), x) \/ Same(l, e, x) \/ Changes(l, e, x)
Edit(l, e) == \E x \in Client : EditOf(l, e, x)

\* How a client stands at the end of a log.
Clear(l, c) ==
    /\ c \notin Ever(l) =>
         \/ Nothing(Top(l), c) /\ ~Approved(l, c)
         \/ (Committed(Top(l), c) \/ Withdrawn(Top(l), c)) /\ Approved(l, c)
    /\ c \in Ever(l) => Approved(l, c)
    /\ c \in Ever(l) \ Top(l).vms => Nothing(Top(l), c)
    /\ c \in Top(l).vms => \E k, n : Pair(Top(l), c, k, n) /\ n # First(c)
Stands(l, c) == ApprovedAgain(l, c) \/ Clear(l, c)

\* A log each entry of which edits one client and leaves every one standing.
Told(l) ==
    \A i \in DOMAIN l :
        /\ Edit(SubSeq(l, 1, i - 1), l[i])
        /\ \A c \in Client : Stands(SubSeq(l, 1, i), c)

\* The log a is l and one more entry: what the entries added is what they did.
Grown(l, e, a, n) ==
    /\ DOMAIN l = 1..n /\ DOMAIN a = 1..(n + 1) /\ a \in Seq(Entry)
    /\ \A i \in 1..n : /\ AddedKeys(a, i) = AddedKeys(l, i)
                       /\ AddedHashes(a, i) = AddedHashes(l, i)
    /\ AddedKeys(a, n + 1) = e.ukeys \ Top(l).ukeys
    /\ AddedHashes(a, n + 1) = e.hashes \ Top(l).hashes

\* So it is.
LEMMA AddedStays ==
    ASSUME NEW l \in Seq(Entry), NEW e \in Entry,
           NEW a, a = Append(l, e), NEW n \in Nat, n = Len(l)
    PROVE  Grown(l, e, a, n)
<1>1. /\ DOMAIN l = 1..n /\ DOMAIN a = 1..(n + 1) /\ a \in Seq(Entry)
      /\ \A i \in 1..n : a[i] = l[i]
      /\ a[n + 1] = e
  OBVIOUS
<1>2. ASSUME NEW i \in 1..n
      PROVE  /\ AddedKeys(a, i) = AddedKeys(l, i)
             /\ AddedHashes(a, i) = AddedHashes(l, i)
  <2>1. a[i] = l[i] /\ (i # 1 => a[i - 1] = l[i - 1])
    BY <1>1
  <2> QED
    BY <2>1 DEF AddedKeys, AddedHashes
<1>3. /\ n = 0 => Top(l) = NoEntry
      /\ n # 0 => n + 1 # 1 /\ a[n + 1 - 1] = Top(l)
  <2>1. n = 0 => l = <<>>
    <3>1. l # <<>> => Len(l) \in DOMAIN l /\ DOMAIN l = 1..Len(l)
      OBVIOUS
    <3> QED
      BY <3>1
  <2>2. n # 0 => l # <<>>
    OBVIOUS
  <2>3. n # 0 => n \in 1..n /\ n + 1 - 1 = n /\ n + 1 # 1
    <3>1. \A m \in Nat : m # 0 => m \in 1..m /\ m + 1 - 1 = m /\ m + 1 # 1
      OBVIOUS
    <3> QED
      BY <3>1
  <2> QED
    BY <1>1, <2>1, <2>2, <2>3 DEF Top, Head_
<1>4. /\ AddedKeys(a, n + 1) = e.ukeys \ Top(l).ukeys
      /\ AddedHashes(a, n + 1) = e.hashes \ Top(l).hashes
  BY <1>1, <1>3 DEF AddedKeys, AddedHashes, NoEntry
<1> QED
  BY <1>1, <1>2, <1>4 DEF Grown
\* Appending an entry approves a client when it commits its first hash, and
\* again when it was approved before.
LEMMA ApprovedGrows ==
    ASSUME NEW l \in Seq(Entry), NEW e \in Entry, NEW c
    PROVE  /\ Approved(Append(l, e), c) <=>
                Approved(l, c) \/ First(c) \in e.hashes \ Top(l).hashes
           /\ ApprovedAgain(Append(l, e), c) <=>
                \/ ApprovedAgain(l, c)
                \/ Approved(l, c) /\ First(c) \in e.hashes \ Top(l).hashes
<1>1. PICK n \in Nat : n = Len(l)
  OBVIOUS
<1>2. PICK a : a = Append(l, e)
  OBVIOUS
<1>3. Grown(l, e, a, n)
  BY <1>1, <1>2, AddedStays
<1>4. /\ DOMAIN l = 1..n /\ DOMAIN a = 1..(n + 1)
      /\ \A i \in 1..n : AddedHashes(a, i) = AddedHashes(l, i)
      /\ AddedHashes(a, n + 1) = e.hashes \ Top(l).hashes
  BY <1>3 DEF Grown
<1>5. /\ \A i \in 1..n : i \in 1..(n + 1) /\ i < n + 1
      /\ \A i \in 1..(n + 1) : i \in 1..n \/ i = n + 1
      /\ \A i \in 1..(n + 1), j \in 1..(n + 1) : i < j => i \in 1..n
      /\ n + 1 \in 1..(n + 1)
  OBVIOUS
<1>6. Approved(a, c) <=> Approved(l, c) \/ First(c) \in e.hashes \ Top(l).hashes
  BY <1>4, <1>5 DEF Approved
<1>7. ApprovedAgain(a, c) <=> \/ ApprovedAgain(l, c)
                              \/ Approved(l, c) /\ First(c) \in e.hashes \ Top(l).hashes
  <2>1. ASSUME ApprovedAgain(a, c)
        PROVE  \/ ApprovedAgain(l, c)
               \/ Approved(l, c) /\ First(c) \in e.hashes \ Top(l).hashes
    <3>1. PICK i \in 1..(n + 1), j \in 1..(n + 1) :
             i < j /\ First(c) \in AddedHashes(a, i) /\ First(c) \in AddedHashes(a, j)
      BY <1>4, <2>1 DEF ApprovedAgain
    <3>2. i \in 1..n /\ First(c) \in AddedHashes(l, i)
      BY <1>4, <1>5, <3>1
    <3>3. CASE j \in 1..n
      BY <1>4, <3>1, <3>2, <3>3 DEF ApprovedAgain
    <3>4. CASE j = n + 1
      BY <1>4, <3>1, <3>2, <3>4 DEF Approved
    <3> QED
      BY <1>5, <3>3, <3>4
  <2>2. ASSUME ApprovedAgain(l, c) PROVE ApprovedAgain(a, c)
    BY <1>4, <1>5, <2>2 DEF ApprovedAgain
  <2>3. ASSUME Approved(l, c), First(c) \in e.hashes \ Top(l).hashes
        PROVE  ApprovedAgain(a, c)
    BY <1>4, <1>5, <2>3 DEF ApprovedAgain, Approved
  <2> QED
    BY <2>1, <2>2, <2>3
<1> QED
  BY <1>2, <1>6, <1>7

\* What an entry leaves as it is was approved as often as before.
LEMMA SameApproved ==
    ASSUME NEW l \in Seq(Entry), NEW e \in Entry, NEW c \in Client, Same(l, e, c)
    PROVE  /\ Approved(Append(l, e), c) <=> Approved(l, c)
           /\ ApprovedAgain(Append(l, e), c) <=> ApprovedAgain(l, c)
<1>1. First(c) \notin e.hashes \ Top(l).hashes
  BY DEF Same, Mine, First, Owner
<1> QED
  BY <1>1, ApprovedGrows

\* The clients a log's head names are named by the log.
LEMMA TopEver ==
    ASSUME NEW l \in Seq(Entry)
    PROVE  Top(l).vms \subseteq Ever(l) /\ Enrolled(l) = Top(l).vms
<1>1. CASE l = <<>>
  BY <1>1 DEF Top, NoEntry, Enrolled
<1>2. CASE l # <<>>
  <2>1. Len(l) \in DOMAIN l /\ Top(l) = l[Len(l)] /\ Enrolled(l) = Top(l).vms
    BY <1>2 DEF Top, Head_, Enrolled
  <2> QED
    BY <2>1 DEF Ever
<1> QED
  BY <1>1, <1>2

\* What one more entry makes the top of the log and the clients it names.
LEMMA TopGrows ==
    ASSUME NEW l \in Seq(Entry), NEW e \in Entry
    PROVE  /\ Append(l, e) \in Seq(Entry) /\ Append(l, e) # <<>>
           /\ Top(Append(l, e)) = e /\ Ever(Append(l, e)) = Ever(l) \cup e.vms
  BY AppendHead, EverGrows DEF Top

-----------------------------------------------------------------------------
\* An entry made over a log on which every client stands leaves them standing.
LEMMA EditStands ==
    ASSUME NEW l \in Seq(Entry), NEW e \in Entry, Edit(l, e),
           NEW c \in Client, Stands(l, c)
    PROVE  Stands(Append(l, e), c)
<1>1. PICK a : a = Append(l, e)
  OBVIOUS
<1>2. a # <<>> /\ Top(a) = e /\ Ever(a) = Ever(l) \cup e.vms
  BY <1>1, TopGrows
<1>3. PICK x \in Client : EditOf(l, e, x)
  BY DEF Edit
<1>4. Top(l).vms \subseteq Ever(l)
  BY TopEver
<1>5. /\ Approved(a, c) <=> Approved(l, c) \/ First(c) \in e.hashes \ Top(l).hashes
      /\ ApprovedAgain(l, c) => ApprovedAgain(a, c)
  BY <1>1, ApprovedGrows
<1> SUFFICES ASSUME ~ApprovedAgain(a, c) PROVE Clear(a, c)
  BY <1>1 DEF Stands
<1>6. Clear(l, c)
  BY <1>5 DEF Stands
<1>7. CASE Same(l, e, c)
  <2>1. Approved(a, c) <=> Approved(l, c)
    BY <1>1, <1>7, SameApproved
  <2>2. /\ \A k, n : Pair(e, c, k, n) <=> Pair(Top(l), c, k, n)
        /\ Nothing(e, c) <=> Nothing(Top(l), c)
        /\ Committed(e, c) <=> Committed(Top(l), c)
        /\ Withdrawn(e, c) <=> Withdrawn(Top(l), c)
    BY <1>7 DEF Same, Pair, Nothing, Committed, Withdrawn
  <2>3. c \in e.vms <=> c \in Top(l).vms
    BY <1>7 DEF Same
  <2> QED
    BY <1>2, <1>4, <1>6, <2>1, <2>2, <2>3 DEF Clear
<1>8. CASE c = x /\ Founds(l, e, c)
  <2>1. /\ c \in e.vms /\ Pair(e, c, First(c), Second(c)) /\ Top(l) = NoEntry
        /\ First(c) # Second(c)
    BY <1>8 DEF Founds, Top, First, Second
  <2>2. First(c) \in e.hashes \ Top(l).hashes
    BY <2>1 DEF Pair, Mine, NoEntry
  <2> QED
    BY <1>2, <1>5, <2>1, <2>2 DEF Clear
<1>9. CASE c = x /\ Commits(l, e, c)
  <2>1. c \notin Ever(a) /\ c \notin e.vms /\ Nothing(Top(l), c) /\ Committed(e, c)
    BY <1>2, <1>9 DEF Commits
  <2>2. First(c) \in e.hashes \ Top(l).hashes
    BY <2>1 DEF Nothing, Committed, Mine
  <2> QED
    BY <1>2, <1>5, <2>1, <2>2 DEF Clear
<1>10. CASE c = x /\ Withdraws(l, e, c)
  <2>1. /\ c \notin Ever(l) /\ c \notin Ever(a) /\ c \notin e.vms
        /\ Committed(Top(l), c) /\ Withdrawn(e, c)
    BY <1>2, <1>10 DEF Withdraws
  <2>2. Approved(l, c)
    BY <1>6, <2>1 DEF Clear, Committed, Nothing
  <2> QED
    BY <1>2, <1>5, <2>1, <2>2 DEF Clear
<1>11. CASE c = x /\ Adds(l, e, c)
  <2>1. /\ c \notin Ever(l) /\ c \in e.vms /\ Committed(Top(l), c)
        /\ Pair(e, c, First(c), Second(c)) /\ First(c) # Second(c)
    BY <1>11 DEF Adds, First, Second
  <2>2. Approved(l, c)
    BY <1>6, <2>1 DEF Clear, Committed, Nothing
  <2> QED
    BY <1>2, <1>5, <2>1, <2>2 DEF Clear
<1>12. CASE c = x /\ Rotates(l, e, c)
  <2>1. PICK n, f : c \in Top(l).vms /\ c \in e.vms /\ Pair(e, c, n, f) /\ f # First(c)
    BY <1>12 DEF Rotates
  <2>2. Approved(l, c)
    BY <1>4, <1>6, <2>1 DEF Clear
  <2> QED
    BY <1>2, <1>5, <2>1, <2>2 DEF Clear
<1>13. CASE c = x /\ Removes(l, e, c)
  <2>1. c \in Top(l).vms /\ c \notin e.vms /\ Nothing(e, c)
    BY <1>13 DEF Removes
  <2>2. c \in Ever(l) /\ Approved(l, c)
    BY <1>4, <1>6, <2>1 DEF Clear
  <2> QED
    BY <1>2, <1>5, <2>1, <2>2 DEF Clear
<1> QED
  BY <1>1, <1>3, <1>7, <1>8, <1>9, <1>10, <1>11, <1>12, <1>13 DEF EditOf, Changes

\* A told log is told up to each of its entries, and every client stands at
\* its end.
LEMMA ToldUpTo ==
    ASSUME NEW l \in Seq(Entry), Told(l), NEW i \in DOMAIN l
    PROVE  /\ SubSeq(l, 1, i) \in Seq(Entry) /\ SubSeq(l, 1, i) # <<>>
           /\ Top(SubSeq(l, 1, i)) = l[i]
           /\ \A c \in Client : Stands(SubSeq(l, 1, i), c)
           /\ SubSeq(l, 1, i - 1) \in Seq(Entry)
           /\ i = 1 => SubSeq(l, 1, i - 1) = <<>>
           /\ i # 1 => /\ SubSeq(l, 1, i - 1) # <<>> /\ i - 1 \in DOMAIN l
                       /\ Top(SubSeq(l, 1, i - 1)) = l[i - 1]
           /\ Edit(SubSeq(l, 1, i - 1), l[i])
<1>1. l[i] \in Entry /\ i \in 1..Len(l)
  OBVIOUS
<1>2. SubSeq(l, 1, i) \in Seq(Entry) /\ SubSeq(l, 1, i) # <<>>
      /\ Top(SubSeq(l, 1, i)) = l[i]
  BY <1>1 DEF Top, Head_
<1>3. SubSeq(l, 1, i - 1) \in Seq(Entry) /\ (i = 1 => SubSeq(l, 1, i - 1) = <<>>)
  BY <1>1
<1>4. i # 1 => /\ SubSeq(l, 1, i - 1) # <<>> /\ i - 1 \in DOMAIN l
               /\ Top(SubSeq(l, 1, i - 1)) = l[i - 1]
  BY <1>1 DEF Top, Head_
<1> QED
  BY <1>2, <1>3, <1>4 DEF Told

\* A client stands at the end of a told log.
LEMMA ToldStands ==
    ASSUME NEW l \in Seq(Entry), Told(l), NEW c \in Client
    PROVE  Stands(l, c)
<1>1. CASE l = <<>>
  <2>1. Top(l) = NoEntry /\ Ever(l) = {}
    BY <1>1 DEF Top, Ever
  <2> QED
    BY <1>1, <2>1 DEF Stands, Clear, Approved, NoEntry, Nothing, Mine
<1>2. CASE l # <<>>
  <2>1. Len(l) \in DOMAIN l /\ SubSeq(l, 1, Len(l)) = l
    BY <1>2
  <2> QED
    BY <2>1 DEF Told
<1> QED
  BY <1>1, <1>2

\* A told log with one more entry that edits one client is told.
LEMMA Tell ==
    ASSUME NEW l \in Seq(Entry), NEW e \in Entry, Told(l), Edit(l, e)
    PROVE  Told(Append(l, e))
<1>1. PICK n \in Nat : n = Len(l) /\ DOMAIN l = 1..n
  OBVIOUS
<1>2. PICK a : a = Append(l, e)
  OBVIOUS
<1>3. a \in Seq(Entry) /\ DOMAIN a = 1..(n + 1) /\ Len(a) = n + 1
  BY <1>1, <1>2
<1>4. \A c \in Client : Stands(a, c)
  BY <1>2, ToldStands, EditStands
<1>5. ASSUME NEW i \in 1..(n + 1)
      PROVE  /\ Edit(SubSeq(a, 1, i - 1), a[i])
             /\ \A c \in Client : Stands(SubSeq(a, 1, i), c)
  <2>1. CASE i \in 1..n
    <3>1. SubSeq(a, 1, i - 1) = SubSeq(l, 1, i - 1) /\ a[i] = l[i]
          /\ SubSeq(a, 1, i) = SubSeq(l, 1, i)
      BY <1>1, <1>2, <1>3, <2>1
    <3> QED
      BY <1>1, <2>1, <3>1 DEF Told
  <2>2. CASE i = n + 1
    <3>1. SubSeq(a, 1, i - 1) = l /\ a[i] = e /\ SubSeq(a, 1, i) = a
      BY <1>1, <1>2, <1>3, <2>2
    <3> QED
      BY <1>4, <3>1
  <2> QED
    BY <1>1, <2>1, <2>2
<1> QED
  BY <1>2, <1>3, <1>5 DEF Told

-----------------------------------------------------------------------------
(* The key a client is attributed.                                          *)

\* What an entry adds is its one client's.
LEMMA EditAdds ==
    ASSUME NEW l, NEW e \in Entry, NEW x \in Client, EditOf(l, e, x)
    PROVE  /\ e.ukeys \ Top(l).ukeys = Mine(e.ukeys, x) \ Mine(Top(l).ukeys, x)
           /\ e.hashes \ Top(l).hashes = Mine(e.hashes, x) \ Mine(Top(l).hashes, x)
<1>1. ASSUME NEW S, NEW P, S \subseteq Key,
             \A d \in Client \ {x} : Mine(S, d) = Mine(P, d)
      PROVE  S \ P = Mine(S, x) \ Mine(P, x)
  <2>1. ASSUME NEW k \in S \ P PROVE k \in Mine(S, x) \ Mine(P, x)
    <3>1. Owner(k) \in Client
      BY <1>1 DEF Key, Owner
    <3>2. Owner(k) = x
      BY <1>1, <3>1 DEF Mine
    <3> QED
      BY <3>2 DEF Mine
  <2>2. ASSUME NEW k \in Mine(S, x) \ Mine(P, x) PROVE k \in S \ P
    BY DEF Mine
  <2> QED
    BY <2>1, <2>2
<1>2. e.ukeys \subseteq Key /\ e.hashes \subseteq Key
  BY DEF Entry
<1>3. \A d \in Client \ {x} : /\ Mine(e.ukeys, d) = Mine(Top(l).ukeys, d)
                             /\ Mine(e.hashes, d) = Mine(Top(l).hashes, d)
  BY DEF EditOf, Same
<1>4. e.ukeys \ Top(l).ukeys = Mine(e.ukeys, x) \ Mine(Top(l).ukeys, x)
  BY <1>1, <1>2, <1>3
<1>5. e.hashes \ Top(l).hashes = Mine(e.hashes, x) \ Mine(Top(l).hashes, x)
  BY <1>1, <1>2, <1>3
<1> QED
  BY <1>4, <1>5

\* So it is for each entry of a log.
LEMMA EntryAdds ==
    ASSUME NEW l \in Seq(Entry), Told(l), NEW i \in DOMAIN l, NEW x \in Client,
           EditOf(SubSeq(l, 1, i - 1), l[i], x)
    PROVE  LET p == Top(SubSeq(l, 1, i - 1)) IN
           /\ AddedKeys(l, i) = Mine(l[i].ukeys, x) \ Mine(p.ukeys, x)
           /\ AddedHashes(l, i) = Mine(l[i].hashes, x) \ Mine(p.hashes, x)
<1>1. PICK q : q = SubSeq(l, 1, i - 1)
  OBVIOUS
<1>2. l[i] \in Entry
  OBVIOUS
<1>3. /\ i = 1 => Top(q) = NoEntry
      /\ i # 1 => Top(q) = l[i - 1]
  BY <1>1, ToldUpTo DEF Top
<1>4. /\ AddedKeys(l, i) = l[i].ukeys \ Top(q).ukeys
      /\ AddedHashes(l, i) = l[i].hashes \ Top(q).hashes
  BY <1>3 DEF AddedKeys, AddedHashes, NoEntry
<1> QED
  BY <1>1, <1>2, <1>4, EditAdds

\* The one key of a set of one.
LEMMA OnlyIs == (\A k : Only({k}) = k) /\ Only({}) = NoKey
  BY DEF Only

\* attributeActiveUpdateKeys, one entry on: the key stays while the entry
\* authorizes it.
KeyAfter(l, i, key) ==
    IF key \in l[i].ukeys \cup {NoKey} THEN key ELSE Only(AddedKeys(l, i))
Readings(l, add, g) ==
    [i \in DOMAIN l |-> IF i <= add THEN Only(AddedKeys(l, add))
                        ELSE KeyAfter(l, i, g[i - 1])]

\* The entries that name a client, and the first of them.
Naming(l, c) == {i \in DOMAIN l : c \in l[i].vms}
Adding(l, c) == CHOOSE i \in Naming(l, c) : \A j \in Naming(l, c) : i <= j

\* listClients' attribution is such a reading, where there is one.
LEMMA AttributionReads ==
    ASSUME NEW l, NEW c, Naming(l, c) # {}, NEW add, add = Adding(l, c),
           NEW w, w = Readings(l, add, w)
    PROVE  \E g : /\ g = Readings(l, add, g)
                  /\ AttributeClientUpdateKey(l, c) = g[Len(l)]
<1> DEFINE all == {i \in DOMAIN l : c \in l[i].vms}
           at == CHOOSE i \in all : \A j \in all : i <= j
           Reads(g) == g = [i \in DOMAIN l |->
                IF i <= at THEN Only(AddedKeys(l, at))
                ELSE IF g[i - 1] \in l[i].ukeys \cup {NoKey}
                     THEN g[i - 1]
                     ELSE Only(AddedKeys(l, i))]
<1>1. AttributeClientUpdateKey(l, c) = (CHOOSE g : Reads(g))[Len(l)]
  BY DEF AttributeClientUpdateKey, Naming
<1>2. at = add
  BY DEF Naming, Adding
<1>3. \A g : Reads(g) <=> g = Readings(l, add, g)
  BY <1>2, ZenonT(40) DEF Readings, KeyAfter
<1> HIDE DEF Reads
<1>4. Reads(w)
  BY <1>3
<1>5. Reads(CHOOSE g : Reads(g))
  BY <1>4
<1> QED
  BY <1>1, <1>3, <1>5

\* A reading is what it is told to be: the first key, then entry by entry the
\* key its predecessor leaves.
LEMMA ReadingIs ==
    ASSUME NEW n \in Nat, NEW l, DOMAIN l = 1..n, NEW add \in 1..n,
           NEW g, g = Readings(l, add, g), NEW own,
           own[add] = Only(AddedKeys(l, add)),
           \A i \in (add + 1)..n : own[i] = KeyAfter(l, i, own[i - 1])
    PROVE  \A i \in add..n : g[i] = own[i]
<1> SUFFICES ASSUME \E i \in add..n : g[i] # own[i] PROVE FALSE
  OBVIOUS
<1>1. PICK B : B = {i \in add..n : g[i] # own[i]}
  OBVIOUS
<1>2. B \subseteq Nat /\ B # {}
  BY <1>1
<1>3. PICK i \in B : \A j \in B : i <= j
  BY <1>2, Least
<1>4. i \in add..n /\ i \in 1..n
  BY <1>1
<1>5. g[i] = IF i <= add THEN Only(AddedKeys(l, add)) ELSE KeyAfter(l, i, g[i - 1])
  BY <1>4 DEF Readings
<1>6. CASE i = add
  BY <1>1, <1>3, <1>5, <1>6
<1>7. CASE i # add
  <2>1. i \in (add + 1)..n /\ i - 1 \in add..n /\ ~(i <= i - 1)
    BY <1>4, <1>7
  <2>2. g[i - 1] = own[i - 1]
    BY <1>1, <1>3, <2>1
  <2>3. g[i] = KeyAfter(l, i, own[i - 1])
    BY <1>5, <2>1, <2>2
  <2> QED
    BY <1>1, <1>3, <2>1, <2>3
<1> QED
  BY <1>6, <1>7

\* A log's prefixes are approved no more often than it is.
LEMMA AgainUpTo ==
    ASSUME NEW l \in Seq(Entry), NEW c, ~ApprovedAgain(l, c), NEW i \in DOMAIN l
    PROVE  /\ ~ApprovedAgain(SubSeq(l, 1, i), c)
           /\ SubSeq(l, 1, i) = Append(SubSeq(l, 1, i - 1), l[i])
<1>1. PICK q : q = SubSeq(l, 1, i)
  OBVIOUS
<1>2. /\ DOMAIN q = 1..i /\ i \in Nat /\ Len(q) = i /\ q \in Seq(Entry)
      /\ DOMAIN l = 1..Len(l) /\ Len(l) \in Nat /\ i \in 1..Len(l)
      /\ \A j \in 1..i : q[j] = l[j]
  BY <1>1
<1>3. q = Append(SubSeq(l, 1, i - 1), l[i])
  <2>1. PICK b : b = Append(SubSeq(l, 1, i - 1), l[i])
    OBVIOUS
  <2>2. b \in Seq(Entry) /\ Len(b) = i /\ \A j \in 1..i : b[j] = l[j]
    BY <1>2, <2>1
  <2> QED
    BY <1>2, <2>1, <2>2
<1>4. \A j \in 1..i : j \in DOMAIN l /\ (j # 1 => j - 1 \in 1..i)
  BY <1>2
<1>5. \A j \in 1..i : AddedHashes(q, j) = AddedHashes(l, j)
  BY <1>2, <1>4 DEF AddedHashes
<1>6. ~ApprovedAgain(q, c)
  BY <1>2, <1>4, <1>5 DEF ApprovedAgain
<1> QED
  BY <1>1, <1>3, <1>6

\* What an entry of a told log does to a client that is not approved again.
LEMMA EntryChanges ==
    ASSUME NEW l \in Seq(Entry), Told(l), NEW c \in Client, ~ApprovedAgain(l, c),
           NEW i \in DOMAIN l, NEW p, p = SubSeq(l, 1, i - 1)
    PROVE  /\ Same(p, l[i], c) \/ (EditOf(p, l[i], c) /\ Changes(p, l[i], c))
           /\ Clear(SubSeq(l, 1, i), c)
<1>1. PICK x \in Client : EditOf(p, l[i], x)
  BY ToldUpTo DEF Edit
<1>2. ~ApprovedAgain(Append(p, l[i]), c) /\ ~ApprovedAgain(SubSeq(l, 1, i), c)
  BY AgainUpTo
<1>3. Clear(SubSeq(l, 1, i), c)
  BY <1>2, ToldUpTo DEF Stands
<1>4. CASE x = c
  BY <1>1, <1>2, <1>3, <1>4 DEF EditOf
<1>5. CASE x # c
  BY <1>1, <1>3, <1>5 DEF EditOf
<1> QED
  BY <1>4, <1>5

\* The one key of a set is in it.
LEMMA OnlyIn == \A S : Only(S) = NoKey \/ (Only(S) \in S /\ S = {Only(S)})
<1> TAKE S
<1>1. CASE \E k \in S : S = {k}
  <2>1. PICK k \in S : S = {k}
    BY <1>1
  <2>2. Only(S) = k
    BY <2>1, OnlyIs
  <2> QED
    BY <2>1, <2>2
<1>2. CASE ~\E k \in S : S = {k}
  BY <1>2 DEF Only
<1> QED
  BY <1>1, <1>2

\* What is read of client c at an entry: a key of its own that the entry
\* authorizes, or none; for one not approved again the key it stands with.
ReadOf(l, c, i, key) ==
    /\ key # NoKey => Owner(key) = c /\ key \in l[i].ukeys
    /\ ~ApprovedAgain(l, c) => /\ c \in l[i].vms => Mine(l[i].ukeys, c) = {key}
                               /\ c \notin l[i].vms => key = NoKey

\* So it is at the first entry that names the client,
LEMMA ReadFirst ==
    ASSUME NEW l \in Seq(Entry), Told(l), NEW c \in Client,
           NEW add \in Naming(l, c), \A j \in Naming(l, c) : add <= j
    PROVE  ReadOf(l, c, add, Only(AddedKeys(l, add)))
<1>1. PICK p : p = SubSeq(l, 1, add - 1)
  OBVIOUS
<1>2. add \in DOMAIN l /\ c \in l[add].vms /\ l[add] \in Entry
  BY DEF Naming
<1>3. PICK x \in Client : EditOf(p, l[add], x)
  BY <1>1, <1>2, ToldUpTo DEF Edit
<1>4. c \notin Top(p).vms
  <2>1. CASE add = 1
    BY <1>1, <1>2, <2>1, ToldUpTo DEF Top, NoEntry
  <2>2. CASE add # 1
    <3>1. Top(p) = l[add - 1] /\ add - 1 \in DOMAIN l /\ ~(add <= add - 1)
      BY <1>1, <1>2, <2>2, ToldUpTo
    <3> QED
      BY <3>1 DEF Naming
  <2> QED
    BY <2>1, <2>2
<1>5. ~Same(p, l[add], c) /\ x = c
  BY <1>2, <1>3, <1>4 DEF EditOf, Same
<1>6. AddedKeys(l, add) = Mine(l[add].ukeys, c) \ Mine(Top(p).ukeys, c)
  BY <1>1, <1>2, <1>3, <1>5, EntryAdds
<1>7. Only(AddedKeys(l, add)) # NoKey =>
         /\ Owner(Only(AddedKeys(l, add))) = c
         /\ Only(AddedKeys(l, add)) \in l[add].ukeys
  BY <1>6, OnlyIn DEF Mine
<1>8. ASSUME ~ApprovedAgain(l, c)
      PROVE  Mine(l[add].ukeys, c) = {Only(AddedKeys(l, add))}
  <2>1. Changes(p, l[add], c)
    BY <1>1, <1>2, <1>5, <1>8, EntryChanges
  <2>2. Founds(p, l[add], c) \/ Adds(p, l[add], c)
    BY <1>2, <1>4, <2>1 DEF Changes, Commits, Withdraws, Rotates, Removes
  <2>3. Mine(Top(p).ukeys, c) = {}
    BY <2>2 DEF Founds, Adds, Committed, Top, NoEntry, Mine
  <2>4. Mine(l[add].ukeys, c) = {First(c)}
    BY <2>2 DEF Founds, Adds, Pair
  <2>5. AddedKeys(l, add) = {First(c)}
    BY <1>6, <2>3, <2>4
  <2> QED
    BY <2>4, <2>5, OnlyIs
<1> QED
  BY <1>2, <1>7, <1>8 DEF ReadOf

\* and from one entry to the next.
LEMMA ReadNext ==
    ASSUME NEW l \in Seq(Entry), Told(l), NEW c \in Client,
           NEW add \in Naming(l, c), NEW i \in DOMAIN l, add < i,
           NEW key, ReadOf(l, c, i - 1, key)
    PROVE  ReadOf(l, c, i, KeyAfter(l, i, key))
<1>1. PICK p : p = SubSeq(l, 1, i - 1)
  OBVIOUS
<1>2. /\ add \in DOMAIN l /\ c \in l[add].vms /\ i # 1 /\ i - 1 \in DOMAIN l
      /\ l[i] \in Entry /\ l[i - 1] \in Entry
  BY DEF Naming
<1>3. p \in Seq(Entry) /\ p # <<>> /\ Top(p) = l[i - 1]
  BY <1>1, <1>2, ToldUpTo
<1>4. PICK x \in Client : EditOf(p, l[i], x)
  BY <1>1, ToldUpTo DEF Edit
<1>5. AddedKeys(l, i) = Mine(l[i].ukeys, x) \ Mine(l[i - 1].ukeys, x)
  BY <1>1, <1>3, <1>4, EntryAdds
<1>6. PICK k : k = KeyAfter(l, i, key)
  OBVIOUS
<1>7. CASE key \in l[i].ukeys \cup {NoKey}
  <2>1. k = key
    BY <1>6, <1>7 DEF KeyAfter
  <2>2. k # NoKey => Owner(k) = c /\ k \in l[i].ukeys
    BY <1>7, <2>1 DEF ReadOf
  <2>3. ASSUME ~ApprovedAgain(l, c)
        PROVE  /\ c \in l[i].vms => Mine(l[i].ukeys, c) = {k}
               /\ c \notin l[i].vms => k = NoKey
    <3>1. Same(p, l[i], c) \/ Changes(p, l[i], c)
      BY <1>1, <2>3, EntryChanges
    <3>2. CASE Same(p, l[i], c)
      BY <1>3, <2>1, <2>3, <3>2 DEF Same, ReadOf
    <3>3. CASE Changes(p, l[i], c)
      <4>1. c \in Ever(p)
        <5>1. add \in DOMAIN p /\ p[add] = l[add]
          BY <1>1, <1>2
        <5> QED
          BY <1>2, <5>1 DEF Ever
      <4>2. Rotates(p, l[i], c) \/ Removes(p, l[i], c)
        BY <1>3, <3>3, <4>1 DEF Changes, Founds, Commits, Withdraws, Adds
      <4>3. c \in l[i - 1].vms
        BY <1>3, <4>2 DEF Rotates, Removes
      <4>4. Mine(l[i - 1].ukeys, c) = {key} /\ key # NoKey /\ Owner(key) = c
        <5>1. Mine(l[i - 1].ukeys, c) = {key}
          BY <2>3, <4>3 DEF ReadOf
        <5>2. key \in Key
          BY <1>2, <5>1 DEF Mine, Entry
        <5> QED
          BY <5>1, <5>2 DEF Key, NoKey, Mine
      <4>5. key \in Mine(l[i].ukeys, c)
        BY <1>7, <4>4 DEF Mine
      <4>6. FALSE
        <5>1. CASE Rotates(p, l[i], c)
          <6>1. PICK k1, n1, f1 : Pair(l[i - 1], c, k1, n1) /\ Pair(l[i], c, n1, f1)
            BY <1>3, <5>1 DEF Rotates
          <6> QED
            BY <4>4, <4>5, <6>1 DEF Pair
        <5>2. CASE Removes(p, l[i], c)
          BY <4>5, <5>2 DEF Removes, Nothing
        <5> QED
          BY <4>2, <5>1, <5>2
      <4> QED
        BY <4>6
    <3> QED
      BY <3>1, <3>2, <3>3
  <2> QED
    BY <1>6, <2>2, <2>3 DEF ReadOf
<1>8. CASE key \notin l[i].ukeys \cup {NoKey}
  <2>1. k = Only(AddedKeys(l, i)) /\ Owner(key) = c /\ key \in l[i - 1].ukeys
    BY <1>6, <1>8 DEF KeyAfter, ReadOf
  <2>2. ~Same(p, l[i], c)
    BY <1>3, <1>8, <2>1 DEF Same, Mine
  <2>3. x = c
    BY <1>4, <2>2 DEF EditOf
  <2>4. k # NoKey => Owner(k) = c /\ k \in l[i].ukeys
    BY <1>5, <2>1, <2>3, OnlyIn DEF Mine
  <2>5. ASSUME ~ApprovedAgain(l, c)
        PROVE  /\ c \in l[i].vms => Mine(l[i].ukeys, c) = {k}
               /\ c \notin l[i].vms => k = NoKey
    <3>1. Changes(p, l[i], c)
      BY <1>1, <2>2, <2>5, EntryChanges
    <3>2. c \in Ever(p)
      <4>1. add \in DOMAIN p /\ p[add] = l[add]
        BY <1>1, <1>2
      <4> QED
        BY <1>2, <4>1 DEF Ever
    <3>3. CASE Rotates(p, l[i], c)
      <4>1. PICK k1, n1, f1 : /\ Pair(l[i - 1], c, k1, n1) /\ Pair(l[i], c, n1, f1)
                              /\ c \in l[i].vms
        BY <1>3, <3>3 DEF Rotates
      <4>2. AddedKeys(l, i) = {n1}
        BY <1>5, <2>3, <4>1 DEF Pair
      <4> QED
        BY <2>1, <4>1, <4>2, OnlyIs DEF Pair
    <3>4. CASE Removes(p, l[i], c)
      <4>1. Mine(l[i].ukeys, c) = {} /\ c \notin l[i].vms
        BY <3>4 DEF Removes, Nothing
      <4>2. AddedKeys(l, i) = {}
        BY <1>5, <2>3, <4>1
      <4> QED
        BY <2>1, <4>1, <4>2, OnlyIs
    <3> QED
      BY <1>3, <3>1, <3>2, <3>3, <3>4 DEF Changes, Founds, Commits, Withdraws, Adds
  <2> QED
    BY <1>6, <2>4, <2>5 DEF ReadOf
<1> QED
  BY <1>7, <1>8

\* A reading of the entries from add up to m.
ReadUpTo(l, c, add, m, w) ==
    /\ w[add] = Only(AddedKeys(l, add))
    /\ \A i \in (add + 1)..m : w[i] = KeyAfter(l, i, w[i - 1])
    /\ \A i \in add..m : ReadOf(l, c, i, w[i])

\* There is one, up to the end of the log.
LEMMA ReadToEnd ==
    ASSUME NEW l \in Seq(Entry), Told(l), NEW c \in Client,
           NEW n \in Nat, DOMAIN l = 1..n,
           NEW add \in Naming(l, c), \A j \in Naming(l, c) : add <= j
    PROVE  \E w : ReadUpTo(l, c, add, n, w)
<1>1. add \in 1..n
  BY DEF Naming
<1>2. PICK B : B = {m \in add..n : ~\E w : ReadUpTo(l, c, add, m, w)}
  OBVIOUS
<1> SUFFICES B = {}
  BY <1>1, <1>2
<1> SUFFICES ASSUME B # {} PROVE FALSE
  OBVIOUS
<1>3. PICK m \in B : \A j \in B : m <= j
  <2>1. B \subseteq Nat
    BY <1>1, <1>2
  <2> QED
    BY <2>1, Least
<1>4. m \in add..n /\ ~\E w : ReadUpTo(l, c, add, m, w)
  BY <1>2, <1>3
<1>5. CASE m = add
  <2>1. PICK w : w = [i \in {add} |-> Only(AddedKeys(l, add))]
    OBVIOUS
  <2>2. w[add] = Only(AddedKeys(l, add)) /\ ReadOf(l, c, add, w[add])
    BY <2>1, ReadFirst
  <2>3. (add + 1)..add = {} /\ add..add = {add}
    BY <1>1
  <2>4. ReadUpTo(l, c, add, add, w)
    BY <2>2, <2>3 DEF ReadUpTo
  <2> QED
    BY <1>4, <1>5, <2>4
<1>6. CASE m # add
  <2>1. /\ m - 1 \in add..n /\ ~(m <= m - 1) /\ add < m /\ m \in DOMAIN l
        /\ \A i \in add..m : i \in add..(m - 1) \/ i = m
        /\ \A i \in (add + 1)..m : i \in (add + 1)..(m - 1) \/ i = m
        /\ \A i \in (add + 1)..m : i - 1 \in add..(m - 1)
        /\ \A i \in add..(m - 1) : i # m /\ i \in add..m
        /\ \A i \in (add + 1)..(m - 1) : i \in add..(m - 1) /\ i - 1 \in add..(m - 1)
        /\ m - 1 \in add..(m - 1) /\ add \in add..(m - 1) /\ m \in add..m
    BY <1>1, <1>4, <1>6
  <2>2. PICK v : ReadUpTo(l, c, add, m - 1, v)
    BY <1>2, <1>3, <2>1
  <2>3. PICK w : w = [i \in add..m |-> IF i = m THEN KeyAfter(l, m, v[m - 1])
                                               ELSE v[i]]
    OBVIOUS
  <2>4. w[m] = KeyAfter(l, m, v[m - 1]) /\ \A i \in add..(m - 1) : w[i] = v[i]
    BY <2>1, <2>3
  <2>5. ReadOf(l, c, m - 1, v[m - 1])
    BY <2>1, <2>2 DEF ReadUpTo
  <2>6. ReadOf(l, c, m, w[m])
    BY <2>1, <2>4, <2>5, ReadNext
  <2>7. w[add] = Only(AddedKeys(l, add))
    BY <2>1, <2>2, <2>4 DEF ReadUpTo
  <2>8. \A i \in (add + 1)..m : w[i] = KeyAfter(l, i, w[i - 1])
    <3>1. ASSUME NEW i \in (add + 1)..(m - 1) PROVE w[i] = KeyAfter(l, i, w[i - 1])
      <4>1. v[i] = KeyAfter(l, i, v[i - 1])
        BY <2>2, <3>1 DEF ReadUpTo
      <4> QED
        BY <2>1, <2>4, <4>1
    <3>2. w[m] = KeyAfter(l, m, w[m - 1])
      BY <2>1, <2>4
    <3> QED
      BY <2>1, <3>1, <3>2
  <2>9. \A i \in add..m : ReadOf(l, c, i, w[i])
    <3>1. \A i \in add..(m - 1) : ReadOf(l, c, i, w[i])
      BY <2>2, <2>4 DEF ReadUpTo
    <3> QED
      BY <2>1, <2>6, <3>1
  <2>10. ReadUpTo(l, c, add, m, w)
    BY <2>7, <2>8, <2>9 DEF ReadUpTo
  <2> QED
    BY <1>4, <2>10
<1> QED
  BY <1>5, <1>6

\* attributeActiveUpdateKeys reads a key of the client's own off the log, or
\* none; of an enrolled client that is not approved again it is the one key
\* that client holds.
LEMMA AttributionIs ==
    ASSUME NEW l \in Seq(Entry), Told(l), NEW c \in Client,
           NEW k, k = AttributeClientUpdateKey(l, c)
    PROVE  /\ k = NoKey \/ Owner(k) = c
           /\ ~ApprovedAgain(l, c) /\ c \in Top(l).vms =>
                Mine(Top(l).ukeys, c) = {k}
<1>1. PICK n \in Nat : n = Len(l) /\ DOMAIN l = 1..n
  OBVIOUS
<1>2. CASE Naming(l, c) = {}
  <2>1. k = NoKey
    BY <1>2 DEF AttributeClientUpdateKey, Naming
  <2>2. c \notin Top(l).vms
    <3>1. l # <<>> => n \in DOMAIN l /\ Top(l) = l[n]
      BY <1>1 DEF Top, Head_
    <3>2. l = <<>> => Top(l) = NoEntry
      BY DEF Top
    <3> QED
      BY <1>2, <3>1, <3>2 DEF Naming, NoEntry
  <2> QED
    BY <2>1, <2>2
<1>3. CASE Naming(l, c) # {}
  <2>1. PICK add : add = Adding(l, c)
    OBVIOUS
  <2>2. add \in Naming(l, c) /\ \A j \in Naming(l, c) : add <= j
    <3>1. Naming(l, c) \subseteq Nat
      BY <1>1 DEF Naming
    <3>2. \E i \in Naming(l, c) : \A j \in Naming(l, c) : i <= j
      BY <1>3, <3>1, Least
    <3> QED
      BY <2>1, <3>2 DEF Adding
  <2>3. add \in 1..n /\ Top(l) = l[n]
    <3>1. add \in 1..n /\ l # <<>>
      BY <1>1, <2>2 DEF Naming
    <3> QED
      BY <1>1, <3>1 DEF Top, Head_
  <2>4. PICK own : ReadUpTo(l, c, add, n, own)
    BY <1>1, <2>2, ReadToEnd
  <2>5. PICK w : w = [i \in DOMAIN l |-> IF i <= add THEN Only(AddedKeys(l, add))
                                         ELSE own[i]]
    OBVIOUS
  <2>6. w = Readings(l, add, w)
    <3>1. ASSUME NEW i \in DOMAIN l, ~(i <= add) PROVE own[i] = KeyAfter(l, i, w[i - 1])
      <4>1. i \in (add + 1)..n /\ i - 1 \in DOMAIN l /\ add \in DOMAIN l
        BY <1>1, <2>3, <3>1
      <4>2. w[i - 1] = own[i - 1]
        <5>1. CASE i - 1 = add
          <6>1. w[add] = own[add]
            BY <2>3, <2>4, <2>5, <4>1 DEF ReadUpTo
          <6> QED
            BY <5>1, <6>1
        <5>2. CASE i - 1 # add
          <6>1. ~(i - 1 <= add)
            BY <2>3, <4>1, <5>2
          <6> QED
            BY <2>5, <4>1, <6>1
        <5> QED
          BY <5>1, <5>2
      <4> QED
        BY <2>4, <4>1, <4>2 DEF ReadUpTo
    <3> QED
      BY <2>5, <3>1 DEF Readings
  <2>7. PICK g : g = Readings(l, add, g) /\ k = g[Len(l)]
    BY <1>3, <2>1, <2>6, AttributionReads
  <2>8. \A i \in add..n : g[i] = own[i]
    <3>1. /\ own[add] = Only(AddedKeys(l, add))
          /\ \A i \in (add + 1)..n : own[i] = KeyAfter(l, i, own[i - 1])
      BY <2>4 DEF ReadUpTo
    <3> QED
      BY <1>1, <2>3, <2>7, <3>1, ReadingIs
  <2>9. n \in add..n
    BY <2>3
  <2>10. k = own[n] /\ ReadOf(l, c, n, own[n])
    BY <1>1, <2>4, <2>7, <2>8, <2>9 DEF ReadUpTo
  <2> QED
    BY <2>3, <2>10 DEF ReadOf
<1> QED
  BY <1>2, <1>3

-----------------------------------------------------------------------------
(* The commitment a client is attributed.                                   *)

\* What attributeStagedHash needs of a log about one client: for an enrolled
\* client it is right, for one that may be enrolled yet the commitments of its
\* two keys stand beside each other.
Anchored(l, c) ==
    /\ c \in Top(l).vms => \A k, n : Pair(Top(l), c, k, n) =>
                             AttributeStagedHash(l, k) = {n}
    /\ c \notin Ever(l) => \A i \in DOMAIN l : First(c) \in AddedHashes(l, i) =>
                             AddedHashes(l, i) = {First(c), Second(c)}

Reveals(l, k) == {i \in DOMAIN l : k \in AddedKeys(l, i)}
CommitsTo(l, k, last) == {i \in DOMAIN l : i <= last /\ k \in AddedHashes(l, i)}

\* attributeStagedHash over the entries that reveal and commit the key.
StagedOf(l, k, R, last, C) ==
    IF R = {} THEN {}
    ELSE IF AddedHashes(l, last) \ {k} # {} THEN AddedHashes(l, last) \ {k}
    ELSE IF C = {} THEN {}
    ELSE AddedHashes(l, LastIndex(C)) \ {k}

\* So it is computed.
LEMMA StagedReads ==
    ASSUME NEW l, NEW k, NEW R, R = Reveals(l, k), NEW last, last = LastIndex(R),
           NEW C, C = CommitsTo(l, k, last)
    PROVE  AttributeStagedHash(l, k) = StagedOf(l, k, R, last, C)
  BY DEF AttributeStagedHash, Reveals, CommitsTo, StagedOf

\* What an entry reveals and commits beside the key, and where the log before
\* it committed the key beside m alone.
Revealing(l, e, k) == k \in e.ukeys \ Top(l).ukeys
Beside(l, e, k) == (e.hashes \ Top(l).hashes) \ {k}
Recorded(l, n, k, m) ==
    /\ \E i \in 1..n : k \in AddedHashes(l, i)
    /\ \A i \in 1..n : k \in AddedHashes(l, i) => AddedHashes(l, i) \ {k} = {m}
Shown(l, e, n, k, m) ==
    \/ Beside(l, e, k) = {m}
    \/ e.hashes \ Top(l).hashes = {} /\ Recorded(l, n, k, m)

\* An entry that does not reveal the key leaves what is attributed to it.
LEMMA StagedStays ==
    ASSUME NEW l, NEW e, NEW a, NEW n \in Nat, Grown(l, e, a, n),
           NEW k, ~Revealing(l, e, k)
    PROVE  AttributeStagedHash(a, k) = AttributeStagedHash(l, k)
<1>1. /\ DOMAIN l = 1..n /\ DOMAIN a = 1..(n + 1)
      /\ \A i \in 1..n : /\ AddedKeys(a, i) = AddedKeys(l, i)
                         /\ AddedHashes(a, i) = AddedHashes(l, i)
      /\ k \notin AddedKeys(a, n + 1)
  BY DEF Grown, Revealing
<1>2. \A i \in 1..(n + 1) : i \in 1..n \/ i = n + 1
  OBVIOUS
<1>3. \A i \in 1..n : i \in 1..(n + 1)
  OBVIOUS
<1>4. Reveals(a, k) = Reveals(l, k)
  BY <1>1, <1>2, <1>3 DEF Reveals
<1>5. PICK last : last = LastIndex(Reveals(l, k))
  OBVIOUS
<1>6. CASE Reveals(l, k) = {}
  BY <1>4, <1>6 DEF AttributeStagedHash, Reveals
<1>7. CASE Reveals(l, k) # {}
  <2>1. last \in 1..n
    BY <1>1, <1>5, <1>7, LastIndexIs DEF Reveals
  <2>2. ~(n + 1 <= last)
    BY <2>1
  <2>3. PICK C : C = CommitsTo(l, k, last)
    OBVIOUS
  <2>4. CommitsTo(a, k, last) = C /\ C \subseteq 1..n
    BY <1>1, <1>2, <1>3, <2>2, <2>3 DEF CommitsTo
  <2>5. C # {} => LastIndex(C) \in 1..n
    BY <2>4, LastIndexIs
  <2>6. /\ AddedHashes(a, last) = AddedHashes(l, last)
        /\ C # {} => AddedHashes(a, LastIndex(C)) = AddedHashes(l, LastIndex(C))
    BY <1>1, <2>1, <2>5
  <2>7. AttributeStagedHash(a, k) = StagedOf(a, k, Reveals(l, k), last, C)
    BY <1>4, <1>5, <2>4, StagedReads
  <2>8. AttributeStagedHash(l, k) = StagedOf(l, k, Reveals(l, k), last, C)
    BY <1>5, <2>3, StagedReads
  <2> QED
    BY <2>6, <2>7, <2>8 DEF StagedOf
<1> QED
  BY <1>6, <1>7

\* The entry that reveals a key last is the one it is attributed by: by what
\* it commits beside the key, or by the entry that committed the key.
LEMMA StagedNow ==
    ASSUME NEW l, NEW e, NEW a, NEW n \in Nat, Grown(l, e, a, n),
           NEW k, Revealing(l, e, k), NEW m, Shown(l, e, n, k, m)
    PROVE  AttributeStagedHash(a, k) = {m}
<1>1. /\ DOMAIN l = 1..n /\ DOMAIN a = 1..(n + 1)
      /\ \A i \in 1..n : AddedHashes(a, i) = AddedHashes(l, i)
      /\ k \in AddedKeys(a, n + 1)
      /\ AddedHashes(a, n + 1) = e.hashes \ Top(l).hashes
  BY DEF Grown, Revealing
<1>2. PICK R : R = Reveals(a, k)
  OBVIOUS
<1>3. n + 1 \in R /\ R \subseteq 1..(n + 1)
  BY <1>1, <1>2 DEF Reveals
<1>4. LastIndex(R) = n + 1
  <2>1. \A i \in R : i <= n + 1
    BY <1>3
  <2>2. \A i \in R : (\A j \in R : j <= i) => i = n + 1
    BY <1>3
  <2> QED
    BY <1>3, <2>1, <2>2 DEF LastIndex
<1>5. PICK C : C = CommitsTo(a, k, n + 1)
  OBVIOUS
<1>6. AttributeStagedHash(a, k) = StagedOf(a, k, R, n + 1, C)
  BY <1>2, <1>4, <1>5, StagedReads
<1>7. CASE Beside(l, e, k) = {m}
  BY <1>1, <1>3, <1>6, <1>7 DEF StagedOf, Beside
<1>8. CASE e.hashes \ Top(l).hashes = {} /\ Recorded(l, n, k, m)
  <2>1. /\ \E i \in 1..n : k \in AddedHashes(l, i)
        /\ \A i \in 1..n : k \in AddedHashes(l, i) => AddedHashes(l, i) \ {k} = {m}
    BY <1>8 DEF Recorded
  <2>2. C \subseteq 1..(n + 1) /\ C # {} /\ \A i \in C : k \in AddedHashes(a, i)
    <3>1. PICK i \in 1..n : k \in AddedHashes(l, i)
      BY <2>1
    <3>2. i \in 1..(n + 1) /\ i <= n + 1 /\ k \in AddedHashes(a, i)
      BY <1>1, <3>1
    <3> QED
      BY <1>1, <1>5, <3>2 DEF CommitsTo
  <2>3. LastIndex(C) \in C
    <3>1. n + 1 \in Nat
      OBVIOUS
    <3> QED
      BY <2>2, <3>1, LastIndexIs
  <2>4. LastIndex(C) \in 1..n
    <3>1. LastIndex(C) # n + 1
      BY <1>1, <1>8, <2>2, <2>3
    <3>2. PICK x \in 1..(n + 1) : x = LastIndex(C)
      BY <2>2, <2>3
    <3> QED
      BY <3>1, <3>2
  <2>5. AddedHashes(a, LastIndex(C)) \ {k} = {m}
    BY <1>1, <2>1, <2>2, <2>3, <2>4
  <2> QED
    BY <1>1, <1>3, <1>6, <1>8, <2>2, <2>5 DEF StagedOf
<1> QED
  BY <1>7, <1>8 DEF Shown

\* Every edit keeps the commitments attributed right.
LEMMA Anchors ==
    ASSUME NEW l \in Seq(Entry), NEW e \in Entry, Edit(l, e), NEW a, a = Append(l, e),
           NEW c \in Client, ~ApprovedAgain(a, c), Clear(l, c), Anchored(l, c)
    PROVE  Anchored(a, c)
<1>1. PICK n \in Nat : n = Len(l)
  OBVIOUS
<1>2. /\ DOMAIN l = 1..n /\ DOMAIN a = 1..(n + 1) /\ a # <<>>
      /\ \A i \in 1..n : AddedHashes(a, i) = AddedHashes(l, i)
      /\ AddedHashes(a, n + 1) = e.hashes \ Top(l).hashes
      /\ n + 1 \in DOMAIN a
      /\ Grown(l, e, a, n)
  <2>1. Grown(l, e, a, n)
    BY <1>1, AddedStays
  <2>2. a # <<>>
    OBVIOUS
  <2> QED
    BY <2>1, <2>2 DEF Grown
<1>3. /\ Top(a) = e /\ Ever(a) = Ever(l) \cup e.vms
      /\ \A i \in DOMAIN a : i \in 1..n \/ i = n + 1
  BY <1>2, TopGrows
<1>4. PICK x \in Client : EditOf(l, e, x)
  BY DEF Edit
<1>5. /\ e.ukeys \ Top(l).ukeys = Mine(e.ukeys, x) \ Mine(Top(l).ukeys, x)
      /\ e.hashes \ Top(l).hashes = Mine(e.hashes, x) \ Mine(Top(l).hashes, x)
  BY <1>4, EditAdds
<1>6. CASE Same(l, e, c)
  <2>1. ASSUME c \in e.vms, NEW k, NEW m, Pair(e, c, k, m)
        PROVE  AttributeStagedHash(a, k) = {m}
    <3>1. c \in Top(l).vms /\ Pair(Top(l), c, k, m)
      BY <1>6, <2>1 DEF Same, Pair
    <3>2. ~Revealing(l, e, k)
      BY <3>1 DEF Pair, Mine, Revealing
    <3>3. AttributeStagedHash(a, k) = AttributeStagedHash(l, k)
      BY <1>2, <3>2, StagedStays
    <3> QED
      BY <3>1, <3>3 DEF Anchored
  <2>2. First(c) \notin AddedHashes(a, n + 1)
    BY <1>2, <1>6 DEF First, Mine, Owner, Same
  <2> QED
    BY <1>2, <1>3, <2>1, <2>2 DEF Anchored
<1>7. CASE x = c /\ Founds(l, e, c)
  <2>1. c \in e.vms /\ Pair(e, c, First(c), Second(c)) /\ l = <<>> /\ Top(l) = NoEntry
    BY <1>7 DEF Founds, Top
  <2>2. /\ e.ukeys \ Top(l).ukeys = {First(c)}
        /\ e.hashes \ Top(l).hashes = {First(c), Second(c)} /\ First(c) # Second(c)
    BY <1>5, <1>7, <2>1 DEF Pair, NoEntry, Mine
  <2>3. Revealing(l, e, First(c)) /\ Shown(l, e, n, First(c), Second(c))
    BY <2>2 DEF Revealing, Beside, Shown
  <2>4. AttributeStagedHash(a, First(c)) = {Second(c)}
    BY <1>2, <2>3, StagedNow
  <2>5. \A k, m : Pair(e, c, k, m) => k = First(c) /\ m = Second(c)
    BY <2>1 DEF Pair
  <2> QED
    BY <1>3, <2>1, <2>4, <2>5 DEF Anchored
<1>8. CASE x = c /\ Commits(l, e, c)
  <2>1. /\ c \notin e.vms /\ c \notin Ever(l) /\ Nothing(Top(l), c) /\ Committed(e, c)
    BY <1>8 DEF Commits
  <2>2. AddedHashes(a, n + 1) = {First(c), Second(c)}
    BY <1>2, <1>5, <1>8, <2>1 DEF Nothing, Committed
  <2> QED
    BY <1>2, <1>3, <2>1, <2>2 DEF Anchored
<1>9. CASE x = c /\ Withdraws(l, e, c)
  <2>1. c \notin e.vms /\ c \notin Ever(l) /\ Withdrawn(e, c)
    BY <1>9 DEF Withdraws
  <2>2. First(c) \notin AddedHashes(a, n + 1)
    BY <1>2, <2>1 DEF Withdrawn, Mine, First, Second, Owner
  <2> QED
    BY <1>2, <1>3, <2>1, <2>2 DEF Anchored
<1>10. CASE x = c /\ Adds(l, e, c)
  <2>1. /\ c \notin Ever(l) /\ c \in e.vms
        /\ Committed(Top(l), c) /\ Pair(e, c, First(c), Second(c))
    BY <1>10 DEF Adds
  <2>2. /\ e.ukeys \ Top(l).ukeys = {First(c)} /\ e.hashes \ Top(l).hashes = {}
        /\ First(c) # Second(c)
    BY <1>5, <1>10, <2>1 DEF Pair, Committed
  <2>3. \A i \in 1..n : First(c) \in AddedHashes(l, i) =>
             AddedHashes(l, i) \ {First(c)} = {Second(c)}
    BY <1>2, <2>1, <2>2 DEF Anchored
  <2>4. \E i \in 1..n : First(c) \in AddedHashes(l, i)
    <3>1. Approved(l, c)
      BY <2>1 DEF Clear, Committed, Nothing
    <3> QED
      BY <1>2, <3>1 DEF Approved
  <2>5. Revealing(l, e, First(c)) /\ Shown(l, e, n, First(c), Second(c))
    BY <2>2, <2>3, <2>4 DEF Revealing, Recorded, Shown
  <2>6. AttributeStagedHash(a, First(c)) = {Second(c)}
    BY <1>2, <2>2, <2>5, StagedNow
  <2>7. \A k, m : Pair(e, c, k, m) => k = First(c) /\ m = Second(c)
    BY <2>1 DEF Pair
  <2> QED
    BY <1>3, <2>1, <2>6, <2>7 DEF Anchored
<1>11. CASE x = c /\ Rotates(l, e, c)
  <2>1. PICK k, m, f : /\ Pair(Top(l), c, k, m) /\ Pair(e, c, m, f) /\ f # k
                       /\ c \in e.vms
    BY <1>11 DEF Rotates
  <2>2. e.ukeys \ Top(l).ukeys = {m} /\ e.hashes \ Top(l).hashes = {f} /\ m # f
    BY <1>5, <1>11, <2>1 DEF Pair
  <2>3. Revealing(l, e, m) /\ Shown(l, e, n, m, f)
    BY <2>2 DEF Revealing, Beside, Shown
  <2>4. AttributeStagedHash(a, m) = {f}
    BY <1>2, <2>3, StagedNow
  <2>5. \A k1, m1 : Pair(e, c, k1, m1) => k1 = m /\ m1 = f
    BY <2>1 DEF Pair
  <2> QED
    BY <1>3, <2>1, <2>4, <2>5, TopEver DEF Anchored
<1>12. CASE x = c /\ Removes(l, e, c)
  <2>1. c \in Ever(l) /\ c \notin e.vms
    BY <1>12, TopEver DEF Removes
  <2> QED
    BY <1>3, <2>1 DEF Anchored
<1> QED
  BY <1>4, <1>6, <1>7, <1>8, <1>9, <1>10, <1>11, <1>12 DEF EditOf, Changes
-----------------------------------------------------------------------------
(* The entries the ceremonies sign are edits of the logs they read.         *)

\* An entry that changes the keys and the naming of one client only.
LEMMA OthersSame ==
    ASSUME NEW l, NEW e, NEW x \in Client,
           \A k \in (e.ukeys \ Top(l).ukeys) \cup (Top(l).ukeys \ e.ukeys) : Owner(k) = x,
           \A k \in (e.hashes \ Top(l).hashes) \cup (Top(l).hashes \ e.hashes) : Owner(k) = x,
           \A d \in Client \ {x} : d \in e.vms <=> d \in Top(l).vms
    PROVE  \A d \in Client \ {x} : Same(l, e, d)
<1>1. ASSUME NEW d \in Client \ {x} PROVE Same(l, e, d)
  <2>1. Mine(e.ukeys, d) = Mine(Top(l).ukeys, d)
    BY <1>1 DEF Mine
  <2>2. Mine(e.hashes, d) = Mine(Top(l).hashes, d)
    BY <1>1 DEF Mine
  <2> QED
    BY <2>1, <2>2 DEF Same
<1> QED
  BY <1>1

\* An entry that does not rotate: a client it edits and names is new, unless
\* it is approved again.
News(l, e) ==
    \E x \in Client :
        /\ EditOf(l, e, x)
        /\ x \in e.vms => \/ Same(l, e, x) \/ ApprovedAgain(Append(l, e), x)
                          \/ x \notin Ever(l)

\* The first two keys of a client.
LEMMA FirstTwo ==
    \A c : Owner(First(c)) = c /\ Owner(Second(c)) = c /\ First(c) # Second(c)
  BY DEF First, Second, Owner

\* The genesis entry founds the log.
LEMMA GenesisEdits ==
    ASSUME NEW c \in Client, NEW s, Born(c, s),
           NEW e, e = [ukeys |-> {s.update}, hashes |-> {s.update, s.staged},
                       vms |-> {c}, by |-> c]
    PROVE  News(<<>>, e)
<1>1. /\ e.ukeys = {First(c)} /\ e.hashes = {First(c), Second(c)} /\ e.vms = {c}
      /\ Top(<<>>).ukeys = {} /\ Top(<<>>).hashes = {} /\ Top(<<>>).vms = {}
  BY DEF Born, Top, NoEntry
<1>2. Founds(<<>>, e, c)
  BY <1>1, FirstTwo DEF Founds, Pair, Mine
<1>3. \A d \in Client \ {c} : Same(<<>>, e, d)
  <2>1. \A k \in (e.ukeys \ Top(<<>>).ukeys) \cup (Top(<<>>).ukeys \ e.ukeys) : Owner(k) = c
    BY <1>1, FirstTwo
  <2>2. \A k \in (e.hashes \ Top(<<>>).hashes) \cup (Top(<<>>).hashes \ e.hashes) : Owner(k) = c
    BY <1>1, FirstTwo
  <2>3. \A d \in Client \ {c} : d \in e.vms <=> d \in Top(<<>>).vms
    BY <1>1
  <2> QED
    BY <2>1, <2>2, <2>3, OthersSame
<1>4. c \notin Ever(<<>>)
  BY DEF Ever
<1> QED
  BY <1>2, <1>3, <1>4 DEF News, EditOf, Changes

\* A key the head authorizes is that of a client it names, unless that client
\* was approved again.
LEMMA KeyStands ==
    ASSUME NEW l \in Seq(Entry), Told(l), NEW c \in Client, ~ApprovedAgain(l, c),
           NEW k \in Top(l).ukeys, Owner(k) = c
    PROVE  c \in Top(l).vms /\ \E n : Pair(Top(l), c, k, n)
<1>1. Clear(l, c)
  BY ToldStands DEF Stands
<1>2. k \in Mine(Top(l).ukeys, c)
  BY DEF Mine
<1>3. c \in Top(l).vms
  BY <1>1, <1>2 DEF Clear, Nothing, Committed, Withdrawn
<1>4. PICK k1, n : Pair(Top(l), c, k1, n)
  BY <1>1, <1>3 DEF Clear
<1> QED
  BY <1>2, <1>3, <1>4 DEF Pair

\* The update key a rotation starts from and the staged one it goes to are
\* the two keys its client stands with.
LEMMA RotationPairs ==
    ASSUME NEW l \in Seq(Entry), l # <<>>, Told(l), NEW c \in Client,
           ~ApprovedAgain(l, c), NEW s, Pairing(c, s),
           s.update \in Head_(l).ukeys, s.staged \in Head_(l).hashes
    PROVE  c \in Top(l).vms /\ Pair(Top(l), c, s.update, s.staged)
<1>1. /\ Top(l) = Head_(l) /\ Owner(s.update) = c /\ Owner(s.staged) = c
      /\ s.update # s.staged
  BY DEF Top, Pairing
<1>2. c \in Top(l).vms /\ \E n : Pair(Top(l), c, s.update, n)
  BY <1>1, KeyStands
<1>3. s.staged \in Mine(Top(l).hashes, c)
  BY <1>1 DEF Mine
<1> QED
  BY <1>1, <1>2, <1>3 DEF Pair

\* A rotation's entry rotates its client.
LEMMA RotationEdits ==
    ASSUME NEW l \in Seq(Entry), l # <<>>, NEW c \in Client, NEW s, Pairing(c, s),
           s.staged \in Key,
           \/ ApprovedAgain(l, c)
           \/ c \in Top(l).vms /\ Pair(Top(l), c, s.update, s.staged),
           NEW fresh \in Key, Owner(fresh) = c,
           fresh \notin {s.update, s.staged, First(c)},
           NEW e, e = RotationEntry(l, c, s, fresh)
    PROVE  EditOf(l, e, c) /\ (ApprovedAgain(l, c) \/ Pair(e, c, s.staged, fresh))
<1>1. PICK h \in Entry : h = Head_(l) /\ h = Top(l)
  BY HeadTyped DEF Top
<1>2. /\ e.ukeys = (h.ukeys \ {s.update}) \cup {s.staged}
      /\ e.hashes = (h.hashes \ {s.update}) \cup {s.staged, fresh}
      /\ e.vms = h.vms /\ e \in Entry
  BY <1>1 DEF RotationEntry, Entry
<1>3. Owner(s.update) = c /\ Owner(s.staged) = c /\ s.update # s.staged
  BY DEF Pairing
<1>4. \A d \in Client \ {c} : Same(l, e, d)
  <2>1. \A k \in (e.ukeys \ Top(l).ukeys) \cup (Top(l).ukeys \ e.ukeys) : Owner(k) = c
    BY <1>1, <1>2, <1>3
  <2>2. \A k \in (e.hashes \ Top(l).hashes) \cup (Top(l).hashes \ e.hashes) : Owner(k) = c
    BY <1>1, <1>2, <1>3
  <2>3. \A d \in Client \ {c} : d \in e.vms <=> d \in Top(l).vms
    BY <1>1, <1>2
  <2> QED
    BY <2>1, <2>2, <2>3, OthersSame
<1>5. CASE ApprovedAgain(l, c)
  <2>1. ApprovedAgain(Append(l, e), c)
    BY <1>2, <1>5, ApprovedGrows
  <2> QED
    BY <1>4, <1>5, <2>1 DEF EditOf
<1>6. CASE c \in Top(l).vms /\ Pair(Top(l), c, s.update, s.staged)
  <2>1. Mine(h.ukeys, c) = {s.update} /\ Mine(h.hashes, c) = {s.update, s.staged}
    BY <1>1, <1>6 DEF Pair
  <2>2. Mine(e.ukeys, c) = {s.staged}
    BY <1>2, <1>3, <2>1 DEF Mine
  <2>3. Mine(e.hashes, c) = {s.staged, fresh}
    BY <1>2, <1>3, <2>1 DEF Mine
  <2>4. Pair(e, c, s.staged, fresh)
    BY <2>2, <2>3 DEF Pair
  <2>5. Rotates(l, e, c)
    <3>1. c \in Top(l).vms /\ c \in e.vms /\ fresh \notin {s.update, First(c)}
      BY <1>1, <1>2, <1>6
    <3> QED
      BY <1>6, <2>4, <3>1 DEF Rotates
  <2> QED
    BY <1>4, <2>4, <2>5 DEF EditOf, Changes
<1> QED
  BY <1>5, <1>6

\* An enrollment's commit entry commits its target's first two keys: for the
\* first time, or the target is approved again.
LEMMA CommitEdits ==
    ASSUME NEW l \in Seq(Entry), l # <<>>, Told(l), NEW t \in Client,
           NEW s, Born(t, s), s.update \notin Head_(l).ukeys,
           ~({s.update, s.staged} \subseteq Head_(l).hashes),
           NEW e \in Entry, e.ukeys = Head_(l).ukeys, e.vms = Head_(l).vms,
           e.hashes = Head_(l).hashes \cup {s.update, s.staged}
    PROVE  News(l, e)
<1>1. PICK h \in Entry : h = Head_(l) /\ h = Top(l)
  BY HeadTyped DEF Top
<1>2. /\ e.ukeys = h.ukeys /\ e.hashes = h.hashes \cup {First(t), Second(t)}
      /\ e.vms = h.vms /\ First(t) \notin h.ukeys
      /\ ~(First(t) \in h.hashes /\ Second(t) \in h.hashes)
  BY <1>1 DEF Entry, Born
<1>3. \A d \in Client \ {t} : Same(l, e, d)
  <2>1. \A k \in (e.ukeys \ Top(l).ukeys) \cup (Top(l).ukeys \ e.ukeys) : Owner(k) = t
    BY <1>1, <1>2
  <2>2. \A k \in (e.hashes \ Top(l).hashes) \cup (Top(l).hashes \ e.hashes) : Owner(k) = t
    BY <1>1, <1>2, FirstTwo
  <2>3. \A d \in Client \ {t} : d \in e.vms <=> d \in Top(l).vms
    BY <1>1, <1>2
  <2> QED
    BY <2>1, <2>2, <2>3, OthersSame
<1>4. CASE ApprovedAgain(Append(l, e), t)
  BY <1>3, <1>4 DEF News, EditOf
<1>5. CASE ~ApprovedAgain(Append(l, e), t)
  <2>1. ~ApprovedAgain(l, t) /\ ~(Approved(l, t) /\ First(t) \notin h.hashes)
    <3>1. First(t) \notin h.hashes => First(t) \in e.hashes \ Top(l).hashes
      BY <1>1, <1>2
    <3>2. ApprovedAgain(Append(l, e), t) <=>
            \/ ApprovedAgain(l, t)
            \/ Approved(l, t) /\ First(t) \in e.hashes \ Top(l).hashes
      BY ApprovedGrows
    <3> QED
      BY <1>5, <3>1, <3>2
  <2>2. Clear(l, t)
    BY <2>1, ToldStands DEF Stands
  <2>3. t \notin Ever(l)
    <3>1. SUFFICES ASSUME t \in Ever(l) PROVE FALSE
      OBVIOUS
    <3>2. First(t) \in h.hashes
      BY <2>1, <2>2, <3>1 DEF Clear
    <3>3. First(t) \in Mine(h.hashes, t)
      BY <3>2, FirstTwo DEF Mine
    <3>4. PICK k, n : Pair(h, t, k, n) /\ n # First(t)
      BY <1>1, <2>2, <3>1, <3>3 DEF Clear, Nothing
    <3>5. First(t) \in h.ukeys
      BY <3>3, <3>4 DEF Pair, Mine
    <3> QED
      BY <1>2, <3>5
  <2>4. Nothing(h, t)
    <3>1. CASE Committed(h, t)
      BY <1>2, <3>1 DEF Committed, Mine
    <3>2. CASE Withdrawn(h, t) /\ Approved(l, t)
      <4>1. First(t) \in Mine(h.hashes, t)
        BY <2>1, <3>2, FirstTwo DEF Mine
      <4> QED
        BY <3>2, <4>1, FirstTwo DEF Withdrawn
    <3> QED
      BY <1>1, <2>2, <2>3, <3>1, <3>2 DEF Clear
  <2>5. Committed(e, t)
    BY <1>2, <2>4, FirstTwo DEF Committed, Nothing, Mine
  <2>6. t \notin e.vms
    BY <1>1, <1>2, <2>3, TopEver
  <2>7. Commits(l, e, t)
    BY <1>1, <2>3, <2>4, <2>5, <2>6 DEF Commits
  <2> QED
    BY <1>3, <2>6, <2>7 DEF News, EditOf, Changes
<1> QED
  BY <1>4, <1>5

\* An enrollment's add entry, once updateDID has let it through, adds its
\* target with those two, or finds it so.
LEMMA AddEdits ==
    ASSUME NEW l \in Seq(Entry), l # <<>>, Told(l), NEW c \in Client,
           NEW t \in Client, NEW s, Born(t, s),
           NEW e \in Entry, e = [Head_(l) EXCEPT !.ukeys = @ \cup {s.update},
                                                 !.vms = @ \cup {t}, !.by = c],
           e.ukeys \subseteq Head_(l).hashes
    PROVE  News(l, e)
<1>1. PICK h \in Entry : h = Head_(l) /\ h = Top(l)
  BY HeadTyped DEF Top
<1>2. /\ e.ukeys = h.ukeys \cup {First(t)} /\ e.hashes = h.hashes
      /\ e.vms = h.vms \cup {t} /\ e.ukeys \subseteq h.hashes
  BY <1>1 DEF Entry, Born
<1>3. First(t) \in Mine(h.hashes, t)
  BY <1>2, FirstTwo DEF Mine
<1>4. \A d \in Client \ {t} : Same(l, e, d)
  <2>1. \A k \in (e.ukeys \ Top(l).ukeys) \cup (Top(l).ukeys \ e.ukeys) : Owner(k) = t
    BY <1>1, <1>2, FirstTwo
  <2>2. \A k \in (e.hashes \ Top(l).hashes) \cup (Top(l).hashes \ e.hashes) : Owner(k) = t
    BY <1>1, <1>2
  <2>3. \A d \in Client \ {t} : d \in e.vms <=> d \in Top(l).vms
    BY <1>1, <1>2
  <2> QED
    BY <2>1, <2>2, <2>3, OthersSame
<1>5. CASE ApprovedAgain(l, t)
  <2>1. ApprovedAgain(Append(l, e), t)
    BY <1>5, ApprovedGrows
  <2> QED
    BY <1>4, <2>1 DEF News, EditOf
<1>6. CASE ~ApprovedAgain(l, t) /\ t \notin Ever(l)
  <2>1. Clear(l, t)
    BY <1>6, ToldStands DEF Stands
  <2>2. Committed(h, t)
    BY <1>1, <1>3, <1>6, <2>1, FirstTwo DEF Clear, Nothing, Withdrawn
  <2>3. Pair(e, t, First(t), Second(t))
    BY <1>2, <2>2, FirstTwo DEF Committed, Pair, Mine
  <2>4. Adds(l, e, t)
    BY <1>1, <1>2, <1>6, <2>2, <2>3 DEF Adds
  <2> QED
    BY <1>4, <1>6, <2>4 DEF News, EditOf, Changes
<1>7. CASE ~ApprovedAgain(l, t) /\ t \in Ever(l)
  <2>1. Clear(l, t)
    BY <1>7, ToldStands DEF Stands
  <2>2. t \in h.vms
    BY <1>1, <1>3, <1>7, <2>1 DEF Clear, Nothing
  <2>3. PICK k, n : Pair(h, t, k, n) /\ n # First(t)
    BY <1>1, <2>1, <2>2 DEF Clear
  <2>4. First(t) \in h.ukeys
    BY <1>3, <2>3 DEF Pair, Mine
  <2>5. Same(l, e, t)
    BY <1>1, <1>2, <2>2, <2>4 DEF Same, Mine
  <2> QED
    BY <1>4, <2>5 DEF News, EditOf
<1> QED
  BY <1>5, <1>6, <1>7

\* currentRevokedUpdateKey names a key of the client to be removed, whichever
\* of them the caller supplied, or none; the one key the log authorizes for a
\* client that was not approved again.
LEMMA RevokedKeyIs ==
    ASSUME NEW l \in Seq(Entry), l # <<>>, Told(l), NEW t \in Client,
           NEW supplied, Owner(supplied) = t,
           NEW k, k = CurrentRevokedUpdateKey(l, t, supplied)
    PROVE  /\ k = NoKey \/ Owner(k) = t
           /\ t \notin Top(l).vms => k = supplied
           /\ ~ApprovedAgain(l, t) /\ t \in Top(l).vms => Mine(Top(l).ukeys, t) = {k}
<1>1. Top(l) = Head_(l)
  BY DEF Top
<1>2. PICK listed : listed = AttributeClientUpdateKey(l, t)
  OBVIOUS
<1>3. /\ listed = NoKey \/ Owner(listed) = t
      /\ ~ApprovedAgain(l, t) /\ t \in Top(l).vms => Mine(Top(l).ukeys, t) = {listed}
  BY <1>2, AttributionIs
<1>4. \/ k = supplied /\ (supplied \in Top(l).ukeys \/ t \notin Top(l).vms)
      \/ k = listed /\ t \in Top(l).vms
  BY <1>1, <1>2 DEF CurrentRevokedUpdateKey
<1>5. supplied \in Top(l).ukeys => supplied \in Mine(Top(l).ukeys, t)
  BY DEF Mine
<1> QED
  BY <1>3, <1>4, <1>5

\* A removal's entry leaves its target nothing, or what is left of an
\* enrollment that was not finished; the client that signs it stays.
LEMMA RemovalEdits ==
    ASSUME NEW l \in Seq(Entry), l # <<>>, Told(l), Sealed(l),
           NEW t \in Client, NEW c \in Client \ {t},
           ApprovedAgain(l, t) \/ Anchored(l, t),
           NEW own \in Head_(l).ukeys, Owner(own) = c,
           NEW supplied, Owner(supplied) = t,
           t \notin Ever(l) => supplied = First(t),
           NEW k, k = CurrentRevokedUpdateKey(l, t, supplied), k # NoKey,
           t \in Head_(l).vms \/ k \in Head_(l).ukeys \/ k \in Head_(l).hashes,
           NEW e \in Entry, e = RemovalEntry(l, c, t, k)
    PROVE  News(l, e)
<1>1. PICK h \in Entry : h = Head_(l) /\ h = Top(l)
  BY HeadTyped DEF Top
<1>2. /\ Owner(k) = t /\ (t \notin h.vms => k = supplied)
      /\ ~ApprovedAgain(l, t) /\ t \in h.vms => Mine(h.ukeys, t) = {k}
  <2>1. /\ k = NoKey \/ Owner(k) = t
        /\ t \notin Top(l).vms => k = supplied
        /\ ~ApprovedAgain(l, t) /\ t \in Top(l).vms => Mine(Top(l).ukeys, t) = {k}
    BY RevokedKeyIs
  <2> QED
    BY <1>1, <2>1
<1>3. PICK S : S = IF k \in h.ukeys THEN AttributeStagedHash(l, k) ELSE {}
  OBVIOUS
<1>4. /\ e.ukeys = h.ukeys \ {k} /\ e.hashes = h.hashes \ ({k} \cup S)
      /\ e.vms = h.vms \ {t}
  BY <1>1, <1>3 DEF RemovalEntry
<1>5. \A x \in S : Owner(x) = t
  BY <1>2, <1>3, StagedIsOwn
<1>6. \A d \in Client \ {t} : Same(l, e, d)
  <2>1. \A x \in (e.ukeys \ Top(l).ukeys) \cup (Top(l).ukeys \ e.ukeys) : Owner(x) = t
    BY <1>1, <1>2, <1>4
  <2>2. \A x \in (e.hashes \ Top(l).hashes) \cup (Top(l).hashes \ e.hashes) : Owner(x) = t
    BY <1>1, <1>2, <1>4, <1>5
  <2>3. \A d \in Client \ {t} : d \in e.vms <=> d \in Top(l).vms
    BY <1>1, <1>4
  <2> QED
    BY <2>1, <2>2, <2>3, OthersSame
<1>7. CASE ApprovedAgain(l, t)
  <2>1. ApprovedAgain(Append(l, e), t)
    BY <1>7, ApprovedGrows
  <2> QED
    BY <1>6, <2>1 DEF News, EditOf
<1>8. CASE ~ApprovedAgain(l, t) /\ t \in h.vms
  <2>1. Clear(l, t) /\ Anchored(l, t)
    BY <1>8, ToldStands DEF Stands
  <2>2. PICK k1, n : Pair(h, t, k1, n)
    BY <1>1, <1>8, <2>1 DEF Clear
  <2>3. /\ Mine(h.ukeys, t) = {k} /\ Mine(h.hashes, t) = {k, n} /\ Pair(h, t, k, n)
    BY <1>2, <1>8, <2>2 DEF Pair
  <2>4. S = {n}
    <3>1. k \in h.ukeys
      BY <2>3 DEF Mine
    <3>2. AttributeStagedHash(l, k) = {n}
      BY <1>1, <1>8, <2>1, <2>3 DEF Anchored
    <3> QED
      BY <1>3, <3>1, <3>2
  <2>5. Nothing(e, t) /\ t \notin e.vms
    BY <1>4, <2>3, <2>4 DEF Nothing, Mine
  <2>6. c \in Top(l).vms \/ ApprovedAgain(l, c)
    BY <1>1, KeyStands
  <2>7. Removes(l, e, t)
    BY <1>1, <1>8, <2>5, <2>6 DEF Removes
  <2> QED
    BY <1>6, <2>5, <2>7 DEF News, EditOf, Changes
<1>9. CASE ~ApprovedAgain(l, t) /\ t \notin h.vms
  <2>1. Clear(l, t) /\ k = supplied
    BY <1>2, <1>9, ToldStands DEF Stands
  <2>2. Mine(h.ukeys, t) = {}
    BY <1>1, <1>9, <2>1 DEF Clear, Nothing, Committed, Withdrawn
  <2>3. k \notin h.ukeys /\ S = {}
    BY <1>2, <1>3, <2>2 DEF Mine
  <2>4. k \in Mine(h.hashes, t)
    BY <1>1, <1>2, <1>9, <2>3 DEF Mine
  <2>5. t \notin Ever(l)
    BY <1>1, <1>9, <2>1, <2>4 DEF Clear, Nothing
  <2>6. k = First(t) /\ Committed(h, t)
    <3>1. k = First(t)
      BY <2>1, <2>5
    <3>2. ~Nothing(h, t) /\ ~Withdrawn(h, t)
      BY <2>4, <3>1, FirstTwo DEF Nothing, Withdrawn
    <3> QED
      BY <1>1, <2>1, <2>5, <3>1, <3>2 DEF Clear
  <2>7. Withdrawn(e, t)
    BY <1>4, <2>3, <2>6, FirstTwo DEF Committed, Withdrawn, Mine
  <2>8. Withdraws(l, e, t) /\ t \notin e.vms
    BY <1>1, <1>4, <1>9, <2>5, <2>6, <2>7 DEF Withdraws
  <2> QED
    BY <1>6, <2>8 DEF News, EditOf, Changes
<1> QED
  BY <1>7, <1>8, <1>9

\* What a ceremony's plan tells: a rotation only goes on from the pair its
\* client stands with, and whatever is signed at once is an edit.
PlanTells(l, c, j, p) ==
    /\ p.stage = "put" => j.op # "rotate" /\ News(l, p.draft)
    /\ p.stage = "persist" =>
         \/ ApprovedAgain(l, c)
         \/ c \in Top(l).vms /\ Pair(Top(l), c, j.opts.update, j.opts.staged)
    /\ p.stage = "rollForward" => l # <<>> /\ j.opts.staged \in Top(l).ukeys

\* updateDID and signAccountEntry sign it or throw.
LEMMA SignTells ==
    ASSUME NEW l, NEW c, NEW j, NEW k, NEW e, NEW p, p = SignAccountEntry(l, k, e),
           j.op # "rotate",
           k \in Head_(l).ukeys /\ e.ukeys \subseteq Head_(l).hashes => News(l, e)
    PROVE  PlanTells(l, c, j, p)
  BY DEF PlanTells, SignAccountEntry, UpdateDID, Throw, Plan

\* A removal names a key of its target, which is another client; the first
\* one while no entry has named that client.
Targets(l, c, j) ==
    j.op = "revoke" => /\ j.target # c /\ Owner(j.keys.update) = j.target
                       /\ j.target \notin Ever(l) => j.keys.update = First(j.target)

\* What a ceremony knows of the log it reads.
Knows(l, c, j) ==
    /\ Pairing(c, j.opts) /\ (c \notin Ever(l) => Born(c, j.opts))
    /\ j.op = "enroll" => Born(j.target, j.keys)
    /\ Targets(l, c, j)

\* Every ceremony's plan, over a told log, is such.
LEMMA PlanIsTold ==
    ASSUME NEW l \in Seq(Entry), Told(l), Sealed(l),
           \A d \in Client : ApprovedAgain(l, d) \/ Anchored(l, d),
           NEW c \in Client, NEW j \in Job, j.opts \in Seeds, j.keys \in Seeds,
           j.target \in Client, Knows(l, c, j)
    PROVE  PlanTells(l, c, j, PlanOf(l, c, j))
<1>0. \A p \in {Throw, Conclude} : PlanTells(l, c, j, p)
  BY DEF PlanTells, Throw, Conclude, Plan
<1>1. CASE j.op = "ensure"
  <2>1. PICK e : e = [ukeys |-> {j.opts.update},
                      hashes |-> {j.opts.update, j.opts.staged},
                      vms |-> {c}, by |-> c]
    OBVIOUS
  <2>2. PlanOf(l, c, j) = EnsureDidWebvh(l, c, j)
    BY <1>1 DEF PlanOf
  <2>3. \/ PlanOf(l, c, j) \in {Throw, Conclude}
        \/ l = <<>> /\ PlanOf(l, c, j) = Plan("put", e)
    BY <2>1, <2>2 DEF EnsureDidWebvh
  <2>4. l = <<>> => News(l, e)
    <3>1. l = <<>> => Born(c, j.opts)
      BY DEF Knows, Ever
    <3> QED
      BY <2>1, <3>1, GenesisEdits
  <2>5. l = <<>> => PlanTells(l, c, j, Plan("put", e))
    BY <1>1, <2>4 DEF PlanTells, Plan
  <2> QED
    BY <1>0, <2>3, <2>5
<1>2. CASE j.op = "rotate"
  <2>1. PlanOf(l, c, j) = RotateWebvhUpdateKey(l, c, j)
    BY <1>2 DEF PlanOf
  <2>2. \/ PlanOf(l, c, j) = Throw
        \/ /\ PlanOf(l, c, j) = Plan("rollForward", NoEntry)
           /\ l # <<>> /\ j.opts.staged \in Head_(l).ukeys
        \/ /\ PlanOf(l, c, j) = Plan("persist", NoEntry) /\ l # <<>>
           /\ j.opts.update \in Head_(l).ukeys /\ j.opts.staged \in Head_(l).hashes
    BY <2>1 DEF RotateWebvhUpdateKey
  <2>3. CASE PlanOf(l, c, j) = Plan("rollForward", NoEntry)
    <3>1. l # <<>> /\ j.opts.staged \in Top(l).ukeys
      BY <2>2, <2>3 DEF Plan, Throw, Top
    <3> QED
      BY <2>3, <3>1 DEF PlanTells, Plan
  <2>4. CASE PlanOf(l, c, j) = Plan("persist", NoEntry)
    <3>1. /\ l # <<>> /\ j.opts.update \in Head_(l).ukeys
          /\ j.opts.staged \in Head_(l).hashes
      BY <2>2, <2>4 DEF Plan, Throw
    <3>2. \/ ApprovedAgain(l, c)
          \/ c \in Top(l).vms /\ Pair(Top(l), c, j.opts.update, j.opts.staged)
      BY <3>1, RotationPairs DEF Knows
    <3> QED
      BY <2>4, <3>2 DEF PlanTells, Plan
  <2> QED
    BY <1>0, <2>2, <2>3, <2>4
<1>3. CASE j.op = "enroll"
  <2>1. PlanOf(l, c, j) = EnrollWebvhClient(l, c, j)
    BY <1>3 DEF PlanOf
  <2>2. CASE l = <<>>
    BY <1>0, <2>1, <2>2 DEF EnrollWebvhClient
  <2>3. CASE l # <<>>
    <3>1. PICK commit : commit =
                [Head_(l) EXCEPT !.hashes = @ \cup {j.keys.update, j.keys.staged},
                                 !.by = c]
      OBVIOUS
    <3>2. PICK add : add = [Head_(l) EXCEPT !.ukeys = @ \cup {j.keys.update},
                                    !.vms = @ \cup {j.target}, !.by = c]
      OBVIOUS
    <3>3. /\ commit \in Entry /\ add \in Entry
          /\ commit.ukeys = Head_(l).ukeys /\ commit.vms = Head_(l).vms
          /\ commit.hashes = Head_(l).hashes \cup {j.keys.update, j.keys.staged}
      <4>1. Head_(l) \in Entry /\ j.keys.update \in Key /\ j.keys.staged \in Key
        BY <2>3, HeadTyped DEF Seeds
      <4> QED
        BY <3>1, <3>2, <4>1 DEF Entry
    <3>4. \/ PlanOf(l, c, j) = Conclude
          \/ PlanOf(l, c, j) = SignAccountEntry(l, j.opts.update, add)
          \/ /\ ~({j.keys.update, j.keys.staged} \subseteq Head_(l).hashes)
             /\ j.keys.update \notin Head_(l).ukeys
             /\ PlanOf(l, c, j) = SignAccountEntry(l, j.opts.update, commit)
      BY <2>1, <2>3, <3>1, <3>2 DEF EnrollWebvhClient
    <3>5. Born(j.target, j.keys)
      BY <1>3 DEF Knows
    <3>6. add.ukeys \subseteq Head_(l).hashes => News(l, add)
      BY <2>3, <3>2, <3>3, <3>5, AddEdits
    <3>7. ~({j.keys.update, j.keys.staged} \subseteq Head_(l).hashes)
            /\ j.keys.update \notin Head_(l).ukeys => News(l, commit)
      BY <2>3, <3>3, <3>5, CommitEdits
    <3>8. PlanTells(l, c, j, SignAccountEntry(l, j.opts.update, add))
      BY <1>3, <3>6, SignTells
    <3>9. ~({j.keys.update, j.keys.staged} \subseteq Head_(l).hashes)
            /\ j.keys.update \notin Head_(l).ukeys =>
            PlanTells(l, c, j, SignAccountEntry(l, j.opts.update, commit))
      BY <1>3, <3>7, SignTells
    <3> QED
      BY <1>0, <3>4, <3>8, <3>9
  <2> QED
    BY <2>2, <2>3
<1>4. CASE j.op = "revoke"
  <2>1. PlanOf(l, c, j) = RevokeWebvhClient(l, c, j)
    BY <1>4 DEF PlanOf
  <2>2. CASE l = <<>>
    BY <1>0, <2>1, <2>2 DEF RevokeWebvhClient
  <2>3. CASE l # <<>>
    <3>1. PICK t \in Client : t = j.target
      OBVIOUS
    <3>2. PICK key : key = CurrentRevokedUpdateKey(l, t, j.keys.update)
      OBVIOUS
    <3>3. PICK e : e = RemovalEntry(l, c, t, key)
      OBVIOUS
    <3>4. e \in Entry
      <4>1. Head_(l) \in Entry
        BY <2>3, HeadTyped
      <4> QED
        BY <3>3, <4>1 DEF RemovalEntry, Entry
    <3>5. \/ PlanOf(l, c, j) \in {Throw, Conclude}
          \/ /\ PlanOf(l, c, j) = SignAccountEntry(l, j.opts.update, e)
             /\ key # NoKey
             /\ \/ t \in Head_(l).vms \/ key \in Head_(l).ukeys
                \/ key \in Head_(l).hashes
      BY <2>1, <2>3, <3>1, <3>2, <3>3 DEF RevokeWebvhClient
    <3>6. CASE /\ PlanOf(l, c, j) = SignAccountEntry(l, j.opts.update, e)
               /\ key # NoKey
               /\ \/ t \in Head_(l).vms \/ key \in Head_(l).ukeys
                  \/ key \in Head_(l).hashes
      <4>1. /\ c \in Client \ {t} /\ Owner(j.opts.update) = c
            /\ Owner(j.keys.update) = t
            /\ t \notin Ever(l) => j.keys.update = First(t)
        BY <1>4, <3>1 DEF Knows, Targets, Pairing
      <4>2. j.opts.update \in Head_(l).ukeys => News(l, e)
        BY <2>3, <3>2, <3>3, <3>4, <3>6, <4>1, RemovalEdits
      <4> QED
        BY <1>4, <3>6, <4>2, SignTells
    <3> QED
      BY <1>0, <3>5, <3>6
  <2> QED
    BY <2>2, <2>3
<1> QED
  BY <1>1, <1>2, <1>3, <1>4 DEF Job, Op

-----------------------------------------------------------------------------
(* The invariant: the log is told, and each client's seeds and ceremony     *)
(* agree with it. The operators are given what they speak of, so that a     *)
(* client no step touches is as it was.                                     *)

\* A rotation from the entry it signs to its last persist.
Signed(j, d) ==
    /\ j.op = "rotate"
    /\ \/ j.stage \in {"put", "sent", "acked", "finalize"}
       \/ j.stage = "project" /\ d # NoEntry

\* A ceremony j of client c that read r and signed d, of a client that has
\* minted m seeds and holds s, over the log l: whom it removes, and what the
\* stages between its read and its last persist hold.
HoldsOK(c, m, s, j, r, d) ==
    /\ j.stage = "rollForward" => d = NoEntry
    /\ j.stage = "persist" =>
         \/ ApprovedAgain(r, c)
         \/ c \in Top(r).vms /\ Pair(Top(r), c, j.opts.update, j.opts.staged)
    /\ j.stage \in {"put", "sent"} =>
         /\ j.op # "rotate" => News(r, d)
         /\ j.op = "rotate" =>
              /\ EditOf(r, d, c)
              /\ ApprovedAgain(r, c) \/ Pair(d, c, j.opts.staged, <<c, m>>)
              /\ s.staged = j.opts.staged /\ s.pending = <<c, m>>
StoryOf(c, l, m, s, j, r, d) ==
    /\ j.stage # "idle" => Targets(l, c, j)
    /\ HoldsOK(c, m, s, j, r, d)

\* A client the log enrols stands in it with its update and staged seeds, or
\* with its staged and pending ones.
Settled(c, l, s) == Pair(Top(l), c, s.update, s.staged)
Ahead(c, l, s) == Pair(Top(l), c, s.staged, s.pending)

\* So while it rotates: settled until its entry is published, ahead from then
\* on until the last persist.
RotationOK(c, l, m, s, j, d) ==
    /\ j.stage \in {"read", "persist", "put", "sent", "conflict"} /\ j.op = "rotate" =>
         \/ /\ Settled(c, l, j.opts)
            /\ s.update = j.opts.update /\ s.staged = j.opts.staged
         \/ j.stage = "read" /\ Ahead(c, l, j.opts) /\ s = j.opts
    /\ j.stage = "rollForward" => Ahead(c, l, j.opts)
    /\ Signed(j, d) /\ j.stage \notin {"put", "sent"} =>
         Pair(Top(l), c, j.opts.staged, <<c, m>>)
FollowOf(c, l, m, s, j, d) ==
    c \in Top(l).vms /\ ~ApprovedAgain(l, c) =>
      (Settled(c, l, s) \/ Ahead(c, l, s)) /\ RotationOK(c, l, m, s, j, d)

Story(c) ==
    /\ StoryOf(c, log, minted[c], seeds[c], job[c], seen[c], draft[c])
    /\ FollowOf(c, log, minted[c], seeds[c], job[c], draft[c])

Stood(l, c) == ApprovedAgain(l, c) \/ Anchored(l, c)
LogTold == Told(log) /\ \A c \in Client : Stood(log, c)

StoryInv == LogTold /\ \A c \in Client : Story(c)

\* A step of one client that does not write the log concerns that client only.
LEMMA OneStory ==
    ASSUME StoryInv, NEW c \in Client, Alone(c), log' = log, Story(c)'
    PROVE  StoryInv'
<1>1. ASSUME NEW d \in Client, d # c PROVE Story(d)'
  <2>1. /\ job'[d] = job[d] /\ seeds'[d] = seeds[d] /\ seen'[d] = seen[d]
        /\ draft'[d] = draft[d] /\ minted'[d] = minted[d] /\ Story(d)
    BY <1>1 DEF Alone, StoryInv
  <2> QED
    BY <2>1 DEF Story
<1>2. LogTold'
  <2>1. LogTold
    BY DEF StoryInv
  <2>2. Told(log') /\ Told(log)' = Told(log')
    BY <2>1 DEF LogTold
  <2>3. ASSUME NEW d \in Client PROVE Stood(log, d)'
    <3>1. Stood(log', d) /\ Stood(log, d)' = Stood(log', d)
      BY <2>1 DEF LogTold
    <3> QED
      BY <3>1
  <2> QED
    BY <2>2, <2>3 DEF LogTold
<1> QED
  BY <1>1, <1>2 DEF StoryInv

\* A client whose ceremony is over is left with its seeds.
LEMMA EndTells ==
    ASSUME TypeOK, StoryInv, NEW c \in Client, End(c), log' = log,
           \A d \in Client \ {c} : minted'[d] = minted[d] /\ seeds'[d] = seeds[d],
           c \in Top(log).vms /\ ~ApprovedAgain(log, c) =>
             Settled(c, log, seeds'[c]) \/ Ahead(c, log, seeds'[c])
    PROVE  StoryInv'
<1>1. /\ job \in [Client -> Job] /\ seen \in [Client -> Seq(Entry)]
      /\ draft \in [Client -> Entry \cup {NoEntry}]
  BY DEF TypeOK, LogsOK, JobsOK
<1>2. Alone(c)
  BY <1>1 DEF End, Alone
<1>3. job'[c].stage = "idle"
  BY <1>1 DEF End, Idle
<1>4. StoryOf(c, log', minted'[c], seeds'[c], job'[c], seen'[c], draft'[c])
  BY <1>3 DEF StoryOf, HoldsOK
<1>5. FollowOf(c, log', minted'[c], seeds'[c], job'[c], draft'[c])
  BY <1>3 DEF FollowOf, RotationOK, Signed
<1>6. Story(c)'
  BY <1>4, <1>5 DEF Story
<1> QED
  BY <1>2, <1>6, OneStory

\* A ceremony starts with the seeds its client has persisted.
LEMMA StartTells ==
    ASSUME TypeOK, StoryInv, NEW c \in Client, NEW op, NEW t \in Client, NEW k,
           Start(c, op, t, k),
           op = "revoke" => /\ t # c /\ Owner(k.update) = t
                            /\ t \notin Ever(log) => k.update = First(t)
    PROVE  StoryInv'
<1>1. /\ UNCHANGED <<log, seeds, minted, seen, draft>> /\ Story(c)
  BY DEF Start, StoryInv
<1>2. PICK j : j = [stage |-> "read", op |-> op, step |-> "commit",
                    target |-> t, keys |-> k, opts |-> seeds[c], attempt |-> 1]
  OBVIOUS
<1>3. job'[c] = j /\ \A d \in Client \ {c} : job'[d] = job[d]
  BY <1>2 DEF Start, TypeOK, JobsOK
<1>4. /\ j.stage = "read" /\ j.op = op /\ j.target = t /\ j.keys = k
      /\ j.opts = seeds[c]
  BY <1>2
<1>5. Alone(c)
  BY <1>1, <1>3 DEF Alone
<1>6. StoryOf(c, log, minted[c], seeds[c], j, seen[c], draft[c])
  BY <1>4 DEF StoryOf, Targets, HoldsOK
<1>7. FollowOf(c, log, minted[c], seeds[c], j, draft[c])
  BY <1>1, <1>4 DEF Story, FollowOf, RotationOK, Signed
<1>8. Story(c)'
  BY <1>1, <1>3, <1>6, <1>7 DEF Story
<1> QED
  BY <1>1, <1>5, <1>8, OneStory

\* Every ceremony a host calls starts so: a removal with a key of its target.
LEMMA CallsTell ==
    ASSUME TypeOK, StoryInv, NEW c \in Client, HostCalls(c)
    PROVE  StoryInv'
<1>0. log \in Seq(Entry) /\ Enrolled(log) = Top(log).vms /\ Top(log).vms \subseteq Ever(log)
  BY TopEver DEF TypeOK, LogsOK
<1>1. CASE StartEnsure(c)
  BY <1>1, StartTells DEF StartEnsure
<1>2. CASE StartRotate(c)
  BY <1>2, StartTells DEF StartRotate
<1>3. ASSUME NEW t \in Client, StartEnroll(c, t) PROVE StoryInv'
  <2>1. Start(c, "enroll", t, MintedSeeds(t))
    BY <1>3 DEF StartEnroll
  <2> QED
    BY <2>1, StartTells
<1>4. ASSUME NEW t \in Client, StartRevoke(c, t) PROVE StoryInv'
  <2>1. PICK listed : listed = AttributeClientUpdateKey(log, t)
    OBVIOUS
  <2>2. PICK key : key = IF t \in Enrolled(log) /\ listed \in Key THEN listed
                         ELSE First(t)
    OBVIOUS
  <2>3. PICK k : k = [MintedSeeds(t) EXCEPT !.update = key]
    OBVIOUS
  <2>4. Start(c, "revoke", t, k) /\ t # c
    BY <1>4, <2>1, <2>2, <2>3 DEF StartRevoke
  <2>5. listed = NoKey \/ Owner(listed) = t
    BY <1>0, <2>1, AttributionIs DEF StoryInv, LogTold
  <2>6. NoKey \notin Key
    BY DEF NoKey, Key
  <2>7. Owner(key) = t /\ (t \notin Ever(log) => key = First(t))
    BY <1>0, <2>2, <2>5, <2>6, FirstTwo
  <2>8. k.update = key
    BY <2>3 DEF MintedSeeds
  <2> QED
    BY <2>4, <2>7, <2>8, StartTells
<1> QED
  BY <1>1, <1>2, <1>3, <1>4 DEF HostCalls

\* A ceremony at another stage removes whom it did.
LEMMA SameTarget ==
    ASSUME NEW c, NEW l, NEW j, NEW k, Targets(l, c, j),
           k.op = j.op, k.keys = j.keys, k.target = j.target
    PROVE  Targets(l, c, k)
  BY DEF Targets

\* The plan made of a log just read is told by that log.
LEMMA ReadTells ==
    ASSUME TypeOK, LogInv, StoryInv, NEW c \in Client, ReadPublishedLog(c)
    PROVE  StoryInv'
<1>1. /\ job[c].stage = "read" /\ CallOK(c) /\ job[c] \in Job
      /\ log \in Seq(Entry) /\ job[c].opts \in Seeds /\ job[c].keys \in Seeds
      /\ job[c].target \in Client
      /\ UNCHANGED <<log, seeds, minted, wire>>
  BY DEF ReadPublishedLog, LogInv, ClientOK, TypeOK, LogsOK, JobsOK
<1>2. /\ StoryOf(c, log, minted[c], seeds[c], job[c], seen[c], draft[c])
      /\ FollowOf(c, log, minted[c], seeds[c], job[c], draft[c])
  BY DEF StoryInv, Story
<1>3. CASE End(c)
  <2>1. c \in Top(log).vms /\ ~ApprovedAgain(log, c) =>
          Settled(c, log, seeds'[c]) \/ Ahead(c, log, seeds'[c])
    BY <1>1, <1>2 DEF FollowOf
  <2> QED
    BY <1>1, <1>3, <2>1, EndTells
<1>4. CASE ~End(c)
  <2>1. PICK plan : plan = PlanOf(log, c, job[c])
    OBVIOUS
  <2>2. /\ Goto(c, plan.stage) /\ plan.stage # "idle"
        /\ seen' = [seen EXCEPT ![c] = log]
        /\ draft' = [draft EXCEPT ![c] = plan.draft]
    BY <1>4, <2>1, Zenon DEF ReadPublishedLog
  <2>3. /\ plan.stage \in {"project", "put", "persist", "rollForward"}
        /\ plan.stage # "put" => plan.draft = NoEntry
        /\ plan.stage \in Stage
    <3>1. PlanOK(log, job[c], plan)
      BY <1>1, <2>1, PlanTyped
    <3> QED
      BY <2>2, <3>1 DEF PlanOK, Plan, Throw, Conclude, Stage
  <2>4. Knows(log, c, job[c])
    BY <1>1, <1>2 DEF CallOK, KeysOK, Knows, StoryOf
  <2>13. PlanWrites(log, c, job[c], plan, minted)
    <3>1. /\ Early(c, log, job[c].opts)
          /\ log = <<>> => Born(c, job[c].opts)
          /\ Sealed(log) /\ \A d \in Client : 2 <= minted[d]
          /\ job[c].op = "enroll" => Born(job[c].target, job[c].keys)
          /\ minted \in [Client -> Nat]
      BY <1>1 DEF CallOK, KeysOK, Ever, LogInv, ClientOK, TypeOK, SeedsOK
    <3> QED
      BY <1>1, <2>1, <3>1, PlanSealed
  <2>5. PlanTells(log, c, job[c], plan)
    <3>1. Told(log) /\ Sealed(log) /\ \A d \in Client : ApprovedAgain(log, d) \/ Anchored(log, d)
      BY DEF LogInv, StoryInv, LogTold, Stood
    <3> QED
      BY <1>1, <2>1, <2>4, <3>1, PlanIsTold
  <2>6. /\ job'[c].stage = plan.stage /\ job'[c].op = job[c].op
        /\ job'[c].opts = job[c].opts /\ job'[c].keys = job[c].keys
        /\ job'[c].target = job[c].target
        /\ \A d \in Client \ {c} : job'[d] = job[d]
    BY <2>2, <2>3, GotoSame
  <2>7. /\ seen'[c] = log /\ draft'[c] = plan.draft
        /\ \A d \in Client \ {c} : seen'[d] = seen[d] /\ draft'[d] = draft[d]
    BY <2>2 DEF TypeOK, LogsOK
  <2>8. Targets(log, c, job'[c])
    BY <1>1, <1>2, <2>6, SameTarget DEF StoryOf
  <2>9. HoldsOK(c, minted[c], seeds[c], job'[c], seen'[c], draft'[c])
    BY <2>3, <2>5, <2>6, <2>7 DEF PlanTells, HoldsOK
  <2>10. ASSUME c \in Top(log).vms, ~ApprovedAgain(log, c)
         PROVE  /\ Settled(c, log, seeds[c]) \/ Ahead(c, log, seeds[c])
                /\ RotationOK(c, log, minted[c], seeds[c], job'[c], draft'[c])
    <3>1. Settled(c, log, seeds[c]) \/ Ahead(c, log, seeds[c])
      BY <1>2, <2>10 DEF FollowOf
    <3>2. job[c].op = "rotate" =>
            \/ /\ Settled(c, log, job[c].opts) /\ seeds[c].update = job[c].opts.update
               /\ seeds[c].staged = job[c].opts.staged
            \/ Ahead(c, log, job[c].opts)
      BY <1>1, <1>2, <2>10 DEF FollowOf, RotationOK
    <3>3. /\ job[c].opts.update # job[c].opts.staged
          /\ Owner(job[c].opts.staged) = c
      BY <2>4 DEF Knows, Pairing
    <3>4. plan.stage = "persist" => Settled(c, log, job[c].opts)
                                    /\ ~Ahead(c, log, job[c].opts)
      BY <2>5, <2>10, <3>3 DEF PlanTells, Settled, Ahead, Pair
    <3>5. plan.stage = "rollForward" => Ahead(c, log, job[c].opts)
      <4>1. SUFFICES ASSUME plan.stage = "rollForward", Settled(c, log, job[c].opts)
                     PROVE  FALSE
        <5>1. plan.stage = "rollForward" => job[c].op = "rotate"
          BY <2>13 DEF PlanWrites
        <5> QED
          BY <3>2, <5>1
      <4>2. job[c].opts.staged \in Mine(Top(log).ukeys, c)
        BY <2>5, <3>3, <4>1 DEF PlanTells, Mine
      <4> QED
        BY <3>3, <4>1, <4>2 DEF Settled, Pair
    <3>6. job'[c].op = "rotate" => plan.stage # "put"
      BY <2>5, <2>6 DEF PlanTells
    <3>7. RotationOK(c, log, minted[c], seeds[c], job'[c], draft'[c])
      BY <2>3, <2>6, <2>7, <3>2, <3>4, <3>5, <3>6 DEF RotationOK, Signed
    <3> QED
      BY <3>1, <3>7
  <2>11. FollowOf(c, log, minted[c], seeds[c], job'[c], draft'[c])
    BY <2>10 DEF FollowOf
  <2>12. Alone(c) /\ Story(c)'
    BY <1>1, <2>6, <2>7, <2>8, <2>9, <2>11 DEF Alone, Story, StoryOf
  <2> QED
    BY <1>1, <2>12, OneStory
<1> QED
  BY <1>3, <1>4

\* The seeds a rotation persists before it publishes.
LEMMA PersistTells ==
    ASSUME TypeOK, LogInv, StoryInv, NEW c \in Client, PersistPending(c)
    PROVE  StoryInv'
<1>1. /\ job[c].stage = "persist" /\ ClientOK(c) /\ CallOK(c) /\ job[c].opts \in Seeds
      /\ seen[c] \in Seq(Entry) /\ seen[c] # <<>>
      /\ UNCHANGED <<log, wire>>
  BY DEF PersistPending, LogInv, ClientOK, TypeOK, LogsOK, JobsOK
<1>2. /\ StoryOf(c, log, minted[c], seeds[c], job[c], seen[c], draft[c])
      /\ FollowOf(c, log, minted[c], seeds[c], job[c], draft[c])
  BY DEF StoryInv, Story
<1>3. PICK o \in Seeds : o = job[c].opts
  BY <1>1
<1>4. /\ job[c].op = "rotate" /\ Pairing(c, o) /\ Dates(minted[c], o) /\ 2 <= minted[c]
      /\ \/ ApprovedAgain(seen[c], c)
         \/ c \in Top(seen[c]).vms /\ Pair(Top(seen[c]), c, o.update, o.staged)
  BY <1>1, <1>2, <1>3 DEF StoryOf, HoldsOK, ClientOK, CallOK, KeysOK, PlanWrites, Plan
<1>5. PICK f : f = Fresh(c)
  OBVIOUS
<1>6. PICK s : s = [o EXCEPT !.pending = f]
  OBVIOUS
<1>7. s.update = o.update /\ s.staged = o.staged /\ s.pending = f
  BY <1>6 DEF Seeds
<1>8. /\ seeds'[c] = s /\ \A d \in Client \ {c} : seeds'[d] = seeds[d]
      /\ minted'[c] = minted[c] + 1 /\ minted[c] \in Nat
      /\ \A d \in Client \ {c} : minted'[d] = minted[d]
  BY <1>3, <1>5, <1>6 DEF PersistPending, TypeOK, SeedsOK
<1>9. f = <<c, minted'[c]>> /\ Serial(f) = minted'[c] /\ Owner(f) = c /\ f \in Key
  BY <1>5, <1>8 DEF Fresh, Serial, Owner, Key
<1>10. f \notin {o.update, o.staged, First(c)}
  <2>1. /\ Serial(o.update) \in Nat /\ Serial(o.staged) \in Nat
        /\ Serial(o.update) <= minted[c] /\ Serial(o.staged) <= minted[c]
    BY <1>4 DEF Dates, Seeds, Key, Serial
  <2>2. Serial(First(c)) = 1
    BY DEF First, Serial
  <2> QED
    BY <1>4, <1>8, <1>9, <2>1, <2>2
<1>11. c \in Top(log).vms /\ ~ApprovedAgain(log, c) => Settled(c, log, o)
  BY <1>1, <1>2, <1>3, <1>4 DEF FollowOf, RotationOK
<1>12. CASE End(c)
  <2>1. c \in Top(log).vms /\ ~ApprovedAgain(log, c) => Settled(c, log, seeds'[c])
    BY <1>7, <1>8, <1>11 DEF Settled
  <2> QED
    BY <1>1, <1>8, <1>12, <2>1, EndTells
<1>13. CASE ~End(c)
  <2>1. PICK e : e = RotationEntry(seen[c], c, o, f)
    OBVIOUS
  <2>2. PICK plan : plan = UpdateDID(seen[c], e)
    OBVIOUS
  <2>3. /\ Goto(c, plan.stage) /\ draft' = [draft EXCEPT ![c] = plan.draft]
        /\ UNCHANGED seen /\ plan.stage # "idle"
    BY <1>3, <1>5, <1>13, <2>1, <2>2, Zenon DEF PersistPending
  <2>4. plan.stage = "put" /\ plan.draft = e
    BY <2>2, <2>3 DEF UpdateDID, Plan, Throw
  <2>5. /\ EditOf(seen[c], e, c)
        /\ ApprovedAgain(seen[c], c) \/ Pair(e, c, o.staged, f)
    <3>1. o.staged \in Key
      BY DEF Seeds
    <3> QED
      BY <1>1, <1>4, <1>9, <1>10, <2>1, <3>1, RotationEdits
  <2>6. /\ job'[c].stage = "put" /\ job'[c].op = job[c].op
        /\ job'[c].opts = job[c].opts /\ job'[c].keys = job[c].keys
        /\ job'[c].target = job[c].target
        /\ \A d \in Client \ {c} : job'[d] = job[d]
    BY <2>3, <2>4, GotoSame DEF Stage
  <2>7. /\ seen'[c] = seen[c] /\ draft'[c] = e
        /\ \A d \in Client \ {c} : seen'[d] = seen[d] /\ draft'[d] = draft[d]
    BY <2>3, <2>4 DEF TypeOK, LogsOK
  <2>8. Targets(log, c, job'[c])
    BY <1>4, <2>6 DEF Targets
  <2>9. HoldsOK(c, minted'[c], seeds'[c], job'[c], seen'[c], draft'[c])
    BY <1>3, <1>4, <1>7, <1>8, <1>9, <2>5, <2>6, <2>7 DEF HoldsOK
  <2>10. FollowOf(c, log, minted'[c], seeds'[c], job'[c], draft'[c])
    BY <1>3, <1>7, <1>8, <1>11, <2>6 DEF FollowOf, RotationOK, Signed, Settled
  <2>11. Alone(c) /\ Story(c)'
    BY <1>1, <1>8, <2>6, <2>7, <2>8, <2>9, <2>10 DEF Alone, Story, StoryOf
  <2> QED
    BY <1>1, <2>11, OneStory
<1> QED
  BY <1>12, <1>13

\* A ceremony goes on, with what it held: its request leaves, or its answer
\* came.
LEMMA OnwardTells ==
    ASSUME TypeOK, StoryInv, NEW c \in Client, NEW stage \in Stage, Goto(c, stage),
           \/ job[c].stage = "put" /\ stage = "sent"
           \/ job[c].stage = "acked" /\ stage = "project"
           \/ job[c].stage = "sent" /\ stage = "conflict",
           UNCHANGED <<log, seeds, minted, seen, draft>>
    PROVE  StoryInv'
<1>1. /\ job'[c].stage = stage /\ job'[c].op = job[c].op
      /\ job'[c].opts = job[c].opts /\ job'[c].keys = job[c].keys
      /\ job'[c].target = job[c].target
      /\ \A d \in Client \ {c} : job'[d] = job[d]
  BY GotoSame
<1>2. /\ StoryOf(c, log, minted[c], seeds[c], job[c], seen[c], draft[c])
      /\ FollowOf(c, log, minted[c], seeds[c], job[c], draft[c])
  BY DEF StoryInv, Story
<1>3. Targets(log, c, job'[c])
  BY <1>1, <1>2, SameTarget DEF StoryOf
<1>4. HoldsOK(c, minted[c], seeds[c], job'[c], seen[c], draft[c])
  BY <1>1, <1>2 DEF StoryOf, HoldsOK
<1>5. FollowOf(c, log, minted[c], seeds[c], job'[c], draft[c])
  BY <1>1, <1>2 DEF FollowOf, RotationOK, Signed
<1>6. Alone(c) /\ Story(c)'
  BY <1>1, <1>3, <1>4, <1>5 DEF Alone, Story, StoryOf
<1> QED
  BY <1>6, OneStory

\* The request leaves; the answer is taken.
LEMMA PutTells ==
    ASSUME TypeOK, StoryInv, NEW c \in Client, PutLogResource(c)
    PROVE  StoryInv'
  BY OnwardTells DEF PutLogResource, counters, Stage

\* The same of an answer.
LEMMA AckedTells ==
    ASSUME TypeOK, StoryInv, NEW c \in Client, Acked(c)
    PROVE  StoryInv'
  BY OnwardTells DEF Acked, counters, Stage

\* A ceremony goes back to its read with nothing read or signed: what it holds
\* of the log is what its options say.
LEMMA AgainTells ==
    ASSUME TypeOK, StoryInv, NEW c \in Client, NEW j,
           job' = [job EXCEPT ![c] = j], j.stage = "read",
           j.op = job[c].op, j.opts = job[c].opts, j.keys = job[c].keys,
           j.target = job[c].target, job[c].stage # "idle",
           j.op = "rotate" => job[c].stage = "conflict",
           seen' = [seen EXCEPT ![c] = <<>>],
           draft' = [draft EXCEPT ![c] = NoEntry],
           UNCHANGED <<log, seeds, minted>>
    PROVE  StoryInv'
<1>1. /\ job'[c] = j
      /\ \A d \in Client \ {c} : /\ job'[d] = job[d] /\ seen'[d] = seen[d]
                                 /\ draft'[d] = draft[d]
  BY DEF TypeOK, LogsOK, JobsOK
<1>2. /\ StoryOf(c, log, minted[c], seeds[c], job[c], seen[c], draft[c])
      /\ FollowOf(c, log, minted[c], seeds[c], job[c], draft[c])
  BY DEF StoryInv, Story
<1>3. Targets(log, c, j)
  BY <1>2, SameTarget DEF StoryOf
<1>4. HoldsOK(c, minted[c], seeds[c], j, seen'[c], draft'[c])
  BY DEF HoldsOK
<1>5. FollowOf(c, log, minted[c], seeds[c], j, draft'[c])
  BY <1>2 DEF FollowOf, RotationOK, Signed
<1>6. Alone(c) /\ Story(c)'
  BY <1>1, <1>3, <1>4, <1>5 DEF Alone, Story, StoryOf
<1> QED
  BY <1>6, OneStory

\* A ceremony that ends with the seeds its client had.
LEMMA OverTells ==
    ASSUME TypeOK, StoryInv, NEW c \in Client, End(c), UNCHANGED <<log, seeds, minted>>
    PROVE  StoryInv'
<1>1. c \in Top(log).vms /\ ~ApprovedAgain(log, c) =>
        Settled(c, log, seeds[c]) \/ Ahead(c, log, seeds[c])
  BY DEF StoryInv, Story, FollowOf
<1> QED
  BY <1>1, EndTells

\* A refused write starts the ceremony over: the pair its client stood with
\* when it signed is still the one in the log.
LEMMA ConflictTells ==
    ASSUME TypeOK, StoryInv, NEW c \in Client, Conflict(c)
    PROVE  StoryInv'
<1>1. /\ job[c].stage = "conflict" /\ job[c] \in Job
      /\ UNCHANGED <<log, seeds, minted>>
  BY DEF Conflict, TypeOK, JobsOK
<1>2. CASE End(c)
  BY <1>1, <1>2, OverTells
<1>3. CASE ~End(c)
  <2>1. PICK j : j = [job[c] EXCEPT !.stage = "read", !.step = "commit",
                                    !.attempt = job[c].attempt + 1]
    OBVIOUS
  <2>2. /\ job' = [job EXCEPT ![c] = j]
        /\ seen' = [seen EXCEPT ![c] = <<>>]
        /\ draft' = [draft EXCEPT ![c] = NoEntry]
    BY <1>3, <2>1, Zenon DEF Conflict
  <2>3. /\ j.stage = "read" /\ j.op = job[c].op /\ j.opts = job[c].opts
        /\ j.keys = job[c].keys /\ j.target = job[c].target
    BY <1>1, <2>1 DEF Job
  <2> QED
    BY <1>1, <2>2, <2>3, AgainTells
<1> QED
  BY <1>2, <1>3

\* A rotation the log already carries: the seeds move up to where the client
\* stands.
LEMMA RollForwardTells ==
    ASSUME TypeOK, StoryInv, NEW c \in Client, RollForward(c)
    PROVE  StoryInv'
<1>1. /\ job[c].stage = "rollForward" /\ Goto(c, "project")
      /\ UNCHANGED <<log, minted, seen, draft>>
  BY DEF RollForward
<1>2. /\ StoryOf(c, log, minted[c], seeds[c], job[c], seen[c], draft[c])
      /\ FollowOf(c, log, minted[c], seeds[c], job[c], draft[c])
  BY DEF StoryInv, Story
<1>3. /\ job'[c].stage = "project" /\ job'[c].op = job[c].op
      /\ job'[c].opts = job[c].opts /\ job'[c].keys = job[c].keys
      /\ job'[c].target = job[c].target
      /\ \A d \in Client \ {c} : job'[d] = job[d]
  BY <1>1, GotoSame DEF Stage
<1>4. PICK s : s = [update |-> job[c].opts.staged, staged |-> job[c].opts.pending,
                    pending |-> NoKey]
  OBVIOUS
<1>5. seeds'[c] = s /\ \A d \in Client \ {c} : seeds'[d] = seeds[d]
  BY <1>4 DEF RollForward, TypeOK, SeedsOK
<1>6. draft[c] = NoEntry
  BY <1>1, <1>2 DEF StoryOf, HoldsOK
<1>7. Targets(log, c, job'[c])
  BY <1>1, <1>2, <1>3, SameTarget DEF StoryOf
<1>8. HoldsOK(c, minted[c], s, job'[c], seen[c], draft[c])
  BY <1>3 DEF HoldsOK
<1>9. c \in Top(log).vms /\ ~ApprovedAgain(log, c) => Settled(c, log, s)
  BY <1>1, <1>2, <1>4 DEF FollowOf, RotationOK, Settled, Ahead
<1>10. FollowOf(c, log, minted[c], s, job'[c], draft[c])
  BY <1>3, <1>6, <1>9 DEF FollowOf, RotationOK, Signed
<1>11. Alone(c) /\ Story(c)'
  BY <1>1, <1>3, <1>5, <1>7, <1>8, <1>10 DEF Alone, Story, StoryOf
<1> QED
  BY <1>1, <1>11, OneStory

\* After the did:web write a rotation has only its last persist left.
LEMMA ProjectTells ==
    ASSUME TypeOK, StoryInv, NEW c \in Client, PutDidWebProjection(c)
    PROVE  StoryInv'
<1>1. /\ job[c].stage = "project" /\ job[c] \in Job
      /\ UNCHANGED <<log, seeds, minted>>
  BY DEF PutDidWebProjection, TypeOK, JobsOK
<1>2. CASE End(c)
  BY <1>1, <1>2, OverTells
<1>3. CASE /\ job[c].op = "rotate" /\ draft[c] # NoEntry /\ Goto(c, "finalize")
           /\ UNCHANGED <<seen, draft>>
  <2>1. /\ job'[c].stage = "finalize" /\ job'[c].op = job[c].op
        /\ job'[c].opts = job[c].opts /\ job'[c].keys = job[c].keys
        /\ job'[c].target = job[c].target
        /\ \A d \in Client \ {c} : job'[d] = job[d]
    BY <1>3, GotoSame DEF Stage
  <2>2. /\ StoryOf(c, log, minted[c], seeds[c], job[c], seen[c], draft[c])
        /\ FollowOf(c, log, minted[c], seeds[c], job[c], draft[c])
    BY DEF StoryInv, Story
  <2>3. Targets(log, c, job'[c])
    BY <1>1, <2>1, <2>2, SameTarget DEF StoryOf
  <2>4. HoldsOK(c, minted[c], seeds[c], job'[c], seen[c], draft[c])
    BY <2>1 DEF HoldsOK
  <2>5. FollowOf(c, log, minted[c], seeds[c], job'[c], draft[c])
    BY <1>1, <1>3, <2>1, <2>2 DEF FollowOf, RotationOK, Signed
  <2>6. Alone(c) /\ Story(c)'
    BY <1>1, <1>3, <2>1, <2>3, <2>4, <2>5 DEF Alone, Story, StoryOf
  <2> QED
    BY <1>1, <2>6, OneStory
<1>4. CASE /\ job[c].op = "enroll"
           /\ job' = [job EXCEPT ![c] = [@ EXCEPT !.stage = "read",
                                                  !.step = "add"]]
           /\ seen' = [seen EXCEPT ![c] = <<>>]
           /\ draft' = [draft EXCEPT ![c] = NoEntry]
  <2>1. PICK j : j = [job[c] EXCEPT !.stage = "read", !.step = "add"]
    OBVIOUS
  <2>2. /\ j.stage = "read" /\ j.op = job[c].op /\ j.opts = job[c].opts
        /\ j.keys = job[c].keys /\ j.target = job[c].target
    BY <1>1, <2>1 DEF Job
  <2>3. job' = [job EXCEPT ![c] = j]
    BY <1>4, <2>1
  <2> QED
    BY <1>1, <1>4, <2>2, <2>3, AgainTells
<1> QED
  BY <1>2, <1>3, <1>4 DEF PutDidWebProjection

\* A rotation's last persist leaves its client settled.
LEMMA FinalizeTells ==
    ASSUME TypeOK, LogInv, StoryInv, NEW c \in Client, Finalize(c)
    PROVE  StoryInv'
<1>1. /\ job[c].stage = "finalize" /\ End(c) /\ ClientOK(c)
      /\ UNCHANGED <<log, minted>>
  BY DEF Finalize, LogInv
<1>2. FollowOf(c, log, minted[c], seeds[c], job[c], draft[c])
  BY DEF StoryInv, Story
<1>3. PICK f : f = <<c, minted[c]>>
  OBVIOUS
<1>4. PICK s : s = [update |-> job[c].opts.staged, staged |-> f, pending |-> NoKey]
  OBVIOUS
<1>5. seeds'[c] = s /\ \A d \in Client \ {c} : seeds'[d] = seeds[d]
  BY <1>3, <1>4 DEF Finalize, TypeOK, SeedsOK
<1>6. job[c].op = "rotate"
  BY <1>1 DEF ClientOK, PlanWrites, Plan
<1>7. c \in Top(log).vms /\ ~ApprovedAgain(log, c) => Settled(c, log, s)
  BY <1>1, <1>2, <1>3, <1>4, <1>6 DEF FollowOf, RotationOK, Settled, Signed
<1> QED
  BY <1>1, <1>5, <1>7, EndTells

\* A ceremony cut short leaves the seeds it persisted.
LEMMA CutTells ==
    ASSUME TypeOK, StoryInv, NEW c \in Client, CutShort(c)
    PROVE  StoryInv'
  BY OverTells DEF CutShort


\* A request that lands makes the log tell one edit more: the pair of the
\* client it edits is the one that client's seeds name, and the others stand
\* as they did.
LEMMA LandTells ==
    ASSUME TypeOK, LogInv, StoryInv, NEW m \in wire, Land(m)
    PROVE  StoryInv'
<1>1. PICK c \in Client : c = m.by
  BY DEF LogInv
<1>2. /\ job[c].stage = "sent" /\ seen[c] = m.base /\ draft[c] = m.entry
      /\ log \in Seq(Entry) /\ m.entry \in Entry /\ m.base \in Seq(Entry)
  BY <1>1 DEF LogInv, Waiting, TypeOK, LogsOK, Request
<1>3. PICK stage \in {"acked", "conflict"} :
        stage = IF Accepts(m) THEN "acked" ELSE "conflict"
  OBVIOUS
<1>4. Goto(c, stage) /\ UNCHANGED <<seeds, minted, seen, draft>>
      /\ log' = IF Accepts(m) THEN Append(m.base, m.entry) ELSE log
  BY <1>1, <1>3 DEF Land, Goto, LogInv, counters
<1>5. CASE ~Accepts(m)
  <2>1. stage = "conflict" /\ log' = log
    BY <1>3, <1>4, <1>5
  <2> QED
    BY <1>2, <1>4, <2>1, OnwardTells DEF Stage
<1>6. CASE Accepts(m)
  <2>1. PICK e \in Entry : e = m.entry /\ e = draft[c] /\ log' = Append(log, e)
        /\ log = seen[c]
    BY <1>2, <1>4, <1>6 DEF Accepts
  <2>2. /\ job'[c].stage = "acked" /\ job'[c].op = job[c].op
        /\ job'[c].opts = job[c].opts /\ job'[c].keys = job[c].keys
        /\ job'[c].target = job[c].target
        /\ \A d \in Client \ {c} : job'[d] = job[d]
    BY <1>3, <1>4, <1>6, GotoSame DEF Stage
  <2>3. ASSUME NEW d \in Client
        PROVE  /\ StoryOf(d, log, minted[d], seeds[d], job[d], seen[d], draft[d])
               /\ FollowOf(d, log, minted[d], seeds[d], job[d], draft[d])
               /\ ClientOK(d) /\ CallOK(d)
    BY DEF StoryInv, Story, LogInv, ClientOK
  <2>4. /\ job[c].op # "rotate" => News(log, e)
        /\ job[c].op = "rotate" =>
             /\ EditOf(log, e, c)
             /\ ApprovedAgain(log, c) \/ Pair(e, c, job[c].opts.staged, <<c, minted[c]>>)
             /\ seeds[c].staged = job[c].opts.staged
             /\ seeds[c].pending = <<c, minted[c]>>
    BY <1>2, <2>1, <2>3 DEF StoryOf, HoldsOK
  <2>5. PICK a : a = log'
    OBVIOUS
  <2>6. PICK x \in Client :
          /\ EditOf(log, e, x)
          /\ job[c].op = "rotate" => x = c
          /\ job[c].op # "rotate" /\ x \in e.vms =>
               Same(log, e, x) \/ ApprovedAgain(a, x) \/ x \notin Ever(log)
    BY <2>1, <2>4, <2>5 DEF News
  <2>7. Top(a) = e /\ Ever(a) = Ever(log) \cup e.vms
    BY <1>2, <2>1, <2>5, TopGrows
  <2>8. ASSUME NEW d \in Client, ~ApprovedAgain(a, d)
        PROVE  ~ApprovedAgain(log, d)
    BY <1>2, <2>1, <2>5, <2>8, ApprovedGrows
  <2>9. LogTold'
    <3>1. Edit(log, e)
      BY <2>6 DEF Edit
    <3>2. Told(log)
      BY DEF StoryInv, LogTold
    <3>3. Told(log')
      BY <1>2, <2>1, <3>1, <3>2, Tell
    <3>4. ASSUME NEW d \in Client PROVE Stood(a, d)
      <4>1. SUFFICES ASSUME ~ApprovedAgain(a, d) PROVE Anchored(a, d)
        BY DEF Stood
      <4>2. Clear(log, d)
        BY <1>2, <2>8, <3>2, <4>1, ToldStands DEF Stands
      <4>3. Anchored(log, d)
        BY <2>8, <4>1 DEF StoryInv, LogTold, Stood
      <4> QED
        BY <1>2, <2>1, <2>5, <3>1, <4>1, <4>2, <4>3, Anchors
    <3>5. ASSUME NEW d \in Client PROVE Stood(log, d)'
      <4>1. Stood(log', d) /\ Stood(log, d)' = Stood(log', d)
        BY <2>5, <3>4
      <4> QED
        BY <4>1
    <3>6. Told(log)' = Told(log')
      OBVIOUS
    <3> QED
      BY <3>3, <3>5, <3>6 DEF LogTold
  <2>10. ASSUME NEW d \in Client
         PROVE  StoryOf(d, a, minted[d], seeds[d], job'[d], seen[d], draft[d])
    <3>1. job[d].stage # "idle" => Targets(a, d, job[d])
      BY <2>3, <2>7 DEF StoryOf, Targets
    <3>2. CASE d = c
      <4>1. Targets(a, c, job'[c])
        BY <1>2, <2>2, <3>1, <3>2, SameTarget
      <4> QED
        BY <2>2, <3>2, <4>1 DEF StoryOf, HoldsOK
    <3>3. CASE d # c
      <4>1. job'[d] = job[d]
        BY <2>2, <3>3
      <4> QED
        BY <2>3, <3>1, <4>1 DEF StoryOf
    <3> QED
      BY <3>2, <3>3
  <2>11. ASSUME NEW d \in Client, d \in e.vms, ~ApprovedAgain(a, d)
         PROVE  /\ Settled(d, a, seeds[d]) \/ Ahead(d, a, seeds[d])
                /\ RotationOK(d, a, minted[d], seeds[d], job'[d], draft[d])
    <3>0. ~ApprovedAgain(log, d)
      BY <2>8, <2>11
    <3>1. CASE d = c /\ job[c].op = "rotate"
      <4>1. Pair(Top(a), c, job[c].opts.staged, <<c, minted[c]>>)
        BY <2>4, <2>7, <3>0, <3>1
      <4>2. Ahead(d, a, seeds[d])
        BY <2>4, <3>1, <4>1 DEF Ahead
      <4> QED
        BY <2>2, <3>1, <4>1, <4>2 DEF RotationOK, Signed
    <3>2. CASE ~(d = c /\ job[c].op = "rotate") /\ Same(log, e, d)
      <4>1. /\ d \in Top(log).vms
            /\ \A k, n : Pair(Top(a), d, k, n) <=> Pair(Top(log), d, k, n)
        BY <2>7, <2>11, <3>2 DEF Same, Pair
      <4>2. /\ Settled(d, log, seeds[d]) \/ Ahead(d, log, seeds[d])
            /\ RotationOK(d, log, minted[d], seeds[d], job[d], draft[d])
        BY <2>3, <3>0, <4>1 DEF FollowOf
      <4>3. /\ Settled(d, a, seeds[d]) \/ Ahead(d, a, seeds[d])
            /\ RotationOK(d, a, minted[d], seeds[d], job[d], draft[d])
        BY <4>1, <4>2 DEF RotationOK, Settled, Ahead
      <4>4. CASE d = c
        <5>1. job'[d].op # "rotate" /\ job'[d].stage = "acked"
          BY <2>2, <3>2, <4>4
        <5> QED
          BY <4>3, <5>1 DEF RotationOK, Signed
      <4>5. CASE d # c
        BY <2>2, <4>3, <4>5
      <4> QED
        BY <4>4, <4>5
    <3>3. CASE ~(d = c /\ job[c].op = "rotate") /\ ~Same(log, e, d)
      <4>1. /\ d = x /\ job[c].op # "rotate" /\ Changes(log, e, d)
            /\ d \notin Ever(log)
        BY <2>6, <2>11, <3>3, <2>5, <2>1 DEF EditOf
      <4>2. d \notin Top(log).vms
        BY <1>2, <4>1, TopEver
      <4>3. Pair(e, d, First(d), Second(d))
        BY <2>11, <4>1, <4>2 DEF Changes, Founds, Commits, Withdraws, Adds,
           Rotates, Removes
      <4>4. Settled(d, a, seeds[d])
        BY <2>3, <2>7, <4>1, <4>3 DEF ClientOK, KeysOK, Born, Settled
      <4>5. job[d].stage # "idle" => job[d].op # "rotate"
        BY <2>3, <4>1 DEF CallOK
      <4>6. job[d].stage # "rollForward"
        BY <2>3, <4>5 DEF ClientOK, PlanWrites, Plan
      <4>7. job'[d].stage # "rollForward"
            /\ (job'[d].stage # "idle" => job'[d].op # "rotate")
        <5>1. CASE d = c
          BY <1>2, <2>2, <4>5, <5>1
        <5>2. CASE d # c
          BY <2>2, <4>5, <4>6, <5>2
        <5> QED
          BY <5>1, <5>2
      <4> QED
        BY <4>4, <4>7 DEF RotationOK, Signed
    <3> QED
      BY <3>1, <3>2, <3>3
  <2>12. ASSUME NEW d \in Client PROVE Story(d)'
    <3>1. FollowOf(d, a, minted[d], seeds[d], job'[d], draft[d])
      BY <2>7, <2>11 DEF FollowOf
    <3> QED
      BY <1>4, <2>5, <2>10, <3>1 DEF Story
  <2> QED
    BY <2>9, <2>12 DEF StoryInv
<1> QED
  BY <1>5, <1>6

\* The story, as long as the host has not rolled the log back.
HistoryInv == rollbacks = 0 => StoryInv

\* Every step keeps the log told and the seeds in step with it, where no
\* request is delayed and the host does not roll back.
LEMMA StoryStep ==
    ASSUME Delayed = FALSE
    PROVE  TypeOK /\ ResolveInv /\ HistoryInv /\ [Next]_vars => HistoryInv'
<1> SUFFICES ASSUME TypeOK, ResolveInv, HistoryInv, [Next]_vars, rollbacks' = 0
             PROVE  StoryInv'
  BY DEF HistoryInv
<1>1. ~HostRollsBack
  <2>1. SUFFICES ASSUME HostRollsBack PROVE FALSE
    OBVIOUS
  <2>2. rollbacks \in Nat /\ rollbacks' = rollbacks + 1
    BY <2>1 DEF HostRollsBack, TypeOK, CountersOK
  <2> QED
    BY <2>2
<1>2. rollbacks' = rollbacks
  <2>1. ASSUME NEW c \in Client, HostCalls(c) PROVE rollbacks' = rollbacks
    BY <2>1 DEF HostCalls, StartEnsure, StartRotate, StartEnroll,
       StartRevoke, Start
  <2>2. ASSUME NEW c \in Client, CeremonyStep(c) \/ CutShort(c)
        PROVE  rollbacks' = rollbacks
    BY <2>2 DEF CeremonyStep, ReadPublishedLog, PersistPending,
       PutLogResource, Acked, Conflict, RollForward, PutDidWebProjection,
       Finalize, CutShort, counters
  <2>3. ASSUME NEW m \in wire, Land(m) PROVE rollbacks' = rollbacks
    BY <2>3 DEF Land, counters
  <2>4. CASE UNCHANGED vars
    BY <2>4 DEF vars
  <2> QED
    BY <1>1, <2>1, <2>2, <2>3, <2>4 DEF Next
<1>3. LogInv /\ StoryInv
  BY <1>2 DEF ResolveInv, HistoryInv
<1>4. CASE UNCHANGED vars
  <2>1. log' = log /\ UNCHANGED <<minted, seeds, job, seen, draft>>
    BY <1>4 DEF vars
  <2>2. ASSUME NEW c \in Client PROVE StoryInv'
    <3>1. Alone(c) /\ Story(c)
      BY <1>3, <2>1 DEF Alone, StoryInv
    <3>2. Story(c)'
      BY <2>1, <3>1 DEF Story
    <3> QED
      BY <1>3, <2>1, <3>1, <3>2, OneStory
  <2>3. CASE Client = {}
    <3>1. Told(log') /\ Told(log)' = Told(log')
      BY <1>3, <2>1 DEF StoryInv, LogTold
    <3> QED
      BY <2>3, <3>1 DEF StoryInv, LogTold
  <2> QED
    BY <2>2, <2>3
<1>5. ASSUME NEW c \in Client, HostCalls(c) \/ CeremonyStep(c) \/ CutShort(c)
      PROVE  StoryInv'
  BY <1>3, <1>5, CallsTell, ReadTells, PersistTells, PutTells, AckedTells,
     ConflictTells, RollForwardTells, ProjectTells, FinalizeTells, CutTells
     DEF CeremonyStep
<1>6. ASSUME NEW m \in wire, Land(m) PROVE StoryInv'
  BY <1>3, <1>6, LandTells
<1> QED
  BY <1>1, <1>4, <1>5, <1>6 DEF Next

\* Nothing is told yet, and every client holds its first seeds.
LEMMA StoryBegins == Init => HistoryInv
<1> SUFFICES ASSUME Init PROVE StoryInv
  BY DEF HistoryInv
<1>1. log = <<>> /\ Ever(<<>>) = {} /\ Top(<<>>) = NoEntry
  BY DEF Init, Ever, Top
<1>2. Told(<<>>)
  BY DEF Told
<1>3. ASSUME NEW c \in Client PROVE Stood(<<>>, c)
  BY <1>1 DEF Stood, Anchored, NoEntry
<1>4. ASSUME NEW c \in Client PROVE Story(c)
  <2>1. job[c].stage = "idle"
    BY DEF Init, Idle
  <2>2. StoryOf(c, log, minted[c], seeds[c], job[c], seen[c], draft[c])
    BY <2>1 DEF StoryOf, HoldsOK
  <2>3. FollowOf(c, log, minted[c], seeds[c], job[c], draft[c])
    BY <1>1 DEF FollowOf, NoEntry
  <2> QED
    BY <2>2, <2>3 DEF Story
<1> QED
  BY <1>1, <1>2, <1>3, <1>4 DEF StoryInv, LogTold

\* So it holds throughout.
LEMMA HistoryHolds ==
    ASSUME Delayed = FALSE
    PROVE  Spec => [](TypeOK /\ HistoryInv)
  BY StoryStep, StoryBegins, ResolveInit, ResolveStep, TypeCorrect, PTL DEF Spec

\* revokeWebvhClient takes a client out for good: on a host that served every
\* entry, where requests given up on never land, no key a removed client ever
\* minted is authorized or committed, however it rotated around the removal
\* and whatever approvals of it were repeated or cut short before it - unless
\* one of them authorized again a key it had retired (enrollWebvhClient knows
\* an enrolled client by that key alone).
THEOREM RevokedStaysOut ==
    ASSUME Delayed = FALSE
    PROVE  Spec => []RevokedIsOut
<1>1. TypeOK /\ HistoryInv => RevokedIsOut
  <2> SUFFICES ASSUME TypeOK, HistoryInv, rollbacks = 0, NEW c \in Client,
                      NEW i \in DOMAIN log, c \in log[i].vms, c \notin Enrolled(log),
                      ~ApprovedAgain(log, c)
               PROVE  \A k \in Head_(log).ukeys \cup Head_(log).hashes : Owner(k) # c
    BY DEF RevokedIsOut
  <2>1. log \in Seq(Entry) /\ log # <<>>
    BY DEF TypeOK, LogsOK
  <2>2. c \in Ever(log) /\ c \notin Top(log).vms /\ Top(log) = Head_(log)
    BY <2>1 DEF Ever, Enrolled, Top
  <2>3. Clear(log, c)
    BY <2>1, ToldStands DEF HistoryInv, StoryInv, LogTold, Stands
  <2>4. Nothing(Head_(log), c)
    BY <2>2, <2>3 DEF Clear
  <2> QED
    BY <2>4 DEF Nothing, Mine
<1> QED
  BY <1>1, HistoryHolds, PTL

\* rotateWebvhUpdateKey persists before it publishes: wherever a ceremony is
\* cut, whatever conflict it retried, the durable seeds of an enrolled client
\* that was not approved again are the key the log authorizes for it and the
\* next one it commits, or the pair one rotation on.
THEOREM SeedsStayInStep ==
    ASSUME Delayed = FALSE
    PROVE  Spec => []SeedsFollowLog
<1>1. TypeOK /\ HistoryInv => SeedsFollowLog
  <2> SUFFICES ASSUME TypeOK, HistoryInv, rollbacks = 0, NEW c \in Enrolled(log),
                      ~ApprovedAgain(log, c)
               PROVE  SeedsFollow(c)
    BY DEF SeedsFollowLog
  <2>1. log \in Seq(Entry) /\ log # <<>>
    BY DEF TypeOK, LogsOK, Enrolled
  <2>2. Head_(log) \in Entry /\ Top(log) = Head_(log) /\ Enrolled(log) = Top(log).vms
    BY <2>1, HeadTyped DEF Top, Enrolled
  <2>3. c \in Client /\ c \in Top(log).vms
    BY <2>2 DEF Entry
  <2>4. Settled(c, log, seeds[c]) \/ Ahead(c, log, seeds[c])
    BY <2>3 DEF HistoryInv, StoryInv, Story, FollowOf
  <2>5. \A k, n : Pair(Head_(log), c, k, n) =>
          {x \in Head_(log).ukeys : Owner(x) = c} = {k} /\ n \in Head_(log).hashes
    BY DEF Pair, Mine
  <2> QED
    BY <2>2, <2>4, <2>5 DEF Settled, Ahead, SeedsFollow
<1> QED
  BY <1>1, HistoryHolds, PTL

-----------------------------------------------------------------------------
(* The log as the history of a set of clients (AccountClients).             *)

\* A client that was not approved again stands by its phase and its keys.
LEMMA StandingIs ==
    ASSUME NEW l \in Seq(Entry), NEW c \in Client
    PROVE  /\ ApprovedAgain(l, c) => StandingIn(l, c) = Clients!ApprovedAgain
           /\ ~ApprovedAgain(l, c) => StandingIn(l, c) =
             [phase |-> IF c \in Top(l).vms THEN "enrolled"
                        ELSE IF c \in Ever(l) THEN "removed"
                        ELSE IF Mine(Top(l).hashes, c) # {} THEN "invited" ELSE "new",
              keys |-> Mine(Top(l).ukeys, c), hashes |-> Mine(Top(l).hashes, c)]
<1>1. c \in Ever(l) <=> \E i \in DOMAIN l : c \in l[i].vms
  BY DEF Ever
<1>2. ApprovedAgain(l, c) => StandingIn(l, c) = Clients!ApprovedAgain
  BY DEF StandingIn, Clients!ApprovedAgain
<1> QED
  BY <1>1, <1>2 DEF StandingIn, PhaseIn

\* How it stands by what the log holds of it: with a pair, with nothing, or
\* with what is left of its invitation.
LEMMA StandingReads ==
    ASSUME NEW l \in Seq(Entry), NEW c \in Client, ~ApprovedAgain(l, c)
    PROVE  /\ \A k, n : c \in Top(l).vms /\ Pair(Top(l), c, k, n) =>
                StandingIn(l, c) = Clients!Enrolled(k, n)
           /\ c \in Ever(l) \ Top(l).vms /\ Nothing(Top(l), c) =>
                StandingIn(l, c) = Clients!Removed
           /\ c \notin Ever(l) /\ c \notin Top(l).vms /\ Nothing(Top(l), c) =>
                StandingIn(l, c) = Clients!New
           /\ c \notin Ever(l) /\ c \notin Top(l).vms /\ Committed(Top(l), c) =>
                StandingIn(l, c) = Clients!Invited({First(c), Second(c)})
           /\ c \notin Ever(l) /\ c \notin Top(l).vms /\ Withdrawn(Top(l), c) =>
                StandingIn(l, c) = Clients!Invited({Second(c)})
<1>1. PICK s : s = StandingIn(l, c)
  OBVIOUS
<1>2. s = [phase |-> IF c \in Top(l).vms THEN "enrolled"
                     ELSE IF c \in Ever(l) THEN "removed"
                     ELSE IF Mine(Top(l).hashes, c) # {} THEN "invited" ELSE "new",
           keys |-> Mine(Top(l).ukeys, c), hashes |-> Mine(Top(l).hashes, c)]
  BY <1>1, StandingIs
<1>3. ASSUME c \in Ever(l) \ Top(l).vms, Nothing(Top(l), c) PROVE s = Clients!Removed
  BY <1>2, <1>3 DEF Nothing, Clients!Removed
<1>4. ASSUME c \notin Ever(l), c \notin Top(l).vms, Nothing(Top(l), c)
      PROVE  s = Clients!New
  BY <1>2, <1>4 DEF Nothing, Clients!New
<1>5. ASSUME c \notin Ever(l), c \notin Top(l).vms, Committed(Top(l), c)
      PROVE  s = Clients!Invited({First(c), Second(c)})
  BY <1>2, <1>5 DEF Committed, Clients!Invited
<1>6. ASSUME c \notin Ever(l), c \notin Top(l).vms, Withdrawn(Top(l), c)
      PROVE  s = Clients!Invited({Second(c)})
  BY <1>2, <1>6 DEF Withdrawn, Clients!Invited
<1>7. ASSUME NEW k, NEW n, c \in Top(l).vms, Pair(Top(l), c, k, n)
      PROVE  s = Clients!Enrolled(k, n)
  BY <1>2, <1>7 DEF Pair, Clients!Enrolled
<1> QED
  BY <1>1, <1>3, <1>4, <1>5, <1>6, <1>7

\* An enrolled client is one, or was approved again.
LEMMA EnrolledStands ==
    ASSUME NEW l \in Seq(Entry), NEW c \in Client,
           c \in Top(l).vms \/ ApprovedAgain(l, c)
    PROVE  StandingIn(l, c).phase \in {"enrolled", "approvedAgain"}
  BY StandingIs DEF Clients!ApprovedAgain

\* A client an entry leaves as it was stands as it did.
LEMMA SameStands ==
    ASSUME NEW l \in Seq(Entry), NEW e \in Entry, NEW d \in Client, Same(l, e, d)
    PROVE  StandingIn(Append(l, e), d) = StandingIn(l, d)
<1>1. PICK a : a = Append(l, e)
  OBVIOUS
<1>2. a \in Seq(Entry) /\ Top(a) = e /\ Ever(a) = Ever(l) \cup e.vms
  BY <1>1, TopGrows
<1>3. ApprovedAgain(a, d) <=> ApprovedAgain(l, d)
  BY <1>1, SameApproved
<1>4. CASE ApprovedAgain(l, d)
  BY <1>1, <1>2, <1>3, <1>4, StandingIs
<1>5. CASE ~ApprovedAgain(l, d)
  <2>1. /\ StandingIn(a, d) =
             [phase |-> IF d \in e.vms THEN "enrolled"
                        ELSE IF d \in Ever(l) \cup e.vms THEN "removed"
                        ELSE IF Mine(e.hashes, d) # {} THEN "invited" ELSE "new",
              keys |-> Mine(e.ukeys, d), hashes |-> Mine(e.hashes, d)]
        /\ StandingIn(l, d) =
             [phase |-> IF d \in Top(l).vms THEN "enrolled"
                        ELSE IF d \in Ever(l) THEN "removed"
                        ELSE IF Mine(Top(l).hashes, d) # {} THEN "invited" ELSE "new",
              keys |-> Mine(Top(l).ukeys, d), hashes |-> Mine(Top(l).hashes, d)]
    BY <1>2, <1>3, <1>5, StandingIs
  <2> QED
    BY <1>1, <2>1 DEF Same
<1> QED
  BY <1>4, <1>5

\* The clients of a log.
Standings(l) == [c \in Client |-> StandingIn(l, c)]

\* An entry that edits client x replaces what x stands for.
LEMMA EditBecomes ==
    ASSUME NEW l \in Seq(Entry), NEW e \in Entry, NEW x \in Client, EditOf(l, e, x),
           log = l, log' = Append(l, e)
    PROVE  /\ Clients!Becomes(x, StandingIn(log', x))
           /\ StandingIn(log', x) = StandingIn(l, x) => UNCHANGED Clients!vars
<1>1. PICK a : a = log'
  OBVIOUS
<1>2. \A d \in Client \ {x} : StandingIn(a, d) = StandingIn(l, d)
  BY <1>1, SameStands DEF EditOf
<1>3. Standings(a) = [Standings(l) EXCEPT ![x] = StandingIn(a, x)]
  BY <1>2 DEF Standings
<1>4. StandingIn(a, x) = StandingIn(l, x) => Standings(a) = Standings(l)
  BY <1>2 DEF Standings
<1> QED
  BY <1>1, <1>3, <1>4 DEF Clients!Becomes, Clients!vars, Standings

\* The entry by which a client is approved again finds nothing of its
\* invitation standing.
LEMMA AgainIsStep ==
    ASSUME NEW l \in Seq(Entry), NEW e \in Entry, NEW x \in Client,
           Stands(l, x), ~ApprovedAgain(l, x), log = l, log' = Append(l, e),
           ApprovedAgain(log', x), Clients!Becomes(x, StandingIn(log', x))
    PROVE  Clients!ApproveAgain(x)
<1>1. Approved(l, x) /\ First(x) \in e.hashes \ Top(l).hashes
  BY ApprovedGrows
<1>2. Clear(l, x) /\ Top(l).vms \subseteq Ever(l)
  BY TopEver DEF Stands
<1>3. StandingIn(log', x) = Clients!ApprovedAgain
  <2>1. Append(l, e) \in Seq(Entry) /\ log' = Append(l, e)
    BY TopGrows
  <2> QED
    BY <2>1, StandingIs
<1>4. /\ StandingIn(l, x).phase \in {"invited", "enrolled", "removed"}
      /\ First(x) \notin StandingIn(l, x).hashes
  <2>1. PICK s : s = StandingIn(l, x)
    OBVIOUS
  <2>2. s = [phase |-> IF x \in Top(l).vms THEN "enrolled"
                       ELSE IF x \in Ever(l) THEN "removed"
                       ELSE IF Mine(Top(l).hashes, x) # {} THEN "invited" ELSE "new",
             keys |-> Mine(Top(l).ukeys, x), hashes |-> Mine(Top(l).hashes, x)]
    BY <2>1, StandingIs
  <2>3. First(x) \notin s.hashes
    BY <1>1, <2>2 DEF Mine
  <2>4. x \notin Ever(l) => Mine(Top(l).hashes, x) # {}
    BY <1>1, <1>2 DEF Clear, Committed, Withdrawn
  <2> QED
    BY <2>1, <2>2, <2>3, <2>4
<1> QED
  BY <1>3, <1>4 DEF Clients!ApproveAgain, Clients!First, First

\* An entry that edits client x changes what x stands for in one of the ways
\* a set of clients is edited.
LEMMA EditIsStep ==
    ASSUME NEW l \in Seq(Entry), Told(l), NEW e \in Entry, NEW x \in Client,
           EditOf(l, e, x), log = l, log' = Append(l, e)
    PROVE  [Clients!Next]_(Clients!vars)
<1>1. PICK a : a = Append(l, e) /\ a = log'
  OBVIOUS
<1>2. a \in Seq(Entry) /\ Top(a) = e /\ Ever(a) = Ever(l) \cup e.vms
  BY <1>1, TopGrows
<1>3. Top(l).vms \subseteq Ever(l) /\ Stands(l, x)
  BY TopEver, ToldStands
<1>4. /\ Clients!Becomes(x, StandingIn(a, x))
      /\ StandingIn(a, x) = StandingIn(l, x) => UNCHANGED Clients!vars
  BY <1>1, EditBecomes
<1>5. CASE Same(l, e, x)
  BY <1>1, <1>4, <1>5, SameStands
<1>6. CASE ApprovedAgain(l, x)
  <2>1. ApprovedAgain(a, x)
    BY <1>1, <1>6, ApprovedGrows
  <2> QED
    BY <1>2, <1>4, <1>6, <2>1, StandingIs
<1>7. CASE ~ApprovedAgain(l, x) /\ ApprovedAgain(a, x)
  <2>1. Clients!ApproveAgain(x)
    BY <1>1, <1>3, <1>4, <1>7, AgainIsStep
  <2> QED
    BY <2>1 DEF Clients!Next
<1>8. CASE ~ApprovedAgain(l, x) /\ ~ApprovedAgain(a, x) /\ Changes(l, e, x)
  <2>1. /\ \A k, n : x \in e.vms /\ Pair(e, x, k, n) =>
              StandingIn(a, x) = Clients!Enrolled(k, n)
        /\ x \notin Ever(l) \cup e.vms /\ Committed(e, x) =>
              StandingIn(a, x) = Clients!Invited({First(x), Second(x)})
        /\ x \notin Ever(l) \cup e.vms /\ Withdrawn(e, x) =>
              StandingIn(a, x) = Clients!Invited({Second(x)})
        /\ x \in Ever(l) \ e.vms /\ Nothing(e, x) =>
              StandingIn(a, x) = Clients!Removed
    <3>1. /\ \A k, n : x \in Top(a).vms /\ Pair(Top(a), x, k, n) =>
                StandingIn(a, x) = Clients!Enrolled(k, n)
          /\ x \in Ever(a) \ Top(a).vms /\ Nothing(Top(a), x) =>
                StandingIn(a, x) = Clients!Removed
          /\ x \notin Ever(a) /\ x \notin Top(a).vms /\ Committed(Top(a), x) =>
                StandingIn(a, x) = Clients!Invited({First(x), Second(x)})
          /\ x \notin Ever(a) /\ x \notin Top(a).vms /\ Withdrawn(Top(a), x) =>
                StandingIn(a, x) = Clients!Invited({Second(x)})
      BY <1>2, <1>8, StandingReads
    <3> QED
      BY <1>2, <3>1
  <2>2. /\ Clients!First(x) = First(x) /\ Clients!Second(x) = Second(x)
    BY DEF Clients!First, Clients!Second, First, Second
  <2>3. CASE Founds(l, e, x)
    <3>1. l = <<>> /\ x \in e.vms /\ Pair(e, x, First(x), Second(x))
      BY <2>3 DEF Founds
    <3>2. ASSUME NEW d \in Client PROVE StandingIn(log, d) = Clients!New
      <4>1. /\ d \notin Ever(l) /\ d \notin Top(l).vms /\ Nothing(Top(l), d)
            /\ ~ApprovedAgain(l, d)
        BY <3>1 DEF Ever, Top, NoEntry, Nothing, Mine, ApprovedAgain
      <4> QED
        BY <4>1, StandingReads
    <3>3. Clients!Becomes(x, Clients!Enrolled(First(x), Second(x)))
      BY <1>4, <2>1, <3>1
    <3>4. Clients!Found(x)
      BY <2>2, <3>2, <3>3 DEF Clients!Found
    <3> QED
      BY <3>4 DEF Clients!Next
  <2>4. CASE Commits(l, e, x)
    <3>1. /\ x \notin Ever(l) /\ x \notin Top(l).vms /\ x \notin e.vms
          /\ Nothing(Top(l), x) /\ Committed(e, x)
      BY <1>3, <2>4 DEF Commits
    <3>2. StandingIn(log, x) = Clients!New
      BY <1>8, <3>1, StandingReads
    <3>3. Clients!Becomes(x, Clients!Invited({First(x), Second(x)}))
      BY <1>4, <2>1, <3>1
    <3>4. Clients!Invite(x)
      BY <2>2, <3>2, <3>3 DEF Clients!Invite
    <3> QED
      BY <3>4 DEF Clients!Next
  <2>5. CASE Withdraws(l, e, x)
    <3>1. /\ x \notin Ever(l) /\ x \notin Top(l).vms /\ x \notin e.vms
          /\ Committed(Top(l), x) /\ Withdrawn(e, x)
      BY <1>3, <2>5 DEF Withdraws
    <3>2. StandingIn(log, x) = Clients!Invited({First(x), Second(x)})
      BY <1>8, <3>1, StandingReads
    <3>3. Clients!Becomes(x, Clients!Invited({Second(x)}))
      BY <1>4, <2>1, <3>1
    <3>4. Clients!Withdraw(x)
      BY <2>2, <3>2, <3>3 DEF Clients!Withdraw
    <3> QED
      BY <3>4 DEF Clients!Next
  <2>6. CASE Adds(l, e, x)
    <3>1. /\ x \notin Ever(l) /\ x \notin Top(l).vms /\ x \in e.vms
          /\ Committed(Top(l), x) /\ Pair(e, x, First(x), Second(x))
      BY <1>3, <2>6 DEF Adds
    <3>2. StandingIn(log, x) = Clients!Invited({First(x), Second(x)})
      BY <1>8, <3>1, StandingReads
    <3>3. Clients!Becomes(x, Clients!Enrolled(First(x), Second(x)))
      BY <1>4, <2>1, <3>1
    <3>4. Clients!Enroll(x)
      BY <2>2, <3>2, <3>3 DEF Clients!Enroll
    <3> QED
      BY <3>4 DEF Clients!Next
  <2>7. CASE Rotates(l, e, x)
    <3>1. PICK k, n, f : /\ Pair(Top(l), x, k, n) /\ Pair(e, x, n, f) /\ f # k
                         /\ x \in Top(l).vms /\ x \in e.vms
      BY <2>7 DEF Rotates
    <3>2. k # n /\ f \notin {k, n}
      BY <3>1 DEF Pair
    <3>3. StandingIn(log, x) = Clients!Enrolled(k, n)
      BY <1>8, <3>1, StandingReads
    <3>4. StandingIn(a, x) = Clients!Enrolled(n, f)
      BY <2>1, <3>1
    <3>5. Clients!Becomes(x, Clients!Enrolled(n, f))
      BY <1>4, <3>4
    <3>6. k \in StandingIn(log, x).hashes /\ n \in StandingIn(log, x).hashes
          /\ f \in StandingIn(a, x).hashes
      BY <3>3, <3>4 DEF Clients!Enrolled
    <3>7. Clients!Rotate(x)
      BY <1>1, <3>2, <3>3, <3>5, <3>6 DEF Clients!Rotate
    <3> QED
      BY <3>7 DEF Clients!Next
  <2>8. CASE Removes(l, e, x)
    <3>1. /\ x \in Top(l).vms /\ x \notin e.vms /\ Nothing(e, x)
          /\ \E y \in Client \ {x} : y \in Top(l).vms \/ ApprovedAgain(l, y)
      BY <2>8 DEF Removes
    <3>2. PICK d \in Client \ {x} : d \in Top(l).vms \/ ApprovedAgain(l, d)
      BY <3>1
    <3>3. StandingIn(log, d).phase \in {"enrolled", "approvedAgain"}
      BY <3>2, EnrolledStands
    <3>4. StandingIn(log, x).phase = "enrolled"
      BY <1>8, <3>1, StandingIs
    <3>5. Clients!Becomes(x, Clients!Removed)
      BY <1>3, <1>4, <2>1, <3>1
    <3>6. Clients!Remove(x)
      BY <3>2, <3>3, <3>4, <3>5 DEF Clients!Remove
    <3> QED
      BY <3>6 DEF Clients!Next
  <2> QED
    BY <1>8, <2>3, <2>4, <2>5, <2>6, <2>7, <2>8 DEF Changes
<1> QED
  BY <1>1, <1>5, <1>6, <1>7, <1>8 DEF EditOf

\* A log told with its last entry was told before it, and the entry edits one
\* client of it.
LEMMA TellsBack ==
    ASSUME NEW l \in Seq(Entry), NEW e \in Entry, Told(Append(l, e))
    PROVE  Told(l) /\ Edit(l, e)
<1>1. PICK n \in Nat : n = Len(l) /\ DOMAIN l = 1..n
  OBVIOUS
<1>2. PICK a : a = Append(l, e)
  OBVIOUS
<1>3. a \in Seq(Entry) /\ DOMAIN a = 1..(n + 1) /\ Told(a)
  BY <1>1, <1>2
<1>4. Edit(l, e)
  <2>1. PICK i \in DOMAIN a : i = n + 1
    BY <1>3
  <2>2. SubSeq(a, 1, i - 1) = l /\ a[i] = e
    BY <1>1, <1>2, <2>1
  <2>3. Edit(SubSeq(a, 1, i - 1), a[i])
    BY <1>3 DEF Told
  <2> QED
    BY <2>2, <2>3
<1>5. ASSUME NEW i \in 1..n
      PROVE  /\ Edit(SubSeq(l, 1, i - 1), l[i])
             /\ \A c \in Client : Stands(SubSeq(l, 1, i), c)
  <2>1. SubSeq(a, 1, i - 1) = SubSeq(l, 1, i - 1) /\ a[i] = l[i]
        /\ SubSeq(a, 1, i) = SubSeq(l, 1, i)
    BY <1>1, <1>2
  <2>2. i \in DOMAIN a
    BY <1>3
  <2> QED
    BY <1>3, <2>1, <2>2 DEF Told
<1> QED
  BY <1>1, <1>4, <1>5 DEF Told

\* Nobody stands in a log that is not there.
LEMMA NobodyStands == Init => Clients!Init
<1> SUFFICES ASSUME Init PROVE Clients!Init
  OBVIOUS
<1>1. ASSUME NEW c \in Client PROVE StandingIn(log, c) = Clients!New
  <2>1. log = <<>> /\ log \in Seq(Entry)
    BY DEF Init
  <2>2. /\ c \notin Ever(log) /\ c \notin Top(log).vms /\ Nothing(Top(log), c)
        /\ ~ApprovedAgain(log, c)
    BY <2>1 DEF Ever, Top, NoEntry, Nothing, Mine, ApprovedAgain
  <2> QED
    BY <2>1, <2>2, StandingReads
<1> QED
  BY <1>1 DEF Clients!Init

\* putLogResource's conditional write turns every ceremony into an edit of one
\* client: on a host that served every entry, where requests given up on never
\* land, the published log implements AccountClients step by step, whatever the
\* ceremonies of several clients race, retry, repeat or leave half done.
THEOREM ClientsEditedOneAtATime ==
    ASSUME Delayed = FALSE
    PROVE  Spec => EditsOneClient
<1>1. TypeOK /\ HistoryInv /\ (TypeOK /\ HistoryInv)' /\ [Next]_vars
        => (rollbacks' = 0 => [Clients!Next]_(Clients!vars))
  <2> SUFFICES ASSUME TypeOK, HistoryInv, TypeOK', HistoryInv', [Next]_vars,
                      rollbacks' = 0
               PROVE  [Clients!Next]_(Clients!vars)
    OBVIOUS
  <2>1. log \in Seq(Entry) /\ rollbacks \in Nat
    BY DEF TypeOK, LogsOK, CountersOK
  <2>2. \/ log' = log
        \/ \E e \in Entry : log' = Append(log, e)
    <3>1. ASSUME NEW c \in Client, HostCalls(c) \/ CeremonyStep(c) \/ CutShort(c)
          PROVE  log' = log
      BY <3>1 DEF HostCalls, StartEnsure, StartRotate, StartEnroll, StartRevoke,
         Start, CeremonyStep, ReadPublishedLog, PersistPending, PutLogResource,
         Acked, Conflict, RollForward, PutDidWebProjection, Finalize, CutShort
    <3>2. ASSUME NEW m \in wire, Land(m)
          PROVE  log' = log \/ \E e \in Entry : log' = Append(log, e)
      BY <3>2 DEF Land, Accepts, TypeOK, LogsOK, Request
    <3>3. ~HostRollsBack
      BY <2>1 DEF HostRollsBack
    <3> QED
      BY <3>1, <3>2, <3>3 DEF Next, vars
  <2>3. CASE log' = log
    BY <2>3 DEF Clients!vars
  <2>4. ASSUME NEW e \in Entry, log' = Append(log, e)
        PROVE  [Clients!Next]_(Clients!vars)
    <3>1. Told(log')
      BY DEF HistoryInv, StoryInv, LogTold
    <3>2. PICK a : a = log'
      OBVIOUS
    <3>3. Told(a) /\ a = Append(log, e)
      BY <2>4, <3>1, <3>2 DEF Told
    <3>4. Told(log) /\ Edit(log, e)
      BY <2>1, <3>3, TellsBack
    <3> QED
      BY <2>1, <2>4, <3>4, EditIsStep DEF Edit
  <2> QED
    BY <2>2, <2>3, <2>4
<1>2. Spec => [](TypeOK /\ HistoryInv)
  BY HistoryHolds
<1> QED
  BY <1>1, <1>2, NobodyStands, PTL DEF Spec, EditsOneClient
=============================================================================

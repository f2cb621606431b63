------------------------ MODULE AccountGenesisProofs ------------------------
(***************************************************************************)
(* Proofs about AccountGenesis, for any set of browsers and collections    *)
(* and any bounds.                                                         *)
(***************************************************************************)
EXTENDS AccountGenesis, TLAPS

(***************************************************************************)
(* The inductive invariant.  A roster, an epoch and a pointer once written *)
(* stay while any ceremony is in flight, so what a ceremony read of them   *)
(* still holds when it acts on it.                                         *)
(***************************************************************************)
\* The stages of ensureAccountGenesis and of the establishment behind them.
Founding == {"bind", "provision", "log", "roster", "mint", "epochs", "adopt",
             "readLog", "annex", "flip", "point", "rebind", "registry", "promote"}
\* Those a credential-anchored establishment reaches past its epochs.
Keyed == {"readLog", "annex", "flip", "point", "rebind", "registry"}
\* Those only a founding client's genesis goes through.
ClientSteps == {"idle", "provision", "log", "roster", "mint", "epochs", "promote"}
\* The mend's stages behind the establishment arm.
Mending == {"promotion", "detect", "deliver", "mendMint", "mendEpochs",
            "mendRegistry"}

Whole == roster # None /\ \A c \in Collection : epoch[c] # None

\* What a ceremony may rely on at the stage it has reached.
JobOK(b) ==
  /\ job[b].pc \in {"roster", "mint", "epochs", "adopt"} \cup Keyed
       => pointer # "unborn"
  /\ job[b].pc \in {"epochs", "adopt"} => job[b].seen # None /\ roster = job[b].seen
  /\ job[b].pc \in {"mint", "epochs"} => job[b].key # None
  /\ job[b].pc \in {"mint", "epochs", "adopt"} /\ ~job[b].failed
       => \A c \in Collection \ job[b].todo : epoch[c] # None
  /\ job[b].pc \in {"bind", "provision", "log", "roster"} => job[b].key # None
  /\ job[b].pc \in Keyed => Whole /\ job[b].key = roster
  /\ job[b].pc = "point" => job[b].annex = "did"
  /\ job[b].pc \in {"rebind", "registry", "downgraded"} \cup Mending
       => pointer = "did"
  /\ job[b].pc = "promote" /\ anchor = "credential" => pointer = "did"
  /\ job[b].pc = "mendMint" =>
       /\ job[b].key # None
       /\ roster = None => \A c \in Collection : epoch[c] = None
  /\ job[b].pc = "mendEpochs" => roster # None /\ job[b].key = roster
  /\ job[b].pc = "mendRegistry" => lost \/ (roster # None /\ job[b].key = roster)
  /\ anchor = "client" => job[b].pc \in ClientSteps
  /\ lost => job[b].pc \notin Founding

JobsInv == \A b \in Browser : JobOK(b)

\* What is written holds together: the pointer comes after the epochs, and a
\* roster is lost only once the pointer stands.
AccountInv ==
  /\ anchor = "client" => record = "none" /\ ~lost
  /\ anchor = "credential" /\ pointer = "did" => lost \/ Whole
  /\ lost => record # "none" /\ pointer = "did"

IInv == /\ TypeOK /\ KeyedByRoster /\ PointerIsReachable /\ BoundIsWhole
        /\ JobsInv /\ AccountInv

(***************************************************************************)
(* Types                                                                   *)
(***************************************************************************)
\* The stages are stages.
LEMMA StepsTyped ==
  /\ {"bind", "provision", "log", "roster", "mint", "epochs", "adopt", "readLog"}
       \subseteq Steps
  /\ {"annex", "flip", "point", "rebind", "registry", "promote"} \subseteq Steps
  /\ {"probe", "downgraded", "promotion", "detect", "deliver", "mendMint",
      "mendEpochs", "mendRegistry"} \subseteq Steps
  BY DEF Steps

\* No ceremony at all is a job.
LEMMA IdleTyped == Idle \in Job
  BY DEF Idle, Job, Steps

\* A fresh user key is a user key.
LEMMA FreshTyped == FreshKeys \subseteq Key
  BY DEF FreshKeys

\* Going on to another stage keeps a job a job.
LEMMA GotoTyped ==
  ASSUME job \in [Browser -> Job], NEW b \in Browser, NEW pc \in Steps, Goto(b, pc)
  PROVE  job' \in [Browser -> Job]
<1>1. [job[b] EXCEPT !.pc = pc] \in Job
  BY DEF Job
<1> QED
  BY <1>1 DEF Goto

\* Ending keeps a job a job.
LEMMA StopTyped ==
  ASSUME job \in [Browser -> Job], NEW b \in Browser, Stop(b)
  PROVE  job' \in [Browser -> Job]
  BY IdleTyped DEF Stop

\* So does any update that is one itself.
LEMMA PutTyped ==
  ASSUME job \in [Browser -> Job], NEW b \in Browser, NEW r \in Job,
         job' = [job EXCEPT ![b] = r]
  PROVE  job' \in [Browser -> Job]
  OBVIOUS

\* A stage of the epochs fan-out: one collection keyed, or given up.
LEMMA FanTyped ==
  ASSUME job \in [Browser -> Job], NEW b \in Browser, NEW c \in Collection,
         \/ job' = [job EXCEPT ![b].todo = @ \ {c}]
         \/ job' = [job EXCEPT ![b].todo = @ \ {c}, ![b].failed = TRUE]
  PROVE  job' \in [Browser -> Job]
<1>1. job[b] \in Job
  OBVIOUS
<1>2. [job[b] EXCEPT !.todo = @ \ {c}] \in Job
  BY <1>1 DEF Job
<1>3. [job[b] EXCEPT !.todo = @ \ {c}, !.failed = TRUE] \in Job
  BY <1>1 DEF Job
<1> QED
  BY <1>2, <1>3, PutTyped

\* TypeOK is kept by every step.
LEMMA TypeStep == TypeOK /\ [Next]_vars => TypeOK'
<1> SUFFICES ASSUME TypeOK, [Next]_vars PROVE TypeOK'
  OBVIOUS
<1> USE GenesisAssumption, StepsTyped DEF GenesisAssumption, TypeOK
<1>1. ASSUME NEW b \in Browser PROVE job[b] \in Job
  OBVIOUS
<1>2. ASSUME NEW b \in Browser, Establish(b) PROVE TypeOK'
  <2>1. CASE Bind(b)
    BY <2>1, GotoTyped DEF Bind
  <2>2. CASE Provision(b)
    BY <2>2, GotoTyped, StopTyped DEF Provision
  <2>3. CASE PublishLog(b)
    <3>1. [job[b] EXCEPT !.pc = "roster", !.minted = TRUE] \in Job
      BY <1>1 DEF Job
    <3> QED
      BY <2>3, <3>1, GotoTyped, StopTyped, PutTyped DEF PublishLog
  <2>4. CASE ReadRoster(b)
    <3>1. ASSUME NEW seen \in Key \cup {None}, NEW pc \in Steps
          PROVE  [job[b] EXCEPT !.seen = seen, !.pc = pc, !.todo = Collection] \in Job
      BY <1>1 DEF Job
    <3>2. RosterRead(b) \in Key \cup {None}
      BY DEF RosterRead
    <3> DEFINE pc == IF RosterRead(b) = None THEN "mint" ELSE "epochs"
    <3>3. [job[b] EXCEPT !.seen = RosterRead(b), !.pc = pc, !.todo = Collection]
            \in Job
      BY <3>1, <3>2
    <3>4. CASE job' = [job EXCEPT ![b].seen = RosterRead(b), ![b].pc = pc,
                                  ![b].todo = Collection]
      BY <2>4, <3>3, <3>4, PutTyped DEF ReadRoster, Fault
    <3>5. CASE Fault /\ StageFailed(b)
      BY <2>4, <3>5, GotoTyped, StopTyped DEF ReadRoster, Fault, StageFailed
    <3> QED
      BY <2>4, <3>4, <3>5 DEF ReadRoster
  <2>5. CASE MintRoster(b)
    <3>1. job[b].key \in Key \cup {None}
      BY <1>1 DEF Job
    <3>2. [job[b] EXCEPT !.pc = "epochs", !.seen = job[b].key] \in Job
      BY <1>1 DEF Job
    <3> QED
      BY <2>5, <3>1, <3>2, GotoTyped, StopTyped, PutTyped
         DEF MintRoster, StageFailed
  <2>6. CASE EpochsDone(b)
    BY <2>6, GotoTyped, StopTyped DEF EpochsDone
  <2>7. CASE Adopt(b)
    <3>1. [job[b] EXCEPT !.pc = "epochs", !.key = roster, !.seen = roster] \in Job
      BY <1>1 DEF Job
    <3> QED
      BY ZenonT(40), <2>7, <3>1, StopTyped, PutTyped DEF Adopt
  <2>8. CASE ReadLog(b)
    BY <2>8, GotoTyped DEF ReadLog
  <2>9. CASE MintAnnex(b)
    <3>1. [job[b] EXCEPT !.pc = "flip", !.annex = "boot"] \in Job
      BY <1>1 DEF Job
    <3> QED
      BY <2>9, <3>1, PutTyped DEF MintAnnex
  <2>10. CASE Flip(b)
    <3>1. [job[b] EXCEPT !.pc = "point", !.annex = "did"] \in Job
      BY <1>1 DEF Job
    <3>2. job' \in [Browser -> Job]
      BY <2>10, <3>1, StopTyped, PutTyped DEF Flip
    <3> QED
      BY <2>10, <3>2 DEF Flip, Fault
  <2>11. CASE PointAnnex(b)
    <3>1. job[b].annex \in {None, "boot", "did"}
      BY <1>1 DEF Job
    <3> QED
      BY <2>11, <3>1, GotoTyped, StopTyped DEF PointAnnex
  <2>12. CASE Rebind(b)
    BY <2>12, GotoTyped DEF Rebind
  <2>13. CASE WriteRegistry(b)
    <3>1. job[b].key \in Key \cup {None}
      BY <1>1 DEF Job
    <3> QED
      BY <2>13, <3>1, GotoTyped DEF WriteRegistry, Registered
  <2>14. CASE Promote(b)
    BY <2>14, StopTyped DEF Promote, PromotedBy
  <2>15. ASSUME NEW c \in Collection, Epochs(b, c) PROVE TypeOK'
    <3>1. job[b].key \in Key \cup {None}
      BY <1>1 DEF Job
    <3>2. job' \in [Browser -> Job]
      BY <2>15, FanTyped DEF Epochs, KeyCollection
    <3>3. epoch' \in [Collection -> Key \cup {None}]
      BY <2>15, <3>1 DEF Epochs, KeyCollection
    <3> QED
      BY <2>15, <3>2, <3>3 DEF Epochs, Fault
  <2> QED
    BY <1>2, <2>1, <2>2, <2>3, <2>4, <2>5, <2>6, <2>7, <2>8, <2>9, <2>10, <2>11,
       <2>12, <2>13, <2>14, <2>15 DEF Establish
<1>3. ASSUME NEW b \in Browser, Mend(b) PROVE TypeOK'
  <2>1. CASE Probe(b)
    <3>1. ASSUME NEW k \in Key
          PROVE  [job[b] EXCEPT !.pc = "provision", !.key = k] \in Job
      BY <1>1 DEF Job
    <3>2. CASE pointer \notin {"unborn", None}
      BY <2>1, <3>2, GotoTyped DEF Probe
    <3>3. CASE pointer \in {"unborn", None}
      <4>1. PICK k \in FreshKeys :
              job' = [job EXCEPT ![b].pc = "provision", ![b].key = k]
        BY <2>1, <3>3 DEF Probe
      <4> QED
        BY <2>1, <3>1, <4>1, FreshTyped, PutTyped DEF Probe
    <3> QED
      BY <3>2, <3>3
  <2>2. CASE RebindDowngraded(b)
    <3>1. [Idle EXCEPT !.pc = "promotion", !.flagged = TRUE] \in Job
      BY IdleTyped DEF Job
    <3> QED
      BY <2>2, <3>1, PutTyped DEF RebindDowngraded
  <2>3. CASE PromotionArm(b)
    <3>1. [job[b] EXCEPT !.pc = "detect", !.as = "did", !.mended = TRUE] \in Job
      BY <1>1 DEF Job
    <3>2. [job[b] EXCEPT !.pc = "detect", !.as = "did"] \in Job
      BY <1>1 DEF Job
    <3>3. job' \in [Browser -> Job]
      BY <2>3, <3>1, <3>2, StopTyped, PutTyped DEF PromotionArm
    <3> QED
      BY <2>3, <3>3 DEF PromotionArm, PromotedBy, Fault
  <2>4. CASE Detect(b)
    BY <2>4, GotoTyped, StopTyped DEF Detect
  <2>5. CASE Deliver(b)
    <3>1. [job[b] EXCEPT !.pc = "mendEpochs", !.key = roster, !.todo = Collection]
            \in Job
      BY <1>1 DEF Job
    <3>2. ASSUME NEW k \in Key
          PROVE  [job[b] EXCEPT !.pc = "mendMint", !.key = k] \in Job
      BY <1>1 DEF Job
    <3>3. CASE RosterRead(b) # None
      BY ZenonT(40), <2>5, <3>1, <3>3, PutTyped DEF Deliver
    <3>5. CASE RosterRead(b) = None /\ RosterMintRefused(b) /\ Stop(b)
      BY <2>5, <3>5, StopTyped DEF Deliver
    <3>6. CASE RosterRead(b) = None /\ RosterMintRefused(b) /\ ~Stop(b)
      <4>1. PICK k \in {epoch[c] : c \in Collection} \ {None} :
              job' = [job EXCEPT ![b].pc = "mendRegistry", ![b].key = k]
        BY <2>5, <3>6 DEF Deliver
      <4>2. k \in Key
        BY DEF TypeOK
      <4>3. [job[b] EXCEPT !.pc = "mendRegistry", !.key = k] \in Job
        BY <1>1, <4>2 DEF Job
      <4> QED
        BY <2>5, <4>1, <4>3, PutTyped DEF Deliver
    <3>4. CASE RosterRead(b) = None /\ ~RosterMintRefused(b)
      <4>1. PICK k \in FreshKeys :
              job' = [job EXCEPT ![b].pc = "mendMint", ![b].key = k]
        BY <2>5, <3>4 DEF Deliver
      <4> QED
        BY <2>5, <3>2, <4>1, FreshTyped, PutTyped DEF Deliver
    <3> QED
      BY <3>3, <3>4, <3>5, <3>6
  <2>6. CASE MendMint(b)
    <3>1. roster' \in Key \cup {None}
      BY <2>6, <1>1 DEF MendMint, Job
    <3>2. [job[b] EXCEPT !.pc = "mendEpochs", !.key = roster', !.todo = Collection]
            \in Job
      BY <1>1, <3>1 DEF Job
    <3> QED
      BY <2>6, <3>1, <3>2, PutTyped DEF MendMint
  <2>7. CASE MendEpochsDone(b)
    BY <2>7, GotoTyped, StopTyped DEF MendEpochsDone
  <2>8. CASE MendRegistry(b)
    <3>1. job[b].key \in Key \cup {None}
      BY <1>1 DEF Job
    <3> QED
      BY <2>8, <3>1, StopTyped DEF MendRegistry, Registered
  <2>9. ASSUME NEW c \in Collection, MendEpochs(b, c) PROVE TypeOK'
    <3>1. job[b].key \in Key \cup {None}
      BY <1>1 DEF Job
    <3>2. job' \in [Browser -> Job]
      BY <2>9, FanTyped DEF MendEpochs, KeyCollection
    <3>3. epoch' \in [Collection -> Key \cup {None}]
      BY <2>9, <3>1 DEF MendEpochs, KeyCollection
    <3> QED
      BY <2>9, <3>2, <3>3 DEF MendEpochs, Fault
  <2> QED
    BY <1>3, <2>1, <2>2, <2>3, <2>4, <2>5, <2>6, <2>7, <2>8, <2>9 DEF Mend
<1>4. ASSUME NEW b \in Browser, SignUp(b) PROVE TypeOK'
  <2>1. ASSUME NEW k \in Key PROVE [Idle EXCEPT !.pc = "bind", !.key = k] \in Job
    BY IdleTyped DEF Job
  <2> QED
    BY <1>4, <2>1, FreshTyped, PutTyped DEF SignUp
<1>5. ASSUME NEW b \in Browser, Crash(b) PROVE TypeOK'
  BY <1>5, StopTyped DEF Crash, Fault
<1>6. ASSUME NEW b \in Browser, NEW flagged \in BOOLEAN, Login(b, flagged)
      PROVE TypeOK'
  <2>1. [Idle EXCEPT !.pc = "probe"] \in Job
    BY IdleTyped DEF Job
  <2>2. [Idle EXCEPT !.pc = "promotion", !.flagged = flagged] \in Job
    BY IdleTyped DEF Job
  <2> QED
    BY <1>6, <2>1, <2>2, PutTyped DEF Login
<1>7. ASSUME NEW b \in Browser, NEW as \in {"boot", "did"}, ClientGenesis(b, as)
      PROVE TypeOK'
  <2>1. 1 \in Key
    BY DEF Key
  <2>2. [Idle EXCEPT !.pc = "provision", !.as = as, !.key = 1] \in Job
    BY <2>1, IdleTyped DEF Job
  <2> QED
    BY <1>7, <2>2, PutTyped DEF ClientGenesis
<1>8. CASE RollBackRecord
  BY <1>8 DEF RollBackRecord, Fault
<1>9. ASSUME NEW gone \in SUBSET Collection, LoseRoster(gone) PROVE TypeOK'
  BY <1>9 DEF LoseRoster, Fault
<1>10. CASE UNCHANGED vars
  BY <1>10 DEF vars
<1> QED
  BY <1>2, <1>3, <1>4, <1>5, <1>6, <1>7, <1>8, <1>9, <1>10 DEF Next

(***************************************************************************)
(* A step of one browser                                                   *)
(***************************************************************************)
\* What no step undoes while a ceremony is in flight.
Kept ==
  /\ anchor' = anchor /\ lost' = lost
  /\ pointer # "unborn" => pointer' # "unborn"
  /\ pointer = "did" => pointer' = "did"
  /\ roster # None => roster' = roster
  /\ \A c \in Collection : epoch[c] # None => epoch'[c] # None
  /\ roster' = None => epoch' = epoch

\* What the resources owe each other, apart from the ceremonies.
Resources == KeyedByRoster /\ PointerIsReachable /\ BoundIsWhole /\ AccountInv

\* A ceremony keeps what it relies on while another browser takes a step.
LEMMA KeptJob ==
  ASSUME IInv, Kept, NEW x \in Browser, job'[x] = job[x]
  PROVE  JobOK(x)'
<1>1. JobOK(x)
  BY DEF IInv, JobsInv
<1> QED
  BY <1>1 DEF Kept, JobOK, Keyed, Whole

\* So a step of b that keeps the resources in order keeps the invariant.
LEMMA StepOf ==
  ASSUME IInv, [Next]_vars, NEW b \in Browser, Kept,
         \A x \in Browser \ {b} : job'[x] = job[x],
         JobOK(b)', Resources'
  PROVE  IInv'
<1>1. TypeOK'
  BY TypeStep DEF IInv
<1>2. JobsInv'
  BY KeptJob DEF JobsInv
<1> QED
  BY <1>1, <1>2 DEF IInv, Resources

\* The effect of the common endings of a step.
LEMMA GotoIs ==
  ASSUME TypeOK, NEW b \in Browser, NEW pc, Goto(b, pc)
  PROVE  /\ \A x \in Browser \ {b} : job'[x] = job[x]
         /\ job'[b].pc = pc /\ job'[b].key = job[b].key
         /\ job'[b].seen = job[b].seen /\ job'[b].todo = job[b].todo
         /\ job'[b].failed = job[b].failed /\ job'[b].annex = job[b].annex
<1>1. job[b] \in Job
  BY DEF TypeOK
<1>2. job' = [job EXCEPT ![b] = [job[b] EXCEPT !.pc = pc]]
  BY DEF Goto
<1>3. job'[b] = [job[b] EXCEPT !.pc = pc] /\ \A x \in Browser \ {b} : job'[x] = job[x]
  BY <1>2 DEF TypeOK
<1> QED
  BY <1>1, <1>3 DEF Job

\* Any update of one browser's ceremony leaves the others alone.
LEMMA PutIs ==
  ASSUME TypeOK, NEW b \in Browser, NEW r, job' = [job EXCEPT ![b] = r]
  PROVE  (\A x \in Browser \ {b} : job'[x] = job[x]) /\ job'[b] = r
  BY DEF TypeOK

\* A ceremony that is over relies on nothing.
LEMMA StopIs ==
  ASSUME TypeOK, NEW b \in Browser, Stop(b)
  PROVE  (\A x \in Browser \ {b} : job'[x] = job[x]) /\ JobOK(b)'
<1>1. (\A x \in Browser \ {b} : job'[x] = job[x]) /\ job'[b].pc = "idle"
  BY DEF Stop, Idle, TypeOK
<1> QED
  BY <1>1 DEF JobOK, Keyed, Mending, ClientSteps, Founding

\* Every step keeps the inductive invariant.
LEMMA InvStep == IInv /\ [Next]_vars => IInv'
<1> SUFFICES ASSUME IInv, [Next]_vars PROVE IInv'
  OBVIOUS
<1> USE GenesisAssumption DEF GenesisAssumption
<1>1. TypeOK /\ TypeOK' /\ Resources /\ \A b \in Browser : JobOK(b) /\ job[b] \in Job
  BY TypeStep DEF IInv, Resources, JobsInv, TypeOK
<1>2. ASSUME NEW b \in Browser, Establish(b) PROVE IInv'
  <2>1. JobOK(b) /\ job[b] \in Job
    BY <1>1
  <2>2. CASE Bind(b)
    <3>1. Kept /\ Resources'
      BY <1>1, <2>1, <2>2 DEF Bind, Kept, TypeOK,
         JobOK, Keyed, Mending, ClientSteps, Founding,
         Resources, KeyedByRoster, PointerIsReachable, BoundIsWhole, AccountInv, Whole
    <3>2. (\A x \in Browser \ {b} : job'[x] = job[x]) /\ JobOK(b)'
      BY <1>1, <2>1, <2>2, GotoIs, StopIs DEF Bind,
         JobOK, Keyed, Mending, ClientSteps, Founding, Whole
    <3> QED
      BY <3>1, <3>2, StepOf
  <2>3. CASE Provision(b)
    <3>1. Kept /\ Resources'
      BY <1>1, <2>1, <2>3 DEF Provision, Kept, TypeOK,
         JobOK, Keyed, Mending, ClientSteps, Founding,
         Resources, KeyedByRoster, PointerIsReachable, BoundIsWhole, AccountInv, Whole
    <3>2. (\A x \in Browser \ {b} : job'[x] = job[x]) /\ JobOK(b)'
      BY <1>1, <2>1, <2>3, GotoIs, StopIs DEF Provision,
         JobOK, Keyed, Mending, ClientSteps, Founding, Whole
    <3> QED
      BY <3>1, <3>2, StepOf
  <2>4. CASE PublishLog(b)
    <3>1. Kept /\ Resources'
      BY <1>1, <2>1, <2>4 DEF PublishLog, Kept, TypeOK,
         JobOK, Keyed, Mending, ClientSteps, Founding,
         Resources, KeyedByRoster, PointerIsReachable, BoundIsWhole, AccountInv, Whole
    <3>2. (\A x \in Browser \ {b} : job'[x] = job[x]) /\ JobOK(b)'
      <4>1. CASE pointer = "unborn" /\ Authorized(b)
        <5>1. job' = [job EXCEPT ![b].pc = "roster", ![b].minted = TRUE]
              /\ pointer' = None /\ anchor' = anchor /\ lost' = lost
              /\ job[b].pc = "log"
          BY <2>4, <4>1 DEF PublishLog
        <5>2. (\A x \in Browser \ {b} : job'[x] = job[x])
              /\ job'[b] = [job[b] EXCEPT !.pc = "roster", !.minted = TRUE]
          BY <1>1, <5>1 DEF TypeOK
        <5>3. job'[b].pc = "roster" /\ job'[b].key = job[b].key
          BY <2>1, <5>2 DEF Job
        <5> QED
          BY <2>1, <5>1, <5>2, <5>3 DEF
             JobOK, Keyed, Mending, ClientSteps, Founding
      <4>2. CASE ~(pointer = "unborn" /\ Authorized(b))
        BY <1>1, <2>1, <2>4, <4>2, GotoIs, StopIs DEF PublishLog,
           JobOK, Keyed, Mending, ClientSteps, Founding, Whole
      <4> QED
        BY <4>1, <4>2
    <3> QED
      BY <3>1, <3>2, StepOf
  <2>5. CASE ReadRoster(b)
    <3>1. Kept /\ Resources'
      BY <1>1, <2>1, <2>5 DEF ReadRoster, RosterRead, StageFailed, Kept, TypeOK,
         JobOK, Keyed, Mending, ClientSteps, Founding,
         Resources, KeyedByRoster, PointerIsReachable, BoundIsWhole, AccountInv, Whole
    <3>2. (\A x \in Browser \ {b} : job'[x] = job[x]) /\ JobOK(b)'
      <4>1. CASE StageFailed(b)
        BY <1>1, <2>1, <2>5, <4>1, GotoIs, StopIs DEF ReadRoster, RosterRead, StageFailed,
           JobOK, Keyed, Mending, ClientSteps, Founding, Whole
      <4>2. CASE job' = [job EXCEPT ![b].seen = RosterRead(b), ![b].pc = IF RosterRead(b) = None THEN "mint" ELSE "epochs", ![b].todo = Collection]
        <5>1. (\A x \in Browser \ {b} : job'[x] = job[x])
             /\ job'[b] = [job[b] EXCEPT !.seen = RosterRead(b), !.pc = IF RosterRead(b) = None THEN "mint" ELSE "epochs", !.todo = Collection]
          BY <1>1, <4>2 DEF TypeOK
        <5>2. job'[b].seen = RosterRead(b) /\ job'[b].pc = (IF RosterRead(b) = None THEN "mint" ELSE "epochs") /\ job'[b].todo = Collection /\ job'[b].key = job[b].key
          BY <2>1, <5>1 DEF Job
        <5> QED
          BY <1>1, <2>1, <2>5, <5>1, <5>2, FreshTyped DEF ReadRoster, RosterRead, StageFailed, TypeOK,
             JobOK, Keyed, Mending, ClientSteps, Founding, Whole
      <4> QED
        BY <2>5, <4>1, <4>2 DEF ReadRoster, RosterRead, StageFailed
    <3> QED
      BY <3>1, <3>2, StepOf
  <2>6. CASE MintRoster(b)
    <3>1. Kept /\ Resources'
      BY <1>1, <2>1, <2>6 DEF MintRoster, StageFailed, Kept, TypeOK,
         JobOK, Keyed, Mending, ClientSteps, Founding,
         Resources, KeyedByRoster, PointerIsReachable, BoundIsWhole, AccountInv, Whole
    <3>2. (\A x \in Browser \ {b} : job'[x] = job[x]) /\ JobOK(b)'
      <4>1. CASE Authorized(b) /\ roster = None
        <5>1. job' = [job EXCEPT ![b].pc = "epochs", ![b].seen = job[b].key]
              /\ roster' = job[b].key /\ anchor' = anchor /\ lost' = lost
              /\ pointer' = pointer /\ epoch' = epoch /\ job[b].pc = "mint"
          BY <2>6, <4>1 DEF MintRoster
        <5>2. (\A x \in Browser \ {b} : job'[x] = job[x])
              /\ job'[b] = [job[b] EXCEPT !.pc = "epochs", !.seen = job[b].key]
          BY <1>1, <5>1 DEF TypeOK
        <5>3. job'[b].pc = "epochs" /\ job'[b].seen = job[b].key
              /\ job'[b].key = job[b].key /\ job'[b].todo = job[b].todo
              /\ job'[b].failed = job[b].failed
          BY <2>1, <5>2 DEF Job
        <5> QED
          BY <2>1, <5>1, <5>2, <5>3 DEF
             JobOK, Keyed, Mending, ClientSteps, Founding
      <4>2. CASE ~(Authorized(b) /\ roster = None)
        BY <1>1, <2>1, <2>6, <4>2, GotoIs, StopIs DEF MintRoster, StageFailed,
           JobOK, Keyed, Mending, ClientSteps, Founding, Whole
      <4> QED
        BY <4>1, <4>2
    <3> QED
      BY <3>1, <3>2, StepOf
  <2>7. CASE EpochsDone(b)
    <3>1. Kept /\ Resources'
      BY <1>1, <2>1, <2>7 DEF EpochsDone, EpochsSkipped, Kept, TypeOK,
         JobOK, Keyed, Mending, ClientSteps, Founding,
         Resources, KeyedByRoster, PointerIsReachable, BoundIsWhole, AccountInv, Whole
    <3>2. (\A x \in Browser \ {b} : job'[x] = job[x]) /\ JobOK(b)'
      BY <1>1, <2>1, <2>7, GotoIs, StopIs DEF EpochsDone, EpochsSkipped,
         JobOK, Keyed, Mending, ClientSteps, Founding, Whole
    <3> QED
      BY <3>1, <3>2, StepOf
  <2>8. CASE Adopt(b)
    <3>1. Kept /\ Resources'
      BY <1>1, <2>1, <2>8 DEF Adopt, RosterRead, Kept, TypeOK,
         JobOK, Keyed, Mending, ClientSteps, Founding,
         Resources, KeyedByRoster, PointerIsReachable, BoundIsWhole, AccountInv, Whole
    <3>2. (\A x \in Browser \ {b} : job'[x] = job[x]) /\ JobOK(b)'
      <4>1. CASE Stop(b)
        BY <1>1, <2>1, <2>8, <4>1, GotoIs, StopIs DEF Adopt, RosterRead,
           JobOK, Keyed, Mending, ClientSteps, Founding, Whole
      <4>2. CASE job' = [job EXCEPT ![b].pc = "epochs", ![b].key = roster, ![b].seen = roster]
        <5>1. (\A x \in Browser \ {b} : job'[x] = job[x])
             /\ job'[b] = [job[b] EXCEPT !.pc = "epochs", !.key = roster, !.seen = roster]
          BY <1>1, <4>2 DEF TypeOK
        <5>2. job'[b].pc = "epochs" /\ job'[b].key = roster /\ job'[b].seen = roster /\ job'[b].todo = job[b].todo /\ job'[b].failed = job[b].failed
          BY <2>1, <5>1 DEF Job
        <5> QED
          BY <1>1, <2>1, <2>8, <5>1, <5>2, FreshTyped DEF Adopt, RosterRead, TypeOK,
             JobOK, Keyed, Mending, ClientSteps, Founding, Whole
      <4> QED
        BY <2>8, <4>1, <4>2 DEF Adopt, RosterRead
    <3> QED
      BY <3>1, <3>2, StepOf
  <2>9. CASE ReadLog(b)
    <3>1. Kept /\ Resources'
      BY <1>1, <2>1, <2>9 DEF ReadLog, Kept, TypeOK,
         JobOK, Keyed, Mending, ClientSteps, Founding,
         Resources, KeyedByRoster, PointerIsReachable, BoundIsWhole, AccountInv, Whole
    <3>2. (\A x \in Browser \ {b} : job'[x] = job[x]) /\ JobOK(b)'
      <4>1. CASE job[b].minted \/ pointer = None
        <5>1. Goto(b, "annex")
          BY <2>9, <4>1 DEF ReadLog
        <5> QED
          BY <1>1, <2>1, <2>9, <5>1, GotoIs DEF ReadLog,
             JobOK, Keyed, Mending, ClientSteps, Founding, Whole
      <4>2. CASE ~(job[b].minted \/ pointer = None)
        <5>1. Goto(b, "rebind")
          BY <2>9, <4>2 DEF ReadLog
        <5>2. pointer = "did"
          BY <1>1, <2>1, <2>9, <4>2 DEF ReadLog, TypeOK, Resources,
             PointerIsReachable, JobOK, Keyed
        <5> QED
          BY <1>1, <2>1, <2>9, <5>1, <5>2, GotoIs DEF ReadLog,
             JobOK, Keyed, Mending, ClientSteps, Founding, Whole
      <4> QED
        BY <4>1, <4>2
    <3> QED
      BY <3>1, <3>2, StepOf
  <2>10. CASE MintAnnex(b)
    <3>1. Kept /\ Resources'
      BY <1>1, <2>1, <2>10 DEF MintAnnex, Kept, TypeOK,
         JobOK, Keyed, Mending, ClientSteps, Founding,
         Resources, KeyedByRoster, PointerIsReachable, BoundIsWhole, AccountInv, Whole
    <3>2. (\A x \in Browser \ {b} : job'[x] = job[x]) /\ JobOK(b)'
      <4>1. CASE job' = [job EXCEPT ![b].pc = "flip", ![b].annex = "boot"]
        <5>1. (\A x \in Browser \ {b} : job'[x] = job[x])
             /\ job'[b] = [job[b] EXCEPT !.pc = "flip", !.annex = "boot"]
          BY <1>1, <4>1 DEF TypeOK
        <5>2. job'[b].pc = "flip" /\ job'[b].key = job[b].key
          BY <2>1, <5>1 DEF Job
        <5> QED
          BY <1>1, <2>1, <2>10, <5>1, <5>2, FreshTyped DEF MintAnnex, TypeOK,
             JobOK, Keyed, Mending, ClientSteps, Founding, Whole
      <4> QED
        BY <2>10, <4>1 DEF MintAnnex
    <3> QED
      BY <3>1, <3>2, StepOf
  <2>11. CASE Flip(b)
    <3>1. Kept /\ Resources'
      BY <1>1, <2>1, <2>11 DEF Flip, Kept, TypeOK,
         JobOK, Keyed, Mending, ClientSteps, Founding,
         Resources, KeyedByRoster, PointerIsReachable, BoundIsWhole, AccountInv, Whole
    <3>2. (\A x \in Browser \ {b} : job'[x] = job[x]) /\ JobOK(b)'
      <4>1. CASE Stop(b)
        BY <1>1, <2>1, <2>11, <4>1, GotoIs, StopIs DEF Flip,
           JobOK, Keyed, Mending, ClientSteps, Founding, Whole
      <4>2. CASE job' = [job EXCEPT ![b].pc = "point", ![b].annex = "did"]
        <5>1. (\A x \in Browser \ {b} : job'[x] = job[x])
             /\ job'[b] = [job[b] EXCEPT !.pc = "point", !.annex = "did"]
          BY <1>1, <4>2 DEF TypeOK
        <5>2. job'[b].pc = "point" /\ job'[b].annex = "did" /\ job'[b].key = job[b].key
          BY <2>1, <5>1 DEF Job
        <5> QED
          BY <1>1, <2>1, <2>11, <5>1, <5>2, FreshTyped DEF Flip, TypeOK,
             JobOK, Keyed, Mending, ClientSteps, Founding, Whole
      <4> QED
        BY <2>11, <4>1, <4>2 DEF Flip
    <3> QED
      BY <3>1, <3>2, StepOf
  <2>12. CASE PointAnnex(b)
    <3>1. Kept /\ Resources'
      BY <1>1, <2>1, <2>12 DEF PointAnnex, Kept, TypeOK,
         JobOK, Keyed, Mending, ClientSteps, Founding,
         Resources, KeyedByRoster, PointerIsReachable, BoundIsWhole, AccountInv, Whole
    <3>2. (\A x \in Browser \ {b} : job'[x] = job[x]) /\ JobOK(b)'
      BY <1>1, <2>1, <2>12, GotoIs, StopIs DEF PointAnnex,
         JobOK, Keyed, Mending, ClientSteps, Founding, Whole
    <3> QED
      BY <3>1, <3>2, StepOf
  <2>13. CASE Rebind(b)
    <3>1. Kept /\ Resources'
      BY <1>1, <2>1, <2>13 DEF Rebind, Kept, TypeOK,
         JobOK, Keyed, Mending, ClientSteps, Founding,
         Resources, KeyedByRoster, PointerIsReachable, BoundIsWhole, AccountInv, Whole
    <3>2. (\A x \in Browser \ {b} : job'[x] = job[x]) /\ JobOK(b)'
      BY <1>1, <2>1, <2>13, GotoIs, StopIs DEF Rebind,
         JobOK, Keyed, Mending, ClientSteps, Founding, Whole
    <3> QED
      BY <3>1, <3>2, StepOf
  <2>14. CASE WriteRegistry(b)
    <3>1. Kept /\ Resources'
      BY <1>1, <2>1, <2>14 DEF WriteRegistry, Registered, Kept, TypeOK,
         JobOK, Keyed, Mending, ClientSteps, Founding,
         Resources, KeyedByRoster, PointerIsReachable, BoundIsWhole, AccountInv, Whole
    <3>2. (\A x \in Browser \ {b} : job'[x] = job[x]) /\ JobOK(b)'
      BY <1>1, <2>1, <2>14, GotoIs, StopIs DEF WriteRegistry, Registered,
         JobOK, Keyed, Mending, ClientSteps, Founding, Whole
    <3> QED
      BY <3>1, <3>2, StepOf
  <2>15. CASE Promote(b)
    <3>1. Kept /\ Resources'
      BY <1>1, <2>1, <2>15 DEF Promote, PromotedBy, Kept, TypeOK,
         JobOK, Keyed, Mending, ClientSteps, Founding,
         Resources, KeyedByRoster, PointerIsReachable, BoundIsWhole, AccountInv, Whole
    <3>2. (\A x \in Browser \ {b} : job'[x] = job[x]) /\ JobOK(b)'
      BY <1>1, <2>1, <2>15, GotoIs, StopIs DEF Promote, PromotedBy,
         JobOK, Keyed, Mending, ClientSteps, Founding, Whole
    <3> QED
      BY <3>1, <3>2, StepOf
  <2>16. ASSUME NEW c \in Collection, Epochs(b, c) PROVE IInv'
    <3>1. Kept /\ Resources'
      BY <1>1, <2>1, <2>16 DEF Epochs, EpochsSkipped, KeyCollection, Kept, TypeOK,
         JobOK, Keyed, Mending, ClientSteps, Founding,
         Resources, KeyedByRoster, PointerIsReachable, BoundIsWhole, AccountInv, Whole
    <3>2. (\A x \in Browser \ {b} : job'[x] = job[x]) /\ JobOK(b)'
      <4>1. CASE Authorized(b) /\ KeyCollection(b, c)
        <5>1. job' = [job EXCEPT ![b].todo = @ \ {c}]
              /\ epoch' = [epoch EXCEPT ![c] = IF @ = None THEN job[b].key ELSE @]
          BY <4>1 DEF KeyCollection
        <5>2. (\A x \in Browser \ {b} : job'[x] = job[x])
              /\ job'[b] = [job[b] EXCEPT !.todo = @ \ {c}]
          BY <1>1, <5>1 DEF TypeOK
        <5>3. job'[b].todo = job[b].todo \ {c} /\ job'[b].pc = job[b].pc
              /\ job'[b].key = job[b].key /\ job'[b].seen = job[b].seen
              /\ job'[b].failed = job[b].failed
          BY <2>1, <5>2 DEF Job
        <5>4. \A x \in Collection : epoch[x] # None \/ x = c => epoch'[x] # None
          BY <1>1, <2>1, <2>16, <5>1 DEF Epochs, TypeOK, JobOK
        <5> QED
          BY <2>1, <2>16, <5>2, <5>3, <5>4 DEF Epochs,
             JobOK, Keyed, Mending, ClientSteps, Founding
      <4>2. CASE /\ job' = [job EXCEPT ![b].todo = @ \ {c}, ![b].failed = TRUE]
                 /\ UNCHANGED epoch
        <5>1. (\A x \in Browser \ {b} : job'[x] = job[x])
              /\ job'[b] = [job[b] EXCEPT !.todo = @ \ {c}, !.failed = TRUE]
          BY <1>1, <4>2 DEF TypeOK
        <5>2. job'[b].failed = TRUE /\ job'[b].pc = job[b].pc
              /\ job'[b].key = job[b].key /\ job'[b].seen = job[b].seen
          BY <2>1, <5>1 DEF Job
        <5> QED
          BY <2>1, <2>16, <4>2, <5>1, <5>2 DEF Epochs,
             JobOK, Keyed, Mending, ClientSteps, Founding
      <4> QED
        BY <2>16, <4>1, <4>2 DEF Epochs, KeyCollection
    <3> QED
      BY <3>1, <3>2, StepOf
  <2> QED
    BY <1>2, <2>2, <2>3, <2>4, <2>5, <2>6, <2>7, <2>8, <2>9, <2>10, <2>11, <2>12, <2>13, <2>14, <2>15, <2>16 DEF Establish
<1>3. ASSUME NEW b \in Browser, Mend(b) PROVE IInv'
  <2>1. JobOK(b) /\ job[b] \in Job
    BY <1>1
  <2>2. CASE Probe(b)
    <3>1. Kept /\ Resources'
      BY <1>1, <2>1, <2>2 DEF Probe, Kept, TypeOK,
         JobOK, Keyed, Mending, ClientSteps, Founding,
         Resources, KeyedByRoster, PointerIsReachable, BoundIsWhole, AccountInv, Whole
    <3>2. (\A x \in Browser \ {b} : job'[x] = job[x]) /\ JobOK(b)'
      <4>1. CASE pointer \notin {"unborn", None}
        <5>1. pointer = "did" /\ Goto(b, "downgraded")
          BY <1>1, <2>2, <4>1 DEF Probe, TypeOK, Resources, PointerIsReachable
        <5> QED
          BY <1>1, <2>1, <2>2, <5>1, GotoIs DEF Probe,
             JobOK, Keyed, Mending, ClientSteps, Founding, Whole
      <4>2. CASE pointer \in {"unborn", None}
        <5>1. PICK k \in FreshKeys :
                job' = [job EXCEPT ![b].pc = "provision", ![b].key = k]
          BY <2>2, <4>2 DEF Probe
        <5>2. k # None
          BY FreshTyped DEF Key
        <5>3. (\A x \in Browser \ {b} : job'[x] = job[x])
              /\ job'[b] = [job[b] EXCEPT !.pc = "provision", !.key = k]
          BY <1>1, <5>1 DEF TypeOK
        <5>4. job'[b].pc = "provision" /\ job'[b].key = k
          BY <2>1, <5>3 DEF Job
        <5>5. ~lost
          BY <1>1, <4>2 DEF Resources, AccountInv
        <5> QED
          BY <2>1, <2>2, <5>2, <5>3, <5>4, <5>5 DEF Probe,
             JobOK, Keyed, Mending, ClientSteps, Founding
      <4> QED
        BY <4>1, <4>2
    <3> QED
      BY <3>1, <3>2, StepOf
  <2>3. CASE RebindDowngraded(b)
    <3>1. Kept /\ Resources'
      BY <1>1, <2>1, <2>3 DEF RebindDowngraded, Kept, TypeOK,
         JobOK, Keyed, Mending, ClientSteps, Founding,
         Resources, KeyedByRoster, PointerIsReachable, BoundIsWhole, AccountInv, Whole
    <3>2. (\A x \in Browser \ {b} : job'[x] = job[x]) /\ JobOK(b)'
      BY <1>1, <2>1, <2>3, GotoIs, StopIs DEF RebindDowngraded,
         JobOK, Keyed, Mending, ClientSteps, Founding, Whole
    <3> QED
      BY <3>1, <3>2, StepOf
  <2>4. CASE PromotionArm(b)
    <3>1. Kept /\ Resources'
      BY <1>1, <2>1, <2>4 DEF PromotionArm, PromotedBy, Kept, TypeOK,
         JobOK, Keyed, Mending, ClientSteps, Founding,
         Resources, KeyedByRoster, PointerIsReachable, BoundIsWhole, AccountInv, Whole
    <3>2. (\A x \in Browser \ {b} : job'[x] = job[x]) /\ JobOK(b)'
      <4>1. CASE Stop(b)
        BY <1>1, <2>1, <2>4, <4>1, GotoIs, StopIs DEF PromotionArm, PromotedBy,
           JobOK, Keyed, Mending, ClientSteps, Founding, Whole
      <4>2. CASE job' = [job EXCEPT ![b].pc = "detect", ![b].as = "did", ![b].mended = TRUE]
        <5>1. (\A x \in Browser \ {b} : job'[x] = job[x])
             /\ job'[b] = [job[b] EXCEPT !.pc = "detect", !.as = "did", !.mended = TRUE]
          BY <1>1, <4>2 DEF TypeOK
        <5>2. job'[b].pc = "detect"
          BY <2>1, <5>1 DEF Job
        <5> QED
          BY <1>1, <2>1, <2>4, <5>1, <5>2, FreshTyped DEF PromotionArm, PromotedBy, TypeOK,
             JobOK, Keyed, Mending, ClientSteps, Founding, Whole
      <4>3. CASE job' = [job EXCEPT ![b].pc = "detect", ![b].as = "did"]
        <5>1. (\A x \in Browser \ {b} : job'[x] = job[x])
             /\ job'[b] = [job[b] EXCEPT !.pc = "detect", !.as = "did"]
          BY <1>1, <4>3 DEF TypeOK
        <5>2. job'[b].pc = "detect"
          BY <2>1, <5>1 DEF Job
        <5> QED
          BY <1>1, <2>1, <2>4, <5>1, <5>2, FreshTyped DEF PromotionArm, PromotedBy, TypeOK,
             JobOK, Keyed, Mending, ClientSteps, Founding, Whole
      <4> QED
        BY <2>4, <4>1, <4>2, <4>3 DEF PromotionArm, PromotedBy
    <3> QED
      BY <3>1, <3>2, StepOf
  <2>5. CASE Detect(b)
    <3>1. Kept /\ Resources'
      BY <1>1, <2>1, <2>5 DEF Detect, Kept, TypeOK,
         JobOK, Keyed, Mending, ClientSteps, Founding,
         Resources, KeyedByRoster, PointerIsReachable, BoundIsWhole, AccountInv, Whole
    <3>2. (\A x \in Browser \ {b} : job'[x] = job[x]) /\ JobOK(b)'
      BY <1>1, <2>1, <2>5, GotoIs, StopIs DEF Detect,
         JobOK, Keyed, Mending, ClientSteps, Founding, Whole
    <3> QED
      BY <3>1, <3>2, StepOf
  <2>6. CASE Deliver(b)
    <3>1. Kept /\ Resources'
      BY <1>1, <2>1, <2>6 DEF Deliver, RosterRead, RosterMintRefused, Kept, TypeOK,
         JobOK, Keyed, Mending, ClientSteps, Founding,
         Resources, KeyedByRoster, PointerIsReachable, BoundIsWhole, AccountInv, Whole
    <3>2. (\A x \in Browser \ {b} : job'[x] = job[x]) /\ JobOK(b)'
      <4>1. CASE RosterRead(b) # None
        <5>1. job' = [job EXCEPT ![b].pc = "mendEpochs", ![b].key = roster,
                                 ![b].todo = Collection]
          BY <2>6, <4>1 DEF Deliver
        <5>2. (\A x \in Browser \ {b} : job'[x] = job[x])
              /\ job'[b] = [job[b] EXCEPT !.pc = "mendEpochs", !.key = roster,
                                          !.todo = Collection]
          BY <1>1, <5>1 DEF TypeOK
        <5>3. job'[b].pc = "mendEpochs" /\ job'[b].key = roster
          BY <2>1, <5>2 DEF Job
        <5> QED
          BY <2>1, <2>6, <4>1, <5>2, <5>3 DEF Deliver, RosterRead,
             JobOK, Keyed, Mending, ClientSteps, Founding
      <4>2. CASE RosterRead(b) = None /\ RosterMintRefused(b) /\ Stop(b)
        BY <1>1, <2>6, <4>2, StopIs DEF Deliver
      <4>4. CASE RosterRead(b) = None /\ RosterMintRefused(b) /\ ~Stop(b)
        <5>1. PICK c \in Collection :
                /\ epoch[c] # None
                /\ job' = [job EXCEPT ![b].pc = "mendRegistry", ![b].key = epoch[c]]
          BY <2>6, <4>4 DEF Deliver
        <5>2. (\A x \in Browser \ {b} : job'[x] = job[x])
              /\ job'[b] = [job[b] EXCEPT !.pc = "mendRegistry", !.key = epoch[c]]
          BY <1>1, <5>1 DEF TypeOK
        <5>3. job'[b].pc = "mendRegistry" /\ job'[b].key = epoch[c]
          BY <2>1, <5>2 DEF Job
        <5>4. lost \/ (roster # None /\ epoch[c] = roster)
          BY <1>1, <5>1 DEF Resources, KeyedByRoster
        <5> QED
          BY <2>1, <2>6, <5>2, <5>3, <5>4 DEF Deliver,
             JobOK, Keyed, Mending, ClientSteps, Founding
      <4>3. CASE RosterRead(b) = None /\ ~RosterMintRefused(b)
        <5>1. PICK k \in FreshKeys :
                job' = [job EXCEPT ![b].pc = "mendMint", ![b].key = k]
          BY <2>6, <4>3 DEF Deliver
        <5>2. k # None
          BY FreshTyped DEF Key
        <5>3. (\A x \in Browser \ {b} : job'[x] = job[x])
              /\ job'[b] = [job[b] EXCEPT !.pc = "mendMint", !.key = k]
          BY <1>1, <5>1 DEF TypeOK
        <5>4. job'[b].pc = "mendMint" /\ job'[b].key = k
          BY <2>1, <5>3 DEF Job
        <5>5. \A c \in Collection : epoch[c] = None
          BY <4>3 DEF RosterMintRefused
        <5> QED
          BY <2>1, <2>6, <5>2, <5>3, <5>4, <5>5 DEF Deliver,
             JobOK, Keyed, Mending, ClientSteps, Founding
      <4> QED
        BY <4>1, <4>2, <4>3, <4>4
    <3> QED
      BY <3>1, <3>2, StepOf
  <2>7. CASE MendMint(b)
    <3>1. Kept /\ Resources'
      BY <1>1, <2>1, <2>7 DEF MendMint, Kept, TypeOK,
         JobOK, Keyed, Mending, ClientSteps, Founding,
         Resources, KeyedByRoster, PointerIsReachable, BoundIsWhole, AccountInv, Whole
    <3>2. (\A x \in Browser \ {b} : job'[x] = job[x]) /\ JobOK(b)'
      <4>1. CASE job' = [job EXCEPT ![b].pc = "mendEpochs", ![b].key = roster', ![b].todo = Collection]
        <5>1. (\A x \in Browser \ {b} : job'[x] = job[x])
             /\ job'[b] = [job[b] EXCEPT !.pc = "mendEpochs", !.key = roster', !.todo = Collection]
          BY <1>1, <4>1 DEF TypeOK
        <5>2. job'[b].pc = "mendEpochs" /\ job'[b].key = roster'
          BY <2>1, <5>1 DEF Job
        <5> QED
          BY <1>1, <2>1, <2>7, <5>1, <5>2, FreshTyped DEF MendMint, TypeOK,
             JobOK, Keyed, Mending, ClientSteps, Founding, Whole
      <4> QED
        BY <2>7, <4>1 DEF MendMint
    <3> QED
      BY <3>1, <3>2, StepOf
  <2>8. CASE MendEpochsDone(b)
    <3>1. Kept /\ Resources'
      BY <1>1, <2>1, <2>8 DEF MendEpochsDone, Kept, TypeOK,
         JobOK, Keyed, Mending, ClientSteps, Founding,
         Resources, KeyedByRoster, PointerIsReachable, BoundIsWhole, AccountInv, Whole
    <3>2. (\A x \in Browser \ {b} : job'[x] = job[x]) /\ JobOK(b)'
      BY <1>1, <2>1, <2>8, GotoIs, StopIs DEF MendEpochsDone,
         JobOK, Keyed, Mending, ClientSteps, Founding, Whole
    <3> QED
      BY <3>1, <3>2, StepOf
  <2>9. CASE MendRegistry(b)
    <3>1. Kept /\ Resources'
      BY <1>1, <2>1, <2>9 DEF MendRegistry, Registered, Kept, TypeOK,
         JobOK, Keyed, Mending, ClientSteps, Founding,
         Resources, KeyedByRoster, PointerIsReachable, BoundIsWhole, AccountInv, Whole
    <3>2. (\A x \in Browser \ {b} : job'[x] = job[x]) /\ JobOK(b)'
      BY <1>1, <2>1, <2>9, GotoIs, StopIs DEF MendRegistry, Registered,
         JobOK, Keyed, Mending, ClientSteps, Founding, Whole
    <3> QED
      BY <3>1, <3>2, StepOf
  <2>10. ASSUME NEW c \in Collection, MendEpochs(b, c) PROVE IInv'
    <3>1. Kept /\ Resources'
      BY <1>1, <2>1, <2>10 DEF MendEpochs, KeyCollection, Kept, TypeOK,
         JobOK, Keyed, Mending, ClientSteps, Founding,
         Resources, KeyedByRoster, PointerIsReachable, BoundIsWhole, AccountInv, Whole
    <3>2. (\A x \in Browser \ {b} : job'[x] = job[x]) /\ JobOK(b)'
      <4>1. CASE job' = [job EXCEPT ![b].todo = @ \ {c}]
        <5>1. (\A x \in Browser \ {b} : job'[x] = job[x])
             /\ job'[b] = [job[b] EXCEPT !.todo = @ \ {c}]
          BY <1>1, <4>1 DEF TypeOK
        <5>2. job'[b].todo = job[b].todo \ {c} /\ job'[b].pc = job[b].pc /\ job'[b].key = job[b].key /\ job'[b].seen = job[b].seen /\ job'[b].failed = job[b].failed
          BY <2>1, <5>1 DEF Job
        <5> QED
          BY <1>1, <2>1, <2>10, <5>1, <5>2, FreshTyped DEF MendEpochs, KeyCollection, TypeOK,
             JobOK, Keyed, Mending, ClientSteps, Founding, Whole
      <4>2. CASE job' = [job EXCEPT ![b].todo = @ \ {c}, ![b].failed = TRUE]
        <5>1. (\A x \in Browser \ {b} : job'[x] = job[x])
             /\ job'[b] = [job[b] EXCEPT !.todo = @ \ {c}, !.failed = TRUE]
          BY <1>1, <4>2 DEF TypeOK
        <5>2. job'[b].todo = job[b].todo \ {c} /\ job'[b].failed = TRUE /\ job'[b].pc = job[b].pc /\ job'[b].key = job[b].key /\ job'[b].seen = job[b].seen
          BY <2>1, <5>1 DEF Job
        <5> QED
          BY <1>1, <2>1, <2>10, <5>1, <5>2, FreshTyped DEF MendEpochs, KeyCollection, TypeOK,
             JobOK, Keyed, Mending, ClientSteps, Founding, Whole
      <4> QED
        BY <2>10, <4>1, <4>2 DEF MendEpochs, KeyCollection
    <3> QED
      BY <3>1, <3>2, StepOf
  <2> QED
    BY <1>3, <2>2, <2>3, <2>4, <2>5, <2>6, <2>7, <2>8, <2>9, <2>10 DEF Mend
<1>4. ASSUME NEW b \in Browser, SignUp(b) PROVE IInv'
  <2>1. JobOK(b) /\ job[b] \in Job
    BY <1>1
  <2>2. Kept /\ Resources'
    BY <1>1, <2>1, <1>4 DEF SignUp, Kept, TypeOK,
       Resources, KeyedByRoster, PointerIsReachable, BoundIsWhole, AccountInv, Whole
  <2>3. (\A x \in Browser \ {b} : job'[x] = job[x]) /\ JobOK(b)'
    <3>1. PICK k \in FreshKeys :
            job' = [job EXCEPT ![b] = [Idle EXCEPT !.pc = "bind", !.key = k]]
      BY <1>4 DEF SignUp
    <3>2. k # None
      BY FreshTyped DEF Key
    <3>3. (\A x \in Browser \ {b} : job'[x] = job[x]) /\ job'[b].pc = "bind"
          /\ job'[b].key = k
      BY <1>1, <3>1 DEF TypeOK, Idle
    <3> QED
      BY <1>1, <2>1, <1>4, <3>2, <3>3 DEF SignUp, Resources, AccountInv,
         JobOK, Keyed, Mending, ClientSteps, Founding
  <2> QED
    BY <2>2, <2>3, StepOf
<1>5. ASSUME NEW b \in Browser, Crash(b) PROVE IInv'
  <2>1. JobOK(b) /\ job[b] \in Job
    BY <1>1
  <2>2. Kept /\ Resources'
    BY <1>1, <2>1, <1>5 DEF Crash, Kept, TypeOK,
       Resources, KeyedByRoster, PointerIsReachable, BoundIsWhole, AccountInv, Whole
  <2>3. (\A x \in Browser \ {b} : job'[x] = job[x]) /\ JobOK(b)'
    BY <1>1, <2>1, <1>5, StopIs, FreshTyped DEF Crash, TypeOK, Idle,
       JobOK, Keyed, Mending, ClientSteps, Founding, Whole
  <2> QED
    BY <2>2, <2>3, StepOf
<1>6. ASSUME NEW b \in Browser, NEW flagged \in BOOLEAN, Login(b, flagged) PROVE IInv'
  <2>1. JobOK(b) /\ job[b] \in Job
    BY <1>1
  <2>2. Kept /\ Resources'
    BY <1>1, <2>1, <1>6 DEF Login, Kept, TypeOK,
       Resources, KeyedByRoster, PointerIsReachable, BoundIsWhole, AccountInv, Whole
  <2>3. (\A x \in Browser \ {b} : job'[x] = job[x]) /\ JobOK(b)'
    <3>1. CASE record = "interim"
      <4>1. (\A x \in Browser \ {b} : job'[x] = job[x]) /\ job'[b].pc = "probe"
        BY <1>1, <1>6, <3>1 DEF Login, TypeOK, Idle
      <4> QED
        BY <1>6, <4>1 DEF Login, JobOK, Keyed, Mending, ClientSteps, Founding
    <3>2. CASE record # "interim"
      <4>1. job' = [job EXCEPT ![b] = [Idle EXCEPT !.pc = "promotion",
                                                   !.flagged = flagged]]
        BY <1>6, <3>2 DEF Login
      <4>2. (\A x \in Browser \ {b} : job'[x] = job[x])
            /\ job'[b].pc = "promotion"
        BY <1>1, <4>1 DEF TypeOK, Idle
      <4>3. pointer = "did"
        BY <1>1, <1>6, <3>2 DEF Login, TypeOK, Resources, BoundIsWhole
      <4> QED
        BY <1>6, <4>2, <4>3 DEF Login, JobOK, Keyed, Mending, ClientSteps, Founding
    <3> QED
      BY <3>1, <3>2
  <2> QED
    BY <2>2, <2>3, StepOf
<1>7. ASSUME NEW b \in Browser, NEW as \in {"boot", "did"}, ClientGenesis(b, as) PROVE IInv'
  <2>1. JobOK(b) /\ job[b] \in Job
    BY <1>1
  <2>2. Kept /\ Resources'
    BY <1>1, <2>1, <1>7 DEF ClientGenesis, Kept, TypeOK,
       Resources, KeyedByRoster, PointerIsReachable, BoundIsWhole, AccountInv, Whole
  <2>3. (\A x \in Browser \ {b} : job'[x] = job[x]) /\ JobOK(b)'
    <3>1. (\A x \in Browser \ {b} : job'[x] = job[x])
          /\ job'[b].pc = "provision" /\ job'[b].key = 1
      BY <1>1, <1>7 DEF ClientGenesis, TypeOK, Idle
    <3> QED
      BY <1>1, <1>7, <3>1 DEF ClientGenesis, Resources, AccountInv,
         JobOK, Keyed, Mending, ClientSteps, Founding
  <2> QED
    BY <2>2, <2>3, StepOf
<1>8. CASE RollBackRecord
  <2>1. Kept /\ Resources' /\ job' = job
    BY <1>1, <1>8 DEF RollBackRecord, Kept, Resources, KeyedByRoster,
       PointerIsReachable, BoundIsWhole, AccountInv, Whole
  <2> QED
    BY <1>1, <2>1, KeptJob DEF IInv, JobsInv, Resources
<1>9. ASSUME NEW gone \in SUBSET Collection, LoseRoster(gone) PROVE IInv'
  <2>1. Resources'
    BY <1>1, <1>9 DEF LoseRoster, Resources, KeyedByRoster, TypeOK,
       PointerIsReachable, BoundIsWhole, AccountInv, Whole
  <2>2. JobsInv'
    BY <1>9 DEF LoseRoster, JobsInv, JobOK, Keyed, Mending, ClientSteps, Founding
  <2> QED
    BY <1>1, <2>1, <2>2 DEF IInv, Resources
<1>10. CASE UNCHANGED vars
  BY <1>10 DEF vars, IInv, TypeOK, KeyedByRoster, PointerIsReachable, BoundIsWhole,
     JobsInv, JobOK, AccountInv, Whole
<1> QED
  BY <1>2, <1>3, <1>4, <1>5, <1>6, <1>7, <1>8, <1>9, <1>10 DEF Next

\* It holds where no account exists yet.
LEMMA InvInit == Init => IInv
<1> SUFFICES ASSUME Init PROVE IInv
  OBVIOUS
<1> USE GenesisAssumption DEF GenesisAssumption, Init
<1>1. job \in [Browser -> Job]
  BY IdleTyped
<1>2. epoch \in [Collection -> Key \cup {None}]
  OBVIOUS
<1>3. lost \in BOOLEAN
  BY Zenon
<1>4. TypeOK
  BY <1>1, <1>2, <1>3 DEF TypeOK
<1>5. JobsInv
  BY DEF JobsInv, JobOK, Idle, Keyed, Mending, ClientSteps, Founding
<1> QED
  BY <1>4, <1>5 DEF IInv, KeyedByRoster, PointerIsReachable, BoundIsWhole,
     AccountInv

\* So it holds throughout.
LEMMA Invariance == Spec => []IInv
<1>1. Init => IInv
  BY InvInit
<1>2. IInv /\ [Next]_vars => IInv'
  BY InvStep
<1> QED
  BY <1>1, <1>2, PTL DEF Spec

(***************************************************************************)
(* The theorems                                                            *)
(***************************************************************************)
\* Every reachable state of sign-ups, logins and mends is well typed.
THEOREM TypeCorrect == Spec => []TypeOK
<1>1. IInv => TypeOK
  BY DEF IInv
<1> QED
  BY <1>1, Invariance, PTL

\* Whichever of any number of overlapping establishments and mends mints the
\* roster (initRecipients), no collection is keyed and no registry entry is
\* sealed under a user key the roster does not deliver.
THEOREM KeysFollowRoster == Spec => []KeyedByRoster
<1>1. IInv => KeyedByRoster
  BY DEF IInv
<1> QED
  BY <1>1, Invariance, PTL

\* The document never points at an annex Space that does not answer to the
\* account yet (ensurePointedClientAnnexGeneration flips before it points).
THEOREM PointerAnswers == Spec => []PointerIsReachable
<1>1. IInv => PointerIsReachable
  BY DEF IInv
<1> QED
  BY <1>1, Invariance, PTL

\* Wherever establishments and mends die and however their steps overlap, the
\* record names the DID, and the Space is promoted, only when log, pointer,
\* roster and every epoch stand.
THEOREM BoundStaysWhole == Spec => []BoundIsWhole
<1>1. IInv => BoundIsWhole
  BY DEF IInv
<1> QED
  BY <1>1, Invariance, PTL
=============================================================================

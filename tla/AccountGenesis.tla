--------------------------- MODULE AccountGenesis ---------------------------
(***************************************************************************)
(* How an account comes to exist, and how a torn one is mended.            *)
(*                                                                         *)
(* A client-anchored account is created by ensureAccountGenesis            *)
(* (src/src/genesis): Space, DID log, user key roster, first epochs of the *)
(* encrypted collections, controller promotion, each later stage collected *)
(* when it fails.  A credential-anchored account is created by             *)
(* establishCredentialAnchoredAccount (src/src/clientAnnex): an interim    *)
(* unlock record first, the same stages, the annex generation the document *)
(* points at, the record bound again with the DID, the registry, and the   *)
(* promotion last.  Every login that finds an account of this kind torn    *)
(* runs mendCredentialAnchoredAccount.                                     *)
(*                                                                         *)
(* Sign-ups and logins of several browsers overlap, any of them may die    *)
(* between two requests, and the server answers a request it does not      *)
(* authorize as if the resource did not exist.  One credential holds the   *)
(* account, and its record is verified before a login acts on it.          *)
(***************************************************************************)
EXTENDS Integers, FiniteSets

CONSTANTS Browser,     \* the browsers that sign up and log in
          Collection,  \* the encrypted collections of the wallet Space
          MaxKey,      \* bound: user keys told apart
          MaxFaults,   \* bound: crashes, failed stages and host faults
          None         \* no key, no roster, no pointer

ASSUME GenesisAssumption ==
  /\ MaxKey \in Nat \ {0} /\ MaxKey > Cardinality(Browser)
  /\ MaxFaults \in Nat
  /\ None \notin Nat \cup {"unborn", "boot", "did"}

VARIABLES
  anchor,    \* "client" or "credential": the kind of account, never changed
  space,     \* who controls the Space: "none", "boot" (a did:key), "did"
  pointer,   \* the log: "unborn", None, or the controller of the annex
             \* Space its delegated-clients pointer names
  roster,    \* the user key the roster delivers
  epoch,     \* per collection, the user key its first epoch is wrapped to
  record,    \* the unlock record: "none", "interim" (no DID), "full"
  registry,  \* the user key the credential's registry entry is sealed to
  lost,      \* the host lost the roster
  job,       \* the ceremony each browser has in flight
  faults     \* faults the environment may still cause

vars == <<anchor, space, pointer, roster, epoch, record, registry, lost, job, faults>>

Key == 1 .. MaxKey

\* A ceremony: the identity it signs as, the user key it works with, the
\* roster it read, whether it published the log itself, the collections left
\* to key, whether a stage failed, the annex Space it minted, and what the
\* mend found repaired.
Idle == [pc |-> "idle", as |-> "boot", key |-> None, seen |-> None,
         minted |-> FALSE, todo |-> {}, failed |-> FALSE, annex |-> None,
         mended |-> FALSE, flagged |-> FALSE]

Steps == {"idle", "bind", "provision", "log", "roster", "mint", "epochs",
          "adopt", "readLog", "annex", "flip", "point", "rebind", "registry",
          "promote", "probe", "downgraded", "promotion", "detect", "deliver",
          "mendMint", "mendEpochs", "mendRegistry"}

Job == [pc : Steps, as : {"boot", "did"}, key : Key \cup {None},
        seen : Key \cup {None}, minted : BOOLEAN, todo : SUBSET Collection,
        failed : BOOLEAN, annex : {None, "boot", "did"}, mended : BOOLEAN,
        flagged : BOOLEAN]

Goto(b, pc) == job' = [job EXCEPT ![b].pc = pc]
Stop(b)     == job' = [job EXCEPT ![b] = Idle]
Fault       == faults > 0 /\ faults' = faults - 1

\* The server authorizes the identity the Space answers to, and serves
\* everyone else the absence of what they ask for.
Authorized(b) == space = job[b].as
RosterRead(b) == IF Authorized(b) THEN roster ELSE None

\* A user key nobody holds.
FreshKeys == LET held == {roster, registry} \cup {epoch[c] : c \in Collection}
                         \cup {job[b].key : b \in Browser}
             IN  {k \in Key \ held : \A i \in 1 .. (k - 1) : i \in held}

Init ==
  /\ anchor \in {"client", "credential"}
  /\ space = "none" /\ pointer = "unborn" /\ roster = None
  /\ epoch = [c \in Collection |-> None]
  /\ record = "none" /\ registry = None /\ lost = FALSE
  /\ job = [b \in Browser |-> Idle]
  /\ faults = MaxFaults

(***************************************************************************)
(* Starting                                                                *)
(***************************************************************************)
\* A sign-up with a fresh credential: one account Space, minted by its caller.
SignUp(b) ==
  /\ anchor = "credential" /\ record = "none" /\ space = "none"
  /\ \A x \in Browser : job[x].pc = "idle"
  /\ \E k \in FreshKeys :
       job' = [job EXCEPT ![b] = [Idle EXCEPT !.pc = "bind", !.key = k]]
  /\ UNCHANGED <<anchor, space, pointer, roster, epoch, record, registry, lost, faults>>

\* The interim record, which holds the ladder seed and the Space and no DID.
Bind(b) ==
  /\ job[b].pc = "bind"
  /\ record' = "interim"
  /\ Goto(b, "provision")
  /\ UNCHANGED <<anchor, space, pointer, roster, epoch, registry, lost, faults>>

\* ensureAccountGenesis by the founding client, at its sign-up and at its
\* logins: one key set, and the identity its session signs as.
ClientGenesis(b, as) ==
  /\ anchor = "client" /\ job[b].pc = "idle"
  /\ as = "did" => pointer # "unborn"
  /\ job' = [job EXCEPT ![b] = [Idle EXCEPT !.pc = "provision", !.as = as,
                                            !.key = 1]]
  /\ UNCHANGED <<anchor, space, pointer, roster, epoch, record, registry, lost, faults>>

(***************************************************************************)
(* The genesis stages both kinds of account share                          *)
(***************************************************************************)
\* provisionWalletSpace: created for the did:key, adopted when it answers,
\* fatal when it does not.
Provision(b) ==
  /\ job[b].pc = "provision"
  /\ IF space = "none" /\ job[b].as = "boot"
     THEN space' = "boot" /\ Goto(b, "log")
     ELSE /\ UNCHANGED space
          /\ IF Authorized(b) THEN Goto(b, "log") ELSE Stop(b)
  /\ UNCHANGED <<anchor, pointer, roster, epoch, record, registry, lost, faults>>

\* ensureDidWebvh, ensureLadderAnchoredDidWebvh: the log is published if
\* absent and adopted otherwise.  It is public: adopting needs no authority.
PublishLog(b) ==
  /\ job[b].pc = "log"
  /\ IF pointer # "unborn"
     THEN Goto(b, "roster") /\ UNCHANGED pointer
     ELSE IF Authorized(b)
     THEN /\ pointer' = None
          /\ job' = [job EXCEPT ![b].pc = "roster", ![b].minted = TRUE]
     ELSE Stop(b) /\ UNCHANGED pointer
  /\ UNCHANGED <<anchor, space, roster, epoch, record, registry, lost, faults>>

\* A stage fails: the client's genesis goes on to its promotion and leaves the
\* rest to another run, the establishment is over.
StageFailed(b) ==
  IF anchor = "client" THEN Goto(b, "promote") ELSE Stop(b)

ReadRoster(b) ==
  /\ job[b].pc = "roster"
  /\ \/ /\ job' = [job EXCEPT ![b].seen = RosterRead(b),
                              ![b].pc = IF RosterRead(b) = None THEN "mint"
                                                                ELSE "epochs",
                              ![b].todo = Collection]
        /\ UNCHANGED faults
     \/ Fault /\ StageFailed(b)
  /\ UNCHANGED <<anchor, space, pointer, roster, epoch, record, registry, lost>>

\* initRecipients creates the roster only where none stands.
MintRoster(b) ==
  /\ job[b].pc = "mint"
  /\ IF Authorized(b) /\ roster = None
     THEN /\ roster' = job[b].key
          /\ job' = [job EXCEPT ![b].pc = "epochs", ![b].seen = job[b].key]
     ELSE StageFailed(b) /\ UNCHANGED roster
  /\ UNCHANGED <<anchor, space, pointer, epoch, record, registry, lost, faults>>

\* A bug: the epochs are installed without looking at the roster's key.
NeverSkipped(b) == FALSE

\* ensureWalletSpaceEpochs keys nothing under a key the roster it read does
\* not deliver, and keys a collection only where no epoch stands.
EpochsSkipped(b) == job[b].seen # job[b].key

KeyCollection(b, c) ==
  IF Authorized(b)
  THEN /\ epoch' = [epoch EXCEPT ![c] = IF @ = None THEN job[b].key ELSE @]
       /\ job' = [job EXCEPT ![b].todo = @ \ {c}]
  ELSE /\ job' = [job EXCEPT ![b].todo = @ \ {c}, ![b].failed = TRUE]
       /\ UNCHANGED epoch

Epochs(b, c) ==
  /\ job[b].pc = "epochs" /\ ~EpochsSkipped(b) /\ c \in job[b].todo
  /\ \/ KeyCollection(b, c) /\ UNCHANGED faults
     \/ /\ Fault /\ UNCHANGED epoch
        /\ job' = [job EXCEPT ![b].todo = @ \ {c}, ![b].failed = TRUE]
  /\ UNCHANGED <<anchor, space, pointer, roster, record, registry, lost>>

\* A bug: a collection that could not be keyed is left behind.
EpochsAssumed(b) ==
  /\ job[b].pc = "epochs"
  /\ EpochsSkipped(b) \/ job[b].todo = {}
  /\ Goto(b, IF anchor = "client" THEN "promote"
             ELSE IF EpochsSkipped(b) THEN "adopt" ELSE "readLog")
  /\ UNCHANGED <<anchor, space, pointer, roster, epoch, record, registry, lost, faults>>

\* The fan-out is over: assertGenesisLanded, or the adoption of another run's
\* roster, on the way to the annex; a client goes on to its promotion.
EpochsDone(b) ==
  /\ job[b].pc = "epochs"
  /\ EpochsSkipped(b) \/ job[b].todo = {}
  /\ IF anchor = "client" THEN Goto(b, "promote")
     ELSE IF EpochsSkipped(b) THEN Goto(b, "adopt")
     ELSE IF job[b].failed THEN Stop(b)
     ELSE Goto(b, "readLog")
  /\ UNCHANGED <<anchor, space, pointer, roster, epoch, record, registry, lost, faults>>

\* ensureRosterDeliveredEpochs behind an adopted roster: read it again, take
\* the key it delivers, and mint nothing over a roster served absent.
Adopt(b) ==
  /\ job[b].pc = "adopt"
  /\ IF RosterRead(b) = None THEN Stop(b)
     ELSE job' = [job EXCEPT ![b].pc = "epochs", ![b].key = roster,
                             ![b].seen = roster]
  /\ UNCHANGED <<anchor, space, pointer, roster, epoch, record, registry, lost, faults>>

\* ensurePromotedSpaceController: an authorized reading confirms or promotes;
\* an unreadable Space is promoted under the did:key, if it still answers.
PromotedBy(b) ==
  space' = IF space = "boot" THEN "did" ELSE space

Promote(b) ==
  /\ job[b].pc = "promote"
  /\ PromotedBy(b)
  /\ Stop(b)
  /\ UNCHANGED <<anchor, pointer, roster, epoch, record, registry, lost, faults>>

(***************************************************************************)
(* The establishment's own stages                                          *)
(***************************************************************************)
\* A log this run minted has no pointer yet; an adopted one is read again.
ReadLog(b) ==
  /\ job[b].pc = "readLog"
  /\ Goto(b, IF job[b].minted \/ pointer = None THEN "annex" ELSE "rebind")
  /\ UNCHANGED <<anchor, space, pointer, roster, epoch, record, registry, lost, faults>>

\* ensurePointedClientAnnexGeneration: a fresh annex Space with its generation
\* and delegation, its controller flipped, then the pointer entry.
MintAnnex(b) ==
  /\ job[b].pc = "annex"
  /\ job' = [job EXCEPT ![b].pc = "flip", ![b].annex = "boot"]
  /\ UNCHANGED <<anchor, space, pointer, roster, epoch, record, registry, lost, faults>>

\* A bug: every failure of the flip is swallowed, not a refusal alone.
FlipSwallowing(b) ==
  /\ job[b].pc = "flip"
  /\ \/ job' = [job EXCEPT ![b].pc = "point", ![b].annex = "did"] /\ UNCHANGED faults
     \/ Fault /\ Goto(b, "point")
  /\ UNCHANGED <<anchor, space, pointer, roster, epoch, record, registry, lost>>

Flip(b) ==
  /\ job[b].pc = "flip"
  /\ \/ job' = [job EXCEPT ![b].pc = "point", ![b].annex = "did"] /\ UNCHANGED faults
     \/ Fault /\ Stop(b)
  /\ UNCHANGED <<anchor, space, pointer, roster, epoch, record, registry, lost>>

PointAnnex(b) ==
  /\ job[b].pc = "point"
  /\ IF Authorized(b) THEN pointer' = job[b].annex /\ Goto(b, "rebind")
     ELSE Stop(b) /\ UNCHANGED pointer
  /\ UNCHANGED <<anchor, space, roster, epoch, record, registry, lost, faults>>

\* rebindCredentialAnchoredRecord: the record names the DID from here on.
Rebind(b) ==
  /\ job[b].pc = "rebind"
  /\ record' = "full"
  /\ Goto(b, "registry")
  /\ UNCHANGED <<anchor, space, pointer, roster, epoch, registry, lost, faults>>

\* A bug: the registry entry is sealed to the next key before it is minted.
RegisterNextKey(b) ==
  registry' = IF Authorized(b) /\ registry = None THEN job[b].key + MaxKey
                                                 ELSE registry

\* The caller's beforePromotion hook reads first, writes where nothing stands
\* and skips what it may not read.
Registered(b) ==
  registry' = IF Authorized(b) /\ registry = None THEN job[b].key ELSE registry

WriteRegistry(b) ==
  /\ job[b].pc = "registry"
  /\ Registered(b)
  /\ Goto(b, "promote")
  /\ UNCHANGED <<anchor, space, pointer, roster, epoch, record, lost, faults>>

(***************************************************************************)
(* mendCredentialAnchoredAccount, run by a login.  flagged is the caller's *)
(* repairShaped flag.                                                      *)
(***************************************************************************)
Login(b, flagged) ==
  /\ anchor = "credential" /\ job[b].pc = "idle" /\ record # "none"
  /\ job' = [job EXCEPT ![b] =
       IF record = "interim" THEN [Idle EXCEPT !.pc = "probe"]
       ELSE [Idle EXCEPT !.pc = "promotion", !.flagged = flagged]]
  /\ UNCHANGED <<anchor, space, pointer, roster, epoch, record, registry, lost, faults>>

\* A bug: an interim record always means an unfinished establishment.
ProbeNothing(b) ==
  /\ job[b].pc = "probe"
  /\ \E k \in FreshKeys : job' = [job EXCEPT ![b].pc = "provision", ![b].key = k]
  /\ UNCHANGED <<anchor, space, pointer, roster, epoch, record, registry, lost, faults>>

\* The establishment arm: a log that already points at a generation means the
\* record was downgraded, anything else runs the establishment again with a
\* fresh candidate key and without the interim bind.
Probe(b) ==
  /\ job[b].pc = "probe"
  /\ IF pointer \notin {"unborn", None} THEN Goto(b, "downgraded")
     ELSE \E k \in FreshKeys :
            job' = [job EXCEPT ![b].pc = "provision", ![b].key = k]
  /\ UNCHANGED <<anchor, space, pointer, roster, epoch, record, registry, lost, faults>>

\* The re-bind, and the caller's flagged re-entry over the new record.
RebindDowngraded(b) ==
  /\ job[b].pc = "downgraded"
  /\ record' = "full"
  /\ job' = [job EXCEPT ![b] = [Idle EXCEPT !.pc = "promotion",
                                            !.flagged = TRUE]]
  /\ UNCHANGED <<anchor, space, pointer, roster, epoch, registry, lost, faults>>

\* The promotion arm: only an authorized reading under the did:key that shows
\* it as controller is a tear.  A delegated reading that failed on a healthy
\* account ends the mend with the caller's own error.
PromotionArm(b) ==
  /\ job[b].pc = "promotion"
  /\ \/ /\ space = "boot" /\ PromotedBy(b)
        /\ job' = [job EXCEPT ![b].pc = "detect", ![b].as = "did",
                              ![b].mended = TRUE]
        /\ UNCHANGED faults
     \/ /\ space # "boot" /\ UNCHANGED <<space, faults>>
        /\ job' = [job EXCEPT ![b].pc = "detect", ![b].as = "did"]
     \/ /\ Fault /\ UNCHANGED space
        /\ \/ job' = [job EXCEPT ![b].pc = "detect", ![b].as = "did"]
           \/ Stop(b)
  /\ UNCHANGED <<anchor, pointer, roster, epoch, record, registry, lost>>

\* The roster-and-epochs arm fires on an absent roster, an epochless
\* collection, an earlier repair or the flag; the readings are the session's.
Epochless(b) == {c \in Collection : epoch[c] = None \/ ~Authorized(b)} # {}
Detect(b) ==
  /\ job[b].pc = "detect"
  /\ IF RosterRead(b) = None \/ job[b].mended \/ job[b].flagged \/ Epochless(b)
     THEN Goto(b, "deliver") ELSE Stop(b)
  /\ UNCHANGED <<anchor, space, pointer, roster, epoch, record, registry, lost, faults>>

\* rosterMintRefusal: no key is minted beside a collection that carries an
\* epoch or whose description is not readable.
RosterMintRefused(b) ==
  ~Authorized(b) \/ {c \in Collection : epoch[c] # None} # {}

\* ensureRosterDeliveredEpochs: the roster's key, or a licensed mint. A refused
\* mint leaves the registry arm, where it would run, to the key the session
\* holds: one it opened the collections with, if any.
Deliver(b) ==
  /\ job[b].pc = "deliver"
  /\ IF RosterRead(b) # None
     THEN job' = [job EXCEPT ![b].pc = "mendEpochs", ![b].key = roster,
                             ![b].todo = Collection]
     ELSE IF RosterMintRefused(b)
     THEN \/ Stop(b)
          \/ /\ job[b].mended \/ job[b].flagged
             /\ \E k \in {epoch[c] : c \in Collection} \ {None} :
                  job' = [job EXCEPT ![b].pc = "mendRegistry", ![b].key = k]
     ELSE \E k \in FreshKeys :
            job' = [job EXCEPT ![b].pc = "mendMint", ![b].key = k]
  /\ UNCHANGED <<anchor, space, pointer, roster, epoch, record, registry, lost, faults>>

\* A mint that lost its race adopts the roster that won.
MendMint(b) ==
  /\ job[b].pc = "mendMint"
  /\ roster' = IF roster = None THEN job[b].key ELSE roster
  /\ job' = [job EXCEPT ![b].pc = "mendEpochs", ![b].key = roster',
                        ![b].todo = Collection]
  /\ UNCHANGED <<anchor, space, pointer, epoch, record, registry, lost, faults>>

MendEpochs(b, c) ==
  /\ job[b].pc = "mendEpochs" /\ c \in job[b].todo
  /\ \/ KeyCollection(b, c) /\ UNCHANGED faults
     \/ /\ Fault /\ UNCHANGED epoch
        /\ job' = [job EXCEPT ![b].todo = @ \ {c}, ![b].failed = TRUE]
  /\ UNCHANGED <<anchor, space, pointer, roster, record, registry, lost>>

\* The registry arm runs behind a repair that converged, or the flag, with
\* the key the roster arm delivered if it did.
MendEpochsDone(b) ==
  /\ job[b].pc = "mendEpochs" /\ job[b].todo = {}
  /\ IF job[b].failed /\ ~job[b].mended /\ ~job[b].flagged THEN Stop(b)
     ELSE Goto(b, "mendRegistry")
  /\ UNCHANGED <<anchor, space, pointer, roster, epoch, record, registry, lost, faults>>

MendRegistry(b) ==
  /\ job[b].pc = "mendRegistry"
  /\ Registered(b)
  /\ Stop(b)
  /\ UNCHANGED <<anchor, space, pointer, roster, epoch, record, lost, faults>>

(***************************************************************************)
(* Faults                                                                  *)
(***************************************************************************)
Crash(b) ==
  /\ Fault /\ job[b].pc # "idle" /\ Stop(b)
  /\ UNCHANGED <<anchor, space, pointer, roster, epoch, record, registry, lost>>

\* The host serves the interim record again after the re-bind.
RollBackRecord ==
  /\ Fault /\ record = "full" /\ record' = "interim"
  /\ UNCHANGED <<anchor, space, pointer, roster, epoch, registry, lost, job>>

\* The host restores a Space in use from before its roster, with some of the
\* collections' epochs, no ceremony in flight.
LoseRoster(gone) ==
  /\ Fault /\ record = "full" /\ roster # None
  /\ \A b \in Browser : job[b].pc = "idle"
  /\ roster' = None /\ lost' = TRUE
  /\ epoch' = [c \in Collection |-> IF c \in gone THEN None ELSE epoch[c]]
  /\ UNCHANGED <<anchor, space, pointer, record, registry, job>>

(***************************************************************************)
(* The specification                                                       *)
(***************************************************************************)
Establish(b) ==
  \/ Bind(b) \/ Provision(b) \/ PublishLog(b) \/ ReadRoster(b) \/ MintRoster(b)
  \/ EpochsDone(b) \/ Adopt(b) \/ ReadLog(b) \/ MintAnnex(b) \/ Flip(b)
  \/ PointAnnex(b) \/ Rebind(b) \/ WriteRegistry(b) \/ Promote(b)
  \/ \E c \in Collection : Epochs(b, c)
Mend(b) ==
  \/ Probe(b) \/ RebindDowngraded(b) \/ PromotionArm(b) \/ Detect(b)
  \/ Deliver(b) \/ MendMint(b) \/ MendEpochsDone(b) \/ MendRegistry(b)
  \/ \E c \in Collection : MendEpochs(b, c)

Next ==
  \/ RollBackRecord
  \/ \E gone \in SUBSET Collection : LoseRoster(gone)
  \/ \E b \in Browser :
       \/ SignUp(b) \/ Establish(b) \/ Mend(b) \/ Crash(b)
       \/ \E flagged \in BOOLEAN : Login(b, flagged)
       \/ \E as \in {"boot", "did"} : ClientGenesis(b, as)

\* A ceremony that is not cut short goes on; people keep logging in, the
\* session of a client signs as either identity in turn, and a caller that
\* finds the registry entry missing says so.
Fairness ==
  /\ \A b \in Browser : WF_vars(Establish(b) \/ Mend(b))
  /\ SF_vars(\E b \in Browser : Login(b, TRUE))
  /\ \A as \in {"boot", "did"} : SF_vars(\E b \in Browser : ClientGenesis(b, as))

Spec == Init /\ [][Next]_vars /\ Fairness

(***************************************************************************)
(* Properties                                                              *)
(***************************************************************************)
\* Types: every resource is absent or holds what some ceremony writes there.
TypeOK ==
  /\ anchor \in {"client", "credential"} /\ space \in {"none", "boot", "did"}
  /\ pointer \in {"unborn", None, "boot", "did"}
  /\ roster \in Key \cup {None} /\ registry \in Key \cup {None}
  /\ epoch \in [Collection -> Key \cup {None}]
  /\ record \in {"none", "interim", "full"} /\ lost \in BOOLEAN
  /\ faults \in 0 .. MaxFaults
  /\ job \in [Browser -> Job]

\* No collection is keyed, and no registry entry sealed, under a user key the
\* roster does not deliver, whichever of several overlapping runs minted the
\* roster; a roster the host lost is never replaced beside keyed collections.
KeyedByRoster ==
  /\ \A c \in Collection :
       epoch[c] # None => roster = epoch[c] \/ (lost /\ roster = None)
  /\ registry # None => roster = registry \/ lost

\* A pointer in the document means the annex Space it names already answers
\* to the account: the flip comes before the pointer entry, or visits could
\* never write there (ensurePointedClientAnnexGeneration).
PointerIsReachable == pointer # "boot"

\* The record names the DID, and the Space is handed to it, only when the
\* log, its pointer, the roster and every epoch stand: a later login of this
\* credential finds nothing the promoted Space would refuse to complete.
BoundIsWhole ==
  record = "full" \/ (anchor = "credential" /\ space = "did")
    => /\ pointer = "did"
       /\ lost \/ (roster # None /\ \A c \in Collection : epoch[c] # None)

\* Every torn account is completed by logins alone, unless the host lost its
\* roster: record, Space, roster, epochs and registry entry all stand.
Established ==
  /\ space = "did" /\ roster # None
  /\ \A c \in Collection : epoch[c] # None
  /\ anchor = "credential" => /\ record = "full" /\ pointer = "did"
                              /\ registry # None
TornIsMended ==
  (record # "none" \/ pointer # "unborn") ~> (lost \/ Established)

=============================================================================

----------------------------- MODULE AccountLog -----------------------------
(***************************************************************************)
(* The account's did:webvh log (webvh/didWebvh.ts, enrollClient.ts,        *)
(* revokeClient.ts, accountEntry.ts, listClients.ts, verifyLog.ts):        *)
(* several wallet clients extend one published did.jsonl with conditional  *)
(* writes. Each runs one ceremony at a time - the signup or sign-in        *)
(* ensure, an update-key rotation, an enrollment, a revocation - and every *)
(* read, persist, request, answer and did:web write of it is a step.       *)
(*                                                                         *)
(* A key is its owner and a serial number; a seed, its key and the key's   *)
(* hash are one value here, and the field it sits in tells them apart      *)
(* (hashing is injective). The arm of a standing credential's ladder and   *)
(* keys.json are not in this module.                                       *)
(***************************************************************************)
EXTENDS Integers, Sequences, SequencesExt

CONSTANTS
    Client,
    Founder,      \* the clients that may run the signup's genesis
    Attempts,     \* withLogConflictRetry's attempts, 3 in the code
    Delayed,      \* TRUE: a request may still land after its sender gave up
    MaxStarts,    \* bound: rotations, enrollments and revocations
    MaxCrashes,   \* bound: ceremonies cut short
    MaxRollbacks  \* bound: times the host serves an older log

ASSUME ClientAssumption == Founder \subseteq Client
ASSUME BoundAssumption ==
    /\ Attempts \in Nat \ {0} /\ Delayed \in BOOLEAN
    /\ MaxStarts \in Nat /\ MaxCrashes \in Nat /\ MaxRollbacks \in Nat

VARIABLES
    log,        \* the published did.jsonl, <<>> while absent
    didJson,    \* the clients the did:web projection names
    seeds,      \* [Client -> its persisted ClientWebvhUpdateKeys]
    minted,     \* [Client -> seeds it has minted]
    pin,        \* [Client -> the history its chain-head pin stands for]
    job,        \* [Client -> the ceremony it runs]
    seen,       \* [Client -> the log that ceremony read]
    draft,      \* [Client -> the entry it signed over it, or NoEntry]
    wire,       \* requests that have not reached the host yet
    starts, crashes, rollbacks

vars == <<log, didJson, seeds, minted, pin, job, seen, draft, wire, starts,
          crashes, rollbacks>>
counters == <<starts, crashes, rollbacks>>

-----------------------------------------------------------------------------
Key == Client \X (Nat \ {0})
NoKey == <<"none", 0>>
Seeds == [update : Key, staged : Key, pending : Key \cup {NoKey}]
Entry == [ukeys : SUBSET Key, hashes : SUBSET Key, vms : SUBSET Client,
          by : Client]
NoEntry == [ukeys |-> {}, hashes |-> {}, vms |-> {}, by |-> "none"]

Stage == {"idle", "read", "persist", "put", "sent", "acked", "conflict",
          "rollForward", "project", "finalize"}
Op == {"ensure", "rotate", "enroll", "revoke"}

\* A ceremony: the options it was called with stay what they were, while the
\* persisted seeds may move on.
Job == [stage : Stage, op : Op, step : {"commit", "add"},
        target : Client \cup {"none"}, keys : Seeds \cup {<<>>},
        opts : Seeds \cup {<<>>}, attempt : 0..Attempts]
Idle == [stage |-> "idle", op |-> "ensure", step |-> "commit",
         target |-> "none", keys |-> <<>>, opts |-> <<>>, attempt |-> 0]
Request == [by : Client, base : Seq(Entry), entry : Entry]

Owner(k) == k[1]
Fresh(c) == <<c, minted[c] + 1>>
First(c) == <<c, 1>>
Second(c) == <<c, 2>>

\* The seeds a client is minted with; its enrollment request presents them.
MintedSeeds(c) == [update |-> First(c), staged |-> Second(c), pending |-> NoKey]
Held(s) == {s.update, s.staged, s.pending} \ {NoKey}

LogsOK ==
    /\ log \in Seq(Entry) /\ didJson \subseteq Client
    /\ pin \in [Client -> Seq(Entry)] /\ seen \in [Client -> Seq(Entry)]
    /\ draft \in [Client -> Entry \cup {NoEntry}] /\ wire \subseteq Request
SeedsOK ==
    /\ seeds \in [Client -> Seeds] /\ minted \in [Client -> Nat \ {0}]
JobsOK ==
    /\ job \in [Client -> Job]
    /\ \A c \in Client :
         /\ job[c].stage # "idle" =>
              /\ job[c].opts \in Seeds /\ job[c].keys \in Seeds
              /\ job[c].target \in Client
         /\ job[c].stage \in {"put", "sent", "acked"} => draft[c] \in Entry
         /\ job[c].stage = "persist" => seen[c] # <<>>
         /\ job[c].stage = "rollForward" => job[c].opts.pending \in Key
CountersOK ==
    starts \in 0..MaxStarts /\ crashes \in 0..MaxCrashes
    /\ rollbacks \in 0..MaxRollbacks

TypeOK == LogsOK /\ SeedsOK /\ JobsOK /\ CountersOK

Init ==
    /\ log = <<>> /\ didJson = {}
    /\ seeds = [c \in Client |-> MintedSeeds(c)]
    /\ minted = [c \in Client |-> 2]
    /\ pin = [c \in Client |-> <<>>]
    /\ job = [c \in Client |-> Idle]
    /\ seen = [c \in Client |-> <<>>]
    /\ draft = [c \in Client |-> NoEntry]
    /\ wire = {}
    /\ starts = 0 /\ crashes = 0 /\ rollbacks = 0

-----------------------------------------------------------------------------
(* Reading a log. *)

Head_(l) == l[Len(l)]
Enrolled(l) == IF l = <<>> THEN {} ELSE Head_(l).vms

\* The keys and the hashes an entry brings in over its predecessor.
AddedKeys(l, i) == l[i].ukeys \ (IF i = 1 THEN {} ELSE l[i - 1].ukeys)
AddedHashes(l, i) == l[i].hashes \ (IF i = 1 THEN {} ELSE l[i - 1].hashes)

LastIndex(S) == CHOOSE i \in S : \A j \in S : j <= i
Only(S) == IF \E k \in S : S = {k} THEN CHOOSE k \in S : TRUE ELSE NoKey

\* clientAddIndex and attributeActiveUpdateKeys for one client: the key its
\* first document entry added, followed through its rotations.
AttributeClientUpdateKey(l, c) ==
    LET adds == {i \in DOMAIN l : c \in l[i].vms}
        add == CHOOSE i \in adds : \A j \in adds : i <= j
        active[i \in DOMAIN l] ==
            IF i <= add THEN Only(AddedKeys(l, add))
            ELSE IF active[i - 1] \in l[i].ukeys \cup {NoKey}
                 THEN active[i - 1]
                 ELSE Only(AddedKeys(l, i))
    IN IF adds = {} THEN NoKey ELSE active[Len(l)]

\* attributeStagedHash: what else the entry that revealed the key committed,
\* or, when that is nothing, what the entry that committed it did.
AttributeStagedHash(l, k) ==
    LET reveals == {i \in DOMAIN l : k \in AddedKeys(l, i)}
        commits == {i \in DOMAIN l : i <= LastIndex(reveals)
                                     /\ k \in AddedHashes(l, i)}
        beside(i) == AddedHashes(l, i) \ {k}
    IN IF reveals = {} THEN {}
       ELSE IF beside(LastIndex(reveals)) # {} THEN beside(LastIndex(reveals))
       ELSE IF commits = {} THEN {}
       ELSE beside(LastIndex(commits))

RevokedKeyAsSupplied(l, t, supplied) == supplied

\* currentRevokedUpdateKey: the supplied key only while the log authorizes it
\* or the document no longer names the client.
CurrentRevokedUpdateKey(l, t, supplied) ==
    IF supplied \in Head_(l).ukeys \/ t \notin Head_(l).vms
    THEN supplied ELSE AttributeClientUpdateKey(l, t)

\* checkAccountLogContinuity: the served history must contain the pinned one.
\* The pin names a hash-chained head, so it stands for a whole history.
ContinuousByLength(served, pinned) == Len(pinned) <= Len(served)

Continuous(served, pinned) == IsPrefix(pinned, served)

-----------------------------------------------------------------------------
(* What a ceremony makes of the log it read: the stage it goes to and the  *)
(* entry it signs. "idle" is a throw; it leaves nothing behind.            *)

Plan(stage, entry) == [stage |-> stage, draft |-> entry]
Throw == Plan("idle", NoEntry)
Conclude == Plan("project", NoEntry)   \* concludeWithPublishedLog

\* updateDID's own precondition: an entry's update keys are committed by the
\* entry before it.
UpdateDID(l, entry) ==
    IF entry.ukeys \subseteq Head_(l).hashes THEN Plan("put", entry) ELSE Throw

\* signAccountEntry, enrolled arm: the active key must be authorized and the
\* log must carry its own keys' hashes over.
SignAccountEntry(l, active, entry) ==
    IF active \in Head_(l).ukeys /\ Head_(l).ukeys \subseteq Head_(l).hashes
    THEN UpdateDID(l, entry) ELSE Throw

EnsureWithoutRepublish(l, c, j) ==
    IF l = <<>>
    THEN Plan("put", [ukeys |-> {j.opts.update},
                      hashes |-> {j.opts.update, j.opts.staged},
                      vms |-> {c}, by |-> c])
    ELSE Throw

\* ensureDidWebvhOnce
EnsureDidWebvh(l, c, j) ==
    IF l = <<>>
    THEN Plan("put", [ukeys |-> {j.opts.update},
                      hashes |-> {j.opts.update, j.opts.staged},
                      vms |-> {c}, by |-> c])
    ELSE IF Held(j.opts) \cap Head_(l).ukeys # {} THEN Conclude ELSE Throw

\* rotateWebvhUpdateKeyOnce up to its first persist: a log that already sits
\* at the staged key only rolls the seeds forward.
RotateWebvhUpdateKey(l, c, j) ==
    IF l = <<>> THEN Throw
    ELSE IF j.opts.staged \in Head_(l).ukeys
         THEN IF j.opts.pending = NoKey THEN Throw
                                        ELSE Plan("rollForward", NoEntry)
    ELSE IF j.opts.pending \in Head_(l).ukeys THEN Throw
    ELSE IF j.opts.update \in Head_(l).ukeys
            /\ j.opts.staged \in Head_(l).hashes
         THEN Plan("persist", NoEntry)
    ELSE Throw

RotationEntryDropping(l, c, s, fresh) ==
    [ukeys  |-> (Head_(l).ukeys \ {s.update}) \cup {s.staged},
     hashes |-> (Head_(l).hashes \ {s.update, s.staged}) \cup {fresh},
     vms    |-> Head_(l).vms, by |-> c]

RotationEntryKeeping(l, c, s, fresh) ==
    [ukeys  |-> (Head_(l).ukeys \ {s.update}) \cup {s.staged},
     hashes |-> Head_(l).hashes \cup {s.staged, fresh},
     vms    |-> Head_(l).vms, by |-> c]

\* The entry a rotation signs with its staged key.
RotationEntry(l, c, s, fresh) ==
    [ukeys  |-> (Head_(l).ukeys \ {s.update}) \cup {s.staged},
     hashes |-> (Head_(l).hashes \ {s.update}) \cup {s.staged, fresh},
     vms    |-> Head_(l).vms, by |-> c]

\* enrollWebvhClientOnce: the commit entry, and the add entry over the same
\* read where the commit already stands, or over a second read.
EnrollWebvhClient(l, c, j) ==
    LET new == {j.keys.update, j.keys.staged}
        commit == [Head_(l) EXCEPT !.hashes = @ \cup new, !.by = c]
        add == [Head_(l) EXCEPT !.ukeys = @ \cup {j.keys.update},
                                !.vms = @ \cup {j.target}, !.by = c]
    IN IF l = <<>> THEN Throw
       ELSE IF j.step = "add" THEN SignAccountEntry(l, j.opts.update, add)
       ELSE IF j.keys.update \in Head_(l).ukeys THEN Conclude
       ELSE IF new \subseteq Head_(l).hashes
            THEN SignAccountEntry(l, j.opts.update, add)
       ELSE SignAccountEntry(l, j.opts.update, commit)

\* clientRemovalFields: the staged hash goes with a key that is authorized.
RemovalEntry(l, c, t, key) ==
    LET staged == IF key \in Head_(l).ukeys THEN AttributeStagedHash(l, key)
                                            ELSE {}
    IN [ukeys  |-> Head_(l).ukeys \ {key},
        hashes |-> Head_(l).hashes \ ({key} \cup staged),
        vms    |-> Head_(l).vms \ {t}, by |-> c]

\* revokeWebvhClientOnce with clientRemovalTarget: a key that cannot be
\* attributed, the revoking client's own key, and a staged hash that cannot be
\* told from others are refused; a client with nothing left is a no-op.
RevokeWebvhClient(l, c, j) ==
    LET key == CurrentRevokedUpdateKey(l, j.target, j.keys.update)
        present == j.target \in Head_(l).vms \/ key \in Head_(l).ukeys
                   \/ key \in Head_(l).hashes
        ambiguous == key \in Head_(l).ukeys
                     /\ \E a, b \in AttributeStagedHash(l, key) : a # b
    IN IF l = <<>> THEN Throw
       ELSE IF key = NoKey \/ j.opts.update \in {key, j.keys.update} THEN Throw
       ELSE IF ~present THEN Conclude
       ELSE IF ambiguous THEN Throw
       ELSE SignAccountEntry(l, j.opts.update, RemovalEntry(l, c, j.target, key))

PlanOf(l, c, j) ==
    CASE j.op = "ensure" -> EnsureDidWebvh(l, c, j)
      [] j.op = "rotate" -> RotateWebvhUpdateKey(l, c, j)
      [] j.op = "enroll" -> EnrollWebvhClient(l, c, j)
      [] j.op = "revoke" -> RevokeWebvhClient(l, c, j)

-----------------------------------------------------------------------------
(* The host starts a ceremony with the seeds it has persisted. *)

Start(c, op, target, keys) ==
    /\ job[c].stage = "idle"
    /\ job' = [job EXCEPT ![c] = [stage |-> "read", op |-> op,
                  step |-> "commit", target |-> target, keys |-> keys,
                  opts |-> seeds[c], attempt |-> 1]]
    /\ UNCHANGED <<log, didJson, seeds, minted, pin, seen, draft, wire,
                   crashes, rollbacks>>

Counted == starts < MaxStarts /\ starts' = starts + 1

StartEnsure(c) ==
    /\ c \in Founder \cup Enrolled(log)
    /\ Start(c, "ensure", c, seeds[c])
    /\ UNCHANGED starts

StartRotate(c) ==
    /\ c \in Enrolled(log)
    /\ Counted /\ Start(c, "rotate", c, seeds[c])

\* Any enrolled client approves the request a client was minted with, as often
\* as it likes: while another approval runs, once the client is enrolled, has
\* rotated its key or was removed. Only the ceremony itself looks at the log.
StartEnroll(c, t) ==
    /\ c \in Enrolled(log) /\ t # c
    /\ Counted /\ Start(c, "enroll", t, MintedSeeds(t))

\* The caller names the key the listing states, or the one the request of an
\* unfinished enrollment does.
StartRevoke(c, t) ==
    /\ c \in Enrolled(log) /\ t # c
    /\ LET listed == AttributeClientUpdateKey(log, t)
           key == IF t \in Enrolled(log) /\ listed \in Key THEN listed
                  ELSE First(t)
       IN Start(c, "revoke", t, [MintedSeeds(t) EXCEPT !.update = key])
    /\ Counted

-----------------------------------------------------------------------------
(* The steps of a ceremony. *)

Goto(c, stage) == job' = [job EXCEPT ![c] = [@ EXCEPT !.stage = stage]]

\* The ceremony is over; its reads are forgotten.
End(c) ==
    /\ job' = [job EXCEPT ![c] = Idle]
    /\ seen' = [seen EXCEPT ![c] = <<>>]
    /\ draft' = [draft EXCEPT ![c] = NoEntry]

\* readPublishedLog with checkAndAdvanceAccountLogPin, then the ceremony's
\* own decision. A history that does not contain the pin is refused.
ReadPublishedLog(c) ==
    /\ job[c].stage = "read"
    /\ LET plan == PlanOf(log, c, job[c]) IN
       IF ~Continuous(log, pin[c])
       THEN End(c) /\ UNCHANGED pin
       ELSE /\ pin' = [pin EXCEPT ![c] = log]
            /\ IF plan.stage = "idle"
               THEN End(c)
               ELSE /\ Goto(c, plan.stage)
                    /\ seen' = [seen EXCEPT ![c] = log]
                    /\ draft' = [draft EXCEPT ![c] = plan.draft]
    /\ UNCHANGED <<log, didJson, seeds, minted, wire, counters>>

PersistNothing(c) ==
    /\ job[c].stage = "persist"
    /\ minted' = [minted EXCEPT ![c] = @ + 1]
    /\ LET plan == UpdateDID(seen[c],
                       RotationEntry(seen[c], c, job[c].opts, Fresh(c))) IN
       IF plan.stage = "idle" THEN End(c)
       ELSE /\ Goto(c, plan.stage)
            /\ draft' = [draft EXCEPT ![c] = plan.draft]
            /\ UNCHANGED seen
    /\ UNCHANGED <<log, didJson, seeds, pin, wire, counters>>

\* A rotation persists the seed it is about to commit, then signs.
PersistPending(c) ==
    /\ job[c].stage = "persist"
    /\ minted' = [minted EXCEPT ![c] = @ + 1]
    /\ seeds' = [seeds EXCEPT ![c] = [job[c].opts EXCEPT !.pending = Fresh(c)]]
    /\ LET plan == UpdateDID(seen[c],
                       RotationEntry(seen[c], c, job[c].opts, Fresh(c))) IN
       IF plan.stage = "idle" THEN End(c)
       ELSE /\ Goto(c, plan.stage)
            /\ draft' = [draft EXCEPT ![c] = plan.draft]
            /\ UNCHANGED seen
    /\ UNCHANGED <<log, didJson, pin, wire, counters>>

\* putLogResource's request leaves.
PutLogResource(c) ==
    /\ job[c].stage = "put"
    /\ wire' = wire \cup {[by |-> c, base |-> seen[c], entry |-> draft[c]]}
    /\ Goto(c, "sent")
    /\ UNCHANGED <<log, didJson, seeds, minted, pin, seen, draft, counters>>

\* If-Match on the ETag of the read, or If-None-Match for a genesis: the
\* resource must still be what the ceremony read.
Accepts(m) == log = m.base

Waiting(m) == job[m.by].stage = "sent" /\ seen[m.by] = m.base
              /\ draft[m.by] = m.entry

\* The request reaches the host, which answers its sender if it still waits.
Land(m) ==
    /\ m \in wire
    /\ wire' = wire \ {m}
    /\ log' = IF Accepts(m) THEN Append(m.base, m.entry) ELSE log
    /\ job' = IF Waiting(m)
              THEN [job EXCEPT ![m.by] = [@ EXCEPT !.stage =
                        IF Accepts(m) THEN "acked" ELSE "conflict"]]
              ELSE job
    /\ UNCHANGED <<didJson, seeds, minted, pin, seen, draft, counters>>

\* The tail of putLogResource: the pin moves to what was published.
Acked(c) ==
    /\ job[c].stage = "acked"
    /\ pin' = [pin EXCEPT ![c] = Append(seen[c], draft[c])]
    /\ Goto(c, "project")
    /\ UNCHANGED <<log, didJson, seeds, minted, seen, draft, wire, counters>>

\* withLogConflictRetry: from the top, with the options of the first attempt.
Conflict(c) ==
    /\ job[c].stage = "conflict"
    /\ IF job[c].attempt >= Attempts
       THEN End(c)
       ELSE /\ job' = [job EXCEPT ![c] = [@ EXCEPT !.stage = "read",
                              !.step = "commit", !.attempt = job[c].attempt + 1]]
            /\ seen' = [seen EXCEPT ![c] = <<>>]
            /\ draft' = [draft EXCEPT ![c] = NoEntry]
    /\ UNCHANGED <<log, didJson, seeds, minted, pin, wire, counters>>

\* The log already carries the staged key: the seeds move up to it.
RollForward(c) ==
    /\ job[c].stage = "rollForward"
    /\ seeds' = [seeds EXCEPT ![c] = [update |-> job[c].opts.staged,
                                      staged |-> job[c].opts.pending,
                                      pending |-> NoKey]]
    /\ Goto(c, "project")
    /\ UNCHANGED <<log, didJson, minted, pin, seen, draft, wire, counters>>

\* putDidWebProjection, unconditional, of the document the ceremony holds.
\* An enrollment's commit goes on to the add entry's own read, a rotation to
\* its last persist, everything else is done.
PutDidWebProjection(c) ==
    /\ job[c].stage = "project"
    /\ didJson' = IF draft[c] = NoEntry THEN Enrolled(seen[c]) ELSE draft[c].vms
    /\ CASE draft[c] # NoEntry /\ job[c].op = "rotate" ->
              Goto(c, "finalize") /\ UNCHANGED <<seen, draft>>
         [] draft[c] # NoEntry /\ job[c].op = "enroll"
               /\ job[c].keys.update \notin draft[c].ukeys ->
              /\ job' = [job EXCEPT ![c] = [@ EXCEPT !.stage = "read",
                                                    !.step = "add"]]
              /\ seen' = [seen EXCEPT ![c] = <<>>]
              /\ draft' = [draft EXCEPT ![c] = NoEntry]
         [] OTHER -> End(c)
    /\ UNCHANGED <<log, seeds, minted, pin, wire, counters>>

\* A rotation's last persist: the seed it minted last is the one committed.
Finalize(c) ==
    /\ job[c].stage = "finalize"
    /\ seeds' = [seeds EXCEPT ![c] = [update |-> job[c].opts.staged,
                                      staged |-> <<c, minted[c]>>,
                                      pending |-> NoKey]]
    /\ End(c)
    /\ UNCHANGED <<log, didJson, minted, pin, wire, counters>>

\* The process dies or a request throws: only durable state is left. Unless
\* requests can be delayed, one that has not landed by now never will.
CutShort(c) ==
    /\ job[c].stage # "idle" /\ crashes < MaxCrashes
    /\ crashes' = crashes + 1
    /\ End(c)
    /\ wire' = IF Delayed THEN wire ELSE {m \in wire : m.by # c}
    /\ UNCHANGED <<log, didJson, seeds, minted, pin, starts, rollbacks>>

\* External: a host that serves an earlier state of the log.
HostRollsBack ==
    /\ rollbacks < MaxRollbacks /\ log # <<>>
    /\ \E n \in 0..(Len(log) - 1) : log' = SubSeq(log, 1, n)
    /\ rollbacks' = rollbacks + 1
    /\ UNCHANGED <<didJson, seeds, minted, pin, job, seen, draft, wire, starts,
                   crashes>>

CeremonyStep(c) ==
    \/ ReadPublishedLog(c) \/ PersistPending(c) \/ PutLogResource(c)
    \/ Acked(c) \/ Conflict(c) \/ RollForward(c)
    \/ PutDidWebProjection(c) \/ Finalize(c)

HostCalls(c) ==
    \/ StartEnsure(c) \/ StartRotate(c)
    \/ \E t \in Client : StartEnroll(c, t) \/ StartRevoke(c, t)

Next ==
    \/ \E c \in Client : HostCalls(c) \/ CeremonyStep(c) \/ CutShort(c)
    \/ \E m \in wire : Land(m)
    \/ HostRollsBack

\* Fairness: a ceremony under way proceeds, requests arrive, and every
\* client keeps signing in.
Spec ==
    /\ Init /\ [][Next]_vars
    /\ \A c \in Client : WF_vars(CeremonyStep(c) \/ StartEnsure(c))
    /\ WF_vars(\E m \in wire : Land(m))

-----------------------------------------------------------------------------
(* Properties. *)

\* Every published entry resolves: its update keys are committed by the entry
\* before it, and carried over in its own commitments so that the next
\* ceremony is not refused.
LogResolves ==
    \A i \in DOMAIN log :
        /\ log[i].ukeys \subseteq log[i].hashes
        /\ i > 1 => log[i].ukeys \subseteq log[i - 1].hashes

\* Client c's request was approved again when nothing of it stood any more:
\* its first hash was committed by two entries. An approval knows an enrolled
\* client by that key alone, so it does not know one that has rotated it.
ApprovedAgain(l, c) ==
    \E i, j \in DOMAIN l : i < j /\ First(c) \in AddedHashes(l, i)
                                /\ First(c) \in AddedHashes(l, j)

\* A client that was removed is out: no key it ever minted is authorized or
\* committed any more, however it rotated around the removal and whatever
\* approvals of it were repeated or cut short before it was, on a host that
\* served every entry to the clients that wrote the later ones. (One approved
\* again may hold two keys, and a removal strikes one.)
RevokedIsOut ==
    rollbacks = 0 => \A c \in Client :
        /\ \E i \in DOMAIN log : c \in log[i].vms
        /\ c \notin Enrolled(log) /\ ~ApprovedAgain(log, c)
        => \A k \in Head_(log).ukeys \cup Head_(log).hashes : Owner(k) # c

\* Client c holds, in its durable seeds alone, the one update key the log
\* authorizes for it and the next key the log commits for it.
SeedsFollow(c) ==
    LET mine == {k \in Head_(log).ukeys : Owner(k) = c}
        s == seeds[c]
    IN \/ mine = {s.update} /\ s.staged \in Head_(log).hashes
       \/ mine = {s.staged} /\ s.pending \in Head_(log).hashes

\* Persist before publish: at every moment an enrolled client could resume
\* from its durable seeds alone - a cut rotation is finished, and the key can
\* be rotated again. (A host that hides entries can withhold the one that
\* matches.)
SeedsFollowLog ==
    rollbacks = 0 => \A c \in Enrolled(log) :
                         ApprovedAgain(log, c) \/ SeedsFollow(c)

\* A client's pin only ever moves forward along one history, however the
\* host rolls the log back between its reads and its writes.
PinNeverRewinds ==
    [][\A c \in Client : IsPrefix(pin[c], pin'[c])]_vars

\* Once the ceremonies stop, the did:web projection names exactly the clients
\* the log does, whichever ceremony wrote it last, on a host that serves the
\* log it was given.
ProjectionFollows == <>[](rollbacks = 0 => didJson = Enrolled(log))

\* What the log l has made of client c so far: its phase, and which of the
\* authorized keys and the committed hashes are its own. Top is the entry a
\* next one is made over; there is none before a genesis.
Mine(S, c) == {k \in S : Owner(k) = c}
Top(l) == IF l = <<>> THEN NoEntry ELSE Head_(l)
PhaseIn(l, c) ==
    IF c \in Top(l).vms THEN "enrolled"
    ELSE IF \E i \in DOMAIN l : c \in l[i].vms THEN "removed"
    ELSE IF Mine(Top(l).hashes, c) # {} THEN "invited" ELSE "new"
StandingIn(l, c) ==
    IF ApprovedAgain(l, c)
    THEN [phase |-> "approvedAgain", keys |-> {}, hashes |-> {}]
    ELSE [phase |-> PhaseIn(l, c), keys |-> Mine(Top(l).ukeys, c),
          hashes |-> Mine(Top(l).hashes, c)]

Clients == INSTANCE AccountClients WITH
    client <- [c \in Client |-> StandingIn(log, c)]

\* Whatever several clients race, retry or leave half done, the log of a host
\* that serves what it was given is the history of a set of clients edited one
\* at a time (AccountClients): no entry touches the keys of two clients, a
\* removed client stands for nothing and comes back only by a new approval,
\* and one client always remains.
EditsOneClient ==
    Clients!Init /\ [][rollbacks' = 0 => [Clients!Next]_(Clients!vars)]_vars
=============================================================================

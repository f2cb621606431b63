---------------------------- MODULE Connections ----------------------------
(***************************************************************************)
(* One party's entry in the connections directory (connections/upsert.ts,  *)
(* replicas.ts, writers.ts, grants.ts, entry.ts), written by several       *)
(* wallet clients. Every helper is a change applied to the stored body in  *)
(* one bounded compare-and-swap loop, writeConnection; its read and its    *)
(* write are steps, and between them other clients write, time passes and  *)
(* capabilities are revoked. The party is an agent, a replica server or a  *)
(* wallet client, for good.                                                *)
(*                                                                         *)
(* A capability is the record of what the code compares: the call that     *)
(* minted it, its scope, its expiry and the capability it renews. Time is  *)
(* counted in days; the time stamps that serve as identities (grantedAt,   *)
(* createdAt) are the serial number of the call. Names, URLs, proofs and   *)
(* bodies of another kind or a newer version are left out.                 *)
(***************************************************************************)
EXTENDS Integers, Sequences, SequencesExt, FiniteSets

CONSTANTS
    Client,         \* the account's wallet clients, numbered
    Kinds,          \* which of "agent", "replica-server", "wallet-client"
    Scope,          \* of an agent's grants
    Space,          \* source Spaces of a replica server
    OtherWriter,    \* writers of the wallet client that make no calls
    WriteAttempts,  \* WRITE_ATTEMPTS, 3 in the code
    Life, Lifetime, \* days a capability is minted for; a channel's at most
    Skew,           \* REVOCATION_CLOCK_SKEW_MS
    InactiveAfter, TouchInterval, MaxWriters,  \* ConnectionWriterPolicy
    MaxCalls, MaxDay,   \* bounds, by kind: numbered calls and days
    MaxCuts             \* bound: lost replies

Writer == Client \cup OtherWriter

ASSUME ClientAssumption == Writer \subseteq Nat \ {0} /\ IsFiniteSet(Writer)
ASSUME ScopeAssumption == IsFiniteSet(Scope) /\ Scope # {}
ASSUME KindsAssumption ==
    Kinds \subseteq {"agent", "replica-server", "wallet-client"}
ASSUME DaysAssumption ==
    /\ WriteAttempts \in Nat \ {0} /\ Life \in Nat /\ Lifetime \in Nat
    /\ Skew \in Nat /\ InactiveAfter \in Nat /\ TouchInterval \in Nat
    /\ MaxWriters \in Nat \ {0}
    /\ MaxCalls \in [Kinds -> Nat \ {0}] /\ MaxDay \in [Kinds -> Nat] /\ MaxCuts \in Nat

VARIABLES
    kind,       \* the kind of the party
    entry,      \* the stored body
    version,    \* its ETag
    job,        \* [Client -> the helper call it runs]
    torn,       \* [Client -> a call whose outcome it never learnt, or Idle]
    local,      \* [Client -> WriterFirstSeenRecord]
    day, calls, cuts

\* The rest of the world, as far as it meets the entry: the grants revoked,
\* the zcaps pushed to the party, the registrations posted, whether the account
\* document lists the wallet client.
VARIABLES void, delivered, posted, listed

\* History: the grants ever recorded, the zcaps an envelope was queued for and
\* not taken back since, the day of each writer's last confirmed heartbeat.
VARIABLES recorded, owed, beat

world == <<void, delivered, posted, listed>>
history == <<recorded, owed, beat>>
vars == <<kind, entry, version, job, torn, local, day, calls, cuts,
          world, history>>

-----------------------------------------------------------------------------
None == 0

NoEntry == [stands |-> FALSE, retired |-> FALSE, declined |-> FALSE,
            seed |-> None, label |-> None, grants |-> <<>>,
            grantsReceived |-> {}, outbox |-> {}, replicas |-> {},
            writers |-> {}]
Idle == [stage |-> "idle", op |-> "none", arg |-> <<>>, now |-> 0,
         serial |-> 0, attempt |-> 0, base |-> 0, next |-> NoEntry]

Zcap == [serial : Nat, scope : Scope \cup Space, expires : Nat, renews : Nat]
Channel == [serial : Nat, expires : Nat, receivedAt : Nat]
Item == [zcaps : SUBSET Zcap, createdAt : Nat]
Markers == {"stoppedAt", "restartedAt", "lostAt"}
Replica == [fromSpace : Space, spaceId : Nat, registrationId : Nat,
            pendingRegistrationId : Nat, markers : SUBSET Markers]
Member == [writerId : Writer, lastSeen : Nat, active : BOOLEAN]

EntryOK(e) ==
    /\ e.stands \in BOOLEAN /\ e.retired \in BOOLEAN /\ e.declined \in BOOLEAN
    /\ e.seed \in Client \cup {None} /\ e.label \in Client \cup {None}
    /\ e.grants \in Seq(Zcap) /\ e.grantsReceived \subseteq Channel
    /\ e.outbox \subseteq Item /\ \A item \in e.outbox : item.zcaps # {}
    /\ e.replicas \subseteq Replica
    /\ \A r, q \in e.replicas : r.fromSpace = q.fromSpace => r = q
    /\ e.writers \subseteq Member
    /\ IsFiniteSet(e.writers) /\ Cardinality(e.writers) <= MaxWriters
    /\ \A m, n \in e.writers : m.writerId = n.writerId => m = n

\* A well-formed entry: one replica per source Space, one member per writer
\* and no more than the cap, no envelope that carries nothing.
TypeOK ==
    /\ kind \in Kinds /\ EntryOK(entry) /\ version \in Nat
    /\ \A c \in Client : /\ job[c].stage \in {"idle", "get", "put"}
                         /\ job[c].attempt \in 0..WriteAttempts
                         /\ EntryOK(job[c].next)
    /\ day \in 0..MaxDay[kind] /\ calls \in 0..MaxCalls[kind] /\ cuts \in 0..MaxCuts

-----------------------------------------------------------------------------
(* Reading an entry (grants.ts). *)

Listed(e) == Range(e.grants)

\* The records at positions I of a list, in their order.
At(grants, I) ==
    [n \in 1..Cardinality(I) |->
        grants[CHOOSE i \in I : Cardinality({j \in I : j <= i}) = n]]

Pending(e) == UNION {item.zcaps : item \in e.outbox}

\* receivedGrantLapsed
Lapsed(channel, now) ==
    channel.receivedAt + Lifetime <= now \/ channel.expires <= now

\* liveInboxChannel over receivedGrants
HasLiveChannel(e, now) ==
    ~e.retired /\ \E ch \in e.grantsReceived : ~Lapsed(ch, now)

\* expiredBeyondSkew
ExpiredBeyondSkew(zcap, now) == zcap.expires + Skew <= now

\* latestIndexPerScope: the last of the latest to expire.
IsLatestOfScope(grants, i) ==
    \A j \in DOMAIN grants :
        grants[j].scope = grants[i].scope =>
            \/ grants[j].expires < grants[i].expires
            \/ grants[j].expires = grants[i].expires /\ j <= i

\* connectionGrants: an agent's are all on the account Space; a pull grant is
\* visible while the entry lists its source Space.
ConnectionGrants(e) ==
    {g \in Listed(e) : kind # "replica-server"
                       \/ \E r \in e.replicas : r.fromSpace = g.scope}

-----------------------------------------------------------------------------
(* A change of the stored body: a new body, a stop, or a refusal.          *)

Write(e) == [do |-> "put", body |-> e]
Stop == [do |-> "stop", body |-> NoEntry]
Refuse == [do |-> "throw", body |-> NoEntry]

\* A helper that creates nothing.
OnEntry(e, change) == IF e.stands THEN change ELSE Stop

SupersedeWholeEnvelope(outbox, superseded, zcaps, stamp) ==
    {item \in outbox : item.zcaps \cap superseded = {}}
        \cup {[zcaps |-> zcaps, createdAt |-> stamp]}

\* supersedeAndQueueEnvelope: superseded zcaps leave the pending envelopes, one
\* left with none is dropped, and the new one is queued.
SupersedeAndQueueEnvelope(outbox, superseded, zcaps, stamp) ==
    {item \in {[i EXCEPT !.zcaps = @ \ superseded] : i \in outbox} :
        item.zcaps # {}} \cup {[zcaps |-> zcaps, createdAt |-> stamp]}

\* A seed is written once.
SeedRefused(e, seed) == seed # None /\ e.seed \notin {None, seed}

\* recordGrants: creates or merges, un-retires unless told not to, and may
\* queue the envelope that carries the grants.
RecordGrants(e, a, stamp) ==
    LET fresh == SetToSeq(a.grants \ Listed(e)) IN
    IF e.retired /\ a.unlessRetired THEN Stop
    ELSE IF SeedRefused(e, a.seed) THEN Refuse
    ELSE Write([e EXCEPT
            !.stands = TRUE, !.retired = FALSE, !.declined = FALSE,
            !.grants = @ \o fresh,
            !.seed = IF a.seed = None THEN @ ELSE a.seed,
            !.outbox = IF a.message
                       THEN SupersedeAndQueueEnvelope(@, a.grants, a.grants, stamp)
                       ELSE @])

\* removeGrants
RemoveGrants(e, zcaps) ==
    OnEntry(e, IF Listed(e) \cap zcaps = {} THEN Stop
               ELSE Write([e EXCEPT !.grants =
                        At(@, {i \in DOMAIN @ : @[i] \notin zcaps})]))

Emptied(e) ==
    e.grants = <<>> /\ e.grantsReceived = {} /\ e.outbox = {}

RetireUnhandled(e, zcaps) ==
    OnEntry(e,
        IF e.replicas # {} THEN Refuse
        ELSE IF e.retired /\ Emptied(e) THEN Stop
        ELSE Write([e EXCEPT !.retired = TRUE, !.grants = <<>>,
                             !.grantsReceived = {}, !.outbox = {}]))

\* retireConnection: refused while a grant stands that the revocation did not
\* handle, or a replica.
RetireConnection(e, zcaps) ==
    OnEntry(e,
        IF ~(ConnectionGrants(e) \subseteq zcaps) \/ e.replicas # {} THEN Refuse
        ELSE IF e.retired /\ Emptied(e) THEN Stop
        ELSE Write([e EXCEPT !.retired = TRUE, !.grants = <<>>,
                             !.grantsReceived = {}, !.outbox = {}]))

\* unretireConnection
UnretireConnection(e) ==
    OnEntry(e, IF e.retired THEN Write([e EXCEPT !.retired = FALSE]) ELSE Stop)

\* setConnectionLabel: creates only the entry of a wallet client the verified
\* document lists.
SetConnectionLabel(e, a) ==
    IF ~e.stands
    THEN IF kind = "wallet-client" /\ a.listed
         THEN Write([NoEntry EXCEPT !.stands = TRUE, !.label = a.label])
         ELSE Refuse
    ELSE IF e.label = a.label THEN Stop
    ELSE Write([e EXCEPT !.label = a.label])

ReceiveWhileRetired(e, channel, now) ==
    OnEntry(e, Write([e EXCEPT !.grantsReceived = {channel}]))

\* recordReceivedGrants: a channel replaces the held one of its target when it
\* expires later or the held one has lapsed; what expired is dropped.
RecordReceivedGrants(e, channel, now) ==
    LET held == e.grantsReceived
        merged == IF \A h \in held : h.serial # channel.serial
                                     /\ (channel.expires > h.expires
                                         \/ Lapsed(h, now))
                  THEN {channel} ELSE held
        kept == {h \in merged : ~ExpiredBeyondSkew(h, now)}
    IN OnEntry(e, IF e.retired THEN Refuse
                  ELSE IF kept = held THEN Stop
                  ELSE Write([e EXCEPT !.grantsReceived = kept]))

RenewableIfListed(e, zcap) ==
    \E i \in DOMAIN e.grants :
        /\ e.grants[i].serial = zcap.renews /\ e.grants[i].scope = zcap.scope
        /\ zcap.expires > e.grants[i].expires

\* renewedGrantRecord: the source is still listed and still the latest of its
\* scope, and the renewal expires later.
Renewable(e, zcap) ==
    \E i \in DOMAIN e.grants :
        /\ e.grants[i].serial = zcap.renews /\ e.grants[i].scope = zcap.scope
        /\ IsLatestOfScope(e.grants, i)
        /\ zcap.expires > e.grants[i].expires

\* recordRenewedGrants: the record and the envelope in one write, while a live
\* channel stands; pending envelopes lose what shares the renewed scope.
RecordRenewedGrants(e, zcap, now, stamp) ==
    LET superseded == {z \in Pending(e) : z.scope = zcap.scope}
    IN OnEntry(e,
        IF ~HasLiveChannel(e, now) \/ ~Renewable(e, zcap) THEN Refuse
        ELSE Write([e EXCEPT !.grants = Append(@, zcap),
                !.outbox = SupersedeAndQueueEnvelope(@, superseded, {zcap}, stamp)]))

\* settleOutboxItem
SettleOutboxItem(e, createdAt) ==
    LET kept == {item \in e.outbox : item.createdAt # createdAt}
    IN OnEntry(e, IF kept = e.outbox THEN Stop
                  ELSE Write([e EXCEPT !.outbox = kept]))

\* pruneSupersededGrants: of a scope's superseded records the expired ones and
\* those whose chain is dead, and envelopes nothing in which is still valid.
PruneSupersededGrants(e, dead, now) ==
    LET stays == {i \in DOMAIN e.grants :
                    \/ IsLatestOfScope(e.grants, i)
                    \/ ~ExpiredBeyondSkew(e.grants[i], now)
                       /\ e.grants[i] \notin dead}
        queue == {item \in e.outbox :
                    \E z \in item.zcaps : ~ExpiredBeyondSkew(z, now)}
    IN OnEntry(e, IF stays = DOMAIN e.grants /\ queue = e.outbox THEN Stop
                  ELSE Write([e EXCEPT !.outbox = queue, !.grants = At(@, stays)]))

\* clearReceivedGrants
ClearReceivedGrants(e) ==
    OnEntry(e, IF e.grantsReceived = {} /\ e.outbox = {} THEN Stop
               ELSE Write([e EXCEPT !.grantsReceived = {}, !.outbox = {}]))

\* dropReceivedGrant
DropReceivedGrant(e, serial) ==
    LET kept == {h \in e.grantsReceived : h.serial # serial}
    IN OnEntry(e, IF kept = e.grantsReceived THEN Stop
                  ELSE Write([e EXCEPT !.grantsReceived = kept]))

\* markDeclined
MarkDeclined(e) ==
    OnEntry(e, IF e.declined THEN Stop ELSE Write([e EXCEPT !.declined = TRUE]))

-----------------------------------------------------------------------------
(* The replicas of a replica-server entry (replicas.ts). *)

ItemOf(e, s) == {r \in e.replicas : r.fromSpace = s}
Registration(r, id) == <<r.fromSpace, r.spaceId, id>>
WithReplica(e, item) ==
    {r \in e.replicas : r.fromSpace # item.fromSpace} \cup {item}

\* recordReplicas: a Space held already keeps its item, a lost one is refused.
RecordReplicas(e, a, serial) ==
    LET held == {r.fromSpace : r \in e.replicas}
        fresh == {[fromSpace |-> s, spaceId |-> serial, registrationId |-> None,
                   pendingRegistrationId |-> None, markers |-> {}] :
                  s \in a.spaces \ held}
    IN IF \/ SeedRefused(e, a.seed)
          \/ \E r \in e.replicas : r.fromSpace \in a.spaces /\ "lostAt" \in r.markers
       THEN Refuse
       ELSE Write([e EXCEPT !.stands = TRUE, !.retired = FALSE, !.declined = FALSE,
                            !.seed = IF a.seed = None THEN @ ELSE a.seed,
                            !.replicas = @ \cup fresh])

PendingOverwritten(item, id) == item.registrationId # None

\* A first registration keeps the id it was recorded under.
RegistrationRefused(item, id) ==
    \/ item.registrationId # None
    \/ item.pendingRegistrationId \notin {None, id}

\* recordReplicaGrant: a first grant with its pending registration id, a
\* replacement for a registered replica, or a renewal.
RecordReplicaGrant(e, a) ==
    LET first == a.pending # None
        item == CHOOSE r \in ItemOf(e, a.zcap.scope) : TRUE
        grants == IF a.zcap \in Listed(e) THEN e.grants
                  ELSE Append(e.grants, a.zcap)
        replicas == IF first
                    THEN WithReplica(e, [item EXCEPT !.pendingRegistrationId = a.pending])
                    ELSE e.replicas
    IN OnEntry(e,
        IF \/ e.retired \/ ItemOf(e, a.zcap.scope) = {}
           \/ a.zcap.renews # None /\ ~Renewable(e, a.zcap)
           \/ first /\ RegistrationRefused(item, a.pending)
        THEN Refuse
        ELSE IF grants = e.grants /\ replicas = e.replicas THEN Stop
        ELSE Write([e EXCEPT !.grants = grants, !.replicas = replicas]))

\* settleReplicaRegistration
SettleReplicaRegistration(e, s, id) ==
    LET item == CHOOSE r \in ItemOf(e, s) : TRUE
        settled == [item EXCEPT !.registrationId = id,
                                !.pendingRegistrationId = None]
    IN OnEntry(e,
        IF ItemOf(e, s) = {} THEN Refuse
        ELSE IF item = settled THEN Stop
        ELSE IF item.pendingRegistrationId # id THEN Refuse
        ELSE Write([e EXCEPT !.replicas = WithReplica(e, settled)]))

\* writeReplicaMarkers under setReplicaMarker and clearReplicaMarker; setting
\* restartedAt takes the decline back.
WriteReplicaMarkers(e, a) ==
    LET apply(r) == IF r.fromSpace \notin a.spaces THEN r
                    ELSE [r EXCEPT !.markers = IF a.set THEN @ \cup {a.marker}
                                               ELSE @ \ {a.marker}]
        body == [e EXCEPT !.replicas = {apply(r) : r \in @},
                          !.declined = @ /\ ~(a.set /\ a.marker = "restartedAt")]
    IN OnEntry(e, IF \E s \in a.spaces : ItemOf(e, s) = {} THEN Refuse
                  ELSE IF body = e THEN Stop
                  ELSE Write(body))

\* removeReplica: refused while a grant on the Space stands.
RemoveReplica(e, s) ==
    OnEntry(e, IF ItemOf(e, s) = {} THEN Stop
               ELSE IF \E g \in Listed(e) : g.scope = s THEN Refuse
               ELSE Write([e EXCEPT !.replicas = @ \ ItemOf(e, s)]))

-----------------------------------------------------------------------------
(* The writers of a wallet-client entry (writers.ts). *)

\* newestFirst with effectiveLastSeen: a time stamp from the future counts as
\* now, a tie goes to the lower id.
EffectiveLastSeen(m, now) == IF m.lastSeen < now THEN m.lastSeen ELSE now
Newer(m, n, now) ==
    \/ EffectiveLastSeen(m, now) > EffectiveLastSeen(n, now)
    \/ EffectiveLastSeen(m, now) = EffectiveLastSeen(n, now)
       /\ m.writerId < n.writerId
OneTooMany(members, n, now) ==
    {m \in members : Cardinality({o \in members : Newer(o, m, now)}) <= n}
Newest(members, n, now) ==
    {m \in members : Cardinality({o \in members : Newer(o, m, now)}) < n}

\* withOwnWriter: refreshes the own member or adds it and drops the stalest
\* over the cap; un-retires the entry of a client the document lists.
WithOwnWriter(e, w, documentLists, now) ==
    LET own == [writerId |-> w, lastSeen |-> now, active |-> TRUE]
        others == {m \in e.writers : m.writerId # w}
        room == IF others = e.writers
                THEN Newest(others, MaxWriters - 1, now) ELSE others
    IN IF ~documentLists /\ (~e.stands \/ e.retired) THEN Stop
       ELSE Write([e EXCEPT !.stands = TRUE, !.retired = FALSE,
                            !.writers = room \cup {own}])

\* memberToTouch
MemberToTouch(e, w, now) ==
    {m \in e.writers : /\ m.writerId = w /\ ~e.retired
                       /\ now - EffectiveLastSeen(m, now) >= TouchInterval}

\* touchConnectionWriter's change
TouchWriter(e, w, now) ==
    LET member == MemberToTouch(e, w, now)
    IN OnEntry(e, IF member = {} THEN Stop
                  ELSE Write([e EXCEPT !.writers = (@ \ member) \cup
                        {[writerId |-> w, lastSeen |-> now, active |-> TRUE]}]))

\* sweptWriters: over the cap the stalest go; the long unseen are marked.
SweptWriters(e, now) ==
    LET expired(m) == now - EffectiveLastSeen(m, now) > InactiveAfter
        swept == {[m EXCEPT !.active = @ /\ ~expired(m)] :
                    m \in Newest(e.writers, MaxWriters, now)}
    IN OnEntry(e, IF swept = e.writers THEN Stop
                  ELSE Write([e EXCEPT !.writers = swept]))

-----------------------------------------------------------------------------
(* writeConnection: the compare-and-swap loop, and what calls it.          *)

\* The change a call applies to the body it read.
Change(e, j) ==
    CASE j.op = "recordGrants" -> RecordGrants(e, j.arg, j.serial)
      [] j.op = "removeGrants" -> RemoveGrants(e, j.arg)
      [] j.op = "retireConnection" -> RetireConnection(e, j.arg)
      [] j.op = "unretireConnection" -> UnretireConnection(e)
      [] j.op = "setConnectionLabel" -> SetConnectionLabel(e, j.arg)
      [] j.op = "recordReceivedGrants" -> RecordReceivedGrants(e, j.arg, j.now)
      [] j.op = "recordRenewedGrants" ->
            RecordRenewedGrants(e, j.arg, j.now, j.serial)
      [] j.op = "settleOutboxItem" -> SettleOutboxItem(e, j.arg)
      [] j.op = "pruneSupersededGrants" -> PruneSupersededGrants(e, j.arg, j.now)
      [] j.op = "clearReceivedGrants" -> ClearReceivedGrants(e)
      [] j.op = "dropReceivedGrant" -> DropReceivedGrant(e, j.arg)
      [] j.op = "markDeclined" -> MarkDeclined(e)
      [] j.op = "recordReplicas" -> RecordReplicas(e, j.arg, j.serial)
      [] j.op = "recordReplicaGrant" -> RecordReplicaGrant(e, j.arg)
      [] j.op = "settleReplicaRegistration" ->
            SettleReplicaRegistration(e, j.arg.space, j.arg.id)
      [] j.op = "writeReplicaMarkers" -> WriteReplicaMarkers(e, j.arg)
      [] j.op = "removeReplica" -> RemoveReplica(e, j.arg)
      [] j.op = "registerWriter" ->
            WithOwnWriter(e, j.arg.writer, j.arg.listed, j.now)
      [] j.op = "touchWriter" -> TouchWriter(e, j.arg, j.now)
      [] j.op = "sweepWriters" -> SweptWriters(e, j.now)

\* No entry yet, or the one a first call left: an agent that consented and
\* opened its inbox, a replica with its registration pending or settled, a
\* wallet client with as many writers as it may have. Capabilities are about
\* to expire.
First(scope) == [serial |-> 1, scope |-> scope, expires |-> 1, renews |-> None]
Consented ==
    [NoEntry EXCEPT !.stands = TRUE,
        !.grants = SetToSeq({First(s) : s \in Scope}),
        !.outbox = {[zcaps |-> {First(s) : s \in Scope}, createdAt |-> 1]},
        !.grantsReceived = {[serial |-> 1, expires |-> 1, receivedAt |-> 0]}]
Replicated(s, registered, pending) ==
    [NoEntry EXCEPT !.stands = TRUE, !.grants = <<First(s)>>,
        !.replicas = {[fromSpace |-> s, spaceId |-> 1, markers |-> {},
                       registrationId |-> registered,
                       pendingRegistrationId |-> pending]}]
Enrolled(members) ==
    [NoEntry EXCEPT !.stands = TRUE, !.writers =
        {[writerId |-> w, lastSeen |-> 0, active |-> TRUE] : w \in members}]
InitialEntry ==
    {NoEntry} \cup
    CASE kind = "agent" -> {Consented}
      [] kind = "replica-server" ->
            {Replicated(s, 1, None) : s \in Space}
                \cup {Replicated(s, None, 1) : s \in Space}
      [] kind = "wallet-client" ->
            {Enrolled(m) : m \in {w \in SUBSET Writer : Cardinality(w) = MaxWriters}}

Init ==
    /\ kind \in Kinds /\ version = 0 /\ day = 0 /\ calls = 1 /\ cuts = 0
    /\ entry \in InitialEntry
    /\ job = [c \in Client |-> Idle] /\ torn = [c \in Client |-> Idle]
    /\ local = [c \in Client |-> [seen |-> "none", touched |-> -1]]
    /\ void = {} /\ delivered = {}
    /\ posted = {Registration(r, r.registrationId) :
                    r \in {r \in entry.replicas : r.registrationId # None}}
    /\ listed = TRUE
    /\ recorded = Listed(entry) /\ owed = Pending(entry)
    /\ beat = [w \in Writer |-> 0]

\* One attempt's read: the call goes on to its write with the body it made.
Attempt(j) == [j EXCEPT !.stage = "put", !.base = version,
                        !.next = Change(entry, j).body]

\* A client calls a helper. The read its arguments come from and the loop's
\* first are one step: what is written between them shows as a lost race. A
\* call that stops or is refused there has done nothing.
Begin(c, op, arg, serial) ==
    LET j == [Idle EXCEPT !.op = op, !.arg = arg, !.now = day, !.serial = serial]
    IN /\ job[c] = Idle /\ Change(entry, j).do = "put"
       /\ job' = [job EXCEPT ![c] = Attempt(j)]
       /\ UNCHANGED <<kind, entry, version, torn, day, cuts, history>>

\* The calls that make identities are numbered.
Call(c, op, arg) ==
    calls < MaxCalls[kind] /\ calls' = calls + 1 /\ Begin(c, op, arg, calls')

Fresh(scope) == [serial |-> calls + 1, scope |-> scope,
                 expires |-> day + Life, renews |-> None]
Renewal(g) == [Fresh(g.scope) EXCEPT !.renews = g.serial]

\* The seed a client presents: the one its read of the entry holds or its own.
SeedFor(c) == IF entry.seed # None THEN entry.seed ELSE c

\* A consent: the grants it records and, for a party with an inbox, the
\* envelope. A restore replays it without un-retiring.
CallRecordGrants(c) ==
    /\ kind = "agent"
    /\ \E s \in Scope, message, unlessRetired \in BOOLEAN :
         /\ message => ~unlessRetired
         /\ Call(c, "recordGrants",
                 [grants |-> {Fresh(s)}, message |-> message,
                  seed |-> SeedFor(c), unlessRetired |-> unlessRetired])
    /\ UNCHANGED <<local, world>>

\* A revocation posts what it reads on the entry, then tells the entry what it
\* handled; an agent's first stops the pushes to it.
Revoke(c) ==
    /\ \/ Call(c, "removeGrants", ConnectionGrants(entry))
       \/ (kind = "wallet-client" => ~listed)
          /\ Call(c, "retireConnection", ConnectionGrants(entry))
    /\ void' = void \cup ConnectionGrants(entry)
    /\ UNCHANGED <<local, delivered, posted, listed>>
CallClear(c) ==
    /\ kind = "agent" /\ Call(c, "clearReceivedGrants", <<>>)
    /\ UNCHANGED <<local, world>>

CallMark(c) ==
    /\ \/ kind = "wallet-client" /\ listed
          /\ Call(c, "unretireConnection", <<>>)
       \/ kind = "wallet-client"
          /\ Call(c, "setConnectionLabel", [label |-> c, listed |-> listed])
       \/ kind = "replica-server" /\ Call(c, "markDeclined", <<>>)
    /\ UNCHANGED <<local, world>>

\* A party's invitation hands over a channel.
CallChannel(c) ==
    /\ kind = "agent"
    /\ \/ Call(c, "recordReceivedGrants",
               [serial |-> calls + 1, expires |-> day + Life, receivedAt |-> day])
       \/ \E h \in entry.grantsReceived :
            Call(c, "dropReceivedGrant", h.serial)
    /\ UNCHANGED <<local, world>>

CallRenew(c) ==
    /\ kind = "agent"
    /\ \/ \E g \in Listed(entry) :
            g \notin void /\ Call(c, "recordRenewedGrants", Renewal(g))
       \/ Call(c, "pruneSupersededGrants", void)
    /\ UNCHANGED <<local, world>>

\* An envelope reaches the party, and its settlement is called for. (Bound: one
\* that was delivered and not settled is not pushed again.)
PushEnvelope(c) ==
    /\ HasLiveChannel(entry, day)
    /\ \E item \in entry.outbox :
         /\ ~(item.zcaps \subseteq delivered)
         /\ delivered' = delivered \cup item.zcaps
         /\ Begin(c, "settleOutboxItem", item.createdAt, None)
    /\ UNCHANGED <<calls, local, void, posted, listed>>

CallReplicas(c) ==
    /\ kind = "replica-server"
    /\ \/ \E spaces \in (SUBSET Space) \ {{}} :
            Call(c, "recordReplicas", [spaces |-> spaces, seed |-> SeedFor(c)])
       \/ \E s \in Space : Call(c, "removeReplica", s)
       \/ \E r \in entry.replicas, marker \in Markers :
            Call(c, "writeReplicaMarkers",
                 [spaces |-> {r.fromSpace}, marker |-> marker,
                  set |-> marker \notin r.markers])
    /\ UNCHANGED <<local, world>>

\* A pull grant: with a registration id of its own or the one it read pending,
\* with none to replace a registered one's, or renewing the one it read.
CallReplicaGrant(c) ==
    /\ kind = "replica-server"
    /\ \E r \in entry.replicas :
         \/ \E id \in {r.pendingRegistrationId, calls + 1} :
              Call(c, "recordReplicaGrant",
                   [zcap |-> Fresh(r.fromSpace), pending |-> id])
         \/ \E g \in Listed(entry) :
              /\ g.scope = r.fromSpace
              /\ Call(c, "recordReplicaGrant",
                      [zcap |-> Renewal(g), pending |-> None])
    /\ UNCHANGED <<local, world>>

\* The registration is posted to the replica server under the recorded id, and
\* its settlement is called for.
PostRegistration(c) ==
    /\ \E r \in entry.replicas :
         /\ r.pendingRegistrationId # None
         /\ posted' = posted \cup {Registration(r, r.pendingRegistrationId)}
         /\ Begin(c, "settleReplicaRegistration",
                  [space |-> r.fromSpace, id |-> r.pendingRegistrationId], None)
    /\ UNCHANGED <<calls, local, void, delivered, listed>>

\* registerConnectionWriter up to its loop: a writer registers from its second
\* session on, and not again within the touch interval.
FirstSession(c) ==
    /\ kind = "wallet-client" /\ local[c].seen = "none"
    /\ local' = [local EXCEPT ![c].seen = "this"]
    /\ UNCHANGED <<kind, entry, version, job, torn, day, calls, cuts, world, history>>
NewSession(c) ==
    /\ local[c].seen = "this" /\ job[c] = Idle
    /\ local' = [local EXCEPT ![c].seen = "earlier"]
    /\ UNCHANGED <<kind, entry, version, job, torn, day, calls, cuts, world, history>>
CallRegister(c) ==
    /\ kind = "wallet-client" /\ local[c].seen = "earlier"
    /\ local[c].touched < 0 \/ day - local[c].touched >= TouchInterval
    /\ \/ Call(c, "registerWriter", [writer |-> c, listed |-> listed])
          /\ UNCHANGED local
       \/ /\ job[c] = Idle /\ ~listed /\ (~entry.stands \/ entry.retired)
          /\ local' = [local EXCEPT ![c].touched = day]
          /\ UNCHANGED <<kind, entry, version, job, torn, day, calls, cuts, history>>
    /\ UNCHANGED world

\* touchConnectionWriter and sweepConnectionWriters work from a listing.
CallTouchOrSweep(c) ==
    /\ kind = "wallet-client"
    /\ \/ MemberToTouch(entry, c, day) # {} /\ Call(c, "touchWriter", c)
       \/ Call(c, "sweepWriters", <<>>)
    /\ UNCHANGED <<local, world>>

\* The call is over; a registration that did not lose its race is noted.
End(c, raced) ==
    /\ job' = [job EXCEPT ![c] = Idle]
    /\ local' = IF job[c].op = "registerWriter" /\ ~raced
                THEN [local EXCEPT ![c].touched = job[c].now] ELSE local

\* The next attempt's read.
Get(c) ==
    /\ job[c].stage = "get"
    /\ \/ /\ Change(entry, job[c]).do = "put"
          /\ job' = [job EXCEPT ![c] = Attempt(@)]
          /\ UNCHANGED local
       \/ Change(entry, job[c]).do # "put" /\ End(c, FALSE)
    /\ UNCHANGED <<kind, entry, version, torn, day, calls, cuts, world, history>>

SweepUnconditionally(c) ==
    job[c].base = version \/ job[c].op = "sweepWriters"

\* The put's precondition: the ETag read, or nothing stored.
IfMatch(c) == job[c].base = version

\* What a write means to the rest of the world.
Records(j) ==
    CASE j.op = "recordGrants" -> j.arg.grants
      [] j.op = "recordRenewedGrants" -> {j.arg}
      [] j.op = "recordReplicaGrant" -> {j.arg.zcap}
      [] OTHER -> {}
Owes(j) ==
    CASE j.op = "recordGrants" /\ j.arg.message -> owed \cup j.arg.grants
      [] j.op = "recordRenewedGrants" ->
            {z \in owed : z.scope # j.arg.scope} \cup {j.arg}
      [] j.op \in {"clearReceivedGrants", "retireConnection"} -> {}
      [] OTHER -> owed

Stored(c) ==
    /\ job[c].stage = "put" /\ IfMatch(c)
    /\ entry' = job[c].next /\ version' = version + 1
    /\ recorded' = recorded \cup Records(job[c]) /\ owed' = Owes(job[c])
    /\ beat' = IF job[c].op \in {"registerWriter", "touchWriter"}
               THEN [beat EXCEPT ![c] = job[c].now] ELSE beat
    /\ UNCHANGED <<kind, day, calls, world>>

Put(c) ==
    /\ Stored(c) /\ End(c, FALSE)
    /\ UNCHANGED <<torn, cuts>>

\* A lost race reads again, up to the bound; a sweep leaves it at that.
LostRace(c) ==
    /\ job[c].stage = "put" /\ ~IfMatch(c)
    /\ \/ /\ job[c].attempt + 1 < WriteAttempts /\ job[c].op # "sweepWriters"
          /\ job' = [job EXCEPT ![c].stage = "get", ![c].attempt = @ + 1,
                                ![c].next = NoEntry]
          /\ UNCHANGED local
       \/ /\ job[c].attempt + 1 >= WriteAttempts \/ job[c].op = "sweepWriters"
          /\ End(c, TRUE)
    /\ UNCHANGED <<kind, entry, version, torn, day, calls, cuts, world, history>>

\* The write is stored and its reply lost: the client knows neither. (What a
\* push or a post calls for comes again with the next push or post, and a new
\* run of the registration mints new Space ids or adopts the stored ones.)
LostReply(c) ==
    /\ Stored(c) /\ job[c].serial # None /\ cuts < MaxCuts /\ cuts' = cuts + 1
    /\ torn' = IF job[c].op = "recordReplicas" THEN torn
               ELSE [torn EXCEPT ![c] = job[c]]
    /\ job' = [job EXCEPT ![c] = Idle]
    /\ UNCHANGED local

\* The same call again, with the capabilities and ids it was made with.
CallAgain(c) ==
    /\ job[c] = Idle /\ torn[c] # Idle
    /\ job' = [job EXCEPT ![c] = [torn[c] EXCEPT !.stage = "get", !.now = day,
                        !.attempt = 0, !.base = 0, !.next = NoEntry]]
    /\ torn' = [torn EXCEPT ![c] = Idle]
    /\ UNCHANGED <<kind, entry, version, local, day, calls, cuts, world, history>>

\* External: a day passes; the account document drops the wallet client.
Tick ==
    /\ day < MaxDay[kind] /\ day' = day + 1
    /\ UNCHANGED <<kind, entry, version, job, torn, local, calls, cuts, world, history>>
Unlist ==
    /\ kind = "wallet-client" /\ listed /\ listed' = FALSE
    /\ UNCHANGED <<kind, entry, version, job, torn, local, day, calls, cuts,
                   void, delivered, posted, history>>

Next ==
    \/ Tick \/ Unlist
    \/ \E c \in Client :
         \/ CallRecordGrants(c) \/ Revoke(c) \/ CallClear(c)
         \/ CallMark(c) \/ CallChannel(c) \/ CallRenew(c) \/ PushEnvelope(c)
         \/ CallReplicas(c) \/ CallReplicaGrant(c) \/ PostRegistration(c)
         \/ FirstSession(c) \/ NewSession(c) \/ CallRegister(c)
         \/ CallTouchOrSweep(c)
         \/ Get(c) \/ Put(c) \/ LostRace(c)
         \/ LostReply(c) \/ CallAgain(c)

Spec == Init /\ [][Next]_vars

-----------------------------------------------------------------------------
RetiredEmpty(e) ==
    e.retired => Emptied(e) /\ e.replicas = {}

\* A retired entry holds no grant, channel, envelope or replica: whatever was
\* merged while it retired (retireConnection, and the refusals of
\* recordReceivedGrants, recordRenewedGrants and recordReplicaGrant).
RetiredIsEmpty == RetiredEmpty(entry)

\* A revocation reads the entry to know what to revoke: every grant written to
\* it that is still honoured, neither revoked nor expired, is visible there
\* (connectionGrants), whoever retires, prunes, removes or renews.
LiveStaysListed ==
    \A g \in recorded :
        g \in void \/ ExpiredBeyondSkew(g, day) \/ g \in ConnectionGrants(entry)

\* A zcap an envelope was queued for stays queued until it is delivered or
\* expired, and in one envelope only (supersedeAndQueueEnvelope,
\* settleOutboxItem, pruneSupersededGrants).
EnvelopeOwed ==
    /\ \A z \in owed :
          z \in Pending(entry) \cup delivered \/ ExpiredBeyondSkew(z, day)
    /\ \A i, j \in entry.outbox : i # j => i.zcaps \cap j.zcaps = {}

\* Two clients that renew the same grant from the same read: one of them is
\* recorded (renewedGrantRecord).
RenewedOnce ==
    \A g, h \in Listed(entry) :
        g.renews # None /\ g.renews = h.renews /\ g.scope = h.scope => g = h

\* A replica Space is registered under one id, and an id the entry states was
\* posted for that source Space (recordReplicaGrant,
\* settleReplicaRegistration).
OneRegistration ==
    /\ \A p, q \in posted : p[1] = q[1] /\ p[2] = q[2] => p = q
    /\ \A r \in entry.replicas : r.registrationId # None =>
          \E p \in posted : p[1] = r.fromSpace /\ p[3] = r.registrationId

\* A confirmed heartbeat is not undone by a sweep or another writer's call,
\* and a member reads inactive only when its heartbeat is that old
\* (sweepConnectionWriters writes from a listing).
HeartbeatSurvives ==
    \A m \in entry.writers :
        /\ m.lastSeen >= beat[m.writerId]
        /\ m.active \/ day - beat[m.writerId] > InactiveAfter
=============================================================================

# TLA+ models of wallet-core

`wallet-core` is the part two wallet apps share: a mobile wallet and a browser
wallet are replicas of one user account, and this library holds the protocols by
which they replicate collections, extend the account's DID log, hand the user
key to each other and take it away from a removed client. Everything it does is
asynchronous, against a storage host that offers conditional writes on single
resources and no transactions, and every side effect is injected. The
properties that matter are about interleavings: two ceremonies over the same
read, a ceremony cut between two writes, a reply that is lost, a value read
before an `await` and used after it.

Paths in this file are relative to `src/` of the repository checkout
(`src/sync/engine.ts` is `src/src/sync/engine.ts` in `PROJECT.json`).

## 1. Inventory

### Components

| Component | State it keeps | Operations | What makes it correct |
| --- | --- | --- | --- |
| sync engine (`sync/engine.ts`) | in-memory run flags, rerun flag, retry timer, provisioning memo and its generation; durable `migrated` milestone | `sync`, `invalidateProvisioning`, `stop`, the retry timer, the run loop | one run at a time; no request forgotten; no push before its provisioning; `stop` is final |
| push and pull (`sync/push.ts`, `pull.ts`, `contactsConflict.ts`) | replica rows (dirty, revision, ETag), projection, checkpoint; the server's documents and change feed | push of a snapshot, conflict settlement, delete retry, page application | no write lost, no feed entry skipped, deletions stay, replicas converge |
| re-mint (`sync/remint.ts`) | the pending rows | re-seal rows under the adopted epoch | a row rewritten meanwhile is not overwritten |
| account DID log (`webvh/`) | `did.jsonl`, `did.json`; each client's update-key seeds and chain-head pin | ensure (signup and sign-in), rotate, enroll, revoke | every entry resolves; a removed client is out; seeds always suffice to go on; pins do not move back |
| ladders of standing credentials (`webvh/ladder.ts`, `unlock/standingWebvh.ts`, `clientAnnex/ladderAnchored.ts`) | nothing of their own: a ladder is read back from the order of hashes in the log | bind, retire, split binding, self-enroll, approve, forget | what a retirement strikes is the leaving credential's own, and all of it |
| resource logs (`resourceLog/`) | other hash-chained logs anchored in the account document | append license, rung attribution | a ladder-signed append is licensed only where the credential's own acts earned it |
| user key roster and cascade (`keys/`) | the roster of user-key generations; each collection's epochs; each client's cached key | escrow, rotation, convergence on the document, fan-out to collections | history stays readable, removed clients lose access, collections never go back |
| clients (`clients/`, `clientAnnex/forget.ts`) | none of its own | revocation, forgetting oneself, the sign-in sweep, listings | a removal cascades to the end or is resumed |
| enrollment (`enrollment/`) | the pending request on both sides | approve, escrow, publish | no client authorized without its key |
| connections (`connections/`) | one entry per counterparty: grants, received channels, outbox, replicas, writers | record, renew, prune and revoke grants, queue and settle envelopes, register replicas, writer heartbeats and sweep | no live grant drops out of sight, no envelope is lost, nothing is renewed or registered twice, whatever the interleaving |
| account genesis (`genesis/`, `clientAnnex/establish.ts`, `mend.ts`) | Space, DID, roster, epochs, controller, unlock record, registry entry | staged, re-runnable sign-up; the mend of a torn one at login | nothing keyed to a key the roster does not deliver; a record names a DID only when the account is whole |
| unlock and keyring (`unlock/`, `keyring/`) | encrypted unlock records, standing credentials in the document | bind, fetch, retire | a retired credential opens nothing written later |
| recovery (`recovery/`) | the code's rung and the successor's material | spend: reveal, persist, add and retire | a spend can be resumed after any cut |
| client annex (`clientAnnex/`) | auxiliary DID logs of transient visits, in generations; the document's pointer | visit, commit and strike rungs, swap, collect, forget the last client | the pointed generation is never collected; no visit disappears unrecorded; a retired credential stays out |
| menders (`menders/`) | a registry of invariants and who re-establishes them | run a block, derive gaps | every declared gap is reported; one failure does not hide others |
| space, descriptors, audiences, leaves | none beyond the host's resources | idempotent provisioning, constructions | - |

### Interactions

The engine calls the push and pull loops, which call the host through a port and
the app through a store. A ceremony (enrollment, revocation, sign-in sweep,
retirement, recovery) edits the account log first or last, then the roster, then
every collection; each of these has its own compare-and-swap, so the order of the
three edits is the only thing that relates them. Sign-in re-runs the same
convergence, which is what repairs a torn ceremony. The roster's and the
collections' entries are in turn licensed by the account document. An account without
enrolled clients lives by its credentials: the document's pointer names a generation of
the annex, whose embedded delegation is what a transient visit acts under, and each
remembered login collects the generations nothing points at.

### Hard behaviours

* *Interleaving at every await*: host calls, timers and callbacks against a run;
  local writes against a push in flight; two ceremonies on one log.
* *Lost and late requests*: a conditional write that landed but whose answer was
  lost is retried and meets itself as a conflict; one that was given up on lands
  later.
* *Crashes between writes*: seeds persisted but not published, published but not
  rolled; document edited, roster not rotated; roster rotated, collections not.
* *Stale views*: a listing, a document, a roster or a pin older than the write it
  decides.
* *Bounded retries*: three attempts, then an error with the work half done.
* *A host that serves an older log, loses a resource, or answers a request it does not
  authorize as if the resource were absent.*
* *Authority read off a history*: which key belongs to which ladder or client is inferred
  from the position of an opaque hash, and long legal sequences of ceremonies decide
  what stands there.

`PROJECT.json` lists each of these at its line under `hazards`, with the
properties that would catch it, or the reason none does yet.

## 2. Modules

| Module | Models | Role |
| --- | --- | --- |
| `SyncContract` | what `sync()` promises | abstract specification |
| `SyncEngine` | `sync/engine.ts` | implements `SyncContract` |
| `Replication` | `sync/push.ts`, `pull.ts`, `contactsConflict.ts` and the store contract of `sync/types.ts` | several replicas and one server |
| `AccountClients` | what the account log amounts to: a set of clients edited one at a time | abstract specification |
| `AccountLog` | `webvh/didWebvh.ts`, `accountEntry.ts`, `enrollClient.ts`, `revokeClient.ts`, `listClients.ts`, `verifyLog.ts`, `didWebProjection.ts` | several clients and one log; implements `AccountClients` |
| `KeyCascade` | `keys/userKeyRoster.ts`, `userKeyRosterCascade.ts`, `userKeyCascade.ts`, `userKeyGenerations.ts`, `clients/revocation.ts`, `clients/rosterPolicy.ts`, `clientAnnex/forget.ts`, `enrollment/enrollment.ts` | document, roster and collections together |
| `LadderLog` | `webvh/ladder.ts`, the attribution of `listClients.ts` and `revokeClient.ts`, `resourceLog/document.ts`, `ladderRungs.ts`, `license.ts` | readings of a log; no state |
| `Ladder` | `unlock/standingWebvh.ts`, `clientAnnex/ladderAnchored.ts`, `selfEnroll.ts`, `webvh/enrollClient.ts`, `revokeClient.ts`, `recovery/continuation.ts`, `recoveryWebvh.ts` | the ceremonies over that log; extends `LadderLog` |
| `Annex` | `clientAnnex/gc.ts`, `log.ts`, `heal.ts`, `forgetLast.ts`, `unlock/retire.ts` | generations, visits, passes, retirements, the last forget |
| `AccountGenesis` | `genesis/accountGenesis.ts`, `clientAnnex/establish.ts`, `mend.ts` | sign-up and mending of both kinds of account |
| `Connections` | `connections/upsert.ts`, `replicas.ts`, `writers.ts`, and the readers of `grants.ts` and `entry.ts` | several clients and one entry |
| `SyncEngineProofs`, `ReplicationProofs`, `AccountLogProofs`, `KeyCascadeProofs`, `AnnexProofs`, `AccountGenesisProofs`, `ConnectionsProofs`, `LadderProofs` | - | theorems of the module they extend |
| `MC*` and the `.cfg` files | - | instances for TLC |

An operator whose comment-free twin stands right before it (`AckedBlindly` before
`Acked`, `StopWithoutAbort` before `Stop`) is a plausible mistake in that piece of
code; it is used by nothing, and exists so that each property can be seen to fail
when the definition is replaced by it. `PROJECT.json` pairs them under `mutants`. The
lines `PROJECT.json` maps a definition to are the symbol it translates, in many cases
with the comment that documents it.

### SyncEngine

The variables are the private fields of the class under their own names
(`running`, `currentRun`, `rerunRequested`, `provisioned`,
`provisioningGeneration`, `stopped`, `failureCount`, the armed retry) plus `pc[r]`,
the injected call that invocation `r` of `run()` is awaiting. JavaScript runs to
the next `await`, so an action is exactly that: `Provisioned`, `Reminted`,
`IsMigrated`, ... resume a run from one call and take it to the next, `Reject` lets
any awaited call fail, `CycleAgain`, `Settle` and `Fail` are the loop, `Sync`,
`RetryFires`, `InvalidateProvisioning` and `Stop` come from outside at any await.
Two history variables record what the code does not (`unserved`, `published`). The
length of a delay is left out: an armed retry fires at some time.

A status callback that itself calls `sync()` is part of the environment:
`reenterOn` says on which status, and never changes. The engine is single-flight
only for the hosts where it is `"never"` (`Quiet`): inside the `"syncing"` callback
`running` is set and `currentRun` is not, so a nested call starts a second run,
and inside the `"synced"` callback a nested call sets a rerun flag that nothing
reads any more. The properties that need `Quiet` say so; `PushAfterProvisioning` holds
for every host.

### Replication

`rows[c][d]` is the replica's row with the fields of `SyncedResourceReplica`; `server`
holds each document at its latest write with the clock of that write, which serves as ETag
and as feed position. `phase`, `snap`, `todo`, `busy` and `reply` are the locals of
`runPush`; `page` is the page `runPull` has fetched and not applied. Each request, answer
and store transaction is a step, and `CycleFails` drops everything in memory anywhere in
between: that is a lost reply, a thrown port call, a `stop` or a crash. `setup`, chosen at
the start from the constant `Setups`, says whether the collection is a last-write-wins one
of heads or an insert-only, content-addressed one, and which documents, payloads and
faults the behaviour has. `Opaque` lists the payloads a replica holds no key for. The
store is the contract of `sync/types.ts` as the tests' reference store implements it, and
the server's conditional writes are modelled from how `push.ts` uses them.

### AccountLog

A log entry is its update keys, its committed hashes, the clients its document
names and its author. A key is a pair of owner and serial number. `seeds[c]` is the
persisted `ClientWebvhUpdateKeys`, `pin[c]` the history the chain-head pin stands
for. A ceremony (`job[c]`) carries the options it was called with, which a retry
reuses, through the stages read, persist, put, sent, acked or conflict, project,
finalize. `PlanOf` is what the four ceremonies decide on the log they read; the
attribution of keys to clients from the log alone (`AttributeClientUpdateKey`,
`AttributeStagedHash`) is translated in full because revocation depends on it.
An approval (`StartEnroll`) is of the request a client was minted with, and may be repeated
at any time: while another approval runs, after one was cut between its two entries, once
the client is enrolled, after it rotated or was removed. As in `enrollClient.ts:141-144`,
only the ceremony looks at the log, and it knows an enrolled client by the update key of the
request. `ApprovedAgain` is the history in which that matters: the request was approved
again when its first hash stood no more, so two entries commit it.
`StandingIn` is the refinement mapping to `AccountClients`: what a log has made of a
client, whether new, invited (its two hashes committed, or one after a withdrawal), enrolled,
removed or approved again, with the keys and hashes that are its own. `EditsOneClient` says
each step of the module is one step of `AccountClients` or none, up to the first rollback.
Requests travel on `wire`, so with `Delayed` they can land after their sender gave
up. `CutShort` ends a ceremony at any stage; `HostRollsBack` is a host that serves
an older log.

### KeyCascade

`document` is the set of clients the account document keys (its edit is one step
here; `AccountLog` has its parts), `roster` the sequence of epochs of the user key
with their recipients, `collection[k]` the epochs of a collection with the user-key
generations they are wrapped to, `userKey[c]` the generation a client has cached.
The ceremonies are the sign-in check and sweep, the revocation, the enrollment's
approval, and the forget, which inverts the order: it retires its own wrap by name, reads
the fresh key back through its credential's, fans out, and publishes its removal last.
The roster write and the two steps of each collection's rotation are
compare-and-swaps on what was read, retried `CasAttempts` times. A sign-in that runs out of
them sweeps the collections with the roster it read (`GiveUpRoster`); any other ceremony
ends. `Recipients` and
`CanEscrow` stand for the library calls (`addRecipient`, `removeRecipient`,
`replaceRecipient`) as this code uses them.

### Connections

`entry` is the stored body, `version` its ETag. Every helper is an operator from a body
to a change (`Write`, `Stop` or `Refuse`), and `Change` applies the one a client's `job`
names; `Begin`, `Get`, `Put` and `LostRace` are the loop of `writeConnection`, with the
sweep's single attempt as its exception. A helper's arguments come from a read of the
entry; that read and the loop's first one are a single step, because a write between
them has the effect of a lost race. `LostReply` stores the body and loses the answer;
`CallAgain` repeats the call with the same capabilities and ids. (Not `recordReplicas`: a
new run of the replication ceremony mints other Space ids, or adopts the stored ones, so
it is a new call.) Lists are cut by position (`At`), as the code's filters do. What the
app does between two calls is external: it revokes what it reads (`Revoke`), pushes an envelope
and then settles it (`PushEnvelope`), posts a registration and then settles it
(`PostRegistration`; a posted registration is the source Space, the replica Space made
for it and the id). The serial number of a call stands for the ids and time stamps it
makes, so two calls never share one; the code's `createdAt` is a millisecond time.
`recorded`, `owed` and `beat` are history for the properties.

### LadderLog and Ladder

`LadderLog` is a library of readings. A key is a pair of owner and number, of which the
code sees only the hash: `IndexLadderLog` is the facts `indexLadderLog` keeps per version,
and on them stand the seeded reading (`AttributeLadderRung`), the seedless ones
(`AttributeUnlockLadderInventory` with its claims, `AttributeStagedHash`,
`AttributeClientUpdateKey`), the rungs the license walks and `LadderAppendLicensed`.
Ownership is used by the properties only.

`Ladder` is every ceremony that publishes with a ladder or edits a credential's inventory:
binding (whole, or split into a commit and an install), retiring, self-enrolling,
approving, rotating, revoking and forgetting a client, issuing and revoking a recovery
code (an approval, as in `AccountLog`, may be repeated at any time), and spending one for
a client or a fresh credential. One entry is one step, since each is published
conditionally on the log it was built on. A ceremony of two entries (`job`) has its
persist between them and may be abandoned, resumed, or restarted with other keys.
`recorded` is the rung a registry records for a credential; it may lag.

### Annex

`acct` is what the account log says of the annex (pointer, pointers it ever had, standing
credentials, enrolled clients); `gen[g]` is what stands at a generation's id: rungs,
embedded delegations and which of them are revoked, visits. `job[a]` is the ceremony an
actor has in flight, with what it read and decided: a pass (read, decide, swap if due,
list, collect each stale generation with a digest, delete), a retirement (strike the rung
or swap the generation, then report), a visit (renew a stale delegation or move the
pointer, append itself, re-read the pointer and start over, up to `MaxRounds`), the last
forget (renew, revoke, remove). `visited`, `digest` and `out` are history. `overtaken`,
`unread` and `torn` mark the three known exceptions, described under observations, so that
the properties can say exactly what they leave out.

### AccountGenesis

The variables are the resources a sign-up leaves on the host: the Space with its
controller, the DID log with its pointer, the roster, each collection's first epoch, the
unlock record, the registry entry. `anchor` fixes whether the account is a client's
(`ensureAccountGenesis`) or a credential's (`establishCredentialAnchoredAccount` and
`mendCredentialAnchoredAccount`). A mend whose mint is refused still runs its registry
arm, with the user key of its own session (`Deliver`). `job[b].as` is the identity a
browser signs as; a request the Space does not authorize is answered as an absence
(`RosterRead`). Every stage is a step that may fail, and `Crash` cuts a browser anywhere.

## 3. What TLC checks

`tlc -config <cfg> <module>`; sizes are distinct states.

| Run | Config | Checks | Size |
| --- | --- | --- | --- |
| `engine` | `MCSyncEngine.cfg` | `TypeOK`, `SingleFlight`, `PushAfterProvisioning`, `StopIsFinal`, `RequestServed`, refinement of `SyncContract` | 624,226 |
| `replication` | `Replication.cfg` | `CleanMatchesServer`, `CheckpointCoversFeed`, `Converges`: one document of either kind of collection, an unreadable payload, a lost or failed exchange; and two documents on pages of one, so that documents move in the feed between pages | 682,330 |
| `replication_lost_delete` | `ReplicationLostDelete.cfg` | `LocalWriteSettled` fails (finding 1) | - |
| `account_log_races` | `AccountLogRaces.cfg` | `LogResolves`, `RevokedIsOut`, `SeedsFollowLog`, `PinNeverRewinds`, refinement of `AccountClients`: four ceremonies of two clients, approvals repeated at will, one cut short, one host rollback | 835,945 |
| `account_log_settles` | `AccountLogSettles.cfg` | `ProjectionFollows`, with two founders and requests that arrive late | 88,470 |
| `key_cascade` | `KeyCascade.cfg` | `HistoryReadable`, `LoneRevocationBites`, `CollectionNeverRewinds`, `CascadeSettles`: a pair with an enrollee and three edits, or two and a crash; three clients of which one revokes twice; a client that forgets itself beside one that signs in, enrolls or revokes it | 674,380 |
| `key_cascade_stale` | `KeyCascadeStale.cfg` | `RevocationBites` fails with two revoking clients (finding 2) | - |
| `connections` | `Connections.cfg` | `TypeOK`, `RetiredIsEmpty`, `LiveStaysListed`, `EnvelopeOwed`, `RenewedOnce`, `OneRegistration`, `HeartbeatSurvives`, for each kind of party | 1,402,212 |
| `ladder` | `Ladder.cfg` | `SurvivorsIntact`, `RetiredOwnsNothing`, `ReadingIsOwn`, `ReportReadBack`, `SpendLeavesNoOrphans`: two passkeys, two codes, two clients | 64,623 |
| `ladder_license` | `LadderLicense.cfg` | `LicenseIsEarned` fails (finding 3) | - |
| `annex` | `Annex.cfg` | `PointedStands`, `VisitsRecorded`, `RetiredStaysOut`, `LastForgetReachable`: two clients, two credentials, two ceremonies at a time | 955,089 |
| `genesis` | `AccountGenesis.cfg` | `TypeOK`, `KeyedByRoster`, `PointerIsReachable`, `BoundIsWhole`, `TornIsMended`: two browsers, two faults | 97,354 |

`Replication`, `AccountLog`, `KeyCascade`, `Ladder` and `Annex` define a `TypeOK` too. It
holds in these runs, which do not list it among what they check; section 4 proves it.

### Bounds, and why they are enough to be interesting

* `SyncEngine`: two run names - a third concurrent run would need a second one
  first. Two disturbances allow a failure followed by another failure or by a
  conflict. Two invalidations allow one inside a provisioning call and one after it.
  Calls of `sync` are not bounded.
* `Replication`: two replicas race; three payloads allow a create and two competing
  edits. One fault is a lost reply at any point. `MaxClock` is larger than what
  these writes can use. With `BatchSize` 1 two documents need two pages;
  in that instance both replicas write and one of them deletes, while with a single
  document both do.
* `AccountLog`: two clients, four ceremonies: enroll, rotate on either side, revoke,
  in any order and overlap. An approval of a client that has rotated since fits, as does one
  of a client removed before. One cut and one rollback fall anywhere. `Attempts` is
  the code's 3.
* `KeyCascade`: `CasAttempts` 2 (the code's is 3) lets a budget run out. One collection
  suffices because the fan-out treats collections independently of one another; the
  properties are stated for any set. `RevocationBites` needs two clients to remove besides
  the ones that stay. `Setups` names the accounts a run starts from, with their bounds.
* `Connections`: from no entry and from one that stands, three numbered calls of two
  clients, one repeated after a lost reply, besides any settlement; with
  `WriteAttempts` 2 a call can exhaust its attempts. Two scopes allow an envelope of
  which only a part is superseded; capabilities of the standing entry expire within the
  run, new ones after it. Writers have two days, so that one falls silent; with
  `MaxWriters` 2 and three writers the cap is met.
* `Ladder`: five entries are a genesis and four more, so a bind, a spend in two entries and
  a retirement, or an approval, a rotation and a removal. Six entries with one client
  (128k states) and four million random states at nine entries showed nothing further.
* `Annex`: three generations allow a swap during a swap; `MaxEvents` 5 counts clients
  enrolled at the start, ceremonies, crashes and due dates together, so that more clients
  leave fewer faults. Instances with any number of ceremonies in flight, up to 11M states,
  were checked once and hold as well.
* `AccountGenesis`: two browsers overlap, two faults allow a tear inside the mend of a
  tear; two collections let the epochs stage be torn in its middle. Each browser holds one
  candidate user key and the resources one, so with four a fresh one always exists.

### Fairness

* `SyncEngine`: an awaited call settles (the ports time out), the event loop
  resumes a settled await, an armed timer fires. Host calls are not fair.
* `Replication`: each replica's cycle goes on and is triggered again; the engine
  does this while the app runs. Local writes and faults are not fair, and are finite
  because payloads and faults are, so "eventually always" means after the last one.
* `AccountLog`: a ceremony under way proceeds or, at rest, the client signs in again (the
  sign-in ensure is what re-publishes `did.json`); a request on the wire lands.
* `KeyCascade`: each client's ceremony under way proceeds or, at rest, it signs in again, as
  an app does on start. Edits and crashes are bounded and not fair.
* `AccountGenesis`: a browser's ceremony proceeds. Some browser logs in again and again
  whenever a login is possible (strong fairness, since another browser's step may disable
  it for a moment), with the repair flag the app sets after a torn sign-up; and a client's
  genesis is re-run as either identity. Faults are bounded and not fair.
* `Connections`, `Ladder` and `Annex` state no fairness: their properties are safety.

Deadlock is checked in the runs of `Replication`, `AccountLog` and `KeyCascade`. Elsewhere
the system may rightly stop: a stopped engine does nothing, clients may have no more to
say to a party, and a log, an annex or an account is at rest once the bounded ceremonies
are over.

### Findings

1. **A delete can be undone** (`replication_lost_delete`). When the create of an
   insert-only document meets a 412, `push.ts:116` adopts the master without
   comparing the row's revision, unlike every other settlement. A delete made after
   the push snapshot is overwritten and its row marked clean.
2. **A removed client can be escrowed again** (`key_cascade_stale`). The cascade's tail
   converges on the document its own edit resolved to. If another client was removed
   since, that document still names it, and the tail wraps the fresh key to it.
   The same window opens for a sign-in sweep that races an enrollment, even with one
   revoking client. A later sign-in rotates it out again: `CascadeSettles` holds.
3. **A rotated client key licenses its approver's ladder** (`ladder_license`). When a
   credential approves a client, the commit entry's last hash is the client's staged key,
   where a climb would commit the next rung. `ladderRungs.ts:341` takes it for that rung,
   so the client's own later entries count as the ladder's, which the comment at
   `ladderRungs.ts:49-57` says must not happen.

### Observations without a run

Each is described with how to see it, and the hazard it belongs to says so.

* *Approving a client again brings back a key it retired.* `enrollClient.ts:46-50` and
  `enrollment.ts:396-399` say that a re-run converges, and a caller that never saw its first
  run finish will re-run it. An enrolled client is recognized by the request's update key
  alone (`enrollClient.ts:141-144`), so when the client has rotated since, the re-run commits
  and authorizes its first key beside the current one, and a later removal strikes one of
  the two. Likewise a removal that meets a client between the commit entry and the add entry
  strikes the first hash and leaves the staged one (`revokeClient.ts:519`); approved again,
  the client's staged hash is not added anew, and the next removal cannot attribute it.
  Either way a key or a commitment of a removed client is left standing. The properties
  exempt exactly these clients: without the disjunct `ApprovedAgain`, `RevokedIsOut` and
  `SeedsFollowLog` fail in `AccountLogRaces.cfg`. In `Ladder` the same re-approval makes
  `attributeClientUpdateKey` name another's rung: it starts from the first entry that lists
  the client (`listClients.ts:586-610`) and takes the one key that replaces a retired one for
  its rotation, which after a removal by a ladder is the ladder's rung, although
  `listClients.ts:27-30` promises never to name another client's key. A second removal then
  strikes that rung. `SurvivorsIntact` and `ReadingIsOwn` exempt clients that were removed
  and approved again (`Returned`).
* *An enrolled client can be blind for a while.* Between the escrow and the add entry,
  another client's sweep reads the enrollee's wrap as a leftover (`userKeyRoster.ts:1068`)
  and rotates it away, although `userKeyRoster.ts:464-465` says that no client is ever
  authorized without its key. A later sign-in repairs it: `CascadeSettles` holds.
* *A forgetting client can be escrowed back*, by a sign-in between its rotation and its
  removal entry, when the document still lists it. A later sign-in rotates it out
  (`CascadeSettles`), which is why `LoneRevocationBites` excludes forgets.
  An enrollment has the same window: a sweep that decided to escrow the enrollee wraps it
  again after a revocation removed it, so `LoneRevocationBites` excludes enrollees too.
* *A forget can be refused too late.* `forget.ts:262-265` makes the last-client refusal fire
  before the rotation, "or a refused forget would already have retired this client's wrap".
  When the last two clients forget themselves at once both pass that check, both retire
  their wraps, and the slower one's removal entry is refused by the same test, made again
  on the newer document. It stays listed with no wrap. `Setups` with
  `forgetters = {a, b}` makes `CascadeSettles` fail. (The credential still holds every
  generation, so nothing is lost.)
* *A ladder without a method can misread.* A reading recognizes its own inventory by a
  ladder method it has claimed before (`ladder.ts:1676`, with the rule at 1472-1481). A
  credential born in a recovery has claimed none, and one struck in a last-client transition
  stands without; when such a ladder signs the second half of a split issuance, its reading
  takes what that entry commits for its own. `SignedBlind` is that history, and
  `SurvivorsIntact`, `RetiredOwnsNothing` and `ReadingIsOwn` leave it out. It takes three codes
  and six entries, or seven entries, to see them fail without the exemption.
* *A mint that is under way can restate a struck rung* (`Annex`, `overtaken`): it read the
  standing set before the strike, and the re-point is unconditional (`heal.ts:905`).
* *A swap cut between its revocation and its re-point* (`gc.ts:870-902`; `torn`) leaves the
  pointed generation with a revoked delegation, which a last forget by another credential
  does not renew.
* *A generation listed before its genesis is published* may be collected (`unread`);
  `docs/architecture/account-genesis.md` documents it.
* *A sign-up mints a roster on an absent reading without looking at the collections*; only
  the mend checks them. `AccountGenesis` therefore lets the host lose the roster only of an
  account in use with no ceremony in flight. A registry entry missing from an otherwise
  complete account is repaired only by a login the app flags.
* *A host that calls `sync()` from a status callback* can start a second run or lose its
  request (section 2).
* *An edit made between a cycle's push and its pull* takes over the pulled ETag, so the last
  push wins over the later timestamp.
* *A rotation request that lands late*, after a re-run replaced the pending seed it
  committed, leaves the log ahead of the client's seeds: `SeedsFollowLog` holds only where
  an abandoned request never lands (`Delayed = FALSE`).

## 4. What is proved

TLAPS checks these for every value of the constants that satisfies the named
assumptions: any set of runs or clients, any bounds.

`SyncEngineProofs` (assumes `RunIdAssumption`, `FlagAssumption`, `BoundAssumption`):

| Theorem | States |
| --- | --- |
| `TypeCorrect` | `Spec => []TypeOK` |
| `PushIsProvisioned` | `Spec => []PushAfterProvisioning` |
| `EngineIsSingleFlight` | `Spec => []SingleFlight` |
| `EngineRestsServed` | `Spec => []RestMeansServed` |
| `EngineStopsForGood` | `Spec => StopIsFinal` |
| `EngineImplementsContract` | `Spec => ImplementsContract` |

The argument: `TypeOK` is inductive by itself. `PushAfterProvisioning` is not: it needs
`ProvisioningInv`, which adds that no run holds a generation newer than the engine's,
that the memo is set only when the current generation was published, and that *every*
run past the provisioning seam holds a published generation. `SingleFlight`,
`RestMeansServed` and `StopIsFinal` say nothing of which run is in flight, so they are
not inductive either; `FlightInv` names it: the active run is the one `running`,
`currentRun` and `abortController` describe, it is aborted exactly when the engine is
stopped, an armed retry means a failed engine at rest, and a run past its snapshot with
a request outstanding has a rerun flagged. `FlightInv` holds for quiet hosts, and
`HostFixed` says a host does not change. The refinement proof maps each action to one of
`SyncContract`'s or to a stutter, with `FlightInv` for the step that comes to rest.
`RestMeansServed` (an engine at rest owes no request) is what the contract's rest state
means; it has no place in a run because the refinement implies it there.

`AccountLogProofs` (assumes `ClientAssumption`, `BoundAssumption`):

| Theorem | States |
| --- | --- |
| `TypeCorrect` | `Spec => []TypeOK` |
| `PinsNeverRewind` | `Spec => PinNeverRewinds` |
| `EntriesResolve` | `Spec => [](rollbacks = 0 => LogResolves)`, where `Delayed = FALSE` |
| `RevokedStaysOut` | `Spec => []RevokedIsOut`, where `Delayed = FALSE` |
| `SeedsStayInStep` | `Spec => []SeedsFollowLog`, where `Delayed = FALSE` |
| `ClientsEditedOneAtATime` | `Spec => EditsOneClient`, where `Delayed = FALSE` |

`TypeOK` includes what each stage of a ceremony holds (an entry to publish, a next seed
to roll to); `PlanTyped` shows that each ceremony's decision respects it on any log. The
pin moves at a read, where the continuity check compares it, and at an acknowledged
write, where nothing does. `PinInv` closes that gap: from its read to its write a
ceremony's pin is the log it read, so the acknowledged entry extends the pin, whatever
the host served in between.

`EntriesResolve` has a simple half and a difficult one. That an entry's update keys are
committed by its predecessor is what the DID method checks. That they are carried over in
its own commitments is the ceremonies' doing, and a removal could undo it for a survivor:
it strikes a commitment that it recovers by attribution, over a log in which any client may
have been approved again. `MayFollow` therefore adds that an entry authorizes at most one
key per client besides its first, that whatever it adds is one client's, and which
commitments may come with a key (`RevealsNext`; `Sealed`, of every entry). So what a removal
strikes is its target's or nobody's (`StrikesNoOther`), even where it strikes the wrong one
of two; `LogInv`, that what a ceremony
is about to publish, or has on the wire, may follow the log it read. This is claimed up to
the first rollback, after which a ceremony may sign over a log that is no longer the
published one. With one rollback TLC finds `LogResolves` to hold as well.

The last three theorems of the table depend on what a client reads off the log before it
edits it: `listClients.ts` works out which authorized key is whose, and `revokeClient.ts`
which opaque commitment goes with it. Neither is recorded anywhere; a wrong reading
strikes the wrong key. The proof gives the log a meaning that is not a reading of it. A
log is *told* (`Told`) when each entry edits exactly one client, in one of six ways
(`Founds`, `Commits`, `Withdraws`, `Adds`, `Rotates`, `Removes`), and leaves everyone
standing with a key and a next key (`Pair`), or with nothing, or with the commitments of
an unfinished enrollment (`Clear`). Of a client approved again (`ApprovedAgain`, which a
log never takes back) it says neither (`Stands`): its entries may do anything to it, and
nothing to another. Then:

* `AttributionIs` and `Anchors`: over a told log the code's two readings are right for
  every client not approved again. The key attributed to such a client is the one it owns,
  and the commitment attributed to that key its next one. The readings walk the log;
  instead of inducting over it, the proofs take the first position where the reading and
  the truth differ (`Least`) and look at the one edit made there.
* `RotationEdits`, `CommitEdits`, `AddEdits`, `RemovalEdits`, `GenesisEdits`: what each
  ceremony signs over a told log is one of the six edits, whatever keys the caller's older
  listing held (`RevokedKeyIs`), so the log stays told (`LandTells`).
* `Story`: a client's durable seeds are the pair it stands with (`Settled`) or, between the
  landing of its rotation and the last persist, one rotation behind with the pending seed
  already persisted (`Ahead`). What a ceremony holds agrees with the log it read (`HoldsOK`),
  and what is on the wire will leave its sender ahead.

`RevokedIsOut` and `SeedsFollowLog` are read off `Told` and `Story`. The hypothesis is an
observation of section 3: with `Delayed` an entry can land after its sender replaced the
seed it commits, and TLC shows that this breaks `SeedsFollowLog`. Both properties are stated
of a host that served every entry (`rollbacks = 0`), in the runs too.

`ClientsEditedOneAtATime` is the refinement. A log that stays told across a step has grown
by nothing or by one edit (`TellsBack`), and each of the six edits is the action of
`AccountClients` it looks like (`EditIsStep`, with `StandingReads`, `SameStands` and
`EditBecomes` for the mapping); the entry that makes a client one approved again is
`ApproveAgain` (`AgainIsStep`). `AccountClients` never removes the last client: a removal's
signer is another one, whose key the log authorizes, so it is named or was approved again,
and stays (`RemovalEdits`). The hypothesis is what keeps a ceremony's plan an edit of the log
it lands on. (TLC finds no violation of this property with late requests in instances of two
clients, four ceremonies and two crashes; the theorem does not claim it.)

`ConnectionsProofs` (assumes `KindsAssumption`, `ClientAssumption`, `ScopeAssumption`,
`DaysAssumption`):

| Theorem | States |
| --- | --- |
| `RetiredStaysEmpty` | `Spec => []RetiredIsEmpty` |
| `TypeCorrect` | `Spec => []TypeOK` |
| `LiveGrantsListed` | `Spec => []LiveStaysListed` |
| `EnvelopesOwed` | `Spec => []EnvelopeOwed` |
| `RenewedAtMostOnce` | `Spec => []RenewedOnce` |
| `RegisteredOnce` | `Spec => []OneRegistration` |
| `HeartbeatsSurvive` | `Spec => []HeartbeatSurvives` |

`RetiredIsEmpty` speaks of the stored entry alone, and the next write replaces that
whole by what some client prepared earlier. `RetiredInv` therefore says it of every
prepared body as well, and that a call under way, or one that may be repeated, is one of
the twenty helpers. Each helper has a lemma (`RetireKeeps`, `RenewKeeps`, ...): from a
body that satisfies it the helper stops, refuses, or makes another that does.
`ChangeKeeps` joins them, and the loop's steps follow. This proof never uses the ETag:
the property holds by what the helpers refuse and clear.

The other six do need it, and share one inductive invariant, `IInv`. `FreshWrite` is the
ETag: a prepared body whose base is the stored version is the change of what is stored
now, so an accepted write is always `Made` from the entry there is. `ArgOK` is what a
call's arguments say of the world at any time until its write: what a removal, a
retirement or a prune names is revoked, what a settlement names is delivered, a
registration it settles was posted, the Space ids of a replication are unused. With that,
each helper has a lemma on what it writes (`RenewBody`, `PruneBody`, ...) and each part of
the entry one on what may become of it: the grants (`StaysLedger`), the envelopes
(`StaysSorted`, `StaysCovered`), the replicas (`StaysRegistered`), the writers
(`StaysBeating`). The rest of `IInv` are the facts those need:

* `Serials`, `Ident`, `Numbered`: call numbers identify capabilities, also those of calls
  under way or to be repeated, and a capability that renews names a recorded one of its
  scope that expires earlier. Hence a second renewal of the same grant finds it no longer
  the latest of its scope (`StaysOnce`), and a repeated call records what it recorded.
* `Sorted`: an envelope carries only capabilities of the call that queued it, so that
  settling it by its `createdAt` takes only what was delivered.
* `RegisteredItem`, `PostedOK`: what was posted for a replica Space is the id its item
  states or waits for, so that a second id is refused before it is posted.
* `BeatItem`: a member's `lastSeen` is no older than the writer's last confirmed
  heartbeat. A sweep or a cap written from an older listing fails on the ETag.

The lemmas on the operators beneath them (`AtIs`, `SetToSeqIs`, `Largest`, `NewestBound`)
show that cutting and listing keep the records, and that the writers kept under the cap
are no more than the cap.

`ReplicationProofs` (assumes `PayloadAssumption`, `OpaqueAssumption`, `SizeAssumption`,
`NoDocAssumption`):

| Theorem | States |
| --- | --- |
| `TypeCorrect` | `Spec => []TypeOK` |
| `CleanRowsMatch` | `Spec => []CleanMatchesServer` |
| `CheckpointCovers` | `Spec => []CheckpointCoversFeed` |

Both properties speak of rows and the server at rest, and every write to either is decided
from something read earlier: a snapshot, a reply, a page. The invariant (`Core`) says what
each of those still guarantees when it is used. A document the push has not settled is
pending and equals its snapshot until a local write raises its revision (`SnapOK`): this is
why `markPushed` may compare revisions. An acknowledged ETag is past the checkpoint and
belongs to what was pushed while the server has not moved on (`AckOK`). A master fetched
after a refusal is the server's current document or one past the checkpoint (`MasterOK`,
`GoneOK`). A page holds everything the server still has between the checkpoint and its own
end (`PageOK`), so advancing the checkpoint to that end loses nothing; the page size only
enters through the lemma that a bounded prefix of the feed has a last element. The
collection kind, the fault budget and the sets of ids and payloads are arbitrary.

`KeyCascadeProofs` (assumes `SetupAssumption`, `CasAssumption`):

| Theorem | States |
| --- | --- |
| `TypeCorrect` | `Spec => []TypeOK` |
| `HistoryStaysReadable` | `Spec => []HistoryReadable` |
| `NeverRewinds` | `Spec => CollectionNeverRewinds` |
| `OneGenerationAtATime` | `Spec => []OneGeneration` |
| `LoneRevocation` | `Spec => []LoneRevocationBites`, where `CasAttempts > 1` |

The argument of the first three is one sentence long: an escrow wraps into every epoch of
the roster and a rotation keeps only survivors, so who opens the current generation opens
all earlier ones (`RosterOK`), and every epoch of a collection is wrapped to generations
the roster has (`CollectionOK`). The second half needs what a ceremony holds: no cached
key and no adopted roster is ahead of the published one, and a ceremony at its fan-out
holds the key of the roster it adopted (`JobOK`). `CollectionNeverRewinds` adds that a
prepared collection write retires only generations older than the key it moves to
(`FanOK`). Without it a slow fan-out could take a collection back.

`LoneRevocationBites` needs the whole chain of one revocation, from the document to the last
collection, against sign-ins that read any part of it early. `OneGeneration` comes first:
whichever fan-outs race, a collection's current epoch is wrapped to one generation, which
all its earlier epochs are wrapped to as well, and a fan-out about to write retires exactly
the generation it escrows with (`OneOwner`). With that the invariant of the lone revoker
(`Lone`) can say where the removed client still is. The roster wraps to the document's
clients and at most one removed client, and to that one only while the revoker is on its
way to drop it (`Waits`). The roster the revoker read moves under it only once, when a
sign-in drops the client first (`Current`): that is what the second attempt of the
compare-and-swap loop is for, and with a single one the theorem is false. A collection is
at most one generation behind, and then the revoker has yet to read it or holds a write
that nothing can overtake (`Behind`). A sign-in about to write the roster drops one client
and escrows nobody (`Seen`), which is where enrollees and forgetters would get in. The
theorem speaks of cascades nobody cut (`crashes = 0`), as the property does.

`AnnexProofs` (assumes `AnnexAssumption`):

| Theorem | States |
| --- | --- |
| `TypeCorrect` | `Spec => []TypeOK` |
| `PointedNeverCollected` | `Spec => []PointedStands` |
| `VisitsOutliveLogs` | `Spec => []VisitsRecorded` |
| `RetiredForGood` | `Spec => []RetiredStaysOut` |
| `LastForgetLeavesDoor` | `Spec => []LastForgetReachable` |

The invariant has a shared part and one part per ceremony. Shared: a generation a pass may
delete is *condemned*, once pointed at and left, or never pointed at and minted by nobody
who will point at it (`Condemned`); a delegation that stands is signed by a rung its log
commits (`GenOK`); a revoked delegation stays embedded in the pointed generation only under
a swap that is about to re-point, or in `torn` (`StrandedOK`). Per ceremony: what an actor's
reading of the account still says when it acts. What the account has pointed at since a
pass read its history is young, and a pass never collects a young generation (`PassOK`);
what a pass read of a log it is about to delete covers every visit reported there
(`SweepOK`), because a condemned generation takes no more visits; a retired credential is
carried only by a swap whose pointer entry will be refused (`CarryOK`). `unread`,
`overtaken` and `torn` in these properties are not
escapes added for the proof: they name the three documented windows of section 3, and TLC
shows the properties fail without them. The assumption that the set of clients is finite
and fits the bound on events is what keeps an initial account inside the bounds.

`AccountGenesisProofs` (assumes `GenesisAssumption`):

| Theorem | States |
| --- | --- |
| `TypeCorrect` | `Spec => []TypeOK` |
| `KeysFollowRoster` | `Spec => []KeyedByRoster` |
| `PointerAnswers` | `Spec => []PointerIsReachable` |
| `BoundStaysWhole` | `Spec => []BoundIsWhole` |

A roster, an epoch and a pointer once written stay while any ceremony is in flight, so what
a ceremony read of them still holds when it acts. `JobOK` says so stage by stage: past the
roster stage the roster is the one the ceremony read, past the epochs every collection is
keyed and the ceremony holds the roster's key, at the pointer the annex answers to the DID.
`AccountInv` says of the account what no ceremony holds any more once it is over: a
credential-anchored account whose pointer is set is whole, or has lost its roster since.

`LadderProofs` (assumes `OwnerAssumption`, `LadderAssumption`):

| Theorem | States |
| --- | --- |
| `TypeCorrect` | `Spec => []TypeOK` |
| `ReportsReadBack` | `Spec => []ReportReadBack` |

A finished recovery is read back by computing its report again over the log before the
entry that authorizes the successor. What the walks of `LadderLog` claim over that log need
not be known for it: they were run over the very same log when the entry was made. What has
to be shown is that it is the same log, and that the recomputation takes the same branches.

* The same log: until its spend is finished a successor is nowhere in the log (`Pending`),
  so the spend's own entry is the first to authorize it, and a log that grows keeps the
  prefix (`ReadsBackKept`).
* The same branches: `recoverySpendRetirementFromLog` strikes what earlier attempts left
  only where `credentialLadderAnchored` finds the code anchored and its rung authorized,
  while the run that published had no such test. So every code whose rung 0 was ever
  committed and whose member was ever seen must be anchored in its last standing run
  (`CodesAnchored`). That holds for an issued code because its hash comes while the member
  stands, or with it (`AnchoredStanding`); and for a replacement because the add-and-retire
  entry that installs it drops the very key whose entry committed it
  (`AnchoredReplacing`, `CommittedByRetiredSigner` in the code).
* For the second half a replacement must be one code's: every spend that names it spends
  that code, and only that code's rung signs its hash into the log (`Reserved`). A spend
  about to publish over the head finds both its rung and the replacement's hash there
  (`Held`), whatever came between its two entries.

The invariant also says where what stands in the log came from (`HashesCame`, `KeysCame`,
`CredsJoined`) and whose key signs what a ceremony publishes (`Shaped`). Most steps publish
an entry that commits no code's rung, adds no code's member and names no pending successor
(`Plain`); one lemma covers them all (`PlainKeeps`), and only an issue and the two entries
of a spend need their own argument. `Without`, the filter the entries are edited with, is a
recursive function; `WithoutIs` says what it returns, again by a first counterexample.

Only model-checked, and why:

* all liveness (`RequestServed`, `Converges`, `ProjectionFollows`, `CascadeSettles`,
  `TornIsMended`), which is out of the prover's reach;
* `LogResolves` of `AccountLog` after a rollback of the host (above);
* `SurvivorsIntact`, `RetiredOwnsNothing`, `ReadingIsOwn` and `SpendLeavesNoOrphans` of
  `Ladder`. They rest on what the readings of `LadderLog` claim, folds over the whole log
  that carry a claim from entry to entry; what such a fold computes for every log is an
  induction over data. `AccountLog`'s attribution is a recursive function as well, but what
  it must return can be said position by position, so that a first counterexample does; a
  rung's claim depends on everything claimed before it, and no such statement has been
  found yet.

## 5. What is not modelled

The components with status `not_modelled` in `PROJECT.json`, each with its reason. Most
are constructions, codecs and adapters without state. The exception is the re-mint of
pending rows (`sync/remint.ts`): what it may do to a row depends on the cipher the host
hands in, which is not in this repository; the engine model orders the call and lets it
fail.

Within the modelled parts: cryptography (a key opens what is wrapped to it and nothing
else; hashes are injective), payload contents, resolution and signature checks of the DID
method library, the construction and chain checks of capabilities, `keys.json`, the
resource logs' own chains, their seals and minimum controller version, the single use of
a license, and the KMS stage of the genesis. Of the annex: replica-server pointers, the
replacement of a lost auxiliary Space, expiry of delegations, and the strike and reinstall
of the ladder method in the last forget. Of the mend: its arm for a Space a sibling
named, and keystore promotion. Each is also named in the note of its component.

## 6. Plan

Done: the sync engine with its contract; replication; the account log for enrolled
clients; the key cascade with the forget; connections; the ladders, recovery and the append
license; the annex; account genesis and mending. Compositions are by abstraction:
`KeyCascade`, `Annex` and `AccountGenesis` each take an account-log edit as one step, whose
parts are `AccountLog`'s and `Ladder`'s. For the ceremonies of enrolled clients that step is
the refinement of `AccountClients`.

Proved: section 4. Left to prove:

- `Ladder`: `SurvivorsIntact` and `RetiredOwnsNothing`, if the readings of `LadderLog` can
  be given a meaning entry by entry as `Told` does for the clients' keys.

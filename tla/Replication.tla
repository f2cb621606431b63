---------------------------- MODULE Replication ----------------------------
(***************************************************************************)
(* The push and pull loops of the replication engine (sync/push.ts,        *)
(* sync/pull.ts, sync/contactsConflict.ts): several replicas of one        *)
(* collection against one server feed. Every request, every reply and      *)
(* every store transaction is a step of its own, so local writes, other    *)
(* replicas and lost replies fall in between.                              *)
(*                                                                         *)
(* A payload is a number; its order is the last-write-wins order of the    *)
(* (updatedAt, writerId) pair sealed inside it. An insert-only collection  *)
(* is content-addressed, so every replica that has a document has the same *)
(* payload of it. An ETag is the server clock of the write, 0 where there  *)
(* is none. The store is the repository's reference store.                 *)
(***************************************************************************)
EXTENDS Naturals, FiniteSets

CONSTANTS
    Client, Doc,
    Payload,        \* a set of naturals larger than 0
    Opaque,         \* [Client -> SUBSET Payload]: what a replica holds no key for
    BatchSize,      \* the page size the server grants
    MaxClock,       \* bound: server writes
    Setups          \* the collections looked at: the kind ("heads":
                    \* last-write-wins heads; "inserts": insert-only) and,
                    \* as bounds, the documents, the payloads, the
                    \* replicas that delete and the failed or lost
                    \* exchanges

ASSUME PayloadAssumption == Payload \subseteq Nat \ {0}
ASSUME OpaqueAssumption == Opaque \in [Client -> SUBSET Payload]
ASSUME SizeAssumption ==
    /\ BatchSize \in Nat \ {0} /\ MaxClock \in Nat
    /\ Setups \subseteq [kind : {"heads", "inserts"}, docs : SUBSET Doc,
                         payloads : SUBSET Payload, deleters : SUBSET Client,
                         faults : Nat]

None == 0           \* no payload, no ETag
NoDoc == "none"     \* no document in flight
ASSUME NoDocAssumption == NoDoc \notin Doc

VARIABLES
    server,     \* [Doc -> [tick, deleted, data, writer]]; tick 0: absent
    clock,      \* server writes so far
    rows,       \* [Client -> [Doc -> a SyncedResourceReplica]]
    projection, \* [Client -> [Doc -> the decrypted payload shown, or None]]
    checkpoint, \* [Client -> feed position]
    phase,      \* [Client -> "idle" | "push" | "pull"]
    snap,       \* [Client -> rows as runPush read them]
    todo,       \* [Client -> snapshot ids not pushed yet]
    busy,       \* [Client -> the document an exchange is about, or NoDoc]
    reply,      \* [Client -> what the last request answered]
    page,       \* [Client -> pulled documents not applied yet]
    used,       \* payloads already written somewhere
    setup,      \* which of Setups this collection is, for good
    faults

vars == <<server, clock, rows, projection, checkpoint, phase, snap, todo,
          busy, reply, page, used, setup, faults>>
remote == <<server, clock>>
local == <<rows, projection, checkpoint>>
cycle == <<phase, snap, todo>>
exchange == <<busy, reply>>

-----------------------------------------------------------------------------
ServerDoc == [tick : Nat, deleted : BOOLEAN, data : Payload \cup {None},
              writer : Client \cup {NoDoc}]
Row == [exists : BOOLEAN, acked : BOOLEAN, etag : Nat, deleted : BOOLEAN,
        data : Payload \cup {None}, dirty : BOOLEAN, revision : Nat]
ReplyKind == {"none", "ack", "conflict", "gone", "master", "deleteAck",
              "deleteConflict", "deleteMaster", "retryConflict"}
Reply == [kind : ReplyKind, etag : Nat, data : Payload \cup {None}]

NoReply == [kind |-> "none", etag |-> None, data |-> None]
NoRow == [exists |-> FALSE, acked |-> FALSE, etag |-> None, deleted |-> FALSE,
          data |-> None, dirty |-> FALSE, revision |-> 0]

TypeOK ==
    /\ server \in [Doc -> ServerDoc] /\ clock \in 0..MaxClock
    /\ rows \in [Client -> [Doc -> Row]]
    /\ projection \in [Client -> [Doc -> Payload \cup {None}]]
    /\ checkpoint \in [Client -> 0..clock]
    /\ phase \in [Client -> {"idle", "push", "pull"}]
    /\ snap \in [Client -> [Doc -> Row]] /\ todo \in [Client -> SUBSET Doc]
    /\ busy \in [Client -> Doc \cup {NoDoc}] /\ reply \in [Client -> Reply]
    /\ \A c \in Client : DOMAIN page[c] \subseteq Doc
    /\ setup \in Setups
    /\ used \subseteq Payload /\ faults \in 0..setup.faults

Mutable == setup.kind = "heads"
NoPage == [d \in {} |-> NoReply]

Init ==
    /\ server = [d \in Doc |-> [tick |-> 0, deleted |-> FALSE, data |-> None,
                                writer |-> NoDoc]]
    /\ clock = 0
    /\ rows = [c \in Client |-> [d \in Doc |-> NoRow]]
    /\ projection = [c \in Client |-> [d \in Doc |-> None]]
    /\ checkpoint = [c \in Client |-> 0]
    /\ phase = [c \in Client |-> "idle"]
    /\ snap = rows
    /\ todo = [c \in Client |-> {}]
    /\ busy = [c \in Client |-> NoDoc]
    /\ reply = [c \in Client |-> NoReply]
    /\ page = [c \in Client |-> NoPage]
    /\ used = {} /\ faults = 0
    /\ setup \in Setups

-----------------------------------------------------------------------------
(* The host writes into its replica at any time. *)

SetRow(c, d, row) == rows' = [rows EXCEPT ![c][d] = row]
Show(c, d, p) == projection' = [projection EXCEPT ![c][d] = p]

\* What a content-addressed id stands for.
Envelope == CHOOSE p \in setup.payloads : \A b \in Client : p \notin Opaque[b]

\* A new document: a head gets a fresh id; a content-addressed one may be
\* added on several replicas (a restored backup carries the same envelope).
LocalCreate(c, d, p) ==
    /\ d \in setup.docs /\ ~rows[c][d].exists
    /\ IF Mutable
       THEN /\ p \in setup.payloads \ (used \cup Opaque[c])
            /\ server[d].tick = 0 /\ \A b \in Client : ~rows[b][d].exists
       ELSE p = Envelope
    /\ used' = used \cup {p}
    /\ SetRow(c, d, [NoRow EXCEPT !.exists = TRUE, !.data = p, !.dirty = TRUE,
                                  !.revision = 1])
    /\ Show(c, d, p)
    /\ UNCHANGED <<remote, checkpoint, cycle, exchange, page, faults>>

\* An in-place edit of a live head, stamped after the version it edits.
LocalEdit(c, d, p) ==
    /\ Mutable
    /\ rows[c][d].exists /\ ~rows[c][d].deleted
    /\ p \in setup.payloads \ (used \cup Opaque[c]) /\ p > rows[c][d].data
    /\ used' = used \cup {p}
    /\ SetRow(c, d, [rows[c][d] EXCEPT !.data = p, !.dirty = TRUE,
                                       !.revision = @ + 1])
    /\ Show(c, d, p)
    /\ UNCHANGED <<remote, checkpoint, cycle, exchange, page, faults>>

LocalDelete(c, d) ==
    /\ c \in setup.deleters
    /\ rows[c][d].exists /\ ~rows[c][d].deleted
    /\ SetRow(c, d, [rows[c][d] EXCEPT !.deleted = TRUE, !.data = None,
                                       !.dirty = TRUE, !.revision = @ + 1])
    /\ Show(c, d, None)
    /\ UNCHANGED <<remote, checkpoint, cycle, exchange, page, used, faults>>

-----------------------------------------------------------------------------
(* The server: conditional writes on one document. *)

\* putContent with If-None-Match: * for a never-acked replica, If-Match over
\* the stored ETag otherwise (unconditional where the replica has none). A
\* tombstone still occupies its id.
PutAccepted(row, doc) ==
    IF row.acked THEN row.etag \in {None, doc.tick} ELSE doc.tick = 0

StoreWrite(d, deleted, data, c) ==
    /\ clock < MaxClock
    /\ clock' = clock + 1
    /\ server' = [server EXCEPT ![d] = [tick |-> clock + 1,
                     deleted |-> deleted, data |-> data, writer |-> c]]

Answer(c, d, kind, etag, data) ==
    /\ busy' = [busy EXCEPT ![c] = d]
    /\ reply' = [reply EXCEPT ![c] = [kind |-> kind, etag |-> etag,
                                      data |-> data]]

\* The exchange about one snapshot entry is over.
Settled(c) ==
    /\ todo' = [todo EXCEPT ![c] = @ \ {busy[c]}]
    /\ busy' = [busy EXCEPT ![c] = NoDoc]
    /\ reply' = [reply EXCEPT ![c] = NoReply]
    /\ UNCHANGED <<phase, snap>>

-----------------------------------------------------------------------------
(* runPush: one snapshot of the dirty rows, pushed one after the other. *)

BeginPush(c) ==
    /\ phase[c] = "idle"
    /\ phase' = [phase EXCEPT ![c] = "push"]
    /\ snap' = [snap EXCEPT ![c] = rows[c]]
    /\ todo' = [todo EXCEPT ![c] = {d \in Doc : rows[c][d].dirty}]
    /\ UNCHANGED <<remote, local, exchange, page, used, faults>>

\* pushUpsert's request reaches the server.
PutContent(c, d) ==
    /\ phase[c] = "push" /\ busy[c] = NoDoc
    /\ d \in todo[c] /\ ~snap[c][d].deleted
    /\ IF PutAccepted(snap[c][d], server[d])
       THEN /\ StoreWrite(d, FALSE, snap[c][d].data, c)
            /\ Answer(c, d, "ack", clock + 1, None)
       ELSE /\ Answer(c, d, "conflict", None, None)
            /\ UNCHANGED remote
    /\ UNCHANGED <<local, cycle, page, used, faults>>

AckedBlindly(row, etag, revision) ==
    [row EXCEPT !.acked = TRUE,
                !.etag = IF etag = None THEN @ ELSE etag,
                !.dirty = FALSE]

\* A row acknowledged with an ETag (None: the answer carried none); it is
\* clean only if nothing was written to it since the snapshot.
Acked(row, etag, revision) ==
    [row EXCEPT !.acked = TRUE,
                !.etag = IF etag = None THEN @ ELSE etag,
                !.dirty = row.revision # revision]

\* store.markPushed
MarkPushed(c) ==
    /\ reply[c].kind = "ack"
    /\ LET d == busy[c] IN
       SetRow(c, d, Acked(rows[c][d], reply[c].etag, snap[c][d].revision))
    /\ Settled(c)
    /\ UNCHANGED <<remote, projection, checkpoint, page, used, faults>>

\* port.get after a 412: absent and tombstoned read the same (ETag None).
ReadMaster(c) ==
    /\ reply[c].kind \in {"conflict", "deleteConflict"}
    /\ LET doc == server[busy[c]]
           live == doc.tick # 0 /\ ~doc.deleted
       IN Answer(c, busy[c],
                 IF reply[c].kind = "conflict" THEN "master" ELSE "deleteMaster",
                 IF live THEN doc.tick ELSE None,
                 IF live THEN doc.data ELSE None)
    /\ UNCHANGED <<remote, local, cycle, page, used, faults>>

\* store.adoptLatest: take the server's state as it was read, or the
\* tombstone. Nothing here looks at the row's revision.
Adopted(row, etag, data) ==
    [row EXCEPT !.acked = TRUE, !.etag = etag, !.deleted = (data = None),
                !.data = data, !.dirty = FALSE]

\* pushUpsert's own settlement of an insert-only collection.
AdoptLatest(c) ==
    /\ ~Mutable /\ reply[c].kind = "master"
    /\ LET d == busy[c] IN
       /\ SetRow(c, d, Adopted(rows[c][d], reply[c].etag, reply[c].data))
       /\ IF reply[c].data = None THEN Show(c, d, None)
                                  ELSE UNCHANGED projection
    /\ Settled(c)
    /\ UNCHANGED <<remote, checkpoint, page, used, faults>>

\* resolveContactHeadConflict: a tombstone wins; of two readable heads the
\* later payload; a readable side over an unreadable one; remote otherwise.
RemoteWins(c, remoteData, localData) ==
    \/ remoteData = None \/ localData = None
    \/ localData \in Opaque[c]
    \/ remoteData \notin Opaque[c] /\ remoteData >= localData

\* The injected resolver of a mutable collection decides on the snapshot's
\* body and adopts the master, or keeps the local body for a re-push over
\* the master's ETag.
ResolveConflict(c) ==
    /\ Mutable /\ reply[c].kind = "master"
    /\ LET d == busy[c]
           theirs == reply[c].data
       IN IF RemoteWins(c, theirs, snap[c][d].data)
          THEN /\ SetRow(c, d, Adopted(rows[c][d], reply[c].etag, theirs))
               /\ IF theirs \in Opaque[c] THEN UNCHANGED projection
                                          ELSE Show(c, d, theirs)
          ELSE /\ SetRow(c, d, [rows[c][d] EXCEPT !.acked = TRUE,
                                                  !.etag = reply[c].etag])
               /\ UNCHANGED projection
    /\ Settled(c)
    /\ UNCHANGED <<remote, checkpoint, page, used, faults>>

\* tryDelete's request: 404 where there is nothing live, 412 on a stale ETag.
DeleteContent(c, d, ifMatch, onStale) ==
    IF server[d].tick = 0 \/ server[d].deleted
    THEN Answer(c, d, "gone", None, None) /\ UNCHANGED remote
    ELSE IF ifMatch \notin {None, server[d].tick}
    THEN Answer(c, d, onStale, None, None) /\ UNCHANGED remote
    ELSE StoreWrite(d, TRUE, None, c)
         /\ Answer(c, d, "deleteAck", clock + 1, None)

\* pushDelete's first attempt.
PushDelete(c, d) ==
    /\ phase[c] = "push" /\ busy[c] = NoDoc
    /\ d \in todo[c] /\ snap[c][d].deleted
    /\ DeleteContent(c, d,
           IF snap[c][d].acked THEN snap[c][d].etag ELSE None, "deleteConflict")
    /\ UNCHANGED <<local, cycle, page, used, faults>>

\* The master was live: the second attempt carries its ETag.
RetryDelete(c) ==
    /\ reply[c].kind = "deleteMaster" /\ reply[c].etag # None
    /\ DeleteContent(c, busy[c], reply[c].etag, "retryConflict")
    /\ UNCHANGED <<local, cycle, page, used, faults>>

\* store.markDeletedPushed: settled by the ack, a 404, or a master already
\* gone; a row rewritten meanwhile keeps its new state and stays dirty.
MarkDeletedPushed(c) ==
    /\ \/ reply[c].kind \in {"deleteAck", "gone"}
       \/ reply[c].kind = "deleteMaster" /\ reply[c].etag = None
    /\ LET d == busy[c] IN
       SetRow(c, d, Acked(rows[c][d], reply[c].etag, snap[c][d].revision))
    /\ Settled(c)
    /\ UNCHANGED <<remote, projection, checkpoint, page, used, faults>>

\* The second 412 leaves the row dirty for the next cycle.
GiveUpDelete(c) ==
    /\ reply[c].kind = "retryConflict"
    /\ Settled(c)
    /\ UNCHANGED <<remote, local, page, used, faults>>

EndPush(c) ==
    /\ phase[c] = "push" /\ todo[c] = {} /\ busy[c] = NoDoc
    /\ phase' = [phase EXCEPT ![c] = "pull"]
    /\ UNCHANGED <<remote, local, snap, todo, exchange, page, used, faults>>

-----------------------------------------------------------------------------
(* runPull: pages of the change feed, each applied in one transaction. *)

\* The feed after a position: each document once, at its latest write.
After(position) == {d \in Doc : server[d].tick > position}
FirstPage(position) ==
    {d \in After(position) :
        Cardinality({e \in After(position) : server[e].tick < server[d].tick})
            < BatchSize}

\* heldEchoes: a live document of our own writing at the ETag the row has.
Held(c, d) ==
    /\ ~server[d].deleted /\ server[d].writer = c
    /\ rows[c][d].exists /\ rows[c][d].etag = server[d].tick

\* port.query, the held check and the decryption, outside any transaction.
Query(c) ==
    /\ phase[c] = "pull" /\ page[c] = NoPage
    /\ After(checkpoint[c]) # {}
    /\ page' = [page EXCEPT ![c] =
                  [d \in FirstPage(checkpoint[c]) |->
                     [doc |-> server[d],
                      project |-> ~Held(c, d) /\ ~server[d].deleted
                                  /\ server[d].data \notin Opaque[c]]]]
    /\ UNCHANGED <<remote, local, cycle, exchange, used, faults>>

\* The pull-apply table, one document: a tombstone wins; a pending local
\* write keeps its body and takes the ETag; anything else is the document.
Pulled(row, doc) ==
    IF doc.deleted
    THEN [row EXCEPT !.exists = TRUE, !.acked = TRUE, !.etag = doc.tick,
                     !.deleted = TRUE, !.data = None, !.dirty = FALSE]
    ELSE IF row.dirty
    THEN [row EXCEPT !.acked = TRUE, !.etag = doc.tick]
    ELSE [row EXCEPT !.exists = TRUE, !.acked = TRUE, !.etag = doc.tick,
                     !.deleted = FALSE, !.data = doc.data]

\* The projection action of one document of the page.
ProjectedOverDirty(row, got, shown) ==
    IF got.doc.deleted THEN None
    ELSE IF got.project THEN got.doc.data ELSE shown
Projected(row, got, shown) ==
    IF got.doc.deleted THEN None
    ELSE IF got.project /\ ~row.dirty THEN got.doc.data ELSE shown

\* The resume position a page comes with: that of its last document.
FeedEnd(got) == clock
PageEnd(got) ==
    CHOOSE t \in {got[d].doc.tick : d \in DOMAIN got} :
        \A d \in DOMAIN got : got[d].doc.tick <= t

\* store.applyPulledPage: rows, projections and the checkpoint together.
ApplyPulledPage(c) ==
    /\ page[c] # NoPage
    /\ LET got == page[c] IN
       /\ rows' = [rows EXCEPT ![c] = [d \in Doc |->
             IF d \in DOMAIN got THEN Pulled(rows[c][d], got[d].doc)
                                 ELSE rows[c][d]]]
       /\ projection' = [projection EXCEPT ![c] = [d \in Doc |->
             IF d \in DOMAIN got
             THEN Projected(rows[c][d], got[d], projection[c][d])
             ELSE projection[c][d]]]
       /\ checkpoint' = [checkpoint EXCEPT ![c] = PageEnd(got)]
    /\ page' = [page EXCEPT ![c] = NoPage]
    /\ UNCHANGED <<remote, cycle, exchange, used, faults>>

\* An empty page: caught up, the checkpoint is kept and the cycle ends.
CaughtUp(c) ==
    /\ phase[c] = "pull" /\ page[c] = NoPage
    /\ After(checkpoint[c]) = {}
    /\ phase' = [phase EXCEPT ![c] = "idle"]
    /\ UNCHANGED <<remote, local, snap, todo, exchange, page, used, faults>>

\* Any exchange may fail, before or after it reached the server, and a stop
\* or a crash may end a cycle anywhere: what it held in memory is gone.
CycleFails(c) ==
    /\ phase[c] # "idle"
    /\ faults < setup.faults
    /\ faults' = faults + 1
    /\ phase' = [phase EXCEPT ![c] = "idle"]
    /\ todo' = [todo EXCEPT ![c] = {}]
    /\ busy' = [busy EXCEPT ![c] = NoDoc]
    /\ reply' = [reply EXCEPT ![c] = NoReply]
    /\ page' = [page EXCEPT ![c] = NoPage]
    /\ UNCHANGED <<remote, local, snap, used>>

-----------------------------------------------------------------------------
LocalWrite(c) ==
    \E d \in Doc : \/ \E p \in Payload : LocalCreate(c, d, p) \/ LocalEdit(c, d, p)
                   \/ LocalDelete(c, d)
CycleAction(c) ==
    \/ BeginPush(c) \/ MarkPushed(c) \/ ReadMaster(c) \/ AdoptLatest(c)
    \/ ResolveConflict(c) \/ RetryDelete(c) \/ MarkDeletedPushed(c)
    \/ GiveUpDelete(c) \/ EndPush(c)
    \/ \E d \in Doc : PutContent(c, d) \/ PushDelete(c, d)
    \/ Query(c) \/ ApplyPulledPage(c) \/ CaughtUp(c)

CycleStep(c) == CycleAction(c) /\ UNCHANGED setup

Next ==
    /\ \E c \in Client : LocalWrite(c) \/ CycleAction(c) \/ CycleFails(c)
    /\ UNCHANGED setup

\* Fairness: the app keeps triggering cycles and every exchange ends.
Spec == Init /\ [][Next]_vars /\ \A c \in Client : WF_vars(CycleStep(c))

-----------------------------------------------------------------------------
(* Properties. *)

Same(row, doc) == row.deleted = doc.deleted /\ row.data = doc.data

\* The replica never mistakes its own copy for the server's: a clean row
\* that carries the server's current ETag holds exactly the server's state,
\* however many local writes landed while its push was in flight.
CleanMatchesServer ==
    \A c \in Client, d \in Doc :
        LET row == rows[c][d] IN
        ~row.dirty /\ row.etag # None /\ row.etag = server[d].tick
            => Same(row, server[d])

\* The checkpoint covers what it passed: every write of the feed at or below
\* a replica's checkpoint is in the replica, unless a local write is pending
\* over it. Lost replies, failed cycles and page limits skip nothing.
CheckpointCoversFeed ==
    \A c \in Client, d \in Doc :
        server[d].tick \in 1..checkpoint[c]
            => /\ rows[c][d].exists
               /\ rows[c][d].dirty \/ Same(rows[c][d], server[d])

\* Everything a replica holds and shows is the server's state.
InSync(c, d) ==
    /\ ~rows[c][d].dirty
    /\ server[d].tick # 0 =>
         /\ rows[c][d].exists /\ Same(rows[c][d], server[d])

Shown(c, d) ==
    server[d].tick # 0 =>
        \/ server[d].data \in Opaque[c]
        \/ projection[c][d] = server[d].data

\* Once the writes stop, every replica's rows end up equal to the server's,
\* whatever was lost, retried or resolved on the way. What the replicas of a
\* mutable collection show converges too: skipping the decryption of an
\* engine's own echoes never leaves a stale projection behind. (An insert-only
\* collection that drops a delete, LocalWriteSettled below, keeps showing it
\* as deleted.)
Converges ==
    <>[](\A c \in Client, d \in Doc :
            InSync(c, d) /\ (Mutable => Shown(c, d)))

\* A local write is settled by the server having it or by a deletion, never
\* dropped: a row goes from dirty to clean keeping its state, or as a
\* tombstone.
LocalWriteSettled ==
    [][\A c \in Client, d \in Doc :
          rows[c][d].dirty /\ ~rows'[c][d].dirty
            => rows'[c][d].deleted \/ rows'[c][d].data = rows[c][d].data]_vars
=============================================================================

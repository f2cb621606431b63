-------------------------- MODULE ReplicationProofs --------------------------
(***************************************************************************)
(* Proofs about Replication, for any number of replicas, documents,        *)
(* payloads and faults and any page size.                                  *)
(***************************************************************************)
EXTENDS Replication, TLAPS, FiniteSetTheorems, WellFoundedInduction

(***************************************************************************)
(* The inductive invariant.  Every write of the server has a clock value   *)
(* of its own, so a copy with the server's value is the server's state,    *)
(* and a copy taken before a write has a smaller one.                      *)
(***************************************************************************)
\* A tombstone carries no payload, a live document one.
ServerOK(d) ==
    /\ server[d].tick <= clock
    /\ server[d].deleted => server[d].tick # 0 /\ server[d].data = None
    /\ server[d].tick # 0 /\ ~server[d].deleted => server[d].data # None

\* A body as a replica keeps it: a live one that the server acknowledged has
\* an ETag, and not that of a tombstone.
BodyOK(row, d) ==
    /\ row.exists /\ (row.deleted <=> row.data = None)
    /\ row.etag <= server[d].tick
    /\ ~row.deleted /\ row.acked => row.etag # None
    /\ ~row.deleted /\ row.etag # None /\ row.etag = server[d].tick
         => ~server[d].deleted

RowOK(c, d) ==
    \/ rows[c][d] = NoRow
    \/ BodyOK(rows[c][d], d)

\* A document the push has still to settle: its row is pending, and is the
\* snapshot's until a local write comes in between.
SnapOK(c, d) ==
    d \in todo[c] =>
        /\ rows[c][d].exists /\ rows[c][d].dirty
        /\ snap[c][d].revision <= rows[c][d].revision
        /\ snap[c][d].revision = rows[c][d].revision => rows[c][d] = snap[c][d]
        /\ snap[c][d].deleted => rows[c][d].deleted
        /\ BodyOK(snap[c][d], d)

\* The stages of a cycle, and what is in flight at each.
CycleOK(c) ==
    /\ todo[c] # {} \/ busy[c] # NoDoc => phase[c] = "push"
    /\ busy[c] # NoDoc => busy[c] \in todo[c]
    /\ busy[c] = NoDoc <=> reply[c].kind = "none"
    /\ page[c] # NoPage => phase[c] = "pull"

\* What c reads of d is behind c's checkpoint or is the server's state.
Newer(c, d) == server[d].tick = 0 \/ server[d].tick > checkpoint[c]
GoneOK(c, d) == server[d].deleted \/ (rows[c][d].etag = None /\ Newer(c, d))

AckOK(c, d) ==
    /\ reply[c].etag > checkpoint[c] /\ reply[c].etag <= server[d].tick
    /\ reply[c].etag = server[d].tick =>
         /\ server[d].deleted = snap[c][d].deleted
         /\ server[d].data = snap[c][d].data

MasterOK(c, d) ==
    /\ reply[c].etag = None <=> reply[c].data = None
    /\ reply[c].etag = None => server[d].deleted \/ Newer(c, d)
    /\ reply[c].etag # None =>
         /\ reply[c].etag <= server[d].tick
         /\ IF reply[c].etag = server[d].tick
            THEN ~server[d].deleted /\ server[d].data = reply[c].data
            ELSE Newer(c, d)

DeleteReplies == {"deleteAck", "gone", "deleteConflict", "deleteMaster",
                  "retryConflict"}

ReplyOK(c) ==
    \A d \in Doc : d = busy[c] =>
        /\ snap[c][d].deleted <=> reply[c].kind \in DeleteReplies
        /\ reply[c].kind \in {"ack", "deleteAck"} => AckOK(c, d)
        /\ reply[c].kind = "master" => MasterOK(c, d)
        /\ reply[c].kind = "gone" => reply[c].etag = None /\ GoneOK(c, d)
        /\ reply[c].kind = "deleteMaster" /\ reply[c].etag = None => GoneOK(c, d)

\* A page in memory: documents past the checkpoint, as the server has or had
\* them, and every one the server still has up to the page's end.
Got == [doc : ServerDoc, project : BOOLEAN]
PageTyped(c) == DOMAIN page[c] \subseteq Doc /\ page[c] \in [DOMAIN page[c] -> Got]
PageOK(c) ==
    /\ \A d \in DOMAIN page[c] :
         LET doc == page[c][d].doc IN
         /\ doc.tick > checkpoint[c] /\ doc.tick <= server[d].tick
         /\ doc.tick = server[d].tick => doc = server[d]
         /\ doc.deleted <=> doc.data = None
    /\ page[c] # NoPage =>
         /\ PageEnd(page[c]) \in 0..clock
         /\ \A d \in Doc :
              server[d].tick > checkpoint[c] /\ server[d].tick <= PageEnd(page[c])
                => d \in DOMAIN page[c] /\ page[c][d].doc = server[d]

\* CleanMatchesServer and CheckpointCoversFeed, one row.
CleanRow(row, d) ==
    ~row.dirty /\ row.etag # None /\ row.etag = server[d].tick
        => Same(row, server[d])
CoverRow(c, row, d) ==
    server[d].tick \in 1..checkpoint[c]
        => row.exists /\ (row.dirty \/ Same(row, server[d]))

PagesTyped == page = [c \in Client |-> page[c]] /\ \A c \in Client : PageTyped(c)
Types == TypeOK /\ PagesTyped
CellOK(c, d) ==
    /\ RowOK(c, d) /\ SnapOK(c, d)
    /\ CleanRow(rows[c][d], d) /\ CoverRow(c, rows[c][d], d)
ReplicaOK(c) == CycleOK(c) /\ ReplyOK(c) /\ PageOK(c)

\* The feed is finite, whatever the set of ids: one write per clock value.
Feed == {d \in Doc : server[d].tick # 0}

Core ==
    /\ \A d \in Doc : ServerOK(d)
    /\ IsFiniteSet(Feed)
    /\ \A c \in Client, d \in Doc : CellOK(c, d)
    /\ \A c \in Client : ReplicaOK(c)
IInv == Types /\ Core

(***************************************************************************)
(* Types                                                                   *)
(***************************************************************************)
\* What the push makes of a row is a row.
LEMMA AckedTyped ==
    ASSUME NEW row \in Row, NEW etag \in Nat, NEW revision
    PROVE  /\ Acked(row, etag, revision) \in Row
           /\ Acked(row, etag, revision).exists = row.exists
           /\ Acked(row, etag, revision).acked
           /\ Acked(row, etag, revision).deleted = row.deleted
           /\ Acked(row, etag, revision).data = row.data
           /\ Acked(row, etag, revision).revision = row.revision
           /\ Acked(row, etag, revision).etag = IF etag = None THEN row.etag ELSE etag
           /\ Acked(row, etag, revision).dirty <=> row.revision # revision
<1> DEFINE dirty == row.revision # revision
<1>1. dirty \in BOOLEAN
  BY Zenon
<1>2. Acked(row, etag, revision) =
        [row EXCEPT !.acked = TRUE, !.etag = IF etag = None THEN @ ELSE etag,
                    !.dirty = dirty]
  BY DEF Acked
<1> HIDE DEF dirty
<1>3. /\ Acked(row, etag, revision) \in Row
      /\ Acked(row, etag, revision).exists = row.exists
      /\ Acked(row, etag, revision).acked
      /\ Acked(row, etag, revision).deleted = row.deleted
      /\ Acked(row, etag, revision).data = row.data
      /\ Acked(row, etag, revision).revision = row.revision
      /\ Acked(row, etag, revision).etag = IF etag = None THEN row.etag ELSE etag
      /\ Acked(row, etag, revision).dirty = dirty
  BY <1>1, <1>2 DEF Row
<1> QED
  BY <1>3 DEF dirty

\* So is what adoptLatest makes of it.
LEMMA AdoptedTyped ==
    ASSUME NEW row \in Row, NEW etag \in Nat, NEW data \in Payload \cup {None}
    PROVE  /\ Adopted(row, etag, data) \in Row
           /\ Adopted(row, etag, data).exists = row.exists
           /\ Adopted(row, etag, data).acked
           /\ Adopted(row, etag, data).deleted <=> data = None
           /\ Adopted(row, etag, data).data = data
           /\ Adopted(row, etag, data).etag = etag
           /\ ~Adopted(row, etag, data).dirty
<1> DEFINE gone == (data = None)
<1>1. gone \in BOOLEAN
  BY Zenon
<1>2. Adopted(row, etag, data) =
        [row EXCEPT !.acked = TRUE, !.etag = etag, !.deleted = gone,
                    !.data = data, !.dirty = FALSE]
  BY DEF Adopted
<1> HIDE DEF gone
<1>3. /\ Adopted(row, etag, data) \in Row
      /\ Adopted(row, etag, data).exists = row.exists
      /\ Adopted(row, etag, data).acked
      /\ Adopted(row, etag, data).deleted = gone
      /\ Adopted(row, etag, data).data = data
      /\ Adopted(row, etag, data).etag = etag
      /\ ~Adopted(row, etag, data).dirty
  BY <1>1, <1>2 DEF Row
<1> QED
  BY <1>3 DEF gone

\* And what the pull-apply table makes of it.
LEMMA PulledTyped ==
    ASSUME NEW row \in Row, NEW doc \in ServerDoc
    PROVE  /\ Pulled(row, doc) \in Row
           /\ Pulled(row, doc).acked
           /\ Pulled(row, doc).etag = doc.tick
           /\ doc.deleted => /\ Pulled(row, doc).exists /\ Pulled(row, doc).deleted
                             /\ Pulled(row, doc).data = None
                             /\ ~Pulled(row, doc).dirty
           /\ ~doc.deleted /\ row.dirty =>
                /\ Pulled(row, doc).exists = row.exists /\ Pulled(row, doc).dirty
                /\ Pulled(row, doc).deleted = row.deleted
                /\ Pulled(row, doc).data = row.data
           /\ ~doc.deleted /\ ~row.dirty =>
                /\ Pulled(row, doc).exists /\ ~Pulled(row, doc).deleted
                /\ Pulled(row, doc).data = doc.data /\ ~Pulled(row, doc).dirty
<1> USE DEF ServerDoc, None
<1>1. CASE doc.deleted
  BY <1>1 DEF Pulled, Row
<1>2. CASE ~doc.deleted /\ row.dirty
  BY <1>2 DEF Pulled, Row
<1>3. CASE ~doc.deleted /\ ~row.dirty
  BY <1>3 DEF Pulled, Row
<1> QED
  BY <1>1, <1>2, <1>3

\* What a local edit and a local deletion make of it.
LEMMA EditedTyped ==
    ASSUME NEW row \in Row, NEW p \in Payload
    PROVE  LET new == [row EXCEPT !.data = p, !.dirty = TRUE, !.revision = @ + 1]
           IN  /\ new \in Row /\ new.dirty = TRUE /\ new.exists = row.exists
               /\ new.data = p /\ new.deleted = row.deleted /\ new.acked = row.acked
               /\ new.etag = row.etag /\ new.revision = row.revision + 1
               /\ row.revision \in Nat
<1> DEFINE n == row.revision + 1
<1>1. n \in Nat /\ row.revision \in Nat
  BY DEF Row
<1> HIDE DEF n
<1> DEFINE new == [row EXCEPT !.data = p, !.dirty = TRUE, !.revision = n]
<1>2. /\ new \in Row
  BY <1>1 DEF Row
<1>3. new.dirty = TRUE /\ new.data = p  /\ new.revision = n
  BY <1>1 DEF Row
<1>4. /\ new.deleted = row.deleted /\ new.acked = row.acked
      /\ new.etag = row.etag /\ new.exists = row.exists
  BY <1>1 DEF Row
<1> QED
  BY <1>1, <1>2, <1>3, <1>4 DEF n

\* A row deleted locally is a row: the tombstone is dirty, empty and one revision on.
LEMMA DeletedTyped ==
    ASSUME NEW row \in Row
    PROVE  LET new == [row EXCEPT !.deleted = TRUE, !.data = None,
                                  !.dirty = TRUE, !.revision = @ + 1]
           IN  /\ new \in Row /\ new.dirty = TRUE /\ new.exists = row.exists
               /\ new.data = None /\ new.deleted = TRUE /\ new.acked = row.acked
               /\ new.etag = row.etag /\ new.revision = row.revision + 1
               /\ row.revision \in Nat
<1> DEFINE n == row.revision + 1
<1>1. n \in Nat /\ row.revision \in Nat
  BY DEF Row
<1> HIDE DEF n
<1> DEFINE new == [row EXCEPT !.deleted = TRUE, !.data = None, !.dirty = TRUE,
                              !.revision = n]
<1>2. /\ new \in Row
  BY <1>1 DEF Row
<1>3. new.deleted = TRUE /\ new.dirty = TRUE /\ new.data = None /\ new.revision = n
  BY <1>1 DEF Row
<1>4. new.acked = row.acked /\ new.etag = row.etag /\ new.exists = row.exists
  BY <1>1 DEF Row
<1> QED
  BY <1>1, <1>2, <1>3, <1>4 DEF n

\* When a row is the server's document.
LEMMA SameState ==
    ASSUME NEW row \in Row, NEW doc \in ServerDoc,
           row.deleted <=> doc.deleted, row.data = doc.data
    PROVE  Same(row, doc)
  BY DEF Same, Row, ServerDoc

\* Answers and the empty answer.
LEMMA AnswerTyped ==
    ASSUME NEW kind \in ReplyKind, NEW etag \in Nat, NEW data \in Payload \cup {None}
    PROVE  [kind |-> kind, etag |-> etag, data |-> data] \in Reply
  BY DEF Reply

\* The absent reply and the absent row are typed.
LEMMA NoneTyped == NoReply \in Reply /\ NoRow \in Row /\ NoReply.kind = "none"
  BY DEF NoReply, NoRow, Reply, Row, ReplyKind, None

\* A bounded set of naturals has a largest element.
LEMMA Largest ==
    ASSUME NEW n \in Nat, NEW S, S \subseteq 0..n, S # {}
    PROVE  \E t \in S : \A s \in S : s <= t
<1> DEFINE T == {n - s : s \in S}
           R == OpToRel(<, Nat)
<1>1. T \subseteq Nat /\ T # {}
  <2>1. \A s \in S : n - s \in Nat
    OBVIOUS
  <2>2. PICK s \in S : TRUE
    OBVIOUS
  <2>3. n - s \in T
    BY <2>2
  <2> QED
    BY <2>1, <2>3
<1>2. IsWellFoundedOn(R, Nat)
  BY NatLessThanWellFounded
<1> HIDE DEF T, R
<1>3. PICK x \in T : \A y \in T : ~(<<y, x>> \in R)
  BY <1>1, <1>2, WFMin
<1>4. \A y \in T : ~(y < x)
  BY <1>1, <1>3 DEF R, OpToRel
<1>5. PICK t \in S : x = n - t
  BY <1>3 DEF T
<1>6. ASSUME NEW s \in S PROVE s <= t
  <2>1. n - s \in T
    BY DEF T
  <2> QED
    BY <1>4, <1>5, <2>1
<1> QED
  BY <1>6

(***************************************************************************)
(* Frames: what a step leaves alone keeps its invariant                    *)
(***************************************************************************)
\* A replica nothing happened to, the server included.
LEMMA Untouched ==
    ASSUME IInv, NEW c \in Client, UNCHANGED <<server, clock>>,
           rows'[c] = rows[c], checkpoint'[c] = checkpoint[c],
           phase'[c] = phase[c], snap'[c] = snap[c], todo'[c] = todo[c],
           busy'[c] = busy[c], reply'[c] = reply[c], page'[c] = page[c]
    PROVE  (\A d \in Doc : CellOK(c, d)') /\ ReplicaOK(c)'
<1>1. \A d \in Doc : CellOK(c, d)'
  <2> SUFFICES ASSUME NEW d \in Doc PROVE CellOK(c, d)'
    OBVIOUS
  <2>1. CellOK(c, d)
    BY DEF IInv, Core
  <2> QED
    BY <2>1 DEF CellOK, RowOK, SnapOK, BodyOK, CleanRow, CoverRow
<1>2. ReplicaOK(c)
  BY DEF IInv, Core
<1>3. CycleOK(c)'
  BY <1>2 DEF ReplicaOK, CycleOK
<1>4. ReplyOK(c)'
  BY <1>2 DEF ReplicaOK, ReplyOK, AckOK, MasterOK, GoneOK, Newer
<1>5. PageOK(c)'
  BY <1>2 DEF ReplicaOK, PageOK, NoPage
<1> QED
  BY <1>1, <1>3, <1>4, <1>5 DEF ReplicaOK

\* A write of the server: its clock value is beyond every copy there is.
LEMMA Written ==
    ASSUME IInv, NEW x \in Doc, NEW doc \in ServerDoc,
           doc.tick = clock + 1, server[x].deleted => doc.deleted,
           doc.deleted <=> doc.data = None,
           clock' = clock + 1, server' = [server EXCEPT ![x] = doc],
           UNCHANGED <<rows, checkpoint, phase, snap, todo, page>>
    PROVE  /\ \A d \in Doc : ServerOK(d)'
           /\ IsFiniteSet(Feed')
           /\ \A c \in Client, d \in Doc : CellOK(c, d)'
           /\ \A c \in Client : PageOK(c)'
           /\ \A c \in Client : busy'[c] = busy[c] /\ reply'[c] = reply[c]
                => CycleOK(c)' /\ ReplyOK(c)'
<1> USE DEF None
<1>1. /\ clock \in Nat /\ server \in [Doc -> ServerDoc]
      /\ \A c \in Client : checkpoint[c] \in Nat /\ checkpoint[c] <= clock
      /\ rows \in [Client -> [Doc -> Row]] /\ snap \in [Client -> [Doc -> Row]]
      /\ \A c \in Client : reply[c] \in Reply /\ PageTyped(c)
  BY DEF IInv, Types, PagesTyped, TypeOK
<1>2. \A d \in Doc : /\ server[d].tick \in Nat /\ server[d].tick <= clock
                     /\ server'[d] = IF d = x THEN doc ELSE server[d]
  BY <1>1 DEF IInv, Core, ServerOK, ServerDoc
<1>3. \A d \in Doc : ServerOK(d)'
  BY <1>1, <1>2 DEF IInv, Core, ServerOK
<1>4. \A c \in Client, d \in Doc : CellOK(c, d)'
  <2> SUFFICES ASSUME NEW c \in Client, NEW d \in Doc PROVE CellOK(c, d)'
    OBVIOUS
  <2>1. CellOK(c, d) /\ rows[c][d].etag \in Nat /\ snap[c][d].etag \in Nat
        /\ checkpoint[c] \in Nat /\ checkpoint[c] <= clock
    BY <1>1 DEF IInv, Core, Row
  <2>2. RowOK(c, d)'
    BY <1>1, <1>2, <2>1 DEF CellOK, RowOK, BodyOK, NoRow
  <2>3. SnapOK(c, d)'
    BY <1>1, <1>2, <2>1 DEF CellOK, SnapOK, BodyOK
  <2>4. CleanRow(rows[c][d], d)'
    <3>1. rows[c][d].etag <= server[d].tick
      BY <1>2, <2>1 DEF CellOK, RowOK, BodyOK, NoRow
    <3> QED
      BY <1>1, <1>2, <2>1, <3>1 DEF CellOK, CleanRow, Same
  <2>5. CoverRow(c, rows[c][d], d)'
    BY <1>1, <1>2, <2>1 DEF CellOK, CoverRow, Same
  <2> QED
    BY <2>2, <2>3, <2>4, <2>5 DEF CellOK
<1>5. ASSUME NEW c \in Client PROVE PageOK(c)'
  <2>1. PageOK(c) /\ PageTyped(c) /\ checkpoint[c] \in Nat /\ checkpoint[c] <= clock
    BY <1>1 DEF IInv, Core, ReplicaOK
  <2>2. \A d \in DOMAIN page[c] : d \in Doc /\ page[c][d].doc.tick \in Nat
    BY <2>1 DEF PageTyped, Got, ServerDoc
  <2> QED
    BY <1>1, <1>2, <2>1, <2>2 DEF PageOK, NoPage
<1>6. ASSUME NEW c \in Client, busy'[c] = busy[c], reply'[c] = reply[c]
      PROVE  CycleOK(c)' /\ ReplyOK(c)'
  <2>1. /\ CycleOK(c) /\ ReplyOK(c) /\ reply[c].etag \in Nat
        /\ checkpoint[c] \in Nat /\ checkpoint[c] <= clock
    BY <1>1 DEF IInv, Core, ReplicaOK, Reply
  <2>2. CycleOK(c)'
    BY <1>6, <2>1 DEF CycleOK
  <2>3. ReplyOK(c)'
    BY <1>1, <1>2, <1>6, <2>1 DEF ReplyOK, AckOK, MasterOK, GoneOK, Newer
  <2> QED
    BY <2>2, <2>3
<1>7. IsFiniteSet(Feed')
  <2>1. IsFiniteSet(Feed \cup {x})
    BY FS_AddElement DEF IInv, Core
  <2>2. Feed' \subseteq Feed \cup {x}
    BY <1>2 DEF Feed
  <2> QED
    BY <2>1, <2>2, FS_Subset
<1> QED
  BY <1>3, <1>4, <1>5, <1>6, <1>7

\* A step of one replica that the server has no part in: only that replica's
\* own parts are to be shown.
LEMMA OneReplica ==
    ASSUME IInv, NEW c \in Client, UNCHANGED <<server, clock>>,
           \A b \in Client \ {c} :
              /\ rows'[b] = rows[b] /\ checkpoint'[b] = checkpoint[b]
              /\ phase'[b] = phase[b] /\ snap'[b] = snap[b] /\ todo'[b] = todo[b]
              /\ busy'[b] = busy[b] /\ reply'[b] = reply[b] /\ page'[b] = page[b],
           \A d \in Doc : CellOK(c, d)', ReplicaOK(c)'
    PROVE  Core'
<1>1. \A d \in Doc : ServerOK(d)'
  BY DEF IInv, Core, ServerOK
<1>2. \A b \in Client : (\A d \in Doc : CellOK(b, d)') /\ ReplicaOK(b)'
  BY Untouched
<1>3. IsFiniteSet(Feed')
  BY DEF IInv, Core, Feed
<1> QED
  BY <1>1, <1>2, <1>3 DEF Core

\* The end of an exchange: its document's row is rewritten, or left as it is,
\* and nothing is in flight any more.
LEMMA Settlement ==
    ASSUME IInv, NEW c \in Client, busy[c] \in Doc, NEW row \in Row,
           UNCHANGED <<server, clock, checkpoint, page>>, Settled(c),
           rows' = [rows EXCEPT ![c][busy[c]] = row],
           BodyOK(row, busy[c]), CleanRow(row, busy[c]), CoverRow(c, row, busy[c])
    PROVE  Core'
<1>1. /\ rows \in [Client -> [Doc -> Row]] /\ todo \in [Client -> SUBSET Doc]
      /\ busy \in [Client -> Doc \cup {NoDoc}] /\ reply \in [Client -> Reply]
      /\ NoDoc \notin Doc
  BY NoDocAssumption DEF IInv, Types, TypeOK, NoDocAssumption
<1>2. /\ \A b \in Client \ {c} : /\ rows'[b] = rows[b] /\ todo'[b] = todo[b]
                                 /\ busy'[b] = busy[b] /\ reply'[b] = reply[b]
      /\ phase' = phase /\ snap' = snap
      /\ todo'[c] = todo[c] \ {busy[c]} /\ busy'[c] = NoDoc /\ reply'[c] = NoReply
      /\ \A d \in Doc : rows'[c][d] = IF d = busy[c] THEN row ELSE rows[c][d]
  BY <1>1 DEF Settled
<1>3. ASSUME NEW d \in Doc PROVE CellOK(c, d)'
  <2>1. CellOK(c, d)
    BY DEF IInv, Core
  <2>2. CASE d = busy[c]
    BY <1>2, <2>2 DEF CellOK, RowOK, SnapOK, BodyOK, CleanRow, CoverRow
  <2>3. CASE d # busy[c]
    BY <1>2, <2>1, <2>3 DEF CellOK, RowOK, SnapOK, BodyOK, CleanRow, CoverRow
  <2> QED
    BY <2>2, <2>3
<1>4. ReplicaOK(c)'
  <2>1. CycleOK(c) /\ PageOK(c)
    BY DEF IInv, Core, ReplicaOK
  <2>2. CycleOK(c)'
    BY <1>1, <1>2, <2>1, NoneTyped DEF CycleOK
  <2>3. ReplyOK(c)'
    BY <1>1, <1>2 DEF ReplyOK
  <2>4. PageOK(c)'
    BY <1>2, <2>1 DEF PageOK, NoPage
  <2> QED
    BY <2>2, <2>3, <2>4 DEF ReplicaOK
<1> QED
  BY <1>2, <1>3, <1>4, OneReplica

\* A local write: the row stays or becomes pending, at its ETag.
LEMMA LocalRow ==
    ASSUME IInv, NEW c \in Client, NEW x \in Doc, NEW row \in Row,
           UNCHANGED <<server, clock, checkpoint, phase, snap, todo, busy, reply, page>>,
           rows' = [rows EXCEPT ![c][x] = row],
           row.dirty, row.exists, row.etag = rows[c][x].etag,
           row.acked = rows[c][x].acked, row.deleted <=> row.data = None,
           row.revision > rows[c][x].revision,
           rows[c][x].deleted => row.deleted
    PROVE  Core'
<1>1. rows \in [Client -> [Doc -> Row]] /\ snap \in [Client -> [Doc -> Row]]
      /\ server \in [Doc -> ServerDoc]
  BY DEF IInv, Types, TypeOK
<1>2. /\ \A b \in Client \ {c} : rows'[b] = rows[b]
      /\ \A d \in Doc : rows'[c][d] = IF d = x THEN row ELSE rows[c][d]
  BY <1>1
<1>3. ASSUME NEW d \in Doc PROVE CellOK(c, d)'
  <2>1. CellOK(c, d) /\ rows[c][d] \in Row /\ snap[c][d] \in Row
        /\ server[d].tick \in Nat
    BY <1>1 DEF IInv, Core, ServerDoc
  <2>2. CASE d = x
    <3>1. RowOK(c, d)'
      BY <1>2, <2>1, <2>2 DEF CellOK, RowOK, BodyOK, NoRow, None, Row
    <3>2. SnapOK(c, d)'
      BY <1>2, <2>1, <2>2 DEF CellOK, SnapOK, BodyOK, Row
    <3> QED
      BY <1>2, <2>2, <3>1, <3>2 DEF CellOK, CleanRow, CoverRow
  <2>3. CASE d # x
    BY <1>2, <2>1, <2>3 DEF CellOK, RowOK, SnapOK, BodyOK, CleanRow, CoverRow
  <2> QED
    BY <2>2, <2>3
<1>4. ReplicaOK(c)'
  <2>1. CycleOK(c) /\ PageOK(c) /\ ReplyOK(c)
    BY DEF IInv, Core, ReplicaOK
  <2>2. CycleOK(c)'
    BY <2>1 DEF CycleOK
  <2>3. ReplyOK(c)'
    BY <1>1, <1>2, <2>1 DEF ReplyOK, AckOK, MasterOK, GoneOK, Newer
  <2>4. PageOK(c)'
    BY <2>1 DEF PageOK, NoPage
  <2> QED
    BY <2>2, <2>3, <2>4 DEF ReplicaOK
<1> QED
  BY <1>2, <1>3, <1>4, OneReplica

(***************************************************************************)
(* The actions                                                             *)
(***************************************************************************)
\* The host's writes.
LEMMA LocalWriteStep ==
    ASSUME IInv, NEW c \in Client, LocalWrite(c), UNCHANGED setup
    PROVE  IInv'
<1> USE DEF remote, cycle, exchange
<1>1. /\ TypeOK /\ rows[c] \in [Doc -> Row]
      /\ \A d \in Doc : rows[c][d] \in Row /\ CellOK(c, d)
      /\ 0 \notin Payload
  BY PayloadAssumption DEF IInv, Core, Types, TypeOK, PayloadAssumption
<1>2. ASSUME NEW d \in Doc, NEW p \in Payload, LocalCreate(c, d, p) PROVE IInv'
  <2> DEFINE row == [NoRow EXCEPT !.exists = TRUE, !.data = p, !.dirty = TRUE,
                                  !.revision = 1]
  <2>1. row \in Row /\ row.exists /\ row.dirty /\ row.data = p /\ ~row.deleted
        /\ row.revision = 1 /\ row.etag = None /\ ~row.acked
    BY DEF NoRow, Row, None
  <2>2. rows[c][d] = NoRow
    BY <1>1, <1>2 DEF LocalCreate, CellOK, RowOK, BodyOK
  <2>3. rows' = [rows EXCEPT ![c][d] = row]
        /\ UNCHANGED <<server, clock, checkpoint, phase, snap, todo, busy, reply, page>>
    BY <1>2 DEF LocalCreate, SetRow
  <2> HIDE DEF row
  <2>4. row.etag = rows[c][d].etag /\ row.acked = rows[c][d].acked
        /\ ~rows[c][d].deleted /\ rows[c][d].revision = 0
    <3>1. row.acked = FALSE /\ NoRow.acked = FALSE /\ NoRow.deleted = FALSE
          /\ NoRow.revision = 0 /\ NoRow.etag = None
      BY <2>1 DEF NoRow, Row
    <3> QED
      BY <2>1, <2>2, <3>1
  <2>5. row.deleted <=> row.data = None
    BY <1>1, <2>1 DEF None
  <2>6. row.revision > rows[c][d].revision
    BY <2>1, <2>4
  <2>7. Core'
    BY <2>1, <2>3, <2>4, <2>5, <2>6, LocalRow
  <2>8. Types'
    BY <1>1, <1>2, <2>1, <2>3 DEF IInv, Types, PagesTyped, PageTyped, TypeOK, LocalCreate, Show
  <2> QED
    BY <2>7, <2>8 DEF IInv
<1>3. ASSUME NEW d \in Doc, NEW p \in Payload, LocalEdit(c, d, p) PROVE IInv'
  <2> DEFINE row == [rows[c][d] EXCEPT !.data = p, !.dirty = TRUE, !.revision = @ + 1]
  <2>1. row \in Row /\ row.exists = rows[c][d].exists /\ row.dirty /\ row.data = p
        /\ row.deleted = rows[c][d].deleted /\ row.acked = rows[c][d].acked
        /\ row.revision > rows[c][d].revision /\ row.etag = rows[c][d].etag
    <3>1. rows[c][d] \in Row
      BY <1>1
    <3>2. rows[c][d].revision \in Nat /\ row.revision = rows[c][d].revision + 1
      BY <3>1, EditedTyped
    <3>3. row \in Row /\ row.exists = rows[c][d].exists /\ row.dirty = TRUE /\ row.data = p
          /\ row.deleted = rows[c][d].deleted /\ row.acked = rows[c][d].acked
          /\ row.etag = rows[c][d].etag
      BY <3>1, EditedTyped
    <3> HIDE DEF row
    <3> QED
      BY <3>2, <3>3
  <2>2. rows' = [rows EXCEPT ![c][d] = row]
        /\ UNCHANGED <<server, clock, checkpoint, phase, snap, todo, busy, reply, page>>
        /\ rows[c][d].exists /\ ~rows[c][d].deleted
    BY <1>3 DEF LocalEdit, SetRow
  <2> HIDE DEF row
  <2>3. Core'
    BY <1>1, <2>1, <2>2, LocalRow DEF None
  <2>4. Types'
    BY <1>1, <1>3, <2>1, <2>2 DEF IInv, Types, PagesTyped, PageTyped, TypeOK, LocalEdit, Show
  <2> QED
    BY <2>3, <2>4 DEF IInv
<1>4. ASSUME NEW d \in Doc, LocalDelete(c, d) PROVE IInv'
  <2> DEFINE row == [rows[c][d] EXCEPT !.deleted = TRUE, !.data = None,
                                       !.dirty = TRUE, !.revision = @ + 1]
  <2>1. row \in Row /\ row.exists = rows[c][d].exists /\ row.dirty /\ row.data = None
        /\ row.deleted /\ row.acked = rows[c][d].acked
        /\ row.revision > rows[c][d].revision /\ row.etag = rows[c][d].etag
    <3>1. rows[c][d] \in Row
      BY <1>1
    <3>2. rows[c][d].revision \in Nat /\ row.revision = rows[c][d].revision + 1
      BY <3>1, DeletedTyped
    <3>3. row \in Row /\ row.exists = rows[c][d].exists /\ row.dirty = TRUE
          /\ row.data = None /\ row.deleted = TRUE /\ row.acked = rows[c][d].acked
          /\ row.etag = rows[c][d].etag
      BY <3>1, DeletedTyped
    <3> HIDE DEF row
    <3> QED
      BY <3>2, <3>3
  <2>2. rows' = [rows EXCEPT ![c][d] = row]
        /\ UNCHANGED <<server, clock, checkpoint, phase, snap, todo, busy, reply, page>>
        /\ rows[c][d].exists
    BY <1>4 DEF LocalDelete, SetRow
  <2> HIDE DEF row
  <2>3. Core'
    BY <2>1, <2>2, LocalRow
  <2>4. Types'
    BY <1>1, <1>4, <2>1, <2>2 DEF IInv, Types, PagesTyped, PageTyped, TypeOK, LocalDelete, Show
  <2> QED
    BY <2>3, <2>4 DEF IInv
<1> QED
  BY <1>2, <1>3, <1>4 DEF LocalWrite

\* markPushed, markDeletedPushed, adoptLatest, the resolver and the give-up.
LEMMA SettleStep ==
    ASSUME IInv, NEW c \in Client, UNCHANGED setup,
           \/ MarkPushed(c) \/ MarkDeletedPushed(c) \/ AdoptLatest(c)
           \/ ResolveConflict(c) \/ GiveUpDelete(c)
    PROVE  IInv'
<1> USE DEF remote, local, None
<1> DEFINE d == busy[c]
<1>1. /\ UNCHANGED <<server, clock, checkpoint, page, used, faults>> /\ Settled(c)
      /\ reply[c].kind # "none"
  BY DEF MarkPushed, MarkDeletedPushed, AdoptLatest, ResolveConflict, GiveUpDelete
<1>2. /\ TypeOK /\ CycleOK(c) /\ ReplyOK(c) /\ PageOK(c)
  BY DEF IInv, Types, Core, ReplicaOK
<1>3. /\ d \in Doc /\ d \in todo[c] /\ reply[c].etag \in Nat /\ reply[c] \in Reply
      /\ reply[c].data \in Payload \cup {None} /\ rows[c][d] \in Row
      /\ snap[c][d] \in Row /\ server[d] \in ServerDoc /\ checkpoint[c] \in Nat
      /\ server[d].tick \in Nat /\ CellOK(c, d) /\ ServerOK(d) /\ rows[c][d].etag \in Nat
      /\ server[d].deleted \in BOOLEAN
  <2>1. d \in Doc /\ d \in todo[c]
    BY <1>1, <1>2 DEF CycleOK, TypeOK
  <2> QED
    BY <1>2, <2>1 DEF TypeOK, Reply, Row, ServerDoc, IInv, Core
<1> HIDE DEF d
<1>4. ASSUME NEW row \in Row, rows' = [rows EXCEPT ![c][d] = row],
             BodyOK(row, d), CleanRow(row, d), CoverRow(c, row, d),
             projection' \in [Client -> [Doc -> Payload \cup {None}]]
      PROVE  IInv'
  <2>1. Core'
    BY <1>1, <1>3, <1>4, Settlement DEF d
  <2>2. Types'
    <3>1. busy' \in [Client -> Doc \cup {NoDoc}] /\ reply' \in [Client -> Reply]
          /\ todo' \in [Client -> SUBSET Doc] /\ phase' = phase /\ snap' = snap
      BY <1>1, <1>2, NoneTyped DEF Settled, TypeOK
    <3>2. rows' \in [Client -> [Doc -> Row]]
      BY <1>2, <1>3, <1>4 DEF TypeOK
    <3> QED
      BY <1>1, <1>2, <1>4, <3>1, <3>2 DEF IInv, Types, PagesTyped, PageTyped, TypeOK
  <2> QED
    BY <2>1, <2>2 DEF IInv
<1>5. /\ BodyOK(rows[c][d], d) /\ rows[c][d].exists /\ rows[c][d].dirty
      /\ snap[c][d].revision = rows[c][d].revision => rows[c][d] = snap[c][d]
      /\ snap[c][d].deleted => rows[c][d].deleted
      /\ BodyOK(snap[c][d], d)
  BY <1>3 DEF CellOK, RowOK, SnapOK, NoRow
<1>6. CASE MarkPushed(c)
  <2> DEFINE row == Acked(rows[c][d], reply[c].etag, snap[c][d].revision)
  <2>1. rows' = [rows EXCEPT ![c][d] = row] /\ projection' = projection
        /\ reply[c].kind = "ack"
    BY <1>6 DEF MarkPushed, SetRow, d
  <2>2. /\ row \in Row /\ row.exists /\ row.deleted = rows[c][d].deleted
        /\ row.data = rows[c][d].data /\ row.acked
        /\ row.etag = IF reply[c].etag = None THEN rows[c][d].etag ELSE reply[c].etag
        /\ row.dirty <=> rows[c][d].revision # snap[c][d].revision
    <3>1. rows[c][d] \in Row /\ reply[c].etag \in Nat
      BY <1>3
    <3>2. /\ row \in Row /\ row.exists = rows[c][d].exists
          /\ row.deleted = rows[c][d].deleted
          /\ row.data = rows[c][d].data /\ row.acked
          /\ row.etag = IF reply[c].etag = None THEN rows[c][d].etag ELSE reply[c].etag
      BY <3>1, AckedTyped
    <3>3. row.dirty <=> rows[c][d].revision # snap[c][d].revision
      BY <3>1, AckedTyped
    <3> HIDE DEF row
    <3> QED
      BY <1>5, <3>2, <3>3
  <2> HIDE DEF row
  <2>3. AckOK(c, d) /\ ~snap[c][d].deleted
    BY <1>2, <1>3, <2>1 DEF ReplyOK, d, DeleteReplies
  <2>4. BodyOK(row, d)
    BY <1>3, <1>5, <2>2, <2>3 DEF BodyOK, AckOK
  <2>5. CleanRow(row, d) /\ CoverRow(c, row, d)
    BY <1>3, <1>5, <2>2, <2>3 DEF CleanRow, CoverRow, AckOK, Same
  <2> QED
    BY <1>2, <1>4, <2>1, <2>2, <2>4, <2>5 DEF TypeOK
<1>7. CASE MarkDeletedPushed(c)
  <2> DEFINE row == Acked(rows[c][d], reply[c].etag, snap[c][d].revision)
  <2>1. rows' = [rows EXCEPT ![c][d] = row] /\ projection' = projection
        /\ (\/ reply[c].kind \in {"deleteAck", "gone"}
            \/ reply[c].kind = "deleteMaster" /\ reply[c].etag = None)
    BY <1>7 DEF MarkDeletedPushed, SetRow, d
  <2>2. /\ row \in Row /\ row.exists /\ row.deleted = rows[c][d].deleted
        /\ row.data = rows[c][d].data /\ row.acked
        /\ row.etag = IF reply[c].etag = None THEN rows[c][d].etag ELSE reply[c].etag
        /\ row.dirty <=> rows[c][d].revision # snap[c][d].revision
    <3>1. rows[c][d] \in Row /\ reply[c].etag \in Nat
      BY <1>3
    <3>2. /\ row \in Row /\ row.exists = rows[c][d].exists
          /\ row.deleted = rows[c][d].deleted
          /\ row.data = rows[c][d].data /\ row.acked
          /\ row.etag = IF reply[c].etag = None THEN rows[c][d].etag ELSE reply[c].etag
      BY <3>1, AckedTyped
    <3>3. row.dirty <=> rows[c][d].revision # snap[c][d].revision
      BY <3>1, AckedTyped
    <3> HIDE DEF row
    <3> QED
      BY <1>5, <3>2, <3>3
  <2> HIDE DEF row
  <2>3. snap[c][d].deleted /\ rows[c][d].deleted /\ rows[c][d].data = None
        /\ snap[c][d].data = None
    BY <1>2, <1>3, <1>5, <2>1 DEF ReplyOK, d, DeleteReplies, BodyOK
  <2>4. CASE reply[c].kind = "deleteAck"
    <3>1. AckOK(c, d)
      BY <1>2, <1>3, <2>4 DEF ReplyOK, d
    <3>2. BodyOK(row, d)
      BY <1>3, <1>5, <2>2, <2>3, <3>1 DEF BodyOK, AckOK
    <3>3. /\ row.etag = server[d].tick => Same(row, server[d])
          /\ server[d].tick > checkpoint[c] /\ row.etag # None
      <4>1. row.etag = reply[c].etag /\ row.etag # None
        BY <1>3, <2>2, <3>1 DEF AckOK
      <4>2. row.etag = server[d].tick => (server[d].deleted /\ server[d].data = None)
        BY <2>3, <3>1, <4>1 DEF AckOK
      <4>3. row.deleted /\ row.data = None
        BY <2>2, <2>3
      <4>4. server[d].tick > checkpoint[c]
        BY <1>3, <3>1 DEF AckOK
      <4> QED
        BY <1>3, <2>2, <4>1, <4>2, <4>3, <4>4, SameState
    <3>4. CleanRow(row, d) /\ CoverRow(c, row, d)
      BY <1>3, <3>3 DEF CleanRow, CoverRow
    <3> QED
      BY <1>2, <1>4, <2>1, <2>2, <3>2, <3>4 DEF TypeOK
  <2>5. CASE reply[c].kind # "deleteAck"
    <3>1. GoneOK(c, d) /\ reply[c].etag = None
      BY <1>2, <1>3, <2>1, <2>5 DEF ReplyOK, d
    <3>2. BodyOK(row, d)
      BY <1>3, <1>5, <2>2, <2>3, <3>1 DEF BodyOK
    <3>3. CleanRow(row, d) /\ CoverRow(c, row, d)
      <4>1. row.deleted /\ row.data = None /\ row.etag = rows[c][d].etag
        BY <2>2, <2>3, <3>1
      <4>2. CASE server[d].deleted
        <5>1. Same(row, server[d])
          BY <1>3, <2>2, <4>1, <4>2, SameState DEF ServerOK
        <5> QED
          BY <2>2, <5>1 DEF CleanRow, CoverRow
      <4>3. CASE row.etag = None /\ Newer(c, d)
        BY <1>3, <4>3 DEF CleanRow, CoverRow, Newer
      <4> QED
        BY <3>1, <4>1, <4>2, <4>3 DEF GoneOK
    <3> QED
      BY <1>2, <1>4, <2>1, <2>2, <3>2, <3>3 DEF TypeOK
  <2> QED
    BY <2>4, <2>5
\* What adopting the master, or its absence, makes of the row.
<1>8. ASSUME MasterOK(c, d), NEW data, data = reply[c].data
      PROVE  LET row == Adopted(rows[c][d], reply[c].etag, data)
             IN  /\ row \in Row /\ BodyOK(row, d)
                 /\ CleanRow(row, d) /\ CoverRow(c, row, d)
  <2> DEFINE row == Adopted(rows[c][d], reply[c].etag, data)
  <2>1. /\ row \in Row /\ row.exists /\ row.acked /\ row.data = data
        /\ row.deleted <=> data = None
        /\ row.etag = reply[c].etag /\ ~row.dirty
    <3>1. rows[c][d] \in Row /\ reply[c].etag \in Nat /\ data \in Payload \cup {None}
      BY <1>3, <1>8
    <3>2. /\ row \in Row /\ row.exists = rows[c][d].exists /\ row.acked
          /\ row.data = data /\ row.etag = reply[c].etag /\ ~row.dirty
      BY <3>1, AdoptedTyped
    <3>3. row.deleted <=> data = None
      BY <3>1, AdoptedTyped
    <3> HIDE DEF row
    <3> QED
      BY <1>5, <3>2, <3>3
  <2> HIDE DEF row
  <2>2. BodyOK(row, d)
    BY <1>3, <1>8, <2>1 DEF BodyOK, MasterOK
  <2>3. ASSUME row.etag = None PROVE CleanRow(row, d) /\ CoverRow(c, row, d)
    <3>1. server[d].deleted => Same(row, server[d])
      BY <1>3, <1>8, <2>1, <2>3, SameState DEF MasterOK, ServerOK
    <3> QED
      BY <1>3, <1>8, <2>1, <2>2, <2>3, <3>1 DEF CleanRow, CoverRow, MasterOK, Newer
  <2>4. ASSUME row.etag # None PROVE CleanRow(row, d) /\ CoverRow(c, row, d)
    <3>1. row.etag = server[d].tick => Same(row, server[d])
      BY <1>3, <1>8, <2>1, <2>4, SameState DEF MasterOK
    <3> QED
      BY <1>3, <1>8, <2>1, <2>2, <2>4, <3>1 DEF CleanRow, CoverRow, MasterOK, Newer
  <2> QED
    BY <2>1, <2>2, <2>3, <2>4 DEF row
<1>9. CASE AdoptLatest(c)
  <2> DEFINE row == Adopted(rows[c][d], reply[c].etag, reply[c].data)
  <2>1. rows' = [rows EXCEPT ![c][d] = row] /\ reply[c].kind = "master"
    BY <1>9 DEF AdoptLatest, SetRow, d
  <2>2. MasterOK(c, d)
    BY <1>2, <1>3, <2>1 DEF ReplyOK, d
  <2>3. row \in Row /\ BodyOK(row, d) /\ CleanRow(row, d) /\ CoverRow(c, row, d)
    BY <1>8, <2>2
  <2>4. projection' \in [Client -> [Doc -> Payload \cup {None}]]
    <3>1. projection' = projection
          \/ \E p \in Payload \cup {None} : projection' = [projection EXCEPT ![c][d] = p]
      BY <1>9 DEF AdoptLatest, Show, d
    <3>2. projection \in [Client -> [Doc -> Payload \cup {None}]]
      BY <1>2 DEF TypeOK
    <3> QED
      BY <1>3, <3>1, <3>2
  <2> HIDE DEF row
  <2> QED
    BY <1>4, <2>1, <2>3, <2>4
<1>10. CASE ResolveConflict(c)
  <2>1. reply[c].kind = "master"
    BY <1>10 DEF ResolveConflict
  <2>2. MasterOK(c, d)
    BY <1>2, <1>3, <2>1 DEF ReplyOK, d
  <2>3. projection' \in [Client -> [Doc -> Payload \cup {None}]]
    <3>1. projection' = projection
          \/ \E p \in Payload \cup {None} : projection' = [projection EXCEPT ![c][d] = p]
      BY <1>3, <1>10 DEF ResolveConflict, Show, d
    <3>2. projection \in [Client -> [Doc -> Payload \cup {None}]]
      BY <1>2 DEF TypeOK
    <3> QED
      BY <1>3, <3>1, <3>2
  <2>4. CASE RemoteWins(c, reply[c].data, snap[c][d].data)
    <3> DEFINE row == Adopted(rows[c][d], reply[c].etag, reply[c].data)
    <3>1. rows' = [rows EXCEPT ![c][d] = row]
      BY <1>10, <2>4 DEF ResolveConflict, SetRow, d
    <3>2. row \in Row /\ BodyOK(row, d) /\ CleanRow(row, d) /\ CoverRow(c, row, d)
      BY <1>8, <2>2
    <3> HIDE DEF row
    <3> QED
      BY <1>4, <2>3, <3>1, <3>2
  <2>5. CASE ~RemoteWins(c, reply[c].data, snap[c][d].data)
    <3> DEFINE row == [rows[c][d] EXCEPT !.acked = TRUE, !.etag = reply[c].etag]
    <3>1. rows' = [rows EXCEPT ![c][d] = row]
      BY <1>10, <2>5 DEF ResolveConflict, SetRow, d
    <3>2. row \in Row /\ row.exists /\ row.dirty /\ row.etag = reply[c].etag
          /\ row.deleted = rows[c][d].deleted /\ row.data = rows[c][d].data
      BY <1>3, <1>5 DEF Row
    <3>3. reply[c].etag # None
      BY <2>2, <2>5 DEF RemoteWins, MasterOK
    <3> HIDE DEF row
    <3>4. BodyOK(row, d) /\ CleanRow(row, d) /\ CoverRow(c, row, d)
      BY <1>3, <1>5, <2>2, <3>2, <3>3 DEF BodyOK, CleanRow, CoverRow, MasterOK
    <3> QED
      BY <1>4, <2>3, <3>1, <3>2, <3>4
  <2> QED
    BY <2>4, <2>5
<1>11. CASE GiveUpDelete(c)
  <2>1. rows' = [rows EXCEPT ![c][d] = rows[c][d]] /\ projection' = projection
    BY <1>2, <1>3, <1>11 DEF GiveUpDelete, TypeOK
  <2> QED
    BY <1>2, <1>3, <1>4, <1>5, <2>1 DEF TypeOK, CellOK
<1> QED
  BY <1>6, <1>7, <1>9, <1>10, <1>11

\* An answer comes in, about a document the push has still to settle.
LEMMA AnswerStep ==
    ASSUME IInv, NEW c \in Client, NEW d \in Doc, NEW kind \in ReplyKind \ {"none"},
           NEW etag \in Nat, NEW data \in Payload \cup {None},
           Answer(c, d, kind, etag, data), phase[c] = "push", d \in todo[c],
           UNCHANGED <<server, clock, rows, projection, checkpoint, phase, snap,
                       todo, page, used, setup, faults>>,
           ReplyOK(c)'
    PROVE  IInv'
<1> DEFINE r == [kind |-> kind, etag |-> etag, data |-> data]
<1>1. r \in Reply /\ r.kind = kind
  BY AnswerTyped
<1>2. busy' = [busy EXCEPT ![c] = d] /\ reply' = [reply EXCEPT ![c] = r]
  BY DEF Answer
<1> HIDE DEF r
<1>3. TypeOK /\ CycleOK(c) /\ PageOK(c) /\ NoDoc \notin Doc
  BY NoDocAssumption DEF NoDocAssumption, IInv, Types, Core, ReplicaOK
<1>4. /\ \A b \in Client \ {c} : busy'[b] = busy[b] /\ reply'[b] = reply[b]
      /\ busy'[c] = d /\ reply'[c] = r
  BY <1>2, <1>3 DEF TypeOK
<1>5. \A x \in Doc : CellOK(c, x)'
  BY DEF IInv, Core, CellOK, RowOK, SnapOK, BodyOK, CleanRow, CoverRow
<1>6. ReplicaOK(c)'
  <2>1. CycleOK(c)'
    BY <1>1, <1>3, <1>4 DEF CycleOK
  <2>2. PageOK(c)'
    BY <1>3 DEF PageOK, NoPage
  <2> QED
    BY <2>1, <2>2 DEF ReplicaOK
<1>7. Core'
  BY <1>4, <1>5, <1>6, OneReplica
<1>8. Types'
  <2>1. busy' \in [Client -> Doc \cup {NoDoc}] /\ reply' \in [Client -> Reply]
    BY <1>1, <1>2, <1>3 DEF TypeOK
  <2> QED
    BY <1>3, <2>1 DEF IInv, Types, PagesTyped, PageTyped, TypeOK
<1> QED
  BY <1>7, <1>8 DEF IInv

\* A write the server takes, with its answer on the way.
LEMMA WriteStep ==
    ASSUME IInv, NEW c \in Client, NEW d \in Doc, NEW deleted \in BOOLEAN,
           NEW data \in Payload \cup {None}, NEW kind \in {"ack", "deleteAck"},
           StoreWrite(d, deleted, data, c), Answer(c, d, kind, clock + 1, None),
           phase[c] = "push", d \in todo[c], server[d].deleted => deleted,
           deleted <=> data = None, deleted <=> kind = "deleteAck",
           snap[c][d].deleted <=> deleted, snap[c][d].data = data,
           UNCHANGED <<rows, projection, checkpoint, phase, snap, todo, page, used,
                       setup, faults>>
    PROVE  IInv'
<1> DEFINE n == clock + 1
<1>1. TypeOK /\ CycleOK(c) /\ NoDoc \notin Doc
  BY NoDocAssumption DEF NoDocAssumption, IInv, Types, Core, ReplicaOK
<1>2. n \in Nat /\ n > clock /\ clock \in Nat /\ n \in 0..MaxClock
  BY <1>1, SizeAssumption DEF TypeOK, StoreWrite, SizeAssumption
<1>3. /\ clock' = n /\ busy' = [busy EXCEPT ![c] = d]
      /\ server' = [server EXCEPT ![d] = [tick |-> n, deleted |-> deleted,
                                          data |-> data, writer |-> c]]
      /\ reply' = [reply EXCEPT ![c] = [kind |-> kind, etag |-> n, data |-> None]]
  BY DEF StoreWrite, Answer
<1> HIDE DEF n
<1> DEFINE doc == [tick |-> n, deleted |-> deleted, data |-> data, writer |-> c]
           r == [kind |-> kind, etag |-> n, data |-> None]
<1>4. doc \in ServerDoc /\ doc.tick = n /\ (doc.deleted <=> deleted) /\ doc.data = data
  BY <1>2 DEF ServerDoc
<1>5. r \in Reply /\ r.kind = kind /\ r.etag = n
  BY <1>2, AnswerTyped DEF ReplyKind
<1> HIDE DEF doc, r
<1>6. /\ \A b \in Client \ {c} : busy'[b] = busy[b] /\ reply'[b] = reply[b]
      /\ busy'[c] = d /\ reply'[c] = r
      /\ server'[d] = doc
  BY <1>1, <1>3 DEF TypeOK, doc, r
<1>7. /\ \A x \in Doc : ServerOK(x)'
      /\ IsFiniteSet(Feed')
      /\ \A b \in Client, x \in Doc : CellOK(b, x)'
      /\ \A b \in Client : PageOK(b)'
      /\ \A b \in Client : busy'[b] = busy[b] /\ reply'[b] = reply[b]
           => CycleOK(b)' /\ ReplyOK(b)'
  <2>1. /\ doc.tick = clock + 1 /\ (server[d].deleted => doc.deleted)
        /\ (doc.deleted <=> doc.data = None) /\ clock' = clock + 1
        /\ server' = [server EXCEPT ![d] = doc]
        /\ UNCHANGED <<rows, checkpoint, phase, snap, todo, page>>
    BY <1>3, <1>4 DEF n, doc
  <2> QED
    BY <1>4, <2>1, Written
<1>8. CycleOK(c)'
  BY <1>1, <1>5, <1>6 DEF CycleOK, NoPage
<1>9. ReplyOK(c)'
  <2>1. AckOK(c, d)'
    <3>1. checkpoint[c] \in Nat /\ checkpoint[c] <= clock
      BY <1>1 DEF TypeOK
    <3>2. /\ reply'[c].etag = n /\ server'[d].tick = n
          /\ (server'[d].deleted <=> snap[c][d].deleted) /\ server'[d].data = snap[c][d].data
      BY <1>4, <1>5, <1>6
    <3>3. server'[d].deleted = snap[c][d].deleted
      <4>1. server'[d].deleted \in BOOLEAN /\ snap[c][d].deleted \in BOOLEAN
        BY <1>1, <1>4, <1>6 DEF TypeOK, Row, ServerDoc
      <4> QED
        BY <3>2, <4>1
    <3> QED
      BY <1>2, <3>1, <3>2, <3>3 DEF AckOK
  <2>2. snap[c][d].deleted <=> kind \in DeleteReplies
    BY DEF DeleteReplies
  <2> QED
    BY <1>5, <1>6, <2>1, <2>2 DEF ReplyOK
<1>10. Core'
  BY <1>6, <1>7, <1>8, <1>9 DEF Core, ReplicaOK
<1>11. Types'
  <2>1. busy' \in [Client -> Doc \cup {NoDoc}] /\ reply' \in [Client -> Reply]
        /\ server' \in [Doc -> ServerDoc]
    BY <1>1, <1>3, <1>4, <1>5 DEF TypeOK, doc, r
  <2>2. checkpoint' \in [Client -> 0..clock']
    BY <1>1, <1>2, <1>3 DEF TypeOK
  <2> QED
    BY <1>1, <1>2, <1>3, <2>1, <2>2 DEF IInv, Types, PagesTyped, PageTyped, TypeOK
<1> QED
  BY <1>10, <1>11 DEF IInv

\* What the requests find: the snapshot's row and the server's document.
LEMMA Pending ==
    ASSUME IInv, NEW c \in Client, NEW d \in Doc
    PROVE  /\ TypeOK /\ CycleOK(c) /\ ReplyOK(c) /\ ServerOK(d) /\ CellOK(c, d)
           /\ snap[c][d] \in Row /\ rows[c][d] \in Row /\ server[d] \in ServerDoc
           /\ server[d].tick \in Nat /\ rows[c][d].etag \in Nat /\ 0 \notin Payload
           /\ server[d].tick = 0 => rows[c][d].etag = None /\ Newer(c, d)
<1>1. /\ TypeOK /\ CycleOK(c) /\ ReplyOK(c) /\ ServerOK(d) /\ CellOK(c, d)
      /\ 0 \notin Payload
  BY PayloadAssumption DEF PayloadAssumption, IInv, Types, Core, ReplicaOK
<1>2. snap[c][d] \in Row /\ rows[c][d] \in Row /\ server[d] \in ServerDoc
  BY <1>1 DEF TypeOK
<1>3. server[d].tick \in Nat /\ rows[c][d].etag \in Nat
  BY <1>2 DEF Row, ServerDoc
<1>4. rows[c][d].etag <= server[d].tick
  BY <1>1, <1>3 DEF CellOK, RowOK, BodyOK, NoRow, None
<1> QED
  BY <1>1, <1>2, <1>3, <1>4 DEF Newer, None

\* pushUpsert's request.
LEMMA PutContentStep ==
    ASSUME IInv, NEW c \in Client, NEW d \in Doc, PutContent(c, d), UNCHANGED setup
    PROVE  IInv'
<1> USE DEF remote, local, cycle
<1>1. /\ phase[c] = "push" /\ d \in todo[c] /\ ~snap[c][d].deleted
      /\ UNCHANGED <<rows, projection, checkpoint, phase, snap, todo, page, used,
                     setup, faults>>
  BY DEF PutContent
<1>2. BodyOK(snap[c][d], d) /\ snap[c][d].data \in Payload \cup {None}
      /\ snap[c][d].data # None
  BY <1>1, Pending DEF CellOK, SnapOK, BodyOK, Row
<1>3. CASE PutAccepted(snap[c][d], server[d])
  <2>1. ~server[d].deleted
    BY <1>1, <1>2, <1>3, Pending DEF PutAccepted, BodyOK, ServerOK, None
  <2>2. StoreWrite(d, FALSE, snap[c][d].data, c) /\ Answer(c, d, "ack", clock + 1, None)
    BY <1>3 DEF PutContent
  <2> QED
    BY <1>1, <1>2, <2>1, <2>2, WriteStep
<1>4. CASE ~PutAccepted(snap[c][d], server[d])
  <2>1. Answer(c, d, "conflict", None, None) /\ UNCHANGED <<server, clock>>
    BY <1>4 DEF PutContent
  <2>2. busy'[c] = d /\ reply'[c].kind = "conflict"
    BY <2>1, Pending DEF Answer, TypeOK
  <2>3. ReplyOK(c)'
    BY <1>1, <2>2 DEF ReplyOK, DeleteReplies
  <2> QED
    BY <1>1, <2>1, <2>3, AnswerStep DEF ReplyKind, None
<1> QED
  BY <1>3, <1>4

\* A deletion's request, the first or the second.
LEMMA DeleteContentStep ==
    ASSUME IInv, NEW c \in Client, NEW d \in Doc, NEW ifMatch,
           NEW onStale \in {"deleteConflict", "retryConflict"},
           DeleteContent(c, d, ifMatch, onStale), phase[c] = "push", d \in todo[c],
           snap[c][d].deleted,
           UNCHANGED <<rows, projection, checkpoint, phase, snap, todo, page, used,
                       setup, faults>>
    PROVE  IInv'
<1> USE DEF remote
<1>1. snap[c][d].data = None
  BY Pending DEF CellOK, SnapOK, BodyOK
<1>2. CASE server[d].tick = 0 \/ server[d].deleted
  <2>1. Answer(c, d, "gone", None, None) /\ UNCHANGED <<server, clock>>
    BY <1>2 DEF DeleteContent
  <2>2. busy'[c] = d /\ reply'[c].kind = "gone" /\ reply'[c].etag = None
    BY <2>1, Pending DEF Answer, TypeOK
  <2>3. GoneOK(c, d)'
    BY <1>2, <2>1, Pending DEF GoneOK, Newer
  <2>4. ReplyOK(c)'
    BY <2>2, <2>3 DEF ReplyOK, DeleteReplies
  <2> QED
    BY <2>1, <2>4, AnswerStep DEF ReplyKind, None
<1>3. CASE ~(server[d].tick = 0 \/ server[d].deleted) /\ ifMatch \notin {None, server[d].tick}
  <2>1. Answer(c, d, onStale, None, None) /\ UNCHANGED <<server, clock>>
    BY <1>3 DEF DeleteContent
  <2>2. busy'[c] = d /\ reply'[c].kind = onStale
    BY <2>1, Pending DEF Answer, TypeOK
  <2>3. ReplyOK(c)'
    BY <2>2 DEF ReplyOK, DeleteReplies
  <2> QED
    BY <2>1, <2>3, AnswerStep DEF ReplyKind, None
<1>4. CASE ~(server[d].tick = 0 \/ server[d].deleted) /\ ifMatch \in {None, server[d].tick}
  <2>1. StoreWrite(d, TRUE, None, c) /\ Answer(c, d, "deleteAck", clock + 1, None)
    BY <1>4 DEF DeleteContent
  <2> QED
    BY <1>1, <1>4, <2>1, WriteStep
<1> QED
  BY <1>2, <1>3, <1>4

\* The invariant survives pushing a tombstone, conditional on the acknowledged ETag.
LEMMA PushDeleteStep ==
    ASSUME IInv, NEW c \in Client, NEW d \in Doc, PushDelete(c, d), UNCHANGED setup
    PROVE  IInv'
<1> DEFINE ifMatch == IF snap[c][d].acked THEN snap[c][d].etag ELSE None
<1>1. /\ DeleteContent(c, d, ifMatch, "deleteConflict")
      /\ phase[c] = "push" /\ d \in todo[c] /\ snap[c][d].deleted
      /\ UNCHANGED <<rows, projection, checkpoint, phase, snap, todo, page, used,
                     setup, faults>>
  BY DEF PushDelete, local, cycle
<1> HIDE DEF ifMatch
<1> QED
  BY <1>1, DeleteContentStep

\* The exchange in flight is about a document of the push.
LEMMA InFlight ==
    ASSUME IInv, NEW c \in Client, reply[c].kind # "none"
    PROVE  busy[c] \in Doc /\ busy[c] \in todo[c] /\ phase[c] = "push"
<1>1. TypeOK /\ CycleOK(c)
  BY DEF IInv, Types, Core, ReplicaOK
<1> QED
  BY <1>1 DEF CycleOK, TypeOK

\* The invariant survives repeating a refused delete against the ETag just read.
LEMMA RetryDeleteStep ==
    ASSUME IInv, NEW c \in Client, RetryDelete(c), UNCHANGED setup
    PROVE  IInv'
<1>1. PICK d \in Doc : d = busy[c]
  BY InFlight DEF RetryDelete
<1>2. /\ DeleteContent(c, d, reply[c].etag, "retryConflict")
      /\ phase[c] = "push" /\ d \in todo[c] /\ reply[c].kind = "deleteMaster"
      /\ UNCHANGED <<rows, projection, checkpoint, phase, snap, todo, page, used,
                     setup, faults>>
  BY <1>1, InFlight DEF RetryDelete, local, cycle
<1>3. snap[c][d].deleted
  BY <1>1, <1>2, Pending DEF ReplyOK, DeleteReplies
<1> QED
  BY <1>2, <1>3, DeleteContentStep

\* port.get after a 412.
LEMMA ReadMasterStep ==
    ASSUME IInv, NEW c \in Client, ReadMaster(c), UNCHANGED setup
    PROVE  IInv'
<1> USE DEF remote, local, cycle
<1>1. PICK d \in Doc : d = busy[c]
  BY InFlight DEF ReadMaster
<1> DEFINE live == server[d].tick # 0 /\ ~server[d].deleted
           kind == IF reply[c].kind = "conflict" THEN "master" ELSE "deleteMaster"
           etag == IF live THEN server[d].tick ELSE None
           data == IF live THEN server[d].data ELSE None
<1>2. /\ Answer(c, d, kind, etag, data) /\ reply[c].kind \in {"conflict", "deleteConflict"}
      /\ phase[c] = "push" /\ d \in todo[c]
      /\ UNCHANGED <<server, clock, rows, projection, checkpoint, phase, snap, todo,
                     page, used, setup, faults>>
  BY <1>1, InFlight DEF ReadMaster
<1>3. /\ etag \in Nat /\ data \in Payload \cup {None} /\ (etag = None <=> data = None)
      /\ etag = None => server[d].deleted \/ (rows[c][d].etag = None /\ Newer(c, d))
      /\ etag # None => ~server[d].deleted /\ etag = server[d].tick /\ server[d].data = data
  BY Pending DEF ServerOK, ServerDoc, None
<1>4. /\ kind \in ReplyKind \ {"none"}
      /\ reply[c].kind = "conflict" => kind = "master"
      /\ reply[c].kind = "deleteConflict" => kind = "deleteMaster"
  BY <1>2 DEF ReplyKind
<1> HIDE DEF live, kind, etag, data
<1>5. busy'[c] = d /\ reply'[c].kind = kind /\ reply'[c].etag = etag /\ reply'[c].data = data
  BY <1>2, Pending DEF Answer, TypeOK
<1>6. ReplyOK(c)'
  <2>1. snap[c][d].deleted <=> reply[c].kind \in DeleteReplies
    BY <1>1, Pending DEF ReplyOK
  <2>2. CASE reply[c].kind = "conflict"
    <3>1. kind = "master" /\ ~snap[c][d].deleted
      BY <1>4, <2>1, <2>2 DEF DeleteReplies
    <3>2. MasterOK(c, d)'
      BY <1>2, <1>3, <1>5, Pending DEF MasterOK, Newer
    <3> QED
      BY <1>2, <1>5, <3>1, <3>2 DEF ReplyOK, DeleteReplies
  <2>3. CASE reply[c].kind = "deleteConflict"
    <3>1. kind = "deleteMaster" /\ snap[c][d].deleted
      BY <1>4, <2>1, <2>3 DEF DeleteReplies
    <3>2. etag = None => GoneOK(c, d)'
      BY <1>2, <1>3 DEF GoneOK, Newer
    <3> QED
      BY <1>2, <1>5, <3>1, <3>2 DEF ReplyOK, DeleteReplies
  <2> QED
    BY <1>2, <2>2, <2>3
<1> QED
  BY <1>2, <1>3, <1>4, <1>6, AnswerStep

\* The steps that only move a cycle on: its start, the end of its push, the end
\* of its pull and its failure.
LEMMA MoveStep ==
    ASSUME IInv, NEW c \in Client, UNCHANGED setup,
           BeginPush(c) \/ EndPush(c) \/ CaughtUp(c) \/ CycleFails(c)
    PROVE  IInv'
<1> USE DEF remote, local, exchange
<1>1. UNCHANGED <<server, clock, rows, projection, checkpoint, used>>
  BY DEF BeginPush, EndPush, CaughtUp, CycleFails
<1>2. TypeOK /\ CycleOK(c) /\ ReplyOK(c) /\ PageOK(c) /\ NoDoc \notin Doc
      /\ PagesTyped
  BY NoDocAssumption DEF NoDocAssumption, IInv, Types, Core, ReplicaOK
<1>3. /\ phase' \in [Client -> {"idle", "push", "pull"}]
      /\ snap' \in [Client -> [Doc -> Row]] /\ todo' \in [Client -> SUBSET Doc]
      /\ busy' \in [Client -> Doc \cup {NoDoc}] /\ reply' \in [Client -> Reply]
      /\ faults' \in 0..setup.faults
  <2>1. CASE BeginPush(c)
    BY <1>2, <2>1 DEF BeginPush, TypeOK
  <2>2. CASE EndPush(c) \/ CaughtUp(c)
    BY <1>2, <2>2 DEF EndPush, CaughtUp, TypeOK
  <2>3. CASE CycleFails(c)
    <3>1. setup.faults \in Nat
      BY <1>2, SizeAssumption DEF TypeOK, SizeAssumption
    <3> QED
      BY <1>2, <2>3, <3>1, NoneTyped DEF CycleFails, TypeOK
  <2> QED
    BY <2>1, <2>2, <2>3
<1>4. \A b \in Client \ {c} :
         /\ phase'[b] = phase[b] /\ snap'[b] = snap[b] /\ todo'[b] = todo[b]
         /\ busy'[b] = busy[b] /\ reply'[b] = reply[b] /\ page'[b] = page[b]
  <2>1. CASE BeginPush(c)
    BY <1>2, <2>1 DEF BeginPush, TypeOK
  <2>2. CASE EndPush(c) \/ CaughtUp(c)
    BY <1>2, <2>2 DEF EndPush, CaughtUp, TypeOK
  <2>3. CASE CycleFails(c)
    BY <1>2, <2>3 DEF CycleFails, TypeOK, PagesTyped
  <2> QED
    BY <2>1, <2>2, <2>3
<1>5. page' = [b \in Client |-> page'[b]] /\ (page'[c] = page[c] \/ page'[c] = NoPage)
  BY <1>2 DEF BeginPush, EndPush, CaughtUp, CycleFails, PagesTyped
<1>6. DOMAIN NoPage = {}
  BY DEF NoPage
<1>7. Types'
  <2>1. PageTyped(c)'
    BY <1>2, <1>5, <1>6 DEF PagesTyped, PageTyped, NoPage
  <2>2. \A b \in Client : PageTyped(b)'
    BY <1>2, <1>4, <2>1 DEF PagesTyped, PageTyped
  <2> QED
    BY <1>1, <1>2, <1>3, <1>5, <2>2 DEF Types, PagesTyped, PageTyped, TypeOK
\* Either an exchange stays what it is or nothing is in flight any more.
<1>8. CASE BeginPush(c)
  <2>1. /\ phase[c] = "idle" /\ phase'[c] = "push" /\ snap'[c] = rows[c]
        /\ todo'[c] = {d \in Doc : rows[c][d].dirty}
        /\ busy' = busy /\ reply' = reply /\ page' = page
    BY <1>2, <1>8 DEF BeginPush, TypeOK
  <2>2. busy[c] = NoDoc /\ reply[c].kind = "none" /\ page[c] = NoPage
    BY <1>2, <2>1 DEF CycleOK
  <2>3. ASSUME NEW d \in Doc PROVE CellOK(c, d)'
    <3>1. CellOK(c, d) /\ rows[c][d] \in Row
      BY <1>2 DEF IInv, Core, TypeOK
    <3>2. d \in todo'[c] => BodyOK(rows[c][d], d) /\ rows[c][d].dirty
      BY <2>1, <3>1 DEF CellOK, RowOK, NoRow
    <3>3. SnapOK(c, d)'
      BY <1>1, <2>1, <3>1, <3>2 DEF SnapOK, BodyOK, Row
    <3> QED
      BY <1>1, <3>1, <3>3 DEF CellOK, RowOK, BodyOK, CleanRow, CoverRow
  <2>4. ReplicaOK(c)'
    <3>1. CycleOK(c)'
      BY <2>1, <2>2 DEF CycleOK, NoPage
    <3>2. ReplyOK(c)'
      BY <1>2, <2>1, <2>2 DEF ReplyOK
    <3>3. PageOK(c)'
      BY <1>1, <1>2, <2>1 DEF PageOK, NoPage
    <3> QED
      BY <3>1, <3>2, <3>3 DEF ReplicaOK
  <2>5. Core'
    BY <1>1, <1>4, <2>3, <2>4, OneReplica
  <2> QED
    BY <1>7, <2>5 DEF IInv
<1>9. CASE EndPush(c) \/ CaughtUp(c) \/ CycleFails(c)
  <2>1. /\ snap'[c] = snap[c] /\ todo'[c] = {} /\ busy'[c] = NoDoc
        /\ reply'[c].kind = "none"
    <3>1. CASE EndPush(c)
      BY <1>2, <3>1 DEF EndPush, CycleOK
    <3>2. CASE CaughtUp(c)
      BY <1>2, <3>2 DEF CaughtUp, CycleOK
    <3>3. CASE CycleFails(c)
      BY <1>2, <3>3, NoneTyped DEF CycleFails, TypeOK
    <3> QED
      BY <1>9, <3>1, <3>2, <3>3
  <2>2. page'[c] # NoPage => page'[c] = page[c] /\ phase'[c] = "pull"
    <3>1. CASE EndPush(c)
      BY <1>2, <3>1 DEF EndPush, CycleOK, TypeOK
    <3>2. CASE CaughtUp(c)
      BY <1>2, <3>2 DEF CaughtUp
    <3>3. CASE CycleFails(c)
      BY <1>2, <3>3 DEF CycleFails, PagesTyped
    <3> QED
      BY <1>9, <3>1, <3>2, <3>3
  <2>3. ASSUME NEW d \in Doc PROVE CellOK(c, d)'
    <3>1. CellOK(c, d)
      BY DEF IInv, Core
    <3> QED
      BY <1>1, <2>1, <3>1 DEF CellOK, RowOK, SnapOK, BodyOK, CleanRow, CoverRow
  <2>4. ReplicaOK(c)'
    <3>1. CycleOK(c)'
      BY <2>1, <2>2 DEF CycleOK, NoPage
    <3>2. ReplyOK(c)'
      BY <1>2, <2>1 DEF ReplyOK
    <3>3. PageOK(c)'
      <4>1. CASE page'[c] = NoPage
        BY <1>6, <4>1 DEF PageOK, NoPage
      <4>2. CASE page'[c] # NoPage
        BY <1>1, <1>2, <2>2, <4>2 DEF PageOK, NoPage
      <4> QED
        BY <4>1, <4>2
    <3> QED
      BY <3>1, <3>2, <3>3 DEF ReplicaOK
  <2>5. Core'
    BY <1>1, <1>4, <2>1, <2>3, <2>4, OneReplica
  <2> QED
    BY <1>7, <2>5 DEF IInv
<1> QED
  BY <1>8, <1>9

\* The end of a page: the largest of its clock values.
LEMMA PageEndIs ==
    ASSUME NEW got, NEW n \in Nat, DOMAIN got # {},
           \A d \in DOMAIN got : got[d].doc.tick \in 0..n
    PROVE  /\ \E d \in DOMAIN got : PageEnd(got) = got[d].doc.tick
           /\ \A d \in DOMAIN got : got[d].doc.tick <= PageEnd(got)
<1> DEFINE S == {got[d].doc.tick : d \in DOMAIN got}
<1>1. S \subseteq 0..n /\ S # {}
  OBVIOUS
<1>2. \E t \in S : \A s \in S : s <= t
  <2> HIDE DEF S
  <2> QED
    BY <1>1, Largest
<1>3. \E t \in S : \A d \in DOMAIN got : got[d].doc.tick <= t
  BY <1>2
<1>4. PageEnd(got) \in S /\ \A d \in DOMAIN got : got[d].doc.tick <= PageEnd(got)
  BY <1>3 DEF PageEnd
<1> QED
  BY <1>4

\* A page has every document up to that of its last one.
LEMMA FirstPageCovers ==
    ASSUME IInv, NEW position \in Nat, NEW m \in FirstPage(position), NEW d \in Doc,
           server[d].tick > position, server[d].tick <= server[m].tick
    PROVE  d \in FirstPage(position)
<1> DEFINE Before(x) == {e \in After(position) : server[e].tick < server[x].tick}
<1>1. \A e \in Doc : server[e].tick \in Nat
  BY DEF IInv, Types, TypeOK, ServerDoc
<1>2. m \in Doc /\ d \in After(position) /\ BatchSize \in Nat
      /\ Cardinality(Before(m)) < BatchSize
  BY SizeAssumption DEF FirstPage, After, SizeAssumption
<1>3. Before(m) \subseteq Feed /\ Before(d) \subseteq Before(m)
  BY <1>1, <1>2 DEF After, Feed
<1>4. IsFiniteSet(Before(m))
  BY <1>3, FS_Subset DEF IInv, Core
<1>5. /\ Cardinality(Before(d)) <= Cardinality(Before(m))
      /\ IsFiniteSet(Before(d))
  BY <1>3, <1>4, FS_Subset
<1>6. Cardinality(Before(d)) \in Nat /\ Cardinality(Before(m)) \in Nat
  BY <1>4, <1>5, FS_CardinalityType
<1>7. Cardinality(Before(d)) < BatchSize
  BY <1>2, <1>5, <1>6
<1> QED
  BY <1>2, <1>7 DEF FirstPage

\* port.query.
LEMMA QueryStep ==
    ASSUME IInv, NEW c \in Client, Query(c), UNCHANGED setup
    PROVE  IInv'
<1> USE DEF remote, local, cycle, exchange
<1> DEFINE F == FirstPage(checkpoint[c])
           project(d) == ~Held(c, d) /\ ~server[d].deleted
                         /\ server[d].data \notin Opaque[c]
           got == [d \in F |-> [doc |-> server[d], project |-> project(d)]]
<1>1. /\ UNCHANGED <<server, clock, rows, projection, checkpoint, phase, snap, todo,
                     busy, reply, used, faults>>
      /\ page' = [page EXCEPT ![c] = got] /\ phase[c] = "pull"
  BY DEF Query
<1>2. TypeOK /\ CycleOK(c) /\ ReplyOK(c) /\ PagesTyped /\ server \in [Doc -> ServerDoc]
      /\ checkpoint[c] \in Nat /\ clock \in Nat
      /\ \A d \in Doc : ServerOK(d) /\ server[d] \in ServerDoc /\ server[d].tick \in Nat
  BY DEF IInv, Types, Core, ReplicaOK, TypeOK, ServerDoc
<1>3. \A d \in F : d \in Doc /\ server[d].tick > checkpoint[c] /\ server[d].tick <= clock
  BY <1>2 DEF FirstPage, After, ServerOK
<1>4. /\ DOMAIN got = F /\ got \in [F -> Got]
      /\ \A d \in F : got[d].doc = server[d]
  <2>1. \A d \in F : project(d) \in BOOLEAN
    BY Zenon
  <2> HIDE DEF project
  <2> QED
    BY <1>2, <1>3, <2>1 DEF Got
<1> HIDE DEF got
<1>5. /\ page'[c] = got /\ page' = [b \in Client |-> page'[b]]
      /\ \A b \in Client \ {c} : page'[b] = page[b]
  BY <1>1, <1>2 DEF PagesTyped
<1>6. Types'
  <2>1. PageTyped(c)'
    BY <1>3, <1>4, <1>5 DEF PageTyped
  <2>2. \A b \in Client : PageTyped(b)'
    BY <1>2, <1>5, <2>1 DEF PagesTyped, PageTyped
  <2>3. \A b \in Client : DOMAIN page'[b] \subseteq Doc
    BY <2>2 DEF PageTyped
  <2> QED
    BY <1>1, <1>2, <1>5, <2>2, <2>3 DEF Types, PagesTyped, TypeOK
<1>7. PageOK(c)'
  <2>1. ASSUME NEW d \in DOMAIN got
        PROVE  LET doc == got[d].doc IN
               /\ doc.tick > checkpoint[c] /\ doc.tick <= server[d].tick
               /\ doc.tick = server[d].tick => doc = server[d]
               /\ doc.deleted <=> doc.data = None
    BY <1>2, <1>3, <1>4 DEF ServerOK, None
  <2>2. ASSUME got # NoPage
        PROVE  /\ PageEnd(got) \in 0..clock
               /\ \A d \in Doc :
                    server[d].tick > checkpoint[c] /\ server[d].tick <= PageEnd(got)
                      => d \in DOMAIN got /\ got[d].doc = server[d]
    <3>1. DOMAIN got # {}
      BY <1>4, <2>2 DEF NoPage
    <3>2. \A d \in DOMAIN got : got[d].doc.tick \in 0..clock
      BY <1>2, <1>3, <1>4
    <3>3. PICK m \in F : PageEnd(got) = got[m].doc.tick
      BY <1>2, <1>4, <3>1, <3>2, PageEndIs
    <3>4. PageEnd(got) = server[m].tick
      BY <1>4, <3>3
    <3>5. ASSUME NEW d \in Doc, server[d].tick > checkpoint[c],
                 server[d].tick <= PageEnd(got)
          PROVE  d \in F
      BY <1>2, <3>4, <3>5, FirstPageCovers
    <3> QED
      BY <1>2, <1>3, <1>4, <3>4, <3>5
  <2> QED
    BY <1>1, <1>5, <2>1, <2>2 DEF PageOK, NoPage
<1>8. \A d \in Doc : CellOK(c, d)'
  BY <1>1 DEF IInv, Core, CellOK, RowOK, SnapOK, BodyOK, CleanRow, CoverRow
<1>9. CycleOK(c)'
  BY <1>1, <1>2 DEF CycleOK
<1>10. ReplyOK(c)'
  BY <1>1, <1>2 DEF ReplyOK, AckOK, MasterOK, GoneOK, Newer
<1>11. Core'
  BY <1>1, <1>5, <1>7, <1>8, <1>9, <1>10, OneReplica DEF ReplicaOK
<1> QED
  BY <1>6, <1>11 DEF IInv

\* The pull-apply table on one row.
LEMMA PulledRow ==
    ASSUME NEW row \in Row, NEW doc \in ServerDoc, NEW d \in Doc,
           server[d] \in ServerDoc,
           row = NoRow \/ BodyOK(row, d), doc.tick # 0, doc.tick <= server[d].tick,
           doc.tick = server[d].tick => doc = server[d],
           doc.deleted <=> doc.data = None
    PROVE  /\ Pulled(row, doc) \in Row
           /\ BodyOK(Pulled(row, doc), d) /\ CleanRow(Pulled(row, doc), d)
           /\ doc = server[d] => Pulled(row, doc).dirty \/ Same(Pulled(row, doc), server[d])
<1> DEFINE new == Pulled(row, doc)
<1>1. /\ new \in Row /\ new.acked /\ new.etag = doc.tick
      /\ doc.deleted => /\ new.exists /\ new.deleted /\ new.data = None /\ ~new.dirty
      /\ ~doc.deleted /\ row.dirty =>
           /\ new.exists = row.exists /\ new.dirty
           /\ new.deleted = row.deleted /\ new.data = row.data
      /\ ~doc.deleted /\ ~row.dirty =>
           /\ new.exists /\ ~new.deleted /\ new.data = doc.data /\ ~new.dirty
  BY PulledTyped
<1> HIDE DEF new
<1>2. doc.tick \in Nat /\ server[d].tick \in Nat
  BY DEF ServerDoc
<1>3. row.dirty => BodyOK(row, d)
  BY DEF NoRow
<1>4. BodyOK(new, d)
  BY <1>1, <1>2, <1>3 DEF BodyOK, None
<1>5. doc = server[d] => new.dirty \/ Same(new, server[d])
  <2>1. ASSUME doc = server[d], ~new.dirty PROVE Same(new, server[d])
    <3>1. (new.deleted <=> doc.deleted) /\ new.data = doc.data
      BY <1>1, <2>1
    <3> QED
      BY <1>1, <2>1, <3>1, SameState
  <2> QED
    BY <2>1
<1>6. CleanRow(new, d)
  BY <1>1, <1>5 DEF CleanRow
<1> QED
  BY <1>1, <1>4, <1>5, <1>6 DEF new

\* store.applyPulledPage.
LEMMA ApplyStep ==
    ASSUME IInv, NEW c \in Client, ApplyPulledPage(c), UNCHANGED setup
    PROVE  IInv'
<1> USE DEF remote, cycle, exchange
<1> DEFINE got == page[c]
           D == DOMAIN page[c]
           after(d) == IF d \in D THEN Pulled(rows[c][d], got[d].doc) ELSE rows[c][d]
           shown(d) == IF d \in D THEN Projected(rows[c][d], got[d], projection[c][d])
                       ELSE projection[c][d]
<1>1. /\ UNCHANGED <<server, clock, phase, snap, todo, busy, reply, used, faults>>
      /\ page[c] # NoPage /\ page' = [page EXCEPT ![c] = NoPage]
      /\ rows' = [rows EXCEPT ![c] = [d \in Doc |-> after(d)]]
      /\ projection' = [projection EXCEPT ![c] = [d \in Doc |-> shown(d)]]
      /\ checkpoint' = [checkpoint EXCEPT ![c] = PageEnd(got)]
  BY DEF ApplyPulledPage
<1>2. /\ TypeOK /\ CycleOK(c) /\ PagesTyped /\ PageTyped(c) /\ PageOK(c)
      /\ NoDoc \notin Doc /\ clock \in Nat /\ checkpoint[c] \in Nat
  BY NoDocAssumption DEF NoDocAssumption, IInv, Types, Core, ReplicaOK, PagesTyped, TypeOK
<1>3. \A d \in Doc : /\ rows[c][d] \in Row /\ CellOK(c, d) /\ server[d] \in ServerDoc
                     /\ server[d].tick \in Nat
                     /\ projection[c][d] \in Payload \cup {None}
  BY <1>2 DEF IInv, Core, TypeOK, ServerDoc
<1>4. todo[c] = {} /\ busy[c] = NoDoc /\ reply[c].kind = "none"
  BY <1>1, <1>2 DEF CycleOK
<1>5. ASSUME NEW d \in D
      PROVE  /\ d \in Doc /\ got[d] \in Got /\ got[d].doc \in ServerDoc
             /\ got[d].doc.tick \in Nat /\ got[d].doc.tick > checkpoint[c]
             /\ got[d].doc.tick <= server[d].tick
             /\ got[d].doc.tick = server[d].tick => got[d].doc = server[d]
             /\ got[d].doc.deleted <=> got[d].doc.data = None
  BY <1>2, <1>5 DEF PageTyped, PageOK, Got, ServerDoc
<1>6. ASSUME NEW d \in D
      PROVE  /\ after(d) \in Row /\ BodyOK(after(d), d) /\ CleanRow(after(d), d)
             /\ got[d].doc = server[d] => after(d).dirty \/ Same(after(d), server[d])
  <2> DEFINE row == rows[c][d]
             doc == got[d].doc
  <2>1. /\ row \in Row /\ doc \in ServerDoc /\ d \in Doc /\ server[d] \in ServerDoc
        /\ (row = NoRow \/ BodyOK(row, d)) /\ doc.tick # 0 /\ doc.tick <= server[d].tick
        /\ (doc.tick = server[d].tick => doc = server[d])
        /\ (doc.deleted <=> doc.data = None)
    BY <1>2, <1>3, <1>5, <1>6 DEF CellOK, RowOK
  <2>2. after(d) = Pulled(row, doc)
    BY <1>6
  <2> HIDE DEF row, doc, after
  <2>3. /\ Pulled(row, doc) \in Row
        /\ BodyOK(Pulled(row, doc), d) /\ CleanRow(Pulled(row, doc), d)
        /\ doc = server[d] => Pulled(row, doc).dirty \/ Same(Pulled(row, doc), server[d])
    BY <2>1, PulledRow
  <2> QED
    BY <2>2, <2>3 DEF doc
<1>7. \A d \in Doc : /\ after(d) \in Row
                     /\ d \notin D => after(d) = rows[c][d]
  BY <1>3, <1>6
<1>8. \A d \in Doc : shown(d) \in Payload \cup {None}
  BY <1>3, <1>5 DEF Projected, ServerDoc
<1> HIDE DEF after, shown
<1>9. /\ rows' \in [Client -> [Doc -> Row]]
      /\ projection' \in [Client -> [Doc -> Payload \cup {None}]]
      /\ \A d \in Doc : rows'[c][d] = after(d)
      /\ \A b \in Client \ {c} : rows'[b] = rows[b]
  BY <1>1, <1>2, <1>7, <1>8 DEF TypeOK
<1>10. /\ PageEnd(got) \in 0..clock
       /\ checkpoint' \in [Client -> 0..clock] /\ checkpoint'[c] = PageEnd(got)
       /\ \A b \in Client \ {c} : checkpoint'[b] = checkpoint[b]
  BY <1>1, <1>2 DEF TypeOK, PageOK
<1>11. /\ page'[c] = NoPage /\ page' = [b \in Client |-> page'[b]]
       /\ \A b \in Client \ {c} : page'[b] = page[b]
       /\ DOMAIN NoPage = {}
  BY <1>1, <1>2 DEF PagesTyped, NoPage
<1>12. Types'
  <2>1. PageTyped(c)'
    BY <1>11 DEF PageTyped, NoPage
  <2>2. \A b \in Client : PageTyped(b)'
    BY <1>2, <1>11, <2>1 DEF PagesTyped, PageTyped
  <2>3. \A b \in Client : DOMAIN page'[b] \subseteq Doc
    BY <2>2 DEF PageTyped
  <2> QED
    BY <1>1, <1>2, <1>9, <1>10, <1>11, <2>2, <2>3 DEF Types, PagesTyped, TypeOK
<1>13. ASSUME NEW d \in Doc PROVE CellOK(c, d)'
  <2>1. SnapOK(c, d)'
    BY <1>1, <1>4 DEF SnapOK
  <2>2. CASE d \in D
    <3>1. RowOK(c, d)' /\ CleanRow(rows[c][d], d)'
      BY <1>1, <1>6, <1>9, <2>2 DEF RowOK, BodyOK, CleanRow
    <3>2. CoverRow(c, rows[c][d], d)'
      <4>1. ASSUME server[d].tick \in 1..PageEnd(got)
            PROVE  after(d).exists /\ (after(d).dirty \/ Same(after(d), server[d]))
        <5>1. server[d].tick > checkpoint[c]
          BY <1>2, <1>3, <1>5, <2>2
        <5>2. got[d].doc = server[d]
          BY <1>1, <1>2, <4>1, <5>1 DEF PageOK
        <5> QED
          BY <1>6, <2>2, <5>2 DEF BodyOK
      <4> QED
        BY <1>1, <1>9, <1>10, <4>1 DEF CoverRow
    <3> QED
      BY <2>1, <3>1, <3>2 DEF CellOK
  <2>3. CASE d \notin D
    <3>1. rows'[c][d] = rows[c][d]
      BY <1>7, <1>9, <2>3
    <3>2. ASSUME server[d].tick \in 1..PageEnd(got) PROVE server[d].tick \in 1..checkpoint[c]
      BY <1>1, <1>2, <1>3, <2>3, <3>2 DEF PageOK
    <3> QED
      BY <1>1, <1>3, <1>10, <2>1, <3>1, <3>2 DEF CellOK, RowOK, BodyOK, CleanRow, CoverRow
  <2> QED
    BY <2>2, <2>3
<1>14. ReplicaOK(c)'
  <2>1. CycleOK(c)'
    BY <1>1, <1>4, <1>11 DEF CycleOK, NoPage
  <2>2. ReplyOK(c)'
    BY <1>1, <1>2, <1>4 DEF ReplyOK
  <2>3. PageOK(c)'
    BY <1>11 DEF PageOK, NoPage
  <2> QED
    BY <2>1, <2>2, <2>3 DEF ReplicaOK
<1>15. Core'
  BY <1>1, <1>9, <1>10, <1>11, <1>13, <1>14, OneReplica
<1> QED
  BY <1>12, <1>15 DEF IInv

-----------------------------------------------------------------------------
\* The invariant holds at the start ...
LEMMA InitInv == Init => IInv
<1> SUFFICES ASSUME Init PROVE IInv
  OBVIOUS
<1>1. TypeOK
  <2>1. server \in [Doc -> ServerDoc]
    BY DEF Init, ServerDoc, None
  <2>2. setup.faults \in Nat /\ clock \in 0..MaxClock /\ setup \in Setups
    BY SizeAssumption DEF Init, SizeAssumption
  <2>3. \A c \in Client : DOMAIN page[c] \subseteq Doc
    BY DEF Init, NoPage
  <2>4. /\ rows \in [Client -> [Doc -> Row]] /\ snap \in [Client -> [Doc -> Row]]
        /\ reply \in [Client -> Reply]
    BY NoneTyped DEF Init
  <2>5. /\ projection \in [Client -> [Doc -> Payload \cup {None}]]
        /\ phase \in [Client -> {"idle", "push", "pull"}]
        /\ todo \in [Client -> SUBSET Doc] /\ busy \in [Client -> Doc \cup {NoDoc}]
        /\ used \subseteq Payload
    BY DEF Init
  <2>6. checkpoint \in [Client -> 0..clock] /\ faults \in 0..setup.faults
    BY <2>2 DEF Init
  <2> QED
    BY <2>1, <2>2, <2>3, <2>4, <2>5, <2>6 DEF TypeOK
<1>2. PagesTyped
  BY DEF Init, PagesTyped, PageTyped, NoPage
<1>3. \A d \in Doc : ServerOK(d) /\ server[d].tick = 0
  BY DEF Init, ServerOK
<1>4. IsFiniteSet(Feed)
  <2>1. Feed = {}
    BY <1>3 DEF Feed
  <2> QED
    BY <2>1, FS_EmptySet
<1>5. ASSUME NEW c \in Client, NEW d \in Doc PROVE CellOK(c, d)
  <2>1. rows[c][d] = NoRow /\ todo[c] = {} /\ checkpoint[c] = 0
    BY DEF Init
  <2> QED
    BY <1>3, <2>1 DEF CellOK, RowOK, SnapOK, CleanRow, CoverRow, NoRow
<1>6. ASSUME NEW c \in Client PROVE ReplicaOK(c)
  <2>1. /\ todo[c] = {} /\ busy[c] = NoDoc /\ reply[c] = NoReply /\ page[c] = NoPage
        /\ NoDoc \notin Doc /\ DOMAIN NoPage = {}
    BY NoDocAssumption DEF Init, NoDocAssumption, NoPage
  <2>2. CycleOK(c) /\ ReplyOK(c)
    BY <2>1, NoneTyped DEF CycleOK, ReplyOK
  <2>3. PageOK(c)
    BY <2>1 DEF PageOK
  <2> QED
    BY <2>2, <2>3 DEF ReplicaOK
<1> QED
  BY <1>1, <1>2, <1>3, <1>4, <1>5, <1>6 DEF IInv, Types, Core

\* ... and every step keeps it.
LEMMA NextInv == IInv /\ [Next]_vars => IInv'
<1> SUFFICES ASSUME IInv, [Next]_vars PROVE IInv'
  OBVIOUS
<1>1. CASE Next
  <2>1. UNCHANGED setup
    BY <1>1 DEF Next
  <2>2. PICK c \in Client : LocalWrite(c) \/ CycleAction(c) \/ CycleFails(c)
    BY <1>1 DEF Next
  <2>3. CASE LocalWrite(c)
    BY <2>1, <2>3, LocalWriteStep
  <2>4. CASE \/ MarkPushed(c) \/ MarkDeletedPushed(c) \/ AdoptLatest(c)
             \/ ResolveConflict(c) \/ GiveUpDelete(c)
    BY <2>1, <2>4, SettleStep
  <2>5. CASE BeginPush(c) \/ EndPush(c) \/ CaughtUp(c) \/ CycleFails(c)
    BY <2>1, <2>5, MoveStep
  <2>6. CASE RetryDelete(c) \/ ReadMaster(c) \/ Query(c) \/ ApplyPulledPage(c)
    BY <2>1, <2>6, RetryDeleteStep, ReadMasterStep, QueryStep, ApplyStep
  <2>7. CASE \E d \in Doc : PutContent(c, d) \/ PushDelete(c, d)
    BY <2>1, <2>7, PutContentStep, PushDeleteStep
  <2> QED
    BY <2>2, <2>3, <2>4, <2>5, <2>6, <2>7 DEF CycleAction
<1>2. CASE UNCHANGED vars
  <2>1. \A c \in Client : (\A d \in Doc : CellOK(c, d)') /\ ReplicaOK(c)'
    BY <1>2, Untouched DEF vars
  <2>2. Core'
    BY <1>2, <2>1 DEF IInv, Core, ServerOK, Feed, vars
  <2> QED
    BY <1>2, <2>2 DEF IInv, Types, PagesTyped, PageTyped, TypeOK, vars
<1> QED
  BY <1>1, <1>2

\* So it holds throughout.
LEMMA Always == Spec => []IInv
  BY InitInv, NextInv, PTL DEF Spec

\* Every variable of the push and pull loops keeps its type, the checkpoint
\* never passes the feed and no fault budget is exceeded.
THEOREM TypeCorrect == Spec => []TypeOK
<1>1. IInv => TypeOK
  BY DEF IInv, Types
<1> QED
  BY <1>1, Always, PTL

\* A clean row at the server's current ETag is the server's document, whatever
\* was written locally or lost while its push was in flight (markPushed,
\* markDeletedPushed, adoptLatest and the pull-apply table).
THEOREM CleanRowsMatch == Spec => []CleanMatchesServer
<1>1. IInv => CleanMatchesServer
  BY DEF IInv, Core, CellOK, CleanRow, CleanMatchesServer
<1> QED
  BY <1>1, Always, PTL

\* No write of the feed at or below a checkpoint is missing from the replica,
\* for any page size and any failure of a cycle.
THEOREM CheckpointCovers == Spec => []CheckpointCoversFeed
<1>1. IInv => CheckpointCoversFeed
  BY DEF IInv, Core, CellOK, CoverRow, CheckpointCoversFeed
<1> QED
  BY <1>1, Always, PTL
=============================================================================

------------------------- MODULE ConnectionsProofs -------------------------
(***************************************************************************)
(* The safety properties of Connections, for any set of clients, any       *)
(* bounds and any interleaving of the helpers.                             *)
(*                                                                         *)
(* That a retired entry is empty needs only that the change of each helper *)
(* takes a sound body to a sound one. The others rest on IInv: by the ETag *)
(* a write that is accepted is the change of what is stored (FreshWrite),  *)
(* so every stored write is Made from the entry there is; call numbers     *)
(* identify capabilities and replica Spaces (Serials, Ident, Numbered);    *)
(* and what a call tells the entry of the world holds of the world, then   *)
(* and later (ArgOK).                                                      *)
(***************************************************************************)
EXTENDS Connections, TLAPS, FiniteSetTheorems, WellFoundedInduction

\* A body with an entry's fields; one that may be stored; a change that makes
\* such a body, if any.
Shaped(e) ==
    e = [f \in {"stands", "retired", "declined", "seed", "label", "grants",
                "grantsReceived", "outbox", "replicas", "writers"} |-> e[f]]
Sound(e) == Shaped(e) /\ RetiredEmpty(e)
Keeps(change) == change.do = "put" => Sound(change.body)

-----------------------------------------------------------------------------
(* The operators on lists and sets. *)

\* A bounded set of naturals that is not empty has a largest element.
LEMMA Largest ==
    ASSUME NEW n \in Nat, NEW S, S \subseteq 0..n, S # {}
    PROVE  \E t \in S : \A s \in S : s <= t
<1> DEFINE T == {n - s : s \in S}
           R == OpToRel(<, Nat)
<1>1. T \subseteq Nat /\ T # {}
  <2>1. \A s \in S : n - s \in Nat
    OBVIOUS
  <2>2. PICK s \in S : TRUE
    OBVIOUS
  <2>3. n - s \in T
    BY <2>2
  <2> QED
    BY <2>1, <2>3
<1>2. IsWellFoundedOn(R, Nat)
  BY NatLessThanWellFounded
<1> HIDE DEF T, R
<1>3. PICK x \in T : \A y \in T : ~(<<y, x>> \in R)
  BY <1>1, <1>2, WFMin
<1>4. \A y \in T : ~(y < x)
  BY <1>1, <1>3 DEF R, OpToRel
<1>5. PICK t \in S : x = n - t
  BY <1>3 DEF T
<1>6. ASSUME NEW s \in S PROVE s <= t
  <2>1. n - s \in T
    BY DEF T
  <2> QED
    BY <1>4, <1>5, <2>1
<1> QED
  BY <1>6

\* The positions up to one of them number that one among the chosen.
LEMMA RankIs ==
    ASSUME NEW n \in Nat, NEW I, I \subseteq 1..n
    PROVE  /\ IsFiniteSet(I) /\ Cardinality(I) \in Nat
           /\ \A k \in 1..Cardinality(I) :
                \E i \in I : Cardinality({j \in I : j <= i}) = k
<1> DEFINE upto(i) == {j \in I : j <= i}
           rank == [i \in I |-> Cardinality(upto(i))]
<1>1. IsFiniteSet(I) /\ Cardinality(I) \in Nat
  <2>1. IsFiniteSet(1..n)
    BY FS_Interval
  <2>2. IsFiniteSet(I)
    BY <2>1, FS_Subset
  <2> QED
    BY <2>2, FS_CardinalityType
<1>2. ASSUME NEW i \in I
      PROVE  /\ IsFiniteSet(upto(i)) /\ Cardinality(upto(i)) \in 1..Cardinality(I)
  <2>1. upto(i) \in SUBSET I /\ upto(i) # {}
    OBVIOUS
  <2>2. IsFiniteSet(upto(i)) /\ Cardinality(upto(i)) <= Cardinality(I)
    BY <1>1, <2>1, FS_Subset
  <2>3. Cardinality(upto(i)) \in Nat /\ Cardinality(upto(i)) # 0
    BY <2>1, <2>2, FS_CardinalityType, FS_EmptySet
  <2> QED
    BY <1>1, <2>2, <2>3
<1>3. ASSUME NEW i \in I, NEW j \in I, i < j
      PROVE  Cardinality(upto(i)) # Cardinality(upto(j))
  <2>1. i \in 1..n /\ j \in 1..n /\ \A x \in I : x \in 1..n
    OBVIOUS
  <2>2. /\ \A x \in I : x <= i => x <= j
        /\ j <= j /\ ~(j <= i)
    BY <1>3, <2>1
  <2>3. upto(i) \in SUBSET upto(j) /\ j \in upto(j) /\ j \notin upto(i)
    BY <2>2
  <2> QED
    BY <1>2, <2>3, FS_Subset
<1> HIDE DEF upto
<1>4. rank \in [I -> 1..Cardinality(I)]
  BY <1>2
<1>5. IsInjective(rank)
  BY <1>3 DEF IsInjective
<1>6. rank \in Injection(I, 1..Cardinality(I))
  BY <1>4, <1>5 DEF Injection
<1>7. /\ IsFiniteSet(1..Cardinality(I))
      /\ Cardinality(1..Cardinality(I)) = Cardinality(I)
  BY <1>1, FS_Interval
<1>8. rank \in Surjection(I, 1..Cardinality(I))
  BY <1>6, <1>7, FS_Injection
<1>9. \A k \in 1..Cardinality(I) : \E i \in I : rank[i] = k
  BY <1>8 DEF Surjection
<1> QED
  BY <1>1, <1>9 DEF upto

\* What stands at some positions of a list is a list of those records.
LEMMA AtIs ==
    ASSUME NEW S, NEW grants \in Seq(S), NEW I, I \subseteq DOMAIN grants
    PROVE  At(grants, I) \in Seq(S) /\ Range(At(grants, I)) = {grants[i] : i \in I}
<1> DEFINE pos(k) == CHOOSE i \in I : Cardinality({j \in I : j <= i}) = k
<1>1. PICK n \in Nat : n = Len(grants) /\ DOMAIN grants = 1..n
  OBVIOUS
<1>2. /\ IsFiniteSet(I) /\ Cardinality(I) \in Nat
      /\ \A k \in 1..Cardinality(I) :
           \E i \in I : Cardinality({j \in I : j <= i}) = k
  <2>1. I \subseteq 1..n
    BY <1>1
  <2> QED
    BY <2>1, RankIs, Zenon
<1>3. ASSUME NEW k \in 1..Cardinality(I)
      PROVE  pos(k) \in I
  BY <1>2
<1>4. ASSUME NEW i \in I
      PROVE  \E k \in 1..Cardinality(I) : pos(k) = i
  <2> DEFINE upto(x) == {j \in I : j <= x}
  <2>1. upto(i) \in SUBSET I /\ upto(i) # {}
    BY <1>1
  <2>2. IsFiniteSet(upto(i)) /\ Cardinality(upto(i)) <= Cardinality(I)
    BY <1>2, <2>1, FS_Subset
  <2>3. Cardinality(upto(i)) \in 1..Cardinality(I)
    <3>1. Cardinality(upto(i)) \in Nat /\ Cardinality(upto(i)) # 0
      BY <2>1, <2>2, FS_CardinalityType, FS_EmptySet
    <3> HIDE DEF upto
    <3> QED
      BY <1>2, <2>2, <3>1
  <2>4. PICK x \in I : x = pos(Cardinality(upto(i)))
    BY <1>3, <2>3
  <2>5. Cardinality(upto(x)) = Cardinality(upto(i))
    BY <1>2, <2>3, <2>4
  <2>6. x = i
    <3>1. IsFiniteSet(upto(x))
      BY <1>2, FS_Subset
    <3>2. ASSUME upto(x) \in SUBSET upto(i) PROVE upto(x) = upto(i)
      BY <2>2, <2>5, <3>2, FS_Subset
    <3>3. ASSUME upto(i) \in SUBSET upto(x) PROVE upto(x) = upto(i)
      BY <3>1, <2>5, <3>3, FS_Subset
    <3>4. x \in 1..n /\ i \in 1..n
      BY <1>1
    <3>5. upto(x) \in SUBSET upto(i) \/ upto(i) \in SUBSET upto(x)
      BY <1>1, <3>4
    <3>6. x \in upto(x) /\ i \in upto(i)
      BY <3>4
    <3> QED
      BY <3>2, <3>3, <3>4, <3>5, <3>6
  <2> QED
    BY <2>3, <2>4, <2>6
<1> HIDE DEF pos
<1>5. At(grants, I) = [k \in 1..Cardinality(I) |-> grants[pos(k)]]
  BY DEF At, pos
<1>6. \A i \in I : grants[i] \in S
  BY <1>1
<1>7. At(grants, I) \in [1..Cardinality(I) -> S]
  BY <1>3, <1>5, <1>6
<1>8. At(grants, I) \in Seq(S)
  BY <1>2, <1>7
<1> QED
  BY <1>3, <1>4, <1>5, <1>8 DEF Range

\* A finite set as a list.
LEMMA SetToSeqIs ==
    ASSUME NEW S, IsFiniteSet(S)
    PROVE  SetToSeq(S) \in Seq(S) /\ Range(SetToSeq(S)) = S
<1> DEFINE n == Cardinality(S)
<1>1. n \in Nat /\ ExistsBijection(1..n, S)
  BY FS_CardinalityType
<1>2. \E f \in [1..n -> S] : IsInjective(f)
  BY <1>1 DEF ExistsBijection, Bijection, Injection
<1>3. PICK f : f = SetToSeq(S)
  OBVIOUS
<1>4. f \in [1..n -> S] /\ IsInjective(f)
  BY <1>2, <1>3 DEF SetToSeq
<1>5. IsFiniteSet(1..n) /\ Cardinality(1..n) = n
  BY <1>1, FS_Interval
<1> HIDE DEF n
<1>6. f \in Injection(1..n, S)
  BY <1>4 DEF Injection
<1>7. f \in Surjection(1..n, S)
  BY <1>5, <1>6, FS_Injection DEF n
<1>8. f \in Seq(S)
  BY <1>1, <1>4
<1>9. Range(f) = S
  BY <1>4, <1>7 DEF Range, Surjection
<1> QED
  BY <1>3, <1>8, <1>9

\* newestFirst is a strict total order on the members.
LEMMA NewerIs ==
    ASSUME NEW M, M \subseteq Member, NEW now \in Nat,
           \A m, n \in M : m.writerId = n.writerId => m = n
    PROVE  /\ \A m, n, o \in M : Newer(m, n, now) /\ Newer(n, o, now) => Newer(m, o, now)
           /\ \A m, n \in M : m # n => Newer(m, n, now) \/ Newer(n, m, now)
           /\ \A m \in M : ~Newer(m, m, now)
<1>1. \A m \in M : /\ m.writerId \in Nat /\ m.lastSeen \in Nat
                    /\ EffectiveLastSeen(m, now) \in Nat
  BY ClientAssumption DEF ClientAssumption, Member, EffectiveLastSeen
<1>2. \A m, n \in M : m # n => m.writerId # n.writerId
  OBVIOUS
<1> QED
  BY <1>1, <1>2 DEF Newer

\* Over the cap the stalest go: no more than n are the newest n.
LEMMA NewestBound ==
    ASSUME NEW M, M \subseteq Member, IsFiniteSet(M), NEW now \in Nat, NEW n \in Nat,
           \A a, b \in M : a.writerId = b.writerId => a = b
    PROVE  /\ Newest(M, n, now) \subseteq M /\ IsFiniteSet(Newest(M, n, now))
           /\ Cardinality(Newest(M, n, now)) <= n
<1> DEFINE over(m) == {o \in M : Newer(o, m, now)}
           T == Newest(M, n, now)
<1>1. T = {m \in M : Cardinality(over(m)) < n}
  BY DEF Newest
<1>2. \A m \in M : over(m) \in SUBSET M
  OBVIOUS
<1>3. \A m \in M : IsFiniteSet(over(m)) /\ Cardinality(over(m)) \in Nat
  BY <1>2, FS_Subset, FS_CardinalityType
<1>4. T \in SUBSET M
  BY <1>1
<1>5. IsFiniteSet(T) /\ Cardinality(T) \in Nat
  BY <1>4, FS_Subset, FS_CardinalityType
<1> HIDE DEF T
<1>6. CASE T = {}
  BY <1>4, <1>5, <1>6, FS_EmptySet DEF T
<1>7. CASE T # {}
  <2> DEFINE ranks == {Cardinality(over(m)) : m \in T}
  <2>1. ASSUME NEW m \in T PROVE m \in M /\ Cardinality(over(m)) \in 0..n
    <3>1. m \in M /\ Cardinality(over(m)) < n
      BY <1>1
    <3>2. Cardinality(over(m)) \in Nat
      BY <1>3, <3>1
    <3> QED
      BY <3>1, <3>2
  <2>2. ranks \subseteq 0..n /\ ranks # {}
    <3>1. PICK m \in T : TRUE
      BY <1>7
    <3>2. Cardinality(over(m)) \in ranks
      BY <3>1
    <3> HIDE DEF over
    <3> QED
      BY <2>1, <3>2
  <2>3. PICK k \in ranks : \A s \in ranks : s <= k
    BY <2>2, Largest
  <2>4. PICK m \in T : k = Cardinality(over(m))
    BY <2>3
  <2>5. ASSUME NEW o \in T, o # m PROVE o \in over(m)
    <3>1. o \in M /\ m \in M
      BY <2>1
    <3>2. SUFFICES ASSUME Newer(m, o, now) PROVE FALSE
      BY <2>5, <3>1, NewerIs
    <3>3. over(m) \in SUBSET over(o) /\ m \in over(o) /\ m \notin over(m)
      BY <3>1, <3>2, NewerIs
    <3>4. Cardinality(over(o)) # Cardinality(over(m))
      BY <1>3, <3>1, <3>3, FS_Subset
    <3>5. Cardinality(over(m)) <= Cardinality(over(o))
      BY <1>3, <3>1, <3>3, FS_Subset
    <3>6. Cardinality(over(o)) <= k
      BY <2>3
    <3> HIDE DEF over
    <3> QED
      BY <1>3, <2>4, <3>1, <3>4, <3>5, <3>6
  <2>6. m \in M /\ Cardinality(over(m)) < n
    BY <1>1, <1>4, <2>4
  <2>7. T \ {m} \in SUBSET over(m)
    BY <2>5
  <2>8. IsFiniteSet(T \ {m}) /\ Cardinality(T \ {m}) <= Cardinality(over(m))
    BY <1>3, <2>6, <2>7, FS_Subset
  <2>9. Cardinality(T \ {m}) = Cardinality(T) - 1
    BY <1>5, <2>4, FS_RemoveElement
  <2> HIDE DEF over
  <2>10. Cardinality(T) <= n
    BY <1>3, <1>5, <2>6, <2>8, <2>9
  <2> QED
    BY <1>4, <1>5, <2>10 DEF T
<1> QED
  BY <1>6, <1>7

-----------------------------------------------------------------------------
(* Each helper's change. *)

\* The empty body is sound.
LEMMA NoEntrySound == Sound(NoEntry)
BY DEF Sound, Shaped, RetiredEmpty, Emptied, NoEntry

\* A helper that creates nothing keeps what its change keeps.
LEMMA OnEntryKeeps ==
    ASSUME NEW e, NEW change, Keeps(change)
    PROVE  Keeps(OnEntry(e, change))
BY DEF OnEntry, Keeps, Stop

\* Nothing is written by a stop or a refusal.
LEMMA StopKeeps == Keeps(Stop) /\ Keeps(Refuse)
BY DEF Keeps, Stop, Refuse

\* A sound body may be written.
LEMMA WriteKeeps ==
    ASSUME NEW e, Sound(e)
    PROVE  Keeps(Write(e))
BY DEF Keeps, Write

\* recordGrants un-retires whatever it writes.
LEMMA RecordGrantsKeeps ==
    ASSUME NEW e, Sound(e), NEW a, NEW stamp
    PROVE  Keeps(RecordGrants(e, a, stamp))
<1> DEFINE fresh == SetToSeq(a.grants \ Listed(e))
           body == [e EXCEPT
                !.stands = TRUE, !.retired = FALSE, !.declined = FALSE,
                !.grants = @ \o fresh,
                !.seed = IF a.seed = None THEN @ ELSE a.seed,
                !.outbox = IF a.message
                    THEN SupersedeAndQueueEnvelope(@, a.grants, a.grants, stamp)
                    ELSE @]
<1>1. Sound(body)
  BY DEF Sound, Shaped, RetiredEmpty, Emptied
<1> QED
  BY <1>1, StopKeeps, WriteKeeps DEF RecordGrants

\* retireConnection empties what it retires, and refuses a replica.
LEMMA RetireKeeps ==
    ASSUME NEW e, Sound(e), NEW zcaps
    PROVE  Keeps(RetireConnection(e, zcaps))
<1> DEFINE body == [e EXCEPT !.retired = TRUE, !.grants = <<>>,
                                  !.grantsReceived = {}, !.outbox = {}]
<1>1. e.replicas = {} => Sound(body)
  BY DEF Sound, Shaped, RetiredEmpty, Emptied
<1> QED
  BY <1>1, StopKeeps, WriteKeeps, OnEntryKeeps DEF RetireConnection

\* unretireConnection
LEMMA UnretireKeeps ==
    ASSUME NEW e, Sound(e)
    PROVE  Keeps(UnretireConnection(e))
<1> DEFINE body == [e EXCEPT !.retired = FALSE]
<1>1. Sound(body)
  BY DEF Sound, Shaped, RetiredEmpty, Emptied
<1> QED
  BY <1>1, StopKeeps, WriteKeeps, OnEntryKeeps DEF UnretireConnection

\* recordReceivedGrants refuses a retired entry.
LEMMA ReceiveKeeps ==
    ASSUME NEW e, Sound(e), NEW channel, NEW now
    PROVE  Keeps(RecordReceivedGrants(e, channel, now))
<1> DEFINE held == e.grantsReceived
           merged == IF \A h \in held : h.serial # channel.serial
                                        /\ (channel.expires > h.expires
                                            \/ Lapsed(h, now))
                     THEN {channel} ELSE held
           kept == {h \in merged : ~ExpiredBeyondSkew(h, now)}
           body == [e EXCEPT !.grantsReceived = kept]
<1>1. ~e.retired => Sound(body)
  BY DEF Sound, Shaped, RetiredEmpty, Emptied
<1> QED
  BY <1>1, StopKeeps, WriteKeeps, OnEntryKeeps DEF RecordReceivedGrants

\* recordRenewedGrants needs a live channel, which no retired entry has.
LEMMA RenewKeeps ==
    ASSUME NEW e, Sound(e), NEW zcap, NEW now, NEW stamp
    PROVE  Keeps(RecordRenewedGrants(e, zcap, now, stamp))
<1> DEFINE superseded == {z \in Pending(e) : z.scope = zcap.scope}
           body == [e EXCEPT !.grants = Append(@, zcap), !.outbox =
                SupersedeAndQueueEnvelope(@, superseded, {zcap}, stamp)]
<1>1. ~e.retired => Sound(body)
  BY DEF Sound, Shaped, RetiredEmpty, Emptied
<1> QED
  BY <1>1, StopKeeps, WriteKeeps, OnEntryKeeps DEF RecordRenewedGrants, HasLiveChannel

\* settleOutboxItem
LEMMA SettleKeeps ==
    ASSUME NEW e, Sound(e), NEW createdAt
    PROVE  Keeps(SettleOutboxItem(e, createdAt))
<1> DEFINE kept == {item \in e.outbox : item.createdAt # createdAt}
           body == [e EXCEPT !.outbox = kept]
<1>1. Sound(body)
  BY DEF Sound, Shaped, RetiredEmpty, Emptied
<1> QED
  BY <1>1, StopKeeps, WriteKeeps, OnEntryKeeps DEF SettleOutboxItem

\* clearReceivedGrants
LEMMA ClearKeeps ==
    ASSUME NEW e, Sound(e)
    PROVE  Keeps(ClearReceivedGrants(e))
<1> DEFINE body == [e EXCEPT !.grantsReceived = {}, !.outbox = {}]
<1>1. Sound(body)
  BY DEF Sound, Shaped, RetiredEmpty, Emptied
<1> QED
  BY <1>1, StopKeeps, WriteKeeps, OnEntryKeeps DEF ClearReceivedGrants

\* dropReceivedGrant
LEMMA DropKeeps ==
    ASSUME NEW e, Sound(e), NEW serial
    PROVE  Keeps(DropReceivedGrant(e, serial))
<1> DEFINE kept == {h \in e.grantsReceived : h.serial # serial}
           body == [e EXCEPT !.grantsReceived = kept]
<1>1. Sound(body)
  BY DEF Sound, Shaped, RetiredEmpty, Emptied
<1> QED
  BY <1>1, StopKeeps, WriteKeeps, OnEntryKeeps DEF DropReceivedGrant

\* markDeclined
LEMMA DeclineKeeps ==
    ASSUME NEW e, Sound(e)
    PROVE  Keeps(MarkDeclined(e))
<1> DEFINE body == [e EXCEPT !.declined = TRUE]
<1>1. Sound(body)
  BY DEF Sound, Shaped, RetiredEmpty, Emptied
<1> QED
  BY <1>1, StopKeeps, WriteKeeps, OnEntryKeeps DEF MarkDeclined

\* settleReplicaRegistration needs a replica, which no retired entry has.
LEMMA SettleRegistrationKeeps ==
    ASSUME NEW e, Sound(e), NEW s, NEW id
    PROVE  Keeps(SettleReplicaRegistration(e, s, id))
<1> DEFINE item == CHOOSE r \in ItemOf(e, s) : TRUE
           settled == [item EXCEPT !.registrationId = id,
                                   !.pendingRegistrationId = None]
           body == [e EXCEPT !.replicas = WithReplica(e, settled)]
<1>1. ItemOf(e, s) # {} => Sound(body)
  BY DEF Sound, Shaped, RetiredEmpty, Emptied, ItemOf
<1> QED
  BY <1>1, StopKeeps, WriteKeeps, OnEntryKeeps DEF SettleReplicaRegistration

\* removeReplica
LEMMA RemoveReplicaKeeps ==
    ASSUME NEW e, Sound(e), NEW s
    PROVE  Keeps(RemoveReplica(e, s))
<1> DEFINE body == [e EXCEPT !.replicas = @ \ ItemOf(e, s)]
<1>1. Sound(body)
  BY DEF Sound, Shaped, RetiredEmpty, Emptied
<1> QED
  BY <1>1, StopKeeps, WriteKeeps, OnEntryKeeps DEF RemoveReplica

\* recordReplicas un-retires whatever it writes.
LEMMA RecordReplicasKeeps ==
    ASSUME NEW e, Sound(e), NEW a, NEW serial
    PROVE  Keeps(RecordReplicas(e, a, serial))
<1> DEFINE held == {r.fromSpace : r \in e.replicas}
           fresh == {[fromSpace |-> s, spaceId |-> serial,
                      registrationId |-> None, pendingRegistrationId |-> None,
                      markers |-> {}] : s \in a.spaces \ held}
           body == [e EXCEPT
                !.stands = TRUE, !.retired = FALSE, !.declined = FALSE,
                !.seed = IF a.seed = None THEN @ ELSE a.seed,
                !.replicas = @ \cup fresh]
<1>1. Sound(body)
  BY DEF Sound, Shaped, RetiredEmpty, Emptied
<1> QED
  BY <1>1, StopKeeps, WriteKeeps DEF RecordReplicas

\* touchConnectionWriter
LEMMA TouchKeeps ==
    ASSUME NEW e, Sound(e), NEW w, NEW now
    PROVE  Keeps(TouchWriter(e, w, now))
<1> DEFINE member == MemberToTouch(e, w, now)
           body == [e EXCEPT !.writers = (@ \ member) \cup
                        {[writerId |-> w, lastSeen |-> now, active |-> TRUE]}]
<1>1. Sound(body)
  BY DEF Sound, Shaped, RetiredEmpty, Emptied
<1> QED
  BY <1>1, StopKeeps, WriteKeeps, OnEntryKeeps DEF TouchWriter

\* sweepConnectionWriters
LEMMA SweepKeeps ==
    ASSUME NEW e, Sound(e), NEW now
    PROVE  Keeps(SweptWriters(e, now))
<1> DEFINE expired(m) == now - EffectiveLastSeen(m, now) > InactiveAfter
           swept == {[m EXCEPT !.active = @ /\ ~expired(m)] :
                       m \in Newest(e.writers, MaxWriters, now)}
           body == [e EXCEPT !.writers = swept]
<1>1. Sound(body)
  BY DEF Sound, Shaped, RetiredEmpty, Emptied
<1> QED
  BY <1>1, StopKeeps, WriteKeeps, OnEntryKeeps DEF SweptWriters

\* registerConnectionWriter un-retires whatever it writes.
LEMMA RegisterKeeps ==
    ASSUME NEW e, Sound(e), NEW w, NEW documentLists, NEW now
    PROVE  Keeps(WithOwnWriter(e, w, documentLists, now))
<1> DEFINE own == [writerId |-> w, lastSeen |-> now, active |-> TRUE]
           others == {m \in e.writers : m.writerId # w}
           room == IF others = e.writers
                   THEN Newest(others, MaxWriters - 1, now) ELSE others
           body == [e EXCEPT !.stands = TRUE, !.retired = FALSE,
                             !.writers = room \cup {own}]
<1>1. Sound(body)
  BY DEF Sound, Shaped, RetiredEmpty, Emptied
<1> QED
  BY <1>1, StopKeeps, WriteKeeps DEF WithOwnWriter

\* removeGrants writes only when a grant is listed.
LEMMA RemoveGrantsKeeps ==
    ASSUME NEW e, Sound(e), NEW zcaps
    PROVE  Keeps(RemoveGrants(e, zcaps))
<1> DEFINE body == [e EXCEPT !.grants = At(@, {i \in DOMAIN @ : @[i] \notin zcaps})]
<1>1. ASSUME Listed(e) \cap zcaps # {} PROVE ~e.retired
  <2>1. ASSUME e.retired PROVE DOMAIN e.grants = {}
    BY <2>1 DEF Sound, RetiredEmpty, Emptied
  <2> QED
    BY <1>1, <2>1 DEF Listed, Range
<1>2. ~e.retired => Sound(body)
  BY DEF Sound, Shaped, RetiredEmpty
<1> QED
  BY <1>1, <1>2, StopKeeps, WriteKeeps, OnEntryKeeps DEF RemoveGrants

\* setConnectionLabel
LEMMA LabelKeeps ==
    ASSUME NEW e, Sound(e), NEW a
    PROVE  Keeps(SetConnectionLabel(e, a))
<1>1. Sound([NoEntry EXCEPT !.stands = TRUE, !.label = a.label])
  BY DEF Sound, Shaped, RetiredEmpty, Emptied, NoEntry
<1>2. Sound([e EXCEPT !.label = a.label])
  BY DEF Sound, Shaped, RetiredEmpty, Emptied
<1> QED
  BY <1>1, <1>2, StopKeeps, WriteKeeps DEF SetConnectionLabel

\* pruneSupersededGrants writes only when something is listed or queued.
LEMMA PruneKeeps ==
    ASSUME NEW e, Sound(e), NEW dead, NEW now
    PROVE  Keeps(PruneSupersededGrants(e, dead, now))
<1> DEFINE stays == {i \in DOMAIN e.grants :
                       \/ IsLatestOfScope(e.grants, i)
                       \/ ~ExpiredBeyondSkew(e.grants[i], now)
                          /\ e.grants[i] \notin dead}
           queue == {item \in e.outbox :
                       \E z \in item.zcaps : ~ExpiredBeyondSkew(z, now)}
           body == [e EXCEPT !.outbox = queue, !.grants = At(@, stays)]
<1>1. ASSUME ~(stays = DOMAIN e.grants /\ queue = e.outbox) PROVE ~e.retired
  <2> SUFFICES ASSUME e.retired PROVE FALSE
    OBVIOUS
  <2>1. e.grants = <<>> /\ e.outbox = {}
    BY DEF Sound, RetiredEmpty, Emptied
  <2>2. DOMAIN e.grants = {}
    BY <2>1
  <2>3. stays = {} /\ queue = {}
    BY <2>1, <2>2
  <2> QED
    BY <1>1, <2>1, <2>2, <2>3
<1> HIDE DEF stays, queue
<1>2. ~e.retired => Sound(body)
  BY DEF Sound, Shaped, RetiredEmpty
<1> USE DEF stays, queue
<1> QED
  BY <1>1, <1>2, StopKeeps, WriteKeeps, OnEntryKeeps DEF PruneSupersededGrants

\* recordReplicaGrant refuses a retired entry.
LEMMA ReplicaGrantKeeps ==
    ASSUME NEW e, Sound(e), NEW a
    PROVE  Keeps(RecordReplicaGrant(e, a))
<1> DEFINE first == a.pending # None
           item == CHOOSE r \in ItemOf(e, a.zcap.scope) : TRUE
           grants == IF a.zcap \in Listed(e) THEN e.grants
                     ELSE Append(e.grants, a.zcap)
           replicas == IF first
                       THEN WithReplica(e, [item EXCEPT
                                              !.pendingRegistrationId = a.pending])
                       ELSE e.replicas
           body == [e EXCEPT !.grants = grants, !.replicas = replicas]
<1> HIDE DEF grants, replicas
<1>1. ~e.retired => Sound(body)
  BY DEF Sound, Shaped, RetiredEmpty
<1> USE DEF grants, replicas
<1> QED
  BY <1>1, StopKeeps, WriteKeeps, OnEntryKeeps DEF RecordReplicaGrant

\* The markers change no entry without replicas but its decline.
LEMMA MarkersKeeps ==
    ASSUME NEW e, Sound(e), NEW a
    PROVE  Keeps(WriteReplicaMarkers(e, a))
<1> DEFINE apply(r) == IF r.fromSpace \notin a.spaces THEN r
                       ELSE [r EXCEPT !.markers = IF a.set THEN @ \cup {a.marker}
                                                  ELSE @ \ {a.marker}]
           body == [e EXCEPT !.replicas = {apply(r) : r \in @},
                     !.declined = @ /\ ~(a.set /\ a.marker = "restartedAt")]
<1>1. Sound(body)
  BY DEF Sound, Shaped, RetiredEmpty, Emptied
<1> QED
  BY <1>1, StopKeeps, WriteKeeps, OnEntryKeeps DEF WriteReplicaMarkers

-----------------------------------------------------------------------------
(* The loop. *)

Ops == {"recordGrants", "removeGrants", "retireConnection",
        "unretireConnection", "setConnectionLabel", "recordReceivedGrants",
        "recordRenewedGrants", "settleOutboxItem", "pruneSupersededGrants",
        "clearReceivedGrants", "dropReceivedGrant", "markDeclined",
        "recordReplicas", "recordReplicaGrant", "settleReplicaRegistration",
        "writeReplicaMarkers", "removeReplica", "registerWriter",
        "touchWriter", "sweepWriters"}

\* Whatever the call, the change it makes of a sound body is sound.
LEMMA ChangeKeeps ==
    ASSUME NEW e, Sound(e), NEW j, j.op \in Ops
    PROVE  Keeps(Change(e, j))
BY RecordGrantsKeeps, RemoveGrantsKeeps, RetireKeeps, UnretireKeeps,
   LabelKeeps, ReceiveKeeps, RenewKeeps, SettleKeeps, PruneKeeps, ClearKeeps,
   DropKeeps, DeclineKeeps, RecordReplicasKeeps, ReplicaGrantKeeps,
   SettleRegistrationKeeps, MarkersKeeps, RemoveReplicaKeeps, RegisterKeeps,
   TouchKeeps, SweepKeeps
   DEF Change, Ops

\* A call under way: one of the helpers, with a sound body to write.
CallOK(j) ==
    /\ j = [f \in {"stage", "op", "arg", "now", "serial", "attempt", "base",
                   "next"} |-> j[f]]
    /\ j = Idle \/ j.op \in Ops
    /\ j.stage = "put" => Sound(j.next)

\* The inductive invariant. The stored body is sound, and so is every body a
\* client holds ready to write, for the write replaces the stored one whole.
RetiredInv ==
    /\ Sound(entry)
    /\ job = [c \in Client |-> job[c]] /\ torn = [c \in Client |-> torn[c]]
    /\ \A c \in Client : CallOK(job[c]) /\ CallOK(torn[c])

\* A client that runs no call is in order.
LEMMA IdleOK == CallOK(Idle)
BY DEF CallOK, Idle

\* The body an attempt made is sound.
LEMMA AttemptOK ==
    ASSUME RetiredInv, NEW j, j.op \in Ops, Change(entry, j).do = "put",
           j = [f \in {"stage", "op", "arg", "now", "serial", "attempt",
                       "base", "next"} |-> j[f]]
    PROVE  CallOK(Attempt(j))
<1>1. Sound(Change(entry, j).body)
  BY ChangeKeeps DEF RetiredInv, Keeps
<1> QED
  BY <1>1 DEF CallOK, Attempt

\* Initial bodies are not retired.
LEMMA InitSound == Init => RetiredInv
<1> SUFFICES ASSUME Init PROVE RetiredInv
  OBVIOUS
<1>1. Sound(entry)
  <2>1. \A g, o, r : Sound([NoEntry EXCEPT !.stands = TRUE, !.grants = g,
                                  !.outbox = o, !.grantsReceived = r])
    <3> TAKE g, o, r
    <3> QED
      BY DEF NoEntry, Sound, Shaped, RetiredEmpty
  <2>2. \A g, r : Sound([NoEntry EXCEPT !.stands = TRUE, !.grants = g,
                                        !.replicas = r])
    <3> TAKE g, r
    <3> QED
      BY DEF NoEntry, Sound, Shaped, RetiredEmpty
  <2>3. \A w : Sound([NoEntry EXCEPT !.stands = TRUE, !.writers = w])
    <3> TAKE w
    <3> QED
      BY DEF NoEntry, Sound, Shaped, RetiredEmpty
  <2>4. kind \in {"agent", "replica-server", "wallet-client"}
    BY KindsAssumption DEF Init, KindsAssumption
  <2>5. Sound(Consented)
    BY <2>1, Zenon DEF Consented
  <2>6. \A s, registered, pending : Sound(Replicated(s, registered, pending))
    BY <2>2, Zenon DEF Replicated
  <2>7. \A m : Sound(Enrolled(m))
    BY <2>3, Zenon DEF Enrolled
  <2> QED
    BY <2>4, <2>5, <2>6, <2>7, NoEntrySound DEF Init, InitialEntry
<1> QED
  BY <1>1, IdleOK DEF Init, RetiredInv

\* One client's call changes, the stored body does not.
LEMMA JobStep ==
    ASSUME RetiredInv, NEW c \in Client, NEW j, CallOK(j),
           job' = [job EXCEPT ![c] = j], UNCHANGED <<entry, torn>>
    PROVE  RetiredInv'
BY DEF RetiredInv

\* A helper's call begins.
LEMMA BeginStep ==
    ASSUME RetiredInv, NEW c \in Client, NEW op \in Ops, NEW arg, NEW serial,
           Begin(c, op, arg, serial)
    PROVE  RetiredInv'
<1> DEFINE j == [Idle EXCEPT !.op = op, !.arg = arg, !.now = day,
                             !.serial = serial]
<1>1. /\ Change(entry, j).do = "put" /\ UNCHANGED <<entry, torn>>
      /\ job' = [job EXCEPT ![c] = Attempt(j)]
  BY DEF Begin
<1>2. /\ j.op \in Ops
      /\ j = [f \in {"stage", "op", "arg", "now", "serial", "attempt",
                     "base", "next"} |-> j[f]]
  BY DEF Idle
<1> HIDE DEF j
<1>3. CallOK(Attempt(j))
  BY <1>1, <1>2, AttemptOK
<1> QED
  BY <1>1, <1>3, JobStep

\* A numbered one too.
LEMMA CallStep ==
    ASSUME RetiredInv, NEW c \in Client, NEW op \in Ops, NEW arg,
           Call(c, op, arg)
    PROVE  RetiredInv'
BY BeginStep DEF Call

\* The write: the stored body becomes the one that was ready.
LEMMA StoredStep ==
    ASSUME RetiredInv, NEW c \in Client, Stored(c)
    PROVE  Sound(entry')
BY DEF RetiredInv, CallOK, Stored

\* Every step keeps the invariant.
LEMMA StepSound == RetiredInv /\ [Next]_vars => RetiredInv'
<1> SUFFICES ASSUME RetiredInv, [Next]_vars PROVE RetiredInv'
  OBVIOUS
<1>1. CASE UNCHANGED <<entry, job, torn>>
  BY <1>1 DEF RetiredInv
<1>2. CASE \E c \in Client : CallRecordGrants(c)
  BY <1>2, CallStep DEF CallRecordGrants, Ops
<1>3. CASE \E c \in Client : Revoke(c)
  BY <1>3, CallStep DEF Revoke, Ops
<1>4. CASE \E c \in Client : CallClear(c)
  BY <1>4, CallStep DEF CallClear, Ops
<1>5. CASE \E c \in Client : CallMark(c)
  BY <1>5, CallStep DEF CallMark, Ops
<1>6. CASE \E c \in Client : CallChannel(c)
  BY <1>6, CallStep DEF CallChannel, Ops
<1>7. CASE \E c \in Client : CallRenew(c)
  BY <1>7, CallStep DEF CallRenew, Ops
<1>8. CASE \E c \in Client : PushEnvelope(c)
  BY <1>8, BeginStep DEF PushEnvelope, Ops
<1>9. CASE \E c \in Client : CallReplicas(c)
  BY <1>9, CallStep DEF CallReplicas, Ops
<1>10. CASE \E c \in Client : CallReplicaGrant(c)
  BY <1>10, CallStep DEF CallReplicaGrant, Ops
<1>11. CASE \E c \in Client : PostRegistration(c)
  BY <1>11, BeginStep DEF PostRegistration, Ops
<1>12. CASE \E c \in Client : CallRegister(c)
  BY <1>1, <1>12, CallStep DEF CallRegister, Ops
<1>13. CASE \E c \in Client : CallTouchOrSweep(c)
  BY <1>13, CallStep DEF CallTouchOrSweep, Ops
<1>14. ASSUME NEW c \in Client, Get(c) PROVE RetiredInv'
  <2>1. CASE job' = [job EXCEPT ![c] = Idle]
    BY <1>14, <2>1, IdleOK, JobStep DEF Get
  <2>2. CASE /\ Change(entry, job[c]).do = "put"
             /\ job' = [job EXCEPT ![c] = Attempt(job[c])]
    <3>1. /\ job[c].op \in Ops
          /\ job[c] = [f \in {"stage", "op", "arg", "now", "serial",
                              "attempt", "base", "next"} |-> job[c][f]]
      BY <1>14 DEF Get, RetiredInv, CallOK, Idle
    <3>2. CallOK(Attempt(job[c]))
      BY <2>2, <3>1, AttemptOK
    <3> QED
      BY <1>14, <2>2, <3>2, JobStep DEF Get
  <2> QED
    BY <1>14, <2>1, <2>2 DEF Get, End
<1>15. ASSUME NEW c \in Client, Put(c) PROVE RetiredInv'
  <2>1. Sound(entry')
    BY <1>15, StoredStep DEF Put
  <2> QED
    BY <1>15, <2>1, IdleOK DEF Put, End, RetiredInv
<1>16. ASSUME NEW c \in Client, LostRace(c) PROVE RetiredInv'
  <2>1. CASE job' = [job EXCEPT ![c] = Idle]
    BY <1>16, <2>1, IdleOK, JobStep DEF LostRace
  <2> DEFINE j == [job[c] EXCEPT !.stage = "get", !.attempt = @ + 1,
                                 !.next = NoEntry]
  <2>2. CASE job' = [job EXCEPT ![c] = j]
    <3>1. CallOK(job[c]) /\ job[c].op \in Ops
      BY <1>16 DEF LostRace, RetiredInv, CallOK, Idle
    <3>2. CallOK(j)
      BY <3>1 DEF CallOK
    <3> HIDE DEF j
    <3> QED
      BY <1>16, <2>2, <3>2, JobStep DEF LostRace
  <2>3. \/ job' = [job EXCEPT ![c].stage = "get", ![c].attempt = @ + 1,
                              ![c].next = NoEntry]
        \/ job' = [job EXCEPT ![c] = Idle]
    BY <1>16 DEF LostRace, End
  <2>4. ASSUME job' = [job EXCEPT ![c].stage = "get", ![c].attempt = @ + 1,
                                  ![c].next = NoEntry]
        PROVE  job' = [job EXCEPT ![c] = j]
    BY <2>4 DEF RetiredInv, CallOK
  <2> QED
    BY <2>1, <2>2, <2>3, <2>4
<1>17. ASSUME NEW c \in Client, LostReply(c) PROVE RetiredInv'
  <2>1. Sound(entry')
    BY <1>17, StoredStep DEF LostReply
  <2>2. PICK k : k = job[c]
    OBVIOUS
  <2>3. /\ job' = [job EXCEPT ![c] = Idle]
        /\ torn' = torn \/ torn' = [torn EXCEPT ![c] = k]
    BY <1>17, <2>2 DEF LostReply
  <2>4. CallOK(k) /\ CallOK(Idle)
    BY <2>2, IdleOK DEF RetiredInv
  <2> QED
    BY <2>1, <2>3, <2>4 DEF RetiredInv
<1>18. ASSUME NEW c \in Client, CallAgain(c) PROVE RetiredInv'
  <2> DEFINE j == [torn[c] EXCEPT !.stage = "get", !.now = day,
                        !.attempt = 0, !.base = 0, !.next = NoEntry]
  <2>1. CallOK(j)
    <3>1. PICK t : t = torn[c]
      OBVIOUS
    <3>2. /\ t.op \in Ops
          /\ t = [f \in {"stage", "op", "arg", "now", "serial", "attempt",
                         "base", "next"} |-> t[f]]
      BY <1>18, <3>1 DEF CallAgain, RetiredInv, CallOK
    <3>3. /\ j.op = t.op /\ j.stage = "get"
          /\ j = [f \in {"stage", "op", "arg", "now", "serial", "attempt",
                         "base", "next"} |-> j[f]]
      BY <3>1, <3>2
    <3> HIDE DEF j
    <3> QED
      BY <3>2, <3>3 DEF CallOK
  <2>2. /\ job' = [job EXCEPT ![c] = j] /\ UNCHANGED entry
        /\ torn' = [torn EXCEPT ![c] = Idle]
    BY <1>18 DEF CallAgain
  <2> HIDE DEF j
  <2> QED
    BY <2>1, <2>2, IdleOK DEF RetiredInv
<1>19. CASE \/ Tick \/ Unlist
            \/ \E c \in Client : FirstSession(c) \/ NewSession(c)
  BY <1>1, <1>19 DEF Tick, Unlist, FirstSession, NewSession
<1>20. CASE UNCHANGED vars
  BY <1>1, <1>20 DEF vars
<1> QED
  BY <1>2, <1>3, <1>4, <1>5, <1>6, <1>7, <1>8, <1>9, <1>10, <1>11, <1>12,
     <1>13, <1>14, <1>15, <1>16, <1>17, <1>18, <1>19, <1>20 DEF Next

\* A retired entry holds no grant, channel, envelope or replica, however many
\* clients call whatever helpers (retireConnection, and the refusals of
\* recordReceivedGrants, recordRenewedGrants and recordReplicaGrant, under
\* writeConnection's compare-and-swap loop).
THEOREM RetiredStaysEmpty == Spec => []RetiredIsEmpty
<1>1. RetiredInv => RetiredIsEmpty
  BY DEF RetiredInv, Sound, RetiredIsEmpty
<1> QED
  BY <1>1, InitSound, StepSound, PTL DEF Spec

-----------------------------------------------------------------------------
(* The inductive invariant of the other properties.                        *)

\* What the arguments of client c's call are.
ArgTyped(c, j) ==
    /\ j.now \in Nat /\ j.serial \in Nat
    /\ j.op = "recordGrants" =>
         /\ kind = "agent" /\ j.serial # None /\ j.arg.seed \in Client \cup {None}
         /\ \E z \in j.arg.grants : /\ j.arg.grants = {z} /\ z \in Zcap
                                     /\ z.serial = j.serial /\ z.renews = None
    /\ j.op = "setConnectionLabel" => j.arg.label \in Client
    /\ j.op = "recordReceivedGrants" => j.arg \in Channel
    /\ j.op = "recordRenewedGrants" =>
         /\ kind = "agent" /\ j.serial # None
         /\ j.arg \in Zcap /\ j.arg.serial = j.serial /\ j.arg.renews # None
    /\ j.op = "recordReplicas" =>
         /\ j.serial # None
         /\ j.arg.spaces \subseteq Space /\ j.arg.seed \in Client \cup {None}
    /\ j.op = "recordReplicaGrant" =>
         /\ kind = "replica-server" /\ j.serial # None /\ j.arg.pending \in Nat
         /\ j.arg.zcap \in Zcap /\ j.arg.zcap.serial = j.serial
    /\ j.op = "settleReplicaRegistration" =>
         j.arg.id \in Nat \ {None} /\ j.arg.space \in Space
    /\ j.op = "writeReplicaMarkers" => j.arg.marker \in Markers
    /\ j.op = "registerWriter" => j.arg.writer = c
    /\ j.op = "touchWriter" => j.arg = c

\* The capabilities of the calls there are: under way, or to be repeated.
InFlight == UNION {Records(job[c]) \cup Records(torn[c]) : c \in Client}

\* What the world, and the entry, say of them.
ArgOK(j) ==
    /\ j.now <= day /\ j.serial <= calls
    /\ j.op \in {"removeGrants", "retireConnection", "pruneSupersededGrants"} =>
         j.arg \subseteq void
    /\ j.op = "settleOutboxItem" =>
         /\ j.arg \in 0..calls
         /\ \A z \in Pending(entry) \cup InFlight :
              z.serial = j.arg => z \in delivered
    /\ j.op = "recordReplicas" =>
         /\ \A r \in entry.replicas : r.spaceId # j.serial
         /\ \A p \in posted : p[2] # j.serial
    /\ j.op = "settleReplicaRegistration" =>
         \E p \in posted : p[1] = j.arg.space /\ p[3] = j.arg.id

\* A capability a call carries is new, or the one recorded under its number;
\* one that renews names a recorded one.
Ident(j) ==
    \A z \in Records(j) :
        /\ \A g \in recorded : g.serial = z.serial => g = z
        /\ z.renews # None =>
             \E g \in recorded : g.serial = z.renews /\ g.scope = z.scope

SlotOK(c, j) == ArgTyped(c, j) /\ ArgOK(j) /\ Ident(j)

\* Two calls never share a number.
Distinct(j, k) == j.serial = None \/ j.serial # k.serial
Serials ==
    \A c \in Client :
        /\ Distinct(job[c], torn[c]) /\ torn[c].op # "recordReplicas"
        /\ \A d \in Client \ {c} : /\ Distinct(job[c], job[d])
                                    /\ Distinct(job[c], torn[d])
                                    /\ Distinct(torn[c], torn[d])

\* The ETag: a write that will be accepted is the change of what is stored.
FreshWrite(j) ==
    j.stage = "put" =>
        /\ j.base \in Nat /\ j.base <= version
        /\ j.base = version => /\ Change(entry, j).do = "put"
                               /\ j.next = Change(entry, j).body

\* The grants of a body e, where rec were ever recorded.
Numbered(rec) ==
    /\ rec \subseteq Zcap /\ \A g \in rec : g.serial # None /\ g.serial <= calls
    /\ \A g, h \in rec : g.serial = h.serial /\ g.scope = h.scope => g = h
    /\ \A h \in rec : h.renews # None =>
         \E g \in rec : /\ g.serial = h.renews /\ g.scope = h.scope
                        /\ g.expires < h.expires
Once(e) ==
    \A g, h \in Listed(e) :
        g.renews # None /\ g.renews = h.renews /\ g.scope = h.scope => g = h
Live(e, rec) ==
    \A g \in rec :
        g \in void \/ ExpiredBeyondSkew(g, day) \/ g \in ConnectionGrants(e)
Ledger(e, rec) ==
    /\ Listed(e) \cup Pending(e) \subseteq rec
    /\ Numbered(rec) /\ Once(e) /\ Live(e, rec)

\* Its envelopes, where ow was queued and not taken back.
Sorted(o) ==
    /\ \A i, k \in o : i # k => i.zcaps \cap k.zcaps = {}
    /\ \A i \in o : \A z \in i.zcaps : z.serial = i.createdAt
    /\ \A i, k \in o : i.createdAt = k.createdAt => i = k
Covered(e, ow) ==
    \A z \in ow : z \in Pending(e) \cup delivered \/ ExpiredBeyondSkew(z, day)

\* Its replicas. What was posted for a replica Space is what its item states
\* or waits for.
RegisteredItem(r) ==
    /\ r.spaceId <= calls
    /\ r.registrationId = None \/ r.pendingRegistrationId = None
    /\ \A p \in posted : p[1] = r.fromSpace /\ p[2] = r.spaceId =>
         p[3] \in {r.registrationId, r.pendingRegistrationId}
    /\ r.registrationId # None =>
         \E p \in posted : p[1] = r.fromSpace /\ p[3] = r.registrationId
PostedOK ==
    /\ \A p \in posted : p \in Space \X Nat \X (Nat \ {None}) /\ p[2] <= calls
    /\ \A p, q \in posted : p[1] = q[1] /\ p[2] = q[2] => p = q

\* Its writers.
BeatItem(m, b) ==
    /\ m.lastSeen >= b[m.writerId]
    /\ m.active \/ day - b[m.writerId] > InactiveAfter

LedgerOK == Ledger(entry, recorded)
OutboxOK == owed \subseteq Zcap /\ Sorted(entry.outbox) /\ Covered(entry, owed)
RegistrationOK == PostedOK /\ \A r \in entry.replicas : RegisteredItem(r)
BeatOK == beat \in [Writer -> Nat] /\ \A m \in entry.writers : BeatItem(m, beat)

StandsOK == ~entry.stands => entry = NoEntry

IInv ==
    /\ RetiredInv /\ TypeOK /\ StandsOK
    /\ \A c \in Client : /\ SlotOK(c, job[c]) /\ SlotOK(c, torn[c])
                          /\ FreshWrite(job[c])
    /\ Serials /\ LedgerOK /\ OutboxOK /\ RegistrationOK /\ BeatOK

-----------------------------------------------------------------------------
(* What each call writes. *)

\* The members of an entry by group.
FlagsTyped(e) ==
    /\ e.stands \in BOOLEAN /\ e.retired \in BOOLEAN /\ e.declined \in BOOLEAN
    /\ e.seed \in Client \cup {None} /\ e.label \in Client \cup {None}
OutboxTyped(o) == o \subseteq Item /\ \A item \in o : item.zcaps # {}
ReplicasTyped(rs) ==
    rs \subseteq Replica /\ \A r, q \in rs : r.fromSpace = q.fromSpace => r = q
WritersTyped(w) ==
    /\ w \subseteq Member /\ IsFiniteSet(w) /\ Cardinality(w) <= MaxWriters
    /\ \A m, n \in w : m.writerId = n.writerId => m = n

\* A well-formed entry is one in each of them.
LEMMA EntryParts ==
    ASSUME NEW e
    PROVE  EntryOK(e) <=>
             /\ FlagsTyped(e) /\ e.grants \in Seq(Zcap)
             /\ e.grantsReceived \subseteq Channel /\ OutboxTyped(e.outbox)
             /\ ReplicasTyped(e.replicas) /\ WritersTyped(e.writers)
BY DEF EntryOK, FlagsTyped, OutboxTyped, ReplicasTyped, WritersTyped

\* A write leaves every member but those in S as stored.
Fields == {"stands", "retired", "declined", "seed", "label", "grants",
           "grantsReceived", "outbox", "replicas", "writers"}
Frame(e, f, S) == \A x \in Fields \ S : f[x] = e[x]

\* What each helper writes, when it does.
LEMMA RemoveGrantsBody ==
    ASSUME NEW e, Shaped(e), NEW zcaps, RemoveGrants(e, zcaps).do = "put",
           NEW f, f = RemoveGrants(e, zcaps).body
    PROVE  /\ e.stands /\ Frame(e, f, {"grants"})
           /\ f.grants = At(e.grants, {i \in DOMAIN e.grants : e.grants[i] \notin zcaps})
BY DEF RemoveGrants, OnEntry, Write, Stop, Shaped, Frame, Fields

\* recordGrants
RecordGrantsWrites(e, a, stamp, f) ==
    /\ Frame(e, f, {"stands", "retired", "declined", "seed", "grants", "outbox"})
    /\ f.stands /\ f.retired \in BOOLEAN /\ f.declined \in BOOLEAN
    /\ f.seed \in {e.seed, a.seed}
    /\ f.grants = e.grants \o SetToSeq(a.grants \ Listed(e))
    /\ a.message => f.outbox =
         SupersedeAndQueueEnvelope(e.outbox, a.grants, a.grants, stamp)
    /\ ~a.message => f.outbox = e.outbox

\* That is what the call writes, when it does.
LEMMA RecordGrantsBody ==
    ASSUME NEW e, Shaped(e), NEW a, NEW stamp, RecordGrants(e, a, stamp).do = "put",
           NEW f, f = RecordGrants(e, a, stamp).body
    PROVE  RecordGrantsWrites(e, a, stamp, f)
<1>1. f = [e EXCEPT
            !.stands = TRUE, !.retired = FALSE, !.declined = FALSE,
            !.grants = @ \o SetToSeq(a.grants \ Listed(e)),
            !.seed = IF a.seed = None THEN @ ELSE a.seed,
            !.outbox = IF a.message
                       THEN SupersedeAndQueueEnvelope(@, a.grants, a.grants, stamp)
                       ELSE @]
  BY DEF RecordGrants, Write, Stop, Refuse
<1>2. PICK G : G = e.grants \o SetToSeq(a.grants \ Listed(e))
  OBVIOUS
<1>3. PICK D : D = IF a.seed = None THEN e.seed ELSE a.seed
  OBVIOUS
<1>4. PICK O : O = IF a.message
                   THEN SupersedeAndQueueEnvelope(e.outbox, a.grants, a.grants, stamp)
                   ELSE e.outbox
  OBVIOUS
<1>5. f = [e EXCEPT !.stands = TRUE, !.retired = FALSE, !.declined = FALSE,
                    !.grants = G, !.seed = D, !.outbox = O]
  BY <1>1, <1>2, <1>3, <1>4 DEF Shaped
<1>6. /\ f.stands /\ f.retired \in BOOLEAN /\ f.declined \in BOOLEAN
      /\ f.seed = D /\ f.grants = G /\ f.outbox = O
  BY <1>5 DEF Shaped
<1>7. Frame(e, f, {"stands", "retired", "declined", "seed", "grants", "outbox"})
  BY <1>5 DEF Shaped, Frame, Fields
<1> QED
  BY <1>2, <1>3, <1>4, <1>6, <1>7 DEF RecordGrantsWrites

\* retireConnection
LEMMA RetireBody ==
    ASSUME NEW e, Shaped(e), NEW zcaps, RetireConnection(e, zcaps).do = "put",
           NEW f, f = RetireConnection(e, zcaps).body
    PROVE  /\ e.stands /\ Frame(e, f, {"retired", "grants", "grantsReceived", "outbox"})
           /\ f.retired \in BOOLEAN
           /\ f.grants = <<>> /\ f.grantsReceived = {} /\ f.outbox = {}
           /\ ConnectionGrants(e) \subseteq zcaps
BY DEF RetireConnection, OnEntry, Write, Stop, Refuse, Shaped, Frame, Fields

\* unretireConnection
LEMMA UnretireBody ==
    ASSUME NEW e, Shaped(e), UnretireConnection(e).do = "put",
           NEW f, f = UnretireConnection(e).body
    PROVE  e.stands /\ Frame(e, f, {"retired"}) /\ f.retired \in BOOLEAN
BY DEF UnretireConnection, OnEntry, Write, Stop, Refuse, Shaped, Frame, Fields

\* setConnectionLabel
LEMMA LabelBody ==
    ASSUME NEW e, Shaped(e), ~e.stands => e = NoEntry, NEW a,
           SetConnectionLabel(e, a).do = "put",
           NEW f, f = SetConnectionLabel(e, a).body
    PROVE  Frame(e, f, {"stands", "label"}) /\ f.label = a.label /\ f.stands
BY DEF SetConnectionLabel, NoEntry, Write, Stop, Refuse, Shaped, Frame, Fields

\* recordReceivedGrants
LEMMA ReceiveBody ==
    ASSUME NEW e, Shaped(e), NEW channel, NEW now,
           RecordReceivedGrants(e, channel, now).do = "put",
           NEW f, f = RecordReceivedGrants(e, channel, now).body
    PROVE  /\ e.stands /\ Frame(e, f, {"grantsReceived"})
           /\ f.grantsReceived \subseteq e.grantsReceived \cup {channel}
BY DEF RecordReceivedGrants, OnEntry, Write, Stop, Refuse, Shaped, Frame, Fields

\* recordRenewedGrants
RenewWrites(e, zcap, stamp, f) ==
    /\ e.stands /\ Frame(e, f, {"grants", "outbox"}) /\ Renewable(e, zcap)
    /\ f.grants = Append(e.grants, zcap)
    /\ f.outbox = SupersedeAndQueueEnvelope(e.outbox,
         {z \in Pending(e) : z.scope = zcap.scope}, {zcap}, stamp)

\* That is what the call writes, when it does.
LEMMA RenewBody ==
    ASSUME NEW e, Shaped(e), NEW zcap, NEW now, NEW stamp,
           RecordRenewedGrants(e, zcap, now, stamp).do = "put",
           NEW f, f = RecordRenewedGrants(e, zcap, now, stamp).body
    PROVE  RenewWrites(e, zcap, stamp, f)
BY DEF RecordRenewedGrants, OnEntry, Write, Stop, Refuse, Shaped, Frame, Fields, RenewWrites

\* settleOutboxItem
LEMMA SettleBody ==
    ASSUME NEW e, Shaped(e), NEW createdAt, SettleOutboxItem(e, createdAt).do = "put",
           NEW f, f = SettleOutboxItem(e, createdAt).body
    PROVE  /\ e.stands /\ Frame(e, f, {"outbox"})
           /\ f.outbox = {item \in e.outbox : item.createdAt # createdAt}
BY DEF SettleOutboxItem, OnEntry, Write, Stop, Refuse, Shaped, Frame, Fields

\* pruneSupersededGrants
PruneWrites(e, dead, now, f) ==
    /\ e.stands /\ Frame(e, f, {"grants", "outbox"})
    /\ f.grants = At(e.grants, {i \in DOMAIN e.grants :
                       \/ IsLatestOfScope(e.grants, i)
                       \/ ~ExpiredBeyondSkew(e.grants[i], now)
                          /\ e.grants[i] \notin dead})
    /\ f.outbox = {item \in e.outbox :
                     \E z \in item.zcaps : ~ExpiredBeyondSkew(z, now)}

\* That is what the call writes, when it does.
LEMMA PruneBody ==
    ASSUME NEW e, Shaped(e), NEW dead, NEW now,
           PruneSupersededGrants(e, dead, now).do = "put",
           NEW f, f = PruneSupersededGrants(e, dead, now).body
    PROVE  PruneWrites(e, dead, now, f)
<1> DEFINE stays == {i \in DOMAIN e.grants :
                       \/ IsLatestOfScope(e.grants, i)
                       \/ ~ExpiredBeyondSkew(e.grants[i], now)
                          /\ e.grants[i] \notin dead}
           queue == {item \in e.outbox :
                       \E z \in item.zcaps : ~ExpiredBeyondSkew(z, now)}
<1>1. PruneSupersededGrants(e, dead, now) =
        OnEntry(e, IF stays = DOMAIN e.grants /\ queue = e.outbox THEN Stop
                   ELSE Write([e EXCEPT !.outbox = queue, !.grants = At(@, stays)]))
  BY DEF PruneSupersededGrants
<1> HIDE DEF stays, queue
<1>2. e.stands /\ f = [e EXCEPT !.outbox = queue, !.grants = At(@, stays)]
  BY <1>1 DEF OnEntry, Write, Stop
<1>3. Frame(e, f, {"grants", "outbox"}) /\ f.grants = At(e.grants, stays) /\ f.outbox = queue
  BY <1>2 DEF Shaped, Frame, Fields
<1> QED
  BY <1>2, <1>3 DEF stays, queue, PruneWrites

\* clearReceivedGrants
LEMMA ClearBody ==
    ASSUME NEW e, Shaped(e), ClearReceivedGrants(e).do = "put",
           NEW f, f = ClearReceivedGrants(e).body
    PROVE  /\ e.stands /\ Frame(e, f, {"grantsReceived", "outbox"})
           /\ f.grantsReceived = {} /\ f.outbox = {}
BY DEF ClearReceivedGrants, OnEntry, Write, Stop, Refuse, Shaped, Frame, Fields

\* dropReceivedGrant
LEMMA DropBody ==
    ASSUME NEW e, Shaped(e), NEW serial, DropReceivedGrant(e, serial).do = "put",
           NEW f, f = DropReceivedGrant(e, serial).body
    PROVE  /\ e.stands /\ Frame(e, f, {"grantsReceived"})
           /\ f.grantsReceived \subseteq e.grantsReceived
BY DEF DropReceivedGrant, OnEntry, Write, Stop, Refuse, Shaped, Frame, Fields

\* markDeclined
LEMMA DeclineBody ==
    ASSUME NEW e, Shaped(e), MarkDeclined(e).do = "put",
           NEW f, f = MarkDeclined(e).body
    PROVE  e.stands /\ Frame(e, f, {"declined"}) /\ f.declined \in BOOLEAN
BY DEF MarkDeclined, OnEntry, Write, Stop, Refuse, Shaped, Frame, Fields

\* recordReplicas
RecordReplicasWrites(e, a, serial, f) ==
    /\ Frame(e, f, {"stands", "retired", "declined", "seed", "replicas"})
    /\ f.stands /\ f.retired \in BOOLEAN /\ f.declined \in BOOLEAN
    /\ f.seed \in {e.seed, a.seed}
    /\ f.replicas = e.replicas \cup
         {[fromSpace |-> s, spaceId |-> serial, registrationId |-> None,
           pendingRegistrationId |-> None, markers |-> {}] :
            s \in a.spaces \ {r.fromSpace : r \in e.replicas}}

\* That is what the call writes, when it does.
LEMMA RecordReplicasBody ==
    ASSUME NEW e, Shaped(e), NEW a, NEW serial, RecordReplicas(e, a, serial).do = "put",
           NEW f, f = RecordReplicas(e, a, serial).body
    PROVE  RecordReplicasWrites(e, a, serial, f)
<1> DEFINE fresh == {[fromSpace |-> s, spaceId |-> serial, registrationId |-> None,
                      pendingRegistrationId |-> None, markers |-> {}] :
                       s \in a.spaces \ {r.fromSpace : r \in e.replicas}}
<1>1. f = [e EXCEPT !.stands = TRUE, !.retired = FALSE, !.declined = FALSE,
                    !.seed = IF a.seed = None THEN @ ELSE a.seed,
                    !.replicas = @ \cup fresh]
  BY DEF RecordReplicas, Write, Stop, Refuse
<1> HIDE DEF fresh
<1>2. /\ Frame(e, f, {"stands", "retired", "declined", "seed", "replicas"})
      /\ f.stands /\ f.retired \in BOOLEAN /\ f.declined \in BOOLEAN
      /\ f.seed \in {e.seed, a.seed} /\ f.replicas = e.replicas \cup fresh
  BY <1>1 DEF Shaped, Frame, Fields
<1> QED
  BY <1>2 DEF fresh, RecordReplicasWrites

\* recordReplicaGrant
ReplicaGrantWrites(e, a, f) ==
    /\ e.stands /\ Frame(e, f, {"grants", "replicas"})
    /\ f.grants = IF a.zcap \in Listed(e) THEN e.grants ELSE Append(e.grants, a.zcap)
    /\ a.zcap.renews # None => Renewable(e, a.zcap)
    /\ \E item \in e.replicas :
         /\ item.fromSpace = a.zcap.scope
         /\ a.pending = None => f.replicas = e.replicas
         /\ a.pending # None =>
              /\ ~RegistrationRefused(item, a.pending)
              /\ f.replicas = WithReplica(e,
                     [item EXCEPT !.pendingRegistrationId = a.pending])

\* That is what the call writes, when it does.
LEMMA ReplicaGrantBody ==
    ASSUME NEW e, Shaped(e), NEW a, RecordReplicaGrant(e, a).do = "put",
           NEW f, f = RecordReplicaGrant(e, a).body
    PROVE  ReplicaGrantWrites(e, a, f)
<1> DEFINE first == a.pending # None
           item == CHOOSE r \in ItemOf(e, a.zcap.scope) : TRUE
           grants == IF a.zcap \in Listed(e) THEN e.grants
                     ELSE Append(e.grants, a.zcap)
           replicas == IF first
                       THEN WithReplica(e, [item EXCEPT
                                              !.pendingRegistrationId = a.pending])
                       ELSE e.replicas
<1>1. RecordReplicaGrant(e, a) = OnEntry(e,
        IF \/ e.retired \/ ItemOf(e, a.zcap.scope) = {}
           \/ a.zcap.renews # None /\ ~Renewable(e, a.zcap)
           \/ first /\ RegistrationRefused(item, a.pending)
        THEN Refuse
        ELSE IF grants = e.grants /\ replicas = e.replicas THEN Stop
        ELSE Write([e EXCEPT !.grants = grants, !.replicas = replicas]))
  BY DEF RecordReplicaGrant
<1> HIDE DEF grants, replicas, item
<1>2. /\ e.stands /\ f = [e EXCEPT !.grants = grants, !.replicas = replicas]
      /\ ItemOf(e, a.zcap.scope) # {}
      /\ a.zcap.renews # None => Renewable(e, a.zcap)
      /\ first => ~RegistrationRefused(item, a.pending)
  BY <1>1 DEF OnEntry, Write, Stop, Refuse
<1>3. Frame(e, f, {"grants", "replicas"}) /\ f.grants = grants /\ f.replicas = replicas
  BY <1>2 DEF Shaped, Frame, Fields
<1>4. item \in e.replicas /\ item.fromSpace = a.zcap.scope
  BY <1>2 DEF item, ItemOf
<1> QED
  BY <1>2, <1>3, <1>4 DEF grants, replicas, ReplicaGrantWrites

\* settleReplicaRegistration
SettleRegistrationWrites(e, s, id, f) ==
    /\ e.stands /\ Frame(e, f, {"replicas"})
    /\ \E item \in e.replicas :
         /\ item.fromSpace = s /\ item.pendingRegistrationId = id
         /\ f.replicas = WithReplica(e,
              [item EXCEPT !.registrationId = id,
                           !.pendingRegistrationId = None])

\* That is what the call writes, when it does.
LEMMA SettleRegistrationBody ==
    ASSUME NEW e, Shaped(e), NEW s, NEW id,
           SettleReplicaRegistration(e, s, id).do = "put",
           NEW f, f = SettleReplicaRegistration(e, s, id).body
    PROVE  SettleRegistrationWrites(e, s, id, f)
<1> DEFINE item == CHOOSE r \in ItemOf(e, s) : TRUE
           settled == [item EXCEPT !.registrationId = id,
                                   !.pendingRegistrationId = None]
<1>1. SettleReplicaRegistration(e, s, id) = OnEntry(e,
        IF ItemOf(e, s) = {} THEN Refuse
        ELSE IF item = settled THEN Stop
        ELSE IF item.pendingRegistrationId # id THEN Refuse
        ELSE Write([e EXCEPT !.replicas = WithReplica(e, settled)]))
  BY DEF SettleReplicaRegistration
<1> HIDE DEF item, settled
<1>2. /\ e.stands /\ f = [e EXCEPT !.replicas = WithReplica(e, settled)]
      /\ ItemOf(e, s) # {} /\ item.pendingRegistrationId = id
  BY <1>1 DEF OnEntry, Write, Stop, Refuse
<1>3. Frame(e, f, {"replicas"}) /\ f.replicas = WithReplica(e, settled)
  BY <1>2 DEF Shaped, Frame, Fields
<1>4. item \in e.replicas /\ item.fromSpace = s
  BY <1>2 DEF item, ItemOf
<1> QED
  BY <1>2, <1>3, <1>4 DEF settled, SettleRegistrationWrites

\* writeReplicaMarkers
MarkersWrites(e, a, f) ==
    /\ e.stands /\ Frame(e, f, {"replicas", "declined"}) /\ f.declined \in BOOLEAN
    /\ f.replicas = {IF r.fromSpace \notin a.spaces THEN r
                     ELSE [r EXCEPT !.markers =
                             IF a.set THEN @ \cup {a.marker} ELSE @ \ {a.marker}] :
                       r \in e.replicas}

\* That is what the call writes, when it does.
LEMMA MarkersBody ==
    ASSUME NEW e, Shaped(e), NEW a, WriteReplicaMarkers(e, a).do = "put",
           NEW f, f = WriteReplicaMarkers(e, a).body
    PROVE  MarkersWrites(e, a, f)
<1> DEFINE apply(r) == IF r.fromSpace \notin a.spaces THEN r
                       ELSE [r EXCEPT !.markers = IF a.set THEN @ \cup {a.marker}
                                                  ELSE @ \ {a.marker}]
           rs == {apply(r) : r \in e.replicas}
           b == e.declined /\ ~(a.set /\ a.marker = "restartedAt")
<1>1. WriteReplicaMarkers(e, a) =
        OnEntry(e, IF \E s \in a.spaces : ItemOf(e, s) = {} THEN Refuse
                   ELSE IF [e EXCEPT !.replicas = rs, !.declined = b] = e THEN Stop
                   ELSE Write([e EXCEPT !.replicas = rs, !.declined = b]))
  BY DEF WriteReplicaMarkers
<1>2. b \in BOOLEAN
  OBVIOUS
<1> HIDE DEF rs, b
<1>3. e.stands /\ f = [e EXCEPT !.replicas = rs, !.declined = b]
  BY <1>1 DEF OnEntry, Write, Stop, Refuse
<1>4. Frame(e, f, {"replicas", "declined"}) /\ f.declined = b /\ f.replicas = rs
  BY <1>3 DEF Shaped, Frame, Fields
<1> QED
  BY <1>2, <1>3, <1>4 DEF rs, MarkersWrites

\* removeReplica
LEMMA RemoveReplicaBody ==
    ASSUME NEW e, Shaped(e), NEW s, RemoveReplica(e, s).do = "put",
           NEW f, f = RemoveReplica(e, s).body
    PROVE  /\ e.stands /\ Frame(e, f, {"replicas"})
           /\ f.replicas = e.replicas \ ItemOf(e, s)
           /\ \A g \in Listed(e) : g.scope # s
BY DEF RemoveReplica, OnEntry, Write, Stop, Refuse, Shaped, Frame, Fields

\* registerConnectionWriter
RegisterWrites(e, w, now, f) ==
    /\ Frame(e, f, {"stands", "retired", "writers"})
    /\ f.stands /\ f.retired \in BOOLEAN
    /\ \E room :
         /\ f.writers = room \cup
              {[writerId |-> w, lastSeen |-> now, active |-> TRUE]}
         /\ \/ /\ \A m \in e.writers : m.writerId # w
               /\ room = Newest(e.writers, MaxWriters - 1, now)
            \/ /\ \E m \in e.writers : m.writerId = w
               /\ room = {m \in e.writers : m.writerId # w}

\* That is what the call writes, when it does.
LEMMA RegisterBody ==
    ASSUME NEW e, Shaped(e), NEW w, NEW lists, NEW now,
           WithOwnWriter(e, w, lists, now).do = "put",
           NEW f, f = WithOwnWriter(e, w, lists, now).body
    PROVE  RegisterWrites(e, w, now, f)
<1> DEFINE own == [writerId |-> w, lastSeen |-> now, active |-> TRUE]
           others == {m \in e.writers : m.writerId # w}
           room == IF others = e.writers
                   THEN Newest(others, MaxWriters - 1, now) ELSE others
<1>1. WithOwnWriter(e, w, lists, now) =
        IF ~lists /\ (~e.stands \/ e.retired) THEN Stop
        ELSE Write([e EXCEPT !.stands = TRUE, !.retired = FALSE,
                             !.writers = room \cup {own}])
  BY DEF WithOwnWriter
<1>2. \/ others = e.writers /\ \A m \in e.writers : m.writerId # w
      \/ others # e.writers /\ \E m \in e.writers : m.writerId = w
  OBVIOUS
<1>3. \/ (\A m \in e.writers : m.writerId # w) /\ room = Newest(e.writers, MaxWriters - 1, now)
      \/ (\E m \in e.writers : m.writerId = w) /\ room = others
  BY <1>2
<1> HIDE DEF room, own
<1>4. f = [e EXCEPT !.stands = TRUE, !.retired = FALSE, !.writers = room \cup {own}]
  BY <1>1 DEF Write, Stop
<1>5. /\ Frame(e, f, {"stands", "retired", "writers"})
      /\ f.stands /\ f.retired \in BOOLEAN /\ f.writers = room \cup {own}
  BY <1>4 DEF Shaped, Frame, Fields
<1>6. f.writers = room \cup {[writerId |-> w, lastSeen |-> now, active |-> TRUE]}
  BY <1>5 DEF own
<1> QED
  BY <1>3, <1>5, <1>6 DEF RegisterWrites

\* touchConnectionWriter
LEMMA TouchBody ==
    ASSUME NEW e, Shaped(e), NEW w, NEW now, TouchWriter(e, w, now).do = "put",
           NEW f, f = TouchWriter(e, w, now).body
    PROVE  /\ e.stands /\ Frame(e, f, {"writers"}) /\ MemberToTouch(e, w, now) # {}
           /\ f.writers = (e.writers \ MemberToTouch(e, w, now)) \cup
                {[writerId |-> w, lastSeen |-> now, active |-> TRUE]}
BY DEF TouchWriter, OnEntry, Write, Stop, Refuse, Shaped, Frame, Fields

\* sweepConnectionWriters
SweepWrites(e, now, f) ==
    /\ e.stands /\ Frame(e, f, {"writers"})
    /\ f.writers =
         {[m EXCEPT !.active =
             @ /\ ~(now - EffectiveLastSeen(m, now) > InactiveAfter)] :
            m \in Newest(e.writers, MaxWriters, now)}

\* That is what the call writes, when it does.
LEMMA SweepBody ==
    ASSUME NEW e, Shaped(e), NEW now, SweptWriters(e, now).do = "put",
           NEW f, f = SweptWriters(e, now).body
    PROVE  SweepWrites(e, now, f)
<1> DEFINE swept == {[m EXCEPT !.active =
                        @ /\ ~(now - EffectiveLastSeen(m, now) > InactiveAfter)] :
                       m \in Newest(e.writers, MaxWriters, now)}
<1>1. SweptWriters(e, now) = OnEntry(e, IF swept = e.writers THEN Stop
                  ELSE Write([e EXCEPT !.writers = swept]))
  BY DEF SweptWriters
<1> HIDE DEF swept
<1>2. e.stands /\ f = [e EXCEPT !.writers = swept]
  BY <1>1 DEF OnEntry, Write, Stop
<1>3. Frame(e, f, {"writers"}) /\ f.writers = swept
  BY <1>2 DEF Shaped, Frame, Fields
<1> QED
  BY <1>2, <1>3 DEF swept, SweepWrites

-----------------------------------------------------------------------------
(* What a change makes of a well-formed body, by group of members. *)

\* The body f that the call j of client c makes of the body e.
Made(e, c, j, f) ==
    /\ Shaped(e) /\ EntryOK(e) /\ (~e.stands => e = NoEntry)
    /\ j.op \in Ops /\ ArgTyped(c, j)
    /\ Change(e, j).do = "put" /\ f = Change(e, j).body

\* The calls that may change the grants, the channels, the envelopes, the
\* replicas and the writers.
GrantOps == {"recordGrants", "removeGrants", "retireConnection",
             "recordRenewedGrants", "pruneSupersededGrants", "recordReplicaGrant"}
ChannelOps == {"retireConnection", "recordReceivedGrants", "clearReceivedGrants",
               "dropReceivedGrant"}
OutboxOps == {"recordGrants", "retireConnection", "recordRenewedGrants",
              "settleOutboxItem", "pruneSupersededGrants", "clearReceivedGrants"}
ReplicaOps == {"recordReplicas", "recordReplicaGrant", "settleReplicaRegistration",
               "writeReplicaMarkers", "removeReplica"}
WriterOps == {"registerWriter", "touchWriter", "sweepWriters"}

LeavesAlone(e, j, f) ==
    /\ f.stands
    /\ j.op \notin GrantOps => f.grants = e.grants
    /\ j.op \notin ChannelOps => f.grantsReceived = e.grantsReceived
    /\ j.op \notin OutboxOps => f.outbox = e.outbox
    /\ j.op \notin ReplicaOps => f.replicas = e.replicas
    /\ j.op \notin WriterOps => f.writers = e.writers

\* Every other call leaves them as they are stored.
LEMMA ChangeLeaves ==
    ASSUME NEW e, NEW c, NEW j, NEW f, Made(e, c, j, f)
    PROVE  LeavesAlone(e, j, f)
<1> USE DEF Made, LeavesAlone, GrantOps, ChannelOps, OutboxOps, ReplicaOps, WriterOps
<1>1. CASE j.op = "recordGrants"
  <2>1. RecordGrantsWrites(e, j.arg, j.serial, f)
    BY <1>1, RecordGrantsBody DEF Change
  <2> QED
    BY <1>1, <2>1 DEF RecordGrantsWrites, Frame, Fields
<1>2. CASE j.op = "removeGrants"
  <2>1. Change(e, j) = RemoveGrants(e, j.arg)
    BY <1>2 DEF Change
  <2>2. e.stands /\ Frame(e, f, {"grants"})
    BY <2>1, RemoveGrantsBody
  <2> QED
    BY <1>2, <2>2 DEF Frame, Fields
<1>3. CASE j.op = "retireConnection"
  BY <1>3, RetireBody DEF Change, Frame, Fields
<1>4. CASE j.op = "unretireConnection"
  BY <1>4, UnretireBody DEF Change, Frame, Fields
<1>5. CASE j.op = "setConnectionLabel"
  BY <1>5, LabelBody DEF Change, Frame, Fields
<1>6. CASE j.op = "recordReceivedGrants"
  BY <1>6, ReceiveBody DEF Change, Frame, Fields
<1>7. CASE j.op = "recordRenewedGrants"
  <2>1. RenewWrites(e, j.arg, j.serial, f)
    BY <1>7, RenewBody DEF Change
  <2> QED
    BY <1>7, <2>1 DEF RenewWrites, Frame, Fields
<1>8. CASE j.op = "settleOutboxItem"
  BY <1>8, SettleBody DEF Change, Frame, Fields
<1>9. CASE j.op = "pruneSupersededGrants"
  <2>1. PruneWrites(e, j.arg, j.now, f)
    BY <1>9, PruneBody DEF Change
  <2> QED
    BY <1>9, <2>1 DEF PruneWrites, Frame, Fields
<1>10. CASE j.op = "clearReceivedGrants"
  BY <1>10, ClearBody DEF Change, Frame, Fields
<1>11. CASE j.op = "dropReceivedGrant"
  BY <1>11, DropBody DEF Change, Frame, Fields
<1>12. CASE j.op = "markDeclined"
  BY <1>12, DeclineBody DEF Change, Frame, Fields
<1>13. CASE j.op = "recordReplicas"
  <2>1. RecordReplicasWrites(e, j.arg, j.serial, f)
    BY <1>13, RecordReplicasBody DEF Change
  <2> QED
    BY <1>13, <2>1 DEF RecordReplicasWrites, Frame, Fields
<1>14. CASE j.op = "recordReplicaGrant"
  <2>1. ReplicaGrantWrites(e, j.arg, f)
    BY <1>14, ReplicaGrantBody DEF Change
  <2> QED
    BY <1>14, <2>1 DEF ReplicaGrantWrites, Frame, Fields
<1>15. CASE j.op = "settleReplicaRegistration"
  <2>1. SettleRegistrationWrites(e, j.arg.space, j.arg.id, f)
    BY <1>15, SettleRegistrationBody DEF Change
  <2> QED
    BY <1>15, <2>1 DEF SettleRegistrationWrites, Frame, Fields
<1>16. CASE j.op = "writeReplicaMarkers"
  <2>1. MarkersWrites(e, j.arg, f)
    BY <1>16, MarkersBody DEF Change
  <2> QED
    BY <1>16, <2>1 DEF MarkersWrites, Frame, Fields
<1>17. CASE j.op = "removeReplica"
  BY <1>17, RemoveReplicaBody DEF Change, Frame, Fields
<1>18. CASE j.op = "registerWriter"
  <2>1. RegisterWrites(e, j.arg.writer, j.now, f)
    BY <1>18, RegisterBody DEF Change
  <2> QED
    BY <1>18, <2>1 DEF RegisterWrites, Frame, Fields
<1>19. CASE j.op = "touchWriter"
  BY <1>19, TouchBody DEF Change, Frame, Fields
<1>20. CASE j.op = "sweepWriters"
  <2>1. SweepWrites(e, j.now, f)
    BY <1>20, SweepBody DEF Change
  <2> QED
    BY <1>20, <2>1 DEF SweepWrites, Frame, Fields
<1> QED
  BY <1>1, <1>2, <1>3, <1>4, <1>5, <1>6, <1>7, <1>8, <1>9, <1>10, <1>11, <1>12, <1>13, <1>14, <1>15, <1>16, <1>17, <1>18, <1>19, <1>20 DEF Ops

\* The flags, the seed and the label stay what they are.
LEMMA FlagsMade ==
    ASSUME NEW e, NEW c \in Client, NEW j, NEW f, Made(e, c, j, f)
    PROVE  FlagsTyped(f)
<1> USE DEF Made
<1>1. FlagsTyped(e)
  BY EntryParts
<1>2. CASE j.op = "recordGrants"
  <2>1. RecordGrantsWrites(e, j.arg, j.serial, f)
    BY <1>2, RecordGrantsBody DEF Change
  <2> QED
    BY <1>1, <1>2, <2>1 DEF RecordGrantsWrites, Frame, Fields, FlagsTyped, ArgTyped
<1>3. CASE j.op = "removeGrants"
  <2>1. Change(e, j) = RemoveGrants(e, j.arg)
    BY <1>3 DEF Change
  <2>2. Frame(e, f, {"grants"})
    BY <2>1, RemoveGrantsBody
  <2> QED
    BY <1>1, <2>2 DEF Frame, Fields, FlagsTyped
<1>4. CASE j.op = "retireConnection"
  BY <1>1, <1>4, RetireBody DEF Change, Frame, Fields, FlagsTyped, ArgTyped
<1>5. CASE j.op = "unretireConnection"
  BY <1>1, <1>5, UnretireBody DEF Change, Frame, Fields, FlagsTyped, ArgTyped
<1>6. CASE j.op = "setConnectionLabel"
  <2>1. Frame(e, f, {"stands", "label"}) /\ f.label = j.arg.label /\ f.stands
    BY <1>6, LabelBody DEF Change
  <2> QED
    BY <1>1, <1>6, <2>1 DEF Frame, Fields, FlagsTyped, ArgTyped
<1>7. CASE j.op = "recordReceivedGrants"
  BY <1>1, <1>7, ReceiveBody DEF Change, Frame, Fields, FlagsTyped, ArgTyped
<1>8. CASE j.op = "recordRenewedGrants"
  <2>1. RenewWrites(e, j.arg, j.serial, f)
    BY <1>8, RenewBody DEF Change
  <2> QED
    BY <1>1, <1>8, <2>1 DEF RenewWrites, Frame, Fields, FlagsTyped, ArgTyped
<1>9. CASE j.op = "settleOutboxItem"
  BY <1>1, <1>9, SettleBody DEF Change, Frame, Fields, FlagsTyped, ArgTyped
<1>10. CASE j.op = "pruneSupersededGrants"
  <2>1. PruneWrites(e, j.arg, j.now, f)
    BY <1>10, PruneBody DEF Change
  <2> QED
    BY <1>1, <1>10, <2>1 DEF PruneWrites, Frame, Fields, FlagsTyped, ArgTyped
<1>11. CASE j.op = "clearReceivedGrants"
  BY <1>1, <1>11, ClearBody DEF Change, Frame, Fields, FlagsTyped, ArgTyped
<1>12. CASE j.op = "dropReceivedGrant"
  BY <1>1, <1>12, DropBody DEF Change, Frame, Fields, FlagsTyped, ArgTyped
<1>13. CASE j.op = "markDeclined"
  BY <1>1, <1>13, DeclineBody DEF Change, Frame, Fields, FlagsTyped, ArgTyped
<1>14. CASE j.op = "recordReplicas"
  <2>1. RecordReplicasWrites(e, j.arg, j.serial, f)
    BY <1>14, RecordReplicasBody DEF Change
  <2> QED
    BY <1>1, <1>14, <2>1 DEF RecordReplicasWrites, Frame, Fields, FlagsTyped, ArgTyped
<1>15. CASE j.op = "recordReplicaGrant"
  <2>1. ReplicaGrantWrites(e, j.arg, f)
    BY <1>15, ReplicaGrantBody DEF Change
  <2> QED
    BY <1>1, <1>15, <2>1 DEF ReplicaGrantWrites, Frame, Fields, FlagsTyped, ArgTyped
<1>16. CASE j.op = "settleReplicaRegistration"
  <2>1. SettleRegistrationWrites(e, j.arg.space, j.arg.id, f)
    BY <1>16, SettleRegistrationBody DEF Change
  <2> QED
    BY <1>1, <1>16, <2>1 DEF SettleRegistrationWrites, Frame, Fields, FlagsTyped, ArgTyped
<1>17. CASE j.op = "writeReplicaMarkers"
  <2>1. MarkersWrites(e, j.arg, f)
    BY <1>17, MarkersBody DEF Change
  <2> QED
    BY <1>1, <1>17, <2>1 DEF MarkersWrites, Frame, Fields, FlagsTyped, ArgTyped
<1>18. CASE j.op = "removeReplica"
  BY <1>1, <1>18, RemoveReplicaBody DEF Change, Frame, Fields, FlagsTyped, ArgTyped
<1>19. CASE j.op = "registerWriter"
  <2>1. RegisterWrites(e, j.arg.writer, j.now, f)
    BY <1>19, RegisterBody DEF Change
  <2> QED
    BY <1>1, <1>19, <2>1 DEF RegisterWrites, Frame, Fields, FlagsTyped, ArgTyped
<1>20. CASE j.op = "touchWriter"
  BY <1>1, <1>20, TouchBody DEF Change, Frame, Fields, FlagsTyped, ArgTyped
<1>21. CASE j.op = "sweepWriters"
  <2>1. SweepWrites(e, j.now, f)
    BY <1>21, SweepBody DEF Change
  <2> QED
    BY <1>1, <1>21, <2>1 DEF SweepWrites, Frame, Fields, FlagsTyped, ArgTyped
<1> QED
  BY <1>2, <1>3, <1>4, <1>5, <1>6, <1>7, <1>8, <1>9, <1>10, <1>11, <1>12, <1>13, <1>14, <1>15, <1>16, <1>17, <1>18, <1>19, <1>20, <1>21 DEF Ops

\* The channels held are the party's, or the one handed over.
LEMMA ChannelsMade ==
    ASSUME NEW e, NEW c \in Client, NEW j, NEW f, Made(e, c, j, f)
    PROVE  f.grantsReceived \subseteq Channel
<1> USE DEF Made
<1>1. e.grantsReceived \subseteq Channel
  BY EntryParts
<1>2. CASE j.op \notin ChannelOps
  BY <1>1, <1>2, ChangeLeaves DEF LeavesAlone
<1>3. CASE j.op = "retireConnection"
  <2>1. Change(e, j) = RetireConnection(e, j.arg)
    BY <1>3 DEF Change
  <2> QED
    BY <2>1, RetireBody
<1>4. CASE j.op = "recordReceivedGrants"
  BY <1>1, <1>4, ReceiveBody DEF Change, ArgTyped
<1>5. CASE j.op = "clearReceivedGrants"
  BY <1>5, ClearBody DEF Change
<1>6. CASE j.op = "dropReceivedGrant"
  BY <1>1, <1>6, DropBody DEF Change
<1> QED
  BY <1>2, <1>3, <1>4, <1>5, <1>6 DEF ChannelOps

\* What a longer list of grants lists.
LEMMA Lengthened ==
    ASSUME NEW S, NEW s \in Seq(S)
    PROVE  /\ \A z \in S : Append(s, z) \in Seq(S) /\ Range(Append(s, z)) = Range(s) \cup {z}
           /\ \A t \in Seq(S) : s \o t \in Seq(S) /\ Range(s \o t) = Range(s) \cup Range(t)
<1>1. ASSUME NEW t \in Seq(S)
      PROVE  s \o t \in Seq(S) /\ Range(s \o t) = Range(s) \cup Range(t)
  <2>1. s \o t \in Seq(S) /\ Len(s \o t) = Len(s) + Len(t)
    OBVIOUS
  <2>2. ASSUME NEW i \in 1..Len(s) PROVE s[i] \in Range(s \o t)
    <3>1. i \in DOMAIN (s \o t) /\ (s \o t)[i] = s[i]
      BY <2>1
    <3> QED
      BY <3>1 DEF Range
  <2>3. ASSUME NEW i \in 1..Len(t) PROVE t[i] \in Range(s \o t)
    <3>1. Len(s) + i \in DOMAIN (s \o t) /\ (s \o t)[Len(s) + i] = t[i]
      BY <2>1
    <3> QED
      BY <3>1 DEF Range
  <2>4. ASSUME NEW i \in DOMAIN (s \o t) PROVE (s \o t)[i] \in Range(s) \cup Range(t)
    <3>1. i \in 1..(Len(s) + Len(t))
      BY <2>1
    <3>2. CASE i <= Len(s)
      <4>1. i \in DOMAIN s /\ (s \o t)[i] = s[i]
        BY <3>1, <3>2
      <4> QED
        BY <4>1 DEF Range
    <3>3. CASE i > Len(s)
      <4>1. PICK k \in 1..Len(t) : k = i - Len(s)
        BY <3>1, <3>3
      <4>2. k \in DOMAIN t /\ (s \o t)[i] = t[k]
        BY <3>1, <3>3, <4>1
      <4> QED
        BY <4>2 DEF Range
    <3> QED
      BY <3>1, <3>2, <3>3
  <2>5. PICK u : u = s \o t
    OBVIOUS
  <2>6. Range(s) \subseteq Range(u) /\ Range(t) \subseteq Range(u)
    <3>1. Range(s) = {s[i] : i \in 1..Len(s)} /\ Range(t) = {t[i] : i \in 1..Len(t)}
      BY DEF Range
    <3> QED
      BY <2>2, <2>3, <2>5, <3>1
  <2>7. \A x \in Range(u) : x \in Range(s) \cup Range(t)
    BY <2>4, <2>5 DEF Range
  <2> QED
    BY <2>1, <2>5, <2>6, <2>7
<1>2. ASSUME NEW z \in S
      PROVE  Append(s, z) \in Seq(S) /\ Range(Append(s, z)) = Range(s) \cup {z}
  <2>1. <<z>> \in Seq(S) /\ Append(s, z) = s \o <<z>>
    OBVIOUS
  <2>2. Range(<<z>>) = {z}
    BY DEF Range
  <2> QED
    BY <1>1, <2>1, <2>2
<1> QED
  BY <1>1, <1>2

\* The grants a call leaves listed: its own are, and one that was visible goes
\* only when the call removes, retires or prunes it.
GrantsWritten(e, j, f) ==
    /\ f.grants \in Seq(Zcap)
    /\ Listed(f) \subseteq Listed(e) \cup Records(j) /\ Records(j) \subseteq Listed(f)
    /\ \A g \in ConnectionGrants(e) : g \notin Listed(f) =>
         /\ j.op \in {"removeGrants", "retireConnection", "pruneSupersededGrants"}
         /\ g \in j.arg \/ ExpiredBeyondSkew(g, j.now)
    /\ \A z \in Records(j) : z.renews # None => Renewable(e, z)

\* So it is.
LEMMA GrantsMade ==
    ASSUME NEW e, NEW c \in Client, NEW j, NEW f, Made(e, c, j, f)
    PROVE  GrantsWritten(e, j, f)
<1>1. e.grants \in Seq(Zcap) /\ ConnectionGrants(e) \subseteq Listed(e)
  BY EntryParts DEF Made, ConnectionGrants
<1>2. CASE j.op \notin GrantOps
  <2>1. f.grants = e.grants /\ Records(j) = {}
    BY <1>2, ChangeLeaves DEF LeavesAlone, Records, GrantOps
  <2> QED
    BY <1>1, <2>1 DEF GrantsWritten, Listed
<1>3. CASE j.op = "recordGrants"
  <2>1. RecordGrantsWrites(e, j.arg, j.serial, f)
    BY <1>3, RecordGrantsBody DEF Change, Made
  <2>2. PICK z \in Zcap : j.arg.grants = {z} /\ z.renews = None
    BY <1>3 DEF Made, ArgTyped
  <2>3. PICK fresh : fresh = j.arg.grants \ Listed(e)
    OBVIOUS
  <2>4. fresh = {} \/ fresh = {z}
    BY <2>2, <2>3
  <2>5. IsFiniteSet(fresh)
    BY <2>4, FS_EmptySet, FS_Singleton
  <2>6. PICK s : s = SetToSeq(fresh)
    OBVIOUS
  <2>7. s \in Seq(fresh) /\ Range(s) = fresh
    BY <2>5, <2>6, SetToSeqIs
  <2>8. s \in Seq(Zcap)
    BY <2>4, <2>7
  <2>9. f.grants = e.grants \o s
    BY <2>1, <2>3, <2>6 DEF RecordGrantsWrites
  <2>10. f.grants \in Seq(Zcap) /\ Listed(f) = Listed(e) \cup fresh
    BY <1>1, <2>7, <2>8, <2>9, Lengthened DEF Listed
  <2>11. Records(j) = {z}
    BY <1>3, <2>2 DEF Records
  <2> QED
    BY <1>1, <2>2, <2>3, <2>10, <2>11 DEF GrantsWritten
<1>4. CASE j.op = "removeGrants"
  <2>1. Change(e, j) = RemoveGrants(e, j.arg)
    BY <1>4 DEF Change
  <2>2. PICK I : I = {i \in DOMAIN e.grants : e.grants[i] \notin j.arg}
    OBVIOUS
  <2>3. f.grants = At(e.grants, I)
    BY <2>1, <2>2, RemoveGrantsBody DEF Made
  <2>4. f.grants \in Seq(Zcap) /\ Listed(f) = {e.grants[i] : i \in I}
    BY <1>1, <2>2, <2>3, AtIs DEF Listed
  <2>5. Records(j) = {}
    BY <1>4 DEF Records
  <2>6. Listed(e) = {e.grants[i] : i \in DOMAIN e.grants}
    BY DEF Listed, Range
  <2>7. Listed(f) = Listed(e) \ j.arg
    BY <2>2, <2>4, <2>6
  <2> QED
    BY <1>1, <1>4, <2>4, <2>5, <2>7 DEF GrantsWritten
<1>5. CASE j.op = "retireConnection"
  <2>1. Change(e, j) = RetireConnection(e, j.arg)
    BY <1>5 DEF Change
  <2>2. f.grants = <<>> /\ ConnectionGrants(e) \subseteq j.arg
    BY <2>1, RetireBody DEF Made
  <2>3. f.grants \in Seq(Zcap) /\ Listed(f) = {} /\ Records(j) = {}
    BY <1>5, <2>2 DEF Listed, Range, Records
  <2> QED
    BY <1>5, <2>2, <2>3 DEF GrantsWritten
<1>6. CASE j.op = "recordRenewedGrants"
  <2>1. RenewWrites(e, j.arg, j.serial, f)
    BY <1>6, RenewBody DEF Change, Made
  <2>2. j.arg \in Zcap /\ Records(j) = {j.arg}
    BY <1>6 DEF Made, ArgTyped, Records
  <2>3. f.grants \in Seq(Zcap) /\ Listed(f) = Listed(e) \cup {j.arg}
    BY <1>1, <2>1, <2>2, Lengthened DEF Listed, RenewWrites
  <2>4. Renewable(e, j.arg)
    BY <2>1 DEF RenewWrites
  <2> QED
    BY <1>1, <2>2, <2>3, <2>4 DEF GrantsWritten
<1>7. CASE j.op = "pruneSupersededGrants"
  <2>1. PruneWrites(e, j.arg, j.now, f)
    BY <1>7, PruneBody DEF Change, Made
  <2>2. PICK I : I = {i \in DOMAIN e.grants :
                        \/ IsLatestOfScope(e.grants, i)
                        \/ ~ExpiredBeyondSkew(e.grants[i], j.now)
                           /\ e.grants[i] \notin j.arg}
    OBVIOUS
  <2>3. f.grants = At(e.grants, I)
    BY <2>1, <2>2 DEF PruneWrites
  <2>4. f.grants \in Seq(Zcap) /\ Listed(f) = {e.grants[i] : i \in I}
    BY <1>1, <2>2, <2>3, AtIs DEF Listed
  <2>5. Records(j) = {}
    BY <1>7 DEF Records
  <2>6. \A i \in DOMAIN e.grants : i \notin I =>
          e.grants[i] \in j.arg \/ ExpiredBeyondSkew(e.grants[i], j.now)
    BY <2>2
  <2>7. I \subseteq DOMAIN e.grants
    BY <2>2
  <2> QED
    BY <1>1, <1>7, <2>4, <2>5, <2>6, <2>7 DEF GrantsWritten, Listed, Range
<1>8. CASE j.op = "recordReplicaGrant"
  <2>1. ReplicaGrantWrites(e, j.arg, f)
    BY <1>8, ReplicaGrantBody DEF Change, Made
  <2>2. PICK z \in Zcap : z = j.arg.zcap /\ Records(j) = {z}
    BY <1>8 DEF Made, ArgTyped, Records
  <2>3. /\ f.grants = IF z \in Listed(e) THEN e.grants ELSE Append(e.grants, z)
        /\ z.renews # None => Renewable(e, z)
    BY <2>1, <2>2 DEF ReplicaGrantWrites
  <2>4. f.grants \in Seq(Zcap) /\ Listed(f) = Listed(e) \cup {z}
    BY <1>1, <2>3, Lengthened DEF Listed
  <2> QED
    BY <1>1, <2>2, <2>3, <2>4 DEF GrantsWritten
<1> QED
  BY <1>2, <1>3, <1>4, <1>5, <1>6, <1>7, <1>8 DEF GrantOps

\* The replicas a call leaves: the ones there were, registered no further than
\* the call registers them, and the new ones of a recordReplicas.
SameReplica(r, q) == q.fromSpace = r.fromSpace /\ q.spaceId = r.spaceId
Registers(r, q, j) ==
    \/ /\ q.registrationId = r.registrationId
       /\ q.pendingRegistrationId = r.pendingRegistrationId
    \/ /\ j.op = "recordReplicaGrant"
       /\ r.registrationId = None /\ q.registrationId = None
       /\ r.pendingRegistrationId \in {None, j.arg.pending}
       /\ q.pendingRegistrationId = j.arg.pending
    \/ /\ j.op = "settleReplicaRegistration"
       /\ r.fromSpace = j.arg.space /\ r.pendingRegistrationId = j.arg.id
       /\ q.registrationId = j.arg.id /\ q.pendingRegistrationId = None
NewReplica(q, j) ==
    /\ j.op = "recordReplicas" /\ q.spaceId = j.serial
    /\ q.registrationId = None /\ q.pendingRegistrationId = None
ReplicasWritten(e, j, f) ==
    /\ ReplicasTyped(f.replicas)
    /\ \A r \in e.replicas : \/ \E q \in f.replicas : q.fromSpace = r.fromSpace
                             \/ \A g \in Listed(e) : g.scope # r.fromSpace
    /\ \A z \in Records(j) : \/ kind = "agent"
                             \/ \E q \in f.replicas : q.fromSpace = z.scope
    /\ \A q \in f.replicas : \/ NewReplica(q, j)
                             \/ \E r \in e.replicas : SameReplica(r, q) /\ Registers(r, q, j)

\* One replica replaced by another of its Space.
Replaces(e, q, rs) ==
    /\ ReplicasTyped(rs) /\ q \in rs
    /\ \A r \in e.replicas : \E p \in rs : p.fromSpace = r.fromSpace
    /\ \A p \in rs : p = q \/ p \in e.replicas

\* WithReplica
LEMMA Replaced ==
    ASSUME NEW e, ReplicasTyped(e.replicas), NEW item \in e.replicas,
           NEW q \in Replica, q.fromSpace = item.fromSpace, NEW rs, rs = WithReplica(e, q)
    PROVE  Replaces(e, q, rs)
BY DEF Replaces, ReplicasTyped, WithReplica

\* So it is.
LEMMA ReplicasMade ==
    ASSUME NEW e, NEW c \in Client, NEW j, NEW f, Made(e, c, j, f)
    PROVE  ReplicasWritten(e, j, f)
<1>1. ReplicasTyped(e.replicas)
  BY EntryParts DEF Made
<1>2. ASSUME f.replicas = e.replicas
      PROVE  /\ ReplicasTyped(f.replicas)
             /\ \A r \in e.replicas : \E q \in f.replicas : q.fromSpace = r.fromSpace
             /\ \A q \in f.replicas :
                  \E r \in e.replicas : SameReplica(r, q) /\ Registers(r, q, j)
  BY <1>1, <1>2 DEF SameReplica, Registers
<1>3. CASE j.op \notin ReplicaOps
  <2>1. f.replicas = e.replicas
    BY <1>3, ChangeLeaves DEF LeavesAlone
  <2>2. Records(j) = {} \/ kind = "agent"
    BY <1>3 DEF Made, ArgTyped, Records, ReplicaOps
  <2> QED
    BY <1>2, <2>1, <2>2 DEF ReplicasWritten
<1>4. CASE j.op = "recordReplicas"
  <2>1. RecordReplicasWrites(e, j.arg, j.serial, f)
    BY <1>4, RecordReplicasBody DEF Change, Made
  <2>2. PICK fresh : fresh =
          {[fromSpace |-> s, spaceId |-> j.serial, registrationId |-> None,
            pendingRegistrationId |-> None, markers |-> {}] :
             s \in j.arg.spaces \ {r.fromSpace : r \in e.replicas}}
    OBVIOUS
  <2>3. f.replicas = e.replicas \cup fresh /\ Records(j) = {}
    BY <1>4, <2>1, <2>2 DEF RecordReplicasWrites, Records
  <2>4. j.serial \in Nat /\ j.arg.spaces \subseteq Space
    BY <1>4 DEF Made, ArgTyped
  <2>5. ASSUME NEW q \in fresh
        PROVE  /\ q \in Replica /\ NewReplica(q, j)
               /\ \A r \in e.replicas : r.fromSpace # q.fromSpace
               /\ \A r \in fresh : r.fromSpace = q.fromSpace => r = q
    <3>1. PICK s \in j.arg.spaces \ {r.fromSpace : r \in e.replicas} :
            q = [fromSpace |-> s, spaceId |-> j.serial, registrationId |-> None,
                 pendingRegistrationId |-> None, markers |-> {}]
      BY <2>2
    <3>2. q \in Replica /\ NewReplica(q, j) /\ q.fromSpace = s
      BY <1>4, <2>4, <3>1 DEF Replica, NewReplica, None
    <3>3. \A r \in e.replicas : r.fromSpace # s
      OBVIOUS
    <3>4. \A r \in fresh : r.fromSpace = s => r = q
      BY <2>2, <3>1
    <3> QED
      BY <3>2, <3>3, <3>4
  <2>6. ReplicasTyped(f.replicas)
    BY <1>1, <2>3, <2>5 DEF ReplicasTyped
  <2>7. \A q \in e.replicas : SameReplica(q, q) /\ Registers(q, q, j)
    BY DEF SameReplica, Registers
  <2> QED
    BY <2>3, <2>5, <2>6, <2>7 DEF ReplicasWritten
<1>5. CASE j.op = "recordReplicaGrant"
  <2>1. ReplicaGrantWrites(e, j.arg, f)
    BY <1>5, ReplicaGrantBody DEF Change, Made
  <2>2. PICK item \in e.replicas :
          /\ item.fromSpace = j.arg.zcap.scope
          /\ j.arg.pending = None => f.replicas = e.replicas
          /\ j.arg.pending # None =>
               /\ ~RegistrationRefused(item, j.arg.pending)
               /\ f.replicas = WithReplica(e,
                    [item EXCEPT !.pendingRegistrationId = j.arg.pending])
    BY <2>1 DEF ReplicaGrantWrites
  <2>3. j.arg.pending \in Nat /\ Records(j) = {j.arg.zcap} /\ item \in Replica
    BY <1>1, <1>5 DEF Made, ArgTyped, Records, ReplicasTyped
  <2>4. CASE j.arg.pending = None
    BY <1>2, <2>2, <2>3, <2>4 DEF ReplicasWritten
  <2>5. CASE j.arg.pending # None
    <3>1. PICK q : q = [item EXCEPT !.pendingRegistrationId = j.arg.pending]
      OBVIOUS
    <3>2. /\ q \in Replica /\ q.fromSpace = item.fromSpace /\ SameReplica(item, q)
          /\ q.registrationId = item.registrationId
          /\ q.pendingRegistrationId = j.arg.pending
      BY <2>3, <3>1 DEF Replica, SameReplica
    <3>3. item.registrationId = None /\ item.pendingRegistrationId \in {None, j.arg.pending}
      BY <2>2, <2>5 DEF RegistrationRefused
    <3>4. Registers(item, q, j)
      BY <1>5, <3>2, <3>3 DEF Registers
    <3>5. Replaces(e, q, f.replicas)
      BY <1>1, <2>2, <2>5, <3>1, <3>2, Replaced
    <3>6. \A r \in e.replicas : SameReplica(r, r) /\ Registers(r, r, j)
      BY DEF SameReplica, Registers
    <3> QED
      BY <2>2, <2>3, <3>2, <3>4, <3>5, <3>6 DEF ReplicasWritten, Replaces
  <2> QED
    BY <2>4, <2>5
<1>6. CASE j.op = "settleReplicaRegistration"
  <2>1. SettleRegistrationWrites(e, j.arg.space, j.arg.id, f)
    BY <1>6, SettleRegistrationBody DEF Change, Made
  <2>2. PICK item \in e.replicas :
          /\ item.fromSpace = j.arg.space /\ item.pendingRegistrationId = j.arg.id
          /\ f.replicas = WithReplica(e, [item EXCEPT !.registrationId = j.arg.id,
                                                      !.pendingRegistrationId = None])
    BY <2>1 DEF SettleRegistrationWrites
  <2>3. j.arg.id \in Nat /\ Records(j) = {} /\ item \in Replica
    BY <1>1, <1>6 DEF Made, ArgTyped, Records, ReplicasTyped
  <2>4. PICK q : q = [item EXCEPT !.registrationId = j.arg.id, !.pendingRegistrationId = None]
    OBVIOUS
  <2>5. /\ q \in Replica /\ q.fromSpace = item.fromSpace /\ SameReplica(item, q)
        /\ q.registrationId = j.arg.id /\ q.pendingRegistrationId = None
    BY <2>3, <2>4 DEF Replica, SameReplica, None
  <2>6. Registers(item, q, j)
    BY <1>6, <2>2, <2>5 DEF Registers
  <2>7. Replaces(e, q, f.replicas)
    BY <1>1, <2>2, <2>4, <2>5, Replaced
  <2>8. \A r \in e.replicas : SameReplica(r, r) /\ Registers(r, r, j)
    BY DEF SameReplica, Registers
  <2> QED
    BY <2>3, <2>5, <2>6, <2>7, <2>8 DEF ReplicasWritten, Replaces
<1>7. CASE j.op = "writeReplicaMarkers"
  <2>1. MarkersWrites(e, j.arg, f)
    BY <1>7, MarkersBody DEF Change, Made
  <2> DEFINE apply(r) == IF r.fromSpace \notin j.arg.spaces THEN r
                         ELSE [r EXCEPT !.markers =
                                 IF j.arg.set THEN @ \cup {j.arg.marker}
                                 ELSE @ \ {j.arg.marker}]
  <2>2. f.replicas = {apply(r) : r \in e.replicas}
    BY <2>1 DEF MarkersWrites
  <2>3. j.arg.marker \in Markers /\ Records(j) = {}
    BY <1>7 DEF Made, ArgTyped, Records
  <2>4. ASSUME NEW r \in e.replicas
        PROVE  /\ apply(r) \in Replica /\ apply(r).fromSpace = r.fromSpace
               /\ SameReplica(r, apply(r)) /\ Registers(r, apply(r), j)
    <3>1. r \in Replica
      BY <1>1 DEF ReplicasTyped
    <3>2. \A m \in SUBSET Markers :
            /\ [r EXCEPT !.markers = m] \in Replica
            /\ [r EXCEPT !.markers = m].fromSpace = r.fromSpace
            /\ SameReplica(r, [r EXCEPT !.markers = m])
            /\ Registers(r, [r EXCEPT !.markers = m], j)
      BY <3>1 DEF Replica, SameReplica, Registers
    <3>3. SameReplica(r, r) /\ Registers(r, r, j)
      BY DEF SameReplica, Registers
    <3>4. PICK m \in SUBSET Markers : m = IF j.arg.set THEN r.markers \cup {j.arg.marker}
                                          ELSE r.markers \ {j.arg.marker}
      BY <2>3, <3>1 DEF Replica
    <3>5. apply(r) = r \/ apply(r) = [r EXCEPT !.markers = m]
      BY <3>4
    <3> HIDE DEF apply
    <3>6. CASE apply(r) = r
      BY <3>1, <3>3, <3>6
    <3>7. PICK q : q = [r EXCEPT !.markers = m]
      OBVIOUS
    <3>8. q \in Replica /\ q.fromSpace = r.fromSpace /\ SameReplica(r, q) /\ Registers(r, q, j)
      BY <3>2, <3>4, <3>7
    <3>9. CASE apply(r) = q
      BY <3>8, <3>9
    <3> QED
      BY <3>5, <3>6, <3>7, <3>9
  <2> HIDE DEF apply
  <2>5. ReplicasTyped(f.replicas)
    BY <1>1, <2>2, <2>4 DEF ReplicasTyped
  <2> QED
    BY <2>2, <2>3, <2>4, <2>5 DEF ReplicasWritten
<1>8. CASE j.op = "removeReplica"
  <2>1. f.replicas = e.replicas \ ItemOf(e, j.arg) /\ \A g \in Listed(e) : g.scope # j.arg
    BY <1>8, RemoveReplicaBody DEF Change, Made
  <2>2. ReplicasTyped(f.replicas) /\ f.replicas \subseteq e.replicas /\ Records(j) = {}
    BY <1>1, <1>8, <2>1 DEF ReplicasTyped, Records
  <2>3. \A r \in e.replicas : r \in f.replicas \/ r.fromSpace = j.arg
    BY <2>1 DEF ItemOf
  <2>4. \A r \in e.replicas : SameReplica(r, r) /\ Registers(r, r, j)
    BY DEF SameReplica, Registers
  <2> QED
    BY <2>1, <2>2, <2>3, <2>4 DEF ReplicasWritten
<1> QED
  BY <1>3, <1>4, <1>5, <1>6, <1>7, <1>8 DEF ReplicaOps

\* supersedeAndQueueEnvelope with the envelope of a capability z: what else was
\* pending and not superseded still is, once each.
Carried(o) == UNION {item.zcaps : item \in o}
Queues(o, X, z, q) ==
    /\ OutboxTyped(q) /\ Carried(q) \subseteq Carried(o) \cup {z} /\ z \in Carried(q)
    /\ \A y \in Carried(o) : y \notin X => y \in Carried(q)

\* An envelope of what was queued is one there was, less what is superseded.
QueueOf(o, X, z, stamp, q) ==
    /\ \A k \in q : \/ k.zcaps = {z} /\ k.createdAt = stamp
                    \/ \E i \in o : /\ k = [i EXCEPT !.zcaps = @ \ X]
                                    /\ k.zcaps = i.zcaps \ X /\ k.zcaps # {}
                                    /\ k.createdAt = i.createdAt
    /\ \A i \in o : i.zcaps \ X # {} =>
         \E k \in q : k.zcaps = i.zcaps \ X /\ k.createdAt = i.createdAt
    /\ \E k \in q : k.zcaps = {z} /\ k.createdAt = stamp
    /\ q \subseteq Item

\* So it is.
LEMMA QueueIs ==
    ASSUME NEW o, OutboxTyped(o), NEW X, NEW z \in Zcap, NEW stamp \in Nat,
           NEW q, q = SupersedeAndQueueEnvelope(o, X, {z}, stamp)
    PROVE  QueueOf(o, X, z, stamp, q)
<1> DEFINE cut(i) == [i EXCEPT !.zcaps = @ \ X]
           new == [zcaps |-> {z}, createdAt |-> stamp]
<1>1. \A i \in o : /\ cut(i) \in Item /\ cut(i).zcaps = i.zcaps \ X
                   /\ cut(i).createdAt = i.createdAt
  BY DEF OutboxTyped, Item
<1>2. new \in Item /\ new.zcaps = {z} /\ new.createdAt = stamp
  BY DEF Item
<1>3. q = {k \in {cut(i) : i \in o} : k.zcaps # {}} \cup {new}
  BY DEF SupersedeAndQueueEnvelope
<1>4. \A i \in o : cut(i) = [i EXCEPT !.zcaps = @ \ X]
  OBVIOUS
<1> HIDE DEF cut, new
<1>5. \A k \in q : k = new \/ \E i \in o : k = cut(i) /\ k.zcaps # {}
  BY <1>3
<1>6. new \in q /\ \A i \in o : cut(i).zcaps # {} => cut(i) \in q
  BY <1>3
<1>7. \A k \in q : \/ k.zcaps = {z} /\ k.createdAt = stamp
                   \/ \E i \in o : /\ k = [i EXCEPT !.zcaps = @ \ X]
                                   /\ k.zcaps = i.zcaps \ X /\ k.zcaps # {}
                                   /\ k.createdAt = i.createdAt
  BY <1>1, <1>2, <1>4, <1>5
<1>8. \A i \in o : i.zcaps \ X # {} =>
        \E k \in q : k.zcaps = i.zcaps \ X /\ k.createdAt = i.createdAt
  BY <1>1, <1>6
<1>9. q \subseteq Item
  BY <1>1, <1>2, <1>5
<1> QED
  BY <1>2, <1>6, <1>7, <1>8, <1>9 DEF QueueOf

\* What is pending after it.
LEMMA Queued ==
    ASSUME NEW o, OutboxTyped(o), NEW X, NEW z \in Zcap, NEW stamp \in Nat,
           NEW q, q = SupersedeAndQueueEnvelope(o, X, {z}, stamp)
    PROVE  Queues(o, X, z, q)
<1>1. /\ \A k \in q : \/ k.zcaps = {z}
                      \/ \E i \in o : k.zcaps = i.zcaps \ X /\ k.zcaps # {}
      /\ \A i \in o : i.zcaps \ X # {} => \E k \in q : k.zcaps = i.zcaps \ X
      /\ \E k \in q : k.zcaps = {z}
      /\ q \subseteq Item
  <2>1. QueueOf(o, X, z, stamp, q)
    BY QueueIs
  <2> QED
    BY <2>1 DEF QueueOf
<1>2. OutboxTyped(q)
  BY <1>1 DEF OutboxTyped
<1>3. Carried(q) \subseteq Carried(o) \cup {z} /\ z \in Carried(q)
  <2>1. ASSUME NEW y \in Carried(q) PROVE y \in Carried(o) \cup {z}
    <3>1. PICK k \in q : y \in k.zcaps
      BY DEF Carried
    <3>2. CASE k.zcaps = {z}
      BY <3>1, <3>2
    <3>3. CASE \E i \in o : k.zcaps = i.zcaps \ X
      <4>1. PICK i \in o : k.zcaps = i.zcaps \ X
        BY <3>3
      <4>2. y \in i.zcaps
        BY <3>1, <4>1
      <4> QED
        BY <4>2 DEF Carried
    <3> QED
      BY <1>1, <3>2, <3>3
  <2>2. PICK k \in q : k.zcaps = {z}
    BY <1>1
  <2>3. z \in Carried(q)
    BY <2>2 DEF Carried
  <2> QED
    BY <2>1, <2>3
<1>4. ASSUME NEW y \in Carried(o), y \notin X PROVE y \in Carried(q)
  <2>1. PICK i \in o : y \in i.zcaps
    BY DEF Carried
  <2>2. PICK k \in q : k.zcaps = i.zcaps \ X
    BY <1>1, <1>4, <2>1
  <2> QED
    BY <1>4, <2>1, <2>2 DEF Carried
<1> QED
  BY <1>2, <1>3, <1>4 DEF Queues

\* And each envelope still carries what its call minted, alone.
LEMMA QueuedSorted ==
    ASSUME NEW o, OutboxTyped(o), Sorted(o), NEW X, NEW z \in Zcap,
           \A y \in Carried(o) : y.serial = z.serial => y \in X,
           NEW q, q = SupersedeAndQueueEnvelope(o, X, {z}, z.serial)
    PROVE  Sorted(q)
<1> DEFINE From(k, i) == /\ i \in o /\ k = [i EXCEPT !.zcaps = @ \ X]
                         /\ k.zcaps = i.zcaps \ X /\ k.zcaps # {}
                         /\ k.createdAt = i.createdAt
           New(k) == k.zcaps = {z} /\ k.createdAt = z.serial
<1>1. QueueOf(o, X, z, z.serial, q)
  <2>1. z.serial \in Nat
    BY DEF Zcap
  <2> QED
    BY <2>1, QueueIs
<1>2. \A k \in q : New(k) \/ \E i : From(k, i)
  BY <1>1 DEF QueueOf
<1>3. q \subseteq Item
  BY <1>1 DEF QueueOf
<1>4. \A k, l \in q : New(k) /\ New(l) => k = l
  <2>1. \A k \in Item : k = [zcaps |-> k.zcaps, createdAt |-> k.createdAt]
    BY DEF Item
  <2> QED
    BY <1>3, <2>1
<1>5. ASSUME NEW k \in q, NEW i, From(k, i)
      PROVE  /\ \A y \in k.zcaps : y.serial = k.createdAt /\ y # z
             /\ k.createdAt # z.serial
  <2>1. \A y \in k.zcaps : y \in i.zcaps /\ y \notin X /\ y \in Carried(o)
    BY <1>5 DEF Carried
  <2>2. \A y \in k.zcaps : y.serial = k.createdAt
    BY <1>5, <2>1 DEF Sorted
  <2>3. \A y \in k.zcaps : y.serial # z.serial
    BY <2>1
  <2>4. PICK y \in k.zcaps : TRUE
    BY <1>5
  <2> QED
    BY <2>2, <2>3, <2>4
<1>6. ASSUME NEW k \in q, NEW l \in q, NEW i, NEW h, From(k, i), From(l, h)
      PROVE  /\ k # l => k.zcaps \cap l.zcaps = {}
             /\ k.createdAt = l.createdAt => k = l
  <2>1. i = h => k = l
    BY <1>6
  <2>2. i # h => i.zcaps \cap h.zcaps = {} /\ i.createdAt # h.createdAt
    BY <1>6 DEF Sorted
  <2> QED
    BY <1>6, <2>1, <2>2
<1> HIDE DEF From
<1>7. \A k \in q : \A y \in k.zcaps : y.serial = k.createdAt
  BY <1>2, <1>5
<1>8. ASSUME NEW k \in q, NEW l \in q
      PROVE  /\ k # l => k.zcaps \cap l.zcaps = {}
             /\ k.createdAt = l.createdAt => k = l
  <2>1. CASE New(k) /\ New(l)
    BY <1>4, <2>1
  <2>2. CASE New(k) /\ \E i : From(l, i)
    BY <1>5, <2>2
  <2>3. CASE New(l) /\ \E i : From(k, i)
    BY <1>5, <2>3
  <2>4. CASE (\E i : From(k, i)) /\ \E h : From(l, h)
    BY <1>6, <2>4
  <2> QED
    BY <1>2, <2>1, <2>2, <2>3, <2>4
<1> QED
  BY <1>7, <1>8 DEF Sorted

\* An entry's envelopes.
LEMMA PendingIs == ASSUME NEW e PROVE Pending(e) = Carried(e.outbox)
BY DEF Pending, Carried

\* Fewer envelopes are still as they were.
LEMMA FewerEnvelopes ==
    ASSUME NEW o, NEW q, q \subseteq o
    PROVE  /\ OutboxTyped(o) => OutboxTyped(q)
           /\ Sorted(o) => Sorted(q)
           /\ Carried(q) \subseteq Carried(o)
<1>1. OutboxTyped(o) => OutboxTyped(q)
  BY DEF OutboxTyped
<1>2. Sorted(o) => Sorted(q)
  BY DEF Sorted
<1>3. Carried(q) \subseteq Carried(o)
  BY DEF Carried
<1> QED
  BY <1>1, <1>2, <1>3

\* The envelopes after a call: fewer, or the ones there were less what is
\* superseded and its own.
OutboxWritten(e, j, f) ==
    /\ OutboxTyped(e.outbox)
    /\ \/ /\ j.op = "settleOutboxItem"
          /\ f.outbox = {item \in e.outbox : item.createdAt # j.arg}
       \/ /\ j.op = "pruneSupersededGrants"
          /\ f.outbox = {item \in e.outbox :
                           \E z \in item.zcaps : ~ExpiredBeyondSkew(z, j.now)}
       \/ j.op \in {"clearReceivedGrants", "retireConnection"} /\ f.outbox = {}
       \/ /\ f.outbox = e.outbox /\ ~(j.op = "recordGrants" /\ j.arg.message)
          /\ j.op # "recordRenewedGrants"
       \/ \E z \in Zcap : \E X :
            /\ z.serial = j.serial /\ Records(j) = {z}
            /\ f.outbox = SupersedeAndQueueEnvelope(e.outbox, X, {z}, j.serial)
            /\ \/ /\ j.op = "recordGrants" /\ j.arg.message
                  /\ j.arg.grants = {z} /\ X = {z}
               \/ /\ j.op = "recordRenewedGrants" /\ j.arg = z
                  /\ X = {y \in Pending(e) : y.scope = z.scope}

\* So they are.
LEMMA OutboxMade ==
    ASSUME NEW e, NEW c \in Client, NEW j, NEW f, Made(e, c, j, f)
    PROVE  OutboxWritten(e, j, f)
<1>1. OutboxTyped(e.outbox)
  BY EntryParts DEF Made
<1>2. CASE j.op \notin OutboxOps
  BY <1>1, <1>2, ChangeLeaves DEF LeavesAlone, OutboxWritten, OutboxOps
<1>3. CASE j.op = "recordGrants"
  <2>1. RecordGrantsWrites(e, j.arg, j.serial, f)
    BY <1>3, RecordGrantsBody DEF Change, Made
  <2>2. PICK z \in Zcap : j.arg.grants = {z} /\ z.serial = j.serial
    BY <1>3 DEF Made, ArgTyped
  <2>3. Records(j) = {z}
    BY <1>3, <2>2 DEF Records
  <2>4. CASE j.arg.message
    <3>1. f.outbox = SupersedeAndQueueEnvelope(e.outbox, {z}, {z}, j.serial)
      BY <2>1, <2>2, <2>4 DEF RecordGrantsWrites
    <3> QED
      BY <1>1, <1>3, <2>2, <2>3, <2>4, <3>1 DEF OutboxWritten
  <2>5. CASE ~j.arg.message
    <3>1. f.outbox = e.outbox
      BY <2>1, <2>5 DEF RecordGrantsWrites
    <3> QED
      BY <1>1, <1>3, <2>5, <3>1 DEF OutboxWritten
  <2> QED
    BY <2>4, <2>5
<1>4. CASE j.op = "retireConnection"
  <2>1. Change(e, j) = RetireConnection(e, j.arg)
    BY <1>4 DEF Change
  <2>2. f.outbox = {}
    BY <2>1, RetireBody DEF Made
  <2> QED
    BY <1>1, <1>4, <2>2 DEF OutboxWritten
<1>5. CASE j.op = "recordRenewedGrants"
  <2>1. RenewWrites(e, j.arg, j.serial, f)
    BY <1>5, RenewBody DEF Change, Made
  <2>2. PICK z \in Zcap : j.arg = z /\ z.serial = j.serial
    BY <1>5 DEF Made, ArgTyped
  <2>3. Records(j) = {z}
    BY <1>5, <2>2 DEF Records
  <2>4. PICK X : X = {y \in Pending(e) : y.scope = z.scope}
    OBVIOUS
  <2>5. f.outbox = SupersedeAndQueueEnvelope(e.outbox, X, {z}, j.serial)
    BY <2>1, <2>2, <2>4 DEF RenewWrites
  <2> QED
    BY <1>1, <1>5, <2>2, <2>3, <2>4, <2>5 DEF OutboxWritten
<1>6. CASE j.op = "settleOutboxItem"
  <2>1. f.outbox = {item \in e.outbox : item.createdAt # j.arg}
    BY <1>6, SettleBody DEF Change, Made
  <2> QED
    BY <1>1, <1>6, <2>1 DEF OutboxWritten
<1>7. CASE j.op = "pruneSupersededGrants"
  <2>1. PruneWrites(e, j.arg, j.now, f)
    BY <1>7, PruneBody DEF Change, Made
  <2> QED
    BY <1>1, <1>7, <2>1 DEF OutboxWritten, PruneWrites
<1>8. CASE j.op = "clearReceivedGrants"
  <2>1. f.outbox = {}
    BY <1>8, ClearBody DEF Change, Made
  <2> QED
    BY <1>1, <1>8, <2>1 DEF OutboxWritten
<1> QED
  BY <1>2, <1>3, <1>4, <1>5, <1>6, <1>7, <1>8 DEF OutboxOps

\* An envelope carries something, of this entry or of the call.
LEMMA OutboxStays ==
    ASSUME NEW e, NEW j, NEW f, OutboxWritten(e, j, f), j.serial \in Nat
    PROVE  OutboxTyped(f.outbox) /\ Pending(f) \subseteq Pending(e) \cup Records(j)
<1>1. CASE f.outbox \subseteq e.outbox
  BY <1>1, FewerEnvelopes, PendingIs DEF OutboxWritten
<1>2. CASE \E z \in Zcap : \E X :
             /\ Records(j) = {z}
             /\ f.outbox = SupersedeAndQueueEnvelope(e.outbox, X, {z}, j.serial)
  <2>1. PICK z, X :
            /\ z \in Zcap /\ Records(j) = {z}
            /\ f.outbox = SupersedeAndQueueEnvelope(e.outbox, X, {z}, j.serial)
    BY <1>2
  <2>2. Queues(e.outbox, X, z, f.outbox)
    BY <2>1, Queued DEF OutboxWritten
  <2> QED
    BY <2>1, <2>2, PendingIs DEF Queues
<1> QED
  BY <1>1, <1>2 DEF OutboxWritten

\* One envelope for a capability, and its own.
LEMMA StaysSorted ==
    ASSUME NEW e, NEW j, NEW f, OutboxWritten(e, j, f), Sorted(e.outbox),
           \A z \in Records(j), y \in Pending(e) : y.serial = z.serial => y = z
    PROVE  Sorted(f.outbox)
<1>1. CASE f.outbox \subseteq e.outbox
  BY <1>1, FewerEnvelopes
<1>2. CASE \E z \in Zcap : \E X :
            /\ z.serial = j.serial /\ Records(j) = {z}
            /\ f.outbox = SupersedeAndQueueEnvelope(e.outbox, X, {z}, j.serial)
            /\ X = {z} \/ X = {y \in Pending(e) : y.scope = z.scope}
  <2>1. PICK z, X :
            /\ z \in Zcap
            /\ z.serial = j.serial /\ Records(j) = {z}
            /\ f.outbox = SupersedeAndQueueEnvelope(e.outbox, X, {z}, z.serial)
            /\ X = {z} \/ X = {y \in Pending(e) : y.scope = z.scope}
    BY <1>2
  <2>2. \A y \in Carried(e.outbox) : y.serial = z.serial => y \in X
    BY <2>1, PendingIs
  <2>3. OutboxTyped(e.outbox)
    BY DEF OutboxWritten
  <2>4. PICK o, q : o = e.outbox /\ q = f.outbox
    OBVIOUS
  <2>5. /\ OutboxTyped(o) /\ Sorted(o) /\ z \in Zcap
        /\ q = SupersedeAndQueueEnvelope(o, X, {z}, z.serial)
        /\ \A y \in Carried(o) : y.serial = z.serial => y \in X
    BY <2>1, <2>2, <2>3, <2>4
  <2>6. Sorted(q)
    BY <2>5, QueuedSorted
  <2> QED
    BY <2>4, <2>6
<1> QED
  BY <1>1, <1>2 DEF OutboxWritten

\* What is owed is still queued, was delivered or expired.
LEMMA StaysCovered ==
    ASSUME NEW e, NEW j, NEW f, OutboxWritten(e, j, f), Sorted(e.outbox),
           Covered(e, owed), j.serial \in Nat, j.now \in Nat, day \in Nat, j.now <= day,
           j.op = "settleOutboxItem" =>
             \A z \in Pending(e) : z.serial = j.arg => z \in delivered
    PROVE  Covered(f, Owes(j))
<1>1. Covered(e, owed) <=>
        \A y \in owed : y \in Carried(e.outbox) \/ y \in delivered \/ ExpiredBeyondSkew(y, day)
  BY PendingIs DEF Covered
<1>2. CASE /\ j.op = "settleOutboxItem"
           /\ f.outbox = {item \in e.outbox : item.createdAt # j.arg}
  <2>1. Owes(j) = owed
    BY <1>2 DEF Owes
  <2>2. ASSUME NEW y \in Carried(e.outbox) PROVE y \in Carried(f.outbox) \/ y \in delivered
    <3>1. PICK i \in e.outbox : y \in i.zcaps
      BY DEF Carried
    <3>2. CASE i.createdAt = j.arg
      <4>1. y.serial = j.arg
        BY <3>1, <3>2 DEF Sorted
      <4> QED
        BY <1>2, <4>1, PendingIs
    <3>3. CASE i.createdAt # j.arg
      BY <1>2, <3>1, <3>3 DEF Carried
    <3> QED
      BY <3>2, <3>3
  <2> QED
    BY <1>1, <2>1, <2>2, PendingIs DEF Covered
<1>3. CASE /\ j.op = "pruneSupersededGrants"
           /\ f.outbox = {item \in e.outbox :
                            \E z \in item.zcaps : ~ExpiredBeyondSkew(z, j.now)}
  <2>1. Owes(j) = owed
    BY <1>3 DEF Owes
  <2>2. ASSUME NEW y \in Carried(e.outbox)
        PROVE  y \in Carried(f.outbox) \/ ExpiredBeyondSkew(y, day)
    <3>1. PICK i \in e.outbox : y \in i.zcaps
      BY DEF Carried
    <3>2. CASE i \in f.outbox
      BY <3>1, <3>2 DEF Carried
    <3>3. CASE i \notin f.outbox
      <4>1. ExpiredBeyondSkew(y, j.now)
        BY <1>3, <3>1, <3>3
      <4>2. y.expires \in Nat
        BY <3>1 DEF OutboxWritten, OutboxTyped, Item, Zcap
      <4> QED
        BY <4>1, <4>2, DaysAssumption DEF ExpiredBeyondSkew, DaysAssumption
    <3> QED
      BY <3>2, <3>3
  <2> QED
    BY <1>1, <2>1, <2>2, PendingIs DEF Covered
<1>4. CASE j.op \in {"clearReceivedGrants", "retireConnection"}
  BY <1>4 DEF Owes, Covered
<1>5. CASE /\ f.outbox = e.outbox /\ ~(j.op = "recordGrants" /\ j.arg.message)
           /\ j.op # "recordRenewedGrants"
  <2>1. Owes(j) \subseteq owed
    BY <1>5 DEF Owes
  <2> QED
    BY <1>1, <1>5, <2>1, PendingIs DEF Covered
<1>6. ASSUME NEW z \in Zcap, NEW X,
             f.outbox = SupersedeAndQueueEnvelope(e.outbox, X, {z}, j.serial),
             \/ /\ j.op = "recordGrants" /\ j.arg.message
                /\ j.arg.grants = {z} /\ X = {z}
             \/ /\ j.op = "recordRenewedGrants" /\ j.arg = z
                /\ X = {y \in Pending(e) : y.scope = z.scope}
      PROVE  Covered(f, Owes(j))
  <2>1. Queues(e.outbox, X, z, f.outbox)
    BY <1>6, Queued DEF OutboxWritten
  <2>2. \A y \in Owes(j) : y = z \/ (y \in owed /\ y \notin X)
    BY <1>6 DEF Owes
  <2>3. \A y \in Owes(j) : y \in Carried(f.outbox) \/ y \in delivered \/ ExpiredBeyondSkew(y, day)
    BY <1>1, <2>1, <2>2 DEF Queues
  <2> QED
    BY <2>3, PendingIs DEF Covered
<1> QED
  BY <1>2, <1>3, <1>4, <1>5, <1>6 DEF OutboxWritten

\* The writers after a call: some of those there were, as they were or marked
\* long unseen, and the one that registers or touches.
OwnMember(c, j, m) ==
    /\ j.op \in {"registerWriter", "touchWriter"}
    /\ m.writerId = c /\ m.lastSeen = j.now /\ m.active
KeptMember(e, c, j, m) ==
    /\ j.op \in {"registerWriter", "touchWriter"} => m.writerId # c
    /\ \E n \in e.writers :
         /\ m.writerId = n.writerId /\ m.lastSeen = n.lastSeen
         /\ n.active => \/ m.active
                        \/ j.now - EffectiveLastSeen(n, j.now) > InactiveAfter
WritersWritten(e, c, j, f) ==
    /\ WritersTyped(f.writers)
    /\ \A m \in f.writers : OwnMember(c, j, m) \/ KeptMember(e, c, j, m)

\* The own member joins others that leave it room.
LEMMA OwnJoins ==
    ASSUME NEW room, room \subseteq Member, IsFiniteSet(room), NEW own \in Member,
           Cardinality(room) <= MaxWriters - 1,
           \A m, n \in room : m.writerId = n.writerId => m = n,
           \A m \in room : m.writerId # own.writerId
    PROVE  WritersTyped(room \cup {own})
<1>1. MaxWriters \in Nat \ {0} /\ Cardinality(room) \in Nat
  BY DaysAssumption, FS_CardinalityType DEF DaysAssumption
<1>2. own \notin room
  OBVIOUS
<1>3. IsFiniteSet(room \cup {own}) /\ Cardinality(room \cup {own}) = Cardinality(room) + 1
  BY <1>2, FS_AddElement
<1> QED
  BY <1>1, <1>3 DEF WritersTyped

\* So they are.
LEMMA WritersMade ==
    ASSUME NEW e, NEW c \in Client, NEW j, NEW f, Made(e, c, j, f)
    PROVE  WritersWritten(e, c, j, f)
<1>1. /\ WritersTyped(e.writers) /\ j.now \in Nat /\ MaxWriters \in Nat \ {0}
      /\ Cardinality(e.writers) \in Nat
  BY EntryParts, DaysAssumption, FS_CardinalityType DEF Made, ArgTyped, DaysAssumption, WritersTyped
<1>2. CASE j.op \notin WriterOps
  <2>1. f.writers = e.writers
    BY <1>2, ChangeLeaves DEF LeavesAlone
  <2>2. j.op \notin {"registerWriter", "touchWriter"}
    BY <1>2 DEF WriterOps
  <2> QED
    BY <1>1, <2>1, <2>2 DEF WritersWritten, KeptMember
<1> DEFINE own == [writerId |-> c, lastSeen |-> j.now, active |-> TRUE]
<1>3. own \in Member /\ own.writerId = c /\ own.lastSeen = j.now /\ own.active
  BY <1>1 DEF Member, Writer
<1> HIDE DEF own
<1>4. CASE j.op = "registerWriter"
  <2>1. RegisterWrites(e, c, j.now, f)
    <3>1. j.arg.writer = c
      BY <1>4 DEF Made, ArgTyped
    <3> QED
      BY <1>4, <3>1, RegisterBody DEF Change, Made
  <2>2. PICK room :
          /\ f.writers = room \cup {own}
          /\ \/ /\ \A m \in e.writers : m.writerId # c
                /\ room = Newest(e.writers, MaxWriters - 1, j.now)
             \/ /\ \E m \in e.writers : m.writerId = c
                /\ room = {m \in e.writers : m.writerId # c}
    BY <2>1 DEF RegisterWrites, own
  <2>3. /\ room \subseteq e.writers /\ IsFiniteSet(room)
        /\ Cardinality(room) <= MaxWriters - 1 /\ \A m \in room : m.writerId # c
    <3>1. CASE /\ \A m \in e.writers : m.writerId # c
               /\ room = Newest(e.writers, MaxWriters - 1, j.now)
      <4>1. PICK n \in Nat : n = MaxWriters - 1
        BY <1>1
      <4>2. room \subseteq e.writers /\ IsFiniteSet(room) /\ Cardinality(room) <= n
        BY <1>1, <3>1, <4>1, NewestBound DEF WritersTyped
      <4> QED
        BY <3>1, <4>1, <4>2
    <3>2. CASE /\ \E m \in e.writers : m.writerId = c
               /\ room = {m \in e.writers : m.writerId # c}
      <4>1. PICK m \in e.writers : m.writerId = c
        BY <3>2
      <4>2. room \subseteq e.writers \ {m} /\ IsFiniteSet(e.writers)
        BY <1>1, <3>2, <4>1 DEF WritersTyped
      <4>3. IsFiniteSet(e.writers \ {m}) /\ Cardinality(e.writers \ {m}) = Cardinality(e.writers) - 1
        BY <4>1, <4>2, FS_RemoveElement
      <4>4. IsFiniteSet(room) /\ Cardinality(room) <= Cardinality(e.writers \ {m})
        BY <4>2, <4>3, FS_Subset
      <4>5. Cardinality(room) \in Nat
        BY <4>4, FS_CardinalityType
      <4>6. Cardinality(e.writers) <= MaxWriters
        BY <1>1 DEF WritersTyped
      <4>7. Cardinality(room) <= MaxWriters - 1
        BY <1>1, <4>3, <4>4, <4>5, <4>6
      <4> QED
        BY <3>2, <4>4, <4>7
    <3> QED
      BY <2>2, <3>1, <3>2
  <2>4. WritersTyped(f.writers)
    <3>1. /\ room \subseteq Member /\ \A m \in room : m.writerId # own.writerId
          /\ \A m, n \in room : m.writerId = n.writerId => m = n
      BY <1>1, <1>3, <2>3 DEF WritersTyped
    <3> QED
      BY <1>3, <2>2, <2>3, <3>1, OwnJoins
  <2>5. OwnMember(c, j, own) /\ \A m \in room : KeptMember(e, c, j, m)
    BY <1>3, <1>4, <2>3 DEF OwnMember, KeptMember
  <2> QED
    BY <2>2, <2>4, <2>5 DEF WritersWritten
<1>5. CASE j.op = "touchWriter"
  <2>1. /\ MemberToTouch(e, c, j.now) # {}
        /\ f.writers = (e.writers \ MemberToTouch(e, c, j.now)) \cup {own}
    BY <1>5, TouchBody DEF Change, Made, ArgTyped, own
  <2>2. PICK n \in MemberToTouch(e, c, j.now) : TRUE
    BY <2>1
  <2>3. n \in e.writers /\ n.writerId = c
    BY DEF MemberToTouch
  <2>4. MemberToTouch(e, c, j.now) = {n}
    BY <1>1, <2>2, <2>3 DEF MemberToTouch, WritersTyped
  <2>5. PICK room : room = e.writers \ {n}
    OBVIOUS
  <2>6. f.writers = room \cup {own}
    BY <2>1, <2>4, <2>5
  <2>7. /\ room \subseteq e.writers /\ IsFiniteSet(room)
        /\ Cardinality(room) <= MaxWriters - 1 /\ \A m \in room : m.writerId # c
    <3>1. IsFiniteSet(e.writers) /\ Cardinality(e.writers) <= MaxWriters
      BY <1>1 DEF WritersTyped
    <3>2. IsFiniteSet(room) /\ Cardinality(room) = Cardinality(e.writers) - 1
      BY <2>3, <2>5, <3>1, FS_RemoveElement
    <3>3. \A m \in room : m.writerId # c
      BY <1>1, <2>3, <2>5 DEF WritersTyped
    <3> QED
      BY <1>1, <2>5, <3>1, <3>2, <3>3
  <2>8. WritersTyped(f.writers)
    <3>1. /\ room \subseteq Member /\ \A m \in room : m.writerId # own.writerId
          /\ \A m, o \in room : m.writerId = o.writerId => m = o
      BY <1>1, <1>3, <2>7 DEF WritersTyped
    <3> QED
      BY <1>3, <2>6, <2>7, <3>1, OwnJoins
  <2>9. OwnMember(c, j, own) /\ \A m \in room : KeptMember(e, c, j, m)
    BY <1>3, <1>5, <2>7 DEF OwnMember, KeptMember
  <2> QED
    BY <2>6, <2>8, <2>9 DEF WritersWritten
<1>6. CASE j.op = "sweepWriters"
  <2>1. SweepWrites(e, j.now, f)
    BY <1>6, SweepBody DEF Change, Made
  <2> DEFINE unseen(m) == j.now - EffectiveLastSeen(m, j.now) > InactiveAfter
             mark(m) == [m EXCEPT !.active = @ /\ ~unseen(m)]
  <2>2. PICK kept : kept = Newest(e.writers, MaxWriters, j.now)
    OBVIOUS
  <2>3. f.writers = {mark(m) : m \in kept}
    BY <2>1, <2>2 DEF SweepWrites
  <2>4. kept \subseteq e.writers /\ IsFiniteSet(kept) /\ Cardinality(kept) <= MaxWriters
    BY <1>1, <2>2, NewestBound DEF WritersTyped
  <2>5. ASSUME NEW m \in kept
        PROVE  /\ mark(m) \in Member /\ mark(m).writerId = m.writerId
               /\ mark(m).lastSeen = m.lastSeen
               /\ m.active => mark(m).active \/ unseen(m)
    <3>1. m \in Member
      BY <1>1, <2>4 DEF WritersTyped
    <3>2. PICK b \in BOOLEAN : b = (m.active /\ ~unseen(m))
      OBVIOUS
    <3>3. mark(m) = [m EXCEPT !.active = b]
      BY <3>2
    <3>4. /\ [m EXCEPT !.active = b] \in Member /\ [m EXCEPT !.active = b].writerId = m.writerId
          /\ [m EXCEPT !.active = b].lastSeen = m.lastSeen
          /\ [m EXCEPT !.active = b].active = b
      BY <3>1, <3>2 DEF Member
    <3> HIDE DEF mark, unseen
    <3> QED
      BY <3>2, <3>3, <3>4
  <2> HIDE DEF mark
  <2>6. IsFiniteSet(f.writers) /\ Cardinality(f.writers) <= Cardinality(kept)
    <3>1. PICK h : h = [m \in kept |-> mark(m)]
      OBVIOUS
    <3>2. h \in Surjection(kept, f.writers)
      BY <2>3, <3>1 DEF Surjection
    <3> QED
      BY <2>4, <3>2, FS_Surjection
  <2>7. WritersTyped(f.writers)
    <3>1. f.writers \subseteq Member
      BY <2>3, <2>5
    <3>2. \A m, n \in f.writers : m.writerId = n.writerId => m = n
      BY <1>1, <2>3, <2>4, <2>5 DEF WritersTyped
    <3>3. Cardinality(f.writers) \in Nat /\ Cardinality(kept) \in Nat
      BY <2>4, <2>6, FS_CardinalityType
    <3>4. Cardinality(f.writers) <= MaxWriters
      BY <1>1, <2>4, <2>6, <3>3
    <3> QED
      BY <2>6, <3>1, <3>2, <3>4 DEF WritersTyped
  <2>8. \A m \in kept : KeptMember(e, c, j, mark(m))
    BY <1>6, <2>4, <2>5 DEF KeptMember
  <2> QED
    BY <2>3, <2>7, <2>8 DEF WritersWritten
<1> QED
  BY <1>2, <1>4, <1>5, <1>6 DEF WriterOps

\* A well-formed body makes a well-formed one, of an entry that stands.
LEMMA EntryMade ==
    ASSUME NEW e, NEW c \in Client, NEW j, NEW f, Made(e, c, j, f)
    PROVE  EntryOK(f) /\ f.stands
<1>1. FlagsTyped(f) /\ f.grantsReceived \subseteq Channel
  BY FlagsMade, ChannelsMade
<1>2. f.grants \in Seq(Zcap)
  BY GrantsMade DEF GrantsWritten
<1>3. OutboxTyped(f.outbox)
  BY OutboxMade, OutboxStays DEF Made, ArgTyped
<1>4. ReplicasTyped(f.replicas)
  BY ReplicasMade DEF ReplicasWritten
<1>5. WritersTyped(f.writers)
  BY WritersMade DEF WritersWritten
<1>6. f.stands
  BY ChangeLeaves DEF LeavesAlone
<1> QED
  BY <1>1, <1>2, <1>3, <1>4, <1>5, <1>6, EntryParts

-----------------------------------------------------------------------------
(* The grants. *)

\* A call records one capability at most, numbered as the call is.
LEMMA RecordsIs ==
    ASSUME NEW c, NEW j, ArgTyped(c, j), NEW z \in Records(j)
    PROVE  /\ z \in Zcap /\ z.serial = j.serial /\ j.serial # None /\ Records(j) = {z}
           /\ kind = "agent" \/ j.op = "recordReplicaGrant"
<1>1. j.op \in {"recordGrants", "recordRenewedGrants", "recordReplicaGrant"}
  BY DEF Records
<1>2. CASE j.op = "recordGrants"
  <2>1. Records(j) = j.arg.grants
    BY <1>2 DEF Records
  <2>2. PICK y \in j.arg.grants : j.arg.grants = {y} /\ y \in Zcap /\ y.serial = j.serial
    BY <1>2 DEF ArgTyped
  <2>3. y = z
    BY <2>1, <2>2
  <2> QED
    BY <1>2, <2>1, <2>2, <2>3 DEF ArgTyped
<1>3. CASE j.op = "recordRenewedGrants"
  BY <1>3 DEF Records, ArgTyped
<1>4. CASE j.op = "recordReplicaGrant"
  BY <1>4 DEF Records, ArgTyped
<1> QED
  BY <1>1, <1>2, <1>3, <1>4

\* A capability that renews names one that is listed and expires before it.
LEMMA RenewsListed ==
    ASSUME NEW e, e.grants \in Seq(Zcap), NEW z \in Zcap, Renewable(e, z)
    PROVE  \E s \in Listed(e) :
             /\ s.serial = z.renews /\ s.scope = z.scope /\ s.expires < z.expires
             /\ \A h \in Listed(e) : h.scope = s.scope => h.expires <= s.expires
<1>1. PICK i \in DOMAIN e.grants :
        /\ e.grants[i].serial = z.renews /\ e.grants[i].scope = z.scope
        /\ IsLatestOfScope(e.grants, i) /\ z.expires > e.grants[i].expires
  BY DEF Renewable
<1>2. PICK s : s = e.grants[i]
  OBVIOUS
<1>3. s \in Listed(e) /\ s \in Zcap
  BY <1>1, <1>2 DEF Listed, Range
<1>4. \A h \in Listed(e) : h \in Zcap /\ \E k \in DOMAIN e.grants : h = e.grants[k]
  BY DEF Listed, Range
<1>5. \A h \in Zcap : h.expires \in Nat
  BY DEF Zcap
<1>6. ASSUME NEW h \in Listed(e), h.scope = s.scope PROVE h.expires <= s.expires
  <2>1. PICK k \in DOMAIN e.grants : h = e.grants[k]
    BY <1>4
  <2>2. h.expires < s.expires \/ h.expires = s.expires
    BY <1>1, <1>2, <1>6, <2>1 DEF IsLatestOfScope
  <2> QED
    BY <1>3, <1>4, <1>5, <2>2
<1>7. s.serial = z.renews /\ s.scope = z.scope /\ s.expires < z.expires
  BY <1>1, <1>2, <1>3, <1>5
<1> QED
  BY <1>3, <1>6, <1>7

\* The numbers of what was recorded, with what a call records.
LEMMA StaysNumbered ==
    ASSUME NEW e, NEW c \in Client, NEW j, NEW f, Made(e, c, j, f),
           Listed(e) \subseteq recorded, Numbered(recorded), Ident(j), j.serial <= calls
    PROVE  Numbered(recorded \cup Records(j))
<1>1. CASE Records(j) = {}
  BY <1>1
<1>2. ASSUME NEW z \in Records(j) PROVE Numbered(recorded \cup Records(j))
  <2>1. z \in Zcap /\ z.serial = j.serial /\ j.serial # None /\ Records(j) = {z}
    BY <1>2, RecordsIs DEF Made
  <2>2. \A g \in recorded : g.serial = z.serial => g = z
    BY <1>2 DEF Ident
  <2>3. ASSUME z.renews # None
        PROVE  \E g \in recorded : /\ g.serial = z.renews /\ g.scope = z.scope
                                   /\ g.expires < z.expires
    <3>1. Renewable(e, z) /\ e.grants \in Seq(Zcap)
      BY <1>2, <2>3, GrantsMade, EntryParts DEF GrantsWritten, Made
    <3>2. \E s \in Listed(e) : s.serial = z.renews /\ s.scope = z.scope /\ s.expires < z.expires
      BY <2>1, <3>1, RenewsListed
    <3> QED
      BY <3>2
  <2>4. PICK R : R = recorded \cup {z}
    OBVIOUS
  <2>5. R \subseteq Zcap /\ \A g \in R : g.serial # None /\ g.serial <= calls
    BY <2>1, <2>4 DEF Numbered
  <2>6. \A g, h \in R : g.serial = h.serial /\ g.scope = h.scope => g = h
    BY <2>2, <2>4 DEF Numbered
  <2>7. \A h \in R : h.renews # None =>
          \E g \in R : g.serial = h.renews /\ g.scope = h.scope /\ g.expires < h.expires
    BY <2>3, <2>4 DEF Numbered
  <2> QED
    BY <2>1, <2>4, <2>5, <2>6, <2>7 DEF Numbered
<1> QED
  BY <1>1, <1>2

\* Of the renewals of one grant one is listed: another listed one expires after
\* the grant they renew, so that one is not the latest of its scope.
LEMMA StaysOnce ==
    ASSUME NEW e, NEW c \in Client, NEW j, NEW f, Made(e, c, j, f),
           Listed(e) \subseteq recorded, Numbered(recorded), Once(e)
    PROVE  Once(f)
<1>1. Listed(f) \subseteq Listed(e) \cup Records(j) /\ e.grants \in Seq(Zcap)
  BY GrantsMade, EntryParts DEF GrantsWritten, Made
<1>2. ASSUME NEW z \in Records(j), NEW h \in Listed(e),
             z.renews # None, z.renews = h.renews, z.scope = h.scope
      PROVE  FALSE
  <2>1. z \in Zcap /\ Renewable(e, z)
    BY <1>2, GrantsMade, RecordsIs DEF GrantsWritten, Made
  <2>2. PICK s \in Listed(e) :
          /\ s.serial = z.renews /\ s.scope = z.scope /\ s.expires < z.expires
          /\ \A x \in Listed(e) : x.scope = s.scope => x.expires <= s.expires
    BY <1>1, <2>1, RenewsListed
  <2>3. PICK g \in recorded : g.serial = h.renews /\ g.scope = h.scope /\ g.expires < h.expires
    BY <1>2 DEF Numbered
  <2>4. g = s
    BY <1>2, <2>2, <2>3 DEF Numbered
  <2>5. h.expires <= s.expires /\ h.expires \in Nat /\ s.expires \in Nat
    BY <1>2, <2>2 DEF Numbered, Zcap
  <2> QED
    BY <2>3, <2>4, <2>5
<1>3. \A y, z \in Records(j) : y = z
  BY RecordsIs DEF Made
<1>4. ASSUME NEW g \in Listed(f), NEW h \in Listed(f),
             g.renews # None, g.renews = h.renews, g.scope = h.scope
      PROVE  g = h
  <2>1. CASE g \in Listed(e) /\ h \in Listed(e)
    BY <1>4, <2>1 DEF Once
  <2>2. CASE g \in Records(j) /\ h \in Listed(e)
    BY <1>2, <1>4, <2>2
  <2>3. CASE g \in Listed(e) /\ h \in Records(j)
    BY <1>2, <1>4, <2>3
  <2>4. CASE g \in Records(j) /\ h \in Records(j)
    BY <1>3, <2>4
  <2> QED
    BY <1>1, <2>1, <2>2, <2>3, <2>4
<1> QED
  BY <1>4 DEF Once

\* What is honoured stays visible, and what the call recorded is.
LEMMA StaysLive ==
    ASSUME NEW e, NEW c \in Client, NEW j, NEW f, Made(e, c, j, f),
           recorded \subseteq Zcap, Live(e, recorded), j.now <= day, day \in Nat,
           j.op \in {"removeGrants", "retireConnection", "pruneSupersededGrants"} =>
             j.arg \subseteq void
    PROVE  Live(f, recorded \cup Records(j))
<1>1. GrantsWritten(e, j, f) /\ ReplicasWritten(e, j, f)
  BY GrantsMade, ReplicasMade
<1>2. ASSUME NEW g \in ConnectionGrants(e), g \in Listed(f)
      PROVE  g \in ConnectionGrants(f)
  <2>1. CASE kind # "replica-server"
    BY <1>2, <2>1 DEF ConnectionGrants
  <2>2. CASE kind = "replica-server"
    <3>1. PICK r \in e.replicas : r.fromSpace = g.scope
      BY <2>2 DEF ConnectionGrants
    <3>2. g \in Listed(e)
      BY DEF ConnectionGrants
    <3>3. \E q \in f.replicas : q.fromSpace = r.fromSpace
      BY <1>1, <3>1, <3>2 DEF ReplicasWritten
    <3> QED
      BY <1>2, <3>1, <3>3 DEF ConnectionGrants
  <2> QED
    BY <2>1, <2>2
<1>3. ASSUME NEW g \in recorded
      PROVE  g \in void \/ ExpiredBeyondSkew(g, day) \/ g \in ConnectionGrants(f)
  <2>1. CASE g \in ConnectionGrants(e) /\ g \notin Listed(f)
    <3>1. g \in void \/ ExpiredBeyondSkew(g, j.now)
      BY <1>1, <2>1 DEF GrantsWritten
    <3>2. g.expires \in Nat /\ j.now \in Nat
      BY <1>3 DEF Zcap, Made, ArgTyped
    <3>3. ExpiredBeyondSkew(g, j.now) => ExpiredBeyondSkew(g, day)
      BY <3>2, DaysAssumption DEF ExpiredBeyondSkew, DaysAssumption
    <3> QED
      BY <3>1, <3>3
  <2>2. CASE g \in ConnectionGrants(e) /\ g \in Listed(f)
    BY <1>2, <2>2
  <2> QED
    BY <2>1, <2>2 DEF Live
<1>4. ASSUME NEW z \in Records(j) PROVE z \in ConnectionGrants(f)
  <2>1. z \in Listed(f)
    BY <1>1, <1>4 DEF GrantsWritten
  <2>2. kind = "agent" \/ \E q \in f.replicas : q.fromSpace = z.scope
    BY <1>1, <1>4 DEF ReplicasWritten
  <2> QED
    BY <2>1, <2>2 DEF ConnectionGrants
<1> QED
  BY <1>3, <1>4 DEF Live

\* The ledger after the write of a call.
LEMMA StaysLedger ==
    ASSUME NEW e, NEW c \in Client, NEW j, NEW f, Made(e, c, j, f),
           Ledger(e, recorded), Ident(j), ArgOK(j), day \in Nat
    PROVE  Ledger(f, recorded \cup Records(j))
<1>1. Listed(f) \cup Pending(f) \subseteq recorded \cup Records(j)
  <2>1. Listed(f) \subseteq Listed(e) \cup Records(j)
    BY GrantsMade DEF GrantsWritten
  <2>2. Pending(f) \subseteq Pending(e) \cup Records(j)
    BY OutboxMade, OutboxStays DEF Made, ArgTyped
  <2> QED
    BY <2>1, <2>2 DEF Ledger
<1>2. Numbered(recorded \cup Records(j))
  BY StaysNumbered DEF Ledger, ArgOK
<1>3. Once(f)
  BY StaysOnce DEF Ledger
<1>4. Live(f, recorded \cup Records(j))
  BY StaysLive DEF Ledger, ArgOK, Numbered
<1> QED
  BY <1>1, <1>2, <1>3, <1>4 DEF Ledger

-----------------------------------------------------------------------------
(* The registrations and the heartbeats. *)

\* What was posted for a replica stays the registration its item states or
\* waits for.
LEMMA StaysRegistered ==
    ASSUME NEW e, NEW c \in Client, NEW j, NEW f, Made(e, c, j, f), PostedOK,
           \A r \in e.replicas : RegisteredItem(r), ArgOK(j)
    PROVE  \A q \in f.replicas : RegisteredItem(q)
<1>1. ASSUME NEW q \in f.replicas, NewReplica(q, j) PROVE RegisteredItem(q)
  <2>1. q.spaceId <= calls /\ \A p \in posted : p[2] # q.spaceId
    BY <1>1 DEF NewReplica, ArgOK
  <2> QED
    BY <1>1, <2>1 DEF NewReplica, RegisteredItem
<1>2. ASSUME NEW q \in f.replicas, NEW r \in e.replicas, SameReplica(r, q),
             Registers(r, q, j)
      PROVE  RegisteredItem(q)
  <2>1. RegisteredItem(r) /\ q.fromSpace = r.fromSpace /\ q.spaceId = r.spaceId
    BY <1>2 DEF SameReplica
  <2>2. CASE /\ q.registrationId = r.registrationId
             /\ q.pendingRegistrationId = r.pendingRegistrationId
    BY <2>1, <2>2 DEF RegisteredItem
  <2>3. CASE /\ r.registrationId = None /\ q.registrationId = None
             /\ r.pendingRegistrationId \in {None, j.arg.pending}
             /\ q.pendingRegistrationId = j.arg.pending
    <3>1. \A p \in posted : p[1] = q.fromSpace /\ p[2] = q.spaceId => p[3] = j.arg.pending
      BY <2>1, <2>3 DEF RegisteredItem, PostedOK
    <3> QED
      BY <2>1, <2>3, <3>1 DEF RegisteredItem
  <2>4. CASE /\ j.op = "settleReplicaRegistration"
             /\ r.fromSpace = j.arg.space /\ r.pendingRegistrationId = j.arg.id
             /\ q.registrationId = j.arg.id /\ q.pendingRegistrationId = None
    <3>1. j.arg.id # None /\ r.registrationId = None
      BY <2>1, <2>4 DEF Made, ArgTyped, RegisteredItem
    <3>2. \A p \in posted : p[1] = q.fromSpace /\ p[2] = q.spaceId => p[3] = j.arg.id
      BY <2>1, <2>4, <3>1 DEF RegisteredItem, PostedOK
    <3>3. \E p \in posted : p[1] = q.fromSpace /\ p[3] = j.arg.id
      BY <2>1, <2>4 DEF ArgOK
    <3> QED
      BY <2>1, <2>4, <3>2, <3>3 DEF RegisteredItem
  <2> QED
    BY <1>2, <2>2, <2>3, <2>4 DEF Registers
<1> QED
  BY <1>1, <1>2, ReplicasMade DEF ReplicasWritten

\* A heartbeat stays the member's or is replaced by a later one, and only a
\* member long unseen is marked.
LEMMA StaysBeating ==
    ASSUME NEW e, NEW c \in Client, NEW j, NEW f, Made(e, c, j, f),
           beat \in [Writer -> Nat], \A m \in e.writers : BeatItem(m, beat),
           j.now <= day, day \in Nat,
           NEW b, b = IF j.op \in {"registerWriter", "touchWriter"}
                      THEN [beat EXCEPT ![c] = j.now] ELSE beat
    PROVE  b \in [Writer -> Nat] /\ \A m \in f.writers : BeatItem(m, b)
<1>1. j.now \in Nat /\ InactiveAfter \in Nat /\ c \in Writer /\ WritersTyped(e.writers)
  BY DaysAssumption, EntryParts DEF Made, ArgTyped, DaysAssumption, Writer
<1>2. b \in [Writer -> Nat]
  BY <1>1
<1>3. ASSUME NEW m \in f.writers, OwnMember(c, j, m) PROVE BeatItem(m, b)
  <2>1. b[c] = j.now
    BY <1>1, <1>3 DEF OwnMember
  <2> QED
    BY <1>1, <1>3, <2>1 DEF OwnMember, BeatItem
<1>4. ASSUME NEW m \in f.writers, KeptMember(e, c, j, m) PROVE BeatItem(m, b)
  <2>1. PICK n \in e.writers :
          /\ m.writerId = n.writerId /\ m.lastSeen = n.lastSeen
          /\ n.active => \/ m.active
                         \/ j.now - EffectiveLastSeen(n, j.now) > InactiveAfter
    BY <1>4 DEF KeptMember
  <2>2. n.writerId \in Writer /\ n.lastSeen \in Nat
    BY <1>1, <2>1 DEF WritersTyped, Member
  <2>3. b[m.writerId] = beat[n.writerId]
    BY <1>4, <2>1, <2>2 DEF KeptMember
  <2>4. PICK x \in Nat : x = beat[n.writerId]
    BY <2>2
  <2>5. n.lastSeen >= x /\ (n.active \/ day - x > InactiveAfter)
    BY <2>1, <2>4 DEF BeatItem
  <2>6. ASSUME j.now - EffectiveLastSeen(n, j.now) > InactiveAfter
        PROVE  day - x > InactiveAfter
    BY <1>1, <2>2, <2>5, <2>6 DEF EffectiveLastSeen
  <2>7. m.active \/ day - x > InactiveAfter
    BY <2>1, <2>5, <2>6
  <2> QED
    BY <2>1, <2>3, <2>4, <2>5, <2>7 DEF BeatItem
<1> QED
  BY <1>2, <1>3, <1>4, WritersMade DEF WritersWritten

-----------------------------------------------------------------------------
(* The write. *)

\* An accepted write is the change of what is stored.
LEMMA StoredMade ==
    ASSUME IInv, NEW c \in Client, Stored(c)
    PROVE  Made(entry, c, job[c], job[c].next)
<1>1. /\ Sound(entry) /\ CallOK(job[c]) /\ EntryOK(entry) /\ StandsOK
      /\ SlotOK(c, job[c]) /\ FreshWrite(job[c])
  BY DEF IInv, RetiredInv, TypeOK
<1>2. job[c].stage = "put" /\ job[c].base = version
  BY DEF Stored, IfMatch
<1>3. job[c].op \in Ops
  BY <1>1, <1>2 DEF CallOK, Idle
<1>4. Change(entry, job[c]).do = "put" /\ job[c].next = Change(entry, job[c]).body
  BY <1>1, <1>2 DEF FreshWrite
<1> QED
  BY <1>1, <1>3, <1>4 DEF Made, Sound, SlotOK, StandsOK

\* The days are numbers, and the calls.
LEMMA Counted == TypeOK => day \in Nat /\ calls \in Nat /\ cuts \in Nat
BY DaysAssumption DEF TypeOK, DaysAssumption

\* The ledger of the new body.
LEMMA StoredLedger ==
    ASSUME IInv, NEW c \in Client, Stored(c)
    PROVE  LedgerOK'
<1>1. PICK f : f = job[c].next
  OBVIOUS
<1>2. PICK R : R = recorded \cup Records(job[c])
  OBVIOUS
<1>3. Made(entry, c, job[c], f) /\ day \in Nat
  BY <1>1, StoredMade, Counted DEF IInv
<1>4. Ledger(f, R)
  BY <1>2, <1>3, StaysLedger DEF IInv, LedgerOK, SlotOK
<1>5. entry' = f /\ recorded' = R /\ UNCHANGED <<kind, day, calls, void>>
  BY <1>1, <1>2 DEF Stored, world
<1>6. Ledger(f, R)'
  BY <1>4, <1>5 DEF Ledger, Listed, Pending, Numbered, Once, Live, ConnectionGrants
<1> QED
  BY <1>5, <1>6 DEF LedgerOK

\* Its envelopes.
LEMMA StoredOutbox ==
    ASSUME IInv, NEW c \in Client, Stored(c)
    PROVE  OutboxOK' /\ Pending(entry)' \subseteq Pending(entry) \cup Records(job[c])
<1>1. PICK f : f = job[c].next
  OBVIOUS
<1>2. PICK W : W = Owes(job[c])
  OBVIOUS
<1>3. Made(entry, c, job[c], f) /\ day \in Nat
  BY <1>1, StoredMade, Counted DEF IInv
<1>4. /\ SlotOK(c, job[c]) /\ Sorted(entry.outbox) /\ Covered(entry, owed)
      /\ job[c].serial \in Nat /\ job[c].now \in Nat /\ job[c].now <= day
  BY DEF IInv, OutboxOK, SlotOK, ArgTyped, ArgOK
<1>5. OutboxWritten(entry, job[c], f)
  BY <1>3, OutboxMade
<1>6. \A z \in Records(job[c]), y \in Pending(entry) : y.serial = z.serial => y = z
  BY <1>4 DEF IInv, LedgerOK, Ledger, SlotOK, Ident
<1>7. Sorted(f.outbox)
  BY <1>4, <1>5, <1>6, StaysSorted
<1>8. job[c].op = "settleOutboxItem" =>
        \A z \in Pending(entry) : z.serial = job[c].arg => z \in delivered
  BY <1>4 DEF SlotOK, ArgOK
<1>9. Covered(f, W)
  BY <1>2, <1>3, <1>4, <1>5, <1>8, StaysCovered
<1>10. Pending(f) \subseteq Pending(entry) \cup Records(job[c])
  BY <1>4, <1>5, OutboxStays
<1>11. entry' = f /\ owed' = W /\ UNCHANGED <<day, delivered>>
  BY <1>1, <1>2 DEF Stored, world
<1>12. Covered(f, W)'
  BY <1>9, <1>11 DEF Covered, Pending
<1>13. W \subseteq Zcap
  <2>1. W \subseteq owed \cup Records(job[c])
    BY <1>2 DEF Owes, Records
  <2>2. Records(job[c]) \subseteq Zcap
    BY <1>4, RecordsIs DEF SlotOK
  <2> QED
    BY <2>1, <2>2 DEF IInv, OutboxOK
<1> QED
  BY <1>7, <1>10, <1>11, <1>12, <1>13 DEF OutboxOK, Sorted, Pending

\* Its replicas: none of a number that another recordReplicas holds.
LEMMA StoredReplicas ==
    ASSUME IInv, NEW c \in Client, Stored(c)
    PROVE  /\ RegistrationOK'
           /\ \A q \in entry'.replicas :
                \/ job[c].op = "recordReplicas" /\ q.spaceId = job[c].serial
                \/ \E r \in entry.replicas : q.spaceId = r.spaceId
<1>1. PICK f : f = job[c].next
  OBVIOUS
<1>2. Made(entry, c, job[c], f)
  BY <1>1, StoredMade
<1>3. \A q \in f.replicas : RegisteredItem(q)
  BY <1>2, StaysRegistered DEF IInv, RegistrationOK, SlotOK
<1>4. entry' = f /\ UNCHANGED <<calls, posted>>
  BY <1>1 DEF Stored, world
<1>5. RegistrationOK'
  BY <1>3, <1>4 DEF IInv, RegistrationOK, PostedOK, RegisteredItem
<1>6. \A q \in f.replicas : \/ NewReplica(q, job[c])
                            \/ \E r \in entry.replicas : SameReplica(r, q)
  BY <1>2, ReplicasMade DEF ReplicasWritten
<1> QED
  BY <1>4, <1>5, <1>6 DEF NewReplica, SameReplica

\* Its writers.
LEMMA StoredBeat ==
    ASSUME IInv, NEW c \in Client, Stored(c)
    PROVE  BeatOK'
<1>1. PICK f : f = job[c].next
  OBVIOUS
<1>2. PICK j : j = job[c]
  OBVIOUS
<1>3. PICK b : b = IF j.op \in {"registerWriter", "touchWriter"}
                   THEN [beat EXCEPT ![c] = j.now] ELSE beat
  OBVIOUS
<1>4. Made(entry, c, j, f) /\ day \in Nat /\ j.now <= day
  BY <1>1, <1>2, StoredMade, Counted DEF IInv, SlotOK, ArgOK
<1>5. beat \in [Writer -> Nat] /\ \A m \in entry.writers : BeatItem(m, beat)
  BY DEF IInv, BeatOK
<1>6. b \in [Writer -> Nat] /\ \A m \in f.writers : BeatItem(m, b)
  BY <1>3, <1>4, <1>5, StaysBeating
<1>7. entry' = f /\ beat' = b /\ UNCHANGED day
  BY <1>1, <1>2, <1>3 DEF Stored
<1> QED
  BY <1>6, <1>7 DEF BeatOK, BeatItem

\* Another call that is under way, or to be repeated, stays in order.
LEMMA StoredSlot ==
    ASSUME IInv, NEW c \in Client, Stored(c), NEW d \in Client, NEW k, SlotOK(d, k),
           InFlight' \subseteq InFlight, Distinct(job[c], k) \/ k = job[c],
           k = job[c] => k.op # "recordReplicas"
    PROVE  SlotOK(d, k)'
<1>1. PICK j : j = job[c]
  OBVIOUS
<1>2. UNCHANGED <<kind, day, calls, void, delivered, posted>> /\ SlotOK(c, j)
  BY <1>1 DEF Stored, world, IInv
<1>3. ArgTyped(d, k)'
  BY <1>2 DEF SlotOK, ArgTyped
<1>4. Records(j) \subseteq InFlight
  BY <1>1 DEF InFlight
<1>5. Pending(entry)' \subseteq Pending(entry) \cup InFlight
  BY <1>1, <1>4, StoredOutbox
<1>6. ASSUME k.op = "recordReplicas" PROVE \A q \in entry'.replicas : q.spaceId # k.serial
  <2>1. k # j /\ Distinct(j, k) /\ k.serial # None
    BY <1>1, <1>6 DEF SlotOK, ArgTyped
  <2>2. j.serial # k.serial
    BY <2>1 DEF Distinct
  <2>3. \A r \in entry.replicas : r.spaceId # k.serial
    BY <1>6 DEF SlotOK, ArgOK
  <2> QED
    BY <1>1, <2>2, <2>3, StoredReplicas
<1>7. ArgOK(k)'
  <2>1. ArgOK(k)
    BY DEF SlotOK
  <2>2. k.op = "settleOutboxItem" =>
          \A z \in Pending(entry)' \cup InFlight' : z.serial = k.arg => z \in delivered'
    BY <1>2, <1>5, <2>1 DEF ArgOK
  <2> QED
    BY <1>2, <1>6, <2>1, <2>2 DEF ArgOK
<1>8. Ident(k)'
  <2>1. recorded' = recorded \cup Records(j) /\ Ident(k)
    BY <1>1 DEF Stored, SlotOK
  <2>2. ASSUME NEW z \in Records(k), NEW g \in Records(j), g.serial = z.serial
        PROVE  g = z
    <3>1. g.serial = j.serial /\ j.serial # None /\ Records(j) = {g}
      BY <1>2, <2>2, RecordsIs DEF SlotOK
    <3>2. z.serial = k.serial
      BY <2>2, RecordsIs DEF SlotOK
    <3>3. k = j
      BY <1>1, <2>2, <3>1, <3>2 DEF Distinct
    <3> QED
      BY <2>2, <3>1, <3>3
  <2>3. \A z \in Records(k) :
          /\ \A g \in recorded' : g.serial = z.serial => g = z
          /\ z.renews # None =>
               \E g \in recorded' : g.serial = z.renews /\ g.scope = z.scope
    BY <2>1, <2>2 DEF Ident
  <2> QED
    BY <2>3 DEF Ident, Records
<1> QED
  BY <1>3, <1>7, <1>8 DEF SlotOK

\* A client that runs no call is in order, whatever the state.
LEMMA IdleSlot ==
    ASSUME NEW c, TypeOK
    PROVE  SlotOK(c, Idle) /\ FreshWrite(Idle)
<1>1. ArgTyped(c, Idle) /\ Records(Idle) = {}
  BY DEF ArgTyped, Idle, Records
<1>2. ArgOK(Idle)
  BY Counted DEF ArgOK, Idle
<1> QED
  BY <1>1, <1>2 DEF SlotOK, Ident, FreshWrite, Idle

\* The empty body is well formed.
LEMMA NoEntryOK == EntryOK(NoEntry)
<1>1. IsFiniteSet({}) /\ Cardinality({}) = 0
  BY FS_EmptySet
<1>2. MaxWriters \in Nat
  BY DaysAssumption DEF DaysAssumption
<1>3. <<>> \in Seq(Zcap)
  OBVIOUS
<1> QED
  BY <1>1, <1>2, <1>3 DEF EntryOK, NoEntry, None

\* A stored write keeps the invariant, whether its reply arrives or not.
LEMMA StoredStays ==
    ASSUME IInv, NEW c \in Client, Stored(c), RetiredInv',
           job' = [job EXCEPT ![c] = Idle],
           \/ torn' = torn
           \/ /\ torn' = [torn EXCEPT ![c] = job[c]] /\ job[c].op # "recordReplicas"
              /\ job[c].serial # None,
           cuts' \in 0..MaxCuts
    PROVE  IInv'
<1>1. /\ job = [d \in Client |-> job[d]] /\ torn = [d \in Client |-> torn[d]]
      /\ TypeOK /\ RetiredInv /\ Serials
  BY DEF IInv, RetiredInv
<1>2. /\ entry' = job[c].next /\ version' = version + 1
      /\ UNCHANGED <<kind, day, calls>>
  BY DEF Stored
<1>3. /\ job'[c] = Idle /\ \A d \in Client \ {c} : job'[d] = job[d]
      /\ \A d \in Client \ {c} : torn'[d] = torn[d]
      /\ \/ torn'[c] = torn[c]
         \/ torn'[c] = job[c] /\ job[c].op # "recordReplicas" /\ job[c].serial # None
  BY <1>1
<1>4. TypeOK' /\ StandsOK'
  <2>1. PICK f : f = job[c].next
    OBVIOUS
  <2>2. EntryOK(f) /\ f.stands
    BY <2>1, StoredMade, EntryMade
  <2>3. EntryOK(entry') /\ StandsOK'
    BY <1>2, <2>1, <2>2 DEF StandsOK
  <2>4. \A d \in Client : /\ job'[d].stage \in {"idle", "get", "put"}
                          /\ job'[d].attempt \in 0..WriteAttempts
                          /\ EntryOK(job'[d].next)
    <3>1. /\ Idle.stage = "idle" /\ Idle.attempt \in 0..WriteAttempts
          /\ Idle.next = NoEntry
      BY DaysAssumption DEF Idle, DaysAssumption
    <3> QED
      BY <1>1, <1>3, <3>1, NoEntryOK DEF TypeOK
  <2>5. /\ kind' \in Kinds /\ version' \in Nat /\ day' \in 0..MaxDay[kind]'
        /\ calls' \in 0..MaxCalls[kind]' /\ cuts' \in 0..MaxCuts
    BY <1>1, <1>2 DEF TypeOK
  <2> QED
    BY <2>3, <2>4, <2>5 DEF TypeOK
<1>5. InFlight' \subseteq InFlight
  <2>1. Records(Idle) = {}
    BY DEF Records, Idle
  <2>2. \A d \in Client : Records(job'[d]) \subseteq InFlight /\ Records(torn'[d]) \subseteq InFlight
    BY <1>3, <2>1 DEF InFlight
  <2> QED
    BY <2>2 DEF InFlight, Records
<1>6. ASSUME NEW d \in Client PROVE SlotOK(d, job[d])' /\ FreshWrite(job[d])'
  <2>1. CASE d = c
    <3>1. SlotOK(c, Idle)' /\ FreshWrite(Idle)'
      BY <1>4, IdleSlot, PTL
    <3> QED
      BY <1>3, <2>1, <3>1
  <2>2. CASE d # c
    <3>1. PICK k : k = job[d]
      OBVIOUS
    <3>2. SlotOK(d, k) /\ FreshWrite(k) /\ Distinct(job[c], k)
      BY <1>1, <2>2, <3>1 DEF IInv, Serials
    <3>3. job'[d] = k
      BY <1>3, <2>2, <3>1
    <3>4. k = job[c] => k.serial = None
      BY <3>2 DEF Distinct
    <3>5. k = job[c] => k.op # "recordReplicas"
      BY <3>2, <3>4 DEF SlotOK, ArgTyped
    <3>6. SlotOK(d, k)'
      BY <1>5, <3>2, <3>5, StoredSlot
    <3>7. FreshWrite(k)'
      <4>1. k.stage = "put" => k.base \in Nat /\ k.base <= version /\ version \in Nat
        BY <1>1, <3>2 DEF FreshWrite, TypeOK
      <4>2. k.stage = "put" => k.base \in Nat /\ k.base <= version' /\ k.base # version'
        BY <1>2, <4>1
      <4> QED
        BY <4>2 DEF FreshWrite
    <3> QED
      BY <3>3, <3>6, <3>7
  <2> QED
    BY <2>1, <2>2
<1>7. ASSUME NEW d \in Client PROVE SlotOK(d, torn[d])'
  <2>1. PICK k : k = torn'[d]
    OBVIOUS
  <2>2. \/ k = torn[d] /\ Distinct(job[c], k) /\ k.op # "recordReplicas" /\ SlotOK(d, k)
        \/ d = c /\ k = job[c] /\ job[c].op # "recordReplicas" /\ SlotOK(d, k)
    BY <1>1, <1>3, <2>1 DEF IInv, Serials
  <2>3. SlotOK(d, k)'
    BY <1>5, <2>2, StoredSlot
  <2> QED
    BY <2>1, <2>3
<1>8. Serials'
  <2>1. Idle.serial = None /\ Idle.op # "recordReplicas"
    BY DEF Idle, None
  <2>2. ASSUME NEW d \in Client PROVE torn'[d].op # "recordReplicas" /\ Distinct(job'[d], torn'[d])
    <3>1. torn[d].op # "recordReplicas" /\ Distinct(job[d], torn[d])
      BY <1>1 DEF Serials
    <3>2. CASE d = c
      BY <1>3, <2>1, <3>1, <3>2 DEF Distinct
    <3>3. CASE d # c
      BY <1>3, <3>1, <3>3
    <3> QED
      BY <3>2, <3>3
  <2>3. ASSUME NEW d \in Client, NEW x \in Client \ {d}
        PROVE  /\ Distinct(job'[d], job'[x]) /\ Distinct(job'[d], torn'[x])
               /\ Distinct(torn'[d], torn'[x])
    <3>1. \A u \in {job[d].serial, torn[d].serial}, v \in {job[x].serial, torn[x].serial} :
            u = None \/ u # v
      BY <1>1 DEF Serials, Distinct
    <3>2. /\ job'[d].serial \in {None, job[d].serial}
          /\ torn'[d].serial \in {job[d].serial, torn[d].serial}
      BY <1>3, <2>1
    <3>3. /\ job'[x].serial \in {None, job[x].serial}
          /\ torn'[x].serial \in {job[x].serial, torn[x].serial}
      BY <1>3, <2>1
    <3> QED
      BY <3>1, <3>2, <3>3 DEF Distinct
  <2> QED
    BY <2>2, <2>3 DEF Serials, Distinct
<1> QED
  BY <1>4, <1>6, <1>7, <1>8, StoredLedger, StoredOutbox, StoredReplicas, StoredBeat DEF IInv

-----------------------------------------------------------------------------
(* The steps that write nothing. *)

\* Time passes, capabilities are revoked or delivered, a pending registration
\* is posted, a call takes the next number.
Grown ==
    /\ UNCHANGED <<kind, entry, version, history>>
    /\ void \subseteq void' /\ delivered \subseteq delivered'
    /\ \/ posted' = posted
       \/ \E r \in entry.replicas :
            /\ r.pendingRegistrationId # None
            /\ posted' = posted \cup {Registration(r, r.pendingRegistrationId)}
    /\ calls <= calls' /\ calls' \in 0..MaxCalls[kind]
    /\ day <= day' /\ day' \in 0..MaxDay[kind] /\ cuts' \in 0..MaxCuts

\* What a posted registration is.
LEMMA PostedIs ==
    ASSUME IInv, Grown, NEW p \in posted', p \notin posted
    PROVE  \E r \in entry.replicas :
             /\ p = <<r.fromSpace, r.spaceId, r.pendingRegistrationId>>
             /\ r.pendingRegistrationId # None
BY DEF Grown, Registration

\* A number may only be posted for the replica whose item waits for it.
LEMMA GrownRegistration ==
    ASSUME IInv, Grown
    PROVE  RegistrationOK'
<1>1. PostedOK /\ \A r \in entry.replicas : RegisteredItem(r)
  BY DEF IInv, RegistrationOK
<1>2. ReplicasTyped(entry.replicas) /\ calls \in Nat /\ calls' \in Nat
  BY EntryParts, Counted, DaysAssumption DEF IInv, TypeOK, DaysAssumption, Grown
<1>3. entry' = entry /\ posted \subseteq posted' /\ calls <= calls'
  BY DEF Grown
<1>4. ASSUME NEW p \in posted', p \notin posted
      PROVE  /\ p \in Space \X Nat \X (Nat \ {None}) /\ p[2] <= calls
             /\ \A q \in posted : p[1] = q[1] /\ p[2] = q[2] => p = q
             /\ \A r \in entry.replicas : p[1] = r.fromSpace =>
                  p[3] = r.pendingRegistrationId
  <2>1. PICK r \in entry.replicas :
          /\ p = <<r.fromSpace, r.spaceId, r.pendingRegistrationId>>
          /\ r.pendingRegistrationId # None
    BY <1>4, PostedIs
  <2>2. r \in Replica /\ RegisteredItem(r)
    BY <1>1, <1>2 DEF ReplicasTyped
  <2>3. p \in Space \X Nat \X (Nat \ {None}) /\ p[2] <= calls
    BY <2>1, <2>2 DEF Replica, RegisteredItem
  <2>4. p[1] = r.fromSpace /\ p[2] = r.spaceId /\ p[3] = r.pendingRegistrationId
    BY <2>1
  <2>5. ASSUME NEW q \in posted, p[1] = q[1], p[2] = q[2] PROVE p = q
    <3>1. q \in Space \X Nat \X (Nat \ {None})
      BY <1>1 DEF PostedOK
    <3>2. q[3] \in {r.registrationId, r.pendingRegistrationId} /\ r.registrationId = None
      BY <2>1, <2>2, <2>4, <2>5 DEF RegisteredItem
    <3>3. q[3] = p[3]
      BY <2>4, <3>1, <3>2
    <3> QED
      BY <2>3, <2>5, <3>1, <3>3
  <2>6. \A x \in entry.replicas : p[1] = x.fromSpace => x = r
    BY <1>2, <2>4 DEF ReplicasTyped
  <2> QED
    BY <2>3, <2>4, <2>5, <2>6
<1>5. \A p, q \in posted' : p \notin posted /\ q \notin posted => p = q
  BY DEF Grown
<1>6. PostedOK'
  <2>1. \A p \in posted' : p \in Space \X Nat \X (Nat \ {None}) /\ p[2] <= calls
    BY <1>1, <1>4 DEF PostedOK
  <2>2. \A p \in posted' : p[2] <= calls'
    <3>1. \A p \in posted' : p[2] \in Nat
      BY <2>1
    <3> QED
      BY <1>2, <1>3, <2>1, <3>1
  <2>3. ASSUME NEW p \in posted', NEW q \in posted', p[1] = q[1], p[2] = q[2] PROVE p = q
    BY <1>1, <1>4, <1>5, <2>3 DEF PostedOK
  <2> QED
    BY <2>1, <2>2, <2>3 DEF PostedOK
<1>7. ASSUME NEW r \in entry.replicas PROVE RegisteredItem(r)'
  <2>1. RegisteredItem(r) /\ r.spaceId \in Nat
    BY <1>1, <1>2 DEF ReplicasTyped, Replica
  <2>2. r.spaceId <= calls'
    BY <1>2, <1>3, <2>1 DEF RegisteredItem
  <2>3. \A p \in posted' : p[1] = r.fromSpace /\ p[2] = r.spaceId =>
          p[3] \in {r.registrationId, r.pendingRegistrationId}
    BY <1>4, <2>1 DEF RegisteredItem
  <2> QED
    BY <1>3, <2>1, <2>2, <2>3 DEF RegisteredItem
<1> QED
  BY <1>3, <1>6, <1>7 DEF RegistrationOK

\* What is expired stays so.
LEMMA ExpiredStays ==
    ASSUME IInv, Grown, NEW z \in Zcap, ExpiredBeyondSkew(z, day)
    PROVE  ExpiredBeyondSkew(z, day')
<1>1. day \in Nat /\ day' \in Nat /\ day <= day'
  BY Counted, DaysAssumption DEF IInv, TypeOK, Grown, DaysAssumption
<1>2. z.expires \in Nat
  BY DEF Zcap
<1> QED
  BY <1>1, <1>2, DaysAssumption DEF ExpiredBeyondSkew, DaysAssumption

\* The entry stays in order.
LEMMA GrownEntry ==
    ASSUME IInv, Grown
    PROVE  StandsOK' /\ LedgerOK' /\ OutboxOK' /\ BeatOK'
<1>1. /\ entry' = entry /\ kind' = kind /\ recorded' = recorded /\ owed' = owed /\ beat' = beat
      /\ void \subseteq void' /\ delivered \subseteq delivered'
  BY DEF Grown, history
<1>2. /\ day \in Nat /\ day' \in Nat /\ day <= day'
      /\ calls \in Nat /\ calls' \in Nat /\ calls <= calls'
  BY Counted, DaysAssumption DEF IInv, TypeOK, Grown, DaysAssumption
<1>3. StandsOK'
  BY <1>1 DEF IInv, StandsOK
<1>4. LedgerOK'
  <2>1. Listed(entry) \cup Pending(entry) \subseteq recorded /\ Numbered(recorded)
        /\ Once(entry) /\ Live(entry, recorded)
    BY DEF IInv, LedgerOK, Ledger
  <2>2. Numbered(recorded)'
    <3>1. \A g \in recorded : g.serial \in Nat
      BY <2>1 DEF Numbered, Zcap
    <3>2. \A g \in recorded : g.serial <= calls'
      BY <1>2, <2>1, <3>1 DEF Numbered
    <3> QED
      BY <1>1, <2>1, <3>2 DEF Numbered
  <2>3. Live(entry, recorded)'
    <3>1. ConnectionGrants(entry)' = ConnectionGrants(entry)
      BY <1>1 DEF ConnectionGrants, Listed
    <3>2. \A g \in recorded : ExpiredBeyondSkew(g, day) => ExpiredBeyondSkew(g, day')
      BY <2>1, ExpiredStays DEF Numbered
    <3> QED
      BY <1>1, <2>1, <3>1, <3>2 DEF Live
  <2> QED
    BY <1>1, <2>1, <2>2, <2>3 DEF LedgerOK, Ledger, Once, Listed, Pending
<1>5. OutboxOK'
  <2>1. \A z \in owed : ExpiredBeyondSkew(z, day) => ExpiredBeyondSkew(z, day')
    BY ExpiredStays DEF IInv, OutboxOK
  <2>2. Sorted(entry.outbox)' /\ Pending(entry)' = Pending(entry)
    BY <1>1 DEF IInv, OutboxOK, Sorted, Pending
  <2>3. \A z \in owed : z \in Pending(entry) \cup delivered \/ ExpiredBeyondSkew(z, day)
    BY DEF IInv, OutboxOK, Covered
  <2> QED
    BY <1>1, <2>1, <2>2, <2>3 DEF IInv, OutboxOK, Covered
<1>6. BeatOK'
  <2>1. beat \in [Writer -> Nat] /\ \A m \in entry.writers : BeatItem(m, beat)
    BY DEF IInv, BeatOK
  <2>2. \A m \in entry.writers : m.writerId \in Writer
    BY EntryParts DEF IInv, TypeOK, WritersTyped, Member
  <2>3. InactiveAfter \in Nat
    BY DaysAssumption DEF DaysAssumption
  <2>4. ASSUME NEW m \in entry.writers PROVE BeatItem(m, beat)'
    <3>1. PICK x \in Nat : x = beat[m.writerId]
      BY <2>1, <2>2
    <3>2. m.active \/ day' - x > InactiveAfter
      BY <1>2, <2>1, <2>3, <3>1 DEF BeatItem
    <3> QED
      BY <1>1, <2>1, <3>1, <3>2 DEF BeatItem
  <2> QED
    BY <1>1, <2>1, <2>4 DEF BeatOK
<1> QED
  BY <1>3, <1>4, <1>5, <1>6

\* What the calls carry after a step: what they did, or what a new one mints.
NewFlight == \A z \in InFlight' : z \in InFlight \/ z.serial > calls

\* A call that is under way, or to be repeated, stays in order.
LEMMA GrownSlot ==
    ASSUME IInv, Grown, NewFlight, NEW d, NEW k, SlotOK(d, k)
    PROVE  SlotOK(d, k)'
<1>1. /\ entry' = entry /\ kind' = kind /\ recorded' = recorded
      /\ void \subseteq void' /\ delivered \subseteq delivered' /\ posted \subseteq posted'
  BY DEF Grown, history
<1>2. /\ day \in Nat /\ day' \in Nat /\ day <= day'
      /\ calls \in Nat /\ calls' \in Nat /\ calls <= calls'
  BY Counted, DaysAssumption DEF IInv, TypeOK, Grown, DaysAssumption
<1>3. ArgTyped(d, k)'
  BY <1>1 DEF SlotOK, ArgTyped
<1>4. Ident(k)'
  BY <1>1 DEF SlotOK, Ident, Records
<1>5. ArgOK(k)'
  <2>1. ArgOK(k) /\ k.now \in Nat /\ k.serial \in Nat
    BY DEF SlotOK, ArgTyped
  <2>2. k.now <= day' /\ k.serial <= calls'
    BY <1>2, <2>1 DEF ArgOK
  <2>3. ASSUME k.op = "settleOutboxItem"
        PROVE  /\ k.arg \in 0..calls'
               /\ \A z \in Pending(entry)' \cup InFlight' : z.serial = k.arg => z \in delivered'
    <3>1. /\ k.arg \in 0..calls
          /\ \A z \in Pending(entry) \cup InFlight : z.serial = k.arg => z \in delivered
      BY <2>1, <2>3 DEF ArgOK
    <3>2. Pending(entry)' = Pending(entry)
      BY <1>1 DEF Pending
    <3>3. \A z \in InFlight' : z.serial = k.arg => z \in InFlight
      BY <1>2, <3>1 DEF NewFlight
    <3> QED
      BY <1>1, <1>2, <3>1, <3>2, <3>3
  <2>4. ASSUME k.op = "recordReplicas" PROVE \A p \in posted' : p[2] # k.serial
    <3>1. /\ \A r \in entry.replicas : r.spaceId # k.serial
          /\ \A p \in posted : p[2] # k.serial
      BY <2>1, <2>4 DEF ArgOK
    <3> QED
      BY <3>1, PostedIs
  <2> QED
    BY <1>1, <2>1, <2>2, <2>3, <2>4 DEF ArgOK
<1> QED
  BY <1>3, <1>4, <1>5 DEF SlotOK

\* A call as far as the loop goes.
JobTyped(k) ==
    /\ k.stage \in {"idle", "get", "put"} /\ k.attempt \in 0..WriteAttempts
    /\ EntryOK(k.next)

\* One client goes on, begins a call or repeats one, and the entry stays.
LEMMA QuietStays ==
    ASSUME IInv, Grown, NewFlight, RetiredInv', NEW c \in Client, NEW k, NEW t,
           job' = [job EXCEPT ![c] = k], torn' = [torn EXCEPT ![c] = t],
           SlotOK(c, k)', SlotOK(c, t)', FreshWrite(k)', JobTyped(k),
           \/ /\ t = torn[c]
              /\ k.serial = None \/ k.serial = job[c].serial \/ k.serial > calls
           \/ k.serial = torn[c].serial /\ t = Idle
    PROVE  IInv'
<1>1. /\ job = [d \in Client |-> job[d]] /\ torn = [d \in Client |-> torn[d]]
      /\ TypeOK /\ Serials
  BY DEF IInv, RetiredInv
<1>2. /\ job'[c] = k /\ torn'[c] = t
      /\ \A d \in Client \ {c} : job'[d] = job[d] /\ torn'[d] = torn[d]
  BY <1>1
<1>3. entry' = entry /\ version' = version /\ kind' = kind
  BY DEF Grown
<1>4. TypeOK'
  <2>1. \A d \in Client : JobTyped(job'[d])
    BY <1>1, <1>2 DEF TypeOK, JobTyped
  <2>2. /\ kind' \in Kinds /\ version' \in Nat /\ EntryOK(entry')
        /\ day' \in 0..MaxDay[kind]' /\ calls' \in 0..MaxCalls[kind]' /\ cuts' \in 0..MaxCuts
    BY <1>1, <1>3 DEF TypeOK, Grown
  <2> QED
    BY <2>1, <2>2 DEF TypeOK, JobTyped
<1>5. ASSUME NEW d \in Client
      PROVE  SlotOK(d, job[d])' /\ SlotOK(d, torn[d])' /\ FreshWrite(job[d])'
  <2>1. CASE d = c
    BY <1>2, <2>1
  <2>2. CASE d # c
    <3>1. PICK x : x = job[d]
      OBVIOUS
    <3>2. PICK y : y = torn[d]
      OBVIOUS
    <3>3. SlotOK(d, x) /\ SlotOK(d, y) /\ FreshWrite(x)
      BY <3>1, <3>2 DEF IInv
    <3>4. SlotOK(d, x)' /\ SlotOK(d, y)'
      BY <3>3, GrownSlot
    <3>5. FreshWrite(x)'
      BY <1>3, <3>3 DEF FreshWrite, Change, SetConnectionLabel, RetireConnection, ConnectionGrants
    <3>6. job'[d] = x /\ torn'[d] = y
      BY <1>2, <2>2, <3>1, <3>2
    <3> QED
      BY <3>4, <3>5, <3>6
  <2> QED
    BY <2>1, <2>2
<1>6. Serials'
  <2>1. Idle.serial = None /\ Idle.op # "recordReplicas"
    BY DEF Idle, None
  <2>2. \A d \in Client : /\ job[d].serial \in Nat /\ torn[d].serial \in Nat
                          /\ job[d].serial <= calls /\ torn[d].serial <= calls
    BY DEF IInv, SlotOK, ArgTyped, ArgOK
  <2>3. k.serial > calls => \A d \in Client : k.serial # job[d].serial /\ k.serial # torn[d].serial
    BY <1>1, <2>2, Counted
  <2>4. t.op # "recordReplicas" /\ Distinct(k, t)
    BY <1>1, <2>1, <2>3 DEF Serials, Distinct
  <2>5. \A d \in Client \ {c} : Distinct(k, job[d]) /\ Distinct(k, torn[d])
    BY <1>1, <2>1, <2>3 DEF Serials, Distinct
  <2>6. \A d \in Client \ {c} : Distinct(t, job[d]) /\ Distinct(t, torn[d])
    BY <1>1, <2>1 DEF Serials, Distinct
  <2>7. ASSUME NEW d \in Client PROVE torn'[d].op # "recordReplicas" /\ Distinct(job'[d], torn'[d])
    BY <1>1, <1>2, <2>4 DEF Serials
  <2>8. ASSUME NEW d \in Client, NEW x \in Client \ {d}
        PROVE  /\ Distinct(job'[d], job'[x]) /\ Distinct(job'[d], torn'[x])
               /\ Distinct(torn'[d], torn'[x])
    BY <1>1, <1>2, <2>5, <2>6 DEF Serials, Distinct
  <2> QED
    BY <2>7, <2>8 DEF Serials, Distinct
<1> QED
  BY <1>4, <1>5, <1>6, GrownEntry, GrownRegistration DEF IInv

\* The world moves on and every client stays where it is.
LEMMA WorldStays ==
    ASSUME IInv, Grown, RetiredInv', job' = job, torn' = torn
    PROVE  IInv'
<1>1. InFlight' = InFlight
  BY DEF InFlight, Records
<1>2. NewFlight
  BY <1>1 DEF NewFlight
<1>3. entry' = entry /\ version' = version /\ kind' = kind
  BY DEF Grown
<1>4. TypeOK'
  BY <1>3 DEF IInv, TypeOK, Grown
<1>5. ASSUME NEW d \in Client
      PROVE  SlotOK(d, job[d])' /\ SlotOK(d, torn[d])' /\ FreshWrite(job[d])'
  <2>1. PICK x : x = job[d]
    OBVIOUS
  <2>2. PICK y : y = torn[d]
    OBVIOUS
  <2>3. SlotOK(d, x) /\ SlotOK(d, y) /\ FreshWrite(x)
    BY <2>1, <2>2 DEF IInv
  <2>4. SlotOK(d, x)' /\ SlotOK(d, y)'
    BY <1>2, <2>3, GrownSlot
  <2>5. FreshWrite(x)'
    BY <1>3, <2>3 DEF FreshWrite, Change, SetConnectionLabel, RetireConnection, ConnectionGrants
  <2> QED
    BY <2>1, <2>2, <2>4, <2>5
<1>6. Serials'
  BY DEF IInv, Serials, Distinct
<1> QED
  BY <1>4, <1>5, <1>6, GrownEntry, GrownRegistration DEF IInv

\* What the calls carry when one of them changes.
LEMMA FlightIs ==
    ASSUME IInv, NEW c \in Client, NEW k, NEW t,
           job' = [job EXCEPT ![c] = k], torn' = [torn EXCEPT ![c] = t]
    PROVE  InFlight' \subseteq InFlight \cup Records(k) \cup Records(t)
<1>1. /\ job = [d \in Client |-> job[d]] /\ torn = [d \in Client |-> torn[d]]
  BY DEF IInv, RetiredInv
<1>2. ASSUME NEW d \in Client
      PROVE  Records(job'[d]) \cup Records(torn'[d]) \subseteq InFlight \cup Records(k) \cup Records(t)
  BY <1>1 DEF InFlight
<1>3. InFlight' = UNION {Records(job'[d]) \cup Records(torn'[d]) : d \in Client}
  BY DEF InFlight, Records
<1> QED
  BY <1>2, <1>3

\* The order of a call is in what it was called with.
LEMMA SlotLike ==
    ASSUME NEW c, NEW j, NEW k, k.op = j.op, k.arg = j.arg, k.now = j.now,
           k.serial = j.serial, SlotOK(c, j)'
    PROVE  SlotOK(c, k)' /\ Records(k) = Records(j)
<1>1. Records(k) = Records(j)
  BY DEF Records
<1>2. ArgTyped(c, k)'
  BY DEF SlotOK, ArgTyped
<1>3. ArgOK(k)'
  BY DEF SlotOK, ArgOK
<1>4. Ident(k)'
  BY DEF SlotOK, Ident, Records
<1> QED
  BY <1>1, <1>2, <1>3, <1>4 DEF SlotOK

\* A client reads the entry and makes the body to write.
LEMMA AttemptStays ==
    ASSUME IInv, Grown, RetiredInv', NEW c \in Client, NEW j, j.op \in Ops,
           j = [f \in {"stage", "op", "arg", "now", "serial", "attempt", "base",
                       "next"} |-> j[f]],
           SlotOK(c, j)', j.attempt \in 0..WriteAttempts,
           Change(entry, j).do = "put", job' = [job EXCEPT ![c] = Attempt(j)],
           torn' = torn, \A z \in Records(j) : z \in InFlight \/ z.serial > calls,
           j.serial = None \/ j.serial = job[c].serial \/ j.serial > calls
    PROVE  IInv'
<1>1. PICK k : k = Attempt(j)
  OBVIOUS
<1>2. /\ k.op = j.op /\ k.arg = j.arg /\ k.now = j.now /\ k.serial = j.serial
      /\ k.stage = "put" /\ k.base = version /\ k.attempt = j.attempt
      /\ k.next = Change(entry, j).body
  BY <1>1 DEF Attempt
<1>3. SlotOK(c, k)' /\ Records(k) = Records(j)
  BY <1>2, SlotLike
<1>4. kind' = kind /\ entry' = entry /\ version' = version
  BY DEF Grown
<1>5. Made(entry, c, j, k.next)
  <2>1. ArgTyped(c, j)
    BY <1>4 DEF SlotOK, ArgTyped
  <2> QED
    BY <1>2, <2>1 DEF Made, IInv, RetiredInv, Sound, TypeOK, StandsOK
<1>6. JobTyped(k)
  BY <1>2, <1>5, EntryMade DEF JobTyped
<1>7. FreshWrite(k)'
  <2>1. version \in Nat
    BY DEF IInv, TypeOK
  <2>2. Change(entry, k) = Change(entry, j)
    BY <1>2 DEF Change
  <2>3. FreshWrite(k)
    BY <1>2, <2>1, <2>2 DEF FreshWrite
  <2> QED
    BY <1>4, <2>3 DEF FreshWrite, Change, SetConnectionLabel, RetireConnection, ConnectionGrants
<1>8. PICK t : t = torn[c]
  OBVIOUS
<1>9. torn' = [torn EXCEPT ![c] = t] /\ Records(t) \subseteq InFlight /\ SlotOK(c, t)
  BY <1>8 DEF IInv, RetiredInv, InFlight
<1>10. NewFlight
  <2>1. job' = [job EXCEPT ![c] = k]
    BY <1>1
  <2>2. InFlight' \subseteq InFlight \cup Records(k) \cup Records(t)
    BY <1>9, <2>1, FlightIs
  <2> QED
    BY <1>3, <1>9, <2>2 DEF NewFlight
<1>11. SlotOK(c, t)'
  BY <1>9, <1>10, GrownSlot
<1>12. \/ k.serial = None \/ k.serial = job[c].serial \/ k.serial > calls
  BY <1>2
<1>13. job' = [job EXCEPT ![c] = k]
  BY <1>1
<1> QED
  BY <1>3, <1>6, <1>7, <1>8, <1>9, <1>10, <1>11, <1>12, <1>13, QuietStays

-----------------------------------------------------------------------------
(* The calls. *)

\* The call a client begins.
NewCall(op, arg, serial) ==
    [Idle EXCEPT !.op = op, !.arg = arg, !.now = day, !.serial = serial]

\* What it is.
LEMMA NewCallIs ==
    ASSUME NEW op, NEW arg, NEW serial, NEW j, j = NewCall(op, arg, serial)
    PROVE  /\ j.op = op /\ j.arg = arg /\ j.now = day /\ j.serial = serial /\ j.attempt = 0
           /\ j = [f \in {"stage", "op", "arg", "now", "serial", "attempt", "base",
                          "next"} |-> j[f]]
BY DEF NewCall, Idle

\* A call begins.
LEMMA BeginStays ==
    ASSUME IInv, Grown, RetiredInv', NEW c \in Client, NEW op \in Ops, NEW arg, NEW serial,
           Begin(c, op, arg, serial), NEW j, j = NewCall(op, arg, serial), SlotOK(c, j)',
           serial = None \/ serial > calls, \A z \in Records(j) : z.serial > calls
    PROVE  IInv'
<1>1. /\ j.op = op /\ j.serial = serial /\ j.attempt = 0
      /\ j = [f \in {"stage", "op", "arg", "now", "serial", "attempt", "base",
                     "next"} |-> j[f]]
  BY NewCallIs
<1>2. /\ Change(entry, j).do = "put" /\ job' = [job EXCEPT ![c] = Attempt(j)]
      /\ torn' = torn
  BY DEF Begin, NewCall
<1>3. j.attempt \in 0..WriteAttempts
  BY <1>1, DaysAssumption DEF DaysAssumption
<1> QED
  BY <1>1, <1>2, <1>3, AttemptStays

\* A numbered one.
LEMMA NumberedStays ==
    ASSUME IInv, RetiredInv', NEW c \in Client, NEW op \in Ops, NEW arg, Call(c, op, arg),
           op \notin {"settleOutboxItem", "settleReplicaRegistration"},
           posted' = posted, void \subseteq void', delivered \subseteq delivered',
           NEW j, j = NewCall(op, arg, calls + 1), ArgTyped(c, j),
           op \in {"removeGrants", "retireConnection", "pruneSupersededGrants"} =>
             arg \subseteq void',
           \A z \in Records(j) : z.renews # None =>
             \E g \in recorded : g.serial = z.renews /\ g.scope = z.scope
    PROVE  IInv'
<1>1. /\ day \in Nat /\ calls \in Nat /\ TypeOK /\ LedgerOK /\ RegistrationOK
  BY Counted DEF IInv
<1>2. /\ calls < MaxCalls[kind] /\ calls' = calls + 1 /\ Begin(c, op, arg, calls + 1)
      /\ UNCHANGED <<kind, entry, version, torn, day, cuts, history>>
  BY DEF Call, Begin
<1>3. Grown
  <2>1. calls' \in 0..MaxCalls[kind] /\ calls <= calls'
    <3>1. MaxCalls[kind] \in Nat
      BY <1>1, DaysAssumption DEF TypeOK, DaysAssumption
    <3> QED
      BY <1>1, <1>2, <3>1
  <2>2. day <= day' /\ day' \in 0..MaxDay[kind] /\ cuts' \in 0..MaxCuts
    BY <1>1, <1>2 DEF TypeOK
  <2> QED
    BY <1>2, <2>1, <2>2 DEF Grown
<1>4. j.op = op /\ j.arg = arg /\ j.now = day /\ j.serial = calls + 1
  BY NewCallIs
<1>5. \A z \in Records(j) : z.serial > calls
  BY <1>1, <1>4, RecordsIs
<1>6. SlotOK(c, j)'
  <2>1. ArgTyped(c, j)'
    BY <1>2 DEF ArgTyped
  <2>2. ASSUME op = "recordReplicas"
        PROVE  /\ \A r \in entry.replicas : r.spaceId # calls + 1
               /\ \A p \in posted : p[2] # calls + 1
    <3>1. \A r \in entry.replicas : r.spaceId \in Nat
      BY <1>1, EntryParts DEF TypeOK, ReplicasTyped, Replica
    <3>2. \A p \in posted : p[2] \in Nat
      BY <1>1 DEF RegistrationOK, PostedOK
    <3> QED
      BY <1>1, <3>1, <3>2 DEF RegistrationOK, RegisteredItem, PostedOK
  <2>3. j.now <= day' /\ j.serial <= calls'
    BY <1>1, <1>2, <1>4
  <2>4. ArgOK(j)'
    BY <1>2, <1>4, <2>2, <2>3 DEF ArgOK
  <2>5. \A z \in Records(j), g \in recorded : g.serial # z.serial
    <3>1. \A g \in recorded : g.serial \in Nat /\ g.serial <= calls
      BY <1>1 DEF LedgerOK, Ledger, Numbered, Zcap
    <3>2. \A z \in Records(j) : z.serial = calls + 1
      BY <1>4, RecordsIs
    <3> QED
      BY <1>1, <3>1, <3>2
  <2>6. Ident(j)'
    BY <1>2, <2>5 DEF Ident, Records, history
  <2> QED
    BY <2>1, <2>4, <2>6 DEF SlotOK
<1>7. calls + 1 > calls
  BY <1>1
<1> QED
  BY <1>2, <1>3, <1>5, <1>6, <1>7, BeginStays

\* The capabilities calls mint.
LEMMA MintedIs ==
    ASSUME IInv
    PROVE  /\ \A s \in Scope \cup Space :
                /\ Fresh(s) \in Zcap /\ Fresh(s).serial = calls + 1
                /\ Fresh(s).scope = s /\ Fresh(s).renews = None
           /\ \A g \in Listed(entry) :
                /\ Renewal(g) \in Zcap /\ Renewal(g).serial = calls + 1
                /\ Renewal(g).scope = g.scope /\ Renewal(g).renews = g.serial
                /\ g \in recorded /\ g.serial # None
<1>1. PICK n \in Nat : n = calls + 1
  BY Counted DEF IInv
<1>2. PICK x \in Nat : x = day + Life
  BY Counted, DaysAssumption DEF IInv, DaysAssumption
<1>3. \A s : Fresh(s) = [serial |-> n, scope |-> s, expires |-> x, renews |-> None]
  BY <1>1, <1>2 DEF Fresh
<1>4. ASSUME NEW g \in Listed(entry)
      PROVE  /\ Renewal(g) \in Zcap /\ Renewal(g).serial = calls + 1
             /\ Renewal(g).scope = g.scope /\ Renewal(g).renews = g.serial
             /\ g \in recorded /\ g.serial # None
  <2>1. g \in recorded /\ g.serial # None /\ g \in Zcap
    BY DEF IInv, LedgerOK, Ledger, Numbered
  <2>2. g.serial \in Nat /\ g.scope \in Scope \cup Space
    BY <2>1 DEF Zcap
  <2>3. Renewal(g) = [serial |-> n, scope |-> g.scope, expires |-> x, renews |-> g.serial]
    BY <1>3 DEF Renewal
  <2> QED
    BY <1>1, <2>1, <2>2, <2>3 DEF Zcap
<1>5. ASSUME NEW s \in Scope \cup Space
      PROVE  /\ Fresh(s) \in Zcap /\ Fresh(s).serial = calls + 1
             /\ Fresh(s).scope = s /\ Fresh(s).renews = None
  BY <1>1, <1>3 DEF Zcap, None
<1> QED
  BY <1>4, <1>5

\* A call that carries no capability and whose arguments need no care.
LEMMA PlainStays ==
    ASSUME IInv, RetiredInv', NEW c \in Client, NEW arg,
           NEW op \in {"clearReceivedGrants", "unretireConnection", "markDeclined",
                       "dropReceivedGrant", "removeReplica", "sweepWriters"},
           Call(c, op, arg), UNCHANGED world
    PROVE  IInv'
<1>1. PICK j : j = NewCall(op, arg, calls + 1)
  OBVIOUS
<1>2. j.op = op /\ j.now = day /\ j.serial = calls + 1
  BY <1>1, NewCallIs
<1>3. day \in Nat /\ calls + 1 \in Nat
  BY Counted DEF IInv
<1>4. ArgTyped(c, j) /\ Records(j) = {}
  BY <1>2, <1>3 DEF ArgTyped, Records
<1>5. op \in Ops /\ op \notin {"settleOutboxItem", "settleReplicaRegistration",
                                "removeGrants", "retireConnection", "pruneSupersededGrants"}
  BY DEF Ops
<1> QED
  BY <1>1, <1>4, <1>5, NumberedStays DEF world

\* recordGrants
LEMMA RecordGrantsStays ==
    ASSUME IInv, RetiredInv', NEW c \in Client, CallRecordGrants(c)
    PROVE  IInv'
<1>1. PICK s \in Scope, message \in BOOLEAN, unlessRetired \in BOOLEAN :
        Call(c, "recordGrants", [grants |-> {Fresh(s)}, message |-> message,
                                 seed |-> SeedFor(c), unlessRetired |-> unlessRetired])
  BY DEF CallRecordGrants
<1>2. kind = "agent" /\ UNCHANGED world
  BY DEF CallRecordGrants
<1>3. PICK a : a = [grants |-> {Fresh(s)}, message |-> message,
                    seed |-> SeedFor(c), unlessRetired |-> unlessRetired]
  OBVIOUS
<1>4. PICK j : j = NewCall("recordGrants", a, calls + 1)
  OBVIOUS
<1>5. j.op = "recordGrants" /\ j.arg = a /\ j.now = day /\ j.serial = calls + 1
  BY <1>4, NewCallIs
<1>6. PICK z \in Zcap : z = Fresh(s) /\ z.serial = calls + 1 /\ z.renews = None
  BY MintedIs
<1>7. a.grants = {z} /\ a.seed \in Client \cup {None}
  BY <1>3, <1>6 DEF SeedFor, IInv, TypeOK, EntryOK
<1>8. day \in Nat /\ calls + 1 \in Nat /\ calls + 1 # None
  BY Counted DEF IInv, None
<1>9. ArgTyped(c, j) /\ Records(j) = {z}
  BY <1>2, <1>5, <1>6, <1>7, <1>8 DEF ArgTyped, Records
<1>10. Call(c, "recordGrants", a)
  BY <1>1, <1>3
<1>11. "recordGrants" \in Ops
  BY DEF Ops
<1> QED
  BY <1>2, <1>4, <1>6, <1>9, <1>10, <1>11, NumberedStays DEF world

\* removeGrants and retireConnection, after the revocation.
LEMMA RevokeStays ==
    ASSUME IInv, RetiredInv', NEW c \in Client, Revoke(c)
    PROVE  IInv'
<1>1. PICK op \in {"removeGrants", "retireConnection"} : Call(c, op, ConnectionGrants(entry))
  BY DEF Revoke
<1>2. /\ ConnectionGrants(entry) \subseteq void' /\ void \subseteq void'
      /\ delivered' = delivered /\ posted' = posted
  BY DEF Revoke
<1>3. PICK a : a = ConnectionGrants(entry)
  OBVIOUS
<1>4. PICK j : j = NewCall(op, a, calls + 1)
  OBVIOUS
<1>5. j.op = op /\ j.now = day /\ j.serial = calls + 1
  BY <1>4, NewCallIs
<1>6. day \in Nat /\ calls + 1 \in Nat
  BY Counted DEF IInv
<1>7. ArgTyped(c, j) /\ Records(j) = {}
  BY <1>5, <1>6 DEF ArgTyped, Records
<1>8. op \in Ops /\ op \notin {"settleOutboxItem", "settleReplicaRegistration"}
  BY DEF Ops
<1>9. Call(c, op, a) /\ a \subseteq void'
  BY <1>1, <1>2, <1>3
<1> QED
  BY <1>2, <1>4, <1>7, <1>8, <1>9, NumberedStays

\* unretireConnection, setConnectionLabel and markDeclined.
LEMMA MarkStays ==
    ASSUME IInv, RetiredInv', NEW c \in Client, CallMark(c)
    PROVE  IInv'
<1>1. CASE Call(c, "unretireConnection", <<>>) \/ Call(c, "markDeclined", <<>>)
  BY <1>1, PlainStays DEF CallMark
<1>2. CASE Call(c, "setConnectionLabel", [label |-> c, listed |-> listed])
  <2>1. PICK a : a = [label |-> c, listed |-> listed]
    OBVIOUS
  <2>2. PICK j : j = NewCall("setConnectionLabel", a, calls + 1)
    OBVIOUS
  <2>3. j.op = "setConnectionLabel" /\ j.arg = a /\ j.now = day /\ j.serial = calls + 1
    BY <2>2, NewCallIs
  <2>4. day \in Nat /\ calls + 1 \in Nat /\ a.label = c
    BY <2>1, Counted DEF IInv
  <2>5. ArgTyped(c, j) /\ Records(j) = {}
    BY <2>3, <2>4 DEF ArgTyped, Records
  <2>6. Call(c, "setConnectionLabel", a) /\ "setConnectionLabel" \in Ops
    BY <1>2, <2>1 DEF Ops
  <2> QED
    BY <2>2, <2>5, <2>6, NumberedStays DEF CallMark, world
<1> QED
  BY <1>1, <1>2 DEF CallMark

\* recordReceivedGrants and dropReceivedGrant.
LEMMA ChannelStays ==
    ASSUME IInv, RetiredInv', NEW c \in Client, CallChannel(c)
    PROVE  IInv'
<1>1. CASE \E h \in entry.grantsReceived : Call(c, "dropReceivedGrant", h.serial)
  BY <1>1, PlainStays DEF CallChannel
<1>2. CASE Call(c, "recordReceivedGrants",
                [serial |-> calls + 1, expires |-> day + Life, receivedAt |-> day])
  <2>1. PICK n \in Nat : n = calls + 1
    BY Counted DEF IInv
  <2>2. PICK x \in Nat : x = day + Life
    BY Counted, DaysAssumption DEF IInv, DaysAssumption
  <2>3. day \in Nat
    BY Counted DEF IInv
  <2>4. PICK a : a = [serial |-> n, expires |-> x, receivedAt |-> day]
    OBVIOUS
  <2>5. a \in Channel
    BY <2>3, <2>4 DEF Channel
  <2>6. PICK j : j = NewCall("recordReceivedGrants", a, calls + 1)
    OBVIOUS
  <2>7. j.op = "recordReceivedGrants" /\ j.arg = a /\ j.now = day /\ j.serial = n
    BY <2>1, <2>6, NewCallIs
  <2>8. ArgTyped(c, j) /\ Records(j) = {}
    BY <2>3, <2>5, <2>7 DEF ArgTyped, Records
  <2>9. Call(c, "recordReceivedGrants", a) /\ "recordReceivedGrants" \in Ops
    BY <1>2, <2>1, <2>2, <2>4 DEF Ops
  <2> QED
    BY <2>6, <2>8, <2>9, NumberedStays DEF CallChannel, world
<1> QED
  BY <1>1, <1>2 DEF CallChannel

\* recordRenewedGrants and pruneSupersededGrants.
LEMMA RenewStays ==
    ASSUME IInv, RetiredInv', NEW c \in Client, CallRenew(c)
    PROVE  IInv'
<1>1. kind = "agent" /\ UNCHANGED world
  BY DEF CallRenew
<1>2. day \in Nat /\ calls + 1 \in Nat /\ calls + 1 # None
  BY Counted DEF IInv, None
<1>3. ASSUME NEW g \in Listed(entry), Call(c, "recordRenewedGrants", Renewal(g)) PROVE IInv'
  <2>1. PICK z : z = Renewal(g)
    OBVIOUS
  <2>2. /\ z \in Zcap /\ z.serial = calls + 1 /\ z.scope = g.scope /\ z.renews = g.serial
        /\ g \in recorded /\ g.serial # None
    BY <2>1, MintedIs
  <2>3. PICK j : j = NewCall("recordRenewedGrants", z, calls + 1)
    OBVIOUS
  <2>4. j.op = "recordRenewedGrants" /\ j.arg = z /\ j.now = day /\ j.serial = calls + 1
    BY <2>3, NewCallIs
  <2>5. ArgTyped(c, j) /\ Records(j) = {z}
    BY <1>1, <1>2, <2>2, <2>4 DEF ArgTyped, Records
  <2>6. Call(c, "recordRenewedGrants", z) /\ "recordRenewedGrants" \in Ops
    BY <1>3, <2>1 DEF Ops
  <2> QED
    BY <1>1, <2>2, <2>3, <2>5, <2>6, NumberedStays DEF world
<1>4. ASSUME Call(c, "pruneSupersededGrants", void) PROVE IInv'
  <2>1. PICK a : a = void
    OBVIOUS
  <2>2. PICK j : j = NewCall("pruneSupersededGrants", a, calls + 1)
    OBVIOUS
  <2>3. j.op = "pruneSupersededGrants" /\ j.now = day /\ j.serial = calls + 1
    BY <2>2, NewCallIs
  <2>4. ArgTyped(c, j) /\ Records(j) = {}
    BY <1>2, <2>3 DEF ArgTyped, Records
  <2>5. Call(c, "pruneSupersededGrants", a) /\ "pruneSupersededGrants" \in Ops
    BY <1>4, <2>1 DEF Ops
  <2>6. a \subseteq void' /\ void' = void /\ delivered' = delivered /\ posted' = posted
    BY <1>1, <2>1 DEF world
  <2> QED
    BY <2>2, <2>4, <2>5, <2>6, NumberedStays
<1> QED
  BY <1>3, <1>4 DEF CallRenew

\* recordReplicas, removeReplica and the markers.
LEMMA CallReplicasStays ==
    ASSUME IInv, RetiredInv', NEW c \in Client, CallReplicas(c)
    PROVE  IInv'
<1>1. UNCHANGED world
  BY DEF CallReplicas
<1>2. day \in Nat /\ calls + 1 \in Nat /\ calls + 1 # None
  BY Counted DEF IInv, None
<1>3. ASSUME NEW spaces \in SUBSET Space,
             Call(c, "recordReplicas", [spaces |-> spaces, seed |-> SeedFor(c)])
      PROVE  IInv'
  <2>1. PICK a : a = [spaces |-> spaces, seed |-> SeedFor(c)]
    OBVIOUS
  <2>2. a.spaces \subseteq Space /\ a.seed \in Client \cup {None}
    BY <2>1 DEF SeedFor, IInv, TypeOK, EntryOK
  <2>3. PICK j : j = NewCall("recordReplicas", a, calls + 1)
    OBVIOUS
  <2>4. j.op = "recordReplicas" /\ j.arg = a /\ j.now = day /\ j.serial = calls + 1
    BY <2>3, NewCallIs
  <2>5. ArgTyped(c, j) /\ Records(j) = {}
    BY <1>2, <2>2, <2>4 DEF ArgTyped, Records
  <2>6. Call(c, "recordReplicas", a) /\ "recordReplicas" \in Ops
    BY <1>3, <2>1 DEF Ops
  <2> QED
    BY <1>1, <2>3, <2>5, <2>6, NumberedStays DEF world
<1>4. ASSUME NEW s \in Space, Call(c, "removeReplica", s) PROVE IInv'
  BY <1>1, <1>4, PlainStays
<1>5. ASSUME NEW r \in entry.replicas, NEW marker \in Markers,
             Call(c, "writeReplicaMarkers", [spaces |-> {r.fromSpace}, marker |-> marker,
                                             set |-> marker \notin r.markers])
      PROVE  IInv'
  <2>1. PICK a : a = [spaces |-> {r.fromSpace}, marker |-> marker,
                      set |-> marker \notin r.markers]
    OBVIOUS
  <2>2. PICK j : j = NewCall("writeReplicaMarkers", a, calls + 1)
    OBVIOUS
  <2>3. j.op = "writeReplicaMarkers" /\ j.arg = a /\ j.now = day /\ j.serial = calls + 1
    BY <2>2, NewCallIs
  <2>4. a.marker \in Markers
    BY <2>1
  <2>5. ArgTyped(c, j) /\ Records(j) = {}
    BY <1>2, <2>3, <2>4 DEF ArgTyped, Records
  <2>6. Call(c, "writeReplicaMarkers", a) /\ "writeReplicaMarkers" \in Ops
    BY <1>5, <2>1 DEF Ops
  <2> QED
    BY <1>1, <2>2, <2>5, <2>6, NumberedStays DEF world
<1> QED
  BY <1>3, <1>4, <1>5 DEF CallReplicas

\* recordReplicaGrant
LEMMA CallReplicaGrantStays ==
    ASSUME IInv, RetiredInv', NEW c \in Client, CallReplicaGrant(c)
    PROVE  IInv'
<1>1. kind = "replica-server" /\ UNCHANGED world
  BY DEF CallReplicaGrant
<1>2. day \in Nat /\ calls + 1 \in Nat /\ calls + 1 # None
  BY Counted DEF IInv, None
<1>3. ASSUME NEW z \in Zcap, NEW id \in Nat, z.serial = calls + 1,
             Call(c, "recordReplicaGrant", [zcap |-> z, pending |-> id]),
             z.renews # None => \E g \in recorded : g.serial = z.renews /\ g.scope = z.scope
      PROVE  IInv'
  <2>1. PICK a : a = [zcap |-> z, pending |-> id]
    OBVIOUS
  <2>2. a.zcap = z /\ a.pending = id
    BY <2>1
  <2>3. PICK j : j = NewCall("recordReplicaGrant", a, calls + 1)
    OBVIOUS
  <2>4. j.op = "recordReplicaGrant" /\ j.arg = a /\ j.now = day /\ j.serial = calls + 1
    BY <2>3, NewCallIs
  <2>5. ArgTyped(c, j) /\ Records(j) = {z}
    BY <1>1, <1>2, <1>3, <2>2, <2>4 DEF ArgTyped, Records
  <2>6. Call(c, "recordReplicaGrant", a) /\ "recordReplicaGrant" \in Ops
    BY <1>3, <2>1 DEF Ops
  <2> QED
    BY <1>1, <1>3, <2>3, <2>5, <2>6, NumberedStays DEF world
<1>4. PICK r \in entry.replicas :
        \/ \E id \in {r.pendingRegistrationId, calls + 1} :
             Call(c, "recordReplicaGrant", [zcap |-> Fresh(r.fromSpace), pending |-> id])
        \/ \E g \in Listed(entry) :
             Call(c, "recordReplicaGrant", [zcap |-> Renewal(g), pending |-> None])
  BY DEF CallReplicaGrant
<1>5. r.fromSpace \in Space /\ r.pendingRegistrationId \in Nat
  BY EntryParts DEF IInv, TypeOK, ReplicasTyped, Replica
<1>6. ASSUME NEW id \in {r.pendingRegistrationId, calls + 1},
             Call(c, "recordReplicaGrant", [zcap |-> Fresh(r.fromSpace), pending |-> id])
      PROVE  IInv'
  <2>1. PICK z : z = Fresh(r.fromSpace)
    OBVIOUS
  <2>2. z \in Zcap /\ z.serial = calls + 1 /\ z.renews = None
    BY <1>5, <2>1, MintedIs
  <2>3. id \in Nat
    BY <1>2, <1>5
  <2> QED
    BY <1>3, <1>6, <2>1, <2>2, <2>3
<1>7. ASSUME NEW g \in Listed(entry),
             Call(c, "recordReplicaGrant", [zcap |-> Renewal(g), pending |-> None])
      PROVE  IInv'
  <2>1. PICK z : z = Renewal(g)
    OBVIOUS
  <2>2. /\ z \in Zcap /\ z.serial = calls + 1 /\ z.scope = g.scope /\ z.renews = g.serial
        /\ g \in recorded
    BY <2>1, MintedIs
  <2>3. None \in Nat
    BY DEF None
  <2>4. Call(c, "recordReplicaGrant", [zcap |-> z, pending |-> None])
    BY <1>7, <2>1
  <2> QED
    BY <1>3, <2>2, <2>3, <2>4
<1> QED
  BY <1>4, <1>6, <1>7

\* registerConnectionWriter
LEMMA RegisterStays ==
    ASSUME IInv, RetiredInv', NEW c \in Client,
           Call(c, "registerWriter", [writer |-> c, listed |-> listed]), UNCHANGED world
    PROVE  IInv'
<1>1. PICK a : a = [writer |-> c, listed |-> listed]
  OBVIOUS
<1>2. PICK j : j = NewCall("registerWriter", a, calls + 1)
  OBVIOUS
<1>3. j.op = "registerWriter" /\ j.arg = a /\ j.now = day /\ j.serial = calls + 1
  BY <1>2, NewCallIs
<1>4. day \in Nat /\ calls + 1 \in Nat /\ a.writer = c
  BY <1>1, Counted DEF IInv
<1>5. ArgTyped(c, j) /\ Records(j) = {}
  BY <1>3, <1>4 DEF ArgTyped, Records
<1>6. Call(c, "registerWriter", a) /\ "registerWriter" \in Ops
  BY <1>1 DEF Ops
<1> QED
  BY <1>2, <1>5, <1>6, NumberedStays DEF world

\* touchConnectionWriter and sweepConnectionWriters
LEMMA TouchOrSweepStays ==
    ASSUME IInv, RetiredInv', NEW c \in Client, CallTouchOrSweep(c)
    PROVE  IInv'
<1>1. CASE Call(c, "sweepWriters", <<>>)
  BY <1>1, PlainStays DEF CallTouchOrSweep
<1>2. CASE Call(c, "touchWriter", c)
  <2>1. PICK j : j = NewCall("touchWriter", c, calls + 1)
    OBVIOUS
  <2>2. j.op = "touchWriter" /\ j.arg = c /\ j.now = day /\ j.serial = calls + 1
    BY <2>1, NewCallIs
  <2>3. day \in Nat /\ calls + 1 \in Nat
    BY Counted DEF IInv
  <2>4. ArgTyped(c, j) /\ Records(j) = {} /\ "touchWriter" \in Ops
    BY <2>2, <2>3 DEF ArgTyped, Records, Ops
  <2> QED
    BY <1>2, <2>1, <2>4, NumberedStays DEF CallTouchOrSweep, world
<1> QED
  BY <1>1, <1>2 DEF CallTouchOrSweep

\* An unnumbered call changes nothing that grows but the world.
LEMMA UnnumberedGrows ==
    ASSUME IInv, NEW c \in Client, NEW op, NEW arg, Begin(c, op, arg, None), calls' = calls,
           void' = void, delivered \subseteq delivered',
           \/ posted' = posted
           \/ \E r \in entry.replicas :
                /\ r.pendingRegistrationId # None
                /\ posted' = posted \cup {Registration(r, r.pendingRegistrationId)}
    PROVE  Grown /\ UNCHANGED <<kind, entry, day, history>>
<1>1. UNCHANGED <<kind, entry, version, day, cuts, history>>
  BY DEF Begin
<1>2. calls <= calls' /\ calls' \in 0..MaxCalls[kind]
  BY Counted DEF IInv, TypeOK
<1>3. day <= day' /\ day' \in 0..MaxDay[kind] /\ cuts' \in 0..MaxCuts
  BY <1>1, Counted DEF IInv, TypeOK
<1> QED
  BY <1>1, <1>2, <1>3 DEF Grown

\* settleOutboxItem, after the push: what its envelope carries is delivered,
\* and so is anything a call under way would record under the same number.
LEMMA PushStays ==
    ASSUME IInv, RetiredInv', NEW c \in Client, PushEnvelope(c)
    PROVE  IInv'
<1>1. PICK item \in entry.outbox :
        /\ delivered' = delivered \cup item.zcaps
        /\ Begin(c, "settleOutboxItem", item.createdAt, None)
  BY DEF PushEnvelope
<1>2. PICK a : a = item.createdAt
  OBVIOUS
<1>3. PICK j : j = NewCall("settleOutboxItem", a, None)
  OBVIOUS
<1>4. j.op = "settleOutboxItem" /\ j.arg = a /\ j.now = day /\ j.serial = None
  BY <1>3, NewCallIs
<1>5. Begin(c, "settleOutboxItem", a, None) /\ void' = void /\ posted' = posted /\ calls' = calls
  BY <1>1, <1>2 DEF PushEnvelope
<1>6. Grown /\ UNCHANGED <<kind, entry, day, history>>
  BY <1>1, <1>5, UnnumberedGrows
<1>7. Records(j) = {} /\ day \in Nat /\ calls \in Nat
  BY <1>4, Counted DEF Records, IInv
<1>8. OutboxTyped(entry.outbox) /\ Sorted(entry.outbox)
  BY EntryParts DEF IInv, TypeOK, OutboxOK
<1>9. PICK y \in item.zcaps : TRUE
  BY <1>8 DEF OutboxTyped
<1>10. y \in recorded /\ y.serial = a
  <2>1. y \in Pending(entry)
    BY <1>1 DEF Pending
  <2> QED
    BY <1>2, <1>8, <2>1 DEF Sorted, IInv, LedgerOK, Ledger
<1>11. a \in 0..calls
  BY <1>7, <1>10 DEF IInv, LedgerOK, Ledger, Numbered, Zcap
<1>12. ASSUME NEW z \in Pending(entry), z.serial = a PROVE z \in delivered'
  <2>1. PICK i \in entry.outbox : z \in i.zcaps
    BY DEF Pending
  <2>2. i = item
    BY <1>2, <1>8, <1>12, <2>1 DEF Sorted
  <2> QED
    BY <1>1, <2>1, <2>2
<1>13. ASSUME NEW z \in InFlight, z.serial = a PROVE z \in delivered'
  <2>1. PICK d \in Client : z \in Records(job[d]) \cup Records(torn[d])
    BY DEF InFlight
  <2>2. y = z
    BY <1>10, <1>13, <2>1 DEF IInv, SlotOK, Ident
  <2> QED
    BY <1>1, <2>2
<1>14. InFlight' \subseteq InFlight
  <2>1. PICK k : k = Attempt(j)
    OBVIOUS
  <2>2. PICK t : t = torn[c]
    OBVIOUS
  <2>3. job' = [job EXCEPT ![c] = k] /\ torn' = [torn EXCEPT ![c] = t]
    BY <1>3, <1>5, <2>1, <2>2 DEF Begin, NewCall, IInv, RetiredInv
  <2>4. InFlight' \subseteq InFlight \cup Records(k) \cup Records(t)
    BY <2>3, FlightIs
  <2>5. Records(k) = {}
    BY <1>4, <2>1, NewCallIs, <1>3 DEF Attempt, Records
  <2>6. Records(t) \subseteq InFlight
    BY <2>2 DEF InFlight
  <2> QED
    BY <2>4, <2>5, <2>6
<1>15. SlotOK(c, j)'
  <2>1. ArgTyped(c, j)'
    BY <1>4, <1>7 DEF ArgTyped, None
  <2>2. j.now <= day' /\ j.serial <= calls' /\ j.arg \in 0..calls'
    BY <1>4, <1>5, <1>6, <1>7, <1>11 DEF None
  <2>3. \A z \in Pending(entry)' \cup InFlight' : z.serial = j.arg => z \in delivered'
    <3>1. Pending(entry)' = Pending(entry)
      BY <1>6 DEF Pending
    <3> QED
      BY <1>4, <1>12, <1>13, <1>14, <3>1
  <2>4. ArgOK(j)'
    BY <1>4, <2>2, <2>3 DEF ArgOK
  <2>5. Ident(j)'
    BY <1>7 DEF Ident, Records
  <2> QED
    BY <2>1, <2>4, <2>5 DEF SlotOK
<1>16. "settleOutboxItem" \in Ops
  BY DEF Ops
<1> QED
  BY <1>3, <1>5, <1>6, <1>7, <1>15, <1>16, BeginStays

\* settleReplicaRegistration, after the registration is posted.
LEMMA PostStays ==
    ASSUME IInv, RetiredInv', NEW c \in Client, PostRegistration(c)
    PROVE  IInv'
<1>1. PICK r \in entry.replicas :
        /\ r.pendingRegistrationId # None
        /\ posted' = posted \cup {Registration(r, r.pendingRegistrationId)}
        /\ Begin(c, "settleReplicaRegistration",
                 [space |-> r.fromSpace, id |-> r.pendingRegistrationId], None)
  BY DEF PostRegistration
<1>2. PICK a : a = [space |-> r.fromSpace, id |-> r.pendingRegistrationId]
  OBVIOUS
<1>3. PICK j : j = NewCall("settleReplicaRegistration", a, None)
  OBVIOUS
<1>4. j.op = "settleReplicaRegistration" /\ j.arg = a /\ j.now = day /\ j.serial = None
  BY <1>3, NewCallIs
<1>5. /\ Begin(c, "settleReplicaRegistration", a, None)
      /\ void' = void /\ delivered' = delivered /\ calls' = calls
  BY <1>1, <1>2 DEF PostRegistration
<1>6. Grown /\ UNCHANGED <<kind, entry, day, history>>
  BY <1>1, <1>5, UnnumberedGrows
<1>7. Records(j) = {} /\ day \in Nat /\ calls \in Nat
  BY <1>4, Counted DEF Records, IInv
<1>8. a.space \in Space /\ a.id \in Nat \ {None}
  BY <1>1, <1>2, EntryParts DEF IInv, TypeOK, ReplicasTyped, Replica
<1>9. \E p \in posted' : p[1] = a.space /\ p[3] = a.id
  <2>1. PICK p : p = <<r.fromSpace, r.spaceId, r.pendingRegistrationId>>
    OBVIOUS
  <2>2. p \in posted'
    BY <1>1, <2>1 DEF Registration
  <2>3. a.space = r.fromSpace /\ a.id = r.pendingRegistrationId
    BY <1>2
  <2>4. p[1] = a.space /\ p[3] = a.id
    BY <2>1, <2>3
  <2> QED
    BY <2>2, <2>4
<1>10. SlotOK(c, j)'
  <2>1. ArgTyped(c, j)'
    BY <1>4, <1>7, <1>8 DEF ArgTyped, None
  <2>2. j.now <= day' /\ j.serial <= calls'
    BY <1>4, <1>5, <1>6, <1>7 DEF None
  <2>3. ArgOK(j)'
    BY <1>4, <1>9, <2>2 DEF ArgOK
  <2>4. Ident(j)'
    BY <1>7 DEF Ident, Records
  <2> QED
    BY <2>1, <2>3, <2>4 DEF SlotOK
<1>11. "settleReplicaRegistration" \in Ops
  BY DEF Ops
<1> QED
  BY <1>3, <1>5, <1>6, <1>7, <1>10, <1>11, BeginStays

-----------------------------------------------------------------------------
(* The rest of a call. *)

\* What only a client's call changes grows nothing.
LEMMA StillGrows ==
    ASSUME IInv, UNCHANGED <<kind, entry, version, day, calls, cuts, world, history>>
    PROVE  Grown
<1>1. calls <= calls' /\ calls' \in 0..MaxCalls[kind]
  BY Counted DEF IInv, TypeOK
<1>2. day <= day' /\ day' \in 0..MaxDay[kind] /\ cuts' \in 0..MaxCuts
  BY Counted DEF IInv, TypeOK
<1> QED
  BY <1>1, <1>2 DEF Grown, world

\* A client's call, or the one it is to repeat, moves on without a body.
LEMMA MovesOn ==
    ASSUME IInv, RetiredInv', UNCHANGED <<kind, entry, version, day, calls, cuts, world, history>>,
           NEW c \in Client, NEW k, NEW t,
           job' = [job EXCEPT ![c] = k], torn' = [torn EXCEPT ![c] = t],
           SlotOK(c, k), SlotOK(c, t), k.stage # "put", JobTyped(k),
           Records(k) \subseteq InFlight, Records(t) \subseteq InFlight,
           \/ /\ t = torn[c]
              /\ k.serial = None \/ k.serial = job[c].serial
           \/ k.serial = torn[c].serial /\ t = Idle
    PROVE  IInv'
<1>1. Grown
  BY StillGrows
<1>2. NewFlight
  BY FlightIs DEF NewFlight
<1>3. SlotOK(c, k)' /\ SlotOK(c, t)'
  BY <1>1, <1>2, GrownSlot
<1>4. FreshWrite(k)'
  BY DEF FreshWrite
<1> QED
  BY <1>1, <1>2, <1>3, <1>4, QuietStays

\* A call ends without a write.
LEMMA EndStays ==
    ASSUME IInv, RetiredInv', UNCHANGED <<kind, entry, version, day, calls, cuts, world, history>>,
           NEW c \in Client, job' = [job EXCEPT ![c] = Idle], torn' = torn
    PROVE  IInv'
<1>1. PICK k : k = Idle
  OBVIOUS
<1>2. PICK t : t = torn[c]
  OBVIOUS
<1>3. k.stage = "idle" /\ k.serial = None /\ Records(k) = {}
  BY <1>1 DEF Idle, Records, None
<1>4. JobTyped(k)
  BY <1>1, NoEntryOK, DaysAssumption DEF Idle, JobTyped, DaysAssumption
<1>5. SlotOK(c, k) /\ SlotOK(c, t) /\ Records(t) \subseteq InFlight
  BY <1>1, <1>2, IdleSlot DEF IInv, InFlight
<1>6. job' = [job EXCEPT ![c] = k] /\ torn' = [torn EXCEPT ![c] = t]
  BY <1>1, <1>2 DEF IInv, RetiredInv
<1> QED
  BY <1>2, <1>3, <1>4, <1>5, <1>6, MovesOn

\* The next attempt's read.
LEMMA GetStays ==
    ASSUME IInv, RetiredInv', NEW c \in Client, Get(c)
    PROVE  IInv'
<1>1. UNCHANGED <<kind, entry, version, torn, day, calls, cuts, world, history>>
  BY DEF Get
<1>2. CASE job' = [job EXCEPT ![c] = Idle]
  BY <1>1, <1>2, EndStays
<1>3. CASE /\ Change(entry, job[c]).do = "put"
           /\ job' = [job EXCEPT ![c] = Attempt(job[c])]
  <2>1. PICK j : j = job[c]
    OBVIOUS
  <2>2. /\ j.op \in Ops
        /\ j = [f \in {"stage", "op", "arg", "now", "serial", "attempt", "base",
                       "next"} |-> j[f]]
    BY <2>1 DEF Get, IInv, RetiredInv, CallOK, Idle
  <2>3. SlotOK(c, j) /\ Records(j) \subseteq InFlight /\ j.attempt \in 0..WriteAttempts
    BY <2>1 DEF IInv, InFlight, TypeOK
  <2>4. Grown
    BY <1>1, StillGrows
  <2>5. NewFlight
    <3>1. PICK k : k = Attempt(j)
      OBVIOUS
    <3>2. PICK t : t = torn[c]
      OBVIOUS
    <3>3. Records(k) \subseteq InFlight
      <4>1. k.op = j.op /\ k.arg = j.arg
        BY <2>2, <3>1 DEF Attempt
      <4>2. Records(k) = Records(j)
        BY <4>1 DEF Records
      <4> QED
        BY <2>3, <4>2
    <3>4. Records(t) \subseteq InFlight
      BY <3>2 DEF InFlight
    <3>5. job' = [job EXCEPT ![c] = k] /\ torn' = [torn EXCEPT ![c] = t]
      BY <1>1, <1>3, <2>1, <3>1, <3>2 DEF IInv, RetiredInv
    <3> QED
      BY <3>3, <3>4, <3>5, FlightIs DEF NewFlight
  <2>6. SlotOK(c, j)'
    BY <2>3, <2>4, <2>5, GrownSlot
  <2>7. Change(entry, j).do = "put" /\ job' = [job EXCEPT ![c] = Attempt(j)]
    BY <1>3, <2>1
  <2> QED
    BY <1>1, <2>1, <2>2, <2>3, <2>4, <2>6, <2>7, AttemptStays
<1> QED
  BY <1>2, <1>3 DEF Get, End

\* What a call was called with makes its order, whatever the state.
LEMMA SlotSame ==
    ASSUME NEW c, NEW j, NEW k, k.op = j.op, k.arg = j.arg, k.now \in Nat, k.now <= day,
           k.serial = j.serial, SlotOK(c, j)
    PROVE  SlotOK(c, k) /\ Records(k) = Records(j)
<1>1. Records(k) = Records(j)
  BY DEF Records
<1>2. ArgTyped(c, k)
  BY DEF SlotOK, ArgTyped
<1>3. ArgOK(k)
  BY DEF SlotOK, ArgOK
<1>4. Ident(k)
  BY <1>1 DEF SlotOK, Ident
<1> QED
  BY <1>1, <1>2, <1>3, <1>4 DEF SlotOK

\* A lost race.
LEMMA LostRaceStays ==
    ASSUME IInv, RetiredInv', NEW c \in Client, LostRace(c)
    PROVE  IInv'
<1>1. UNCHANGED <<kind, entry, version, torn, day, calls, cuts, world, history>>
  BY DEF LostRace
<1>2. CASE job' = [job EXCEPT ![c] = Idle]
  BY <1>1, <1>2, EndStays
<1>3. CASE /\ job[c].attempt + 1 < WriteAttempts
           /\ job' = [job EXCEPT ![c].stage = "get", ![c].attempt = @ + 1,
                                 ![c].next = NoEntry]
  <2>1. PICK j : j = job[c]
    OBVIOUS
  <2>2. /\ j = [f \in {"stage", "op", "arg", "now", "serial", "attempt", "base",
                       "next"} |-> j[f]]
        /\ j.attempt \in 0..WriteAttempts /\ SlotOK(c, j) /\ Records(j) \subseteq InFlight
        /\ j.now \in Nat /\ j.now <= day
    <3>1. SlotOK(c, j) /\ Records(j) \subseteq InFlight
      BY <2>1 DEF IInv, InFlight
    <3>2. j.attempt \in 0..WriteAttempts
      BY <2>1 DEF IInv, TypeOK
    <3>3. j = [f \in {"stage", "op", "arg", "now", "serial", "attempt", "base",
                      "next"} |-> j[f]]
      BY <2>1 DEF IInv, RetiredInv, CallOK
    <3>4. j.now \in Nat /\ j.now <= day
      BY <3>1 DEF SlotOK, ArgTyped, ArgOK
    <3> QED
      BY <3>1, <3>2, <3>3, <3>4
  <2>3. PICK n \in Nat : n = j.attempt + 1
    BY <2>2
  <2>4. PICK k : k = [j EXCEPT !.stage = "get", !.attempt = n, !.next = NoEntry]
    OBVIOUS
  <2>5. /\ k.op = j.op /\ k.arg = j.arg /\ k.now = j.now /\ k.serial = j.serial
        /\ k.stage = "get" /\ k.attempt = n /\ k.next = NoEntry
    BY <2>2, <2>4
  <2>6. SlotOK(c, k) /\ Records(k) \subseteq InFlight
    BY <2>2, <2>5, SlotSame
  <2>7. JobTyped(k)
    <3>1. n < WriteAttempts
      BY <1>3, <2>1, <2>3
    <3>2. n \in 0..WriteAttempts
      BY <2>3, <3>1, DaysAssumption DEF DaysAssumption
    <3> QED
      BY <2>5, <3>2, NoEntryOK DEF JobTyped
  <2>8. job' = [job EXCEPT ![c] = k]
    BY <1>3, <2>1, <2>2, <2>3, <2>4 DEF IInv, RetiredInv
  <2>9. PICK t : t = torn[c]
    OBVIOUS
  <2>10. torn' = [torn EXCEPT ![c] = t] /\ SlotOK(c, t) /\ Records(t) \subseteq InFlight
    BY <1>1, <2>9 DEF IInv, RetiredInv, InFlight
  <2>11. k.stage # "put" /\ k.serial = job[c].serial
    BY <2>1, <2>5
  <2> QED
    BY <1>1, <2>6, <2>7, <2>8, <2>9, <2>10, <2>11, MovesOn
<1> QED
  BY <1>2, <1>3 DEF LostRace, End

\* The call whose outcome was never learnt, again.
LEMMA CallAgainStays ==
    ASSUME IInv, RetiredInv', NEW c \in Client, CallAgain(c)
    PROVE  IInv'
<1>1. UNCHANGED <<kind, entry, version, day, calls, cuts, world, history>>
  BY DEF CallAgain
<1>2. PICK j : j = torn[c]
  OBVIOUS
<1>3. /\ j = [f \in {"stage", "op", "arg", "now", "serial", "attempt", "base",
                     "next"} |-> j[f]]
      /\ SlotOK(c, j) /\ Records(j) \subseteq InFlight
  BY <1>2 DEF IInv, RetiredInv, CallOK, InFlight
<1>4. PICK k : k = [j EXCEPT !.stage = "get", !.now = day, !.attempt = 0, !.base = 0,
                             !.next = NoEntry]
  OBVIOUS
<1>5. /\ k.op = j.op /\ k.arg = j.arg /\ k.now = day /\ k.serial = j.serial
      /\ k.stage = "get" /\ k.attempt = 0 /\ k.next = NoEntry
  BY <1>3, <1>4
<1>6. SlotOK(c, k) /\ Records(k) \subseteq InFlight
  <2>1. day \in Nat /\ day <= day
    BY Counted DEF IInv
  <2> QED
    BY <1>3, <1>5, <2>1, SlotSame
<1>7. JobTyped(k)
  BY <1>5, NoEntryOK, DaysAssumption DEF JobTyped, DaysAssumption
<1>8. PICK t : t = Idle
  OBVIOUS
<1>9. SlotOK(c, t) /\ Records(t) = {}
  BY <1>8, IdleSlot DEF IInv, Idle, Records
<1>10. job' = [job EXCEPT ![c] = k] /\ torn' = [torn EXCEPT ![c] = t]
  BY <1>2, <1>4, <1>8 DEF CallAgain
<1>11. k.stage # "put" /\ k.serial = torn[c].serial
  BY <1>2, <1>5
<1> QED
  BY <1>1, <1>6, <1>7, <1>8, <1>9, <1>10, <1>11, MovesOn

\* The write and its reply, or the write alone.
LEMMA WriteStays ==
    ASSUME IInv, RetiredInv', NEW c \in Client, Put(c) \/ LostReply(c)
    PROVE  IInv'
<1>1. CASE Put(c)
  <2>1. cuts' \in 0..MaxCuts
    BY <1>1 DEF Put, IInv, TypeOK
  <2> QED
    BY <1>1, <2>1, StoredStays DEF Put, End
<1>2. CASE LostReply(c)
  <2>1. cuts' \in 0..MaxCuts
    BY <1>2, DaysAssumption DEF LostReply, IInv, TypeOK, DaysAssumption
  <2>2. \/ torn' = torn
        \/ /\ torn' = [torn EXCEPT ![c] = job[c]] /\ job[c].op # "recordReplicas"
           /\ job[c].serial # None
    BY <1>2 DEF LostReply
  <2> QED
    BY <1>2, <2>1, <2>2, StoredStays DEF LostReply
<1> QED
  BY <1>1, <1>2

\* Sessions, time, and the account document.
LEMMA OutsideStays ==
    ASSUME IInv, RetiredInv', UNCHANGED <<kind, entry, version, job, torn, calls, cuts, history>>,
           UNCHANGED <<void, delivered, posted>>,
           day' = day \/ (day < MaxDay[kind] /\ day' = day + 1)
    PROVE  IInv'
<1>1. calls <= calls' /\ calls' \in 0..MaxCalls[kind] /\ cuts' \in 0..MaxCuts
  BY Counted DEF IInv, TypeOK
<1>2. MaxDay[kind] \in Nat
  BY DaysAssumption DEF DaysAssumption, IInv, TypeOK
<1>3. day <= day' /\ day' \in 0..MaxDay[kind]
  BY <1>2, Counted DEF IInv, TypeOK
<1>4. Grown
  BY <1>1, <1>3 DEF Grown
<1> QED
  BY <1>4, WorldStays

\* Every step keeps the invariant.
LEMMA StepIInv == IInv /\ [Next]_vars => IInv'
<1> SUFFICES ASSUME IInv, [Next]_vars PROVE IInv'
  OBVIOUS
<1>1. RetiredInv'
  BY StepSound DEF IInv
<1>2. CASE \E c \in Client : CallRecordGrants(c)
  BY <1>1, <1>2, RecordGrantsStays
<1>3. CASE \E c \in Client : Revoke(c)
  BY <1>1, <1>3, RevokeStays
<1>4. CASE \E c \in Client : CallClear(c)
  BY <1>1, <1>4, PlainStays DEF CallClear
<1>5. CASE \E c \in Client : CallMark(c)
  BY <1>1, <1>5, MarkStays
<1>6. CASE \E c \in Client : CallChannel(c)
  BY <1>1, <1>6, ChannelStays
<1>7. CASE \E c \in Client : CallRenew(c)
  BY <1>1, <1>7, RenewStays
<1>8. CASE \E c \in Client : PushEnvelope(c)
  BY <1>1, <1>8, PushStays
<1>9. CASE \E c \in Client : CallReplicas(c)
  BY <1>1, <1>9, CallReplicasStays
<1>10. CASE \E c \in Client : CallReplicaGrant(c)
  BY <1>1, <1>10, CallReplicaGrantStays
<1>11. CASE \E c \in Client : PostRegistration(c)
  BY <1>1, <1>11, PostStays
<1>12. ASSUME NEW c \in Client, CallRegister(c) PROVE IInv'
  <2>1. CASE Call(c, "registerWriter", [writer |-> c, listed |-> listed])
    BY <1>1, <1>12, <2>1, RegisterStays DEF CallRegister
  <2>2. CASE UNCHANGED <<kind, entry, version, job, torn, day, calls, cuts, history>>
    BY <1>1, <1>12, <2>2, OutsideStays DEF CallRegister, world
  <2> QED
    BY <1>12, <2>1, <2>2 DEF CallRegister
<1>13. CASE \E c \in Client : CallTouchOrSweep(c)
  BY <1>1, <1>13, TouchOrSweepStays
<1>14. CASE \E c \in Client : Get(c)
  BY <1>1, <1>14, GetStays
<1>15. CASE \E c \in Client : Put(c) \/ LostReply(c)
  BY <1>1, <1>15, WriteStays
<1>16. CASE \E c \in Client : LostRace(c)
  BY <1>1, <1>16, LostRaceStays
<1>17. CASE \E c \in Client : CallAgain(c)
  BY <1>1, <1>17, CallAgainStays
<1>18. CASE \/ Tick \/ Unlist
            \/ \E c \in Client : FirstSession(c) \/ NewSession(c)
  BY <1>1, <1>18, OutsideStays DEF Tick, Unlist, FirstSession, NewSession, world
<1>19. CASE UNCHANGED vars
  BY <1>1, <1>19, OutsideStays DEF vars, world
<1> QED
  BY <1>2, <1>3, <1>4, <1>5, <1>6, <1>7, <1>8, <1>9, <1>10, <1>11, <1>12, <1>13,
     <1>14, <1>15, <1>16, <1>17, <1>18, <1>19 DEF Next

-----------------------------------------------------------------------------
(* The initial states. *)

\* An entry that some first call left, or none.
Begun(e) ==
    /\ EntryOK(e) /\ (e.stands \/ e = NoEntry)
    /\ \A g \in Listed(e) : g \in Zcap /\ g.serial = 1 /\ g.renews = None
    /\ \A g, h \in Listed(e) : g.scope = h.scope => g = h
    /\ \A g \in Listed(e) : g \in ConnectionGrants(e)
    /\ \A i, k \in e.outbox : i = k
    /\ \A i \in e.outbox : i.createdAt = 1 /\ i.zcaps \subseteq Listed(e)
    /\ \A r \in e.replicas :
         /\ r.spaceId = 1 /\ r.registrationId \in {None, 1}
         /\ r.registrationId = None \/ r.pendingRegistrationId = None
    /\ \A r, q \in e.replicas : r = q
    /\ \A m \in e.writers : m.active /\ m.lastSeen = 0

\* A capability of the first call.
LEMMA FirstIs ==
    ASSUME NEW s \in Scope \cup Space, NEW z, z = First(s)
    PROVE  z \in Zcap /\ z.serial = 1 /\ z.renews = None /\ z.scope = s
BY DEF First, Zcap, None

\* No entry.
LEMMA NoneBegun == Begun(NoEntry)
<1>1. /\ NoEntry.outbox = {} /\ NoEntry.replicas = {} /\ NoEntry.writers = {}
      /\ Listed(NoEntry) = {}
  BY DEF NoEntry, Listed, Range
<1> QED
  BY <1>1, NoEntryOK DEF Begun

\* The agent that consented and opened its inbox.
LEMMA ConsentedBegun ==
    ASSUME kind = "agent"
    PROVE  Begun(Consented)
<1>1. PICK Z : Z = {First(s) : s \in Scope}
  OBVIOUS
<1>2. IsFiniteSet(Z) /\ Z # {}
  <2>1. PICK f : f = [s \in Scope |-> First(s)]
    OBVIOUS
  <2>2. f \in Surjection(Scope, Z)
    BY <1>1, <2>1 DEF Surjection
  <2> QED
    BY <1>1, <2>2, ScopeAssumption, FS_Surjection DEF ScopeAssumption
<1>3. \A z \in Z : z \in Zcap /\ z.serial = 1 /\ z.renews = None
  BY <1>1, FirstIs
<1>4. \A g, h \in Z : g.scope = h.scope => g = h
  BY <1>1, FirstIs
<1>5. PICK L : L = SetToSeq(Z)
  OBVIOUS
<1>6. L \in Seq(Z) /\ Range(L) = Z
  BY <1>2, <1>5, SetToSeqIs
<1>7. L \in Seq(Zcap)
  BY <1>3, <1>6
<1>8. PICK o : o = [zcaps |-> Z, createdAt |-> 1]
  OBVIOUS
<1>9. PICK ch : ch = [serial |-> 1, expires |-> 1, receivedAt |-> 0]
  OBVIOUS
<1>10. o \in Item /\ ch \in Channel /\ o.zcaps = Z /\ o.createdAt = 1
  BY <1>3, <1>8, <1>9 DEF Item, Channel
<1>11. PICK e : e = Consented
  OBVIOUS
<1>12. e = [NoEntry EXCEPT !.stands = TRUE, !.grants = L, !.outbox = {o},
                           !.grantsReceived = {ch}]
  BY <1>1, <1>5, <1>8, <1>9, <1>11 DEF Consented
<1>13. /\ e.stands /\ e.grants = L /\ e.outbox = {o} /\ e.grantsReceived = {ch}
       /\ e.replicas = {} /\ e.writers = {} /\ FlagsTyped(e)
  BY <1>12 DEF NoEntry, FlagsTyped, None
<1>14. EntryOK(e)
  <2>1. ReplicasTyped({}) /\ WritersTyped({})
    BY NoEntryOK, EntryParts DEF NoEntry
  <2>2. OutboxTyped({o})
    BY <1>2, <1>10 DEF OutboxTyped
  <2> QED
    BY <1>7, <1>10, <1>13, <2>1, <2>2, EntryParts
<1>15. Listed(e) = Z /\ ConnectionGrants(e) = Z
  BY <1>6, <1>13 DEF Listed, ConnectionGrants
<1>16. Begun(e)
  BY <1>3, <1>4, <1>10, <1>13, <1>14, <1>15 DEF Begun
<1> QED
  BY <1>11, <1>16

\* The replica server with one replica, its registration settled or pending.
LEMMA ReplicatedBegun ==
    ASSUME NEW s \in Space, NEW n \in {None, 1}, NEW p \in {None, 1}, n = None \/ p = None
    PROVE  Begun(Replicated(s, n, p))
<1>1. PICK z : z = First(s)
  OBVIOUS
<1>2. z \in Zcap /\ z.serial = 1 /\ z.renews = None /\ z.scope = s
  BY <1>1, FirstIs
<1>3. PICK r : r = [fromSpace |-> s, spaceId |-> 1, markers |-> {},
                    registrationId |-> n, pendingRegistrationId |-> p]
  OBVIOUS
<1>4. r \in Replica
  BY <1>3 DEF Replica, None
<1>5. /\ r.fromSpace = s /\ r.spaceId = 1
      /\ r.registrationId = n /\ r.pendingRegistrationId = p
  BY <1>3
<1>6. PICK e : e = Replicated(s, n, p)
  OBVIOUS
<1>7. e = [NoEntry EXCEPT !.stands = TRUE, !.grants = <<z>>, !.replicas = {r}]
  BY <1>1, <1>3, <1>6 DEF Replicated
<1>8. /\ e.stands /\ e.grants = <<z>> /\ e.outbox = {} /\ e.grantsReceived = {}
      /\ e.replicas = {r} /\ e.writers = {} /\ FlagsTyped(e)
  BY <1>7 DEF NoEntry, FlagsTyped, None
<1>9. EntryOK(e)
  <2>1. OutboxTyped({}) /\ WritersTyped({})
    BY NoEntryOK, EntryParts DEF NoEntry
  <2>2. ReplicasTyped({r}) /\ <<z>> \in Seq(Zcap)
    BY <1>2, <1>4 DEF ReplicasTyped
  <2> QED
    BY <1>8, <2>1, <2>2, EntryParts
<1>10. Listed(e) = {z}
  BY <1>8 DEF Listed, Range
<1>11. ConnectionGrants(e) = {z}
  BY <1>2, <1>5, <1>8, <1>10 DEF ConnectionGrants
<1>12. Begun(e)
  BY <1>2, <1>5, <1>8, <1>9, <1>10, <1>11 DEF Begun
<1> QED
  BY <1>6, <1>12

\* The wallet client with as many writers as it may have.
LEMMA EnrolledBegun ==
    ASSUME NEW w \in SUBSET Writer, Cardinality(w) = MaxWriters
    PROVE  Begun(Enrolled(w))
<1>1. PICK M : M = {[writerId |-> x, lastSeen |-> 0, active |-> TRUE] : x \in w}
  OBVIOUS
<1>2. ASSUME NEW m \in M
      PROVE  m \in Member /\ m.lastSeen = 0 /\ m.active
  <2>1. PICK x \in w : m = [writerId |-> x, lastSeen |-> 0, active |-> TRUE]
    BY <1>1
  <2>2. x \in Writer
    OBVIOUS
  <2> QED
    BY <2>1, <2>2 DEF Member
<1>3. IsFiniteSet(w)
  BY ClientAssumption, FS_Subset DEF ClientAssumption
<1>4. IsFiniteSet(M) /\ Cardinality(M) <= MaxWriters
  <2>1. PICK f : f = [x \in w |-> [writerId |-> x, lastSeen |-> 0, active |-> TRUE]]
    OBVIOUS
  <2>2. f \in Surjection(w, M)
    BY <1>1, <2>1 DEF Surjection
  <2> QED
    BY <1>3, <2>2, FS_Surjection
<1>5. ASSUME NEW m \in M, NEW n \in M, m.writerId = n.writerId PROVE m = n
  <2>1. PICK x \in w : m = [writerId |-> x, lastSeen |-> 0, active |-> TRUE]
    BY <1>1
  <2>2. PICK y \in w : n = [writerId |-> y, lastSeen |-> 0, active |-> TRUE]
    BY <1>1
  <2>3. m.writerId = x /\ n.writerId = y
    BY <2>1, <2>2
  <2> QED
    BY <1>5, <2>1, <2>2, <2>3
<1>6. WritersTyped(M)
  BY <1>2, <1>4, <1>5 DEF WritersTyped
<1>7. PICK e : e = Enrolled(w)
  OBVIOUS
<1>8. e = [NoEntry EXCEPT !.stands = TRUE, !.writers = M]
  BY <1>1, <1>7 DEF Enrolled
<1>9. /\ e.stands /\ e.grants = <<>> /\ e.outbox = {} /\ e.grantsReceived = {}
      /\ e.replicas = {} /\ e.writers = M /\ FlagsTyped(e)
  BY <1>8 DEF NoEntry, FlagsTyped, None
<1>10. EntryOK(e)
  <2>1. OutboxTyped({}) /\ ReplicasTyped({}) /\ <<>> \in Seq(Zcap)
    BY NoEntryOK, EntryParts DEF NoEntry
  <2> QED
    BY <1>6, <1>9, <2>1, EntryParts
<1>11. Listed(e) = {}
  BY <1>9 DEF Listed, Range
<1>12. Begun(e)
  BY <1>2, <1>9, <1>10, <1>11 DEF Begun
<1> QED
  BY <1>7, <1>12

\* So the initial entry is one of them.
LEMMA InitBegun == Init => Begun(entry)
<1> SUFFICES ASSUME Init PROVE Begun(entry)
  OBVIOUS
<1>1. kind \in {"agent", "replica-server", "wallet-client"} /\ entry \in InitialEntry
  BY KindsAssumption DEF Init, KindsAssumption
<1>2. CASE entry = NoEntry
  BY <1>2, NoneBegun
<1>3. CASE kind = "agent" /\ entry = Consented
  BY <1>3, ConsentedBegun
<1>4. CASE \E s \in Space : entry = Replicated(s, 1, None) \/ entry = Replicated(s, None, 1)
  BY <1>4, ReplicatedBegun
<1>5. CASE \E w \in SUBSET Writer : Cardinality(w) = MaxWriters /\ entry = Enrolled(w)
  BY <1>5, EnrolledBegun
<1> QED
  BY <1>1, <1>2, <1>3, <1>4, <1>5 DEF InitialEntry

\* The initial states satisfy the invariant.
LEMMA InitIInv == Init => IInv
<1> SUFFICES ASSUME Init PROVE IInv
  OBVIOUS
<1>1. /\ kind \in Kinds /\ version = 0 /\ day = 0 /\ calls = 1 /\ cuts = 0
      /\ job = [c \in Client |-> Idle] /\ torn = [c \in Client |-> Idle]
      /\ recorded = Listed(entry) /\ owed = Pending(entry)
      /\ beat = [w \in Writer |-> 0]
  BY DEF Init
<1>2. Begun(entry) /\ RetiredInv
  BY InitBegun, InitSound
<1>3. TypeOK
  <2>1. MaxDay[kind] \in Nat /\ MaxCalls[kind] \in Nat \ {0} /\ MaxCuts \in Nat
        /\ WriteAttempts \in Nat
    BY <1>1, DaysAssumption DEF DaysAssumption
  <2>2. \A c \in Client : /\ job[c].stage = "idle" /\ job[c].attempt = 0
                          /\ job[c].next = NoEntry
    BY <1>1 DEF Idle
  <2> QED
    BY <1>1, <1>2, <2>1, <2>2, NoEntryOK DEF TypeOK, Begun
<1>4. StandsOK
  BY <1>2 DEF Begun, StandsOK
<1>5. \A c \in Client : /\ SlotOK(c, job[c]) /\ SlotOK(c, torn[c]) /\ FreshWrite(job[c])
  BY <1>1, <1>3, IdleSlot
<1>6. Serials
  <2>1. Idle.serial = None /\ Idle.op # "recordReplicas"
    BY DEF Idle, None
  <2> QED
    BY <1>1, <2>1 DEF Serials, Distinct
<1>7. LedgerOK
  <2>1. Pending(entry) \subseteq Listed(entry)
    BY <1>2 DEF Begun, Pending
  <2>2. Numbered(recorded)
    BY <1>1, <1>2 DEF Begun, Numbered, None
  <2>3. Once(entry)
    BY <1>2 DEF Begun, Once
  <2>4. Live(entry, recorded)
    BY <1>1, <1>2 DEF Begun, Live
  <2> QED
    BY <1>1, <2>1, <2>2, <2>3, <2>4 DEF LedgerOK, Ledger
<1>8. OutboxOK
  <2>1. owed \subseteq Zcap
    BY <1>1, <1>2 DEF Begun, Pending
  <2>2. Sorted(entry.outbox)
    BY <1>2 DEF Begun, Sorted
  <2> QED
    BY <1>1, <2>1, <2>2 DEF OutboxOK, Covered
<1>9. RegistrationOK
  <2>1. ReplicasTyped(entry.replicas)
    BY <1>2, EntryParts DEF Begun
  <2>2. ASSUME NEW p \in posted
        PROVE  \E r \in entry.replicas :
                 r.registrationId # None /\ p = <<r.fromSpace, r.spaceId, r.registrationId>>
    BY DEF Init, Registration
  <2>3. ASSUME NEW p \in posted
        PROVE  p \in Space \X Nat \X (Nat \ {None}) /\ p[2] <= calls
    <3>1. PICK r \in entry.replicas :
            r.registrationId # None /\ p = <<r.fromSpace, r.spaceId, r.registrationId>>
      BY <2>2
    <3>2. r \in Replica /\ r.spaceId = 1
      BY <1>2, <2>1 DEF ReplicasTyped, Begun
    <3> QED
      BY <1>1, <3>1, <3>2 DEF Replica
  <2>4. \A p, q \in posted : p = q
    BY <1>2, <2>2 DEF Begun
  <2>5. PostedOK
    BY <2>3, <2>4 DEF PostedOK
  <2>6. ASSUME NEW r \in entry.replicas PROVE RegisteredItem(r)
    <3>1. /\ r.spaceId <= calls
          /\ r.registrationId = None \/ r.pendingRegistrationId = None
      BY <1>1, <1>2 DEF Begun
    <3>2. \A p \in posted : p[3] = r.registrationId
      BY <1>2, <2>2 DEF Begun
    <3>3. ASSUME r.registrationId # None
          PROVE  \E p \in posted : p[1] = r.fromSpace /\ p[3] = r.registrationId
      <4>1. PICK p : p = <<r.fromSpace, r.spaceId, r.registrationId>>
        OBVIOUS
      <4>2. p \in posted
        BY <3>3, <4>1 DEF Init, Registration
      <4>3. p[1] = r.fromSpace /\ p[3] = r.registrationId
        BY <4>1
      <4> QED
        BY <4>2, <4>3
    <3> QED
      BY <3>1, <3>2, <3>3 DEF RegisteredItem
  <2> QED
    BY <2>5, <2>6 DEF RegistrationOK
<1>10. BeatOK
  <2>1. \A m \in entry.writers : m.writerId \in Writer
    BY <1>2, EntryParts DEF Begun, WritersTyped, Member
  <2>2. \A m \in entry.writers : m.active /\ m.lastSeen = 0
    BY <1>2 DEF Begun
  <2> QED
    BY <1>1, <2>1, <2>2 DEF BeatOK, BeatItem
<1> QED
  BY <1>2, <1>3, <1>4, <1>5, <1>6, <1>7, <1>8, <1>9, <1>10 DEF IInv

-----------------------------------------------------------------------------
(* The theorems. *)

\* The invariant holds throughout.
LEMMA Invariant == Spec => []IInv
<1> QED
  BY InitIInv, StepIInv, PTL DEF Spec

\* The entry stays well formed: one replica per source Space, one member per
\* writer and never more than the cap (withOwnWriter drops the oldest), no
\* envelope that carries nothing, and every call within writeConnection's
\* attempts.
THEOREM TypeCorrect == Spec => []TypeOK
<1>1. IInv => TypeOK
  BY DEF IInv
<1> QED
  BY <1>1, Invariant, PTL

\* A grant ever written to the entry and still honoured, neither revoked nor
\* expired, is visible on it (connectionGrants): what the revocation reads is
\* all there is to revoke, whoever retires, prunes, removes or renews.
THEOREM LiveGrantsListed == Spec => []LiveStaysListed
<1>1. IInv => LiveStaysListed
  BY DEF IInv, LedgerOK, Ledger, Live, LiveStaysListed
<1> QED
  BY <1>1, Invariant, PTL

\* A capability queued for the party stays queued until it is delivered or
\* expired, and in one envelope only (supersedeAndQueueEnvelope,
\* settleOutboxItem, pruneSupersededGrants).
THEOREM EnvelopesOwed == Spec => []EnvelopeOwed
<1>1. IInv => EnvelopeOwed
  BY DEF IInv, OutboxOK, Sorted, Covered, EnvelopeOwed
<1> QED
  BY <1>1, Invariant, PTL

\* Of the renewals clients make from the same grant one is recorded
\* (renewedGrantRecord under writeConnection's compare-and-swap).
THEOREM RenewedAtMostOnce == Spec => []RenewedOnce
<1>1. IInv => RenewedOnce
  BY DEF IInv, LedgerOK, Ledger, Once, RenewedOnce
<1> QED
  BY <1>1, Invariant, PTL

\* A replica Space is registered under one id, and an id the entry states was
\* posted (recordReplicaGrant, settleReplicaRegistration).
THEOREM RegisteredOnce == Spec => []OneRegistration
<1>1. IInv => OneRegistration
  BY DEF IInv, RegistrationOK, PostedOK, RegisteredItem, OneRegistration
<1> QED
  BY <1>1, Invariant, PTL

\* A confirmed heartbeat is not undone by a sweep or another writer's call,
\* and a member reads inactive only when its heartbeat is that old
\* (registerConnectionWriter, touchConnectionWriter, sweepConnectionWriters).
THEOREM HeartbeatsSurvive == Spec => []HeartbeatSurvives
<1>1. IInv => HeartbeatSurvives
  BY DEF IInv, BeatOK, BeatItem, HeartbeatSurvives
<1> QED
  BY <1>1, Invariant, PTL

=============================================================================

-------------------------- MODULE KeyCascadeProofs --------------------------
(***************************************************************************)
(* Proofs about KeyCascade, for any clients, collections, accounts to      *)
(* start from and number of retries.                                       *)
(***************************************************************************)
EXTENDS KeyCascade, TLAPS, SequenceTheorems, WellFoundedInduction

(***************************************************************************)
(* The inductive invariant.                                                *)
(***************************************************************************)
\* Escrow wraps into every epoch and a rotation only keeps survivors: who
\* opens the current generation opens all the earlier ones.
RosterOK == \A g \in DOMAIN roster : CurrentEpoch(roster) \subseteq roster[g]

\* Every epoch of a collection is wrapped to a generation the roster has.
CollectionOK ==
    \A k \in Collection : \A e \in DOMAIN collection[k] :
        collection[k][e] # {} /\ collection[k][e] \subseteq 1..Len(roster)

\* The ceremonies that work from the roster they adopted hold its key; no
\* client and no ceremony is ahead of the roster.
Holds(j) == j.stage \in {"verify", "fanOut"} \/ (j.op = "signIn" /\ j.stage = "put")
JobOK(c) ==
    /\ userKey[c] <= Len(roster) /\ Len(job[c].roster) <= Len(roster)
    /\ Holds(job[c]) => job[c].roster # <<>> /\ userKey[c] = Len(job[c].roster)
    /\ job[c].stage \in {"converge", "retire"} => job[c].op # "signIn"

\* A fan-out retires only generations older than the key it moves on to.
FanOK(c) ==
    \A k \in Collection : fan[c][k].stage = "put" =>
        /\ job[c].stage = "fanOut"
        /\ \A g \in fan[c][k].retire : g < userKey[c]

Core ==
    /\ RosterOK /\ CollectionOK
    /\ \A c \in Client : JobOK(c) /\ FanOK(c)
IInv == TypeOK /\ Core

(***************************************************************************)
(* The operators.                                                          *)
(***************************************************************************)
\* A bounded, inhabited set of naturals has a largest element, and Newest
\* names it.
LEMMA NewestIs ==
    ASSUME NEW n \in Nat, NEW S, S \subseteq 0..n, S # {}
    PROVE  Newest(S) \in S /\ \A s \in S : s <= Newest(S)
<1> DEFINE T == {n - s : s \in S}
           R == OpToRel(<, Nat)
<1>1. T \subseteq Nat /\ T # {}
  <2>1. \A s \in S : n - s \in Nat
    OBVIOUS
  <2>2. PICK s \in S : TRUE
    OBVIOUS
  <2>3. n - s \in T
    BY <2>2
  <2> QED
    BY <2>1, <2>3
<1>2. IsWellFoundedOn(R, Nat)
  BY NatLessThanWellFounded
<1> HIDE DEF T, R
<1>3. PICK x \in T : \A y \in T : ~(<<y, x>> \in R)
  BY <1>1, <1>2, WFMin
<1>4. \A y \in T : ~(y < x)
  BY <1>1, <1>3 DEF R, OpToRel
<1>5. PICK t \in S : x = n - t
  BY <1>3 DEF T
<1>6. ASSUME NEW s \in S PROVE s <= t
  <2>1. n - s \in T
    BY DEF T
  <2> QED
    BY <1>4, <1>5, <2>1
<1>7. \E g \in S : \A h \in S : h <= g
  BY <1>6
<1> QED
  BY <1>7 DEF Newest

\* What a recipient operation makes of a descriptor: every epoch escrowed,
\* and the newest, fresh or not, wrapped to the incoming recipients and the
\* survivors.
Rewrap(R, d, retire, incoming, vouched, new) ==
    /\ new \in Descriptor(R) /\ new # <<>>
    /\ \A e \in DOMAIN d : \A x : x \in new[e] <=> x \in d[e] \/ x \in incoming
    /\ \A x \in CurrentEpoch(new) : x \in CurrentEpoch(d) \/ x \in incoming
    /\ \A x \in incoming : x \in CurrentEpoch(new)
    /\ \A x \in CurrentEpoch(d) :
         x \in vouched /\ x \notin retire => x \in CurrentEpoch(new)

\* The recipient operations do that.
LEMMA RecipientsAre ==
    ASSUME NEW R, NEW d \in Descriptor(R), d # <<>>, NEW retire,
           NEW incoming \in SUBSET R, NEW vouched,
           NEW new, new = Recipients(d, retire, incoming, vouched)
    PROVE  Rewrap(R, d, retire, incoming, vouched, new)
<1> USE DEF Rewrap
<1> USE DEF Descriptor
<1> DEFINE n == Len(d)
           esc == [e \in DOMAIN d |-> d[e] \cup incoming]
           fresh == ((CurrentEpoch(d) \ retire) \cap vouched) \cup incoming
<1>1. n \in Nat \ {0} /\ DOMAIN d = 1..n /\ \A e \in 1..n : d[e] \subseteq R
  OBVIOUS
<1>2. esc \in [1..n -> SUBSET R]
  BY <1>1
<1>3. esc \in Seq(SUBSET R) /\ Len(esc) = n /\ DOMAIN esc = 1..n
  BY <1>1, <1>2, SeqDef
<1>4. \A e \in 1..n : esc[e] = d[e] \cup incoming
  BY <1>1
<1>5. fresh \in SUBSET R /\ n \in 1..n
  BY <1>1 DEF CurrentEpoch
<1> HIDE DEF esc, fresh
<1>6. CASE retire \cap CurrentEpoch(d) = {}
  <2>1. new = esc
    BY <1>6 DEF Recipients, esc
  <2>2. CurrentEpoch(esc) = CurrentEpoch(d) \cup incoming
    BY <1>3, <1>4, <1>5 DEF CurrentEpoch
  <2>3. esc # <<>>
    BY <1>1, <1>3
  <2> QED
    BY <1>1, <1>3, <1>4, <1>6, <2>1, <2>2, <2>3
<1>7. CASE retire \cap CurrentEpoch(d) # {}
  <2>1. new = Append(esc, fresh)
    BY <1>7 DEF Recipients, esc, fresh
  <2>2. /\ Append(esc, fresh) \in Seq(SUBSET R) /\ Len(Append(esc, fresh)) = n + 1
        /\ Append(esc, fresh)[n + 1] = fresh
        /\ \A e \in 1..n : Append(esc, fresh)[e] = esc[e]
    BY <1>3, <1>5, AppendProperties
  <2>3. Append(esc, fresh) # <<>>
    BY <1>1, <2>2
  <2>4. CurrentEpoch(Append(esc, fresh)) = fresh
    BY <2>2 DEF CurrentEpoch
  <2> QED
    BY <1>1, <1>4, <2>1, <2>2, <2>3, <2>4 DEF fresh
<1> QED
  BY <1>6, <1>7

\* It keeps every epoch's position and adds at most one, the last.
LEMMA RecipientsDomain ==
    ASSUME NEW R, NEW d \in Descriptor(R), d # <<>>, NEW retire,
           NEW incoming \in SUBSET R, NEW vouched,
           NEW new, new = Recipients(d, retire, incoming, vouched)
    PROVE  /\ DOMAIN d \subseteq DOMAIN new
           /\ \A g \in DOMAIN new : g \in DOMAIN d \/ g = Len(new)
<1> USE DEF Descriptor
<1> DEFINE n == Len(d)
           esc == [e \in DOMAIN d |-> d[e] \cup incoming]
           fresh == ((CurrentEpoch(d) \ retire) \cap vouched) \cup incoming
<1>1. n \in Nat \ {0} /\ DOMAIN d = 1..n /\ \A e \in 1..n : d[e] \subseteq R
  OBVIOUS
<1>2. esc \in [1..n -> SUBSET R]
  BY <1>1
<1>3. esc \in Seq(SUBSET R) /\ Len(esc) = n /\ DOMAIN esc = 1..n
  BY <1>1, <1>2, SeqDef
<1>4. fresh \in SUBSET R
  BY <1>1 DEF CurrentEpoch
<1> HIDE DEF esc, fresh
<1>5. CASE retire \cap CurrentEpoch(d) = {}
  BY <1>1, <1>3, <1>5 DEF Recipients, esc
<1>6. CASE retire \cap CurrentEpoch(d) # {}
  <2>1. new = Append(esc, fresh)
    BY <1>6 DEF Recipients, esc, fresh
  <2>2. new \in Seq(SUBSET R) /\ Len(new) = n + 1
    BY <1>3, <1>4, <2>1, AppendProperties
  <2>3. DOMAIN new = 1..(n + 1)
    BY <2>2
  <2> QED
    BY <1>1, <2>2, <2>3
<1> QED
  BY <1>5, <1>6

\* It never shortens a descriptor.
LEMMA RecipientsGrow ==
    ASSUME NEW R, NEW d \in Descriptor(R), d # <<>>, NEW retire,
           NEW incoming \in SUBSET R, NEW vouched,
           NEW new, new = Recipients(d, retire, incoming, vouched)
    PROVE  Len(d) <= Len(new)
<1>1. new \in Descriptor(R) /\ new # <<>>
  BY RecipientsAre DEF Rewrap
<1>2. DOMAIN d \subseteq DOMAIN new
  BY RecipientsDomain
<1>3. /\ Len(d) \in Nat /\ Len(new) \in Nat
      /\ DOMAIN d = 1..Len(d) /\ DOMAIN new = 1..Len(new)
  BY <1>1 DEF Descriptor
<1>4. Len(d) \in 1..Len(d) \/ Len(d) = 0
  BY <1>3
<1> QED
  BY <1>2, <1>3, <1>4

\* What a fan-out makes of a collection it read: nothing to do, or a write that
\* retires only other generations it holds.
LEMMA CollectionTaskIs ==
    ASSUME NEW n \in Nat, NEW d \in Descriptor(Generation), NEW key,
           NEW gens \in SUBSET (1..n)
    PROVE  /\ CollectionTask(d, key, gens) \in Task
           /\ CollectionTask(d, key, gens).retire \subseteq gens \ {key}
<1> DEFINE stale == (gens \ {key}) \cap CurrentEpoch(d)
           incomplete == {e \in DOMAIN d : key \notin d[e]}
           owners == {g \in gens : \A e \in incomplete : g \in d[e]}
           write(retire, owner) == [stage |-> "put", base |-> d, retire |-> retire,
                                    owner |-> owner, attempt |-> 1]
<1>1. 0 \in 0..CasAttempts /\ 1 \in 0..CasAttempts
  BY CasAssumption DEF CasAssumption
<1>2. Done \in Task /\ Done.retire = {}
  <2>1. <<>> \in Descriptor(Generation)
    BY DEF Descriptor
  <2> QED
    BY <1>1, <2>1 DEF Done, ToDo, Task
<1>3. stale \in SUBSET Generation /\ stale \subseteq 0..n /\ owners \subseteq 0..n
  <2>1. \A g \in gens : g \in 0..n /\ g \in Generation
    BY DEF Generation
  <2> QED
    BY <2>1
<1> HIDE DEF stale, owners, incomplete
<1>4. ASSUME NEW r \in SUBSET Generation, NEW S, S \subseteq 0..n, S # {}
      PROVE  write(r, Newest(S)) \in Task /\ write(r, Newest(S)).retire = r
  <2>1. Newest(S) \in S
    BY <1>4, NewestIs
  <2>2. PICK o \in Nat : o = Newest(S)
    <3>1. \A x \in S : x \in Nat
      BY <1>4
    <3> QED
      BY <2>1, <3>1
  <2>3. write(r, o) \in Task /\ write(r, o).retire = r
    BY <1>1 DEF Task
  <2> QED
    BY <2>2, <2>3
<1> HIDE DEF write
<1>5. CollectionTask(d, key, gens) =
        IF stale # {} THEN write(stale, Newest(stale))
        ELSE IF key \notin CurrentEpoch(d) \/ incomplete = {} \/ owners = {}
        THEN Done ELSE write({}, Newest(owners))
  BY DEF CollectionTask, stale, owners, incomplete, write
<1>6. CASE stale # {}
  <2>1. write(stale, Newest(stale)) \in Task
        /\ write(stale, Newest(stale)).retire = stale
    BY <1>3, <1>4, <1>6
  <2> QED
    BY <1>5, <1>6, <2>1 DEF stale
<1>7. CASE stale = {} /\ (key \notin CurrentEpoch(d) \/ incomplete = {} \/ owners = {})
  BY <1>2, <1>5, <1>7
<1>8. CASE stale = {} /\ ~(key \notin CurrentEpoch(d) \/ incomplete = {} \/ owners = {})
  <2>1. write({}, Newest(owners)) \in Task /\ write({}, Newest(owners)).retire = {}
    BY <1>3, <1>4, <1>8
  <2> QED
    BY <1>5, <1>8, <2>1
<1> QED
  BY <1>6, <1>7, <1>8

\* The resting shapes.
LEMMA RestTyped ==
    /\ Idle \in Job /\ Idle.stage = "idle" /\ Idle.op = "none" /\ Idle.roster = <<>>
    /\ Done \in Task /\ ToDo \in Task /\ Done.stage = "done" /\ ToDo.stage = "todo"
<1>1. 0 \in 0..CasAttempts
  BY CasAssumption DEF CasAssumption
<1>2. <<>> \in Descriptor(Generation) /\ <<>> \in Descriptor(Client)
  BY DEF Descriptor
<1>3. Idle \in Job /\ Idle.stage = "idle" /\ Idle.op = "none" /\ Idle.roster = <<>>
  BY <1>1, <1>2 DEF Idle, Job, Stage
<1> QED
  BY <1>1, <1>2, <1>3 DEF Done, ToDo, Task

(***************************************************************************)
(* The ceremonies: what a step of client c does to c's own job, key and    *)
(* fan-out, while the roster only grows.                                   *)
(***************************************************************************)
Longer == roster' \in Descriptor(Client) \ {<<>>} /\ Len(roster) <= Len(roster')

Effect(c) ==
    /\ job' \in [Client -> Job] /\ userKey' \in [Client -> Nat]
    /\ fan' \in [Client -> [Collection -> Task]]
    /\ \A b \in Client \ {c} :
         job'[b] = job[b] /\ userKey'[b] = userKey[b] /\ fan'[b] = fan[b]
    /\ JobOK(c)' /\ FanOK(c)'

\* Lengths are numbers.
LEMMA Lengths ==
    ASSUME TypeOK
    PROVE  /\ Len(roster) \in Nat \ {0} /\ DOMAIN roster = 1..Len(roster)
           /\ \A c \in Client : Len(job[c].roster) \in Nat
           /\ \A c \in Client : job[c] \in Job /\ userKey[c] \in Nat
           /\ \A c \in Client, k \in Collection : fan[c][k] \in Task
<1>1. \A c \in Client : job[c] \in Job /\ userKey[c] \in Nat
  BY DEF TypeOK
<1>2. \A c \in Client : Len(job[c].roster) \in Nat
  BY <1>1 DEF Job, Descriptor
<1> QED
  BY <1>1, <1>2 DEF TypeOK, Descriptor

\* A client that is not fanning out has nothing to put.
LEMMA NoPut ==
    ASSUME IInv, NEW c \in Client, job[c].stage # "fanOut", NEW k \in Collection
    PROVE  fan[c][k].stage # "put"
  BY DEF IInv, Core, FanOK

\* The client's job moves on, its key and its fan-out stay.
LEMMA JobEffect ==
    ASSUME IInv, Longer, NEW c \in Client, NEW j \in Job,
           job' = [job EXCEPT ![c] = j], job[c].stage # "fanOut",
           UNCHANGED <<userKey, fan>>, Len(j.roster) <= Len(roster),
           j.stage # "fanOut",
           Holds(j) => j.roster # <<>> /\ userKey[c] = Len(j.roster),
           j.stage \in {"converge", "retire"} => j.op # "signIn"
    PROVE  Effect(c)
<1>1. TypeOK /\ JobOK(c)
  BY DEF IInv, Core
<1>2. job' \in [Client -> Job] /\ job'[c] = j /\ \A b \in Client \ {c} : job'[b] = job[b]
  BY <1>1 DEF TypeOK
<1>3. Len(roster) \in Nat /\ Len(roster') \in Nat /\ userKey[c] \in Nat
      /\ Len(j.roster) \in Nat
  BY <1>1, Lengths DEF Longer, Descriptor, Job
<1>4. JobOK(c)'
  BY <1>1, <1>2, <1>3 DEF JobOK, Longer, Holds
<1>5. FanOK(c)'
  BY NoPut DEF FanOK
<1> QED
  BY <1>1, <1>2, <1>4, <1>5 DEF Effect, TypeOK

\* The ceremony ends.
LEMMA EndEffect ==
    ASSUME IInv, Longer, NEW c \in Client, End(c), job[c].stage # "fanOut",
           UNCHANGED <<userKey, fan>>
    PROVE  Effect(c)
<1>1. Len(Idle.roster) = 0 /\ Len(roster) \in Nat
  BY RestTyped, Lengths DEF IInv
<1>2. job' = [job EXCEPT ![c] = Idle] /\ ~Holds(Idle)
  BY RestTyped DEF End, Holds
<1>3. /\ Len(Idle.roster) <= Len(roster) /\ Idle.stage # "fanOut"
      /\ Idle.stage \notin {"converge", "retire"} /\ Idle \in Job
  BY <1>1, RestTyped
<1> QED
  BY <1>2, <1>3, JobEffect

\* The fan-out over the roster d starts, with d's key.
LEMMA FanOutEffect ==
    ASSUME IInv, Longer, NEW c \in Client, NEW d \in Descriptor(Client), d # <<>>,
           Len(d) <= Len(roster'), FanOut(c, d), userKey' \in [Client -> Nat],
           userKey'[c] = Len(d), \A b \in Client \ {c} : userKey'[b] = userKey[b]
    PROVE  Effect(c)
<1> DEFINE j == [job[c] EXCEPT !.stage = "fanOut", !.roster = d]
<1>1. TypeOK /\ job[c] \in Job
  BY Lengths DEF IInv
<1>2. j \in Job /\ j.stage = "fanOut" /\ j.roster = d
  BY <1>1 DEF Job, Stage
<1>3. job' = [job EXCEPT ![c] = j] /\ fan' = [fan EXCEPT ![c] = [k \in Collection |-> ToDo]]
  BY DEF FanOut
<1> HIDE DEF j
<1>4. job' \in [Client -> Job] /\ job'[c] = j /\ \A b \in Client \ {c} : job'[b] = job[b]
  BY <1>1, <1>2, <1>3 DEF TypeOK
<1>5. /\ fan' \in [Client -> [Collection -> Task]]
      /\ \A k \in Collection : fan'[c][k] = ToDo
      /\ \A b \in Client \ {c} : fan'[b] = fan[b]
  BY <1>1, <1>3, RestTyped DEF TypeOK
<1>6. JobOK(c)'
  BY <1>2, <1>4 DEF JobOK, Holds
<1>7. FanOK(c)'
  BY <1>5, RestTyped DEF FanOK
<1> QED
  BY <1>4, <1>5, <1>6, <1>7 DEF Effect

\* The key the roster d delivers is adopted, or the ceremony ends.
LEMMA AdoptEffect ==
    ASSUME IInv, Longer, NEW c \in Client, NEW d \in Descriptor(Client), d # <<>>,
           Len(d) <= Len(roster'), AdoptAndFanOut(c, d), job[c].stage # "fanOut"
    PROVE  Effect(c)
<1>1. CASE CanAdopt(c, d)
  <2>1. userKey' = [userKey EXCEPT ![c] = Len(d)] /\ FanOut(c, d)
    BY <1>1 DEF AdoptAndFanOut
  <2>2. Len(d) \in Nat /\ userKey \in [Client -> Nat]
    BY DEF Descriptor, IInv, TypeOK
  <2> QED
    BY <2>1, <2>2, FanOutEffect
<1>2. CASE ~CanAdopt(c, d)
  BY <1>2, EndEffect DEF AdoptAndFanOut
<1> QED
  BY <1>1, <1>2

\* A step whose effects are these keeps the invariant, where the collections
\* stay and the roster keeps its own.
LEMMA Steps ==
    ASSUME IInv, Longer, RosterOK', NEW c \in Client, Effect(c),
           UNCHANGED <<collection, setup>>,
           document' \in SUBSET Client, removed' \in SUBSET Client,
           edits' \in 0..setup.edits, crashes' \in 0..setup.crashes
    PROVE  IInv'
<1>1. TypeOK'
  BY DEF IInv, TypeOK, Effect, Longer
<1>2. Len(roster) \in Nat /\ Len(roster') \in Nat
  BY Lengths DEF IInv, Longer, Descriptor
<1>3. CollectionOK'
  <2>1. 1..Len(roster) \subseteq 1..Len(roster')
    BY <1>2 DEF Longer
  <2> QED
    BY <2>1 DEF IInv, Core, CollectionOK
<1>4. ASSUME NEW b \in Client, b # c PROVE JobOK(b)' /\ FanOK(b)'
  <2>1. JobOK(b) /\ FanOK(b) /\ Len(job[b].roster) \in Nat /\ userKey[b] \in Nat
    BY Lengths DEF IInv, Core
  <2>2. job'[b] = job[b] /\ userKey'[b] = userKey[b] /\ fan'[b] = fan[b]
    BY <1>4 DEF Effect
  <2> QED
    BY <1>2, <2>1, <2>2 DEF JobOK, FanOK, Longer, Holds
<1> QED
  BY <1>1, <1>3, <1>4 DEF IInv, Core, Effect

\* The facts every action starts from.
LEMMA Given ==
    ASSUME IInv
    PROVE  /\ TypeOK /\ RosterOK /\ CollectionOK
           /\ \A c \in Client : JobOK(c) /\ FanOK(c)
           /\ setup.edits \in Nat /\ setup.crashes \in Nat /\ setup \in Setups
           /\ edits \in Nat /\ crashes \in Nat
           /\ roster' = roster => Longer /\ RosterOK'
<1>1. TypeOK /\ RosterOK /\ CollectionOK /\ \A c \in Client : JobOK(c) /\ FanOK(c)
  BY DEF IInv, Core
<1>2. setup \in Setups /\ setup.edits \in Nat /\ setup.crashes \in Nat
  BY <1>1, SetupAssumption DEF TypeOK, SetupAssumption
<1>3. roster' = roster => Longer /\ RosterOK'
  BY <1>1, Lengths DEF TypeOK, Longer, RosterOK, CurrentEpoch
<1> QED
  BY <1>1, <1>2, <1>3 DEF TypeOK

\* Converge, up to its write.
LEMMA ConvergeEffect ==
    ASSUME IInv, roster' = roster, NEW c \in Client, NEW d \in Descriptor(Client),
           d # <<>>, Len(d) <= Len(roster), NEW doc \in SUBSET Client,
           job[c].stage # "fanOut", job[c].op = "signIn" => userKey[c] = Len(d),
           NEW unchanged, unchanged => Effect(c), Converge(c, d, doc, unchanged)
    PROVE  Effect(c)
<1> DEFINE drift == UserKeyRosterDrift(d, doc)
<1>1. Longer /\ job[c] \in Job
  BY Given, Lengths
<1>2. CASE drift.stale = {} /\ drift.unwrapped = {}
  BY <1>2 DEF Converge
<1>3. CASE ~(drift.stale = {} /\ drift.unwrapped = {})
           /\ drift.stale # {} /\ CurrentEpoch(d) = drift.stale
  <2>1. End(c) /\ UNCHANGED <<userKey, fan>>
    BY <1>3 DEF Converge
  <2> QED
    BY <1>1, <2>1, EndEffect
<1>4. CASE ~(drift.stale = {} /\ drift.unwrapped = {})
           /\ ~(drift.stale # {} /\ CurrentEpoch(d) = drift.stale)
  <2> DEFINE J(r) == [job[c] EXCEPT !.stage = "put", !.doc = doc, !.base = d,
                        !.roster = d, !.retire = r, !.incoming = drift.unwrapped,
                        !.attempt = 1]
  <2>1. CurrentEpoch(d) \in SUBSET Client
    BY DEF CurrentEpoch, Descriptor
  <2>2. drift.unwrapped \in SUBSET Client /\ drift.stale \in SUBSET Client
    BY <2>1 DEF UserKeyRosterDrift
  <2> HIDE DEF drift
  <2>3. PICK r \in SUBSET Client : job' = [job EXCEPT ![c] = J(r)]
        /\ UNCHANGED <<userKey, fan>>
    <3> DEFINE K == IF drift.unwrapped = {} THEN {{s} : s \in drift.stale}
                                            ELSE {drift.stale}
    <3>1. /\ \E r \in K : job' = [job EXCEPT ![c] = J(r)]
          /\ UNCHANGED <<userKey, fan>>
      BY <1>4 DEF Converge, drift
    <3>2. \A r \in K : r \in SUBSET Client
      BY <2>2
    <3> HIDE DEF K, J
    <3> QED
      BY <3>1, <3>2
  <2>4. /\ J(r) \in Job /\ J(r).stage = "put" /\ J(r).roster = d /\ J(r).op = job[c].op
    <3>1. 1 \in 0..CasAttempts
      BY CasAssumption DEF CasAssumption
    <3> QED
      BY <1>1, <2>2, <3>1 DEF Job, Stage
  <2>5. PICK j \in Job : j = J(r)
    BY <2>4
  <2> QED
    BY <1>1, <2>3, <2>4, <2>5, JobEffect DEF Holds
<1> QED
  BY <1>2, <1>3, <1>4

(***************************************************************************)
(* The actions                                                             *)
(***************************************************************************)
\* A ceremony that starts: its job holds no roster yet.
LEMMA StartStep ==
    ASSUME IInv, NEW c \in Client, NEW j \in Job,
           job' = [job EXCEPT ![c] = j], job[c].stage = "idle",
           UNCHANGED <<userKey, fan, roster, collection, setup, crashes>>,
           edits < setup.edits, edits' = edits + 1,
           document' \in SUBSET Client, removed' \in SUBSET Client,
           j.roster = <<>>, j.op # "signIn",
           j.stage \in {"converge", "put", "publish", "retire"}
    PROVE  IInv'
<1>1. /\ Longer /\ RosterOK' /\ edits' \in 0..setup.edits
      /\ crashes' \in 0..setup.crashes
  BY Given DEF TypeOK
<1>2. Len(j.roster) = 0 /\ Len(roster) \in Nat
  BY Given, Lengths
<1>3. /\ Len(j.roster) <= Len(roster) /\ ~Holds(j) /\ j.stage # "fanOut"
      /\ job[c].stage # "fanOut"
  BY <1>2 DEF Holds
<1>4. Effect(c)
  BY <1>1, <1>3, JobEffect
<1> QED
  BY <1>1, <1>4, Steps

\* Revocation, approval and forget begin.
LEMMA BeginStep ==
    ASSUME IInv, NEW c \in Client,
           \/ ForgetEnrolledClient(c)
           \/ \E t \in Client : RevokeAccountClient(c, t) \/ ApproveEnrollment(c, t)
    PROVE  IInv'
<1>1. /\ document \in SUBSET Client /\ removed \in SUBSET Client
      /\ roster \in Descriptor(Client) /\ Idle \in Job /\ Idle.roster = <<>>
      /\ 1 \in 0..CasAttempts
  BY Given, RestTyped, CasAssumption DEF TypeOK, CasAssumption
<1>2. CASE ForgetEnrolledClient(c)
  <2> DEFINE j == [Idle EXCEPT !.op = "forget", !.stage = "retire", !.doc = document]
  <2>1. j \in Job /\ j.roster = <<>> /\ j.op = "forget" /\ j.stage = "retire"
    BY <1>1 DEF Job, Stage
  <2>2. /\ job' = [job EXCEPT ![c] = j] /\ job[c].stage = "idle"
        /\ UNCHANGED <<userKey, fan, roster, collection, setup, crashes>>
        /\ edits < setup.edits /\ edits' = edits + 1
        /\ document' = document /\ removed' = removed
    BY <1>2 DEF ForgetEnrolledClient
  <2> HIDE DEF j
  <2> QED
    BY <1>1, <2>1, <2>2, StartStep
<1>3. ASSUME NEW t \in Client, RevokeAccountClient(c, t) PROVE IInv'
  <2> DEFINE j == [Idle EXCEPT !.op = "revoke", !.stage = "converge",
                               !.doc = document \ {t}]
  <2>1. j \in Job /\ j.roster = <<>> /\ j.op = "revoke" /\ j.stage = "converge"
    BY <1>1 DEF Job, Stage
  <2>2. /\ job' = [job EXCEPT ![c] = j] /\ job[c].stage = "idle"
        /\ UNCHANGED <<userKey, fan, roster, collection, setup, crashes>>
        /\ edits < setup.edits /\ edits' = edits + 1
        /\ document' = document \ {t} /\ removed' = removed \cup {t}
    BY <1>3 DEF RevokeAccountClient
  <2> HIDE DEF j
  <2> QED
    BY <1>1, <2>1, <2>2, StartStep
<1>4. ASSUME NEW t \in Client, ApproveEnrollment(c, t) PROVE IInv'
  <2> DEFINE st == IF t \in CurrentEpoch(roster) THEN "publish" ELSE "put"
             j == [Idle EXCEPT !.op = "enroll", !.stage = st, !.base = roster,
                               !.incoming = {t}, !.attempt = 1]
  <2>1. /\ job' = [job EXCEPT ![c] = j] /\ job[c].stage = "idle"
        /\ UNCHANGED <<userKey, fan, roster, collection, setup, crashes>>
        /\ edits < setup.edits /\ edits' = edits + 1
        /\ document' = document /\ removed' = removed
    BY <1>4 DEF ApproveEnrollment
  <2>2. st \in {"publish", "put"}
    OBVIOUS
  <2> HIDE DEF st
  <2>3. j \in Job /\ j.roster = <<>> /\ j.op = "enroll" /\ j.stage = st
    BY <1>1, <2>2 DEF Job, Stage
  <2> HIDE DEF j
  <2> QED
    BY <1>1, <2>1, <2>2, <2>3, StartStep
<1> QED
  BY <1>2, <1>3, <1>4

\* checkUserKeyRosterAtLogin: the roster's key is adopted.
LEMMA LoginStep ==
    ASSUME IInv, NEW c \in Client, CheckUserKeyRosterAtLogin(c)
    PROVE  IInv'
<1> DEFINE j == [Idle EXCEPT !.op = "signIn", !.stage = "verify", !.roster = roster]
<1>1. /\ job[c].stage = "idle" /\ job' = [job EXCEPT ![c] = j]
      /\ userKey' = [userKey EXCEPT ![c] = Len(roster)]
      /\ UNCHANGED <<setup, document, removed, roster, collection, fan, edits, crashes>>
  BY DEF CheckUserKeyRosterAtLogin
<1>2. /\ TypeOK /\ Longer /\ RosterOK' /\ Len(roster) \in Nat /\ roster # <<>>
      /\ document' \in SUBSET Client /\ removed' \in SUBSET Client
      /\ edits' \in 0..setup.edits /\ crashes' \in 0..setup.crashes
  BY <1>1, Given, Lengths DEF TypeOK
<1>3. j \in Job /\ j.roster = roster /\ j.stage = "verify"
  BY <1>2, RestTyped DEF Job, Stage, TypeOK
<1> HIDE DEF j
<1>4. /\ job' \in [Client -> Job] /\ userKey' \in [Client -> Nat]
      /\ job'[c] = j /\ userKey'[c] = Len(roster)
      /\ \A b \in Client \ {c} : job'[b] = job[b] /\ userKey'[b] = userKey[b]
  BY <1>1, <1>2, <1>3 DEF TypeOK
<1>5. JobOK(c)'
  BY <1>1, <1>2, <1>3, <1>4 DEF JobOK, Holds
<1>6. FanOK(c)'
  BY <1>1, NoPut DEF FanOK
<1>7. Effect(c)
  BY <1>1, <1>2, <1>4, <1>5, <1>6 DEF Effect, TypeOK
<1> QED
  BY <1>1, <1>2, <1>7, Steps

\* The decisions on the roster, the document's entries and the end of a
\* forget: neither the roster nor a collection is written.
LEMMA DecideStep ==
    ASSUME IInv, NEW c \in Client,
           \/ ConvergeToAccount(c) \/ RotateRosterToDocument(c)
           \/ RetireRosterRecipient(c) \/ EnrollWebvhClient(c) \/ ForgetWebvhClient(c)
    PROVE  IInv'
<1>1. /\ UNCHANGED <<roster, collection, setup, edits, crashes>>
      /\ job[c].stage \in {"verify", "converge", "retire", "publish", "remove"}
  BY DEF ConvergeToAccount, RotateRosterToDocument, RetireRosterRecipient,
         EnrollWebvhClient, ForgetWebvhClient
<1>2. /\ TypeOK /\ Longer /\ RosterOK' /\ JobOK(c) /\ job[c] \in Job
      /\ edits' \in 0..setup.edits /\ crashes' \in 0..setup.crashes
      /\ roster \in Descriptor(Client) /\ roster # <<>> /\ Len(roster) \in Nat
      /\ document \in SUBSET Client /\ removed \in SUBSET Client
      /\ job[c].doc \in SUBSET Client /\ job[c].roster \in Descriptor(Client)
      /\ job[c].incoming \in SUBSET Client
  <2>1. TypeOK /\ job[c] \in Job
    BY Given, Lengths
  <2> QED
    BY <1>1, <2>1, Given, Lengths DEF TypeOK, Job
<1>3. document' \in SUBSET Client /\ removed' \in SUBSET Client
  BY <1>2 DEF ConvergeToAccount, RotateRosterToDocument, RetireRosterRecipient,
              EnrollWebvhClient, ForgetWebvhClient
<1>4. CASE ConvergeToAccount(c)
  <2> DEFINE go == FanOut(c, job[c].roster) /\ UNCHANGED userKey
  <2>1. job[c].roster # <<>> /\ userKey[c] = Len(job[c].roster)
        /\ Len(job[c].roster) <= Len(roster) /\ job[c].stage # "fanOut"
    BY <1>2, <1>4 DEF ConvergeToAccount, JobOK, Holds
  <2>2. Converge(c, job[c].roster, document, go)
    BY <1>4 DEF ConvergeToAccount
  <2>3. go => Effect(c)
    <3>1. userKey \in [Client -> Nat]
      BY <1>2 DEF TypeOK
    <3> QED
      BY <1>1, <1>2, <2>1, <3>1, FanOutEffect
  <2> HIDE DEF go
  <2>4. Effect(c)
    BY <1>1, <1>2, <2>1, <2>2, <2>3, ConvergeEffect
  <2> QED
    BY <1>1, <1>2, <1>3, <2>4, Steps
<1>5. ASSUME job[c].stage # "fanOut", AdoptAndFanOut(c, roster) PROVE Effect(c)
  BY <1>1, <1>2, <1>5, AdoptEffect
<1>6. CASE RotateRosterToDocument(c)
  <2>1. job[c].op # "signIn" /\ job[c].stage # "fanOut"
    BY <1>2, <1>6 DEF RotateRosterToDocument, JobOK
  <2>2. CASE c \in document
    <3> DEFINE go == AdoptAndFanOut(c, roster)
    <3>1. Converge(c, roster, job[c].doc, go)
      BY <1>6, <2>2 DEF RotateRosterToDocument
    <3>2. go => Effect(c)
      BY <1>5, <2>1
    <3> HIDE DEF go
    <3>3. Effect(c)
      BY <1>1, <1>2, <2>1, <3>1, <3>2, ConvergeEffect
    <3> QED
      BY <1>1, <1>2, <1>3, <3>3, Steps
  <2>3. CASE c \notin document
    <3>1. End(c) /\ UNCHANGED <<userKey, fan>>
      BY <1>6, <2>3 DEF RotateRosterToDocument
    <3> QED
      BY <1>1, <1>2, <1>3, <2>1, <3>1, EndEffect, Steps
  <2> QED
    BY <2>2, <2>3
<1>7. CASE RetireRosterRecipient(c)
  <2>1. job[c].stage # "fanOut" /\ job[c].op # "signIn"
    BY <1>2, <1>7 DEF RetireRosterRecipient, JobOK
  <2>2. CASE c \notin document
    <3>1. End(c) /\ UNCHANGED <<userKey, fan>>
      BY <1>7, <2>2 DEF RetireRosterRecipient
    <3> QED
      BY <1>1, <1>2, <1>3, <2>1, <3>1, EndEffect, Steps
  <2>3. CASE c \in document /\ c \in CurrentEpoch(roster)
    <3> DEFINE j == [job[c] EXCEPT !.stage = "put", !.base = roster,
                       !.roster = roster, !.retire = {c}, !.attempt = 1]
    <3>1. job' = [job EXCEPT ![c] = j] /\ UNCHANGED <<userKey, fan>>
      BY <1>7, <2>3 DEF RetireRosterRecipient
    <3>2. 1 \in 0..CasAttempts
      BY CasAssumption DEF CasAssumption
    <3>3. j \in Job /\ j.stage = "put" /\ j.roster = roster /\ j.op = job[c].op
      BY <1>2, <3>2 DEF Job, Stage
    <3> HIDE DEF j
    <3>4. ~Holds(j) /\ Len(j.roster) <= Len(roster)
      BY <1>2, <2>1, <3>3 DEF Holds
    <3>5. Effect(c)
      BY <1>2, <2>1, <3>1, <3>3, <3>4, JobEffect
    <3> QED
      BY <1>1, <1>2, <1>3, <3>5, Steps
  <2>4. CASE c \in document /\ c \notin CurrentEpoch(roster)
    <3>1. AdoptAndFanOut(c, roster)
      BY <1>7, <2>4 DEF RetireRosterRecipient
    <3> QED
      BY <1>1, <1>2, <1>3, <1>5, <2>1, <3>1, Steps
  <2> QED
    BY <2>2, <2>3, <2>4
<1>8. CASE EnrollWebvhClient(c) \/ ForgetWebvhClient(c)
  <2>1. End(c) /\ UNCHANGED <<userKey, fan>> /\ job[c].stage # "fanOut"
    BY <1>8 DEF EnrollWebvhClient, ForgetWebvhClient
  <2> QED
    BY <1>1, <1>2, <1>3, <2>1, EndEffect, Steps
<1> QED
  BY <1>4, <1>6, <1>7, <1>8

\* The roster's write, its retry and its refusal.
LEMMA PutRosterStep ==
    ASSUME IInv, NEW c \in Client, PutRoster(c)
    PROVE  IInv'
<1> DEFINE j == job[c]
           d == Recipients(j.base, j.retire, j.incoming, j.doc)
<1>1. /\ UNCHANGED <<setup, document, removed, collection, edits, crashes>>
      /\ j.stage = "put" /\ j.stage # "fanOut"
  BY DEF PutRoster
<1>2. /\ TypeOK /\ RosterOK /\ JobOK(c) /\ j \in Job
      /\ document' \in SUBSET Client /\ removed' \in SUBSET Client
      /\ edits' \in 0..setup.edits /\ crashes' \in 0..setup.crashes
      /\ roster \in Descriptor(Client) /\ roster # <<>> /\ Len(roster) \in Nat
      /\ j.roster \in Descriptor(Client) /\ j.incoming \in SUBSET Client
      /\ userKey \in [Client -> Nat]
  <2>1. TypeOK /\ j \in Job
    BY Given, Lengths
  <2> QED
    BY <1>1, <2>1, Given, Lengths DEF TypeOK, Job
<1>3. ASSUME roster' = roster, End(c), UNCHANGED <<userKey, fan>> PROVE IInv'
  BY <1>1, <1>2, <1>3, Given, EndEffect, Steps
<1>4. ASSUME GiveUpRoster(c), UNCHANGED <<roster, userKey>> PROVE IInv'
  <2>1. CASE j.op = "signIn"
    <3>1. FanOut(c, j.roster)
      BY <1>4, <2>1 DEF GiveUpRoster
    <3>2. j.roster # <<>> /\ userKey[c] = Len(j.roster) /\ Len(j.roster) <= Len(roster)
      BY <1>1, <1>2, <2>1 DEF JobOK, Holds
    <3>3. Longer /\ RosterOK'
      BY <1>4, Given
    <3>4. Effect(c)
      BY <1>2, <1>4, <3>1, <3>2, <3>3, FanOutEffect
    <3> QED
      BY <1>1, <1>2, <3>3, <3>4, Steps
  <2>2. CASE j.op # "signIn"
    BY <1>3, <1>4, <2>2 DEF GiveUpRoster
  <2> QED
    BY <2>1, <2>2
<1>5. CASE c \notin document \/ ~CanEscrow(j.base, j.incoming, c)
  BY <1>3, <1>5, <1>4 DEF PutRoster
<1>6. CASE ~(c \notin document \/ ~CanEscrow(j.base, j.incoming, c)) /\ RosterAccepts(c)
  <2>1. roster' = d /\ AfterRosterWrite(c, d) /\ j.base = roster
    BY <1>6 DEF PutRoster, RosterAccepts
  <2>2. /\ d \in Descriptor(Client) \ {<<>>} /\ Len(roster) <= Len(d)
        /\ \A e \in DOMAIN roster : \A x : x \in d[e] <=> x \in roster[e] \/ x \in j.incoming
        /\ \A x \in CurrentEpoch(d) : x \in CurrentEpoch(roster) \/ x \in j.incoming
        /\ \A g \in DOMAIN d : g \in DOMAIN roster \/ g = Len(d)
    <3>1. d = Recipients(roster, j.retire, j.incoming, j.doc)
      BY <2>1
    <3> HIDE DEF d, j
    <3>2. roster \in Descriptor(Client) /\ roster # <<>> /\ j.incoming \in SUBSET Client
      BY <1>2
    <3>3. Rewrap(Client, roster, j.retire, j.incoming, j.doc, d)
      BY <3>1, <3>2, RecipientsAre
    <3>4. Len(roster) <= Len(d)
      BY <3>1, <3>2, RecipientsGrow
    <3>5. \A g \in DOMAIN d : g \in DOMAIN roster \/ g = Len(d)
      BY <3>1, <3>2, RecipientsDomain
    <3> QED
      BY <3>3, <3>4, <3>5 DEF Rewrap
  <2> HIDE DEF d
  <2>3. Longer /\ Len(d) \in Nat /\ DOMAIN d = 1..Len(d)
    BY <1>2, <2>1, <2>2 DEF Longer, Descriptor
  <2>4. RosterOK'
    <3>1. ASSUME NEW g \in DOMAIN d PROVE CurrentEpoch(d) \subseteq d[g]
      <4>1. CurrentEpoch(d) \subseteq CurrentEpoch(roster) \cup j.incoming
        BY <2>2
      <4>2. CASE g \in DOMAIN roster
        BY <1>2, <2>2, <4>1, <4>2 DEF RosterOK
      <4>3. CASE g \notin DOMAIN roster
        BY <2>2, <3>1, <4>3 DEF CurrentEpoch
      <4> QED
        BY <4>2, <4>3
    <3> QED
      BY <2>1, <3>1 DEF RosterOK, CurrentEpoch
  <2>5. CASE j.op = "enroll"
    <3> DEFINE n == [job[c] EXCEPT !.stage = "publish"]
    <3>1. job' = [job EXCEPT ![c] = n] /\ UNCHANGED <<userKey, fan>>
      BY <2>1, <2>5 DEF AfterRosterWrite, Goto
    <3>2. n \in Job /\ n.stage = "publish" /\ n.roster = j.roster
      BY <1>2 DEF Job, Stage
    <3> HIDE DEF n
    <3>3. ~Holds(n) /\ Len(n.roster) <= Len(roster)
      BY <1>2, <3>2 DEF Holds, JobOK
    <3>4. Effect(c)
      BY <1>1, <2>3, <3>1, <3>2, <3>3, JobEffect
    <3> QED
      BY <1>1, <1>2, <2>3, <2>4, <3>4, Steps
  <2>6. ASSUME j.op = "signIn", FanOut(c, j.roster), UNCHANGED userKey PROVE IInv'
    <3>1. j.roster # <<>> /\ userKey[c] = Len(j.roster) /\ Len(j.roster) <= Len(roster)
      BY <1>1, <1>2, <2>6 DEF JobOK, Holds
    <3>2. Len(j.roster) <= Len(roster') /\ Len(j.roster) \in Nat
      <4>1. Len(j.roster) \in Nat /\ Len(roster') \in Nat
        BY <1>2, <2>1, <2>3 DEF Descriptor
      <4> QED
        BY <1>2, <2>3, <3>1, <4>1 DEF Longer
    <3>3. Effect(c)
      BY <1>2, <2>3, <2>6, <3>1, <3>2, FanOutEffect
    <3> QED
      BY <1>1, <1>2, <2>3, <2>4, <3>3, Steps
  <2>7. ASSUME AdoptAndFanOut(c, d) PROVE IInv'
    <3>1. Len(d) <= Len(roster')
      BY <2>1, <2>3
    <3>2. Effect(c)
      BY <1>1, <2>2, <2>3, <2>7, <3>1, AdoptEffect
    <3> QED
      BY <1>1, <1>2, <2>3, <2>4, <3>2, Steps
  <2>8. \/ j.op = "enroll"
        \/ j.op = "signIn" /\ FanOut(c, j.roster) /\ UNCHANGED userKey
        \/ AdoptAndFanOut(c, d)
    BY <2>1 DEF AfterRosterWrite
  <2> QED
    BY <2>5, <2>6, <2>7, <2>8
<1>7. CASE ~(c \notin document \/ ~CanEscrow(j.base, j.incoming, c)) /\ ~RosterAccepts(c)
  <2>1. UNCHANGED <<roster, userKey>>
    BY <1>7 DEF PutRoster
  <2>2. CASE MayRetry(j.attempt)
    <3> DEFINE a == j.attempt + 1
               n == [job[c] EXCEPT !.base = roster, !.attempt = a]
    <3>1. job' = [job EXCEPT ![c] = n] /\ UNCHANGED fan
      BY <1>7, <2>2 DEF PutRoster
    <3>2. a \in 0..CasAttempts
      BY <1>2, <2>2, CasAssumption DEF MayRetry, CasAssumption, Job
    <3> HIDE DEF a
    <3>3. n \in Job /\ n.stage = j.stage /\ n.roster = j.roster /\ n.op = j.op
      BY <1>2, <3>2 DEF Job
    <3> HIDE DEF n
    <3>4. /\ Len(n.roster) <= Len(roster) /\ n.stage # "fanOut"
          /\ Holds(n) => n.roster # <<>> /\ userKey[c] = Len(n.roster)
          /\ n.stage \in {"converge", "retire"} => n.op # "signIn"
      BY <1>1, <1>2, <3>3 DEF JobOK, Holds
    <3>5. Longer /\ RosterOK'
      BY <2>1, Given
    <3>6. Effect(c)
      BY <1>1, <2>1, <3>1, <3>3, <3>4, <3>5, JobEffect
    <3> QED
      BY <1>1, <1>2, <3>5, <3>6, Steps
  <2>3. CASE ~MayRetry(j.attempt)
    <3>1. GiveUpRoster(c)
      BY <1>7, <2>3 DEF PutRoster
    <3> QED
      BY <1>4, <2>1, <3>1
  <2> QED
    BY <2>2, <2>3
<1> QED
  BY <1>5, <1>6, <1>7

\* A ceremony comes to rest, its fan-out settled or cut short.
LEMMA RestStep ==
    ASSUME IInv, NEW c \in Client, NEW j \in Job, job' = [job EXCEPT ![c] = j],
           fan' = [fan EXCEPT ![c] = [k \in Collection |-> Done]],
           UNCHANGED <<setup, document, removed, roster, collection, userKey, edits>>,
           crashes' \in 0..setup.crashes, Len(j.roster) <= Len(roster),
           j.stage \in {"idle", "remove"}
    PROVE  IInv'
<1>1. /\ TypeOK /\ JobOK(c) /\ Longer /\ RosterOK' /\ edits' \in 0..setup.edits
      /\ document' \in SUBSET Client /\ removed' \in SUBSET Client
  BY Given DEF TypeOK
<1>2. job' \in [Client -> Job] /\ job'[c] = j /\ \A b \in Client \ {c} : job'[b] = job[b]
  BY <1>1 DEF TypeOK
<1>3. /\ fan' \in [Client -> [Collection -> Task]]
      /\ \A k \in Collection : fan'[c][k] = Done
      /\ \A b \in Client \ {c} : fan'[b] = fan[b]
  BY <1>1, RestTyped DEF TypeOK
<1>4. JobOK(c)'
  BY <1>1, <1>2 DEF JobOK, Holds
<1>5. FanOK(c)'
  BY <1>3, RestTyped DEF FanOK
<1>6. Effect(c)
  BY <1>1, <1>2, <1>3, <1>4, <1>5 DEF Effect, TypeOK
<1> QED
  BY <1>1, <1>6, Steps

\* cascadeCollectionsToUserKey settles, or the client goes away.
LEMMA SettleStep ==
    ASSUME IInv, NEW c \in Client, FanOutDone(c) \/ CutShort(c)
    PROVE  IInv'
<1>1. /\ TypeOK /\ JobOK(c) /\ job[c] \in Job /\ Len(roster) \in Nat
      /\ crashes \in 0..setup.crashes /\ crashes \in Nat /\ setup.crashes \in Nat
  BY Given, Lengths DEF TypeOK
<1>2. /\ fan' = [fan EXCEPT ![c] = [k \in Collection |-> Done]]
      /\ UNCHANGED <<setup, document, removed, roster, collection, userKey, edits>>
  BY DEF FanOutDone, CutShort
<1>3. crashes' \in 0..setup.crashes
  BY <1>1 DEF FanOutDone, CutShort
<1>4. CASE job' = [job EXCEPT ![c] = Idle]
  <2>1. Idle \in Job /\ Len(Idle.roster) <= Len(roster) /\ Idle.stage = "idle"
    BY <1>1, RestTyped
  <2> QED
    BY <1>2, <1>3, <1>4, <2>1, RestStep
<1>5. CASE Goto(c, "remove")
  <2> DEFINE j == [job[c] EXCEPT !.stage = "remove"]
  <2>1. j \in Job /\ j.roster = job[c].roster /\ j.stage = "remove"
    BY <1>1 DEF Job, Stage
  <2>2. job' = [job EXCEPT ![c] = j]
    BY <1>5 DEF Goto
  <2> HIDE DEF j
  <2>3. Len(j.roster) <= Len(roster)
    BY <1>1, <2>1 DEF JobOK
  <2> QED
    BY <1>2, <1>3, <2>1, <2>2, <2>3, RestStep
<1> QED
  BY <1>4, <1>5 DEF FanOutDone, CutShort, End

(***************************************************************************)
(* The fan-out: a step of client c on collection k.                        *)
(***************************************************************************)
\* Such a step keeps the invariant where its task does.
LEMMA FanStep ==
    ASSUME IInv, NEW c \in Client, NEW k \in Collection, NEW t \in Task,
           fan' = [fan EXCEPT ![c][k] = t], job[c].stage = "fanOut",
           UNCHANGED <<setup, document, removed, roster, userKey, job, edits, crashes>>,
           t.stage = "put" => \A g \in t.retire : g < userKey[c],
           collection' \in [Collection -> Descriptor(Generation) \ {<<>>}],
           CollectionOK'
    PROVE  IInv'
<1>1. TypeOK /\ RosterOK /\ \A b \in Client : JobOK(b) /\ FanOK(b)
  BY Given
<1>2. /\ fan' \in [Client -> [Collection -> Task]] /\ fan'[c][k] = t
      /\ \A b \in Client, l \in Collection :
           b # c \/ l # k => fan'[b][l] = fan[b][l]
  BY <1>1 DEF TypeOK
<1>3. TypeOK'
  BY <1>1, <1>2 DEF TypeOK
<1>4. RosterOK'
  BY Given
<1>5. ASSUME NEW b \in Client PROVE JobOK(b)'
  BY <1>1 DEF JobOK
<1>6. ASSUME NEW b \in Client PROVE FanOK(b)'
  BY <1>1, <1>2 DEF FanOK
<1> QED
  BY <1>3, <1>4, <1>5, <1>6 DEF IInv, Core

\* A collection is read.
LEMMA ReadStep ==
    ASSUME IInv, NEW c \in Client, NEW k \in Collection, ReadCollection(c, k)
    PROVE  IInv'
<1> DEFINE gens == Generations(c, job[c].roster)
           key == userKey[c]
           n == Len(job[c].roster)
           task == CollectionTask(collection[k], key, gens)
           t == IF c \in document THEN task ELSE Done
<1>1. /\ TypeOK /\ CollectionOK /\ JobOK(c) /\ job[c] \in Job /\ n \in Nat
      /\ job[c].stage = "fanOut"
  BY Given, Lengths DEF ReadCollection
<1>2. /\ fan' = [fan EXCEPT ![c][k] = t]
      /\ UNCHANGED <<setup, document, removed, roster, collection, userKey, job,
                     edits, crashes>>
  BY DEF ReadCollection
<1>3. key = n
  BY <1>1 DEF JobOK, Holds
<1>4. gens \in SUBSET (1..n)
  BY <1>1 DEF Generations, Job, Descriptor
<1>5. collection[k] \in Descriptor(Generation)
  BY <1>1 DEF TypeOK
<1> HIDE DEF gens, key
<1>6. task \in Task /\ task.retire \subseteq gens \ {key}
  BY <1>1, <1>4, <1>5, CollectionTaskIs
<1> HIDE DEF task
<1>7. \A g \in task.retire : g < n
  <2>1. \A g \in 1..n : g # n => g < n
    BY <1>1
  <2> QED
    BY <1>3, <1>4, <1>6, <2>1
<1>8. t \in Task /\ (t.stage = "put" => \A g \in t.retire : g < userKey[c])
  BY <1>3, <1>6, <1>7, RestTyped DEF key
<1> HIDE DEF t, n
<1>9. collection' \in [Collection -> Descriptor(Generation) \ {<<>>}] /\ CollectionOK'
  BY <1>1, <1>2 DEF TypeOK, CollectionOK
<1> QED
  BY <1>1, <1>2, <1>8, <1>9, FanStep

\* What a write of a collection does.
PutEffect(c, k) ==
    \/ collection' = collection
    \/ \E new : /\ collection' = [collection EXCEPT ![k] = new]
                /\ Rewrap(Generation, collection[k], fan[c][k].retire, {userKey[c]},
                          Generation, new)
                /\ \A e \in DOMAIN new : e \in DOMAIN collection[k] \/ e = Len(new)
                /\ \A g \in fan[c][k].retire : g < userKey[c]
                /\ userKey[c] \in 1..Len(roster)

\* The write lands on what was read, or changes nothing.
LEMMA PutIs ==
    ASSUME IInv, NEW c \in Client, NEW k \in Collection, PutCollection(c, k)
    PROVE  PutEffect(c, k)
<1> DEFINE f == fan[c][k]
           key == userKey[c]
           new == Recipients(collection[k], f.retire, {key}, Generation)
<1>1. /\ TypeOK /\ CollectionOK /\ JobOK(c) /\ FanOK(c) /\ job[c] \in Job
      /\ Len(roster) \in Nat /\ Len(job[c].roster) \in Nat
      /\ job[c].stage = "fanOut" /\ f.stage = "put"
  BY Given, Lengths DEF PutCollection
<1>2. \/ collection' = collection
      \/ collection' = [collection EXCEPT ![k] = new]
  BY DEF PutCollection, CollectionAccepts
<1>3. key \in 1..Len(roster)
  <2>1. key = Len(job[c].roster) /\ job[c].roster # <<>> /\ key <= Len(roster)
    BY <1>1 DEF JobOK, Holds
  <2>2. Len(job[c].roster) # 0
    BY <1>1, <2>1 DEF Job, Descriptor
  <2> QED
    BY <1>1, <2>1, <2>2
<1>4. \A g \in f.retire : g < key
  BY <1>1 DEF FanOK
<1>5. /\ collection[k] \in Descriptor(Generation) /\ collection[k] # <<>>
      /\ {key} \in SUBSET Generation
  BY <1>1, <1>3 DEF TypeOK, Generation
<1>6. PICK d : d = new
  OBVIOUS
<1> HIDE DEF f, key
<1>7. Rewrap(Generation, collection[k], f.retire, {key}, Generation, d)
  BY <1>5, <1>6, RecipientsAre
<1>8. \A e \in DOMAIN d : e \in DOMAIN collection[k] \/ e = Len(d)
  BY <1>5, <1>6, RecipientsDomain
<1>9. collection' = collection \/ collection' = [collection EXCEPT ![k] = d]
  BY <1>2, <1>6
<1> HIDE DEF new
<1> QED
  BY <1>3, <1>4, <1>7, <1>8, <1>9 DEF PutEffect, f, key

\* A collection is written.
LEMMA PutStep ==
    ASSUME IInv, NEW c \in Client, NEW k \in Collection, PutCollection(c, k)
    PROVE  IInv'
<1> DEFINE f == fan[c][k]
<1>1. /\ TypeOK /\ CollectionOK /\ FanOK(c) /\ f \in Task
      /\ job[c].stage = "fanOut" /\ f.stage = "put"
      /\ UNCHANGED <<setup, document, removed, roster, userKey, job, edits, crashes>>
  BY Given, Lengths DEF PutCollection
<1>2. \A g \in f.retire : g < userKey[c]
  BY <1>1 DEF FanOK
<1>3. collection[k] \in Descriptor(Generation)
  BY <1>1 DEF TypeOK
<1>4. \/ fan' = [fan EXCEPT ![c][k] = Done]
      \/ /\ fan' = [fan EXCEPT ![c][k] = [f EXCEPT !.base = collection[k],
                                                   !.attempt = f.attempt + 1]]
         /\ MayRetry(f.attempt)
  BY DEF PutCollection
<1>5. PICK t \in Task : /\ fan' = [fan EXCEPT ![c][k] = t]
                        /\ t.stage = "put" => \A g \in t.retire : g < userKey[c]
  <2>1. CASE fan' = [fan EXCEPT ![c][k] = Done]
    BY <2>1, RestTyped
  <2>2. CASE /\ fan' = [fan EXCEPT ![c][k] = [f EXCEPT !.base = collection[k],
                                                       !.attempt = f.attempt + 1]]
             /\ MayRetry(f.attempt)
    <3> DEFINE a == f.attempt + 1
               t == [f EXCEPT !.base = collection[k], !.attempt = a]
    <3>1. a \in 0..CasAttempts
      BY <1>1, <2>2, CasAssumption DEF MayRetry, CasAssumption, Task
    <3>2. fan' = [fan EXCEPT ![c][k] = t]
      BY <2>2
    <3> HIDE DEF a, f
    <3>3. t \in Task /\ t.retire = f.retire
      BY <1>1, <1>3, <3>1 DEF Task
    <3> HIDE DEF t
    <3> QED
      BY <1>2, <3>2, <3>3
  <2> QED
    BY <1>4, <2>1, <2>2
<1>6. PutEffect(c, k)
  BY PutIs
<1>7. collection' \in [Collection -> Descriptor(Generation) \ {<<>>}] /\ CollectionOK'
  <2>1. CASE collection' = collection
    BY <1>1, <2>1 DEF TypeOK, CollectionOK
  <2>2. CASE collection' # collection
    <3>1. PICK new :
            /\ collection' = [collection EXCEPT ![k] = new]
            /\ Rewrap(Generation, collection[k], f.retire, {userKey[c]},
                      Generation, new)
            /\ \A e \in DOMAIN new : e \in DOMAIN collection[k] \/ e = Len(new)
            /\ userKey[c] \in 1..Len(roster)
      BY <1>6, <2>2 DEF PutEffect
    <3>2. /\ new \in Descriptor(Generation) \ {<<>>}
          /\ \A e \in DOMAIN collection[k] :
               \A x : x \in new[e] <=> x \in collection[k][e] \/ x = userKey[c]
          /\ \A x \in CurrentEpoch(new) : x \in CurrentEpoch(collection[k])
                                          \/ x = userKey[c]
          /\ userKey[c] \in CurrentEpoch(new)
      BY <3>1 DEF Rewrap
    <3>3. collection' \in [Collection -> Descriptor(Generation) \ {<<>>}]
      BY <1>1, <3>1, <3>2 DEF TypeOK
    <3>4. /\ collection'[k] = new
          /\ \A l \in Collection : l # k => collection'[l] = collection[l]
      BY <1>1, <3>1 DEF TypeOK
    <3>5. \A x \in CurrentEpoch(collection[k]) : x \in 1..Len(roster)
      <4>1. collection[k] \in Seq(SUBSET Generation) /\ collection[k] # <<>>
        BY <1>1 DEF TypeOK, Descriptor
      <4>2. Len(collection[k]) \in DOMAIN collection[k]
        BY <4>1
      <4> QED
        BY <1>1, <4>2 DEF CollectionOK, CurrentEpoch
    <3>6. ASSUME NEW e \in DOMAIN new
          PROVE  new[e] # {} /\ \A x \in new[e] : x \in 1..Len(roster)
      <4>1. CASE e \in DOMAIN collection[k]
        <5>1. \A x \in collection[k][e] : x \in 1..Len(roster)
          BY <1>1, <4>1 DEF CollectionOK
        <5> QED
          BY <3>1, <3>2, <4>1, <5>1
      <4>2. CASE e = Len(new)
        BY <3>1, <3>2, <3>5, <4>2 DEF CurrentEpoch
      <4> QED
        BY <3>1, <4>1, <4>2
    <3>7. CollectionOK'
      BY <1>1, <3>4, <3>6 DEF CollectionOK
    <3> QED
      BY <3>3, <3>7
  <2> QED
    BY <2>1, <2>2
<1> QED
  BY <1>1, <1>5, <1>7, FanStep

(***************************************************************************)
(* The results.                                                            *)
(***************************************************************************)
\* A provisioned account satisfies the invariant.
LEMMA InitInv == Init => IInv
<1> SUFFICES ASSUME Init PROVE IInv
  OBVIOUS
<1>1. /\ setup \in Setups /\ setup.members \in SUBSET Client
      /\ setup.edits \in Nat /\ setup.crashes \in Nat
  BY SetupAssumption DEF Init, SetupAssumption
<1>2. /\ roster = <<setup.members>> /\ roster \in Seq(SUBSET Client)
      /\ roster # <<>> /\ Len(roster) = 1 /\ DOMAIN roster = 1..1
  BY <1>1 DEF Init
<1>3. /\ <<{1}>> \in Seq(SUBSET Generation) /\ <<{1}>> # <<>>
      /\ DOMAIN <<{1}>> = 1..1 /\ <<{1}>>[1] = {1}
  BY DEF Generation
<1>4. collection = [k \in Collection |-> <<{1}>>]
  BY DEF Init
<1>5. /\ userKey \in [Client -> Nat] /\ \A c \in Client : userKey[c] <= 1
  BY DEF Init
<1>6. /\ job = [c \in Client |-> Idle]
      /\ fan = [c \in Client |-> [k \in Collection |-> Done]]
  BY DEF Init
<1>7. TypeOK
  <2>1. collection \in [Collection -> Descriptor(Generation) \ {<<>>}]
    BY <1>3, <1>4 DEF Descriptor
  <2>2. job \in [Client -> Job] /\ fan \in [Client -> [Collection -> Task]]
    BY <1>6, RestTyped
  <2>3. document \subseteq Client /\ removed \subseteq Client
    BY <1>1 DEF Init
  <2>4. edits \in 0..setup.edits /\ crashes \in 0..setup.crashes
    BY <1>1 DEF Init
  <2> QED
    BY <1>1, <1>2, <1>5, <2>1, <2>2, <2>3, <2>4 DEF TypeOK, Descriptor
<1>8. RosterOK
  BY <1>2 DEF RosterOK, CurrentEpoch
<1>9. CollectionOK
  BY <1>2, <1>3, <1>4 DEF CollectionOK
<1>10. ASSUME NEW c \in Client PROVE JobOK(c) /\ FanOK(c)
  <2>1. job[c] = Idle /\ \A k \in Collection : fan[c][k] = Done
    BY <1>6
  <2>2. Len(job[c].roster) = 0
    BY <2>1, RestTyped
  <2> QED
    BY <1>2, <1>5, <2>1, <2>2, RestTyped DEF JobOK, FanOK, Holds
<1> QED
  BY <1>7, <1>8, <1>9, <1>10 DEF IInv, Core

\* Every step keeps it.
LEMMA NextInv == IInv /\ [Next]_vars => IInv'
<1> SUFFICES ASSUME IInv, [Next]_vars PROVE IInv'
  OBVIOUS
<1>1. CASE UNCHANGED vars
  BY <1>1 DEF IInv, Core, TypeOK, RosterOK, CollectionOK, CurrentEpoch, JobOK, Holds,
              FanOK, vars
<1>2. CASE Next
  <2>1. PICK c \in Client :
          \/ CheckUserKeyRosterAtLogin(c) \/ ForgetEnrolledClient(c)
          \/ CeremonyStep(c)
          \/ \E t \in Client : RevokeAccountClient(c, t) \/ ApproveEnrollment(c, t)
          \/ CutShort(c)
    BY <1>2 DEF Next
  <2>2. CASE CheckUserKeyRosterAtLogin(c)
    BY <2>2, LoginStep
  <2>3. CASE \/ ForgetEnrolledClient(c)
             \/ \E t \in Client : RevokeAccountClient(c, t) \/ ApproveEnrollment(c, t)
    BY <2>3, BeginStep
  <2>4. CASE CeremonyStep(c)
    <3>1. CASE \/ ConvergeToAccount(c) \/ RotateRosterToDocument(c)
               \/ RetireRosterRecipient(c) \/ EnrollWebvhClient(c)
               \/ ForgetWebvhClient(c)
      BY <3>1, DecideStep
    <3>2. CASE PutRoster(c)
      BY <3>2, PutRosterStep
    <3>3. CASE FanOutDone(c)
      BY <3>3, SettleStep
    <3>4. ASSUME NEW k \in Collection, ReadCollection(c, k) PROVE IInv'
      BY <3>4, ReadStep
    <3>5. ASSUME NEW k \in Collection, PutCollection(c, k) PROVE IInv'
      BY <3>5, PutStep
    <3> QED
      BY <2>4, <3>1, <3>2, <3>3, <3>4, <3>5 DEF CeremonyStep
  <2>5. CASE CutShort(c)
    BY <2>5, SettleStep
  <2> QED
    BY <2>1, <2>2, <2>3, <2>4, <2>5
<1> QED
  BY <1>1, <1>2

\* The invariant holds throughout.
LEMMA Invariance == Spec => []IInv
  BY InitInv, NextInv, PTL DEF Spec

\* Every variable keeps its type: rosters and collections stay nonempty
\* sequences of recipient sets, whatever ceremonies overlap, retry or die.
THEOREM TypeCorrect == Spec => []TypeOK
<1>1. IInv => TypeOK
  BY DEF IInv
<1> QED
  BY <1>1, Invariance, PTL

\* No history is lost to a reader (Recipients, CollectionTask): whatever
\* enrollments, revocations, forgets and sign-ins overlap, a client the
\* document keys and the roster's current epoch wraps opens every epoch of
\* every collection.
THEOREM HistoryStaysReadable == Spec => []HistoryReadable
<1>1. IInv => HistoryReadable
  <2> SUFFICES ASSUME IInv, NEW c \in document \cap CurrentEpoch(roster),
                      NEW k \in Collection, NEW e \in DOMAIN collection[k]
               PROVE  c \in Openers(collection[k][e])
    BY DEF HistoryReadable
  <2>1. TypeOK /\ RosterOK /\ CollectionOK /\ DOMAIN roster = 1..Len(roster)
    BY Given, Lengths
  <2>2. PICK g \in collection[k][e] : g \in DOMAIN roster
    BY <2>1 DEF CollectionOK
  <2>3. c \in roster[g] /\ c \in Client
    BY <2>1, <2>2 DEF RosterOK, TypeOK
  <2> QED
    BY <2>2, <2>3 DEF Openers
<1> QED
  BY <1>1, Invariance, PTL

\* The newest generation the current epoch of a collection is wrapped to.
LEMMA NewestOfCollection ==
    ASSUME NEW n \in Nat, NEW d \in Descriptor(Generation), d # <<>>,
           \A e \in DOMAIN d : d[e] # {} /\ d[e] \subseteq 1..n
    PROVE  /\ Newest(CurrentEpoch(d)) \in CurrentEpoch(d)
           /\ Newest(CurrentEpoch(d)) \in Nat
           /\ \A s \in CurrentEpoch(d) : s \in Nat /\ s <= Newest(CurrentEpoch(d))
<1> DEFINE S == CurrentEpoch(d)
<1>1. Len(d) \in DOMAIN d
  BY DEF Descriptor
<1>2. S # {} /\ S \subseteq 0..n /\ \A s \in S : s \in Nat
  BY <1>1 DEF CurrentEpoch
<1> HIDE DEF S
<1>3. Newest(S) \in S /\ \A s \in S : s <= Newest(S)
  BY <1>2, NewestIs
<1>4. Newest(S) \in Nat
  BY <1>2, <1>3
<1> QED
  BY <1>2, <1>3, <1>4 DEF S

\* Only a fan-out's write touches a collection.
LEMMA OnlyPuts ==
    ASSUME [Next]_vars
    PROVE  \/ collection' = collection
           \/ \E c \in Client, k \in Collection : PutCollection(c, k)
  BY DEF Next, vars, CeremonyStep, CheckUserKeyRosterAtLogin, ForgetEnrolledClient,
         RevokeAccountClient, ApproveEnrollment, CutShort, ConvergeToAccount,
         RotateRosterToDocument, EnrollWebvhClient, PutRoster, FanOutDone,
         RetireRosterRecipient, ForgetWebvhClient, ReadCollection

\* A collection never moves back to an older generation
\* (rotateCollectionEpochsToUserKey): a fan-out retires only generations older
\* than the key it brings in, and its compare-and-swap lands on what it read,
\* so however late it writes, the newest reader stays or is replaced by a
\* newer one.
THEOREM NeverRewinds == Spec => CollectionNeverRewinds
<1> DEFINE A == \A k \in Collection : Newest(CurrentEpoch(collection[k])) <=
                                      Newest(CurrentEpoch(collection'[k]))
<1>1. ASSUME IInv, IInv', [Next]_vars PROVE A
  <2> SUFFICES ASSUME NEW k \in Collection
               PROVE  Newest(CurrentEpoch(collection[k])) <=
                      Newest(CurrentEpoch(collection'[k]))
    OBVIOUS
  <2>1. TypeOK /\ CollectionOK /\ TypeOK' /\ CollectionOK'
    BY <1>1 DEF IInv, Core
  <2> DEFINE S == CurrentEpoch(collection[k])
             T == CurrentEpoch(collection'[k])
  <2>2. Newest(S) \in S /\ Newest(S) \in Nat
    <3>1. /\ Len(roster) \in Nat
          /\ collection[k] \in Descriptor(Generation) /\ collection[k] # <<>>
          /\ \A e \in DOMAIN collection[k] :
               collection[k][e] # {} /\ collection[k][e] \subseteq 1..Len(roster)
      BY <2>1 DEF TypeOK, CollectionOK, Descriptor
    <3> QED
      BY <3>1, NewestOfCollection
  <2>3. Newest(T) \in Nat /\ \A s \in T : s \in Nat /\ s <= Newest(T)
    <3>1. /\ Len(roster') \in Nat
          /\ collection'[k] \in Descriptor(Generation) /\ collection'[k] # <<>>
          /\ \A e \in DOMAIN collection'[k] :
               collection'[k][e] # {} /\ collection'[k][e] \subseteq 1..Len(roster')
      BY <2>1 DEF TypeOK, CollectionOK, Descriptor
    <3> QED
      BY <3>1, NewestOfCollection
  <2>4. CASE collection'[k] = collection[k]
    BY <2>2, <2>4
  <2>5. CASE collection'[k] # collection[k]
    <3>1. PICK c \in Client, l \in Collection : PutCollection(c, l)
      BY <1>1, <2>5, OnlyPuts
    <3>2. PutEffect(c, l)
      BY <1>1, <3>1, PutIs
    <3>3. collection \in [Collection -> Descriptor(Generation) \ {<<>>}]
      BY <2>1 DEF TypeOK
    <3>4. PICK new :
            /\ collection' = [collection EXCEPT ![l] = new]
            /\ Rewrap(Generation, collection[l], fan[c][l].retire, {userKey[c]},
                      Generation, new)
            /\ \A g \in fan[c][l].retire : g < userKey[c]
      BY <2>5, <3>2 DEF PutEffect
    <3>5. l = k /\ collection'[k] = new
      BY <2>5, <3>3, <3>4
    <3>6. userKey[c] \in T
      BY <3>4, <3>5 DEF Rewrap
    <3>7. userKey[c] \in Nat /\ S \subseteq Generation
      <4>1. userKey[c] \in Nat
        BY <2>1 DEF TypeOK
      <4>2. collection[k] \in Seq(SUBSET Generation) /\ collection[k] # <<>>
        BY <3>3 DEF Descriptor
      <4>3. Len(collection[k]) \in DOMAIN collection[k]
        BY <4>2
      <4> QED
        BY <4>1, <4>2, <4>3 DEF CurrentEpoch
    <3>8. CASE Newest(S) \in fan[c][l].retire
      <4>1. Newest(S) < userKey[c] /\ userKey[c] <= Newest(T)
        BY <2>3, <3>4, <3>6, <3>8
      <4> QED
        BY <2>2, <2>3, <3>7, <4>1
    <3>9. CASE Newest(S) \notin fan[c][l].retire
      <4>1. Newest(S) \in T
        BY <2>2, <3>4, <3>5, <3>7, <3>9 DEF Rewrap
      <4> QED
        BY <2>3, <4>1
    <3> QED
      BY <3>8, <3>9
  <2> QED
    BY <2>4, <2>5
<1>2. IInv /\ IInv' /\ [Next]_vars => [A]_vars
  <2> HIDE DEF A
  <2> QED
    BY <1>1
<1> QED
  BY <1>2, Invariance, PTL DEF Spec, CollectionNeverRewinds
(***************************************************************************)
(* One generation at a time: the current epoch of a collection is wrapped  *)
(* to a single generation, which every epoch of it is wrapped to, so a     *)
(* fan-out retires exactly the generation it escrows with.                 *)
(***************************************************************************)
Wraps(d, g) == CurrentEpoch(d) = {g} /\ \A e \in DOMAIN d : g \in d[e]

OneGeneration ==
    \A k \in Collection : \E g \in 1..Len(roster) : Wraps(collection[k], g)
OneOwner(c) ==
    \A k \in Collection :
        fan[c][k].stage = "put" => fan[c][k].retire = {fan[c][k].owner}
GInv == IInv /\ OneGeneration /\ \A c \in Client : OneOwner(c)

\* Newest of one generation.
LEMMA NewestOfOne ==
    ASSUME NEW g \in Nat
    PROVE  Newest({g}) = g
<1>1. {g} \subseteq 0..g /\ {g} # {}
  OBVIOUS
<1>2. Newest({g}) \in {g}
  <2> HIDE DEF Newest
  <2> QED
    BY <1>1, NewestIs
<1> QED
  BY <1>2

\* Replacing the one generation moves the collection onto the new one.
LEMMA RotatesTo ==
    ASSUME NEW d \in Descriptor(Generation), d # <<>>, NEW g \in Generation,
           Wraps(d, g), NEW key \in Generation, key # g
    PROVE  Wraps(Recipients(d, {g}, {key}, Generation), key)
<1> DEFINE n == Len(d)
           esc == [e \in DOMAIN d |-> d[e] \cup {key}]
<1>1. n \in Nat \ {0} /\ DOMAIN d = 1..n /\ \A e \in 1..n : d[e] \subseteq Generation
  BY DEF Descriptor
<1>2. esc \in Seq(SUBSET Generation) /\ Len(esc) = n /\ DOMAIN esc = 1..n
  <2>1. esc \in [1..n -> SUBSET Generation]
    BY <1>1
  <2> QED
    BY <1>1, <2>1, SeqDef
<1>3. \A e \in 1..n : key \in esc[e]
  BY <1>1
<1> HIDE DEF esc
<1>4. {g} \cap CurrentEpoch(d) # {}
  BY DEF Wraps
<1>5. ((CurrentEpoch(d) \ {g}) \cap Generation) \cup {key} = {key}
  BY DEF Wraps
<1>6. Recipients(d, {g}, {key}, Generation) = Append(esc, {key})
  BY <1>4, <1>5 DEF Recipients, esc
<1>7. /\ Len(Append(esc, {key})) = n + 1 /\ DOMAIN Append(esc, {key}) = 1..(n + 1)
      /\ Append(esc, {key})[n + 1] = {key}
      /\ \A e \in 1..n : Append(esc, {key})[e] = esc[e]
  <2>1. {key} \in SUBSET Generation
    OBVIOUS
  <2>2. Append(esc, {key}) \in Seq(SUBSET Generation)
        /\ Len(Append(esc, {key})) = n + 1
        /\ Append(esc, {key})[n + 1] = {key}
        /\ \A e \in 1..n : Append(esc, {key})[e] = esc[e]
    BY <1>2, <2>1, AppendProperties
  <2> QED
    BY <1>1, <2>2
<1>8. \A e \in 1..(n + 1) : key \in Append(esc, {key})[e]
  BY <1>1, <1>3, <1>7
<1> QED
  BY <1>1, <1>6, <1>7, <1>8 DEF Wraps, CurrentEpoch

\* Escrowing the generation a collection is already wrapped to changes
\* nothing.
LEMMA EscrowedAlready ==
    ASSUME NEW d \in Descriptor(Generation), d # <<>>, NEW g \in Generation,
           Wraps(d, g), NEW retire, g \notin retire
    PROVE  Recipients(d, retire, {g}, Generation) = d
<1>1. retire \cap CurrentEpoch(d) = {}
  BY DEF Wraps
<1>2. Recipients(d, retire, {g}, Generation) = [e \in DOMAIN d |-> d[e] \cup {g}]
  BY <1>1 DEF Recipients
<1>3. \A e \in DOMAIN d : d[e] \cup {g} = d[e]
  BY DEF Wraps
<1>4. DOMAIN d = 1..Len(d) /\ d = [e \in DOMAIN d |-> d[e]]
  BY DEF Descriptor
<1> QED
  BY <1>2, <1>3, <1>4

\* The verdict on such a collection: retire its generation, when the roster
\* the fan-out works on wraps it to the client, or nothing.
LEMMA TaskOfOne ==
    ASSUME NEW d \in Descriptor(Generation), d # <<>>, NEW g \in Generation,
           Wraps(d, g), NEW key, NEW gens
    PROVE  CollectionTask(d, key, gens) =
             IF g \in gens \ {key}
             THEN [stage |-> "put", base |-> d, retire |-> {g}, owner |-> g,
                   attempt |-> 1]
             ELSE Done
<1>1. CASE g \in gens \ {key}
  <2>1. (gens \ {key}) \cap CurrentEpoch(d) = {g} /\ Newest({g}) = g
    BY <1>1, NewestOfOne DEF Wraps, Generation
  <2> QED
    BY <1>1, <2>1 DEF CollectionTask
<1>2. CASE g \notin gens \ {key}
  <2>1. (gens \ {key}) \cap CurrentEpoch(d) = {}
    BY <1>2 DEF Wraps
  <2>2. key \notin CurrentEpoch(d) \/ {e \in DOMAIN d : key \notin d[e]} = {}
    BY DEF Wraps
  <2> QED
    BY <1>2, <2>1, <2>2 DEF CollectionTask
<1> QED
  BY <1>1, <1>2

\* A write moves a collection onto the writer's key, newer than the
\* generation it retires, or leaves it as it is.
LEMMA PutGeneration ==
    ASSUME IInv, NEW c \in Client, OneOwner(c), NEW k \in Collection,
           PutCollection(c, k), NEW g \in Generation, Wraps(collection[k], g)
    PROVE  \/ collection' = collection
           \/ /\ g < userKey[c] /\ userKey[c] \in 1..Len(roster)
              /\ Wraps(collection'[k], userKey[c])
              /\ \A l \in Collection : l # k => collection'[l] = collection[l]
<1> DEFINE f == fan[c][k]
           key == userKey[c]
           new == Recipients(collection[k], f.retire, {key}, Generation)
<1>1. /\ TypeOK /\ FanOK(c) /\ f.retire = {f.owner}
      /\ collection[k] \in Descriptor(Generation) /\ collection[k] # <<>>
      /\ \A h \in f.retire : h < key
  BY Given DEF PutCollection, OneOwner, FanOK, TypeOK
<1>2. key \in 1..Len(roster) /\ key \in Generation
  <2>1. /\ JobOK(c) /\ job[c] \in Job /\ job[c].stage = "fanOut"
        /\ Len(roster) \in Nat
    BY Given, Lengths DEF PutCollection
  <2>2. key = Len(job[c].roster) /\ job[c].roster # <<>> /\ key <= Len(roster)
    BY <2>1 DEF JobOK, Holds
  <2>3. Len(job[c].roster) \in Nat \ {0}
    BY <2>1, <2>2 DEF Job, Descriptor
  <2> QED
    BY <2>1, <2>2, <2>3 DEF Generation
<1>3. \/ collection' = collection
      \/ /\ collection' = [collection EXCEPT ![k] = new]
         /\ CanEscrow(collection[k], {key}, f.owner)
  BY DEF PutCollection, CollectionAccepts
<1>4. ASSUME collection' = [collection EXCEPT ![k] = new],
             CanEscrow(collection[k], {key}, f.owner), g # key
      PROVE  /\ g < key /\ Wraps(collection'[k], key)
             /\ \A l \in Collection : l # k => collection'[l] = collection[l]
  <2>1. Len(collection[k]) \in DOMAIN collection[k]
    BY <1>1 DEF Descriptor
  <2>2. f.owner = g
    BY <1>4, <2>1 DEF CanEscrow, Wraps, CurrentEpoch
  <2>3. g < key /\ new = Recipients(collection[k], {g}, {key}, Generation)
    BY <1>1, <2>2
  <2>4. Wraps(Recipients(collection[k], {g}, {key}, Generation), key)
    BY <1>1, <1>2, <1>4, RotatesTo
  <2>5. collection'[k] = new
        /\ \A l \in Collection : l # k => collection'[l] = collection[l]
    BY <1>1, <1>4 DEF TypeOK
  <2> QED
    BY <2>3, <2>4, <2>5
<1>5. ASSUME collection' = [collection EXCEPT ![k] = new], g = key
      PROVE  collection' = collection
  <2>1. g \notin f.retire
    BY <1>1, <1>2, <1>5 DEF Generation
  <2>2. new = collection[k]
    BY <1>1, <1>5, <2>1, EscrowedAlready
  <2> QED
    BY <1>1, <1>5, <2>2 DEF TypeOK
<1> QED
  BY <1>2, <1>3, <1>4, <1>5

\* What a step does to the fan-outs: one starts or ends, or settles one
\* collection.
LEMMA FanMoves ==
    ASSUME IInv, [Next]_vars
    PROVE  \/ fan' = fan
           \/ \E c \in Client, t \in {ToDo, Done} :
                fan' = [fan EXCEPT ![c] = [k \in Collection |-> t]]
           \/ \E c \in Client, k \in Collection :
                ReadCollection(c, k) \/ PutCollection(c, k)
<1> DEFINE Q == \/ fan' = fan
                \/ \E c \in Client, t \in {ToDo, Done} :
                     fan' = [fan EXCEPT ![c] = [k \in Collection |-> t]]
<1>1. ASSUME NEW c \in Client, NEW d, FanOut(c, d) \/ AdoptAndFanOut(c, d) PROVE Q
  BY <1>1 DEF FanOut, AdoptAndFanOut
<1>2. ASSUME NEW c \in Client, NEW d, NEW doc, NEW go, go => Q,
             Converge(c, d, doc, go)
      PROVE  Q
  <2> HIDE DEF Q
  <2>1. go \/ fan' = fan
    BY <1>2 DEF Converge
  <2> QED
    BY <1>2, <2>1 DEF Q
<1>3. ASSUME NEW c \in Client, ConvergeToAccount(c) PROVE Q
  <2> DEFINE go == FanOut(c, job[c].roster) /\ UNCHANGED userKey
  <2>1. go => Q
    BY <1>1
  <2>2. Converge(c, job[c].roster, document, go)
    BY <1>3 DEF ConvergeToAccount
  <2> HIDE DEF go, Q
  <2> QED
    BY <1>2, <2>1, <2>2
<1>4. ASSUME NEW c \in Client, RotateRosterToDocument(c) PROVE Q
  <2> DEFINE go == AdoptAndFanOut(c, roster)
  <2>1. go => Q
    BY <1>1
  <2>2. Converge(c, roster, job[c].doc, go) \/ fan' = fan
    BY <1>4 DEF RotateRosterToDocument
  <2> HIDE DEF go, Q
  <2> QED
    BY <1>2, <2>1, <2>2 DEF Q
<1>5. ASSUME NEW c \in Client, RetireRosterRecipient(c) PROVE Q
  <2>1. AdoptAndFanOut(c, roster) \/ fan' = fan
    BY <1>5 DEF RetireRosterRecipient
  <2> HIDE DEF Q
  <2> QED
    BY <1>1, <2>1 DEF Q
<1>6. ASSUME NEW c \in Client, PutRoster(c) PROVE Q
  <2>1. fan' = fan \/ \E d : FanOut(c, d) \/ AdoptAndFanOut(c, d)
    BY <1>6 DEF PutRoster, GiveUpRoster, AfterRosterWrite, Goto, End
  <2> HIDE DEF Q
  <2> QED
    BY <1>1, <2>1 DEF Q
<1>7. ASSUME NEW c \in Client, FanOutDone(c) \/ CutShort(c) PROVE Q
  BY <1>7 DEF FanOutDone, CutShort
<1>8. ASSUME NEW c \in Client,
             \/ CheckUserKeyRosterAtLogin(c) \/ ForgetEnrolledClient(c)
             \/ EnrollWebvhClient(c) \/ ForgetWebvhClient(c)
             \/ \E t \in Client : RevokeAccountClient(c, t) \/ ApproveEnrollment(c, t)
      PROVE  fan' = fan
  BY <1>8 DEF CheckUserKeyRosterAtLogin, ForgetEnrolledClient, EnrollWebvhClient,
              ForgetWebvhClient, RevokeAccountClient, ApproveEnrollment
<1>9. UNCHANGED vars => fan' = fan
  BY DEF vars
<1> HIDE DEF Q
<1>10. \/ Q
       \/ \E c \in Client, k \in Collection :
            ReadCollection(c, k) \/ PutCollection(c, k)
  <2>1. fan' = fan => Q
    BY DEF Q
  <2>2. ASSUME NEW c \in Client, CeremonyStep(c)
        PROVE  Q \/ \E k \in Collection : ReadCollection(c, k) \/ PutCollection(c, k)
    BY <1>3, <1>4, <1>5, <1>6, <1>7, <1>8, <2>1, <2>2 DEF CeremonyStep
  <2>3. CASE Next
    <3>1. PICK c \in Client :
            \/ CheckUserKeyRosterAtLogin(c) \/ ForgetEnrolledClient(c)
            \/ CeremonyStep(c)
            \/ \E t \in Client : RevokeAccountClient(c, t) \/ ApproveEnrollment(c, t)
            \/ CutShort(c)
      BY <2>3 DEF Next
    <3> QED
      BY <1>7, <1>8, <2>1, <2>2, <3>1
  <2> QED
    BY <1>9, <2>1, <2>3
<1> QED
  BY <1>10 DEF Q

\* A fan-out that reads a collection owns the write with the generation it
\* retires.
LEMMA ReadOwner ==
    ASSUME IInv, OneGeneration, NEW c \in Client, NEW k \in Collection,
           ReadCollection(c, k), \A b \in Client : OneOwner(b)
    PROVE  \A b \in Client : OneOwner(b)'
<1> DEFINE gens == Generations(c, job[c].roster)
           key == userKey[c]
           task == CollectionTask(collection[k], key, gens)
           t == IF c \in document THEN task ELSE Done
<1>1. TypeOK /\ collection[k] \in Descriptor(Generation) /\ collection[k] # <<>>
  BY Given DEF TypeOK
<1>2. PICK g \in 1..Len(roster) : Wraps(collection[k], g)
  BY DEF OneGeneration
<1>3. g \in Generation
  BY <1>1, <1>2, Lengths DEF Generation
<1>4. fan' = [fan EXCEPT ![c][k] = t]
  BY DEF ReadCollection
<1> HIDE DEF gens, key
<1>5. task = IF g \in gens \ {key}
             THEN [stage |-> "put", base |-> collection[k], retire |-> {g},
                   owner |-> g, attempt |-> 1]
             ELSE Done
  <2>1. PICK d : d = collection[k]
    OBVIOUS
  <2>2. d \in Descriptor(Generation) /\ d # <<>> /\ Wraps(d, g)
    BY <1>1, <1>2, <2>1
  <2> HIDE DEF task
  <2>3. CollectionTask(d, key, gens) =
          IF g \in gens \ {key}
          THEN [stage |-> "put", base |-> d, retire |-> {g}, owner |-> g,
                attempt |-> 1]
          ELSE Done
    BY <1>3, <2>2, TaskOfOne
  <2> QED
    BY <2>1, <2>3 DEF task
<1>6. t.stage = "put" => t.retire = {t.owner}
  <2>1. Done.stage # "put"
    BY RestTyped
  <2> HIDE DEF task
  <2>2. CASE c \in document /\ g \in gens \ {key}
    BY <1>5, <2>2
  <2>3. CASE ~(c \in document /\ g \in gens \ {key})
    BY <1>5, <2>1, <2>3
  <2> QED
    BY <2>2, <2>3
<1> HIDE DEF t
<1>7. /\ fan'[c][k] = t
      /\ \A b \in Client, l \in Collection : b # c \/ l # k => fan'[b][l] = fan[b][l]
  BY <1>1, <1>4 DEF TypeOK
<1>8. ASSUME NEW b \in Client, NEW l \in Collection, fan'[b][l].stage = "put"
      PROVE  fan'[b][l].retire = {fan'[b][l].owner}
  <2>1. CASE b = c /\ l = k
    BY <1>6, <1>7, <1>8, <2>1
  <2>2. CASE b # c \/ l # k
    BY <1>7, <1>8, <2>2 DEF OneOwner
  <2> QED
    BY <2>1, <2>2
<1> QED
  BY <1>8 DEF OneOwner

\* A write that is tried again keeps what it retires.
LEMMA PutOwner ==
    ASSUME IInv, NEW c \in Client, NEW k \in Collection, PutCollection(c, k),
           \A b \in Client : OneOwner(b)
    PROVE  \A b \in Client : OneOwner(b)'
<1> DEFINE f == fan[c][k]
           again == [f EXCEPT !.base = collection[k], !.attempt = f.attempt + 1]
<1>1. TypeOK /\ f \in Task /\ f.stage = "put" /\ f.retire = {f.owner}
  BY Given, Lengths DEF PutCollection, OneOwner
<1>2. fan' = [fan EXCEPT ![c][k] = Done] \/ fan' = [fan EXCEPT ![c][k] = again]
  BY DEF PutCollection
<1>3. again.retire = f.retire /\ again.owner = f.owner
  BY <1>1 DEF Task
<1> HIDE DEF again
<1>4. PICK t \in {Done, again} : fan' = [fan EXCEPT ![c][k] = t]
  BY <1>2
<1>5. t.stage = "put" => t.retire = {t.owner}
  BY <1>1, <1>3, <1>4, RestTyped
<1>6. /\ fan'[c][k] = t
      /\ \A b \in Client, l \in Collection : b # c \/ l # k => fan'[b][l] = fan[b][l]
  BY <1>1, <1>4 DEF TypeOK
<1>7. ASSUME NEW b \in Client, NEW l \in Collection, fan'[b][l].stage = "put"
      PROVE  fan'[b][l].retire = {fan'[b][l].owner}
  <2>1. CASE b = c /\ l = k
    BY <1>5, <1>6, <1>7, <2>1
  <2>2. CASE b # c \/ l # k
    BY <1>6, <1>7, <2>2 DEF OneOwner
  <2> QED
    BY <2>1, <2>2
<1> QED
  BY <1>7 DEF OneOwner

\* No step leaves a collection wrapped to two generations.
LEMMA GenerationStep ==
    ASSUME GInv, [Next]_vars
    PROVE  GInv'
<1>1. /\ IInv /\ IInv' /\ TypeOK /\ OneGeneration
      /\ \A c \in Client : OneOwner(c)
  BY NextInv, Given DEF GInv
<1>2. ASSUME NEW k \in Collection PROVE \E g : Wraps(collection'[k], g)
  <2>1. PICK g \in 1..Len(roster) : Wraps(collection[k], g)
    BY <1>1 DEF OneGeneration
  <2>2. CASE collection'[k] = collection[k]
    BY <2>1, <2>2
  <2>3. CASE collection'[k] # collection[k]
    <3>1. PICK c \in Client, l \in Collection : PutCollection(c, l)
      BY <2>3, OnlyPuts
    <3>2. PICK h \in 1..Len(roster) : Wraps(collection[l], h)
      BY <1>1 DEF OneGeneration
    <3>3. h \in Generation /\ OneOwner(c)
      BY <1>1, <3>2, Lengths DEF Generation
    <3>4. \/ collection' = collection
          \/ /\ Wraps(collection'[l], userKey[c])
             /\ \A m \in Collection : m # l => collection'[m] = collection[m]
      <4> HIDE DEF Wraps
      <4> QED
        BY <1>1, <3>1, <3>2, <3>3, PutGeneration
    <3> QED
      BY <2>3, <3>4
  <2> QED
    BY <2>2, <2>3
<1>3. OneGeneration'
  <2>1. ASSUME NEW k \in Collection PROVE \E g \in 1..Len(roster') : Wraps(collection'[k], g)
    <3>1. PICK g : Wraps(collection'[k], g)
      BY <1>2
    <3>2. /\ collection'[k] \in Descriptor(Generation) /\ collection'[k] # <<>>
          /\ \A e \in DOMAIN collection'[k] : collection'[k][e] \subseteq 1..Len(roster')
      BY <1>1 DEF IInv, Core, TypeOK, CollectionOK
    <3>3. Len(collection'[k]) \in DOMAIN collection'[k]
      BY <3>2 DEF Descriptor
    <3> QED
      BY <3>1, <3>2, <3>3 DEF Wraps
  <2> QED
    BY <2>1 DEF OneGeneration, Wraps, CurrentEpoch
<1>4. \A c \in Client : OneOwner(c)'
  <2>1. CASE fan' = fan
    BY <1>1, <2>1 DEF OneOwner
  <2>2. ASSUME NEW c \in Client, NEW t \in {ToDo, Done},
               fan' = [fan EXCEPT ![c] = [k \in Collection |-> t]]
        PROVE  \A b \in Client : OneOwner(b)'
    <3>1. t.stage # "put"
      BY <2>2, RestTyped
    <3>2. /\ \A k \in Collection : fan'[c][k] = t
          /\ \A b \in Client \ {c} : fan'[b] = fan[b]
      BY <1>1, <2>2 DEF TypeOK
    <3> QED
      BY <1>1, <3>1, <3>2 DEF OneOwner
  <2>3. ASSUME NEW c \in Client, NEW k \in Collection,
               ReadCollection(c, k) \/ PutCollection(c, k)
        PROVE  \A b \in Client : OneOwner(b)'
    BY <1>1, <2>3, ReadOwner, PutOwner
  <2> QED
    BY <1>1, <2>1, <2>2, <2>3, FanMoves
<1> QED
  BY <1>1, <1>3, <1>4 DEF GInv

\* A provisioned account's collections are wrapped to generation 1.
LEMMA GenerationInit == Init => GInv
<1> SUFFICES ASSUME Init PROVE GInv
  OBVIOUS
<1>1. IInv
  BY InitInv
<1>2. OneGeneration
  <2>1. Len(roster) = 1 /\ 1 \in 1..Len(roster)
    BY DEF Init
  <2>2. ASSUME NEW k \in Collection PROVE Wraps(collection[k], 1)
    BY DEF Init, Wraps, CurrentEpoch
  <2> QED
    BY <2>1, <2>2 DEF OneGeneration
<1>3. \A c \in Client : OneOwner(c)
  BY RestTyped DEF Init, OneOwner
<1> QED
  BY <1>1, <1>2, <1>3 DEF GInv

\* It holds throughout.
LEMMA GenerationInvariance == Spec => []GInv
  BY GenerationInit, GenerationStep, PTL DEF Spec

\* Every collection is on one generation of the user key at a time
\* (rotateCollectionEpochsToUserKey), and its holder opens the whole of it:
\* whichever fan-outs race, the current epoch is wrapped to a single
\* generation, which every earlier epoch is wrapped to as well. The branch
\* that escrows into a current epoch already on the key therefore never has
\* anything to write.
THEOREM OneGenerationAtATime == Spec => []OneGeneration
<1>1. GInv => OneGeneration
  BY DEF GInv
<1> QED
  BY <1>1, GenerationInvariance, PTL

(***************************************************************************)
(* One client does all the revoking, and nobody enrolls or forgets itself. *)
(***************************************************************************)
\* The removed clients the current generation is still wrapped to.
Lagging == removed \cap CurrentEpoch(roster)

\* The document keeps the revoker, and the roster is ahead of no document:
\* it wraps to the document's clients and to removed ones, no others.
Members(r) ==
    /\ document \cap removed = {} /\ (removed # {} => r \in document)
    /\ document \subseteq CurrentEpoch(roster)
    /\ CurrentEpoch(roster) \subseteq document \cup removed

\* Where a client's ceremony can be, and what a sign-in or a revocation about
\* to write has decided: to drop one client that no document since has keyed.
Dropping(j, doc) ==
    /\ doc \subseteq j.doc /\ j.incoming = {}
    /\ \E s \in Client : j.retire = {s} /\ s \notin j.doc
Place(r, c, j) ==
    \/ j.op = "none" /\ j.stage = "idle"
    \/ j.op = "signIn" /\ j.stage \in {"verify", "put", "fanOut"}
    \/ c = r /\ j.op = "revoke" /\ j.stage \in {"converge", "put", "fanOut"}
Seen(r, c, j, doc) ==
    /\ Place(r, c, j)
    /\ j.stage = "verify" => doc \subseteq CurrentEpoch(j.roster)
    /\ j.stage = "put" => Dropping(j, doc)

\* One removed client at most is still wrapped, and only while the revoker is
\* on its way to drop it.
Catching(j) == j.op = "revoke" /\ j.stage \in {"converge", "put"}
Waits(r) ==
    /\ \A y, z \in Lagging : y = z
    /\ Lagging # {} => Catching(job[r])

\* The revoker's tail works on the document as it still is; the roster it
\* read changes under it only once, when another drops the client first, and
\* its fan-out runs on the roster as it still is.
Current(r) ==
    /\ Catching(job[r]) => job[r].doc = document /\ r \in document
    /\ Catching(job[r]) /\ job[r].stage = "put" =>
         /\ Lagging \subseteq job[r].retire
         /\ job[r].base # roster => Lagging = {} /\ job[r].attempt <= 1
         /\ job[r].attempt > 1 => Lagging = {}
    /\ job[r].op = "revoke" /\ job[r].stage = "fanOut" =>
         userKey[r] = Len(roster) /\ job[r].roster = roster /\ r \in document

\* A collection is one generation behind at most, and then the revoker has
\* yet to bring it up: it is before its fan-out, or has yet to read the
\* collection, or holds a write that nothing can overtake.
Behind(r, k, g) ==
    /\ g + 1 = Len(roster) /\ Lagging = {}
    /\ \/ Catching(job[r])
       \/ /\ job[r].op = "revoke" /\ job[r].stage = "fanOut"
          /\ \/ fan[r][k].stage = "todo"
             \/ /\ fan[r][k].stage = "put" /\ fan[r][k].owner = g
                /\ fan[r][k].base = collection[k]
Settling(r) ==
    \A k \in Collection : \E g \in 1..Len(roster) :
        Wraps(collection[k], g) /\ (g = Len(roster) \/ Behind(r, k, g))

Mine(r) == Waits(r) /\ Current(r) /\ Settling(r)
Lone(r) ==
    Members(r) /\ Mine(r) /\ \A c \in Client : Seen(r, c, job[c], document)

\* The step is client c's, and no other client's.
Alone(c) ==
    \A b \in Client \ {c} :
        job'[b] = job[b] /\ userKey'[b] = userKey[b] /\ fan'[b] = fan[b]

\* A document that loses clients keeps what the ceremonies have seen.
LEMMA SeenFewer ==
    ASSUME NEW r, NEW c, NEW j, NEW doc, Seen(r, c, j, doc), NEW less,
           less \subseteq doc
    PROVE  Seen(r, c, j, less)
<1> HIDE DEF Place
<1> QED
  BY DEF Seen, Dropping

\* A step of another client that leaves what is shared as it was does not
\* touch the revoker's part.
LEMMA MineStays ==
    ASSUME NEW r \in Client, Mine(r), job'[r] = job[r], userKey'[r] = userKey[r],
           fan'[r] = fan[r], UNCHANGED <<document, removed, roster, collection>>
    PROVE  Mine(r)'
<1>1. Lagging' = Lagging
  BY DEF Lagging, CurrentEpoch
<1>2. Waits(r)'
  BY <1>1 DEF Mine, Waits, Catching
<1>3. Current(r)'
  BY <1>1 DEF Mine, Current, Catching
<1>4. Settling(r)'
  BY <1>1 DEF Mine, Settling, Behind, Catching, Wraps, CurrentEpoch
<1> QED
  BY <1>2, <1>3, <1>4 DEF Mine

\* While the revoker is not revoking, every collection is on the current
\* generation and nobody lags.
LEMMA AtRest ==
    ASSUME NEW r \in Client, Mine(r), job[r].op # "revoke"
    PROVE  Lagging = {} /\ \A k \in Collection : Wraps(collection[k], Len(roster))
<1>1. Lagging = {}
  BY DEF Mine, Waits, Catching
<1>2. \A k \in Collection, g \in 1..Len(roster) : ~Behind(r, k, g)
  BY DEF Behind, Catching
<1> HIDE DEF Wraps
<1>3. \A k \in Collection : Wraps(collection[k], Len(roster))
  BY <1>2 DEF Mine, Settling
<1> QED
  BY <1>1, <1>3

\* And the revoker's part is as it should be.
LEMMA RestingMine ==
    ASSUME NEW r \in Client, IInv, Lagging' = {}, roster' = roster,
           \A k \in Collection : Wraps(collection'[k], Len(roster)),
           job'[r].op # "revoke"
    PROVE  Mine(r)'
<1>1. Waits(r)'
  BY DEF Waits
<1>2. Current(r)'
  BY DEF Current, Catching
<1>3. Len(roster) \in 1..Len(roster)
  BY Given, Lengths
<1>4. Settling(r)'
  <2>1. ASSUME NEW k \in Collection
        PROVE  \E g \in 1..Len(roster') :
                 Wraps(collection'[k], g) /\ (g = Len(roster') \/ Behind(r, k, g)')
    BY <1>3
  <2> QED
    BY <2>1 DEF Settling, Wraps, CurrentEpoch
<1> QED
  BY <1>1, <1>2, <1>4 DEF Mine

\* Put together: a step of client c that leaves what is shared as it was.
LEMMA QuietStep ==
    ASSUME IInv, NEW r \in Client, Lone(r), NEW c \in Client, Alone(c),
           UNCHANGED <<document, removed, roster, collection>>,
           Seen(r, c, job'[c], document), c = r => Mine(r)'
    PROVE  Lone(r)'
<1>1. Members(r)'
  BY DEF Lone, Members, CurrentEpoch
<1>2. Mine(r)'
  BY MineStays DEF Lone, Alone
<1>3. ASSUME NEW b \in Client PROVE Seen(r, b, job'[b], document')
  <2> HIDE DEF Seen
  <2> QED
    BY DEF Lone, Alone
<1>4. ASSUME NEW b \in Client PROVE Seen(r, b, job[b], document)'
  <2>1. Seen(r, b, job'[b], document') = Seen(r, b, job[b], document)'
    BY DEF Seen, Place, Dropping, CurrentEpoch
  <2> QED
    BY <1>3, <2>1
<1> QED
  BY <1>1, <1>2, <1>4 DEF Lone

\* The same when client c is not revoking before or after.
LEMMA UnrevokingStep ==
    ASSUME IInv, NEW r \in Client, Lone(r), NEW c \in Client, Alone(c),
           UNCHANGED <<document, removed, roster, collection>>,
           Seen(r, c, job'[c], document), job[c].op # "revoke",
           job'[c].op # "revoke"
    PROVE  Lone(r)'
<1>1. ASSUME c = r PROVE Mine(r)'
  <2>1. Lagging = {} /\ \A k \in Collection : Wraps(collection[k], Len(roster))
    BY <1>1, AtRest DEF Lone
  <2>2. Lagging' = {} /\ \A k \in Collection : Wraps(collection'[k], Len(roster))
    BY <2>1 DEF Lagging, CurrentEpoch
  <2> HIDE DEF Wraps
  <2> QED
    BY <1>1, <2>2, RestingMine
<1> QED
  BY <1>1, QuietStep

\* What Converge decides for a document the roster is not behind: go on, end
\* where the document keys nobody, or drop one client it does not key.
PutJob(j, d, doc, s) ==
    [j EXCEPT !.stage = "put", !.doc = doc, !.base = d, !.roster = d,
              !.retire = {s}, !.incoming = {}, !.attempt = 1]

LEMMA ConvergeTo ==
    ASSUME NEW c \in Client, NEW d, NEW doc, doc \subseteq CurrentEpoch(d),
           NEW go, Converge(c, d, doc, go)
    PROVE  \/ CurrentEpoch(d) \subseteq doc /\ go
           \/ doc = {} /\ End(c) /\ UNCHANGED <<userKey, fan>>
           \/ \E s \in CurrentEpoch(d) \ doc :
                /\ job' = [job EXCEPT ![c] = PutJob(job[c], d, doc, s)]
                /\ UNCHANGED <<userKey, fan>>
<1> DEFINE drift == UserKeyRosterDrift(d, doc)
<1>1. drift.stale = CurrentEpoch(d) \ doc /\ drift.unwrapped = {}
  BY DEF UserKeyRosterDrift
<1>2. CASE drift.stale = {}
  BY <1>1, <1>2 DEF Converge
<1>3. CASE drift.stale # {} /\ CurrentEpoch(d) = drift.stale
  BY <1>1, <1>3 DEF Converge
<1>4. CASE drift.stale # {} /\ CurrentEpoch(d) # drift.stale
  <2>1. /\ \E retire \in {{s} : s \in drift.stale} :
             job' = [job EXCEPT ![c] = [@ EXCEPT !.stage = "put",
                         !.doc = doc, !.base = d, !.roster = d,
                         !.retire = retire, !.incoming = drift.unwrapped,
                         !.attempt = 1]]
        /\ UNCHANGED <<userKey, fan>>
    BY <1>1, <1>4 DEF Converge
  <2> QED
    BY <1>1, <2>1 DEF PutJob
<1> QED
  BY <1>2, <1>3, <1>4

\* The job such a decision leaves.
LEMMA PutJobIs ==
    ASSUME NEW j \in Job, NEW d, NEW doc, NEW s \in Client, s \notin doc
    PROVE  LET p == PutJob(j, d, doc, s)
           IN /\ p.op = j.op /\ p.stage = "put" /\ Dropping(p, doc)
              /\ p.doc = doc /\ p.base = d /\ p.retire = {s} /\ p.attempt = 1
  BY DEF PutJob, Job, Dropping

\* The job a fan-out starts with.
LEMMA FanOutJobIs ==
    ASSUME NEW r, NEW c, NEW j \in Job, NEW d, NEW doc,
           j.op = "signIn" \/ (c = r /\ j.op = "revoke")
    PROVE  LET p == [j EXCEPT !.stage = "fanOut", !.roster = d]
           IN /\ Seen(r, c, p, doc) /\ p.op = j.op /\ p.stage = "fanOut"
              /\ p.roster = d
  BY DEF Job, Seen, Place

\* A client at rest has seen nothing that can go stale.
LEMMA IdleSeen ==
    ASSUME NEW r, NEW c, NEW doc
    PROVE  Seen(r, c, Idle, doc)
  BY DEF Idle, Seen, Place

\* A client's ceremony by its stage.
LEMMA Places ==
    ASSUME NEW r \in Client, Lone(r), NEW c \in Client
    PROVE  /\ Seen(r, c, job[c], document)
           /\ job[c].stage = "idle" => job[c].op = "none"
           /\ job[c].stage = "verify" => job[c].op = "signIn"
           /\ job[c].stage = "converge" => c = r /\ job[c].op = "revoke"
           /\ job[c].stage \in {"put", "fanOut"} =>
                job[c].op = "signIn" \/ (c = r /\ job[c].op = "revoke")
           /\ job[c].stage \notin {"retire", "publish", "remove"}
           /\ job[c].op # "forget"
  BY DEF Lone, Seen, Place

\* checkUserKeyRosterAtLogin takes the roster as it is.
LEMMA LoneLogin ==
    ASSUME GInv, NEW r \in Client, Lone(r), NEW c \in Client,
           CheckUserKeyRosterAtLogin(c)
    PROVE  Lone(r)'
<1> DEFINE j == [Idle EXCEPT !.op = "signIn", !.stage = "verify", !.roster = roster]
<1>1. /\ job[c].stage = "idle" /\ job' = [job EXCEPT ![c] = j]
      /\ userKey' = [userKey EXCEPT ![c] = Len(roster)]
      /\ UNCHANGED <<document, removed, roster, collection, fan>>
  BY DEF CheckUserKeyRosterAtLogin
<1>2. IInv /\ TypeOK
  BY Given DEF GInv
<1>3. j.op = "signIn" /\ j.stage = "verify" /\ j.roster = roster
  BY DEF Idle
<1> HIDE DEF j
<1>4. job'[c] = j /\ Alone(c)
  BY <1>1, <1>2 DEF TypeOK, Alone
<1>5. job[c].op # "revoke"
  BY <1>1, Places
<1>6. document \subseteq CurrentEpoch(roster)
  BY DEF Lone, Members
<1>7. Seen(r, c, j, document)
  BY <1>3, <1>6 DEF Seen, Place
<1> QED
  BY <1>1, <1>2, <1>3, <1>4, <1>5, <1>7, UnrevokingStep

\* convergeUserKeyRosterToAccount decides on a roster that wraps to every
\* client the document keys.
LEMMA LoneVerify ==
    ASSUME GInv, NEW r \in Client, Lone(r), NEW c \in Client, ConvergeToAccount(c)
    PROVE  Lone(r)'
<1> DEFINE j == job[c]
           d == job[c].roster
           go == FanOut(c, d) /\ UNCHANGED userKey
<1>1. /\ j.stage = "verify" /\ Converge(c, d, document, go)
      /\ UNCHANGED <<document, removed, roster, collection>>
  BY DEF ConvergeToAccount
<1>2. IInv /\ TypeOK /\ j \in Job
  BY Given, Lengths DEF GInv
<1>3. j.op = "signIn" /\ Seen(r, c, j, document)
  BY <1>1, Places
<1>4. document \subseteq CurrentEpoch(d) /\ j.op # "revoke"
  BY <1>1, <1>3 DEF Seen
<1>5. ASSUME NEW p, job' = [job EXCEPT ![c] = p], Seen(r, c, p, document),
             p.op # "revoke", Alone(c)
      PROVE  Lone(r)'
  <2>1. job'[c] = p
    BY <1>2, <1>5 DEF TypeOK
  <2> QED
    BY <1>1, <1>2, <1>4, <1>5, <2>1, UnrevokingStep
<1>6. CASE go
  <2> DEFINE p == [j EXCEPT !.stage = "fanOut", !.roster = d]
  <2>1. job' = [job EXCEPT ![c] = p] /\ Alone(c)
    BY <1>2, <1>6 DEF FanOut, TypeOK, Alone
  <2>2. Seen(r, c, p, document) /\ p.op = "signIn"
    BY <1>2, <1>3, FanOutJobIs
  <2> HIDE DEF p
  <2> QED
    BY <1>5, <2>1, <2>2
<1>7. CASE End(c) /\ UNCHANGED <<userKey, fan>>
  <2>1. job' = [job EXCEPT ![c] = Idle] /\ Alone(c) /\ Idle.op # "revoke"
    BY <1>2, <1>7 DEF End, TypeOK, Alone, Idle
  <2> QED
    BY <1>5, <2>1, IdleSeen
<1>8. ASSUME NEW s \in CurrentEpoch(d) \ document, UNCHANGED <<userKey, fan>>,
             job' = [job EXCEPT ![c] = PutJob(j, d, document, s)]
      PROVE  Lone(r)'
  <2>1. s \in Client
    <3>1. JobOK(c) /\ Holds(j)
      BY <1>1, <1>2, Given DEF Holds
    <3>2. d # <<>> /\ d \in Seq(SUBSET Client)
      BY <1>2, <3>1 DEF JobOK, Job, Descriptor
    <3> QED
      BY <3>2 DEF CurrentEpoch
  <2>2. PICK p : p = PutJob(j, d, document, s)
    OBVIOUS
  <2>3. Seen(r, c, p, document) /\ p.op = "signIn"
    <3>1. j \in Job /\ s \notin document
      BY <1>2, <1>8
    <3>2. p.op = j.op /\ p.stage = "put" /\ Dropping(p, document)
      <4> HIDE DEF j, d
      <4> QED
        BY <2>1, <2>2, <3>1, PutJobIs
    <3> QED
      BY <1>3, <3>2 DEF Seen, Place
  <2>4. job' = [job EXCEPT ![c] = p] /\ Alone(c)
    BY <1>2, <1>8, <2>2 DEF TypeOK, Alone
  <2> QED
    BY <1>5, <2>3, <2>4
<1> HIDE DEF go, d
<1> QED
  BY <1>1, <1>4, <1>6, <1>7, <1>8, ConvergeTo

\* revokeWebvhClient: the revoker is not revoking yet, so nobody lags but the
\* client it removes, if the roster still wraps to it.
LEMMA LoneRevoke ==
    ASSUME GInv, NEW r \in Client, Sole(r), Lone(r), NEW c \in Client,
           NEW t \in Client, RevokeAccountClient(c, t)
    PROVE  Lone(r)'
<1> DEFINE j == [Idle EXCEPT !.op = "revoke", !.stage = "converge",
                             !.doc = document \ {t}]
<1>1. /\ job[c].stage = "idle" /\ c \in document \cap setup.revokers /\ t # c
      /\ job' = [job EXCEPT ![c] = j]
      /\ document' = document \ {t} /\ removed' = removed \cup {t}
      /\ UNCHANGED <<roster, collection, userKey, fan>>
  BY DEF RevokeAccountClient
<1>2. c = r /\ IInv /\ TypeOK /\ job[r].op # "revoke"
  BY <1>1, Given, Places DEF Sole, GInv
<1>3. j.op = "revoke" /\ j.stage = "converge" /\ j.doc = document \ {t}
  BY DEF Idle
<1> HIDE DEF j
<1>4. job'[r] = j /\ Alone(r)
  BY <1>1, <1>2 DEF TypeOK, Alone
<1>5. Lagging = {} /\ \A k \in Collection : Wraps(collection[k], Len(roster))
  BY <1>2, AtRest DEF Lone
<1>6. Members(r)'
  BY <1>1, <1>2 DEF Lone, Members, CurrentEpoch
<1>7. Lagging' \subseteq {t}
  BY <1>1, <1>5 DEF Lagging, CurrentEpoch
<1>8. Waits(r)'
  BY <1>3, <1>4, <1>7 DEF Waits, Catching
<1>9. Current(r)'
  BY <1>1, <1>2, <1>3, <1>4 DEF Current, Catching
<1>10. Settling(r)'
  <2>1. Len(roster) \in 1..Len(roster)
    BY <1>2, Given, Lengths
  <2> QED
    BY <1>1, <1>5, <2>1 DEF Settling, Wraps, CurrentEpoch
<1>11. ASSUME NEW b \in Client PROVE Seen(r, b, job[b], document)'
  <2>1. Seen(r, b, job'[b], document')
    <3>1. CASE b = r
      BY <1>3, <1>4, <3>1 DEF Seen, Place
    <3>2. CASE b # r
      <4>1. job'[b] = job[b] /\ Seen(r, b, job[b], document)
        BY <1>4, <3>2, Places DEF Alone
      <4> QED
        BY <1>1, <4>1, SeenFewer
    <3> QED
      BY <3>1, <3>2
  <2>2. Seen(r, b, job'[b], document') = Seen(r, b, job[b], document)'
    BY DEF Seen, Place, Dropping, CurrentEpoch
  <2> QED
    BY <2>1, <2>2
<1> QED
  BY <1>6, <1>8, <1>9, <1>10, <1>11 DEF Lone, Mine

\* A client the document and the current epoch have can adopt the roster's
\* key, and its fan-out over the roster starts.
LEMMA Adopts ==
    ASSUME GInv, NEW r \in Client, Lone(r), NEW c \in Client, NEW d,
           c \in CurrentEpoch(d), job[c].stage \in {"converge", "put"},
           AdoptAndFanOut(c, d)
    PROVE  /\ Alone(c)
           /\ job'[c].op = job[c].op /\ job'[c].stage = "fanOut"
           /\ job'[c].roster = d /\ userKey'[c] = Len(d)
           /\ \A k \in Collection : fan'[c][k].stage = "todo"
           /\ \A doc : Seen(r, c, job'[c], doc)
<1>1. IInv /\ TypeOK /\ job[c] \in Job
  BY Given, Lengths DEF GInv
<1>2. /\ job[c].op = "signIn" \/ (c = r /\ job[c].op = "revoke")
      /\ job[c].op # "forget"
  BY Places
<1>3. CanAdopt(c, d)
  BY <1>2 DEF CanAdopt, ReadBackKey
<1>4. /\ userKey' = [userKey EXCEPT ![c] = Len(d)]
      /\ job' = [job EXCEPT ![c] = [@ EXCEPT !.stage = "fanOut", !.roster = d]]
      /\ fan' = [fan EXCEPT ![c] = [k \in Collection |-> ToDo]]
  BY <1>3 DEF AdoptAndFanOut, FanOut
<1>5. PICK p : p = [job[c] EXCEPT !.stage = "fanOut", !.roster = d]
  OBVIOUS
<1>6. /\ Alone(c) /\ job'[c] = p /\ userKey'[c] = Len(d)
      /\ fan'[c] = [k \in Collection |-> ToDo]
  BY <1>1, <1>4, <1>5 DEF TypeOK, Alone
<1>7. /\ p.op = job[c].op /\ p.stage = "fanOut" /\ p.roster = d
  BY <1>1, <1>5 DEF Job
<1>8. \A doc : Seen(r, c, p, doc)
  BY <1>2, <1>7 DEF Seen, Place
<1> QED
  BY <1>6, <1>7, <1>8, RestTyped

\* The revoker's fan-out over the roster as it is starts where nobody lags and
\* no collection is more than a generation behind.
LEMMA StartsTail ==
    ASSUME IInv', NEW r \in Client, Lagging' = {}, r \in document',
           job'[r].op = "revoke", job'[r].stage = "fanOut",
           job'[r].roster = roster', userKey'[r] = Len(roster'),
           \A k \in Collection : fan'[r][k].stage = "todo",
           \A k \in Collection : \E g \in 1..Len(roster') :
               Wraps(collection'[k], g) /\ (g = Len(roster') \/ g + 1 = Len(roster'))
    PROVE  Mine(r)'
<1>1. Waits(r)'
  BY DEF Waits
<1>2. Current(r)'
  BY DEF Current, Catching
<1>3. Settling(r)'
  BY DEF Settling, Behind, Catching, Wraps, CurrentEpoch
<1> QED
  BY <1>1, <1>2, <1>3 DEF Mine

\* Every collection is on the current generation or one behind.
LEMMA OneBehind ==
    ASSUME NEW r \in Client, Mine(r)
    PROVE  \A k \in Collection : \E g \in 1..Len(roster) :
               Wraps(collection[k], g) /\ (g = Len(roster) \/ g + 1 = Len(roster))
<1> HIDE DEF Wraps
<1> QED
  BY DEF Mine, Settling, Behind

\* rotateRosterToDocumentAndCascade decides on the roster as it is and the
\* document its own edit left, which nobody has changed since.
LEMMA LoneRotate ==
    ASSUME GInv, NEW r \in Client, Lone(r), NEW c \in Client,
           RotateRosterToDocument(c)
    PROVE  Lone(r)'
<1> DEFINE go == AdoptAndFanOut(c, roster)
<1>1. /\ job[c].stage = "converge"
      /\ UNCHANGED <<document, removed, roster, collection, setup, edits, crashes>>
  BY DEF RotateRosterToDocument
<1>2. IInv /\ TypeOK /\ job[c] \in Job /\ roster \in Descriptor(Client)
      /\ document \subseteq Client /\ IInv'
  <2>1. IInv /\ [Next]_vars
    BY DEF GInv, Next, CeremonyStep
  <2> QED
    BY <2>1, Given, Lengths, NextInv DEF TypeOK
<1>3. c = r /\ job[r].op = "revoke" /\ Catching(job[r])
  BY <1>1, Places DEF Catching
<1>4. /\ job[r].doc = document /\ r \in document /\ Members(r) /\ Mine(r)
      /\ \A y, z \in Lagging : y = z
  BY <1>3 DEF Lone, Mine, Current, Waits
<1>5. Converge(r, roster, document, go)
  BY <1>3, <1>4 DEF RotateRosterToDocument
<1>6. /\ document \subseteq CurrentEpoch(roster)
      /\ CurrentEpoch(roster) \subseteq document \cup removed
      /\ document \cap removed = {}
  BY <1>4 DEF Members
<1>7. CASE CurrentEpoch(roster) \subseteq document /\ go
  <2>1. /\ Alone(r) /\ job'[r].op = "revoke" /\ job'[r].stage = "fanOut"
        /\ job'[r].roster = roster /\ userKey'[r] = Len(roster)
        /\ \A k \in Collection : fan'[r][k].stage = "todo"
        /\ \A doc : Seen(r, r, job'[r], doc)
    BY <1>1, <1>3, <1>4, <1>6, <1>7, Adopts
  <2>2. Lagging' = {}
    BY <1>1, <1>6, <1>7 DEF Lagging, CurrentEpoch
  <2>3. \A k \in Collection : \E g \in 1..Len(roster') :
            Wraps(collection'[k], g) /\ (g = Len(roster') \/ g + 1 = Len(roster'))
    BY <1>1, <1>4, OneBehind DEF Wraps, CurrentEpoch
  <2>4. Mine(r)'
    BY <1>1, <1>2, <1>4, <2>1, <2>2, <2>3, StartsTail
  <2> QED
    BY <1>1, <1>2, <1>3, <2>1, <2>4, QuietStep
<1>8. CASE document = {}
  BY <1>4, <1>8
<1>9. ASSUME NEW s \in CurrentEpoch(roster) \ document, UNCHANGED <<userKey, fan>>,
             job' = [job EXCEPT ![r] = PutJob(job[r], roster, document, s)]
      PROVE  Lone(r)'
  <2>1. s \in Client /\ s \in Lagging
    <3>1. CurrentEpoch(roster) \subseteq Client
      BY <1>2, Lengths DEF TypeOK, Descriptor, CurrentEpoch
    <3> QED
      BY <1>6, <3>1 DEF Lagging
  <2>2. PICK p : p = PutJob(job[r], roster, document, s)
    OBVIOUS
  <2>3. /\ p.op = "revoke" /\ p.stage = "put" /\ Dropping(p, document)
        /\ p.doc = document /\ p.base = roster /\ p.retire = {s} /\ p.attempt = 1
    BY <1>2, <1>3, <2>1, <2>2, PutJobIs
  <2>4. job'[r] = p /\ Alone(r)
    BY <1>2, <1>9, <2>2 DEF TypeOK, Alone
  <2>5. Seen(r, r, p, document)
    BY <2>3 DEF Seen, Place
  <2>6. Lagging' = Lagging /\ Lagging \subseteq {s}
    BY <1>1, <1>4, <2>1 DEF Lagging, CurrentEpoch
  <2>7. Waits(r)'
    BY <1>4, <2>3, <2>4, <2>6 DEF Waits, Catching
  <2>8. Current(r)'
    BY <1>1, <1>4, <2>3, <2>4, <2>6 DEF Current, Catching
  <2>9. Settling(r)'
    <3>1. Settling(r) /\ Catching(job[r]) /\ Catching(p)
      BY <1>3, <1>4, <2>3 DEF Mine, Catching
    <3> QED
      BY <1>1, <2>4, <2>6, <3>1 DEF Settling, Behind, Wraps, CurrentEpoch, Catching
  <2>10. Mine(r)'
    BY <2>7, <2>8, <2>9 DEF Mine
  <2> QED
    BY <1>1, <1>2, <1>3, <2>4, <2>5, <2>10, QuietStep
<1> HIDE DEF go
<1>10. \/ CurrentEpoch(roster) \subseteq document /\ go
       \/ document = {} /\ End(r) /\ UNCHANGED <<userKey, fan>>
       \/ \E s \in CurrentEpoch(roster) \ document :
            /\ job' = [job EXCEPT ![r] = PutJob(job[r], roster, document, s)]
            /\ UNCHANGED <<userKey, fan>>
  BY <1>5, <1>6, ConvergeTo
<1> QED
  BY <1>7, <1>8, <1>9, <1>10

\* Retiring one recipient leaves a descriptor that does not have it as it is,
\* and gives any other a fresh epoch for the survivors.
Retired(d, s, doc, new) ==
    /\ s \notin CurrentEpoch(d) => new = d
    /\ s \in CurrentEpoch(d) =>
         /\ Len(new) = Len(d) + 1
         /\ CurrentEpoch(new) = (CurrentEpoch(d) \ {s}) \cap doc

\* So it does.
LEMMA RetiresOne ==
    ASSUME NEW d \in Descriptor(Client), d # <<>>, NEW s, NEW doc
    PROVE  Retired(d, s, doc, Recipients(d, {s}, {}, doc))
<1> USE DEF Retired
<1> DEFINE new == Recipients(d, {s}, {}, doc)
           esc == [e \in DOMAIN d |-> d[e] \cup {}]
<1>1. esc = d
  <2>1. d = [e \in DOMAIN d |-> d[e]]
    BY DEF Descriptor
  <2>2. \A e \in DOMAIN d : d[e] \cup {} = d[e]
    OBVIOUS
  <2> QED
    BY <2>1, <2>2
<1>2. new = IF {s} \cap CurrentEpoch(d) = {} THEN d
            ELSE Append(d, ((CurrentEpoch(d) \ {s}) \cap doc) \cup {})
  BY <1>1 DEF Recipients
<1>3. CASE s \notin CurrentEpoch(d)
  BY <1>2, <1>3
<1>4. CASE s \in CurrentEpoch(d)
  <2>1. PICK E : E = (CurrentEpoch(d) \ {s}) \cap doc
    OBVIOUS
  <2>2. new = Append(d, E)
    BY <1>2, <1>4, <2>1
  <2>3. E \in SUBSET Client
    BY <2>1 DEF CurrentEpoch, Descriptor
  <2>4. Len(Append(d, E)) = Len(d) + 1 /\ Append(d, E)[Len(d) + 1] = E
    BY <2>3, AppendProperties DEF Descriptor
  <2> QED
    BY <1>4, <2>1, <2>2, <2>4 DEF CurrentEpoch
<1> QED
  BY <1>3, <1>4

\* The write of a sign-in or a revocation: refused, as another's landed first, so
\* that it tries again or gives up, or landed on what it read, for s the one client it drops.
Lands(c, s) ==
    /\ c \in document /\ AdoptAndFanOut(c, roster')
    /\ s \notin CurrentEpoch(roster) => roster' = roster
    /\ s \in CurrentEpoch(roster) =>
         /\ Len(roster') = Len(roster) + 1
         /\ CurrentEpoch(roster') = (CurrentEpoch(roster) \ {s}) \cap job[c].doc
Rebases(c) ==
    /\ roster # job[c].base /\ UNCHANGED <<roster, userKey>>
    /\ IF MayRetry(job[c].attempt)
       THEN /\ job' = [job EXCEPT ![c] = [@ EXCEPT !.base = roster,
                                    !.attempt = job[c].attempt + 1]]
            /\ UNCHANGED fan
       ELSE GiveUpRoster(c)

LEMMA PutRosterIs ==
    ASSUME GInv, NEW r \in Client, Lone(r), NEW c \in Client, PutRoster(c),
           NEW s \in Client, job[c].retire = {s}
    PROVE  \/ c \notin document /\ End(c) /\ UNCHANGED <<roster, userKey, fan>>
           \/ job[c].base = roster /\ Lands(c, s)
           \/ c \in document /\ Rebases(c)
<1> DEFINE j == job[c]
           d == Recipients(j.base, j.retire, j.incoming, j.doc)
<1>1. IInv /\ TypeOK /\ j \in Job /\ j.stage = "put"
  BY Given, Lengths DEF GInv, PutRoster
<1>2. /\ j.op \in {"signIn", "revoke"} /\ j.incoming = {}
  BY <1>1, Places DEF Seen, Dropping
<1>3. CanEscrow(j.base, j.incoming, c)
  BY <1>2 DEF CanEscrow
<1>4. CASE c \notin document
  BY <1>4 DEF PutRoster
<1>5. CASE c \in document /\ RosterAccepts(c)
  <2>1. roster' = d /\ AfterRosterWrite(c, d) /\ j.base = roster
    BY <1>3, <1>5 DEF PutRoster, RosterAccepts
  <2>2. AdoptAndFanOut(c, roster')
    BY <1>2, <2>1 DEF AfterRosterWrite
  <2>3. roster' = Recipients(roster, {s}, {}, j.doc)
    BY <1>2, <2>1
  <2>4. roster \in Descriptor(Client) /\ roster # <<>>
    BY <1>1 DEF TypeOK
  <2> HIDE DEF d, j
  <2>5. /\ s \notin CurrentEpoch(roster) => roster' = roster
        /\ s \in CurrentEpoch(roster) =>
             Len(roster') = Len(roster) + 1
             /\ CurrentEpoch(roster') = (CurrentEpoch(roster) \ {s}) \cap j.doc
    <3>1. Retired(roster, s, j.doc, Recipients(roster, {s}, {}, j.doc))
      BY <2>4, RetiresOne
    <3> QED
      BY <2>3, <3>1 DEF Retired
  <2> QED
    BY <1>5, <2>1, <2>2, <2>5 DEF Lands, j
<1>6. CASE c \in document /\ ~RosterAccepts(c)
  BY <1>3, <1>6 DEF PutRoster, RosterAccepts, Rebases
<1> QED
  BY <1>4, <1>5, <1>6

\* What is shared after the roster drops its one lagging client.
LEMMA DropsOne ==
    ASSUME GInv, NEW r \in Client, Lone(r), NEW c \in Client, NEW s \in Client,
           Lands(c, s), job[c].stage = "put", s \in CurrentEpoch(roster),
           job[c].retire = {s}, UNCHANGED <<document, removed>>
    PROVE  /\ Lagging # {} /\ Lagging' = {} /\ Members(r)'
           /\ Len(roster') = Len(roster) + 1
<1>1. Seen(r, c, job[c], document)
  BY Places
<1>2. document \subseteq job[c].doc /\ s \notin job[c].doc
  BY <1>1 DEF Seen, Dropping
<1>3. /\ Members(r) /\ \A y, z \in Lagging : y = z
  BY DEF Lone, Mine, Waits
<1>4. s \in Lagging
  BY <1>2, <1>3 DEF Members, Lagging
<1>5. CurrentEpoch(roster') = (CurrentEpoch(roster) \ {s}) \cap job[c].doc
  BY DEF Lands
<1>6. Lagging' = {}
  <2>1. Lagging = {s}
    BY <1>3, <1>4
  <2> QED
    BY <1>5, <2>1 DEF Lagging, CurrentEpoch
<1>7. Members(r)'
  <2>1. document \subseteq CurrentEpoch(roster')
    BY <1>2, <1>3, <1>5 DEF Members
  <2>2. CurrentEpoch(roster') \subseteq document \cup removed
    BY <1>3, <1>5 DEF Members
  <2> QED
    BY <1>3, <2>1, <2>2 DEF Members, CurrentEpoch
<1> QED
  BY <1>4, <1>6, <1>7 DEF Lands

\* After the drop the collections are one generation behind.
LEMMA FallsBehind ==
    ASSUME GInv, NEW r \in Client, Lone(r), Lagging # {}, collection' = collection,
           Len(roster') = Len(roster) + 1
    PROVE  \A k \in Collection : \E g \in 1..Len(roster') :
               Wraps(collection'[k], g) /\ g + 1 = Len(roster')
<1>1. IInv /\ Settling(r) /\ Len(roster) \in Nat \ {0}
  BY Given, Lengths DEF GInv, Lone, Mine
<1>2. \A k \in Collection : Wraps(collection[k], Len(roster))
  <2> HIDE DEF Wraps
  <2> QED
    BY <1>1 DEF Settling, Behind
<1>3. Len(roster) \in 1..Len(roster') /\ Len(roster) + 1 = Len(roster')
  BY <1>1
<1> HIDE DEF Wraps
<1> QED
  BY <1>2, <1>3

\* Each client has seen what it had seen.
LEMMA SeenStays ==
    ASSUME NEW r \in Client, Lone(r), NEW c \in Client, Alone(c),
           document' = document, Seen(r, c, job'[c], document)
    PROVE  \A b \in Client : Seen(r, b, job[b], document)'
<1>1. ASSUME NEW b \in Client PROVE Seen(r, b, job'[b], document')
  <2> HIDE DEF Seen
  <2> QED
    BY DEF Lone, Alone
<1>2. ASSUME NEW b \in Client PROVE Seen(r, b, job[b], document)'
  <2>1. Seen(r, b, job'[b], document') = Seen(r, b, job[b], document)'
    BY DEF Seen, Place, Dropping, CurrentEpoch
  <2> QED
    BY <1>1, <2>1
<1> QED
  BY <1>2

\* A roster write that lands: nothing changes but the writer's own job, or the
\* lagging client is dropped and the revoker is on its way to the fan-out.
LEMMA LoneLand ==
    ASSUME GInv, NEW r \in Client, Lone(r), NEW c \in Client, NEW s \in Client,
           job[c].stage = "put", job[c].retire = {s}, job[c].base = roster,
           Lands(c, s), UNCHANGED <<document, removed, collection>>, IInv'
    PROVE  Lone(r)'
<1>1. IInv /\ TypeOK /\ job[r] \in Job /\ Mine(r) /\ Members(r)
  BY Given, Lengths DEF GInv, Lone
<1>2. /\ job[c].op = "signIn" \/ (c = r /\ job[c].op = "revoke")
      /\ c \in document /\ AdoptAndFanOut(c, roster')
  BY Places DEF Lands
<1>3. s \in CurrentEpoch(roster) =>
        /\ Lagging # {} /\ Lagging' = {} /\ Members(r)'
        /\ Len(roster') = Len(roster) + 1
  BY DropsOne
<1>4. s \notin CurrentEpoch(roster) => roster' = roster
  BY DEF Lands
<1>5. PICK d : d = roster'
  OBVIOUS
<1>6. c \in CurrentEpoch(d)
  BY <1>1, <1>2, <1>3, <1>4, <1>5 DEF Members, CurrentEpoch
<1>7. /\ Alone(c)
      /\ job'[c].op = job[c].op /\ job'[c].stage = "fanOut"
      /\ job'[c].roster = d /\ userKey'[c] = Len(d)
      /\ \A k \in Collection : fan'[c][k].stage = "todo"
      /\ \A doc : Seen(r, c, job'[c], doc)
  <2>1. AdoptAndFanOut(c, d) /\ job[c].stage \in {"converge", "put"}
    BY <1>2, <1>5
  <2> QED
    BY <1>6, <2>1, Adopts
<1>8. ASSUME c = r, job[r].op = "revoke", Lagging' = {},
             \A k \in Collection : \E g \in 1..Len(roster') :
               Wraps(collection'[k], g) /\ (g = Len(roster') \/ g + 1 = Len(roster'))
      PROVE  Mine(r)'
  <2>1. /\ job'[r].op = "revoke" /\ job'[r].stage = "fanOut" /\ r \in document'
        /\ job'[r].roster = roster' /\ userKey'[r] = Len(roster')
        /\ \A k \in Collection : fan'[r][k].stage = "todo"
    BY <1>2, <1>5, <1>7, <1>8
  <2> QED
    BY <1>8, <2>1, StartsTail
<1>9. CASE s \notin CurrentEpoch(roster) /\ job[c].op # "revoke"
  BY <1>1, <1>4, <1>7, <1>9, UnrevokingStep
<1>10. CASE s \notin CurrentEpoch(roster) /\ job[c].op = "revoke"
  <2>1. c = r /\ Lagging \subseteq {s} /\ roster' = roster
    BY <1>1, <1>2, <1>4, <1>10 DEF Mine, Current, Catching
  <2>2. Lagging' = {}
    BY <1>10, <2>1 DEF Lagging
  <2>3. \A k \in Collection : \E g \in 1..Len(roster') :
            Wraps(collection'[k], g) /\ (g = Len(roster') \/ g + 1 = Len(roster'))
    BY <1>1, <2>1, OneBehind DEF Wraps, CurrentEpoch
  <2>4. Mine(r)'
    BY <1>8, <1>10, <2>1, <2>2, <2>3
  <2> QED
    BY <1>1, <1>7, <2>1, <2>4, QuietStep
<1>11. CASE s \in CurrentEpoch(roster)
  <2>1. /\ Lagging # {} /\ Lagging' = {} /\ Members(r)'
        /\ Len(roster') = Len(roster) + 1
    BY <1>3, <1>11
  <2>2. Catching(job[r])
    BY <1>1, <2>1 DEF Mine, Waits
  <2>3. \A k \in Collection : \E g \in 1..Len(roster') :
            Wraps(collection'[k], g) /\ g + 1 = Len(roster')
    BY <2>1, FallsBehind
  <2>4. ASSUME c = r PROVE Mine(r)'
    <3>1. job[r].op = "revoke"
      BY <2>2 DEF Catching
    <3> HIDE DEF Wraps
    <3> QED
      BY <1>8, <2>1, <2>3, <2>4, <3>1
  <2>5. ASSUME c # r PROVE Mine(r)'
    <3>1. job'[r] = job[r]
      BY <1>7, <2>5 DEF Alone
    <3>2. Waits(r)'
      BY <2>1 DEF Waits
    <3>3. Current(r)'
      <4>1. job[r].attempt \in Nat
        BY <1>1, CasAssumption DEF Job, CasAssumption
      <4>2. /\ job[r].doc = document /\ r \in document
            /\ job[r].stage = "put" => ~(job[r].attempt > 1)
        BY <1>1, <2>1, <2>2 DEF Mine, Current
      <4> QED
        BY <2>1, <2>2, <3>1, <4>1, <4>2 DEF Current, Catching
    <3>4. Settling(r)'
      BY <2>1, <2>2, <2>3, <3>1 DEF Settling, Behind, Wraps, CurrentEpoch, Catching
    <3> QED
      BY <3>2, <3>3, <3>4 DEF Mine
  <2>6. Mine(r)'
    BY <2>4, <2>5
  <2>7. \A b \in Client : Seen(r, b, job[b], document)'
    BY <1>7, SeenStays
  <2> QED
    BY <2>1, <2>6, <2>7 DEF Lone
<1> QED
  BY <1>2, <1>9, <1>10, <1>11

\* A roster write that finds the roster changed: the revoker's can happen only
\* once, so that it has an attempt left.
LEMMA LoneRebase ==
    ASSUME CasAttempts > 1, GInv, NEW r \in Client, Lone(r), NEW c \in Client,
           job[c].stage = "put", c \in document, Rebases(c),
           UNCHANGED <<document, removed, collection>>
    PROVE  Lone(r)'
<1> DEFINE j == job[c]
           again == [j EXCEPT !.base = roster, !.attempt = j.attempt + 1]
<1>1. IInv /\ TypeOK /\ j \in Job /\ Mine(r)
  BY Given, Lengths DEF GInv, Lone
<1>2. /\ roster # j.base /\ UNCHANGED <<roster, userKey>>
      /\ IF MayRetry(j.attempt)
         THEN job' = [job EXCEPT ![c] = again] /\ UNCHANGED fan
         ELSE GiveUpRoster(c)
  BY DEF Rebases
<1>3. /\ again.op = j.op /\ again.stage = "put" /\ again.doc = j.doc
      /\ again.retire = j.retire /\ again.incoming = j.incoming
      /\ again.base = roster /\ again.attempt = j.attempt + 1
  BY <1>1 DEF Job
<1> HIDE DEF again
<1>4. Alone(c) /\ (MayRetry(j.attempt) => job'[c] = again)
  BY <1>1, <1>2 DEF TypeOK, Alone, GiveUpRoster, FanOut, End
<1>5. Seen(r, c, again, document)
  <2>1. Seen(r, c, j, document)
    BY Places
  <2> QED
    BY <1>3, <2>1 DEF Seen, Place, Dropping
<1>6. CASE j.op # "revoke"
  <2>1. j.op = "signIn"
    BY <1>6, Places
  <2>2. ASSUME ~MayRetry(j.attempt)
        PROVE  job'[c].op # "revoke" /\ Seen(r, c, job'[c], document)
    <3> DEFINE p == [j EXCEPT !.stage = "fanOut", !.roster = j.roster]
    <3>1. job'[c] = p
      BY <1>1, <1>2, <2>1, <2>2 DEF GiveUpRoster, FanOut, TypeOK
    <3>2. Seen(r, c, p, document) /\ p.op = "signIn"
      BY <1>1, <2>1, FanOutJobIs
    <3> QED
      BY <3>1, <3>2
  <2>3. job'[c].op # "revoke" /\ Seen(r, c, job'[c], document)
    BY <1>3, <1>4, <1>5, <1>6, <2>2
  <2> QED
    BY <1>1, <1>2, <1>4, <1>6, <2>3, UnrevokingStep
<1>7. CASE j.op = "revoke"
  <2>1. c = r /\ Catching(job[r])
    BY <1>7, Places DEF Catching
  <2>2. Lagging = {} /\ job[r].attempt <= 1
    BY <1>1, <1>2, <2>1 DEF Mine, Current
  <2>3. MayRetry(job[r].attempt)
    BY <1>1, <2>1, <2>2, CasAssumption DEF MayRetry, CasAssumption, Job
  <2>4. job'[r] = again /\ Lagging' = {} /\ Catching(again)
    BY <1>2, <1>3, <1>4, <1>7, <2>1, <2>2, <2>3 DEF Lagging, CurrentEpoch, Catching
  <2>5. Waits(r)'
    BY <2>4 DEF Waits
  <2>6. Current(r)'
    BY <1>1, <1>2, <1>3, <2>1, <2>4 DEF Mine, Current, Catching
  <2>7. Settling(r)'
    BY <1>1, <1>2, <2>1, <2>4 DEF Mine, Settling, Behind, Wraps, CurrentEpoch, Catching
  <2>8. Mine(r)'
    BY <2>5, <2>6, <2>7 DEF Mine
  <2> QED
    BY <1>1, <1>2, <1>4, <1>5, <2>1, <2>4, <2>8, QuietStep
<1> QED
  BY <1>6, <1>7

\* The roster's write, whoever's.
LEMMA LonePutRoster ==
    ASSUME CasAttempts > 1, GInv, NEW r \in Client, Lone(r), NEW c \in Client,
           PutRoster(c), IInv'
    PROVE  Lone(r)'
<1>1. /\ job[c].stage = "put" /\ UNCHANGED <<document, removed, collection>>
  BY DEF PutRoster
<1>2. IInv /\ TypeOK
  BY Given DEF GInv
<1>3. PICK s \in Client : job[c].retire = {s}
  BY <1>1, Places DEF Seen, Dropping
<1>4. CASE c \notin document /\ End(c) /\ UNCHANGED <<roster, userKey, fan>>
  <2>1. job'[c] = Idle /\ Alone(c)
    BY <1>2, <1>4 DEF End, TypeOK, Alone
  <2>2. job[c].op # "revoke"
    BY <1>1, <1>4, Places DEF Lone, Mine, Current, Catching
  <2>3. job'[c].op # "revoke" /\ Seen(r, c, job'[c], document)
    BY <2>1, RestTyped, IdleSeen
  <2> QED
    BY <1>1, <1>2, <1>4, <2>1, <2>2, <2>3, UnrevokingStep
<1>5. CASE job[c].base = roster /\ Lands(c, s)
  BY <1>1, <1>3, <1>5, LoneLand
<1>6. CASE c \in document /\ Rebases(c)
  BY <1>1, <1>6, LoneRebase
<1> QED
  BY <1>3, <1>4, <1>5, <1>6, PutRosterIs

\* A collection is read: the revoker finds one that is behind, and what it
\* decides is the write that brings it up.
LEMMA LoneRead ==
    ASSUME GInv, NEW r \in Client, Lone(r), NEW c \in Client, NEW k \in Collection,
           ReadCollection(c, k)
    PROVE  Lone(r)'
<1> DEFINE gens == Generations(c, job[c].roster)
           task == CollectionTask(collection[k], userKey[c], gens)
           t == IF c \in document THEN task ELSE Done
<1>1. /\ job[c].stage = "fanOut" /\ fan[c][k].stage = "todo"
      /\ fan' = [fan EXCEPT ![c][k] = t]
      /\ UNCHANGED <<document, removed, roster, collection, userKey, job>>
  BY DEF ReadCollection
<1>2. IInv /\ TypeOK /\ RosterOK /\ Mine(r) /\ Members(r)
  BY Given DEF GInv, Lone
<1> HIDE DEF t
<1>3. /\ fan'[c][k] = t /\ Alone(c)
      /\ \A l \in Collection : l # k => fan'[c][l] = fan[c][l]
  BY <1>1, <1>2 DEF TypeOK, Alone
<1>4. Seen(r, c, job'[c], document)
  BY <1>1, Places
<1>5. CASE job[c].op # "revoke"
  BY <1>1, <1>2, <1>3, <1>4, <1>5, UnrevokingStep
<1>6. CASE job[c].op = "revoke"
  <2>1. /\ c = r /\ userKey[r] = Len(roster) /\ job[r].roster = roster
        /\ r \in document
    BY <1>1, <1>2, <1>6, Places DEF Mine, Current
  <2>2. Lagging' = Lagging
    BY <1>1 DEF Lagging, CurrentEpoch
  <2>3. Waits(r)' /\ Current(r)'
    BY <1>1, <1>2, <2>2 DEF Mine, Waits, Current, Catching
  <2>4. ASSUME NEW g \in 1..Len(roster), Wraps(collection[k], g), Behind(r, k, g)
        PROVE  /\ t.stage = "put" /\ t.owner = g /\ t.base = collection[k]
               /\ g + 1 = Len(roster) /\ Lagging = {}
    <3>1. g + 1 = Len(roster) /\ Lagging = {} /\ g \in Generation /\ g # userKey[r]
      BY <1>2, <2>1, <2>4, Lengths DEF Behind, Generation
    <3>2. g \in gens
      <4>1. r \in CurrentEpoch(roster) /\ g \in DOMAIN roster
        BY <1>2, <2>1, <2>4, Lengths DEF Members
      <4>2. r \in roster[g]
        BY <1>2, <4>1 DEF RosterOK
      <4>3. ReadBackKey(r) = {r}
        BY Places DEF ReadBackKey
      <4> QED
        BY <2>1, <4>1, <4>2, <4>3 DEF Generations
    <3>3. collection[k] \in Descriptor(Generation) /\ collection[k] # <<>>
      BY <1>2 DEF TypeOK
    <3> HIDE DEF gens
    <3>4. task = IF g \in gens \ {userKey[c]}
                 THEN [stage |-> "put", base |-> collection[k], retire |-> {g},
                       owner |-> g, attempt |-> 1]
                 ELSE Done
      <4>1. PICK d, key, G : d = collection[k] /\ key = userKey[c] /\ G = gens
        OBVIOUS
      <4>2. d \in Descriptor(Generation) /\ d # <<>> /\ Wraps(d, g)
        BY <2>4, <3>3, <4>1
      <4> HIDE DEF task
      <4>3. CollectionTask(d, key, G) =
              IF g \in G \ {key}
              THEN [stage |-> "put", base |-> d, retire |-> {g}, owner |-> g,
                    attempt |-> 1]
              ELSE Done
        BY <3>1, <4>2, TaskOfOne
      <4> QED
        BY <4>1, <4>3 DEF task
    <3> HIDE DEF task
    <3>5. t = [stage |-> "put", base |-> collection[k], retire |-> {g},
               owner |-> g, attempt |-> 1]
      BY <2>1, <3>1, <3>2, <3>4 DEF t
    <3> QED
      BY <3>1, <3>5
  <2>5. Settling(r)'
    <3>1. ASSUME NEW l \in Collection
          PROVE  \E g \in 1..Len(roster) :
                   Wraps(collection[l], g) /\ (g = Len(roster) \/ Behind(r, l, g)')
      <4>1. PICK g \in 1..Len(roster) :
              Wraps(collection[l], g) /\ (g = Len(roster) \/ Behind(r, l, g))
        BY <1>2 DEF Mine, Settling
      <4>2. CASE l = k /\ Behind(r, l, g)
        <5>1. Behind(r, l, g)'
          BY <1>1, <1>3, <1>6, <2>1, <2>2, <2>4, <4>1, <4>2 DEF Behind
        <5> QED
          BY <4>1, <5>1
      <4>3. CASE l # k /\ Behind(r, l, g)
        <5>1. Behind(r, l, g)'
          BY <1>1, <1>3, <2>1, <2>2, <4>1, <4>3 DEF Behind
        <5> QED
          BY <4>1, <5>1
      <4> QED
        BY <4>1, <4>2, <4>3
    <3> QED
      BY <1>1, <3>1 DEF Settling, Wraps, CurrentEpoch
  <2>6. Mine(r)'
    BY <2>3, <2>5 DEF Mine
  <2> QED
    BY <1>1, <1>2, <1>3, <1>4, <2>1, <2>6, QuietStep
<1> QED
  BY <1>5, <1>6

\* A descriptor is on one generation.
LEMMA OneWrap ==
    ASSUME NEW d, NEW g, NEW h, Wraps(d, g), Wraps(d, h)
    PROVE  g = h
  BY DEF Wraps

\* A collection is written: it moves from the generation behind to the
\* current one, if at all, and the revoker's own write of one that is behind
\* lands.
LEMMA LonePutMine ==
    ASSUME GInv, NEW r \in Client, Lone(r), NEW c \in Client, NEW k \in Collection,
           PutCollection(c, k)
    PROVE  Settling(r)'
<1> DEFINE f == fan[c][k]
           G == Len(roster)
<1>1. /\ job[c].stage = "fanOut" /\ f.stage = "put"
      /\ UNCHANGED <<document, removed, roster, userKey, job>>
  BY DEF PutCollection
<1>2. /\ IInv /\ TypeOK /\ Mine(r) /\ OneOwner(c) /\ Settling(r) /\ G \in Nat
      /\ Lagging' = Lagging
  BY <1>1, Given, Lengths DEF GInv, Lone, Mine, Lagging, CurrentEpoch
<1>3. PICK g \in 1..G : Wraps(collection[k], g) /\ (g = G \/ Behind(r, k, g))
  BY <1>2 DEF Settling
<1>4. /\ g \in Generation /\ collection[k] \in Descriptor(Generation)
      /\ collection[k] # <<>> /\ (g = G \/ g + 1 = G)
  BY <1>2, <1>3 DEF Generation, TypeOK, Behind
<1>5. \/ collection' = collection
      \/ /\ Wraps(collection'[k], G)
         /\ \A l \in Collection : l # k => collection'[l] = collection[l]
  <2>1. \/ collection' = collection
        \/ /\ g < userKey[c] /\ userKey[c] \in 1..G
           /\ Wraps(collection'[k], userKey[c])
           /\ \A l \in Collection : l # k => collection'[l] = collection[l]
    BY <1>2, <1>3, <1>4, PutGeneration
  <2>2. g < userKey[c] /\ userKey[c] \in 1..G => userKey[c] = G
    BY <1>2, <1>4
  <2> QED
    BY <2>1, <2>2
<1>6. /\ \A b \in Client, l \in Collection :
           b # c \/ l # k => fan'[b][l] = fan[b][l]
      /\ \A l \in Collection : l # k => collection'[l] = collection[l]
  BY <1>2, <1>5 DEF PutCollection, TypeOK
<1>7. ASSUME c = r, job[r].op = "revoke", Behind(r, k, g)
      PROVE  Wraps(collection'[k], G)
  <2>1. /\ f.owner = g /\ f.base = collection[k] /\ userKey[r] = G
        /\ r \in document /\ g # G
    BY <1>1, <1>2, <1>3, <1>7 DEF Behind, Mine, Current, Catching
  <2>2. f.retire = {g}
    BY <1>1, <1>2, <2>1 DEF OneOwner
  <2>3. CanEscrow(f.base, {userKey[c]}, f.owner)
    BY <1>3, <2>1 DEF CanEscrow, Wraps
  <2>4. collection' = [collection EXCEPT ![k] =
                         Recipients(f.base, f.retire, {userKey[c]}, Generation)]
    BY <1>7, <2>1, <2>3 DEF PutCollection, CollectionAccepts
  <2>5. collection'[k] = Recipients(collection[k], {g}, {G}, Generation)
    BY <1>2, <1>7, <2>1, <2>2, <2>4 DEF TypeOK
  <2>6. G \in Generation
    BY <1>2, Lengths DEF Generation
  <2> HIDE DEF G
  <2> QED
    BY <1>3, <1>4, <2>1, <2>5, <2>6, RotatesTo
<1>8. ASSUME NEW l \in Collection
      PROVE  \E h \in 1..G : Wraps(collection'[l], h) /\ (h = G \/ Behind(r, l, h)')
  <2>1. PICK h \in 1..G : Wraps(collection[l], h) /\ (h = G \/ Behind(r, l, h))
    BY <1>2 DEF Settling
  <2>2. G \in 1..G
    BY <1>2, <2>1
  <2>3. CASE l = k /\ Wraps(collection'[k], G)
    BY <2>2, <2>3
  <2>4. CASE l = k /\ ~Wraps(collection'[k], G)
    <3>1. collection' = collection
      BY <1>5, <2>4
    <3>2. h = g
      BY <1>3, <2>1, <2>4, OneWrap
    <3>3. Behind(r, k, g) /\ ~(c = r /\ job[r].op = "revoke")
      <4>1. h # G
        BY <2>1, <2>4, <3>1
      <4>2. Behind(r, k, g)
        BY <2>1, <2>4, <3>2, <4>1
      <4> QED
        BY <1>7, <2>4, <4>2
    <3>4. job[r].op = "revoke"
      BY <3>3 DEF Behind, Catching
    <3>5. fan'[r][l] = fan[r][l]
      BY <1>6, <3>3, <3>4
    <3>6. Behind(r, l, h)'
      BY <1>1, <1>2, <2>4, <3>1, <3>2, <3>3, <3>5 DEF Behind, Catching
    <3> QED
      BY <2>1, <3>1, <3>6
  <2>5. CASE l # k
    <3>1. collection'[l] = collection[l] /\ fan'[r][l] = fan[r][l]
      BY <1>6, <2>5
    <3>2. h = G \/ Behind(r, l, h)'
      BY <1>1, <1>2, <2>1, <3>1 DEF Behind, Catching
    <3> QED
      BY <2>1, <3>1, <3>2
  <2> QED
    BY <2>3, <2>4, <2>5
<1> QED
  BY <1>1, <1>8 DEF Settling, Wraps, CurrentEpoch

\* So the invariant stands.
LEMMA LonePut ==
    ASSUME GInv, NEW r \in Client, Lone(r), NEW c \in Client, NEW k \in Collection,
           PutCollection(c, k)
    PROVE  Lone(r)'
<1>1. UNCHANGED <<document, removed, roster, userKey, job>>
  BY DEF PutCollection
<1>2. Lagging' = Lagging /\ Members(r) /\ Mine(r)
  BY <1>1 DEF Lagging, CurrentEpoch, Lone
<1>3. Members(r)'
  BY <1>1, <1>2 DEF Members, CurrentEpoch
<1>4. Waits(r)' /\ Current(r)'
  BY <1>1, <1>2 DEF Mine, Waits, Current, Catching
<1>5. Mine(r)'
  BY <1>4, LonePutMine DEF Mine
<1>6. ASSUME NEW b \in Client PROVE Seen(r, b, job[b], document)'
  <2>1. Seen(r, b, job[b], document)
    BY Places
  <2> QED
    BY <1>1, <2>1 DEF Seen, Place, Dropping, CurrentEpoch
<1> QED
  BY <1>3, <1>5, <1>6 DEF Lone

\* A fan-out that has settled: the revoker's has brought every collection up.
LEMMA LoneDone ==
    ASSUME GInv, NEW r \in Client, Lone(r), NEW c \in Client, FanOutDone(c)
    PROVE  Lone(r)'
<1>1. /\ job[c].stage = "fanOut" /\ \A k \in Collection : fan[c][k].stage = "done"
      /\ fan' = [fan EXCEPT ![c] = [k \in Collection |-> Done]]
      /\ UNCHANGED <<document, removed, roster, collection, userKey>>
  BY DEF FanOutDone
<1>2. IInv /\ TypeOK /\ Mine(r)
  BY Given DEF GInv, Lone
<1>3. End(c)
  BY Places DEF FanOutDone
<1>4. job'[c] = Idle /\ Alone(c)
  BY <1>1, <1>2, <1>3 DEF End, TypeOK, Alone
<1>5. job'[c].op # "revoke" /\ Seen(r, c, job'[c], document)
  BY <1>4, RestTyped, IdleSeen
<1>6. CASE job[c].op # "revoke"
  BY <1>1, <1>2, <1>4, <1>5, <1>6, UnrevokingStep
<1>7. CASE job[c].op = "revoke"
  <2>1. c = r /\ ~Catching(job[r])
    BY <1>1, <1>7, Places DEF Catching
  <2>2. Lagging' = {}
    BY <1>1, <1>2, <2>1 DEF Mine, Waits, Lagging, CurrentEpoch
  <2>3. \A k \in Collection, g \in 1..Len(roster) : ~Behind(r, k, g)
    BY <1>1, <2>1 DEF Behind
  <2>4. \A k \in Collection : Wraps(collection[k], Len(roster))
    <3> HIDE DEF Wraps
    <3> QED
      BY <1>2, <2>3 DEF Mine, Settling
  <2>5. \A k \in Collection : Wraps(collection'[k], Len(roster))
    BY <1>1, <2>4
  <2>6. Mine(r)'
    BY <1>1, <1>2, <1>5, <2>1, <2>2, <2>5, RestingMine
  <2> QED
    BY <1>1, <1>2, <1>4, <1>5, <2>1, <2>6, QuietStep
<1> QED
  BY <1>6, <1>7

\* The invariant, for every client that may be the lone revoker.
LoneInv ==
    /\ GInv
    /\ \A r \in Client : Sole(r) /\ crashes = 0 => Lone(r)

\* A provisioned account satisfies it.
LEMMA LoneInit == Init => LoneInv
<1> SUFFICES ASSUME Init, NEW r \in Client, Sole(r) PROVE Lone(r)
  BY GenerationInit DEF LoneInv
<1>1. /\ document = setup.members /\ removed = {} /\ roster = <<setup.members>>
      /\ job = [c \in Client |-> Idle]
      /\ collection = [k \in Collection |-> <<{1}>>]
  BY DEF Init
<1>2. CurrentEpoch(roster) = setup.members /\ Len(roster) = 1
  BY <1>1 DEF CurrentEpoch
<1>3. Lagging = {} /\ Members(r)
  BY <1>1, <1>2 DEF Lagging, Members
<1>4. \A c \in Client : job[c] = Idle
  BY <1>1
<1>5. \A c \in Client : Seen(r, c, job[c], document)
  BY <1>4, IdleSeen
<1>6. Waits(r) /\ Current(r)
  BY <1>3, <1>4, RestTyped DEF Waits, Current, Catching
<1>7. Settling(r)
  <2>1. ASSUME NEW k \in Collection PROVE Wraps(collection[k], 1)
    BY <1>1 DEF Wraps, CurrentEpoch
  <2> QED
    BY <1>2, <2>1 DEF Settling
<1> QED
  BY <1>3, <1>5, <1>6, <1>7 DEF Lone, Mine

\* The steps that cannot be taken where nobody enrolls or forgets itself.
LEMMA LoneAbsent ==
    ASSUME GInv, NEW r \in Client, Sole(r), Lone(r), NEW c \in Client
    PROVE  /\ ~ForgetEnrolledClient(c) /\ \A t \in Client : ~ApproveEnrollment(c, t)
           /\ ~EnrollWebvhClient(c) /\ ~RetireRosterRecipient(c)
           /\ ~ForgetWebvhClient(c)
<1>1. setup.enrollees = {} /\ setup.forgetters = {}
  BY DEF Sole
<1>2. job[c].stage \notin {"retire", "publish", "remove"}
  BY Places
<1> QED
  BY <1>1, <1>2 DEF ForgetEnrolledClient, ApproveEnrollment, EnrollWebvhClient,
                    RetireRosterRecipient, ForgetWebvhClient

\* Every step of an uncut ceremony keeps it.
LEMMA LoneStep ==
    ASSUME CasAttempts > 1, GInv, [Next]_vars, NEW r \in Client, Sole(r), Lone(r),
           crashes' = 0
    PROVE  Lone(r)'
<1>1. IInv' /\ IInv /\ TypeOK
  BY NextInv, Given DEF GInv
<1>2. CASE UNCHANGED vars
  <2>1. UNCHANGED <<document, removed, roster, collection, job, fan, userKey>>
    BY <1>2 DEF vars
  <2>2. Alone(r) /\ Seen(r, r, job'[r], document)
    BY <2>1, Places DEF Alone
  <2>3. Mine(r)'
    BY <2>1, MineStays DEF Lone
  <2> QED
    BY <1>1, <2>1, <2>2, <2>3, QuietStep
<1>3. CASE Next
  <2>1. PICK c \in Client :
          \/ CheckUserKeyRosterAtLogin(c) \/ ForgetEnrolledClient(c)
          \/ CeremonyStep(c)
          \/ \E t \in Client : RevokeAccountClient(c, t) \/ ApproveEnrollment(c, t)
          \/ CutShort(c)
    BY <1>3 DEF Next
  <2>2. CASE CheckUserKeyRosterAtLogin(c)
    BY <2>2, LoneLogin
  <2>3. ASSUME NEW t \in Client, RevokeAccountClient(c, t) PROVE Lone(r)'
    BY <2>3, LoneRevoke
  <2>4. CASE CeremonyStep(c)
    <3>1. CASE ConvergeToAccount(c)
      BY <3>1, LoneVerify
    <3>2. CASE RotateRosterToDocument(c)
      BY <3>2, LoneRotate
    <3>3. CASE PutRoster(c)
      BY <1>1, <3>3, LonePutRoster
    <3>4. CASE FanOutDone(c)
      BY <3>4, LoneDone
    <3>5. ASSUME NEW k \in Collection, ReadCollection(c, k) PROVE Lone(r)'
      BY <3>5, LoneRead
    <3>6. ASSUME NEW k \in Collection, PutCollection(c, k) PROVE Lone(r)'
      BY <3>6, LonePut
    <3> QED
      BY <2>4, <3>1, <3>2, <3>3, <3>4, <3>5, <3>6, LoneAbsent DEF CeremonyStep
  <2>5. ~CutShort(c)
    BY Given, <1>1 DEF CutShort
  <2> QED
    BY <2>1, <2>2, <2>3, <2>4, <2>5, LoneAbsent
<1> QED
  BY <1>2, <1>3

\* The account is chosen once, and a ceremony that was cut short stays so.
LEMMA SetupStays ==
    ASSUME IInv, [Next]_vars
    PROVE  setup' = setup /\ (crashes' = 0 => crashes = 0)
<1>1. crashes \in Nat
  BY Given
<1>2. ASSUME NEW c \in Client, CeremonyStep(c)
      PROVE  setup' = setup /\ crashes' = crashes
  BY <1>2 DEF CeremonyStep, ConvergeToAccount, RotateRosterToDocument,
         EnrollWebvhClient, PutRoster, FanOutDone, RetireRosterRecipient,
         ForgetWebvhClient, ReadCollection, PutCollection
<1>3. ASSUME NEW c \in Client,
             \/ CheckUserKeyRosterAtLogin(c) \/ ForgetEnrolledClient(c)
             \/ \E t \in Client : RevokeAccountClient(c, t) \/ ApproveEnrollment(c, t)
      PROVE  setup' = setup /\ crashes' = crashes
  BY <1>3 DEF CheckUserKeyRosterAtLogin, ForgetEnrolledClient, RevokeAccountClient,
              ApproveEnrollment
<1>4. ASSUME NEW c \in Client, CutShort(c)
      PROVE  setup' = setup /\ crashes' = crashes + 1
  BY <1>4 DEF CutShort
<1>5. UNCHANGED vars => setup' = setup /\ crashes' = crashes
  BY DEF vars
<1>6. setup' = setup /\ (crashes' = crashes \/ crashes' = crashes + 1)
  BY <1>2, <1>3, <1>4, <1>5 DEF Next
<1> QED
  BY <1>1, <1>6

\* So every step keeps it.
LEMMA LoneNext ==
    ASSUME CasAttempts > 1, LoneInv, [Next]_vars
    PROVE  LoneInv'
<1>1. GInv /\ GInv' /\ IInv
  BY GenerationStep DEF LoneInv, GInv
<1>2. setup' = setup /\ (crashes' = 0 => crashes = 0)
  BY <1>1, SetupStays
<1>3. ASSUME NEW r \in Client, Sole(r)', crashes' = 0 PROVE Lone(r)'
  <2>1. Sole(r) /\ crashes = 0
    BY <1>2, <1>3 DEF Sole
  <2>2. Lone(r)
    BY <2>1 DEF LoneInv
  <2> QED
    BY <1>1, <1>3, <2>1, <2>2, LoneStep
<1> QED
  BY <1>1, <1>3 DEF LoneInv

\* With the revoker at rest, the readers of what is written next are the
\* roster's current recipients, and no removed client is one.
LEMMA LoneBites == LoneInv => LoneRevocationBites
<1> SUFFICES ASSUME LoneInv, NEW r \in Client, Sole(r), AllIdle, crashes = 0,
                    NEW k \in Collection
             PROVE  Openers(CurrentEpoch(collection[k])) \cap removed = {}
  BY DEF LoneRevocationBites, RevocationBites
<1>1. Lone(r) /\ TypeOK
  BY Given DEF LoneInv, GInv
<1>2. job[r].op # "revoke"
  BY <1>1, Places DEF AllIdle
<1>3. Lagging = {} /\ Wraps(collection[k], Len(roster))
  BY <1>1, <1>2, AtRest DEF Lone
<1>4. Openers(CurrentEpoch(collection[k])) \subseteq CurrentEpoch(roster)
  BY <1>3 DEF Wraps, Openers, CurrentEpoch
<1> QED
  BY <1>3, <1>4 DEF Lagging

\* A revocation bites (revokeAccountClient, rotateRosterToDocumentAndCascade,
\* cascadeCollectionsToUserKey): where one client does all the revoking and
\* nobody enrolls or forgets itself, then whatever sign-ins of however many
\* clients race it, once its cascade has ended, uncut, no removed client can
\* open what is written next to any collection. The compare-and-swap loop
\* needs a second attempt, for the sign-in that rotates the roster first; the
\* code makes three.
THEOREM LoneRevocation ==
    ASSUME CasAttempts > 1
    PROVE  Spec => []LoneRevocationBites
<1>1. Init => LoneInv
  BY LoneInit
<1>2. LoneInv /\ [Next]_vars => LoneInv'
  BY LoneNext
<1>3. LoneInv => LoneRevocationBites
  BY LoneBites
<1> QED
  BY <1>1, <1>2, <1>3, PTL DEF Spec

=============================================================================

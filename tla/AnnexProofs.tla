---------------------------- MODULE AnnexProofs ----------------------------
(***************************************************************************)
(* Proofs about Annex, for any credentials and clients and any bounds on   *)
(* generations, ceremonies and faults.                                     *)
(***************************************************************************)
EXTENDS Annex, TLAPS, SequenceTheorems, FiniteSetTheorems

(***************************************************************************)
(* The inductive invariant: what the auxiliary Space and the account keep. *)
(***************************************************************************)
\* The stages of a swap that hold a generation of their own, and those that
\* come after its genesis.
Minting   == {"genesis", "install", "revoke", "point", "move"}
Written   == {"install", "revoke", "point", "move"}
Minted(b) == job[b].pc \in Minting

\* The account will never point at h: it left h behind, or no ceremony that
\* could point at h holds it.
Condemned(h) ==
  /\ gen[h].at # "unborn"
  /\ \/ h \in acct.ever /\ h # acct.pointer
     \/ h \notin acct.ever /\ \A b \in Actor : Minted(b) => job[b].new # h

\* A delegation is signed by a rung the log commits, while it stands.
GenOK(g) ==
  /\ \A i \in gen[g].dead : i \in 1 .. Embedded(g)
  /\ \A i \in 1 .. Embedded(g) :
       gen[g].dels[i] \in acct.standing => gen[g].dels[i] \in gen[g].rungs
  /\ gen[g].at = "unborn" => gen[g].dels = <<>> /\ gen[g].dead = {}

PointerOK ==
  /\ acct.pointer \in acct.ever
  /\ \A g \in acct.ever : gen[g].at # "unborn"
  /\ PointedStands

\* A visit reported stands in its generation's log, and in a digest once the
\* generation is gone.
VisitOK(x) ==
  /\ x[1] \in gen[x[2]].visits
  /\ gen[x[2]].at = "gone" => x[1] \in digest[x[2]] \/ x[2] \in unread

\* A credential out for good stands nowhere a pointer can lead.
RetiredOK(r) == r \notin acct.standing /\ r \notin gen[acct.pointer].rungs

\* A revoked delegation stays embedded only under a swap on its way to the
\* pointer entry, or one that died there.
StrandedOK ==
  Stranded => \/ acct.pointer \in torn
              \/ \E c \in Client : /\ job[c].pc = "point" /\ job[c].old # 0
                                   /\ job[c].view = acct.pointer

(***************************************************************************)
(* What each ceremony keeps.                                               *)
(***************************************************************************)
\* The generations a ceremony works from are ones the account pointed at.
ViewOK(j) ==
  /\ j.pc \notin {"idle", "reread", "sweep"} => j.view \in acct.ever
  /\ j.pc \in {"strike", "swapHead", "swapLog", "doomed", "renew",
                    "embedded", "remove"} => j.cred # None
  /\ j.pc = "confirm" => j.visit \in gen[j.view].visits

\* The generation a swap minted is its own, young, and restates its set.
MintOK(b, j) ==
  /\ b \in Credential /\ (j.pc = "mint" \/ j.pc \in Minting) => b \in j.set
  /\ j.pc \in Minting =>
       LET g == j.new IN
       /\ g \in Gen /\ g \notin acct.ever /\ gen[g].at # "unborn"
       /\ gen[g].at = "live" => ~gen[g].quiet
       /\ gen[g].dead = {}
       /\ j.pc = "genesis" => gen[g].dels = <<>>
       /\ g \in unread \/ gen[g].at = IF j.pc = "genesis" THEN "bare" ELSE "live"
       /\ j.pc \in Written => gen[g].rungs = j.set

\* The history a pass read: what the account pointed at since is young, and
\* what it had left by then it will not point at again.
PassOK(j) ==
  j.pc \in {"log", "list", "sweep"} =>
    /\ j.ever \subseteq acct.ever
    /\ \A h \in acct.ever \ j.ever : gen[h].at = "live" => ~gen[h].quiet
    /\ j.pc # "sweep" =>
         \A h \in j.ever : h # acct.pointer \/ h = j.view
    /\ j.pc # "log" => j.set = {}

\* A generation whose log a fan-out read is condemned, and what it read
\* covers every visit reported there.
EntryOK(h, e) ==
  e.at \in {"read", "revoked", "digested"} =>
    /\ Condemned(h) /\ e.del <= Embedded(h)
    /\ \A x \in visited : x[2] = h =>
         IF e.at = "digested" THEN x[1] \in digest[h] ELSE x[1] \in e.seen
SweepOK(j) ==
  j.pc = "sweep" =>
    \A h \in DOMAIN j.sweep : /\ gen[h].at # "unborn"
                              /\ h \in j.ever => h # acct.pointer
                              /\ EntryOK(h, j.sweep[h])

\* A retirement restates nothing of what it retires.
RetireOK(j) ==
  /\ j.retire # None =>
       /\ j.retire \notin acct.standing \cup j.set
       /\ j.retire # j.cred
       /\ j.pc \in {"strike", "swapHead", "swapLog"} =>
            j.retire \in j.drop
  /\ j.pc \in {"head", "log"} => j.retire = None
  /\ j.pc = "strike" => j.new = None

\* What is out for good is carried only by a swap whose pointer entry will be
\* refused.
CarryOK(b, j, r) ==
  /\ j.cred # r
  /\ j.pc = "ensure" => r \notin gen[j.view].rungs
  /\ r \in j.set => b \in Client /\ j.view \in acct.ever /\ j.view # acct.pointer

\* The delegation a ceremony will revoke, replaced first by a last forget.
OldOK(j) ==
  /\ j.pc \in {"mint", "genesis", "install", "revoke", "renew", "embedded"} =>
       j.old <= Embedded(j.view)
  /\ j.pc = "renew" /\ j.old # 0 =>
       gen[j.view].dels[j.old] = j.cred
  /\ j.pc = "embedded" /\ j.old # 0 =>
       \/ j.old < Embedded(j.view)
       \/ gen[j.view].dels[j.old] \notin Listed

\* A client at work is enrolled, and one that forgets itself last is alone; a
\* visit acts with its own credential, and neither retires nor supersedes.
ClientOK(b, j) ==
  /\ b \in Client =>
       /\ j.pc # "idle" => b \in acct.enrolled
       /\ j.pc \in {"doomed", "renew", "embedded", "remove"} =>
            acct.enrolled = {b}
  /\ j.pc = "ensure" => j.cred = b /\ j.old = 0 /\ j.retire = None

Fit(b, j) ==
  /\ ViewOK(j) /\ PassOK(j) /\ SweepOK(j) /\ RetireOK(j) /\ OldOK(j) /\ ClientOK(b, j)
  /\ \A r \in out \ overtaken : CarryOK(b, j, r)
JobOK(b) == Fit(b, job[b]) /\ MintOK(b, job[b])

Unique == \A a, b \in Actor : Minted(a) /\ Minted(b) /\ a # b => job[a].new # job[b].new

Shared ==
  /\ PointerOK /\ StrandedOK
  /\ \A g \in Gen : GenOK(g)
  /\ \A x \in visited : VisitOK(x)
  /\ \A r \in out \ overtaken : RetiredOK(r)

Core == Shared /\ Unique /\ \A b \in Actor : JobOK(b)
IInv == TypeOK /\ Core

(***************************************************************************)
(* What every step does: a names the actor whose job moves.                *)
(***************************************************************************)
AcctEvolves(a) ==
  /\ acct.ever \subseteq acct'.ever
  /\ \A g \in acct'.ever \ acct.ever : a \in Actor /\ Minted(a) /\ g = job[a].new
  /\ acct'.pointer = acct.pointer \/ acct'.pointer \in acct'.ever \ acct.ever
  /\ acct'.standing \subseteq acct.standing
  /\ acct'.enrolled = acct.enrolled \/ (acct.enrolled = {a} /\ acct'.enrolled = {})

Spared(g) == \/ gen'[g] = gen[g]
             \/ gen'[g] = [gen[g] EXCEPT !.at = "gone"] /\ g \in unread'

Grows(g) ==
  /\ gen[g].at # "unborn" => gen'[g].at # "unborn"
  /\ \A v \in gen[g].visits : v \in gen'[g].visits
  /\ gen'[g].at = "live" /\ gen'[g].quiet => gen[g].at = "live" /\ gen[g].quiet
  /\ Embedded(g)' \in Nat /\ Embedded(g) <= Embedded(g)'
  /\ \A i \in 1 .. Embedded(g) : gen'[g].dels[i] = gen[g].dels[i]
  /\ g \in acct.ever => \A r \in gen'[g].rungs : r \in gen[g].rungs \/ r \in acct.standing

GenEvolves(a) ==
  /\ \A g \in Gen : Grows(g)
  /\ \A b \in Actor \ {a} : Minted(b) => Spared(job[b].new)

JobEvolves(a) ==
  /\ \A b \in Actor \ {a} : job'[b] = job[b]
  /\ a \in Actor /\ Minted(a)' => \/ Minted(a) /\ job'[a].new = job[a].new
                                  \/ gen[job'[a].new].at = "unborn"

\* A job that does not carry r.
Without(j, r) == /\ r \notin j.set /\ j.cred # r
                 /\ j.pc = "ensure" => r \notin gen'[j.view].rungs

BookEvolves(a) ==
  /\ \A g \in Gen : \A v \in digest[g] : v \in digest'[g]
  /\ unread \subseteq unread'
  /\ \A x \in visited' : x \in visited \/ x[2] = acct.pointer
  /\ \A r \in out' \ overtaken' :
       r \in out \ overtaken \/ \A b \in Actor \ {a} : Without(job[b], r)

Evolves(a) == AcctEvolves(a) /\ GenEvolves(a) /\ JobEvolves(a) /\ BookEvolves(a)

\* The facts every step starts from.
LEMMA Given ==
  ASSUME IInv
  PROVE  /\ TypeOK /\ Shared /\ Unique /\ PointerOK /\ StrandedOK
         /\ \A b \in Actor : JobOK(b) /\ job[b] \in Job
         /\ \A g \in Gen : g # None /\ gen[g] \in Generation /\ GenOK(g)
         /\ \A g \in Gen : Embedded(g) \in Nat
         /\ acct.pointer \in Gen /\ acct.ever \subseteq Gen
<1>1. TypeOK /\ Shared /\ Unique /\ PointerOK /\ StrandedOK /\ \A b \in Actor : JobOK(b)
  BY DEF IInv, Core, Shared
<1>2. \A g \in Gen : gen[g] \in Generation /\ GenOK(g)
  BY <1>1 DEF TypeOK, Shared
<1>3. \A g \in Gen : Embedded(g) \in Nat
  BY <1>2 DEF Embedded, Generation
<1>4. \A g \in Gen : g # None
  BY AnnexAssumption DEF AnnexAssumption, Gen
<1>5. \A b \in Actor : job[b] \in Job
  BY <1>1 DEF TypeOK
<1>6. acct.pointer \in Gen /\ acct.ever \subseteq Gen
  BY <1>1 DEF TypeOK
<1> QED
  BY <1>1, <1>2, <1>3, <1>4, <1>5, <1>6

\* What is condemned stays condemned.
LEMMA CondemnedStays ==
  ASSUME IInv, NEW a, Evolves(a), NEW h \in Gen, Condemned(h)
  PROVE  Condemned(h)'
<1>1. gen'[h].at # "unborn"
  BY DEF Evolves, GenEvolves, Grows, Condemned
<1>2. CASE h \in acct.ever /\ h # acct.pointer
  BY <1>1, <1>2 DEF Condemned, Evolves, AcctEvolves
<1>3. CASE h \notin acct.ever /\ \A b \in Actor : Minted(b) => job[b].new # h
  <2>1. h \notin acct'.ever
    BY <1>3 DEF Evolves, AcctEvolves
  <2>2. ASSUME NEW b \in Actor, Minted(b)' PROVE job'[b].new # h
    <3>1. CASE b = a
      BY <1>3, <2>2, <3>1 DEF Evolves, JobEvolves, Condemned
    <3>2. CASE b # a
      <4>1. job'[b] = job[b]
        BY <3>2 DEF Evolves, JobEvolves
      <4> QED
        BY <1>3, <2>2, <4>1 DEF Minted
    <3> QED
      BY <3>1, <3>2
  <2> QED
    BY <1>1, <2>1, <2>2 DEF Condemned
<1> QED
  BY <1>2, <1>3 DEF Condemned

\* A job that fits the state fits the next one.
LEMMA FitKeeps ==
  ASSUME IInv, NEW a, Evolves(a), NEW b, NEW j \in Job, Fit(b, j),
         b # a \/ acct'.enrolled = acct.enrolled,
         \A r \in out' \ overtaken' : r \in out \ overtaken \/ Without(j, r)
  PROVE  Fit(b, j)'
<1>1. PointerOK /\ acct.pointer \in Gen /\ acct.ever \subseteq Gen /\ Fit(b, j)
  BY Given
<1>2. /\ acct.ever \subseteq acct'.ever
      /\ \A g \in acct'.ever \ acct.ever : a \in Actor /\ Minted(a) /\ g = job[a].new
      /\ acct'.pointer = acct.pointer \/ acct'.pointer \in acct'.ever \ acct.ever
      /\ acct'.standing \subseteq acct.standing
      /\ acct'.enrolled = acct.enrolled \/ (acct.enrolled = {a} /\ acct'.enrolled = {})
  BY DEF Evolves, AcctEvolves
<1>3. \A g \in Gen : Grows(g)
  BY DEF Evolves, GenEvolves
<1>4. ViewOK(j)'
  BY <1>1, <1>2, <1>3 DEF Fit, ViewOK, Grows
<1>5. PassOK(j)'
  <2> SUFFICES ASSUME j.pc \in {"log", "list", "sweep"}
               PROVE  /\ j.ever \subseteq acct'.ever
                      /\ \A h \in acct'.ever \ j.ever :
                           gen'[h].at = "live" => ~gen'[h].quiet
                      /\ j.pc # "sweep" =>
                           \A h \in j.ever : h # acct'.pointer \/ h = j.view
                      /\ j.pc # "log" => j.set = {}
    BY <1>1 DEF PassOK
  <2>1. /\ j.ever \subseteq acct.ever
        /\ \A h \in acct.ever \ j.ever : gen[h].at = "live" => ~gen[h].quiet
        /\ j.pc # "sweep" =>
             \A h \in j.ever : h # acct.pointer \/ h = j.view
        /\ j.pc # "log" => j.set = {}
    BY <1>1 DEF Fit, PassOK
  <2>2. ASSUME NEW h \in acct'.ever \ j.ever
        PROVE  gen'[h].at = "live" => ~gen'[h].quiet
    <3>1. h \in Gen /\ (gen[h].at = "live" => ~gen[h].quiet)
      <4>1. CASE h \in acct.ever
        BY <1>1, <2>1, <4>1
      <4>2. CASE h \notin acct.ever
        <5>1. a \in Actor /\ Minted(a) /\ h = job[a].new
          BY <1>2, <2>2, <4>2
        <5> QED
          BY <5>1, Given DEF JobOK, MintOK, Minted
      <4> QED
        BY <4>1, <4>2
    <3> QED
      BY <1>3, <3>1 DEF Grows
  <2> QED
    BY <1>2, <2>1, <2>2
<1>6. SweepOK(j)'
  <2> SUFFICES ASSUME j.pc = "sweep", NEW h \in DOMAIN j.sweep
               PROVE  /\ gen'[h].at # "unborn"
                      /\ h \in j.ever => h # acct'.pointer
                      /\ j.sweep[h].at \in {"read", "revoked", "digested"} =>
                           /\ Condemned(h)' /\ j.sweep[h].del <= Embedded(h)'
                           /\ \A x \in visited' : x[2] = h =>
                                IF j.sweep[h].at = "digested"
                                THEN x[1] \in digest'[h]
                                ELSE x[1] \in j.sweep[h].seen
    BY <1>1 DEF SweepOK, EntryOK
  <2>1. h \in Gen /\ j.sweep[h] \in Collection
    BY <1>1 DEF Job
  <2>2. /\ gen[h].at # "unborn"
        /\ h \in j.ever => h # acct.pointer
        /\ j.sweep[h].at \in {"read", "revoked", "digested"} =>
             /\ Condemned(h) /\ j.sweep[h].del <= Embedded(h)
             /\ \A x \in visited : x[2] = h =>
                  IF j.sweep[h].at = "digested"
                  THEN x[1] \in digest[h] ELSE x[1] \in j.sweep[h].seen
    BY <1>1 DEF Fit, SweepOK, EntryOK
  <2>3. gen'[h].at # "unborn"
    BY <1>3, <2>1, <2>2 DEF Grows
  <2>4. h \in j.ever => h # acct'.pointer
    BY <1>1, <1>2, <2>2 DEF Fit, PassOK
  <2>5. ASSUME j.sweep[h].at \in {"read", "revoked", "digested"}
        PROVE  /\ Condemned(h)' /\ j.sweep[h].del <= Embedded(h)'
               /\ \A x \in visited' : x[2] = h =>
                    IF j.sweep[h].at = "digested"
                    THEN x[1] \in digest'[h] ELSE x[1] \in j.sweep[h].seen
    <3>1. Condemned(h)
      BY <2>2, <2>5
    <3>2. Condemned(h)'
      BY <2>1, <3>1, CondemnedStays
    <3>3. j.sweep[h].del <= Embedded(h)'
      <4>1. /\ j.sweep[h].del \in Nat /\ Embedded(h) \in Nat
            /\ j.sweep[h].del <= Embedded(h) /\ Embedded(h) <= Embedded(h)'
        BY <1>3, <2>1, <2>2, <2>5, Given DEF Collection, Grows
      <4>2. Embedded(h)' \in Nat
        BY <1>3, <2>1, <4>1 DEF Grows
      <4> QED
        BY <4>1, <4>2
    <3>4. \A x \in visited' : x[2] = h => x \in visited
      BY <1>1, <3>1 DEF Evolves, BookEvolves, Condemned, PointerOK
    <3>5. \A v \in digest[h] : v \in digest'[h]
      BY <2>1 DEF Evolves, BookEvolves
    <3> QED
      BY <2>2, <2>5, <3>2, <3>3, <3>4, <3>5
  <2> QED
    BY <2>3, <2>4, <2>5
<1>7. RetireOK(j)'
  BY <1>1, <1>2 DEF Fit, RetireOK
<1>8. OldOK(j)'
  <2>1. OldOK(j) /\ ViewOK(j) /\ j.old \in Nat
    BY <1>1 DEF Fit, Job
  <2>2. CASE j.pc \notin {"mint", "genesis", "install", "revoke", "renew", "embedded"}
    BY <1>1, <2>2 DEF OldOK
  <2>3. CASE j.pc \in {"mint", "genesis", "install", "revoke", "renew", "embedded"}
    <3>1. PICK v \in Gen : v = j.view
      BY <1>1, <2>1, <2>3 DEF ViewOK
    <3> DEFINE o == j.old
               n == Embedded(v)
               m == Embedded(v)'
    <3>2. n <= m /\ m \in Nat /\ \A i \in 1 .. n : gen'[v].dels[i] = gen[v].dels[i]
      BY <1>3 DEF Grows
    <3>3. n \in Nat /\ o <= n
      BY <2>1, <2>3, <3>1, Given DEF OldOK
    <3> HIDE DEF n, m
    <3>4. o <= m /\ (o < n => o < m) /\ (o # 0 => gen'[v].dels[o] = gen[v].dels[o])
      BY <2>1, <3>2, <3>3
    <3>5. Listed' \subseteq Listed
      BY <1>2 DEF Listed
    <3> QED
      BY <1>1, <2>1, <3>1, <3>4, <3>5 DEF OldOK, n, m
  <2> QED
    BY <2>2, <2>3
<1>9. ClientOK(b, j)'
  BY <1>1, <1>2 DEF Fit, ClientOK
<1>10. ASSUME NEW r \in out' \ overtaken' PROVE CarryOK(b, j, r)'
  <2>1. CASE r \in out \ overtaken
    <3>1. CarryOK(b, j, r) /\ RetiredOK(r)
      BY <1>1, <2>1, Given DEF Fit, Shared
    <3>2. j.pc = "ensure" => r \notin gen'[j.view].rungs
      <4> SUFFICES ASSUME j.pc = "ensure" PROVE r \notin gen'[j.view].rungs
        OBVIOUS
      <4>1. j.view \in acct.ever
        BY <1>1 DEF Fit, ViewOK
      <4> QED
        BY <1>1, <1>3, <3>1, <4>1 DEF CarryOK, Grows, RetiredOK
    <3>3. r \in j.set => /\ b \in Client /\ j.view \in acct'.ever
                              /\ j.view # acct'.pointer
      BY <1>2, <3>1 DEF CarryOK
    <3> QED
      BY <1>1, <3>1, <3>2, <3>3 DEF CarryOK
  <2>2. CASE r \notin out \ overtaken
    <3>1. Without(j, r)
      BY <1>10, <2>2
    <3> QED
      BY <1>1, <3>1 DEF Without, CarryOK
  <2> QED
    BY <2>1, <2>2
<1> QED
  BY <1>4, <1>5, <1>6, <1>7, <1>8, <1>9, <1>10 DEF Fit

\* The other ceremonies keep what they hold.
LEMMA OthersKeep ==
  ASSUME IInv, NEW a, Evolves(a), NEW b \in Actor, b # a
  PROVE  JobOK(b)'
<1>1. PICK j \in Job : j = job[b]
  BY Given
<1>2. Fit(b, j) /\ MintOK(b, j) /\ job'[b] = j
  BY <1>1, Given DEF JobOK, Evolves, JobEvolves
<1>3. \A r \in out' \ overtaken' : r \in out \ overtaken \/ Without(j, r)
  BY <1>1 DEF Evolves, BookEvolves
<1>4. Fit(b, j)'
  BY <1>2, <1>3, FitKeeps
<1>5. MintOK(b, j)'
  <2>1. CASE j.pc \notin Minting
    BY <1>2, <2>1 DEF MintOK
  <2>2. CASE j.pc \in Minting
    <3>1. PICK g : g = j.new
      OBVIOUS
    <3>2. Spared(g) /\ Minted(b)
      BY <1>1, <2>2, <3>1 DEF Evolves, GenEvolves, Minted
    <3>3. /\ g \in Gen /\ g \notin acct.ever /\ gen[g].at # "unborn"
          /\ gen[g].at = "live" => ~gen[g].quiet
          /\ gen[g].dead = {}
          /\ j.pc = "genesis" => gen[g].dels = <<>>
          /\ g \in unread \/ gen[g].at = IF j.pc = "genesis" THEN "bare" ELSE "live"
          /\ j.pc \in Written => gen[g].rungs = j.set
          /\ b \in Credential => b \in j.set
      BY <1>2, <2>2, <3>1 DEF MintOK
    <3>4. g \notin acct'.ever
      <4>1. a \in Actor /\ Minted(a) => g # job[a].new
        BY <1>1, <3>1, <3>2, Given DEF Unique
      <4> QED
        BY <3>3, <4>1 DEF Evolves, AcctEvolves
    <3>5. gen[g] \in Generation /\ unread \subseteq unread'
      BY <3>3, Given DEF Evolves, BookEvolves
    <3>6. /\ gen'[g].at # "unborn"
          /\ gen'[g].at = "live" => ~gen'[g].quiet
          /\ gen'[g].dead = {} /\ gen'[g].dels = gen[g].dels /\ gen'[g].rungs = gen[g].rungs
          /\ g \in unread' \/ gen'[g].at = gen[g].at
      BY <3>2, <3>3, <3>5 DEF Spared, Generation
    <3> QED
      BY <3>1, <3>3, <3>4, <3>5, <3>6 DEF MintOK
  <2> QED
    BY <2>1, <2>2
<1> QED
  BY <1>2, <1>4, <1>5 DEF JobOK

\* Two ceremonies never hold the same generation.
LEMMA UniqueStays ==
  ASSUME IInv, NEW a, Evolves(a)
  PROVE  Unique'
<1> SUFFICES ASSUME NEW b \in Actor, NEW d \in Actor, Minted(b)', Minted(d)', b # d
             PROVE  job'[b].new # job'[d].new
  BY DEF Unique
<1>1. \A e \in Actor : e # a => job'[e] = job[e]
  BY DEF Evolves, JobEvolves
<1>2. \A e \in Actor : e # a /\ Minted(e)' =>
        Minted(e) /\ gen[job[e].new].at # "unborn"
  BY <1>1, Given DEF Minted, JobOK, MintOK
<1>3. ASSUME NEW e \in Actor, e # a, a \in Actor, Minted(a)', Minted(e)'
      PROVE  job'[a].new # job'[e].new
  BY <1>1, <1>2, <1>3, Given DEF Evolves, JobEvolves, Unique
<1>4. CASE b # a /\ d # a
  BY <1>1, <1>2, <1>4, Given DEF Unique
<1> QED
  BY <1>3, <1>4

\* What is left of a step: the types, the shared state and the actor's own job.
LEMMA Advance ==
  ASSUME IInv, NEW a, Evolves(a), TypeOK', Shared', a \in Actor => JobOK(a)'
  PROVE  IInv'
<1>1. \A b \in Actor : JobOK(b)'
  BY OthersKeep
<1> QED
  BY <1>1, UniqueStays DEF IInv, Core

(***************************************************************************)
(* The resting job.                                                        *)
(***************************************************************************)
\* It is one.
LEMMA IdleTyped ==
  /\ Idle \in Job /\ Idle.pc = "idle" /\ Idle.cred = None /\ Idle.retire = None
  /\ Idle.set = {} /\ Idle.new = None /\ Idle.old = 0 /\ Idle.view = None
  /\ DOMAIN Idle.sweep = {}
<1>1. <<>> \in [{} -> Collection]
  <2>1. <<>> \in Seq(Collection) /\ Len(<<>>) = 0
    OBVIOUS
  <2>2. <<>> \in [1 .. 0 -> Collection]
    BY <2>1, LenProperties
  <2> QED
    BY <2>2
<1>2. <<>> \in UNION {[S -> Collection] : S \in SUBSET Gen}
  BY <1>1
<1> QED
  BY <1>1, <1>2 DEF Idle, Job, Steps

\* It fits any state.
LEMMA IdleFits ==
  ASSUME TypeOK', NEW b
  PROVE  Fit(b, Idle)' /\ MintOK(b, Idle)'
<1>1. \A r \in out' : r # None
  BY AnnexAssumption DEF TypeOK, AnnexAssumption
<1> QED
  BY <1>1, IdleTyped DEF Fit, ViewOK, PassOK, SweepOK, RetireOK, OldOK, ClientOK, CarryOK,
                         MintOK, Minting

(***************************************************************************)
(* Frames.                                                                 *)
(***************************************************************************)
\* The account and the Space stay.
LEMMA Still ==
  ASSUME IInv, NEW a
  PROVE  /\ acct' = acct => AcctEvolves(a)
         /\ gen' = gen => GenEvolves(a)
<1>1. acct' = acct => AcctEvolves(a)
  BY DEF AcctEvolves
<1>2. ASSUME gen' = gen, NEW g \in Gen PROVE Grows(g)
  <2>1. Embedded(g)' = Embedded(g) /\ Embedded(g) \in Nat
    BY <1>2, Given DEF Embedded
  <2> QED
    BY <1>2, <2>1 DEF Grows
<1> QED
  BY <1>1, <1>2 DEF GenEvolves, Spared

\* The shared state where only jobs move.
LEMMA SharedStill ==
  ASSUME IInv, NEW a, UNCHANGED <<acct, gen, visited, out, overtaken>>,
         \A b \in Actor \ {a} : job'[b] = job[b], BookEvolves(a), torn \subseteq torn',
         a \in Actor /\ job[a].pc = "point" /\ job[a].old # 0 =>
           job[a].view \in torn' \/ job[a].view # acct.pointer
  PROVE  Shared'
<1>1. /\ PointerOK /\ StrandedOK /\ unread \subseteq unread'
      /\ \A g \in Gen : GenOK(g) /\ \A v \in digest[g] : v \in digest'[g]
      /\ visited \subseteq Nat \X Gen
  BY Given DEF BookEvolves, TypeOK
<1>2. PointerOK'
  BY <1>1 DEF PointerOK, PointedStands, Live
<1>3. StrandedOK'
  <2>1. Stranded' <=> Stranded
    BY DEF Stranded, Live, Embedded, Listed
  <2>2. CASE \E c \in Client : /\ job[c].pc = "point" /\ job[c].old # 0
                               /\ job[c].view = acct.pointer
    <3>1. PICK c \in Client : /\ job[c].pc = "point" /\ job[c].old # 0
                              /\ job[c].view = acct.pointer
      BY <2>2
    <3>2. c \in Actor /\ (c # a => job'[c] = job[c])
      BY DEF Actor
    <3> QED
      BY <3>1, <3>2 DEF StrandedOK
  <2> QED
    BY <1>1, <2>1, <2>2 DEF StrandedOK
<1>4. \A g \in Gen : GenOK(g)'
  BY <1>1 DEF GenOK, Embedded
<1>5. ASSUME NEW x \in visited' PROVE VisitOK(x)'
  <2>1. x[2] \in Gen /\ VisitOK(x)
    BY <1>1, Given DEF Shared
  <2> QED
    BY <1>1, <2>1 DEF VisitOK
<1>6. \A r \in out' \ overtaken' : RetiredOK(r)'
  BY Given DEF Shared, RetiredOK
<1> QED
  BY <1>2, <1>3, <1>4, <1>5, <1>6 DEF Shared

\* A ceremony goes on, and writes nothing.
LEMMA JobStep ==
  ASSUME IInv, NEW a \in Actor, NEW j \in Job, job' = [job EXCEPT ![a] = j],
         UNCHANGED <<acct, gen, digest, visited, out, overtaken, unread>>,
         torn \subseteq torn', torn' \subseteq Gen, due' \in BOOLEAN,
         left' \in 0 .. MaxEvents,
         j.pc \in Minting => Minted(a) /\ j.new = job[a].new,
         job[a].pc = "point" /\ job[a].old # 0 =>
           job[a].view \in torn' \/ job[a].view # acct.pointer,
         Fit(a, j), MintOK(a, j)
  PROVE  IInv'
<1>1. TypeOK
  BY Given
<1>2. /\ job' \in [Actor -> Job] /\ job'[a] = j
      /\ \A b \in Actor \ {a} : job'[b] = job[b]
  BY <1>1 DEF TypeOK
<1>3. TypeOK'
  BY <1>1, <1>2 DEF TypeOK
<1>4. JobEvolves(a)
  BY <1>2 DEF JobEvolves, Minted
<1>5. BookEvolves(a)
  BY DEF BookEvolves
<1>6. Evolves(a)
  BY <1>4, <1>5, Still DEF Evolves
<1>7. Fit(a, j)'
  BY <1>6, FitKeeps
<1>8. MintOK(a, j)'
  BY DEF MintOK
<1>9. JobOK(a)'
  BY <1>2, <1>7, <1>8 DEF JobOK
<1>10. Shared'
  BY <1>2, <1>5, SharedStill
<1> QED
  BY <1>3, <1>6, <1>9, <1>10, Advance

\* A ceremony is over.
LEMMA StopStep ==
  ASSUME IInv, NEW a \in Actor, Stop(a),
         UNCHANGED <<acct, gen, digest, visited, out, overtaken, unread>>,
         torn \subseteq torn', torn' \subseteq Gen, due' \in BOOLEAN,
         left' \in 0 .. MaxEvents,
         job[a].pc = "point" /\ job[a].old # 0 =>
           job[a].view \in torn' \/ job[a].view # acct.pointer
  PROVE  IInv'
<1>1. TypeOK
  BY Given
<1>2. /\ job' \in [Actor -> Job] /\ job'[a] = Idle
      /\ \A b \in Actor \ {a} : job'[b] = job[b]
  BY <1>1, IdleTyped DEF TypeOK, Stop
<1>3. TypeOK'
  BY <1>1, <1>2 DEF TypeOK
<1>4. JobEvolves(a) /\ BookEvolves(a)
  BY <1>2, IdleTyped DEF JobEvolves, Minted, Minting, BookEvolves
<1>5. Evolves(a)
  BY <1>4, Still DEF Evolves
<1>6. JobOK(a)'
  BY <1>2, <1>3, IdleFits DEF JobOK
<1>7. Shared'
  BY <1>2, <1>4, SharedStill
<1> QED
  BY <1>3, <1>5, <1>6, <1>7, Advance

(***************************************************************************)
(* A write of one generation: g becomes r, by a step of a.                 *)
(***************************************************************************)
\* What keeps everyone else's readings of g.
EditOK(a, g, r) ==
  /\ r.at # "unborn"
  /\ \A v \in gen[g].visits : v \in r.visits
  /\ r.at = "live" /\ r.quiet => gen[g].at = "live" /\ gen[g].quiet
  /\ Embedded(g) <= Len(r.dels)
  /\ \A i \in 1 .. Embedded(g) : r.dels[i] = gen[g].dels[i]
  /\ g \in acct.ever => \A k \in r.rungs : k \in gen[g].rungs \/ k \in acct.standing
  /\ \/ g \in acct.ever \/ Condemned(g) \/ gen[g].at = "unborn"
     \/ a \in Actor /\ Minted(a) /\ g = job[a].new
     \/ r = [gen[g] EXCEPT !.at = "gone"] /\ g \in unread'

\* What keeps the shared state.
ShareOK(a, g, r) ==
  /\ \A i \in r.dead : i \in 1 .. Len(r.dels)
  /\ \A i \in 1 .. Len(r.dels) : r.dels[i] \in acct.standing => r.dels[i] \in r.rungs
  /\ r.at = gen[g].at \/ g # acct.pointer \/ g \in unread'
  /\ r.at = "gone" => \/ gen[g].at = "gone" \/ g \in unread'
                      \/ \A x \in visited : x[2] = g => x[1] \in digest'[g]
  /\ (g = acct.pointer /\ r.at = "live" /\ Len(r.dels) \in r.dead
        /\ r.dels[Len(r.dels)] \in Listed) =>
       \/ Stranded
       \/ a \in Client /\ job'[a].pc = "point" /\ job'[a].old # 0 /\ job'[a].view = g

\* Where it stands, what it is.
LEMMA Edited ==
  ASSUME IInv, NEW g \in Gen, NEW r \in Generation, gen' = [gen EXCEPT ![g] = r]
  PROVE  /\ gen' \in [Gen -> Generation] /\ gen'[g] = r
         /\ \A h \in Gen : h # g => gen'[h] = gen[h]
         /\ Embedded(g)' = Len(r.dels) /\ Len(r.dels) \in Nat
         /\ \A h \in Gen : h # g => Embedded(h)' = Embedded(h)
<1>1. gen \in [Gen -> Generation]
  BY Given DEF TypeOK
<1>2. /\ gen' \in [Gen -> Generation] /\ gen'[g] = r
      /\ \A h \in Gen : h # g => gen'[h] = gen[h]
  BY <1>1
<1>3. Len(r.dels) \in Nat
  BY DEF Generation
<1> QED
  BY <1>2, <1>3 DEF Embedded

\* The Space evolves.
LEMMA EditEvolves ==
  ASSUME IInv, NEW a, NEW g \in Gen, NEW r \in Generation,
         gen' = [gen EXCEPT ![g] = r], EditOK(a, g, r)
  PROVE  GenEvolves(a)
<1>1. ASSUME NEW h \in Gen PROVE Grows(h)
  <2>1. CASE h = g
    BY ZenonT(40), <2>1, Edited DEF Grows, EditOK
  <2>2. CASE h # g
    <3>1. gen'[h] = gen[h] /\ Embedded(h)' = Embedded(h)
      BY <2>2, Edited
    <3>2. Embedded(h) \in Nat
      BY Given
    <3> QED
      BY <3>1, <3>2 DEF Grows
  <2> QED
    BY <2>1, <2>2
<1>2. ASSUME NEW b \in Actor, b # a, Minted(b) PROVE Spared(job[b].new)
  <2>1. /\ job[b].new \in Gen /\ job[b].new \notin acct.ever
        /\ gen[job[b].new].at # "unborn"
    BY <1>2, Given DEF JobOK, MintOK, Minted
  <2>2. CASE job[b].new # g
    BY <2>1, <2>2, Edited DEF Spared
  <2>3. CASE job[b].new = g
    <3>1. ~Condemned(g)
      BY <1>2, <2>1, <2>3 DEF Condemned
    <3>2. ~(a \in Actor /\ Minted(a) /\ g = job[a].new)
      BY <1>2, <2>3, Given DEF Unique
    <3>3. r = [gen[g] EXCEPT !.at = "gone"] /\ g \in unread'
      BY <2>1, <2>3, <3>1, <3>2 DEF EditOK
    <3> QED
      BY <2>3, <3>3, Edited DEF Spared
  <2> QED
    BY <2>2, <2>3
<1> QED
  BY <1>1, <1>2 DEF GenEvolves

\* The shared state keeps its own; what is out for good is the caller's.
LEMMA EditShared ==
  ASSUME IInv, NEW a, NEW g \in Gen, NEW r \in Generation,
         gen' = [gen EXCEPT ![g] = r], EditOK(a, g, r), ShareOK(a, g, r),
         UNCHANGED <<acct, visited, torn>>, BookEvolves(a),
         \A b \in Actor \ {a} : job'[b] = job[b],
         a \in Actor => job[a].pc # "point",
         \A k \in out' \ overtaken' : RetiredOK(k)'
  PROVE  Shared'
<1>1. /\ PointerOK /\ StrandedOK /\ unread \subseteq unread'
      /\ \A h \in Gen : GenOK(h) /\ \A v \in digest[h] : v \in digest'[h]
      /\ visited \subseteq Nat \X Gen /\ acct.pointer \in Gen /\ acct.ever \subseteq Gen
  BY Given DEF BookEvolves, TypeOK
<1>2. /\ gen'[g] = r /\ \A h \in Gen : h # g => gen'[h] = gen[h]
      /\ Embedded(g)' = Len(r.dels)
      /\ \A h \in Gen : h # g => Embedded(h)' = Embedded(h)
  BY Edited
<1>3. PointerOK'
  <2>1. \A h \in acct.ever : gen'[h].at # "unborn"
    BY <1>1, <1>2 DEF PointerOK, EditOK
  <2>2. PointedStands'
    BY <1>1, <1>2 DEF PointerOK, PointedStands, Live, ShareOK
  <2> QED
    BY <1>1, <2>1, <2>2 DEF PointerOK
<1>4. StrandedOK'
  <2> SUFFICES ASSUME Stranded' PROVE StrandedOK'
    BY DEF StrandedOK
  <2>1. PICK p \in Gen : p = acct.pointer
    BY <1>1
  <2>2. /\ gen'[p].at = "live" /\ Embedded(p)' \in gen'[p].dead
        /\ gen'[p].dels[Embedded(p)'] \in Listed
    BY <2>1 DEF Stranded, Live, Listed, Embedded
  <2>3. \/ Stranded
        \/ a \in Client /\ job'[a].pc = "point" /\ job'[a].old # 0 /\ job'[a].view = p
    <3>1. CASE p = g
      BY <1>2, <2>1, <2>2, <3>1 DEF ShareOK
    <3>2. CASE p # g
      BY <1>2, <2>1, <2>2, <3>2, Given DEF Stranded, Live
    <3> QED
      BY <3>1, <3>2
  <2>4. CASE a \in Client /\ job'[a].pc = "point" /\ job'[a].old # 0 /\ job'[a].view = p
    BY <2>1, <2>4 DEF StrandedOK
  <2>5. CASE Stranded
    <3>1. CASE acct.pointer \in torn
      BY <3>1 DEF StrandedOK
    <3>2. CASE acct.pointer \notin torn
      <4>1. PICK c \in Client : /\ job[c].pc = "point" /\ job[c].old # 0
                                /\ job[c].view = acct.pointer
        BY <1>1, <2>5, <3>2 DEF StrandedOK
      <4>2. c \in Actor
        BY DEF Actor
      <4>3. job'[c] = job[c]
        BY <4>1, <4>2
      <4> QED
        BY <4>1, <4>3 DEF StrandedOK
    <3> QED
      BY <3>1, <3>2
  <2> QED
    BY <2>3, <2>4, <2>5
<1>5. ASSUME NEW h \in Gen PROVE GenOK(h)'
  <2>1. CASE h = g
    BY <1>2, <2>1 DEF GenOK, ShareOK, EditOK
  <2>2. CASE h # g
    BY <1>1, <1>2, <2>2 DEF GenOK
  <2> QED
    BY <2>1, <2>2
<1>6. ASSUME NEW x \in visited' PROVE VisitOK(x)'
  <2>1. x[2] \in Gen /\ VisitOK(x) /\ x \in visited
    BY <1>1, Given DEF Shared
  <2>2. CASE x[2] = g
    BY <1>1, <1>2, <2>1, <2>2 DEF VisitOK, EditOK, ShareOK
  <2>3. CASE x[2] # g
    BY <1>1, <1>2, <2>1, <2>3 DEF VisitOK
  <2> QED
    BY <2>2, <2>3
<1> QED
  BY <1>3, <1>4, <1>5, <1>6 DEF Shared

\* What is out for good stays out of what is written, when nothing is
\* reported out and the write adds only rungs that stand.
LEMMA EditRetired ==
  ASSUME IInv, NEW a, NEW g \in Gen, NEW r \in Generation,
         gen' = [gen EXCEPT ![g] = r], EditOK(a, g, r), UNCHANGED <<acct, out, overtaken>>
  PROVE  \A k \in out' \ overtaken' : RetiredOK(k)'
<1> SUFFICES ASSUME NEW k \in out \ overtaken PROVE RetiredOK(k)'
  OBVIOUS
<1>1. RetiredOK(k) /\ acct.pointer \in Gen /\ acct.pointer \in acct.ever
  BY Given DEF Shared, PointerOK
<1>2. k \notin gen'[acct.pointer].rungs
  BY <1>1, Edited DEF RetiredOK, EditOK
<1> QED
  BY <1>1, <1>2 DEF RetiredOK

\* A ceremony writes a generation and goes on.
LEMMA WriteStep ==
  ASSUME IInv, NEW a \in Actor, NEW j \in Job, job' = [job EXCEPT ![a] = j],
         NEW g \in Gen, NEW r \in Generation,
         gen' = [gen EXCEPT ![g] = r], EditOK(a, g, r), ShareOK(a, g, r),
         UNCHANGED <<acct, digest, visited, out, overtaken, torn>>,
         unread \subseteq unread', unread' \subseteq Gen,
         due' \in BOOLEAN, left' \in 0 .. MaxEvents,
         j.pc \in Minting => (Minted(a) /\ j.new = job[a].new) \/ gen[j.new].at = "unborn",
         job[a].pc # "point", Fit(a, j) \/ Fit(a, j)', MintOK(a, j)'
  PROVE  IInv'
<1>1. TypeOK
  BY Given
<1>2. /\ job' \in [Actor -> Job] /\ job'[a] = j
      /\ \A b \in Actor \ {a} : job'[b] = job[b]
  BY <1>1 DEF TypeOK
<1>3. TypeOK'
  BY <1>1, <1>2, Edited DEF TypeOK
<1>4. JobEvolves(a)
  BY <1>2 DEF JobEvolves, Minted
<1>5. BookEvolves(a)
  BY DEF BookEvolves
<1>6. Evolves(a)
  BY <1>4, <1>5, Still, EditEvolves DEF Evolves
<1>7. Fit(a, j)'
  BY <1>6, FitKeeps
<1>8. JobOK(a)'
  BY <1>2, <1>7 DEF JobOK
<1>9. \A k \in out' \ overtaken' : RetiredOK(k)'
  BY EditRetired
<1>10. Shared'
  BY <1>2, <1>5, <1>9, EditShared
<1> QED
  BY <1>3, <1>6, <1>8, <1>10, Advance

(***************************************************************************)
(* The steps that write nothing.                                           *)
(***************************************************************************)
\* The facts a step of a starts from.
LEMMA Own ==
  ASSUME IInv, NEW a \in Actor
  PROVE  /\ job[a] \in Job /\ Fit(a, job[a]) /\ MintOK(a, job[a])
         /\ \A r \in out : r # None
         /\ torn \subseteq Gen /\ unread \subseteq Gen
         /\ due \in BOOLEAN /\ left \in 0 .. MaxEvents
         /\ acct.standing \subseteq Credential /\ acct.enrolled \subseteq Client
         /\ Client \subseteq Actor /\ Credential \subseteq Actor
         /\ \A r \in out \ overtaken : RetiredOK(r)
<1>1. job[a] \in Job /\ JobOK(a) /\ TypeOK /\ \A r \in out \ overtaken : RetiredOK(r)
  BY Given DEF Shared
<1>2. \A r \in out : r # None
  BY <1>1, AnnexAssumption DEF TypeOK, AnnexAssumption
<1> QED
  BY <1>1, <1>2 DEF JobOK, TypeOK, Actor

\* The environment's budget.
LEMMA Budget ==
  ASSUME IInv, Disturb
  PROVE  left' \in 0 .. MaxEvents
  BY Given, AnnexAssumption DEF Disturb, TypeOK, AnnexAssumption

\* A ceremony is not started by one that is on its way.
LEMMA BeginStep ==
  ASSUME IInv, NEW a \in Actor, Begins(a), NEW j \in Job, job' = [job EXCEPT ![a] = j],
         UNCHANGED <<acct, gen, due, digest, visited, out, overtaken, unread, torn>>,
         j.pc \in {"head", "ensure", "doomed"}, j.retire = None, j.set = {}, j.old = 0,
         j.view = acct.pointer, j.cred \in acct.standing \/ j.cred = None,
         j.pc = "doomed" => j.cred # None, j.pc = "ensure" => j.cred = a,
         a \in Client => a \in acct.enrolled,
         a \in Client /\ j.pc = "doomed" => acct.enrolled = {a}
  PROVE  IInv'
<1>1. /\ \A r \in out : r # None /\ torn \subseteq Gen /\ due \in BOOLEAN
      /\ \A r \in out \ overtaken : RetiredOK(r)
  BY Own
<1>2. left' \in 0 .. MaxEvents /\ job[a].pc = "idle"
  BY Budget DEF Begins
<1>3. ViewOK(j)
  BY Given DEF ViewOK, PointerOK
<1>4. \A r \in out \ overtaken : CarryOK(a, j, r)
  BY <1>1 DEF CarryOK, RetiredOK
<1>5. Fit(a, j)
  BY <1>3, <1>4 DEF Fit, PassOK, SweepOK, RetireOK, OldOK, ClientOK
<1>6. MintOK(a, j) /\ j.pc \notin Minting
  BY DEF MintOK, Minting
<1>7. torn \subseteq torn' /\ torn' \subseteq Gen /\ due' \in BOOLEAN
  BY <1>1, Own
<1> QED
  BY <1>2, <1>5, <1>6, <1>7, JobStep

\* StartPass, StartVisit, ForgetLast.
LEMMA StartStep ==
  ASSUME IInv, NEW a \in Actor,
         \/ a \in Client /\ \E k \in Credential \cup {None} : StartPass(a, k)
         \/ a \in Credential /\ StartVisit(a)
         \/ a \in Client /\ \E k \in Credential : ForgetLast(a, k)
  PROVE  IInv'
<1>1. /\ acct.pointer \in Gen /\ left \in Nat /\ Listed \subseteq Actor
      /\ acct.standing \subseteq Credential
      /\ Idle \in Job /\ Idle.set = {} /\ Idle.retire = None /\ Idle.old = 0
      /\ (a \in Credential => a \notin Client) /\ \A k \in Credential : k # None
  <2>1. left \in Nat
    BY Given, AnnexAssumption DEF TypeOK, AnnexAssumption
  <2>2. acct.standing \subseteq Credential /\ acct.enrolled \subseteq Client
    BY Given DEF TypeOK
  <2>3. (a \in Credential => a \notin Client) /\ \A k \in Credential : k # None
    BY AnnexAssumption DEF AnnexAssumption
  <2> QED
    BY <2>1, <2>2, <2>3, Given, IdleTyped DEF Listed, Actor
<1>2. ASSUME NEW k \in Credential \cup {None}, a \in Client, StartPass(a, k) PROVE IInv'
  <2> DEFINE j == [Idle EXCEPT !.pc = "head", !.cred = k, !.view = acct.pointer]
  <2>1. /\ j \in Job /\ j.pc = "head" /\ j.retire = None /\ j.set = {} /\ j.cred = k
        /\ j.view = acct.pointer /\ j.old = 0
    BY ZenonT(40), <1>1 DEF Job, Steps
  <2>2. /\ job' = [job EXCEPT ![a] = j] /\ Begins(a) /\ a \in acct.enrolled
        /\ k \in acct.standing \/ k = None
        /\ UNCHANGED <<acct, gen, due, digest, visited, out, overtaken, unread, torn>>
    BY <1>2 DEF StartPass
  <2> HIDE DEF j
  <2> QED
    BY <2>1, <2>2, BeginStep
<1>3. ASSUME a \in Credential, StartVisit(a) PROVE IInv'
  <2> DEFINE j == [Idle EXCEPT !.pc = "ensure", !.cred = a, !.view = acct.pointer,
                               !.doc = Listed, !.visit = left]
  <2>1. /\ j \in Job /\ j.pc = "ensure" /\ j.retire = None /\ j.set = {} /\ j.cred = a
        /\ j.view = acct.pointer /\ j.old = 0
    BY ZenonT(40), <1>1, <1>3 DEF Job, Steps
  <2>2. /\ job' = [job EXCEPT ![a] = j] /\ Begins(a) /\ a \in acct.standing
        /\ UNCHANGED <<acct, gen, due, digest, visited, out, overtaken, unread, torn>>
    BY <1>3 DEF StartVisit
  <2> HIDE DEF j
  <2> QED
    BY <1>1, <1>3, <2>1, <2>2, BeginStep
<1>4. ASSUME NEW k \in Credential, a \in Client, ForgetLast(a, k) PROVE IInv'
  <2> DEFINE j == [Idle EXCEPT !.pc = "doomed", !.cred = k, !.view = acct.pointer,
                               !.doc = Listed]
  <2>1. /\ j \in Job /\ j.pc = "doomed" /\ j.retire = None /\ j.set = {} /\ j.cred = k
        /\ j.view = acct.pointer /\ j.old = 0
    BY ZenonT(40), <1>1 DEF Job, Steps
  <2>2. /\ job' = [job EXCEPT ![a] = j] /\ Begins(a) /\ acct.enrolled = {a}
        /\ k \in acct.standing /\ a \in acct.enrolled
        /\ UNCHANGED <<acct, gen, due, digest, visited, out, overtaken, unread, torn>>
    BY <1>4 DEF ForgetLast
  <2> HIDE DEF j
  <2> QED
    BY <1>1, <2>1, <2>2, BeginStep
<1> QED
  BY <1>2, <1>3, <1>4

\* A ceremony goes on, on what it holds.
LEMMA MoveStep ==
  ASSUME IInv, NEW a \in Actor, NEW j \in Job, job' = [job EXCEPT ![a] = j],
         UNCHANGED <<acct, gen, due, digest, visited, out, overtaken, unread, torn, left>>,
         j.pc \in Minting => Minted(a) /\ j.new = job[a].new,
         job[a].pc # "point", Fit(a, j), MintOK(a, j)
  PROVE  IInv'
<1>1. torn \subseteq torn' /\ torn' \subseteq Gen /\ due' \in BOOLEAN /\ left' \in 0 .. MaxEvents
  BY Own
<1> QED
  BY <1>1, JobStep

\* The same of a ceremony that is over.
LEMMA HaltStep ==
  ASSUME IInv, NEW a \in Actor, Stop(a), job[a].pc # "point",
         UNCHANGED <<acct, gen, due, digest, visited, out, overtaken, unread, torn, left>>
  PROVE  IInv'
<1>1. torn \subseteq torn' /\ torn' \subseteq Gen /\ due' \in BOOLEAN /\ left' \in 0 .. MaxEvents
  BY Own
<1> QED
  BY <1>1, StopStep

\* The process of a ceremony dies.
LEMMA CrashStep ==
  ASSUME IInv, NEW a \in Actor, Crash(a)
  PROVE  IInv'
<1>1. left' \in 0 .. MaxEvents
  BY Budget DEF Crash
<1>2. /\ Stop(a) /\ UNCHANGED <<acct, gen, due, digest, visited, out, overtaken, unread>>
      /\ torn' = IF job[a].pc = "point" /\ job[a].old # 0
                 THEN torn \cup {job[a].view} ELSE torn
  BY DEF Crash
<1>3. /\ due' \in BOOLEAN /\ torn \subseteq Gen /\ acct.ever \subseteq Gen
      /\ job[a].pc = "point" => job[a].view \in acct.ever
  BY <1>2, Own, Given DEF Fit, ViewOK
<1>4. torn \subseteq torn' /\ torn' \subseteq Gen
  BY <1>2, <1>3
<1>5. job[a].pc = "point" /\ job[a].old # 0 => job[a].view \in torn'
  BY <1>2
<1> QED
  BY <1>1, <1>2, <1>3, <1>4, <1>5, StopStep

\* A pass goes on to collect.
LEMMA CollectStepOK ==
  ASSUME IInv, NEW a \in Client, NEW p, NEW e, Collect(a, p, e),
         UNCHANGED <<acct, gen, due, digest, visited, out, overtaken, unread, torn, left>>,
         job[a].pc # "point", job[a].pc # "idle", p \in acct.ever, e \subseteq acct.ever,
         \A h \in acct.ever \ e : gen[h].at = "live" => ~gen[h].quiet,
         \A h \in e : h # acct.pointer \/ h = p
  PROVE  IInv'
<1> DEFINE j == [Idle EXCEPT !.pc = "list", !.view = p, !.ever = e]
<1>1. /\ a \in Actor /\ acct.ever \subseteq Gen /\ a \in acct.enrolled
      /\ \A r \in out : r # None
  <2>1. a \in Actor
    BY DEF Actor
  <2> QED
    BY <2>1, Own, Given DEF Fit, ClientOK
<1>2. /\ j \in Job /\ j.pc = "list" /\ j.view = p /\ j.ever = e /\ j.set = {}
      /\ j.cred = None /\ j.retire = None
  BY <1>1, IdleTyped DEF Job, Steps
<1>3. job' = [job EXCEPT ![a] = j]
  BY DEF Collect
<1> HIDE DEF j
<1>4. ViewOK(j) /\ PassOK(j) /\ SweepOK(j) /\ RetireOK(j) /\ OldOK(j) /\ ClientOK(a, j)
  BY <1>1, <1>2 DEF ViewOK, PassOK, SweepOK, RetireOK, OldOK, ClientOK
<1>5. \A r \in out \ overtaken : CarryOK(a, j, r)
  BY <1>1, <1>2 DEF CarryOK
<1>6. Fit(a, j) /\ MintOK(a, j) /\ j.pc \notin Minting
  BY <1>2, <1>4, <1>5 DEF Fit, MintOK, Minting
<1> QED
  BY <1>1, <1>2, <1>3, <1>6, MoveStep

\* A replacement is decided: the standing set to restate, less what is
\* dropped.
LEMMA ReplaceStep ==
  ASSUME IInv, NEW a \in Client, NEW drop, Replace(a, drop),
         UNCHANGED <<acct, gen, due, digest, visited, out, overtaken, unread, torn, left>>,
         job[a].pc \in {"log", "swapLog"}, job[a].cred # None,
         job[a].retire # None => job[a].retire \in drop
  PROVE  IInv'
<1> DEFINE g == job[a].view
           set == Restated(g, drop) \cup {job[a].cred}
           old == IF Live(g) THEN Embedded(g) ELSE 0
           j == [job[a] EXCEPT !.pc = "mint", !.set = set, !.old = old]
<1>1. /\ a \in Actor /\ job[a] \in Job /\ Fit(a, job[a]) /\ a \notin Credential
      /\ \A r \in out \ overtaken : RetiredOK(r)
  <2>1. a \in Actor /\ a \notin Credential
    BY AnnexAssumption DEF Actor, AnnexAssumption
  <2> QED
    BY <2>1, Own
<1>2. g \in acct.ever /\ g \in Gen
  BY <1>1, Given DEF Fit, ViewOK
<1>3. /\ set \in SUBSET Credential
      /\ \A r \in set : r = job[a].cred \/ (r \in gen[g].rungs /\ r \notin drop)
  <2>1. gen[g].rungs \subseteq Credential /\ job[a].cred \in Credential
    BY <1>1, <1>2, Given DEF Generation, Job
  <2> QED
    BY <2>1 DEF Restated
<1>4. old \in Nat /\ old <= Embedded(g)
  BY <1>2, Given
<1>5. job' = [job EXCEPT ![a] = j]
  BY DEF Replace
<1> HIDE DEF set, old
<1>6. /\ j \in Job /\ j.pc = "mint" /\ j.set = set /\ j.old = old /\ j.view = g
      /\ j.cred = job[a].cred /\ j.retire = job[a].retire
  BY <1>1, <1>3, <1>4 DEF Job, Steps
<1> HIDE DEF j
<1>7. ViewOK(j) /\ PassOK(j) /\ SweepOK(j) /\ OldOK(j)
  BY <1>2, <1>4, <1>6 DEF ViewOK, PassOK, SweepOK, OldOK
<1>8. RetireOK(j)
  BY <1>1, <1>3, <1>6 DEF Fit, RetireOK
<1>9. ClientOK(a, j)
  BY <1>1, <1>6 DEF Fit, ClientOK
<1>10. ASSUME NEW r \in out \ overtaken PROVE CarryOK(a, j, r)
  <2>1. CarryOK(a, job[a], r) /\ RetiredOK(r)
    BY <1>1 DEF Fit
  <2> QED
    BY <1>2, <1>3, <1>6, <2>1 DEF CarryOK, RetiredOK
<1>11. Fit(a, j) /\ MintOK(a, j) /\ j.pc \notin Minting
  BY <1>1, <1>6, <1>7, <1>8, <1>9, <1>10 DEF Fit, MintOK, Minting
<1> QED
  BY <1>1, <1>5, <1>6, <1>11, MoveStep

\* A ceremony goes on to a stage that asks nothing of what it holds but its
\* reading of the account.
LEMMA GotoStep ==
  ASSUME IInv, NEW a \in Actor, NEW pc, Goto(a, pc),
         UNCHANGED <<acct, gen, due, digest, visited, out, overtaken, unread, torn, left>>,
         \/ job[a].pc = "strike" /\ pc = "swapHead"
         \/ job[a].pc = "swapHead" /\ pc = "swapLog"
         \/ job[a].pc = "ensure" /\ pc = "target"
         \/ job[a].pc \in {"doomed", "embedded"} /\ pc = "remove"
  PROVE  IInv'
<1> DEFINE j == [job[a] EXCEPT !.pc = pc]
<1>1. job[a] \in Job /\ Fit(a, job[a])
  BY Own
<1>2. /\ j \in Job /\ j.pc = pc /\ j.view = job[a].view /\ j.cred = job[a].cred
      /\ j.retire = job[a].retire /\ j.set = job[a].set /\ j.drop = job[a].drop
  BY <1>1 DEF Job, Steps
<1>3. job' = [job EXCEPT ![a] = j]
  BY DEF Goto
<1> HIDE DEF j
<1>4. ViewOK(j) /\ PassOK(j) /\ SweepOK(j) /\ RetireOK(j) /\ OldOK(j) /\ ClientOK(a, j)
  BY <1>1, <1>2 DEF Fit, ViewOK, PassOK, SweepOK, RetireOK, OldOK, ClientOK
<1>5. \A r \in out \ overtaken : CarryOK(a, j, r)
  BY <1>1, <1>2 DEF Fit, CarryOK
<1>6. Fit(a, j) /\ MintOK(a, j) /\ j.pc \notin Minting /\ job[a].pc # "point"
  BY <1>2, <1>4, <1>5 DEF Fit, MintOK, Minting
<1> QED
  BY <1>2, <1>3, <1>6, MoveStep

\* PassHead, PassLog, Reread: the pass up to its decision.
LEMMA PassDecides ==
  ASSUME IInv, NEW c \in Client, PassHead(c) \/ PassLog(c) \/ Reread(c)
  PROVE  IInv'
<1>1. /\ UNCHANGED <<acct, gen, due, digest, visited, out, overtaken, unread, torn, left>>
      /\ job[c].pc \in {"head", "log", "reread"}
  BY DEF PassHead, PassLog, Reread
<1>2. c \in Actor /\ job[c] \in Job /\ Fit(c, job[c]) /\ PointerOK /\ acct.ever \subseteq Gen
  <2>1. c \in Actor
    BY DEF Actor
  <2> QED
    BY <2>1, Own, Given
<1>3. ASSUME Collect(c, acct.pointer, acct.ever) PROVE IInv'
  <2>1. acct.pointer \in acct.ever /\ acct.ever \ acct.ever = {}
    BY <1>2 DEF PointerOK
  <2>2. \A h \in acct.ever : h # acct.pointer \/ h = acct.pointer
    OBVIOUS
  <2>3. \A h \in acct.ever \ acct.ever : gen[h].at = "live" => ~gen[h].quiet
    BY <2>1
  <2> QED
    BY <1>1, <1>3, <2>1, <2>2, <2>3, CollectStepOK
<1>4. CASE PassHead(c)
  <2>1. CASE acct.pointer = job[c].view
    <3> DEFINE j == [job[c] EXCEPT !.pc = "log", !.ever = acct.ever]
    <3>1. /\ j \in Job /\ j.pc = "log" /\ j.view = job[c].view /\ j.cred = job[c].cred
          /\ j.retire = job[c].retire /\ j.set = job[c].set /\ j.ever = acct.ever
      BY <1>2 DEF Job, Steps
    <3>2. job' = [job EXCEPT ![c] = j] /\ job[c].pc = "head"
      BY <1>4, <2>1 DEF PassHead
    <3> HIDE DEF j
    <3>3. ViewOK(j) /\ SweepOK(j) /\ RetireOK(j) /\ OldOK(j) /\ ClientOK(c, j)
      BY <1>2, <3>1, <3>2 DEF Fit, ViewOK, SweepOK, RetireOK, OldOK, ClientOK
    <3>4. PassOK(j)
      BY <2>1, <3>1 DEF PassOK
    <3>5. \A r \in out \ overtaken : CarryOK(c, j, r)
      BY <1>2, <3>1, <3>2 DEF Fit, CarryOK
    <3>6. Fit(c, j) /\ MintOK(c, j) /\ j.pc \notin Minting /\ job[c].pc # "point"
      BY <3>1, <3>2, <3>3, <3>4, <3>5 DEF Fit, MintOK, Minting
    <3> QED
      BY <1>1, <1>2, <3>1, <3>2, <3>6, MoveStep
  <2>2. CASE acct.pointer # job[c].view
    BY <1>3, <1>4, <2>2 DEF PassHead
  <2> QED
    BY <2>1, <2>2
<1>5. CASE PassLog(c)
  <2>1. job[c].pc = "log" /\ job[c].retire = None /\ job[c].view \in acct.ever
    BY <1>2, <1>5 DEF PassLog, Fit, RetireOK, ViewOK
  <2>2. CASE SwapOwed(c)
    <3>1. Replace(c, {}) /\ job[c].cred # None
      BY <1>5, <2>2 DEF PassLog, SwapOwed
    <3> QED
      BY <1>1, <2>1, <3>1, ReplaceStep
  <2>3. CASE ~SwapOwed(c)
    <3>1. Collect(c, job[c].view, job[c].ever)
      BY <1>5, <2>3 DEF PassLog
    <3>2. /\ job[c].ever \subseteq acct.ever
          /\ \A h \in acct.ever \ job[c].ever : gen[h].at = "live" => ~gen[h].quiet
          /\ \A h \in job[c].ever : h # acct.pointer \/ h = job[c].view
      BY <1>2, <2>1 DEF Fit, PassOK
    <3> QED
      BY <1>1, <2>1, <3>1, <3>2, CollectStepOK
  <2> QED
    BY <2>2, <2>3
<1>6. CASE Reread(c)
  BY <1>3, <1>6 DEF Reread
<1> QED
  BY <1>4, <1>5, <1>6

\* List: every generation but the one the pass read as pointed at.
LEMMA ListStep ==
  ASSUME IInv, NEW c \in Client, List(c)
  PROVE  IInv'
<1> DEFINE stale == {g \in Gen : gen[g].at \in {"bare", "live"}} \ {job[c].view}
           e == [at |-> "listed", seen |-> {}, del |-> 0]
           w == [g \in stale |-> e]
           j == [job[c] EXCEPT !.pc = "sweep", !.view = None, !.sweep = w]
<1>1. /\ UNCHANGED <<acct, gen, due, digest, visited, out, overtaken, unread, torn, left>>
      /\ job[c].pc = "list"
  BY DEF List
<1>2. c \in Actor /\ job[c] \in Job /\ Fit(c, job[c])
  <2>1. c \in Actor
    BY DEF Actor
  <2> QED
    BY <2>1, Own
<1>3. CASE stale = {}
  <2>1. Stop(c)
    BY <1>3 DEF List
  <2> QED
    BY <1>1, <1>2, <2>1, HaltStep
<1>4. CASE stale # {}
  <2>1. job' = [job EXCEPT ![c] = j]
    BY <1>4 DEF List
  <2>2. e \in Collection /\ e.at = "listed"
    BY DEF Collection
  <2>3. stale \in SUBSET Gen
    OBVIOUS
  <2> HIDE DEF e
  <2>4. w \in [stale -> Collection] /\ DOMAIN w = stale /\ \A h \in stale : w[h] = e
    BY <2>2
  <2>5. \A h \in stale : gen[h].at # "unborn" /\ h # job[c].view
    OBVIOUS
  <2> HIDE DEF stale, w
  <2>6. w \in UNION {[S -> Collection] : S \in SUBSET Gen}
    BY <2>3, <2>4
  <2>7. /\ j \in Job /\ j.pc = "sweep" /\ j.view = None /\ j.sweep = w
        /\ j.cred = job[c].cred /\ j.retire = job[c].retire /\ j.set = job[c].set
        /\ j.ever = job[c].ever
    BY <1>2, <2>6 DEF Job, Steps
  <2> HIDE DEF j
  <2>8. ViewOK(j) /\ RetireOK(j) /\ OldOK(j) /\ ClientOK(c, j) /\ j.set = {}
    BY <1>1, <1>2, <2>7 DEF Fit, ViewOK, RetireOK, OldOK, ClientOK, PassOK
  <2>9. PassOK(j)
    BY <1>1, <1>2, <2>7, <2>8 DEF Fit, PassOK
  <2>10. SweepOK(j)
    <3>1. \A h \in job[c].ever : h # acct.pointer \/ h = job[c].view
      BY <1>1, <1>2 DEF Fit, PassOK
    <3> QED
      BY <2>2, <2>4, <2>5, <2>7, <3>1 DEF SweepOK, EntryOK
  <2>11. \A r \in out \ overtaken : CarryOK(c, j, r)
    BY <1>2, <2>7, <2>8 DEF Fit, CarryOK
  <2>12. Fit(c, j) /\ MintOK(c, j) /\ j.pc \notin Minting /\ job[c].pc # "point"
    BY <1>1, <2>7, <2>8, <2>9, <2>10, <2>11 DEF Fit, MintOK, Minting
  <2> QED
    BY <1>1, <1>2, <2>1, <2>7, <2>12, MoveStep
<1> QED
  BY <1>3, <1>4

\* SwapHead, SwapLog: a retirement's swap up to its decision.
LEMMA SwapDecides ==
  ASSUME IInv, NEW c \in Client, SwapHead(c) \/ SwapLog(c)
  PROVE  IInv'
<1>1. /\ UNCHANGED <<acct, gen, due, digest, visited, out, overtaken, unread, torn, left>>
      /\ job[c].pc \in {"swapHead", "swapLog"}
  BY DEF SwapHead, SwapLog
<1>2. c \in Actor /\ job[c] \in Job /\ Fit(c, job[c])
  <2>1. c \in Actor
    BY DEF Actor
  <2> QED
    BY <2>1, Own
<1>3. CASE SwapHead(c)
  <2>1. job[c].pc = "swapHead" /\ (Goto(c, "swapLog") \/ Stop(c))
    BY <1>3 DEF SwapHead
  <2> QED
    BY <1>1, <1>2, <2>1, GotoStep, HaltStep
<1>4. CASE SwapLog(c)
  <2>1. /\ Replace(c, job[c].drop) /\ job[c].pc = "swapLog" /\ job[c].cred # None
        /\ job[c].retire # None => job[c].retire \in job[c].drop
    BY <1>2, <1>4 DEF SwapLog, Fit, ViewOK, RetireOK
  <2> QED
    BY <1>1, <2>1, ReplaceStep
<1> QED
  BY <1>3, <1>4

\* Target: a visit reads the pointer.
LEMMA TargetStep ==
  ASSUME IInv, NEW k \in Credential, Target(k)
  PROVE  IInv'
<1> DEFINE j == [job[k] EXCEPT !.pc = "append", !.view = acct.pointer, !.doc = {}]
<1>1. k \in Actor /\ job[k] \in Job /\ Fit(k, job[k]) /\ acct.pointer \in Gen /\ PointerOK
      /\ k \notin Client
  <2>1. k \in Actor /\ k \notin Client
    BY AnnexAssumption DEF Actor, AnnexAssumption
  <2> QED
    BY <2>1, Own, Given
<1>2. /\ UNCHANGED <<acct, gen, due, digest, visited, out, overtaken, unread, torn, left>>
      /\ job[k].pc = "target" /\ job' = [job EXCEPT ![k] = j]
  BY DEF Target
<1>3. /\ j \in Job /\ j.pc = "append" /\ j.view = acct.pointer
      /\ j.cred = job[k].cred /\ j.retire = job[k].retire /\ j.set = job[k].set
  BY <1>1 DEF Job, Steps
<1> HIDE DEF j
<1>4. ViewOK(j) /\ PassOK(j) /\ SweepOK(j) /\ RetireOK(j) /\ OldOK(j) /\ ClientOK(k, j)
  BY <1>1, <1>3 DEF Fit, PointerOK, ViewOK, PassOK, SweepOK, RetireOK, OldOK, ClientOK
<1>5. \A r \in out \ overtaken : CarryOK(k, j, r)
  BY <1>1, <1>3 DEF Fit, CarryOK
<1>6. Fit(k, j) /\ MintOK(k, j) /\ j.pc \notin Minting /\ job[k].pc # "point"
  BY <1>2, <1>3, <1>4, <1>5 DEF Fit, MintOK, Minting
<1> QED
  BY <1>1, <1>2, <1>3, <1>6, MoveStep

(***************************************************************************)
(* The collect fan-out: a step of c's pass on generation g.                *)
(***************************************************************************)
\* The pass moves on: the rest evolves as it should.
LEMMA SweepEvolves ==
  ASSUME IInv, NEW c \in Client, NEW n \in Job, job' = [job EXCEPT ![c] = n],
         n.pc \notin Minting, acct' = acct, GenEvolves(c), BookEvolves(c)
  PROVE  /\ Evolves(c) /\ job' \in [Actor -> Job] /\ job'[c] = n /\ c \in Actor
         /\ \A b \in Actor \ {c} : job'[b] = job[b]
<1>1. c \in Actor /\ job \in [Actor -> Job]
  BY Given DEF TypeOK, Actor
<1>2. /\ job' \in [Actor -> Job] /\ job'[c] = n
      /\ \A b \in Actor \ {c} : job'[b] = job[b]
  BY <1>1
<1>3. JobEvolves(c)
  BY <1>2 DEF JobEvolves, Minted
<1> QED
  BY <1>1, <1>2, <1>3, Still DEF Evolves

\* The collection of one generation moves on to e.
LEMMA EntryTyped ==
  ASSUME NEW j \in Job, NEW g \in DOMAIN j.sweep, NEW e \in Collection,
         NEW n, n = [j EXCEPT !.sweep = [j.sweep EXCEPT ![g] = e]]
  PROVE  /\ n \in Job /\ n.pc = j.pc /\ n.view = j.view /\ n.cred = j.cred /\ n.set = j.set
         /\ n.retire = j.retire /\ n.ever = j.ever /\ n.new = j.new
         /\ DOMAIN n.sweep = DOMAIN j.sweep /\ n.sweep[g] = e
         /\ \A h \in DOMAIN j.sweep : h # g => n.sweep[h] = j.sweep[h]
<1> DEFINE w == [j.sweep EXCEPT ![g] = e]
<1>1. PICK S \in SUBSET Gen : j.sweep \in [S -> Collection]
  BY DEF Job
<1>2. /\ w \in [S -> Collection] /\ DOMAIN w = DOMAIN j.sweep /\ w[g] = e
      /\ \A h \in DOMAIN j.sweep : h # g => w[h] = j.sweep[h]
  BY <1>1
<1>3. w \in UNION {[T -> Collection] : T \in SUBSET Gen}
  BY <1>1, <1>2
<1> HIDE DEF w
<1>4. n = [j EXCEPT !.sweep = w]
  BY DEF w
<1>5. /\ n \in Job /\ n.pc = j.pc /\ n.view = j.view /\ n.cred = j.cred /\ n.set = j.set
      /\ n.retire = j.retire /\ n.ever = j.ever /\ n.new = j.new /\ n.sweep = w
  BY <1>3, <1>4 DEF Job
<1> QED
  BY <1>2, <1>5

\* The same job, where its collections fit.
LEMMA SweepFits ==
  ASSUME NEW c, NEW j \in Job, Fit(c, j)', j.pc = "sweep", NEW n \in Job,
         n.pc = j.pc, n.view = j.view, n.cred = j.cred, n.set = j.set,
         n.retire = j.retire, n.ever = j.ever,
         \A h \in DOMAIN n.sweep : h \in DOMAIN j.sweep /\ EntryOK(h, n.sweep[h])'
  PROVE  Fit(c, n)' /\ MintOK(c, n)'
<1>1. ViewOK(n)' /\ PassOK(n)' /\ RetireOK(n)' /\ OldOK(n)' /\ ClientOK(c, n)'
  BY DEF Fit, ViewOK, PassOK, RetireOK, OldOK, ClientOK
<1>2. SweepOK(n)'
  BY DEF Fit, SweepOK
<1>3. ASSUME NEW r \in out' \ overtaken' PROVE CarryOK(c, n, r)'
  BY DEF Fit, CarryOK
<1> QED
  BY <1>1, <1>2, <1>3 DEF Fit, MintOK, Minting

\* A collection goes on.
LEMMA EntryStep ==
  ASSUME IInv, NEW c \in Client, NEW g, NEW e \in Collection,
         job[c].pc = "sweep", g \in DOMAIN job[c].sweep,
         job' = [job EXCEPT ![c].sweep[g] = e],
         UNCHANGED <<acct, due, visited, out, overtaken, torn>>,
         gen' \in [Gen -> Generation], digest' \in [Gen -> SUBSET Nat],
         unread' \subseteq Gen, left' \in 0 .. MaxEvents,
         GenEvolves(c), BookEvolves(c),
         Shared',
         e.at \in {"read", "revoked", "digested"} =>
           /\ Condemned(g) /\ e.del <= Embedded(g)
           /\ \A x \in visited : x[2] = g =>
                IF e.at = "digested" THEN x[1] \in digest'[g] ELSE x[1] \in e.seen
  PROVE  IInv'
<1>1. c \in Actor
  BY DEF Actor
<1>2. PICK j \in Job : j = job[c]
  BY <1>1, Own
<1>3. Fit(c, j) /\ j.pc = "sweep" /\ g \in DOMAIN j.sweep
  BY <1>1, <1>2, Own
<1>4. PICK n : n = [j EXCEPT !.sweep = [j.sweep EXCEPT ![g] = e]]
  OBVIOUS
<1>5. /\ n \in Job /\ n.pc = j.pc /\ n.view = j.view /\ n.cred = j.cred /\ n.set = j.set
      /\ n.retire = j.retire /\ n.ever = j.ever
      /\ DOMAIN n.sweep = DOMAIN j.sweep /\ n.sweep[g] = e
      /\ \A h \in DOMAIN j.sweep : h # g => n.sweep[h] = j.sweep[h]
  BY <1>3, <1>4, EntryTyped
<1>6. job' = [job EXCEPT ![c] = n]
  BY <1>2, <1>4
<1>7. n.pc \notin Minting
  BY <1>3, <1>5 DEF Minting
<1>8. Evolves(c) /\ job' \in [Actor -> Job] /\ job'[c] = n
  BY <1>5, <1>6, <1>7, SweepEvolves
<1>9. Fit(c, j)'
  BY <1>3, <1>8, FitKeeps
<1>10. ASSUME NEW h \in DOMAIN n.sweep PROVE EntryOK(h, n.sweep[h])'
  <2>1. CASE h # g
    BY <1>3, <1>5, <1>9, <2>1 DEF Fit, SweepOK
  <2>2. CASE h = g
    <3>1. g \in Gen
      BY <1>3 DEF Job
    <3>2. Condemned(g) => Condemned(g)'
      BY <1>8, <3>1, CondemnedStays
    <3>3. e.del <= Embedded(g) => e.del <= Embedded(g)'
      <4>1. Embedded(g) \in Nat /\ e.del \in Nat
        BY <3>1, Given DEF Collection
      <4>2. Embedded(g)' \in Nat /\ Embedded(g) <= Embedded(g)'
        BY <3>1 DEF GenEvolves, Grows
      <4> QED
        BY <4>1, <4>2
    <3> QED
      BY <1>5, <2>2, <3>2, <3>3 DEF EntryOK
  <2> QED
    BY <2>1, <2>2
<1>11. Fit(c, n)' /\ MintOK(c, n)'
  BY <1>3, <1>5, <1>9, <1>10, SweepFits
<1>12. TypeOK'
  BY <1>8, Given DEF TypeOK
<1>13. JobOK(c)'
  BY <1>8, <1>11 DEF JobOK
<1> QED
  BY <1>8, <1>12, <1>13, Advance

\* The collection of g is over.
LEMMA SweptStep ==
  ASSUME IInv, NEW c \in Client, NEW g,
         job[c].pc = "sweep", g \in DOMAIN job[c].sweep, Swept(c, g),
         UNCHANGED <<acct, due, visited, out, overtaken, torn>>,
         gen' \in [Gen -> Generation], digest' \in [Gen -> SUBSET Nat],
         unread' \subseteq Gen, left' \in 0 .. MaxEvents,
         GenEvolves(c), BookEvolves(c), Shared'
  PROVE  IInv'
<1> DEFINE rest == DOMAIN job[c].sweep \ {g}
<1>1. c \in Actor
  BY DEF Actor
<1>2. CASE rest = {}
  <2>1. job' = [job EXCEPT ![c] = Idle]
    BY <1>2 DEF Swept, Stop
  <2>2. Idle \in Job /\ Idle.pc \notin Minting
    BY IdleTyped DEF Minting
  <2>3. Evolves(c) /\ job' \in [Actor -> Job] /\ job'[c] = Idle
    BY <2>1, <2>2, SweepEvolves
  <2>4. TypeOK'
    BY <2>3, Given DEF TypeOK
  <2>5. JobOK(c)'
    BY <2>3, <2>4, IdleFits DEF JobOK
  <2> QED
    BY <2>3, <2>4, <2>5, Advance
<1>3. CASE rest # {}
  <2>1. PICK j \in Job : j = job[c]
    BY <1>1, Own
  <2>2. Fit(c, j) /\ j.pc = "sweep"
    BY <1>1, <2>1, Own
  <2> DEFINE w == [h \in DOMAIN j.sweep \ {g} |-> j.sweep[h]]
  <2>3. PICK n : n = [j EXCEPT !.sweep = w]
    OBVIOUS
  <2>4. job' = [job EXCEPT ![c] = n]
    BY <1>3, <2>1, <2>3 DEF Swept
  <2>5. PICK S \in SUBSET Gen : j.sweep \in [S -> Collection]
    BY DEF Job
  <2>6. w \in [S \ {g} -> Collection] /\ DOMAIN w = DOMAIN j.sweep \ {g}
        /\ \A h \in DOMAIN w : w[h] = j.sweep[h]
    BY <2>5
  <2>7. w \in UNION {[T -> Collection] : T \in SUBSET Gen}
    BY <2>5, <2>6
  <2> HIDE DEF w
  <2>8. /\ n \in Job /\ n.pc = j.pc /\ n.view = j.view /\ n.cred = j.cred /\ n.set = j.set
        /\ n.retire = j.retire /\ n.ever = j.ever /\ n.sweep = w
    BY <2>3, <2>7 DEF Job
  <2>9. n.pc \notin Minting
    BY <2>2, <2>8 DEF Minting
  <2>10. Evolves(c) /\ job' \in [Actor -> Job] /\ job'[c] = n
    BY <2>4, <2>8, <2>9, SweepEvolves
  <2>11. Fit(c, j)'
    BY <2>2, <2>10, FitKeeps
  <2>12. \A h \in DOMAIN n.sweep : h \in DOMAIN j.sweep /\ EntryOK(h, n.sweep[h])'
    BY <2>2, <2>6, <2>8, <2>11 DEF Fit, SweepOK
  <2>13. Fit(c, n)' /\ MintOK(c, n)'
    BY <2>2, <2>8, <2>11, <2>12, SweepFits
  <2>14. TypeOK'
    BY <2>10, Given DEF TypeOK
  <2>15. JobOK(c)'
    BY <2>10, <2>13 DEF JobOK
  <2> QED
    BY <2>10, <2>14, <2>15, Advance
<1> QED
  BY <1>2, <1>3

\* Delegations the server records as revoked.
LEMMA Marked ==
  ASSUME IInv, NEW a, NEW g \in Gen, NEW D \in SUBSET (1 .. Embedded(g)),
         NEW r, r = [gen[g] EXCEPT !.dead = @ \cup D],
         g \in acct.ever \/ Condemned(g),
         (g = acct.pointer /\ Embedded(g) \in D /\ gen[g].dels[Embedded(g)] \in Listed) =>
           a \in Client /\ job'[a].pc = "point" /\ job'[a].old # 0 /\ job'[a].view = g
  PROVE  r \in Generation /\ EditOK(a, g, r) /\ ShareOK(a, g, r)
<1>1. gen[g] \in Generation /\ GenOK(g) /\ Embedded(g) \in Nat /\ g # None
  BY Given
<1>2. /\ r \in Generation /\ r.at = gen[g].at /\ r.rungs = gen[g].rungs
      /\ r.dels = gen[g].dels /\ r.visits = gen[g].visits
      /\ \A i \in r.dead : i \in gen[g].dead \/ i \in D
  <2>1. \A i \in D : i \in Nat
    BY <1>1
  <2> QED
    BY <1>1, <2>1 DEF Generation
<1>3. (r.quiet => gen[g].quiet) /\ r.quiet \in BOOLEAN
  BY <1>1 DEF Generation
<1>4. Len(r.dels) = Embedded(g)
  BY <1>2 DEF Embedded
<1>5. gen[g].at # "unborn"
  BY Given DEF PointerOK, Condemned
<1>6. EditOK(a, g, r)
  BY <1>1, <1>2, <1>3, <1>4, <1>5 DEF EditOK
<1>7. ShareOK(a, g, r)
  <2>1. \A i \in r.dead : i \in 1 .. Len(r.dels)
    BY <1>1, <1>2, <1>4 DEF GenOK
  <2>2. \A i \in 1 .. Len(r.dels) : r.dels[i] \in acct.standing => r.dels[i] \in r.rungs
    BY <1>1, <1>2, <1>4 DEF GenOK
  <2>3. (g = acct.pointer /\ r.at = "live" /\ Len(r.dels) \in r.dead
           /\ r.dels[Len(r.dels)] \in Listed) =>
          \/ Stranded
          \/ a \in Client /\ job'[a].pc = "point" /\ job'[a].old # 0 /\ job'[a].view = g
    BY <1>1, <1>2, <1>4 DEF Stranded, Live
  <2> QED
    BY <1>2, <2>1, <2>2, <2>3 DEF ShareOK
<1> QED
  BY <1>2, <1>6, <1>7

\* A revocation the server accepts or refuses.
LEMMA RevokeMarks ==
  ASSUME IInv, NEW g \in Gen, NEW i \in 1 .. Embedded(g), Revoke(g, i)
  PROVE  \E D \in SUBSET (1 .. Embedded(g)) :
           /\ gen' = [gen EXCEPT ![g] = [gen[g] EXCEPT !.dead = @ \cup D]]
           /\ \A d \in D : d = i /\ Accepts(g, i)
<1> DEFINE Mark(D) == gen' = [gen EXCEPT ![g] = [gen[g] EXCEPT !.dead = @ \cup D]]
<1>1. CASE Accepts(g, i)
  <2>1. Mark({i})
    BY <1>1 DEF Revoke
  <2>2. {i} \in SUBSET (1 .. Embedded(g)) /\ \A d \in {i} : d = i /\ Accepts(g, i)
    BY <1>1
  <2> HIDE DEF Mark
  <2>3. \E D \in SUBSET (1 .. Embedded(g)) : Mark(D) /\ \A d \in D : d = i /\ Accepts(g, i)
    BY <2>1, <2>2
  <2> QED
    BY <2>3 DEF Mark
<1>2. CASE ~Accepts(g, i)
  <2>1. Mark({})
    <3>1. gen[g] \in Generation /\ gen \in [Gen -> Generation]
      BY Given DEF TypeOK
    <3>2. gen[g].dead \cup {} = gen[g].dead
      OBVIOUS
    <3> QED
      BY <1>2, <3>1, <3>2 DEF Revoke
  <2>2. {} \in SUBSET (1 .. Embedded(g)) /\ \A d \in {} : d = i /\ Accepts(g, i)
    OBVIOUS
  <2> HIDE DEF Mark
  <2>3. \E D \in SUBSET (1 .. Embedded(g)) : Mark(D) /\ \A d \in D : d = i /\ Accepts(g, i)
    BY <2>1, <2>2
  <2> QED
    BY <2>3 DEF Mark
<1> QED
  BY <1>1, <1>2

\* The books where nothing is reported.
LEMMA BooksStill ==
  ASSUME IInv, NEW a, UNCHANGED <<visited, out, overtaken>>, unread \subseteq unread',
         \A g \in Gen : \A v \in digest[g] : v \in digest'[g]
  PROVE  BookEvolves(a)
  BY DEF BookEvolves

\* CollectRead: what a pass reads it may delete.
LEMMA CollectReadStep ==
  ASSUME IInv, NEW c \in Client, NEW g \in Gen, CollectRead(c, g)
  PROVE  IInv'
<1>1. /\ UNCHANGED <<acct, gen, due, digest, visited, out, overtaken, unread, torn, left>>
      /\ job[c].pc = "sweep" /\ g \in DOMAIN job[c].sweep
      /\ job[c].sweep[g].at = "listed"
  BY DEF CollectRead, Collecting
<1>2. c \in Actor
  BY DEF Actor
<1>3. job[c] \in Job /\ Fit(c, job[c]) /\ unread \subseteq Gen /\ left \in 0 .. MaxEvents
  BY <1>2, Own
<1>4. job[c].sweep[g] \in Collection
  BY <1>1, <1>3 DEF Job
<1>5. GenEvolves(c) /\ BookEvolves(c)
  BY <1>1, Still, BooksStill
<1>6. gen' \in [Gen -> Generation] /\ digest' \in [Gen -> SUBSET Nat]
  BY <1>1, Given DEF TypeOK
<1>7. ASSUME \A b \in Actor \ {c} : job'[b] = job[b] PROVE Shared'
  BY <1>1, <1>2, <1>5, <1>7, SharedStill
<1>8. ASSUME NEW e \in Collection, job' = [job EXCEPT ![c].sweep[g] = e],
             e.at \in {"read", "revoked", "digested"} =>
               /\ Condemned(g) /\ e.del <= Embedded(g)
               /\ \A x \in visited : x[2] = g =>
                    IF e.at = "digested" THEN x[1] \in digest'[g] ELSE x[1] \in e.seen
      PROVE  IInv'
  <2>1. \A b \in Actor \ {c} : job'[b] = job[b]
    BY <1>8, Given DEF TypeOK
  <2>2. Shared'
    BY <1>7, <2>1
  <2> QED
    BY <1>1, <1>3, <1>5, <1>6, <1>8, <2>2, EntryStep
<1>9. CASE ~Live(g)
  <2> DEFINE e == [job[c].sweep[g] EXCEPT !.at = "blank"]
  <2>1. e \in Collection /\ e.at = "blank"
    BY <1>4 DEF Collection
  <2>2. job' = [job EXCEPT ![c].sweep[g] = e]
    BY <1>9 DEF CollectRead, CollectNext
  <2> HIDE DEF e
  <2> QED
    BY <1>8, <2>1, <2>2
<1>10. CASE Live(g) /\ g \notin job[c].ever /\ ~gen[g].quiet
  <2>1. Swept(c, g)
    BY <1>10 DEF CollectRead
  <2>2. \A b \in Actor \ {c} : job'[b] = job[b]
    BY <2>1, Given DEF Swept, Stop, TypeOK
  <2>3. Shared'
    BY <1>7, <2>2
  <2> QED
    BY <1>1, <1>3, <1>5, <1>6, <2>1, <2>3, SweptStep
<1>11. CASE Live(g) /\ ~(g \notin job[c].ever /\ ~gen[g].quiet)
  <2> DEFINE e == [at |-> "read", seen |-> gen[g].visits, del |-> Embedded(g)]
  <2>1. e \in Collection /\ e.at = "read" /\ e.seen = gen[g].visits /\ e.del = Embedded(g)
    BY Given DEF Collection, Generation
  <2>2. job' = [job EXCEPT ![c].sweep[g] = e]
    BY <1>11 DEF CollectRead
  <2>3. gen[g].at = "live" /\ Embedded(g) <= Embedded(g)
    BY <1>11, Given DEF Live
  <2>4. Condemned(g)
    <3>1. CASE g \in job[c].ever
      <4>1. g # acct.pointer /\ g \in acct.ever
        BY <1>1, <1>3, <3>1 DEF Fit, SweepOK, PassOK
      <4> QED
        BY <2>3, <4>1 DEF Condemned
    <3>2. CASE g \notin job[c].ever
      <4>1. gen[g].quiet
        BY <1>11, <3>2
      <4>2. g \notin acct.ever
        BY <1>1, <1>3, <2>3, <3>2, <4>1 DEF Fit, PassOK
      <4>3. \A b \in Actor : Minted(b) => job[b].new # g
        BY <2>3, <4>1, Given DEF JobOK, MintOK, Minted
      <4> QED
        BY <2>3, <4>2, <4>3 DEF Condemned
    <3> QED
      BY <3>1, <3>2
  <2>5. \A x \in visited : x[2] = g => x[1] \in gen[g].visits
    BY Given DEF Shared, VisitOK
  <2> HIDE DEF e
  <2> QED
    BY <1>8, <2>1, <2>2, <2>3, <2>4, <2>5
<1> QED
  BY <1>9, <1>10, <1>11

\* A generation a pass is collecting is written.
LEMMA SweepShared ==
  ASSUME IInv, NEW c \in Client, NEW g \in Gen, NEW r \in Generation,
         gen' = [gen EXCEPT ![g] = r], EditOK(c, g, r), ShareOK(c, g, r),
         UNCHANGED <<acct, visited, out, overtaken, torn>>, BookEvolves(c),
         job[c].pc = "sweep", \A b \in Actor \ {c} : job'[b] = job[b]
  PROVE  GenEvolves(c) /\ Shared' /\ gen' \in [Gen -> Generation]
<1>1. GenEvolves(c)
  BY EditEvolves
<1>2. \A k \in out' \ overtaken' : RetiredOK(k)'
  BY EditRetired
<1>3. Shared'
  BY <1>2, EditShared
<1> QED
  BY <1>1, <1>3, Edited

\* The rest of the jobs stay where one collection moves.
LEMMA SweepOthers ==
  ASSUME IInv, NEW c \in Client, NEW g,
         Swept(c, g) \/ \E at : CollectNext(c, g, at)
  PROVE  \A b \in Actor \ {c} : job'[b] = job[b]
  BY Given DEF TypeOK, Swept, Stop, CollectNext

\* CollectRevoke: the delegation a condemned generation embeds.
LEMMA CollectRevokeStep ==
  ASSUME IInv, NEW c \in Client, NEW g \in Gen, CollectRevoke(c, g)
  PROVE  IInv'
<1>1. /\ UNCHANGED <<acct, due, digest, visited, out, overtaken, unread, torn>>
      /\ job[c].pc = "sweep" /\ g \in DOMAIN job[c].sweep
      /\ job[c].sweep[g].at = "read"
  BY DEF CollectRevoke, Collecting
<1>2. c \in Actor
  BY DEF Actor
<1>3. job[c] \in Job /\ Fit(c, job[c]) /\ unread \subseteq Gen /\ left \in 0 .. MaxEvents
  BY <1>2, Own
<1>4. PICK d \in Collection : d = job[c].sweep[g]
  BY <1>1, <1>3 DEF Job
<1>5. EntryOK(g, d) /\ d.at = "read"
  BY <1>1, <1>3, <1>4 DEF Fit, SweepOK
<1>6. BookEvolves(c)
  BY <1>1, BooksStill
<1>7. digest' \in [Gen -> SUBSET Nat]
  BY <1>1, Given DEF TypeOK
<1>8. Condemned(g) /\ d.del <= Embedded(g) /\ \A x \in visited : x[2] = g => x[1] \in d.seen
  BY <1>5 DEF EntryOK
<1>9. ASSUME CollectNext(c, g, "revoked"), UNCHANGED left,
             GenEvolves(c) /\ Shared' /\ gen' \in [Gen -> Generation]
      PROVE  IInv'
  <2> DEFINE e == [d EXCEPT !.at = "revoked"]
  <2>1. e \in Collection /\ e.at = "revoked" /\ e.seen = d.seen /\ e.del = d.del
    BY DEF Collection
  <2>2. job' = [job EXCEPT ![c].sweep[g] = e]
    BY <1>4, <1>9 DEF CollectNext
  <2> HIDE DEF e
  <2> QED
    BY <1>1, <1>3, <1>6, <1>7, <1>8, <1>9, <2>1, <2>2, EntryStep
<1>10. CASE d.del = 0 /\ UNCHANGED <<gen, left>> /\ CollectNext(c, g, "revoked")
  <2>1. \A b \in Actor \ {c} : job'[b] = job[b]
    BY <1>10, SweepOthers
  <2>2. GenEvolves(c) /\ gen' \in [Gen -> Generation]
    BY <1>10, Still, Given DEF TypeOK
  <2>3. Shared'
    BY <1>1, <1>2, <1>6, <1>10, <2>1, SharedStill
  <2> QED
    BY <1>9, <1>10, <2>2, <2>3
<1>11. CASE d.del # 0 /\ Revoke(g, d.del) /\ UNCHANGED left /\ CollectNext(c, g, "revoked")
  <2>1. d.del \in 1 .. Embedded(g)
    BY <1>8, <1>11, Given DEF Collection
  <2>2. PICK D \in SUBSET (1 .. Embedded(g)) :
           gen' = [gen EXCEPT ![g] = [gen[g] EXCEPT !.dead = @ \cup D]]
    BY <1>11, <2>1, RevokeMarks
  <2>3. PICK r : r = [gen[g] EXCEPT !.dead = @ \cup D]
    OBVIOUS
  <2>4. g # acct.pointer
    BY <1>8, Given DEF Condemned, PointerOK
  <2>5. r \in Generation /\ EditOK(c, g, r) /\ ShareOK(c, g, r)
    BY <1>8, <2>3, <2>4, Marked
  <2>6. gen' = [gen EXCEPT ![g] = r]
    BY <2>2, <2>3
  <2>7. \A b \in Actor \ {c} : job'[b] = job[b]
    BY <1>11, SweepOthers
  <2>8. GenEvolves(c) /\ Shared' /\ gen' \in [Gen -> Generation]
    BY <1>1, <1>6, <2>5, <2>6, <2>7, SweepShared
  <2> QED
    BY <1>9, <1>11, <2>8
<1>12. CASE Disturb /\ Swept(c, g) /\ UNCHANGED gen
  <2>1. \A b \in Actor \ {c} : job'[b] = job[b]
    BY <1>12, SweepOthers
  <2>2. GenEvolves(c) /\ gen' \in [Gen -> Generation] /\ left' \in 0 .. MaxEvents
    BY <1>12, Still, Budget, Given DEF TypeOK
  <2>3. Shared'
    BY <1>1, <1>2, <1>6, <1>12, <2>1, SharedStill
  <2> QED
    BY <1>1, <1>3, <1>6, <1>7, <1>12, <2>2, <2>3, SweptStep
<1> QED
  BY <1>4, <1>10, <1>11, <1>12 DEF CollectRevoke

\* CollectDigest: what the pass read is recorded.
LEMMA CollectDigestStep ==
  ASSUME IInv, NEW c \in Client, NEW g \in Gen, CollectDigest(c, g)
  PROVE  IInv'
<1>1. /\ UNCHANGED <<acct, gen, due, visited, out, overtaken, unread, torn>>
      /\ job[c].pc = "sweep" /\ g \in DOMAIN job[c].sweep
      /\ job[c].sweep[g].at = "revoked"
  BY DEF CollectDigest, Collecting
<1>2. c \in Actor
  BY DEF Actor
<1>3. job[c] \in Job /\ Fit(c, job[c]) /\ unread \subseteq Gen /\ left \in 0 .. MaxEvents
  BY <1>2, Own
<1>4. PICK d \in Collection : d = job[c].sweep[g]
  BY <1>1, <1>3 DEF Job
<1>5. EntryOK(g, d) /\ d.at = "revoked"
  BY <1>1, <1>3, <1>4 DEF Fit, SweepOK
<1>6. Condemned(g) /\ d.del <= Embedded(g) /\ \A x \in visited : x[2] = g => x[1] \in d.seen
  BY <1>5 DEF EntryOK
<1>7. GenEvolves(c) /\ gen' \in [Gen -> Generation] /\ digest \in [Gen -> SUBSET Nat]
  BY <1>1, Still, Given DEF TypeOK
<1>8. CASE /\ digest' = [digest EXCEPT ![g] = @ \cup job[c].sweep[g].seen]
           /\ CollectNext(c, g, "digested") /\ UNCHANGED left
  <2>1. d.seen \in SUBSET Nat
    BY DEF Collection
  <2>2. /\ digest' \in [Gen -> SUBSET Nat] /\ \A v \in d.seen : v \in digest'[g]
        /\ \A h \in Gen : \A v \in digest[h] : v \in digest'[h]
    BY <1>4, <1>7, <1>8, <2>1
  <2>3. BookEvolves(c)
    BY <1>1, <2>2, BooksStill
  <2>4. \A b \in Actor \ {c} : job'[b] = job[b]
    BY <1>8, SweepOthers
  <2>5. Shared'
    BY <1>1, <1>2, <2>3, <2>4, SharedStill
  <2> DEFINE e == [d EXCEPT !.at = "digested"]
  <2>6. e \in Collection /\ e.at = "digested" /\ e.del = d.del
    BY DEF Collection
  <2>7. job' = [job EXCEPT ![c].sweep[g] = e]
    BY <1>4, <1>8 DEF CollectNext
  <2> HIDE DEF e
  <2>8. \A x \in visited : x[2] = g => x[1] \in digest'[g]
    BY <1>6, <2>2
  <2> QED
    BY <1>1, <1>3, <1>6, <1>7, <1>8, <2>2, <2>3, <2>5, <2>6, <2>7, <2>8, EntryStep
<1>9. CASE Disturb /\ Swept(c, g) /\ UNCHANGED digest
  <2>1. \A b \in Actor \ {c} : job'[b] = job[b]
    BY <1>9, SweepOthers
  <2>2. BookEvolves(c) /\ left' \in 0 .. MaxEvents
    BY <1>1, <1>9, BooksStill, Budget
  <2>3. Shared'
    BY <1>1, <1>2, <2>1, <2>2, SharedStill
  <2> QED
    BY <1>1, <1>3, <1>7, <1>9, <2>2, <2>3, SweptStep
<1> QED
  BY <1>8, <1>9 DEF CollectDigest

\* CollectDelete: a generation condemned and recorded, or one that held no
\* log when the pass read it.
LEMMA CollectDeleteStep ==
  ASSUME IInv, NEW c \in Client, NEW g \in Gen, CollectDelete(c, g)
  PROVE  IInv'
<1>1. /\ UNCHANGED <<acct, due, digest, visited, out, overtaken, torn, left>>
      /\ job[c].pc = "sweep" /\ g \in DOMAIN job[c].sweep
      /\ job[c].sweep[g].at \in {"digested", "blank"} /\ Swept(c, g)
      /\ unread \subseteq unread'
      /\ job[c].sweep[g].at = "blank" => g \in unread'
  BY DEF CollectDelete, Collecting
<1>2. c \in Actor
  BY DEF Actor
<1>3. /\ job[c] \in Job /\ Fit(c, job[c]) /\ left \in 0 .. MaxEvents
      /\ unread' \subseteq Gen
  BY <1>2, Own DEF CollectDelete
<1>4. EntryOK(g, job[c].sweep[g])
  BY <1>1, <1>3 DEF Fit, SweepOK
<1>5. \/ g \in unread'
      \/ Condemned(g) /\ \A x \in visited : x[2] = g => x[1] \in digest[g]
  BY <1>1, <1>4 DEF EntryOK
<1>6. PICK r : r = [gen[g] EXCEPT !.at = "gone"]
  OBVIOUS
<1>7. gen' = [gen EXCEPT ![g] = r]
  BY <1>6 DEF CollectDelete
<1>8. gen[g] \in Generation /\ GenOK(g) /\ Embedded(g) \in Nat
  BY Given
<1>9. /\ r \in Generation /\ r.at = "gone" /\ r.rungs = gen[g].rungs
      /\ r.dels = gen[g].dels /\ r.visits = gen[g].visits /\ r.dead = gen[g].dead
  BY <1>6, <1>8 DEF Generation
<1>10. Len(r.dels) = Embedded(g)
  BY <1>9 DEF Embedded
<1>11. EditOK(c, g, r)
  BY <1>5, <1>6, <1>8, <1>9, <1>10 DEF EditOK
<1>12. ShareOK(c, g, r)
  <2>1. g # acct.pointer \/ g \in unread'
    BY <1>5, Given DEF Condemned, PointerOK
  <2> QED
    BY <1>1, <1>5, <1>8, <1>9, <1>10, <2>1 DEF ShareOK, GenOK
<1>13. BookEvolves(c)
  BY <1>1, BooksStill
<1>14. \A b \in Actor \ {c} : job'[b] = job[b]
  BY <1>1, SweepOthers
<1>15. GenEvolves(c) /\ Shared' /\ gen' \in [Gen -> Generation]
  BY <1>1, <1>7, <1>9, <1>11, <1>12, <1>13, <1>14, SweepShared
<1>16. digest' \in [Gen -> SUBSET Nat] /\ left' \in 0 .. MaxEvents
  BY <1>1, <1>3, Given DEF TypeOK
<1> QED
  BY <1>1, <1>3, <1>13, <1>15, <1>16, SweptStep

(***************************************************************************)
(* The ceremonies that write a log.                                        *)
(***************************************************************************)
\* The job of an actor between ceremonies, or of a pass about to re-read.
Over == {Idle, [Idle EXCEPT !.pc = "reread"]}

\* Such jobs are typed.
LEMMA OverTyped ==
  ASSUME NEW n \in Over
  PROVE  /\ n \in Job /\ n.pc \in {"idle", "reread"} /\ n.cred = None
         /\ n.retire = None /\ n.set = {} /\ n.new = None
<1>1. Idle \in Job
  BY IdleTyped
<1>2. PICK n2 : n2 = [Idle EXCEPT !.pc = "reread"]
  OBVIOUS
<1>3. /\ n2 \in Job /\ n2.pc = "reread" /\ n2.cred = None
      /\ n2.retire = None /\ n2.set = {} /\ n2.new = None
  BY <1>1, <1>2, IdleTyped DEF Job, Steps
<1>4. n = Idle \/ n = n2
  BY <1>2 DEF Over
<1> QED
  BY <1>1, <1>3, <1>4, IdleTyped

\* They fit any state that keeps the client enrolled.
LEMMA OverFits ==
  ASSUME TypeOK', NEW b, NEW n \in Over, n.pc # "idle" => b \in acct'.enrolled
  PROVE  Fit(b, n)' /\ MintOK(b, n)'
<1>1. \A r \in out' : r # None
  BY AnnexAssumption DEF TypeOK, AnnexAssumption
<1> QED
  BY <1>1, OverTyped DEF Fit, ViewOK, PassOK, SweepOK, RetireOK, OldOK, ClientOK, CarryOK,
                         MintOK, Minting

\* Stop and EndSwap leave such a job.
LEMMA EndsOver ==
  ASSUME IInv, NEW a \in Actor, Stop(a) \/ EndSwap(a), job[a].pc # "idle"
  PROVE  \E n \in Over : /\ job' = [job EXCEPT ![a] = n]
                         /\ n.pc # "idle" => a \in acct.enrolled
<1>1. a \in Client => a \in acct.enrolled
  BY Own DEF Fit, ClientOK
<1>2. Idle.pc = "idle" /\ Idle \in Over /\ [Idle EXCEPT !.pc = "reread"] \in Over
  BY IdleTyped DEF Over
<1>3. CASE Stop(a)
  BY <1>2, <1>3 DEF Stop
<1>4. CASE EndSwap(a)
  <2>1. CASE a \in Client /\ job[a].retire = None
    BY <1>1, <1>2, <1>4, <2>1 DEF EndSwap
  <2>2. CASE ~(a \in Client /\ job[a].retire = None)
    BY <1>3, <1>4, <2>2 DEF EndSwap
  <2> QED
    BY <2>1, <2>2
<1> QED
  BY <1>3, <1>4

\* The jobs after such a step.
LEMMA OverJobs ==
  ASSUME IInv, NEW a \in Actor, NEW n \in Over, job' = [job EXCEPT ![a] = n]
  PROVE  /\ job' \in [Actor -> Job] /\ job'[a] = n
         /\ \A b \in Actor \ {a} : job'[b] = job[b]
         /\ JobEvolves(a)
<1>1. job \in [Actor -> Job] /\ n \in Job /\ n.pc \notin Minting
  BY Given, OverTyped DEF TypeOK, Minting
<1>2. /\ job' \in [Actor -> Job] /\ job'[a] = n
      /\ \A b \in Actor \ {a} : job'[b] = job[b]
  BY <1>1
<1> QED
  BY <1>1, <1>2 DEF JobEvolves, Minted

\* A swap is over, and wrote nothing.
LEMMA EndStep ==
  ASSUME IInv, NEW a \in Actor, EndSwap(a), job[a].pc # "idle",
         UNCHANGED <<acct, gen, due, digest, visited, out, overtaken, unread, torn, left>>,
         job[a].pc = "point" => job[a].view # acct.pointer
  PROVE  IInv'
<1>1. PICK n \in Over : /\ job' = [job EXCEPT ![a] = n]
                        /\ n.pc # "idle" => a \in acct.enrolled
  BY EndsOver
<1>2. /\ job' \in [Actor -> Job] /\ job'[a] = n
      /\ \A b \in Actor \ {a} : job'[b] = job[b]
      /\ JobEvolves(a)
  BY <1>1, OverJobs
<1>3. TypeOK'
  BY <1>2, Given DEF TypeOK
<1>4. BookEvolves(a)
  BY DEF BookEvolves
<1>5. Evolves(a)
  BY <1>2, <1>4, Still DEF Evolves
<1>6. Shared'
  BY <1>2, <1>4, SharedStill
<1>7. JobOK(a)'
  BY <1>1, <1>2, <1>3, OverFits DEF JobOK
<1> QED
  BY <1>3, <1>5, <1>6, <1>7, Advance

\* Mint: a fresh id becomes a bare collection.
LEMMA MintStep ==
  ASSUME IInv, NEW a \in Actor, Mint(a)
  PROVE  IInv'
<1>1. PICK g \in Fresh : /\ gen' = [gen EXCEPT ![g].at = "bare"]
                         /\ job' = [job EXCEPT ![a].pc = "genesis", ![a].new = g]
  BY DEF Mint
<1>2. /\ job[a].pc = "mint"
      /\ UNCHANGED <<acct, due, digest, visited, out, overtaken, unread, torn, left>>
  BY DEF Mint
<1>3. g \in Gen /\ gen[g].at = "unborn"
  BY DEF Fresh
<1>4. gen[g] \in Generation /\ GenOK(g) /\ Embedded(g) \in Nat
  BY <1>3, Given
<1>5. gen[g].dels = <<>> /\ gen[g].dead = {}
  BY <1>3, <1>4 DEF GenOK
<1>6. g \notin acct.ever /\ g # acct.pointer
  BY <1>3, Given DEF PointerOK
<1>7. PICK r : r = [gen[g] EXCEPT !.at = "bare"]
  OBVIOUS
<1>8. PICK j : j = [job[a] EXCEPT !.pc = "genesis", !.new = g]
  OBVIOUS
<1>9. /\ r \in Generation /\ r.at = "bare" /\ r.dels = <<>> /\ r.dead = {}
      /\ r.visits = gen[g].visits
  BY <1>4, <1>5, <1>7 DEF Generation
<1>10. gen' = [gen EXCEPT ![g] = r] /\ job' = [job EXCEPT ![a] = j]
  BY <1>1, <1>7, <1>8
<1>11. job[a] \in Job /\ Fit(a, job[a]) /\ MintOK(a, job[a])
  BY Own
<1>12. /\ j \in Job /\ j.pc = "genesis" /\ j.new = g /\ j.view = job[a].view
       /\ j.cred = job[a].cred /\ j.retire = job[a].retire /\ j.set = job[a].set
       /\ j.old = job[a].old
  BY <1>3, <1>11, <1>8 DEF Job, Steps
<1>13. Len(r.dels) = 0 /\ Embedded(g) = 0
  BY <1>5, <1>9 DEF Embedded
<1>14. EditOK(a, g, r)
  BY <1>3, <1>5, <1>6, <1>9, <1>13 DEF EditOK
<1>15. ShareOK(a, g, r)
  BY <1>6, <1>9, <1>13 DEF ShareOK
<1>16. ViewOK(j) /\ PassOK(j) /\ SweepOK(j) /\ RetireOK(j) /\ ClientOK(a, j) /\ OldOK(j)
  BY <1>2, <1>11, <1>12 DEF Fit, ViewOK, PassOK, SweepOK, RetireOK, ClientOK, OldOK
<1>17. \A k \in out \ overtaken : CarryOK(a, j, k)
  BY <1>2, <1>11, <1>12 DEF Fit, CarryOK
<1>18. Fit(a, j)
  BY <1>16, <1>17 DEF Fit
<1>19. gen'[g] = r
  BY <1>3, <1>9, <1>10, Edited
<1>20. MintOK(a, j)'
  BY <1>2, <1>3, <1>6, <1>9, <1>11, <1>12, <1>19 DEF MintOK, Written
<1>21. /\ unread \subseteq unread' /\ unread' \subseteq Gen
       /\ due' \in BOOLEAN /\ left' \in 0 .. MaxEvents
  BY <1>2, Own
<1> QED
  BY <1>2, <1>3, <1>9, <1>10, <1>12, <1>14, <1>15, <1>18, <1>20, <1>21, WriteStep

\* A swap goes on to its next stage: what it holds fits as before.
LEMMA SwapFits ==
  ASSUME IInv, NEW a \in Actor, job[a].pc \in {"genesis", "install", "revoke"},
         NEW pc \in {"install", "revoke", "point", "move"},
         pc # "install" => job[a].pc # "genesis",
         pc = "revoke" => job[a].pc = "install",
         NEW j, j = [job[a] EXCEPT !.pc = pc]
  PROVE  /\ j \in Job /\ j.pc = pc /\ j.new = job[a].new /\ j.view = job[a].view
         /\ j.set = job[a].set /\ j.old = job[a].old
         /\ Minted(a) /\ Fit(a, j)
<1>1. job[a] \in Job /\ Fit(a, job[a])
  BY Own
<1>2. /\ j \in Job /\ j.pc = pc /\ j.new = job[a].new /\ j.view = job[a].view
      /\ j.set = job[a].set /\ j.old = job[a].old /\ j.cred = job[a].cred
      /\ j.retire = job[a].retire
  BY <1>1 DEF Job, Steps
<1>3. ViewOK(j) /\ PassOK(j) /\ SweepOK(j) /\ RetireOK(j) /\ ClientOK(a, j) /\ OldOK(j)
  BY <1>1, <1>2 DEF Fit, ViewOK, PassOK, SweepOK, RetireOK, ClientOK, OldOK
<1>4. \A k \in out \ overtaken : CarryOK(a, j, k)
  BY <1>1, <1>2 DEF Fit, CarryOK
<1> QED
  BY <1>2, <1>3, <1>4 DEF Fit, Minted, Minting

\* Genesis: the log commits the standing set.
LEMMA GenesisStep ==
  ASSUME IInv, NEW a \in Actor, Genesis(a)
  PROVE  IInv'
<1>1. /\ job[a].pc = "genesis"
      /\ UNCHANGED <<acct, due, digest, visited, out, overtaken, unread, torn, left>>
  BY DEF Genesis
<1>2. PICK g : g = job[a].new
  OBVIOUS
<1>3. CASE gen[g].at # "bare"
  <2>1. EndSwap(a) /\ UNCHANGED gen
    BY <1>2, <1>3 DEF Genesis
  <2> QED
    BY <1>1, <2>1, EndStep
<1>4. CASE gen[g].at = "bare"
  <2>1. PICK j : j = [job[a] EXCEPT !.pc = "install"]
    OBVIOUS
  <2>2. /\ j \in Job /\ j.pc = "install" /\ j.new = g /\ j.set = job[a].set
        /\ Minted(a) /\ Fit(a, j)
    BY <1>1, <1>2, <2>1, SwapFits
  <2>3. job[a] \in Job /\ MintOK(a, job[a])
    BY Own
  <2>4. /\ g \in Gen /\ g \notin acct.ever /\ gen[g].dead = {} /\ gen[g].dels = <<>>
        /\ a \in Credential => a \in job[a].set
    BY <1>1, <1>2, <2>3 DEF MintOK, Minting
  <2>5. gen[g] \in Generation /\ Embedded(g) \in Nat /\ g # acct.pointer
    BY <2>4, Given DEF PointerOK
  <2>6. PICK r : r = [Published(gen[g], job[a].set) EXCEPT !.quiet = FALSE]
    OBVIOUS
  <2>7. job[a].set \in SUBSET Credential
    BY <2>3 DEF Job
  <2>8. /\ r \in Generation /\ r.at = "live" /\ r.dels = <<>> /\ r.dead = {}
        /\ r.visits = gen[g].visits /\ r.rungs = job[a].set /\ ~r.quiet
    BY <2>4, <2>5, <2>6, <2>7 DEF Published, Generation
  <2>9. gen' = [gen EXCEPT ![g] = r] /\ job' = [job EXCEPT ![a] = j]
    BY <1>2, <1>4, <2>1, <2>6 DEF Genesis, Entry, Goto
  <2>10. Len(r.dels) = 0 /\ Embedded(g) = 0
    BY <2>4, <2>8 DEF Embedded
  <2>11. EditOK(a, g, r)
    BY <1>2, <2>2, <2>4, <2>8, <2>10 DEF EditOK
  <2>12. ShareOK(a, g, r)
    BY <2>5, <2>8, <2>10 DEF ShareOK
  <2>13. gen'[g] = r
    BY <2>4, <2>8, <2>9, Edited
  <2>14. MintOK(a, j)'
    BY <1>1, <2>2, <2>4, <2>8, <2>13 DEF MintOK, Written
  <2>15. /\ unread \subseteq unread' /\ unread' \subseteq Gen
         /\ due' \in BOOLEAN /\ left' \in 0 .. MaxEvents
    BY <1>1, Own
  <2> QED
    BY <1>1, <1>2, <2>2, <2>4, <2>8, <2>9, <2>11, <2>12, <2>14, <2>15, WriteStep
<1> QED
  BY <1>3, <1>4

\* What the entry that installs a delegation makes of a generation.
Installed(g, k, r) ==
  /\ r \in Generation /\ r.at = gen[g].at /\ r.rungs = gen[g].rungs
  /\ r.dead = gen[g].dead /\ r.visits = gen[g].visits /\ ~r.quiet
  /\ Len(r.dels) = Embedded(g) + 1 /\ Len(r.dels) \notin r.dead
  /\ \A i \in 1 .. Embedded(g) : r.dels[i] = gen[g].dels[i]
  /\ r.dels[Len(r.dels)] = k
  /\ Embedded(g) <= Len(r.dels)
  /\ \A i \in r.dead : i \in 1 .. Len(r.dels)
  /\ (k \in acct.standing => k \in gen[g].rungs) =>
       \A i \in 1 .. Len(r.dels) : r.dels[i] \in acct.standing => r.dels[i] \in r.rungs

\* The model's entry does so.
LEMMA Installs ==
  ASSUME IInv, NEW g \in Gen, NEW k \in Actor,
         NEW r, r = [Delegated(gen[g], k) EXCEPT !.quiet = FALSE]
  PROVE  Installed(g, k, r)
<1>1. gen[g] \in Generation /\ GenOK(g) /\ Embedded(g) \in Nat
  BY Given
<1>2. PICK s \in Seq(Actor) : s = gen[g].dels
  BY <1>1 DEF Generation
<1>3. PICK n \in Nat : n = Embedded(g) /\ n = Len(s)
  BY <1>1, <1>2 DEF Embedded
<1>4. PICK t : t = Append(s, k)
  OBVIOUS
<1>5. /\ t \in Seq(Actor) /\ Len(t) = n + 1 /\ t[n + 1] = k
      /\ \A i \in 1 .. n : t[i] = s[i]
  BY <1>2, <1>3, <1>4
<1>6. /\ r \in Generation /\ r.at = gen[g].at /\ r.rungs = gen[g].rungs
      /\ r.dead = gen[g].dead /\ r.visits = gen[g].visits /\ ~r.quiet /\ r.dels = t
  BY <1>1, <1>2, <1>4, <1>5 DEF Delegated, Generation
<1>7. \A i \in r.dead : i \in 1 .. n
  BY <1>1, <1>3, <1>6 DEF GenOK
<1>8. Len(r.dels) = n + 1 /\ n + 1 \notin r.dead /\ \A i \in r.dead : i \in 1 .. (n + 1)
  BY <1>5, <1>6, <1>7
<1>9. ASSUME k \in acct.standing => k \in gen[g].rungs, NEW i \in 1 .. (n + 1),
             t[i] \in acct.standing
      PROVE  t[i] \in gen[g].rungs
  <2>1. CASE i = n + 1
    BY <1>5, <1>9, <2>1
  <2>2. CASE i # n + 1
    <3>1. i \in 1 .. n
      BY <1>9, <2>2
    <3>2. t[i] = gen[g].dels[i]
      BY <1>2, <1>5, <3>1
    <3> QED
      BY <1>1, <1>3, <1>9, <3>1, <3>2 DEF GenOK
  <2> QED
    BY <2>1, <2>2
<1> QED
  BY <1>2, <1>3, <1>5, <1>6, <1>8, <1>9 DEF Installed

\* Such an entry, by a ceremony that holds the generation or whose reading
\* of the account names it.
LEMMA InstallsFit ==
  ASSUME IInv, NEW a, NEW g \in Gen, NEW k \in Actor,
         NEW r, r = [Delegated(gen[g], k) EXCEPT !.quiet = FALSE],
         gen[g].at = "live", k \in acct.standing => k \in gen[g].rungs,
         g \in acct.ever \/ (a \in Actor /\ Minted(a) /\ g = job[a].new)
  PROVE  r \in Generation /\ EditOK(a, g, r) /\ ShareOK(a, g, r)
<1>1. Installed(g, k, r)
  BY Installs
<1>2. /\ r \in Generation /\ r.at = gen[g].at /\ r.rungs = gen[g].rungs
      /\ r.dead = gen[g].dead /\ r.visits = gen[g].visits /\ ~r.quiet
      /\ Len(r.dels) \notin r.dead
      /\ \A i \in 1 .. Embedded(g) : r.dels[i] = gen[g].dels[i]
      /\ Embedded(g) <= Len(r.dels)
      /\ \A i \in r.dead : i \in 1 .. Len(r.dels)
      /\ \A i \in 1 .. Len(r.dels) : r.dels[i] \in acct.standing => r.dels[i] \in r.rungs
  BY <1>1 DEF Installed
<1>3. EditOK(a, g, r)
  BY <1>2 DEF EditOK
<1>4. ShareOK(a, g, r)
  BY <1>2 DEF ShareOK
<1> QED
  BY <1>2, <1>3, <1>4

\* Install: the fresh generation's delegation.
LEMMA InstallStep ==
  ASSUME IInv, NEW a \in Actor, Install(a)
  PROVE  IInv'
<1>1. /\ job[a].pc = "install"
      /\ UNCHANGED <<acct, due, digest, visited, out, overtaken, unread, torn, left>>
  BY DEF Install
<1>2. PICK g : g = job[a].new
  OBVIOUS
<1>3. CASE ~Live(g)
  <2>1. EndSwap(a) /\ UNCHANGED gen
    BY <1>2, <1>3 DEF Install
  <2> QED
    BY <1>1, <2>1, EndStep
<1>4. CASE Live(g)
  <2>1. PICK pc \in {"revoke", "move"} : pc = IF a \in Client THEN "revoke" ELSE "move"
    OBVIOUS
  <2>2. PICK j : j = [job[a] EXCEPT !.pc = pc]
    OBVIOUS
  <2>3. /\ j \in Job /\ j.pc = pc /\ j.new = g /\ j.set = job[a].set
        /\ Minted(a) /\ Fit(a, j)
    BY <1>1, <1>2, <2>2, SwapFits
  <2>4. MintOK(a, job[a]) /\ acct.standing \subseteq Credential
    BY Own
  <2>5. /\ g \in Gen /\ g \notin acct.ever /\ gen[g].dead = {} /\ gen[g].rungs = job[a].set
        /\ a \in Credential => a \in job[a].set
    BY <1>1, <1>2, <2>4 DEF MintOK, Minting, Written
  <2>6. gen[g].at = "live"
    BY <1>4 DEF Live
  <2>7. PICK r : r = [Delegated(gen[g], a) EXCEPT !.quiet = FALSE]
    OBVIOUS
  <2>8. Installed(g, a, r)
    BY <2>5, <2>7, Installs
  <2>9. /\ r \in Generation /\ r.at = gen[g].at /\ r.rungs = gen[g].rungs
        /\ r.dead = gen[g].dead /\ ~r.quiet
    BY <2>8 DEF Installed
  <2>10. EditOK(a, g, r) /\ ShareOK(a, g, r)
    BY <1>2, <2>3, <2>4, <2>5, <2>6, <2>7, InstallsFit
  <2>11. gen' = [gen EXCEPT ![g] = r] /\ job' = [job EXCEPT ![a] = j]
    BY <1>2, <1>4, <2>1, <2>2, <2>7 DEF Install, Entry, Goto
  <2>12. gen'[g] = r
    BY <2>5, <2>9, <2>11, Edited
  <2>13. MintOK(a, j)'
    BY <1>1, <2>3, <2>5, <2>6, <2>9, <2>12 DEF MintOK, Written
  <2>14. /\ unread \subseteq unread' /\ unread' \subseteq Gen
         /\ due' \in BOOLEAN /\ left' \in 0 .. MaxEvents
    BY <1>1, Own
  <2> QED
    BY <1>1, <1>2, <2>3, <2>5, <2>9, <2>10, <2>11, <2>13, <2>14, WriteStep
<1> QED
  BY <1>3, <1>4

\* RevokeOld: the superseded delegation, on the way to the pointer entry.
LEMMA RevokeOldStep ==
  ASSUME IInv, NEW c \in Client, RevokeOld(c)
  PROVE  IInv'
<1>1. /\ job[c].pc = "revoke" /\ Goto(c, "point")
      /\ UNCHANGED <<acct, due, digest, visited, out, overtaken, unread, torn>>
  BY DEF RevokeOld
<1>2. c \in Actor
  BY DEF Actor
<1>3. PICK j : j = [job[c] EXCEPT !.pc = "point"]
  OBVIOUS
<1>4. /\ j \in Job /\ j.pc = "point" /\ j.new = job[c].new /\ j.view = job[c].view
      /\ j.set = job[c].set /\ j.old = job[c].old /\ Minted(c) /\ Fit(c, j)
  BY <1>1, <1>2, <1>3, SwapFits
<1>5. job' = [job EXCEPT ![c] = j]
  BY <1>1, <1>3 DEF Goto
<1>6. job[c] \in Job /\ Fit(c, job[c]) /\ MintOK(c, job[c])
  BY <1>2, Own
<1>7. PICK v \in Gen : v = job[c].view /\ v \in acct.ever
  BY <1>1, <1>6, Given DEF Fit, ViewOK
<1>8. MintOK(c, j)
  BY <1>1, <1>4, <1>6 DEF MintOK, Minting, Written
<1>9. /\ unread \subseteq unread' /\ unread' \subseteq Gen /\ due' \in BOOLEAN
      /\ left \in 0 .. MaxEvents /\ torn \subseteq torn' /\ torn' \subseteq Gen
  BY <1>1, <1>2, Own
<1>10. CASE UNCHANGED gen
  <2>1. left' \in 0 .. MaxEvents
    BY <1>9, Budget DEF RevokeOld
  <2> QED
    BY <1>1, <1>2, <1>4, <1>5, <1>8, <1>9, <1>10, <2>1, JobStep
<1>11. CASE job[c].old # 0 /\ Revoke(v, job[c].old) /\ UNCHANGED left
  <2>1. PICK i \in 1 .. Embedded(v) : i = job[c].old
    <3>1. job[c].old \in Nat /\ job[c].old <= Embedded(v) /\ Embedded(v) \in Nat
      BY <1>1, <1>6, <1>7, Given DEF Fit, OldOK, Job
    <3> QED
      BY <1>11, <3>1
  <2>2. PICK D \in SUBSET (1 .. Embedded(v)) :
           gen' = [gen EXCEPT ![v] = [gen[v] EXCEPT !.dead = @ \cup D]]
    BY <1>11, <2>1, RevokeMarks
  <2>3. PICK r : r = [gen[v] EXCEPT !.dead = @ \cup D]
    OBVIOUS
  <2>4. c \in Client /\ job'[c].pc = "point" /\ job'[c].old # 0 /\ job'[c].view = v
    <3>1. job'[c] = j
      BY <1>2, <1>4, <1>5, Given DEF TypeOK
    <3> QED
      BY <1>4, <1>7, <1>11, <3>1
  <2>5. r \in Generation /\ EditOK(c, v, r) /\ ShareOK(c, v, r)
    BY <1>7, <2>3, <2>4, Marked
  <2>6. gen' = [gen EXCEPT ![v] = r]
    BY <2>2, <2>3
  <2>7. MintOK(c, j)'
    <3>1. PICK g : g = j.new
      OBVIOUS
    <3>2. g \in Gen /\ g \notin acct.ever
      BY <1>4, <1>8, <3>1 DEF MintOK, Minting
    <3>3. gen'[g] = gen[g]
      BY <1>7, <2>5, <2>6, <3>2, Edited
    <3> QED
      BY <1>1, <1>4, <1>8, <3>1, <3>3 DEF MintOK
  <2>8. left' \in 0 .. MaxEvents
    BY <1>9, <1>11
  <2> QED
    BY <1>1, <1>2, <1>4, <1>5, <1>9, <2>5, <2>6, <2>7, <2>8, WriteStep
<1> QED
  BY <1>7, <1>10, <1>11 DEF RevokeOld

(***************************************************************************)
(* Reports.                                                                *)
(***************************************************************************)
\* What is newly out for good is what the ceremony retired, and nobody else
\* carries it.
LEMMA Reports ==
  ASSUME IInv, NEW a \in Actor, ReportRetired(a), NEW r \in out' \ overtaken',
         r \notin out \ overtaken
  PROVE  /\ r = job[a].retire /\ r # None
         /\ \A b \in Actor \ {a} : Without(job[b], r)
         /\ acct'.pointer \in {job[a].view, job[a].new} \/ r \notin gen'[acct'.pointer].rungs
<1>1. job[a].retire # None
  BY DEF ReportRetired
<1>2. r = job[a].retire /\ ~Carried(a, r)
  BY <1>1 DEF ReportRetired
<1>3. \A b \in Actor \ {a} : r \notin Carries(b)
  BY <1>2 DEF Carried
<1>4. \A b \in Actor \ {a} : Without(job[b], r)
  BY <1>3 DEF Carries, Without
<1>5. acct'.pointer \in {job[a].view, job[a].new} \/ r \notin gen'[acct'.pointer].rungs
  BY <1>2 DEF Carried
<1> QED
  BY <1>1, <1>2, <1>4, <1>5

\* The books after a report.
LEMMA ReportBooks ==
  ASSUME IInv, NEW a \in Actor, ReportRetired(a), UNCHANGED <<digest, visited, unread>>
  PROVE  BookEvolves(a) /\ out' \cup overtaken' \subseteq Credential
<1>1. out \cup overtaken \subseteq Credential /\ job[a] \in Job
  BY Given DEF TypeOK
<1>2. out' \cup overtaken' \subseteq Credential
  BY <1>1 DEF ReportRetired, Job
<1>3. \A r \in out' \ overtaken' :
        r \in out \ overtaken \/ \A b \in Actor \ {a} : Without(job[b], r)
  BY Reports
<1> QED
  BY <1>2, <1>3 DEF BookEvolves

\* The pointer entry: the account points at the generation a ceremony minted.
LEMMA RepointStep ==
  ASSUME IInv, NEW a \in Actor, job[a].pc \in {"point", "move"},
         NEW n \in Job, job' = [job EXCEPT ![a] = n],
         n.pc \notin Minting, n.pc # "mint",
         acct' = PointedAt(job[a].new), due' \in BOOLEAN,
         UNCHANGED <<gen, digest, visited, unread, torn, left>>,
         out' \cup overtaken' \subseteq Credential, BookEvolves(a),
         \A r \in out' \ overtaken' : RetiredOK(r)',
         TypeOK' => Fit(a, n)' \/ (Fit(a, n) /\ \A r \in out' \ overtaken' : r \in out \ overtaken)
  PROVE  IInv'
<1>1. PICK g : g = job[a].new
  OBVIOUS
<1>2. /\ g \in Gen /\ g \notin acct.ever /\ gen[g].at # "unborn" /\ gen[g].dead = {}
      /\ g \in unread \/ gen[g].at = "live"
      /\ Minted(a)
  BY <1>1, Own DEF MintOK, Minting, Minted
<1>3. acct \in [pointer : Gen, ever : SUBSET Gen,
                standing : SUBSET Credential, enrolled : SUBSET Client]
  BY Given DEF TypeOK
<1>4. /\ acct' \in [pointer : Gen, ever : SUBSET Gen,
                    standing : SUBSET Credential, enrolled : SUBSET Client]
      /\ acct'.pointer = g /\ acct'.ever = acct.ever \cup {g}
      /\ acct'.standing = acct.standing /\ acct'.enrolled = acct.enrolled
  BY <1>1, <1>2, <1>3 DEF PointedAt
<1>5. /\ job' \in [Actor -> Job] /\ job'[a] = n
      /\ \A b \in Actor \ {a} : job'[b] = job[b]
  BY Given DEF TypeOK
<1>6. TypeOK'
  BY <1>4, <1>5, Given DEF TypeOK
<1>7. JobEvolves(a)
  BY <1>5 DEF JobEvolves, Minted
<1>8. AcctEvolves(a)
  BY <1>1, <1>2, <1>4 DEF AcctEvolves
<1>9. Evolves(a)
  BY <1>7, <1>8, Still DEF Evolves
<1>10. JobOK(a)'
  <2>1. Fit(a, n)'
    BY <1>4, <1>6, <1>9, FitKeeps
  <2>2. MintOK(a, n)'
    BY DEF MintOK
  <2> QED
    BY <1>5, <2>1, <2>2 DEF JobOK
<1>11. PointerOK'
  BY <1>2, <1>4, Given DEF PointerOK, PointedStands, Live
<1>12. ~Stranded'
  BY <1>2, <1>4 DEF Stranded
<1>13. \A h \in Gen : GenOK(h)'
  BY <1>4, Given DEF GenOK, Embedded
<1>14. \A x \in visited' : VisitOK(x)'
  BY Given DEF Shared, VisitOK
<1>15. Shared'
  BY <1>11, <1>12, <1>13, <1>14 DEF Shared, StrandedOK
<1> QED
  BY <1>6, <1>9, <1>10, <1>15, Advance

\* Point: the swap's pointer entry, and its report.
LEMMA PointStep ==
  ASSUME IInv, NEW c \in Client, Point(c)
  PROVE  IInv'
<1>1. /\ job[c].pc = "point" /\ EndSwap(c)
      /\ UNCHANGED <<gen, digest, visited, unread, torn, left>>
  BY DEF Point
<1>2. c \in Actor
  BY DEF Actor
<1>3. CASE acct.pointer # job[c].view
  <2>1. UNCHANGED <<acct, due, out, overtaken>>
    BY <1>3 DEF Point
  <2> QED
    BY <1>1, <1>2, <1>3, <2>1, EndStep
<1>4. CASE acct.pointer = job[c].view
  <2>1. acct' = PointedAt(job[c].new) /\ due' = FALSE /\ ReportRetired(c)
    BY <1>4 DEF Point
  <2>2. BookEvolves(c) /\ out' \cup overtaken' \subseteq Credential
    BY <1>1, <1>2, <2>1, ReportBooks
  <2>3. PICK n \in Over : /\ job' = [job EXCEPT ![c] = n]
                          /\ n.pc # "idle" => c \in acct.enrolled
    BY <1>1, <1>2, EndsOver
  <2>4. n \in Job /\ n.pc \notin Minting /\ n.pc # "mint"
    BY OverTyped DEF Minting
  <2>5. /\ acct'.pointer = job[c].new /\ acct'.enrolled = acct.enrolled
        /\ acct'.standing = acct.standing
    BY <2>1, Given DEF TypeOK, PointedAt
  <2>6. TypeOK' => Fit(c, n)'
    BY <2>3, <2>5, OverFits
  <2>7. ASSUME NEW r \in out' \ overtaken' PROVE RetiredOK(r)'
    <3>1. gen'[acct'.pointer].rungs = job[c].set
      BY <1>1, <1>2, <2>5, Own DEF MintOK, Minting, Written
    <3>2. CASE r \in out \ overtaken
      <4>1. CarryOK(c, job[c], r) /\ RetiredOK(r)
        BY <1>2, <3>2, Own DEF Fit
      <4> QED
        BY <1>4, <2>5, <3>1, <4>1 DEF CarryOK, RetiredOK
    <3>3. CASE r \notin out \ overtaken
      <4>1. r = job[c].retire /\ r # None
        BY <1>2, <2>1, <2>7, <3>3, Reports
      <4>2. r \notin acct.standing \cup job[c].set
        BY <1>2, <4>1, Own DEF Fit, RetireOK
      <4> QED
        BY <2>5, <3>1, <4>2 DEF RetiredOK
    <3> QED
      BY <3>2, <3>3
  <2>8. due' \in BOOLEAN
    BY <2>1
  <2> QED
    BY <1>1, <1>2, <2>1, <2>2, <2>3, <2>4, <2>6, <2>7, <2>8, RepointStep
<1> QED
  BY <1>3, <1>4

\* Move: the ladder's pointer entry.
LEMMA LadderMoves ==
  ASSUME IInv, NEW k \in Credential, Move(k)
  PROVE  IInv'
<1>1. /\ job[k].pc = "move"
      /\ UNCHANGED <<gen, digest, visited, out, overtaken, unread, torn, left>>
  BY DEF Move
<1>2. k \in Actor /\ k \notin Client
  BY AnnexAssumption DEF Actor, AnnexAssumption
<1>3. CASE ~MayWrite(k)
  <2>1. Stop(k) /\ UNCHANGED <<acct, due>>
    BY <1>3 DEF Move
  <2> QED
    BY <1>1, <1>2, <2>1, HaltStep
<1>4. CASE MayWrite(k)
  <2>1. PICK n : n = [job[k] EXCEPT !.pc = "target", !.set = {}, !.new = None]
    OBVIOUS
  <2>2. acct' = PointedAt(job[k].new) /\ due' = FALSE /\ job' = [job EXCEPT ![k] = n]
    BY <1>4, <2>1 DEF Move
  <2>3. job[k] \in Job /\ Fit(k, job[k]) /\ MintOK(k, job[k])
    BY <1>2, Own
  <2>4. /\ n \in Job /\ n.pc = "target" /\ n.set = {} /\ n.cred = job[k].cred
        /\ n.retire = job[k].retire /\ n.view = job[k].view
    BY <2>1, <2>3 DEF Job, Steps
  <2>5. /\ ViewOK(n) /\ PassOK(n) /\ SweepOK(n) /\ RetireOK(n) /\ ClientOK(k, n) /\ OldOK(n)
        /\ \A r \in out \ overtaken : CarryOK(k, n, r)
    BY <1>1, <1>2, <2>3, <2>4
       DEF Fit, ViewOK, PassOK, SweepOK, RetireOK, ClientOK, OldOK, CarryOK
  <2>6. Fit(k, n) /\ n.pc \notin Minting /\ n.pc # "mint"
    BY <2>4, <2>5 DEF Fit, Minting
  <2>7. BookEvolves(k) /\ out' \cup overtaken' \subseteq Credential
    BY <1>1, BooksStill, Given DEF TypeOK
  <2>8. ASSUME NEW r \in out' \ overtaken' PROVE RetiredOK(r)'
    <3>1. gen'[acct'.pointer].rungs = job[k].set /\ acct'.standing = acct.standing
      <4>1. acct'.pointer = job[k].new /\ acct'.standing = acct.standing
        BY <2>2, Given DEF TypeOK, PointedAt
      <4> QED
        BY <1>1, <2>3, <4>1 DEF MintOK, Minting, Written
    <3>2. CarryOK(k, job[k], r) /\ RetiredOK(r)
      BY <1>1, <1>2, <2>3, <2>8, Own DEF Fit
    <3> QED
      BY <1>2, <3>1, <3>2 DEF CarryOK, RetiredOK
  <2>9. due' \in BOOLEAN /\ \A r \in out' \ overtaken' : r \in out \ overtaken
    BY <1>1, <2>2
  <2> QED
    BY <1>1, <1>2, <2>2, <2>4, <2>6, <2>7, <2>8, <2>9, RepointStep
<1> QED
  BY <1>3, <1>4

(***************************************************************************)
(* Entries that take a credential, or the last client, off the account.    *)
(***************************************************************************)
\* The account document loses members, and no log is written.
LEMMA ShrinkStep ==
  ASSUME IInv, NEW a \in Actor, NEW n \in Job, job' = [job EXCEPT ![a] = n],
         n.pc \notin Minting, job[a].pc # "point",
         acct' \in [pointer : Gen, ever : SUBSET Gen,
                    standing : SUBSET Credential, enrolled : SUBSET Client],
         acct'.pointer = acct.pointer, acct'.ever = acct.ever,
         acct'.standing \subseteq acct.standing,
         acct'.enrolled = acct.enrolled \/ (acct.enrolled = {a} /\ acct'.enrolled = {}),
         UNCHANGED <<gen, due, digest, visited, out, overtaken, unread, torn>>,
         left' \in 0 .. MaxEvents, TypeOK' => Fit(a, n)' /\ MintOK(a, n)'
  PROVE  IInv'
<1>1. /\ job' \in [Actor -> Job] /\ job'[a] = n
      /\ \A b \in Actor \ {a} : job'[b] = job[b]
  BY Given DEF TypeOK
<1>2. TypeOK'
  BY <1>1, Given DEF TypeOK
<1>3. JobEvolves(a)
  BY <1>1 DEF JobEvolves, Minted
<1>4. AcctEvolves(a) /\ BookEvolves(a)
  BY BooksStill DEF AcctEvolves
<1>5. Evolves(a)
  BY <1>3, <1>4, Still DEF Evolves
<1>6. JobOK(a)'
  BY <1>1, <1>2 DEF JobOK
<1>7. PointerOK'
  BY Given DEF PointerOK, PointedStands, Live
<1>8. StrandedOK'
  <2>1. Listed' \subseteq Listed
    BY DEF Listed
  <2>2. Stranded' => Stranded
    BY <2>1 DEF Stranded, Live, Embedded
  <2>3. ASSUME NEW c \in Client, job[c].pc = "point" PROVE job'[c] = job[c]
    BY <1>1, <2>3 DEF Actor
  <2> QED
    BY <2>2, <2>3, Given DEF StrandedOK
<1>9. \A h \in Gen : GenOK(h)'
  BY Given DEF GenOK, Embedded
<1>10. \A x \in visited' : VisitOK(x)'
  BY Given DEF Shared, VisitOK
<1>11. \A r \in out' \ overtaken' : RetiredOK(r)'
  BY Given DEF Shared, RetiredOK
<1>12. Shared'
  BY <1>7, <1>8, <1>9, <1>10, <1>11 DEF Shared
<1> QED
  BY <1>2, <1>5, <1>6, <1>12, Advance

\* Retire: the document edit that starts a retirement.
LEMMA RetireBegins ==
  ASSUME IInv, NEW c \in Client, NEW r \in Credential, NEW k \in Credential, Retire(c, r, k)
  PROVE  IInv'
<1>1. /\ Begins(c) /\ c \in acct.enrolled /\ {r, k} \subseteq acct.standing /\ r # k
      /\ acct' = [acct EXCEPT !.standing = @ \ {r}]
      /\ UNCHANGED <<gen, due, digest, visited, out, overtaken, unread, torn>>
  BY DEF Retire
<1>2. PICK named \in BOOLEAN :
        job' = [job EXCEPT ![c] = [Idle EXCEPT
                  !.pc = IF named THEN "strike" ELSE "swapHead",
                  !.cred = k, !.retire = r, !.view = acct.pointer,
                  !.drop = IF named THEN {r} ELSE Credential]]
  BY DEF Retire
<1>3. PICK pc \in {"strike", "swapHead"} : pc = IF named THEN "strike" ELSE "swapHead"
  OBVIOUS
<1>4. PICK drop \in SUBSET Credential :
        drop = (IF named THEN {r} ELSE Credential) /\ r \in drop
  OBVIOUS
<1>5. PICK n : n = [Idle EXCEPT !.pc = pc, !.cred = k, !.retire = r,
                                !.view = acct.pointer, !.drop = drop]
  OBVIOUS
<1>6. job' = [job EXCEPT ![c] = n]
  BY <1>2, <1>3, <1>4, <1>5
<1>7. acct.pointer \in Gen /\ PointerOK /\ k # None /\ c \in Actor
  BY Given, AnnexAssumption DEF AnnexAssumption, Actor
<1>8. /\ n \in Job /\ n.pc = pc /\ n.cred = k /\ n.retire = r /\ n.view = acct.pointer
      /\ n.drop = drop /\ n.set = {} /\ n.new = None
  BY <1>5, <1>7, IdleTyped DEF Job, Steps
<1>9. /\ acct' \in [pointer : Gen, ever : SUBSET Gen,
                    standing : SUBSET Credential, enrolled : SUBSET Client]
      /\ acct'.pointer = acct.pointer /\ acct'.ever = acct.ever
      /\ acct'.standing = acct.standing \ {r} /\ acct'.enrolled = acct.enrolled
  BY <1>1, Given DEF TypeOK
<1>10. left' \in 0 .. MaxEvents /\ job[c].pc = "idle"
  BY <1>1, Budget DEF Begins
<1>11. n.pc \notin Minting /\ MintOK(c, n)'
  BY <1>8 DEF MintOK, Minting
<1>12. Fit(c, n)'
  <2>1. ViewOK(n)' /\ PassOK(n)' /\ SweepOK(n)' /\ OldOK(n)' /\ ClientOK(c, n)'
    BY <1>1, <1>7, <1>8, <1>9 DEF PointerOK, ViewOK, PassOK, SweepOK, OldOK, ClientOK
  <2>2. RetireOK(n)'
    BY <1>1, <1>4, <1>8, <1>9 DEF RetireOK
  <2>3. \A x \in out' \ overtaken' : CarryOK(c, n, x)'
    BY <1>1, <1>8, Given DEF Shared, RetiredOK, CarryOK
  <2> QED
    BY <2>1, <2>2, <2>3 DEF Fit
<1>13. acct'.standing \subseteq acct.standing
  BY <1>9
<1> QED
  BY <1>1, <1>6, <1>7, <1>8, <1>9, <1>10, <1>11, <1>12, <1>13, ShrinkStep

\* RemoveLast: the account is left with no client.
LEMMA RemoveStep ==
  ASSUME IInv, NEW c \in Client, RemoveLast(c)
  PROVE  IInv'
<1>1. /\ job[c].pc = "remove" /\ job' = [job EXCEPT ![c] = Idle]
      /\ UNCHANGED <<gen, due, digest, visited, out, overtaken, unread, torn, left>>
      /\ acct' = acct \/ acct' = [acct EXCEPT !.enrolled = {}]
  BY DEF RemoveLast, Stop
<1>2. c \in Actor
  BY DEF Actor
<1>3. acct.enrolled = {c} /\ left' \in 0 .. MaxEvents
  BY <1>1, <1>2, Own DEF Fit, ClientOK
<1>4. acct \in [pointer : Gen, ever : SUBSET Gen,
                standing : SUBSET Credential, enrolled : SUBSET Client]
  BY Given DEF TypeOK
<1>5. /\ acct' \in [pointer : Gen, ever : SUBSET Gen,
                    standing : SUBSET Credential, enrolled : SUBSET Client]
      /\ acct'.pointer = acct.pointer /\ acct'.ever = acct.ever
      /\ acct'.standing = acct.standing
      /\ acct'.enrolled = acct.enrolled \/ acct'.enrolled = {}
  BY <1>1, <1>4
<1>6. Idle \in Job /\ Idle.pc \notin Minting
  BY IdleTyped DEF Minting
<1>7. TypeOK' => Fit(c, Idle)' /\ MintOK(c, Idle)'
  BY IdleFits
<1> QED
  BY <1>1, <1>2, <1>3, <1>5, <1>6, <1>7, ShrinkStep

\* A strike is reported: the retired rung is out of the generation the
\* account points at.
LEMMA StrikeReports ==
  ASSUME IInv, NEW c \in Client, job[c].pc = "strike", ReportRetired(c), Stop(c),
         UNCHANGED <<acct, due, digest, visited, unread, torn, left>>,
         GenEvolves(c), gen' \in [Gen -> Generation],
         \A k \in out \ overtaken : RetiredOK(k)',
         job[c].retire \notin gen'[job[c].view].rungs,
         (\A k \in out' \ overtaken' : RetiredOK(k)') => Shared'
  PROVE  IInv'
<1>1. c \in Actor
  BY DEF Actor
<1>2. BookEvolves(c) /\ out' \cup overtaken' \subseteq Credential
  BY <1>1, ReportBooks
<1>3. Idle \in Over
  BY DEF Over
<1>4. job' \in [Actor -> Job] /\ job'[c] = Idle /\ JobEvolves(c)
  BY <1>1, <1>3, OverJobs DEF Stop
<1>5. TypeOK'
  BY <1>2, <1>4, Given DEF TypeOK
<1>6. Evolves(c)
  BY <1>2, <1>4, Still DEF Evolves
<1>7. JobOK(c)'
  BY <1>4, <1>5, IdleFits DEF JobOK
<1>8. ASSUME NEW r \in out' \ overtaken' PROVE RetiredOK(r)'
  <2>1. CASE r \in out \ overtaken
    BY <2>1
  <2>2. CASE r \notin out \ overtaken
    <3>1. /\ r = job[c].retire /\ r # None
          /\ acct'.pointer \in {job[c].view, job[c].new} \/ r \notin gen'[acct'.pointer].rungs
      BY <1>1, <1>8, <2>2, Reports
    <3>2. r \notin acct.standing /\ job[c].new = None
      BY <1>1, <3>1, Own DEF Fit, RetireOK
    <3>3. acct'.pointer \in Gen /\ acct'.pointer # None
      BY <1>5, Given DEF TypeOK
    <3> QED
      BY <3>1, <3>2, <3>3 DEF RetiredOK
  <2> QED
    BY <2>1, <2>2
<1> QED
  BY <1>5, <1>6, <1>7, <1>8, Advance

\* Strike: the four answers of the generation the edited document names.
LEMMA StrikeStep ==
  ASSUME IInv, NEW c \in Client, Strike(c)
  PROVE  IInv'
<1>1. job[c].pc = "strike" /\ UNCHANGED <<due, digest, visited, unread, torn, left>>
  BY DEF Strike
<1>2. c \in Actor
  BY DEF Actor
<1>3. job[c] \in Job /\ Fit(c, job[c])
  BY <1>2, Own
<1>4. PICK g \in Gen : g = job[c].view /\ g \in acct.ever
  BY <1>1, <1>3, Given DEF Fit, ViewOK
<1>5. CASE Goto(c, "swapHead") /\ UNCHANGED <<acct, gen, out, overtaken>>
  BY <1>1, <1>2, <1>5, GotoStep
<1>6. CASE Stop(c) /\ UNCHANGED <<acct, gen, out, overtaken>>
  BY <1>1, <1>2, <1>6, HaltStep
<1>7. ASSUME Stop(c) PROVE \A b \in Actor \ {c} : job'[b] = job[b]
  BY <1>7, Given DEF Stop, TypeOK
<1>8. CASE /\ job[c].retire \notin gen[g].rungs
           /\ UNCHANGED <<acct, gen>> /\ ReportRetired(c) /\ Stop(c)
  <2>1. GenEvolves(c) /\ gen' \in [Gen -> Generation]
    BY <1>8, Still, Given DEF TypeOK
  <2>2. \A k \in out \ overtaken : RetiredOK(k)'
    BY <1>8, Given DEF Shared, RetiredOK
  <2>3. BookEvolves(c)
    BY <1>1, <1>2, <1>8, ReportBooks
  <2>4. ASSUME \A k \in out' \ overtaken' : RetiredOK(k)' PROVE Shared'
    <3>1. PointerOK' /\ \A h \in Gen : GenOK(h)'
      BY <1>1, <1>8, Given DEF PointerOK, PointedStands, Live, GenOK, Embedded
    <3>2. \A x \in visited' : VisitOK(x)'
      BY <1>1, <1>8, Given DEF Shared, VisitOK
    <3>3. StrandedOK'
      <4>1. Stranded' <=> Stranded
        BY <1>8 DEF Stranded, Live, Embedded, Listed
      <4>2. \A d \in Client : job[d].pc = "point" => job'[d] = job[d]
        BY <1>1, <1>7, <1>8 DEF Actor
      <4> QED
        BY <1>1, <1>8, <4>1, <4>2, Given DEF StrandedOK
    <3> QED
      BY <2>4, <3>1, <3>2, <3>3 DEF Shared
  <2>5. job[c].retire \notin gen'[job[c].view].rungs
    BY <1>4, <1>8
  <2> QED
    BY <1>1, <1>8, <2>1, <2>2, <2>4, <2>5, StrikeReports
<1>9. CASE /\ Live(g) /\ UNCHANGED acct
           /\ Entry(g, [gen[g] EXCEPT !.rungs = @ \ {job[c].retire}])
           /\ ReportRetired(c) /\ Stop(c)
  <2>1. PICK r : r = [[gen[g] EXCEPT !.rungs = @ \ {job[c].retire}] EXCEPT !.quiet = FALSE]
    OBVIOUS
  <2>2. gen' = [gen EXCEPT ![g] = r]
    BY <1>9, <2>1 DEF Entry
  <2>3. gen[g] \in Generation /\ GenOK(g) /\ Embedded(g) \in Nat /\ gen[g].at = "live"
    BY <1>9, Given DEF Live
  <2>4. /\ r \in Generation /\ r.at = gen[g].at /\ r.dels = gen[g].dels
        /\ r.dead = gen[g].dead /\ r.visits = gen[g].visits /\ ~r.quiet
        /\ r.rungs = gen[g].rungs \ {job[c].retire}
    BY <2>1, <2>3 DEF Generation
  <2>5. Len(r.dels) = Embedded(g)
    BY <2>4 DEF Embedded
  <2>6. EditOK(c, g, r)
    BY <1>4, <2>3, <2>4, <2>5 DEF EditOK
  <2>7. ShareOK(c, g, r)
    <3>1. \A i \in r.dead : i \in 1 .. Len(r.dels)
      BY <2>3, <2>4, <2>5 DEF GenOK
    <3>2. job[c].retire \notin acct.standing
      BY <1>3, Own, <1>2, AnnexAssumption DEF Fit, RetireOK, AnnexAssumption
    <3>3. \A i \in 1 .. Len(r.dels) : r.dels[i] \in acct.standing => r.dels[i] \in r.rungs
      BY <2>3, <2>4, <2>5, <3>2 DEF GenOK
    <3>4. (g = acct.pointer /\ r.at = "live" /\ Len(r.dels) \in r.dead
             /\ r.dels[Len(r.dels)] \in Listed) => Stranded
      BY <1>9, <2>4, <2>5 DEF Stranded
    <3> QED
      BY <2>3, <2>4, <3>1, <3>3, <3>4 DEF ShareOK
  <2>8. GenEvolves(c) /\ gen' \in [Gen -> Generation] /\ gen'[g] = r
    BY <2>2, <2>4, <2>6, EditEvolves, Edited
  <2>9. \A k \in out \ overtaken : RetiredOK(k)'
    <3> SUFFICES ASSUME NEW k \in out \ overtaken PROVE RetiredOK(k)'
      OBVIOUS
    <3>1. RetiredOK(k) /\ acct.pointer \in Gen
      BY Given DEF Shared
    <3>2. k \notin gen'[acct.pointer].rungs
      BY <2>2, <2>4, <3>1, Edited DEF RetiredOK
    <3> QED
      BY <1>9, <3>1, <3>2 DEF RetiredOK
  <2>10. BookEvolves(c)
    BY <1>1, <1>2, <1>9, ReportBooks
  <2>11. ASSUME \A k \in out' \ overtaken' : RetiredOK(k)' PROVE Shared'
    <3>1. \A b \in Actor \ {c} : job'[b] = job[b]
      BY <1>7, <1>9
    <3> QED
      BY <1>1, <1>9, <2>2, <2>4, <2>6, <2>7, <2>10, <2>11, <3>1, EditShared
  <2>12. job[c].retire \notin gen'[job[c].view].rungs
    BY <1>4, <2>4, <2>8
  <2> QED
    BY <1>1, <1>9, <2>8, <2>9, <2>11, <2>12, StrikeReports
<1> QED
  BY <1>4, <1>5, <1>6, <1>8, <1>9 DEF Strike

\* CommitRung: a standing writer admits another, outside any ceremony here.
LEMMA CommitStep ==
  ASSUME IInv, NEW b \in Credential, NEW k \in Credential, NEW g \in Gen, CommitRung(b, k, g)
  PROVE  IInv'
<1>1. /\ Disturb /\ b \in acct.standing /\ g \in acct.ever /\ Live(g)
      /\ UNCHANGED <<acct, due, job, digest, visited, out, overtaken, unread, torn>>
  BY DEF CommitRung
<1>2. PICK r : r = [[gen[g] EXCEPT !.rungs = @ \cup {b}] EXCEPT !.quiet = FALSE]
  OBVIOUS
<1>3. gen' = [gen EXCEPT ![g] = r]
  BY <1>2 DEF CommitRung, Entry
<1>4. gen[g] \in Generation /\ GenOK(g) /\ Embedded(g) \in Nat /\ gen[g].at = "live"
  BY <1>1, Given DEF Live
<1>5. /\ r \in Generation /\ r.at = gen[g].at /\ r.dels = gen[g].dels
      /\ r.dead = gen[g].dead /\ r.visits = gen[g].visits /\ ~r.quiet
      /\ r.rungs = gen[g].rungs \cup {b}
  BY <1>2, <1>4 DEF Generation
<1>6. Len(r.dels) = Embedded(g)
  BY <1>5 DEF Embedded
<1>7. EditOK(None, g, r)
  BY <1>1, <1>4, <1>5, <1>6 DEF EditOK
<1>8. ShareOK(None, g, r)
  <2>1. \A i \in r.dead : i \in 1 .. Len(r.dels)
    BY <1>4, <1>5, <1>6 DEF GenOK
  <2>2. \A i \in 1 .. Len(r.dels) : r.dels[i] \in acct.standing => r.dels[i] \in r.rungs
    BY <1>4, <1>5, <1>6 DEF GenOK
  <2>3. (g = acct.pointer /\ r.at = "live" /\ Len(r.dels) \in r.dead
           /\ r.dels[Len(r.dels)] \in Listed) => Stranded
    BY <1>1, <1>5, <1>6 DEF Stranded
  <2> QED
    BY <1>4, <1>5, <2>1, <2>2, <2>3 DEF ShareOK
<1>9. None \notin Actor
  BY AnnexAssumption DEF AnnexAssumption, Actor
<1>10. BookEvolves(None) /\ JobEvolves(None) /\ AcctEvolves(None)
  BY <1>1, <1>9, BooksStill, Still DEF JobEvolves
<1>11. GenEvolves(None) /\ gen' \in [Gen -> Generation]
  BY <1>3, <1>5, <1>7, EditEvolves, Edited
<1>12. \A x \in out' \ overtaken' : RetiredOK(x)'
  BY <1>1, <1>3, <1>5, <1>7, EditRetired
<1>13. \A a \in Actor \ {None} : job'[a] = job[a]
  BY <1>1
<1>14. Shared'
  BY <1>1, <1>3, <1>5, <1>7, <1>8, <1>9, <1>10, <1>12, <1>13, EditShared
<1>15. TypeOK'
  BY <1>1, <1>11, Budget, Given DEF TypeOK
<1> QED
  BY <1>9, <1>10, <1>11, <1>14, <1>15, Advance DEF Evolves

(***************************************************************************)
(* A transient visit.                                                      *)
(***************************************************************************)
\* Ensure: a current delegation, a renewed one, or a fresh generation.
LEMMA EnsureStep ==
  ASSUME IInv, NEW k \in Credential, Ensure(k)
  PROVE  IInv'
<1>1. /\ job[k].pc = "ensure"
      /\ UNCHANGED <<acct, due, digest, visited, out, overtaken, unread, torn, left>>
  BY DEF Ensure
<1>2. k \in Actor /\ k \notin Client
  BY AnnexAssumption DEF Actor, AnnexAssumption
<1>3. job[k] \in Job /\ Fit(k, job[k])
  BY <1>2, Own
<1>4. PICK g \in Gen : g = job[k].view /\ g \in acct.ever
  BY <1>1, <1>3, Given DEF Fit, ViewOK
<1>5. CASE Goto(k, "target") /\ UNCHANGED gen
  BY <1>1, <1>2, <1>5, GotoStep
<1>6. CASE Stop(k) /\ UNCHANGED gen
  BY <1>1, <1>2, <1>6, HaltStep
<1>7. CASE /\ Live(g) /\ LogCommitsRung(k, g)
           /\ Entry(g, Delegated(gen[g], k)) /\ Goto(k, "target")
  <2>1. PICK r : r = [Delegated(gen[g], k) EXCEPT !.quiet = FALSE]
    OBVIOUS
  <2>2. gen' = [gen EXCEPT ![g] = r]
    BY <1>7, <2>1 DEF Entry
  <2>3. r \in Generation /\ EditOK(k, g, r) /\ ShareOK(k, g, r)
    BY <1>2, <1>4, <1>7, <2>1, InstallsFit DEF Live, LogCommitsRung
  <2>4. PICK j : j = [job[k] EXCEPT !.pc = "target"]
    OBVIOUS
  <2>5. /\ j \in Job /\ j.pc = "target" /\ j.view = job[k].view /\ j.cred = job[k].cred
        /\ j.retire = job[k].retire /\ j.set = job[k].set
    BY <1>3, <2>4 DEF Job, Steps
  <2>6. job' = [job EXCEPT ![k] = j]
    BY <1>7, <2>4 DEF Goto
  <2>7. /\ ViewOK(j) /\ PassOK(j) /\ SweepOK(j) /\ RetireOK(j) /\ OldOK(j) /\ ClientOK(k, j)
        /\ \A x \in out \ overtaken : CarryOK(k, j, x)
    BY <1>1, <1>2, <1>3, <2>5
       DEF Fit, ViewOK, PassOK, SweepOK, RetireOK, OldOK, ClientOK, CarryOK
  <2>8. Fit(k, j) /\ MintOK(k, j)' /\ j.pc \notin Minting /\ job[k].pc # "point"
    BY <1>1, <2>5, <2>7 DEF Fit, MintOK, Minting
  <2>9. /\ unread \subseteq unread' /\ unread' \subseteq Gen
        /\ due' \in BOOLEAN /\ left' \in 0 .. MaxEvents
    BY <1>1, <1>2, Own
  <2> QED
    BY <1>1, <1>2, <2>2, <2>3, <2>5, <2>6, <2>8, <2>9, WriteStep
<1>8. CASE /\ job' = [job EXCEPT ![k].pc = "mint", ![k].set = Restated(g, {}) \cup {k}]
           /\ UNCHANGED gen
  <2>1. PICK set \in SUBSET Credential :
          set = Restated(g, {}) \cup {k} /\ \A x \in set : x = k \/ x \in gen[g].rungs
    <3>1. gen[g].rungs \subseteq Credential
      BY Given DEF Generation
    <3> QED
      BY <3>1 DEF Restated
  <2>2. PICK j : j = [job[k] EXCEPT !.pc = "mint", !.set = set]
    OBVIOUS
  <2>3. /\ j \in Job /\ j.pc = "mint" /\ j.view = job[k].view /\ j.cred = job[k].cred
        /\ j.retire = job[k].retire /\ j.set = set /\ j.old = job[k].old
    BY <1>3, <2>2 DEF Job, Steps
  <2>4. job' = [job EXCEPT ![k] = j]
    BY <1>8, <2>1, <2>2
  <2>5. ViewOK(j) /\ PassOK(j) /\ SweepOK(j) /\ RetireOK(j) /\ ClientOK(k, j)
    BY <1>1, <1>2, <1>3, <2>3 DEF Fit, ViewOK, PassOK, SweepOK, RetireOK, ClientOK
  <2>6. OldOK(j)
    <3>1. j.old = 0 /\ j.view = g /\ Embedded(g) \in Nat
      BY <1>1, <1>3, <1>4, <2>3, Given DEF Fit, ClientOK
    <3> QED
      BY <2>3, <3>1 DEF OldOK
  <2>7. ASSUME NEW x \in out \ overtaken PROVE CarryOK(k, j, x)
    <3>1. x # k /\ x \notin gen[g].rungs /\ job[k].cred # x
      BY <1>1, <1>3, <1>4, <2>7 DEF Fit, CarryOK, ClientOK
    <3> QED
      BY <2>1, <2>3, <3>1 DEF CarryOK
  <2>8. Fit(k, j) /\ MintOK(k, j) /\ j.pc \notin Minting
    BY <2>1, <2>3, <2>5, <2>6, <2>7 DEF Fit, MintOK, Minting
  <2> QED
    BY <1>1, <1>2, <1>8, <2>3, <2>4, <2>8, MoveStep
<1> QED
  BY <1>4, <1>5, <1>6, <1>7, <1>8 DEF Ensure

\* The actor's own job fits the state its write leaves.
LEMMA WriteKeeps ==
  ASSUME IInv, NEW a \in Actor, NEW i \in Job, i = job[a],
         NEW j \in Job, job' = [job EXCEPT ![a] = j], j.pc \notin Minting,
         NEW g \in Gen, NEW r \in Generation,
         gen' = [gen EXCEPT ![g] = r], EditOK(a, g, r),
         UNCHANGED <<acct, digest, visited, out, overtaken, unread>>
  PROVE  Fit(a, i)'
<1>1. job'[a] = j /\ \A b \in Actor \ {a} : job'[b] = job[b]
  BY Given DEF TypeOK
<1>2. JobEvolves(a)
  BY <1>1 DEF JobEvolves, Minted
<1>3. Evolves(a)
  BY <1>2, Still, BooksStill, EditEvolves DEF Evolves
<1>4. Fit(a, i) /\ (a # a \/ acct'.enrolled = acct.enrolled)
  BY Own
<1> QED
  BY <1>3, <1>4, FitKeeps

\* AppendVisit: the visit's method enters the log.
LEMMA AppendStep ==
  ASSUME IInv, NEW k \in Credential, AppendVisit(k)
  PROVE  IInv'
<1>1. /\ job[k].pc = "append"
      /\ UNCHANGED <<acct, due, digest, visited, out, overtaken, unread, torn, left>>
  BY DEF AppendVisit
<1>2. k \in Actor /\ k \notin Client
  BY AnnexAssumption DEF Actor, AnnexAssumption
<1>3. PICK i \in Job : i = job[k] /\ Fit(k, i) /\ i.pc = "append"
  BY <1>1, <1>2, Own
<1>4. PICK g \in Gen : g = i.view /\ g \in acct.ever
  BY <1>3, Given DEF Fit, ViewOK
<1>5. CASE Stop(k) /\ UNCHANGED gen
  BY <1>1, <1>2, <1>5, HaltStep
<1>6. CASE /\ Live(g) /\ Entry(g, [gen[g] EXCEPT !.visits = @ \cup {i.visit}])
           /\ Goto(k, "confirm")
  <2>1. PICK r : r = [[gen[g] EXCEPT !.visits = @ \cup {i.visit}] EXCEPT !.quiet = FALSE]
    OBVIOUS
  <2>2. gen' = [gen EXCEPT ![g] = r]
    BY <1>6, <2>1 DEF Entry
  <2>3. /\ gen[g] \in Generation /\ GenOK(g) /\ Embedded(g) \in Nat /\ gen[g].at = "live"
        /\ i.visit \in Nat
    BY <1>6, Given DEF Live, Job
  <2>4. /\ r \in Generation /\ r.at = gen[g].at /\ r.dels = gen[g].dels
        /\ r.dead = gen[g].dead /\ r.visits = gen[g].visits \cup {i.visit} /\ ~r.quiet
        /\ r.rungs = gen[g].rungs
    BY <2>1, <2>3 DEF Generation
  <2>5. Len(r.dels) = Embedded(g)
    BY <2>4 DEF Embedded
  <2>6. EditOK(k, g, r)
    BY <1>4, <2>3, <2>4, <2>5 DEF EditOK
  <2>7. ShareOK(k, g, r)
    <3>1. \A n \in r.dead : n \in 1 .. Len(r.dels)
      BY <2>3, <2>4, <2>5 DEF GenOK
    <3>2. \A n \in 1 .. Len(r.dels) : r.dels[n] \in acct.standing => r.dels[n] \in r.rungs
      BY <2>3, <2>4, <2>5 DEF GenOK
    <3>3. (g = acct.pointer /\ r.at = "live" /\ Len(r.dels) \in r.dead
             /\ r.dels[Len(r.dels)] \in Listed) => Stranded
      BY <1>6, <2>4, <2>5 DEF Stranded
    <3> QED
      BY <2>3, <2>4, <3>1, <3>2, <3>3 DEF ShareOK
  <2>8. PICK j : j = [i EXCEPT !.pc = "confirm"]
    OBVIOUS
  <2>9. /\ j \in Job /\ j.pc = "confirm" /\ j.view = g /\ j.cred = i.cred
        /\ j.retire = i.retire /\ j.set = i.set /\ j.visit = i.visit
        /\ j.pc \notin Minting
    BY <1>4, <2>8 DEF Job, Steps, Minting
  <2>10. job' = [job EXCEPT ![k] = j]
    BY <1>3, <1>6, <2>8 DEF Goto
  <2>11. Fit(k, i)' /\ gen'[g] = r
    <3>1. Fit(k, i)'
      BY <1>1, <1>2, <1>3, <2>2, <2>4, <2>6, <2>9, <2>10, WriteKeeps
    <3>2. gen'[g] = r
      BY <2>2, <2>4, Edited
    <3> QED
      BY <3>1, <3>2
  <2>12. ViewOK(j)'
    BY <1>1, <1>4, <2>4, <2>9, <2>11 DEF ViewOK
  <2>13. PassOK(j)' /\ SweepOK(j)' /\ RetireOK(j)' /\ OldOK(j)' /\ ClientOK(k, j)'
    BY <1>2, <1>3, <2>9, <2>11 DEF Fit, PassOK, SweepOK, RetireOK, OldOK, ClientOK
  <2>14. ASSUME NEW x \in out' \ overtaken' PROVE CarryOK(k, j, x)'
    BY <1>2, <1>3, <1>4, <2>9, <2>11 DEF Fit, CarryOK
  <2>15. Fit(k, j)'
    BY <2>12, <2>13, <2>14 DEF Fit
  <2>16. MintOK(k, j)'
    BY <2>9 DEF MintOK
  <2>17. /\ unread \subseteq unread' /\ unread' \subseteq Gen
         /\ due' \in BOOLEAN /\ left' \in 0 .. MaxEvents /\ job[k].pc # "point"
    BY <1>1, <1>2, Own
  <2> QED
    BY <1>1, <1>2, <2>2, <2>4, <2>6, <2>7, <2>9, <2>10, <2>15, <2>16, <2>17, WriteStep
<1> QED
  BY <1>3, <1>4, <1>5, <1>6 DEF AppendVisit

\* Confirm: the visit is reported where the account still points.
LEMMA ConfirmStep ==
  ASSUME IInv, NEW k \in Credential, Confirm(k)
  PROVE  IInv'
<1>1. /\ job[k].pc = "confirm"
      /\ UNCHANGED <<acct, gen, due, digest, out, overtaken, unread, torn, left>>
  BY DEF Confirm
<1>2. k \in Actor /\ k \notin Client
  BY AnnexAssumption DEF Actor, AnnexAssumption
<1>3. PICK i \in Job : i = job[k] /\ Fit(k, i) /\ i.pc = "confirm"
  BY <1>1, <1>2, Own
<1>4. acct.pointer \in Gen /\ PointerOK
  BY Given
<1>5. CASE acct.pointer = i.view
  <2>1. PICK x : x = <<i.visit, i.view>>
    OBVIOUS
  <2>2. visited' = visited \cup {x} /\ Stop(k)
    BY <1>3, <1>5, <2>1 DEF Confirm
  <2>3. x \in Nat \X Gen /\ x[1] = i.visit /\ x[2] = acct.pointer
    BY <1>4, <1>5, <2>1 DEF Job
  <2>4. BookEvolves(k)
    BY <1>1, <2>2, <2>3 DEF BookEvolves
  <2>5. Idle \in Over
    BY DEF Over
  <2>6. /\ job' \in [Actor -> Job] /\ job'[k] = Idle /\ JobEvolves(k)
        /\ \A b \in Actor \ {k} : job'[b] = job[b]
    BY <1>2, <2>2, <2>5, OverJobs DEF Stop
  <2>7. TypeOK'
    BY <1>1, <2>2, <2>3, <2>6, Given DEF TypeOK
  <2>8. Evolves(k)
    BY <1>1, <2>4, <2>6, Still DEF Evolves
  <2>9. JobOK(k)'
    BY <2>6, <2>7, IdleFits DEF JobOK
  <2>10. VisitOK(x)'
    BY <1>1, <1>3, <1>4, <1>5, <2>3 DEF VisitOK, Fit, ViewOK, PointerOK, PointedStands, Live
  <2>11. \A y \in visited' : VisitOK(y)'
    <3>1. \A y \in visited : VisitOK(y)'
      BY <1>1, Given DEF Shared, VisitOK
    <3> QED
      BY <2>2, <2>10, <3>1
  <2>12. PointerOK' /\ \A h \in Gen : GenOK(h)'
    BY <1>1, Given DEF PointerOK, PointedStands, Live, GenOK, Embedded
  <2>13. StrandedOK'
    <3>1. Stranded' <=> Stranded
      BY <1>1 DEF Stranded, Live, Embedded, Listed
    <3>2. \A d \in Client : job'[d] = job[d]
      BY <1>2, <2>6 DEF Actor
    <3> QED
      BY <1>1, <3>1, <3>2, Given DEF StrandedOK
  <2>14. \A r \in out' \ overtaken' : RetiredOK(r)'
    BY <1>1, Given DEF Shared, RetiredOK
  <2>15. Shared'
    BY <2>11, <2>12, <2>13, <2>14 DEF Shared
  <2> QED
    BY <2>7, <2>8, <2>9, <2>15, Advance
<1>6. CASE acct.pointer # i.view
  <2>1. UNCHANGED visited
    BY <1>3, <1>6 DEF Confirm
  <2>2. CASE Stop(k)
    BY <1>1, <1>2, <2>1, <2>2, HaltStep
  <2>3. CASE job' = [job EXCEPT ![k].pc = "append", ![k].round = @ + 1,
                                ![k].view = acct.pointer]
    <3>1. PICK n \in Nat : n = i.round + 1
      BY DEF Job
    <3>2. PICK j : j = [i EXCEPT !.pc = "append", !.round = n, !.view = acct.pointer]
      OBVIOUS
    <3>3. job' = [job EXCEPT ![k] = j]
      BY <1>3, <2>3, <3>1, <3>2
    <3>4. /\ j \in Job /\ j.pc = "append" /\ j.view = acct.pointer /\ j.cred = i.cred
          /\ j.retire = i.retire /\ j.set = i.set
      BY <1>4, <3>2 DEF Job, Steps
    <3>5. /\ ViewOK(j) /\ PassOK(j) /\ SweepOK(j) /\ RetireOK(j) /\ OldOK(j)
          /\ ClientOK(k, j)
      BY <1>2, <1>3, <1>4, <3>4
         DEF Fit, PointerOK, ViewOK, PassOK, SweepOK, RetireOK, OldOK, ClientOK
    <3>6. \A r \in out \ overtaken : CarryOK(k, j, r)
      BY <1>2, <1>3, <3>4 DEF Fit, CarryOK
    <3>7. Fit(k, j) /\ MintOK(k, j) /\ j.pc \notin Minting /\ job[k].pc # "point"
      BY <1>1, <3>4, <3>5, <3>6 DEF Fit, MintOK, Minting
    <3> QED
      BY <1>1, <1>2, <2>1, <3>3, <3>4, <3>7, MoveStep
  <2> QED
    BY <1>3, <1>6, <2>2, <2>3 DEF Confirm
<1> QED
  BY <1>5, <1>6

(***************************************************************************)
(* The last forget.                                                        *)
(***************************************************************************)
\* A stage of it that revokes, and goes on to one that will not outrun what
\* replaced the embedded delegation.
LEMMA ForgetWrites ==
  ASSUME IInv, NEW c \in Client, NEW i \in Job, i = job[c],
         i.pc \in {"doomed", "embedded"},
         NEW j \in Job, job' = [job EXCEPT ![c] = j], j.pc \in {"renew", "remove"},
         j.view = i.view, j.cred = i.cred, j.retire = i.retire, j.set = i.set,
         NEW v \in Gen, v = i.view,
         j.pc = "renew" => j.old <= Embedded(v) /\ (j.old # 0 => gen[v].dels[j.old] = j.cred),
         NEW D \in SUBSET (1 .. Embedded(v)),
         gen' = [gen EXCEPT ![v] = [gen[v] EXCEPT !.dead = @ \cup D]],
         Embedded(v) \in D => gen[v].dels[Embedded(v)] \notin Listed,
         UNCHANGED <<acct, due, digest, visited, out, overtaken, unread, torn, left>>
  PROVE  IInv'
<1>1. c \in Actor
  BY DEF Actor
<1>2. Fit(c, i) /\ v \in acct.ever
  BY <1>1, Own DEF Fit, ViewOK
<1>3. PICK r : r = [gen[v] EXCEPT !.dead = @ \cup D]
  OBVIOUS
<1>4. r \in Generation /\ EditOK(c, v, r) /\ ShareOK(c, v, r)
  BY <1>2, <1>3, Marked
<1>5. gen' = [gen EXCEPT ![v] = r]
  BY <1>3
<1>6. ViewOK(j) /\ PassOK(j) /\ SweepOK(j) /\ RetireOK(j) /\ OldOK(j) /\ ClientOK(c, j)
  BY <1>2 DEF Fit, ViewOK, PassOK, SweepOK, RetireOK, OldOK, ClientOK
<1>7. \A x \in out \ overtaken : CarryOK(c, j, x)
  BY <1>2 DEF Fit, CarryOK
<1>8. Fit(c, j) /\ MintOK(c, j)' /\ j.pc \notin Minting /\ job[c].pc # "point"
  BY <1>6, <1>7 DEF Fit, MintOK, Minting
<1>9. /\ unread \subseteq unread' /\ unread' \subseteq Gen
      /\ due' \in BOOLEAN /\ left' \in 0 .. MaxEvents
  BY <1>1, Own
<1> QED
  BY <1>1, <1>4, <1>5, <1>8, <1>9, WriteStep

\* RevokeHistory: what is no longer embedded.
LEMMA HistoryStep ==
  ASSUME IInv, NEW c \in Client, RevokeHistory(c)
  PROVE  IInv'
<1>1. /\ job[c].pc = "doomed"
      /\ UNCHANGED <<acct, due, digest, visited, out, overtaken, unread, torn, left>>
  BY DEF RevokeHistory
<1>2. c \in Actor
  BY DEF Actor
<1>3. PICK i \in Job : i = job[c] /\ Fit(c, i) /\ i.pc = "doomed"
  BY <1>1, <1>2, Own
<1>4. PICK v \in Gen : v = i.view
  BY <1>3, Given DEF Fit, ViewOK
<1>5. gen[v] \in Generation /\ Embedded(v) \in Nat
  BY Given
<1>6. CASE ~Live(v)
  <2>1. Goto(c, "remove") /\ UNCHANGED gen
    BY <1>3, <1>4, <1>6 DEF RevokeHistory
  <2> QED
    BY <1>1, <1>2, <2>1, GotoStep
<1>7. CASE Live(v)
  <2>1. PICK doomed : doomed = {n \in DOMAIN gen[v].dels : gen[v].dels[n] = i.cred}
    OBVIOUS
  <2>2. DOMAIN gen[v].dels = 1 .. Embedded(v)
    BY <1>5 DEF Generation, Embedded
  <2>3. PICK D \in SUBSET (1 .. Embedded(v)) :
          D = {n \in doomed \ {Embedded(v)} : Accepts(v, n)} /\ Embedded(v) \notin D
    <3> DEFINE E == {n \in doomed \ {Embedded(v)} : Accepts(v, n)}
    <3>1. E \subseteq DOMAIN gen[v].dels /\ Embedded(v) \notin E
      BY <2>1
    <3>2. E \in SUBSET (1 .. Embedded(v))
      BY <2>2, <3>1
    <3> HIDE DEF E
    <3>3. \E D \in SUBSET (1 .. Embedded(v)) : D = E /\ Embedded(v) \notin D
      BY <3>1, <3>2
    <3> QED
      BY <3>3 DEF E
  <2>4. PICK old \in Nat : /\ old = (IF Embedded(v) \in doomed THEN Embedded(v) ELSE 0)
                           /\ old <= Embedded(v)
                           /\ old # 0 => gen[v].dels[old] = i.cred
    <3>1. Embedded(v) \in doomed => gen[v].dels[Embedded(v)] = i.cred
      BY <2>1
    <3> QED
      BY <1>5, <3>1
  <2>5. PICK j : j = [i EXCEPT !.pc = "renew", !.old = old]
    OBVIOUS
  <2>6. /\ j \in Job /\ j.pc = "renew" /\ j.old = old /\ j.view = i.view
        /\ j.cred = i.cred /\ j.retire = i.retire /\ j.set = i.set
    BY <2>5 DEF Job, Steps
  <2>7. /\ gen' = [gen EXCEPT ![v] = [gen[v] EXCEPT !.dead = @ \cup D]]
        /\ job' = [job EXCEPT ![c] = j]
    <3>1. /\ gen' = [gen EXCEPT ![v].dead =
                       @ \cup {n \in doomed \ {Embedded(v)} : Accepts(v, n)}]
          /\ job' = [job EXCEPT ![c].pc = "renew",
                       ![c].old = IF Embedded(v) \in doomed THEN Embedded(v) ELSE 0]
      BY <1>3, <1>4, <1>7, <2>1 DEF RevokeHistory
    <3>2. gen' = [gen EXCEPT ![v].dead = @ \cup D]
      BY <2>3, <3>1
    <3>3. job' = [job EXCEPT ![c].pc = "renew", ![c].old = old]
      BY <2>4, <3>1
    <3> QED
      BY <1>3, <2>5, <3>2, <3>3
  <2>8. /\ j.pc = "renew" =>
             j.old <= Embedded(v) /\ (j.old # 0 => gen[v].dels[j.old] = j.cred)
        /\ Embedded(v) \in D => gen[v].dels[Embedded(v)] \notin Listed
    BY <2>3, <2>4, <2>6
  <2> QED
    BY ZenonT(40), <1>1, <1>3, <1>4, <2>6, <2>7, <2>8, ForgetWrites
<1> QED
  BY <1>6, <1>7

\* RevokeEmbedded: the delegation that was embedded, once replaced.
LEMMA EmbeddedStep ==
  ASSUME IInv, NEW c \in Client, RevokeEmbedded(c)
  PROVE  IInv'
<1>1. /\ job[c].pc = "embedded" /\ Goto(c, "remove")
      /\ UNCHANGED <<acct, due, digest, visited, out, overtaken, unread, torn, left>>
  BY DEF RevokeEmbedded
<1>2. c \in Actor
  BY DEF Actor
<1>3. PICK i \in Job : i = job[c] /\ Fit(c, i) /\ i.pc = "embedded"
  BY <1>1, <1>2, Own
<1>4. PICK v \in Gen : v = i.view
  BY <1>3, Given DEF Fit, ViewOK
<1>5. CASE i.old = 0
  <2>1. UNCHANGED gen
    BY <1>3, <1>5 DEF RevokeEmbedded
  <2> QED
    BY <1>1, <1>2, <2>1, GotoStep
<1>6. CASE i.old # 0
  <2>1. Revoke(v, i.old)
    BY <1>3, <1>4, <1>6 DEF RevokeEmbedded
  <2>2. PICK n \in 1 .. Embedded(v) :
          /\ n = i.old
          /\ n < Embedded(v) \/ gen[v].dels[n] \notin Listed
    <3>1. i.old \in Nat /\ i.old <= Embedded(v) /\ Embedded(v) \in Nat
      BY <1>3, <1>4, Given DEF Fit, OldOK, Job
    <3>2. i.old < Embedded(v) \/ gen[v].dels[i.old] \notin Listed
      BY <1>3, <1>4, <1>6 DEF Fit, OldOK
    <3> QED
      BY <1>6, <3>1, <3>2
  <2>3. PICK D \in SUBSET (1 .. Embedded(v)) :
          /\ gen' = [gen EXCEPT ![v] = [gen[v] EXCEPT !.dead = @ \cup D]]
          /\ \A d \in D : d = n
    BY <2>1, <2>2, RevokeMarks
  <2>4. Embedded(v) \in D => gen[v].dels[Embedded(v)] \notin Listed
    BY <2>2, <2>3, Given
  <2>5. PICK j : j = [i EXCEPT !.pc = "remove"]
    OBVIOUS
  <2>6. /\ j \in Job /\ j.pc = "remove" /\ j.view = i.view
        /\ j.cred = i.cred /\ j.retire = i.retire /\ j.set = i.set
    BY <2>5 DEF Job, Steps
  <2>7. job' = [job EXCEPT ![c] = j]
    BY <1>1, <1>3, <2>5 DEF Goto
  <2> QED
    BY <1>1, <1>3, <1>4, <2>3, <2>4, <2>6, <2>7, ForgetWrites
<1> QED
  BY <1>5, <1>6

\* RenewLast: a delegation of the leaving parties is replaced before the
\* ceremony goes on to revoke it.
LEMMA RenewStep ==
  ASSUME IInv, NEW c \in Client, RenewLast(c)
  PROVE  IInv'
<1>1. /\ job[c].pc = "renew"
      /\ UNCHANGED <<acct, due, digest, visited, out, overtaken, unread, torn, left>>
  BY DEF RenewLast
<1>2. c \in Actor
  BY DEF Actor
<1>3. PICK i \in Job : i = job[c] /\ Fit(c, i) /\ i.pc = "renew"
  BY <1>1, <1>2, Own
<1>4. PICK v \in Gen : v = i.view /\ v \in acct.ever
  BY <1>3, Given DEF Fit, ViewOK
<1>5. PICK k \in Credential : k = i.cred
  BY <1>3 DEF Fit, ViewOK, Job
<1>6. PICK m \in Nat : m = Embedded(v)
  BY Given
<1>7. /\ i.old \in Nat /\ i.old <= m
      /\ i.old # 0 => gen[v].dels[i.old] = k
  BY <1>3, <1>4, <1>5, <1>6 DEF Fit, OldOK, Job
<1>8. CASE ~Live(v)
  <2>1. Stop(c) /\ UNCHANGED gen
    BY <1>3, <1>4, <1>8 DEF RenewLast
  <2> QED
    BY <1>1, <1>2, <2>1, HaltStep
<1>9. CASE Live(v)
  <2>1. PICK j : j = [i EXCEPT !.pc = "embedded"]
    OBVIOUS
  <2>2. /\ j \in Job /\ j.pc = "embedded" /\ j.view = v /\ j.old = i.old
        /\ j.cred = i.cred /\ j.retire = i.retire /\ j.set = i.set /\ j.pc \notin Minting
    BY <1>4, <2>1 DEF Job, Steps, Minting
  <2>3. job' = [job EXCEPT ![c] = j]
    BY <1>3, <1>4, <1>9, <2>1 DEF RenewLast, Goto
  <2>4. CASE DelegationStale(v, i.doc, {k, c}) /\ LogCommitsRung(k, v)
    <3>1. PICK r : r = [Delegated(gen[v], k) EXCEPT !.quiet = FALSE]
      OBVIOUS
    <3>2. gen' = [gen EXCEPT ![v] = r]
      BY <1>3, <1>4, <1>5, <1>9, <2>4, <3>1 DEF RenewLast, Entry
    <3>3. k \in Actor
      BY DEF Actor
    <3>4. r \in Generation /\ EditOK(c, v, r) /\ ShareOK(c, v, r)
      BY <1>4, <1>9, <2>4, <3>1, <3>3, InstallsFit DEF Live, LogCommitsRung
    <3>5. Installed(v, k, r)
      BY <3>1, <3>3, Installs
    <3>6. Embedded(v)' = m + 1
      BY <1>6, <3>2, <3>4, <3>5, Edited DEF Installed
    <3>7. Fit(c, i)'
      BY <1>1, <1>2, <1>3, <2>2, <2>3, <3>2, <3>4, WriteKeeps
    <3>8. ViewOK(j)' /\ PassOK(j)' /\ SweepOK(j)' /\ RetireOK(j)' /\ ClientOK(c, j)'
      BY <1>3, <1>4, <2>2, <3>7 DEF Fit, ViewOK, PassOK, SweepOK, RetireOK, ClientOK
    <3>9. OldOK(j)'
      <4>1. j.old < Embedded(v)' /\ j.old <= Embedded(v)'
        BY <1>6, <1>7, <2>2, <3>6
      <4> QED
        BY <2>2, <4>1 DEF OldOK
    <3>10. ASSUME NEW x \in out' \ overtaken' PROVE CarryOK(c, j, x)'
      BY <1>3, <1>4, <2>2, <3>7 DEF Fit, CarryOK
    <3>11. Fit(c, j)' /\ MintOK(c, j)'
      BY <2>2, <3>8, <3>9, <3>10 DEF Fit, MintOK
    <3>12. /\ unread \subseteq unread' /\ unread' \subseteq Gen
           /\ due' \in BOOLEAN /\ left' \in 0 .. MaxEvents /\ job[c].pc # "point"
      BY <1>1, <1>2, Own
    <3> QED
      BY <1>1, <1>2, <2>2, <2>3, <3>2, <3>4, <3>11, <3>12, WriteStep
  <2>5. CASE ~(DelegationStale(v, i.doc, {k, c}) /\ LogCommitsRung(k, v))
    <3>1. UNCHANGED gen
      BY <1>3, <1>4, <1>5, <1>9, <2>5 DEF RenewLast
    <3>2. i.old # 0 => i.old < m \/ gen[v].dels[i.old] \notin Listed
      <4> SUFFICES ASSUME i.old # 0, ~(i.old < m) PROVE gen[v].dels[i.old] \notin Listed
        OBVIOUS
      <4>1. i.old = m /\ gen[v].dels[m] = k /\ m \in 1 .. m
        BY <1>6, <1>7
      <4>2. ~LogCommitsRung(k, v)
        BY <1>6, <2>5, <4>1 DEF DelegationStale
      <4>3. k \notin acct.standing
        BY <1>6, <4>1, <4>2, Given DEF GenOK, LogCommitsRung
      <4>4. k \notin acct.enrolled
        BY Given, AnnexAssumption DEF TypeOK, AnnexAssumption
      <4> QED
        BY <4>1, <4>3, <4>4 DEF Listed
    <3>3. ViewOK(j) /\ PassOK(j) /\ SweepOK(j) /\ RetireOK(j) /\ ClientOK(c, j)
      BY <1>3, <1>4, <2>2 DEF Fit, ViewOK, PassOK, SweepOK, RetireOK, ClientOK
    <3>4. OldOK(j)
      BY <1>6, <1>7, <2>2, <3>2 DEF OldOK
    <3>5. \A x \in out \ overtaken : CarryOK(c, j, x)
      BY <1>3, <1>4, <2>2 DEF Fit, CarryOK
    <3>6. Fit(c, j) /\ MintOK(c, j) /\ job[c].pc # "point"
      BY <1>1, <2>2, <3>3, <3>4, <3>5 DEF Fit, MintOK
    <3> QED
      BY <1>1, <1>2, <2>2, <2>3, <3>1, <3>6, MoveStep
  <2> QED
    BY <2>4, <2>5
<1> QED
  BY <1>8, <1>9

(***************************************************************************)
(* Time.                                                                   *)
(***************************************************************************)
\* ComesDue: the quarter passes.
LEMMA DueStep ==
  ASSUME IInv, ComesDue
  PROVE  IInv'
<1>1. /\ UNCHANGED <<acct, gen, job, digest, visited, out, overtaken, unread, torn>>
      /\ due' = TRUE /\ left' \in 0 .. MaxEvents
  BY Budget DEF ComesDue
<1>2. None \notin Actor
  BY AnnexAssumption DEF AnnexAssumption, Actor
<1>3. TypeOK'
  BY <1>1, Given DEF TypeOK
<1>4. BookEvolves(None) /\ JobEvolves(None) /\ AcctEvolves(None) /\ GenEvolves(None)
  BY <1>1, <1>2, BooksStill, Still DEF JobEvolves
<1>5. (\A b \in Actor \ {None} : job'[b] = job[b]) /\ torn \subseteq torn'
  BY <1>1
<1>6. Shared'
  BY <1>1, <1>2, <1>4, <1>5, SharedStill
<1> QED
  BY <1>2, <1>3, <1>4, <1>6, Advance DEF Evolves

\* Age: every log falls quiet, with no ceremony in flight.
LEMMA AgeStep ==
  ASSUME IInv, Age
  PROVE  IInv'
<1>1. /\ AtRest /\ gen' = [g \in Gen |-> [gen[g] EXCEPT !.quiet = Live(g)]]
      /\ UNCHANGED <<acct, due, job, digest, visited, out, overtaken, unread, torn, left>>
  BY DEF Age
<1>2. ASSUME NEW g \in Gen
      PROVE  /\ gen'[g] \in Generation /\ gen'[g].at = gen[g].at
             /\ gen'[g].rungs = gen[g].rungs /\ gen'[g].dels = gen[g].dels
             /\ gen'[g].dead = gen[g].dead /\ gen'[g].visits = gen[g].visits
             /\ Embedded(g)' = Embedded(g)
  <2>1. gen[g] \in Generation /\ Live(g) \in BOOLEAN
    BY Given DEF Live
  <2>2. /\ gen'[g] \in Generation /\ gen'[g].at = gen[g].at
        /\ gen'[g].rungs = gen[g].rungs /\ gen'[g].dels = gen[g].dels
        /\ gen'[g].dead = gen[g].dead /\ gen'[g].visits = gen[g].visits
    BY <1>1, <2>1 DEF Generation
  <2> QED
    BY <2>2 DEF Embedded
<1>3. gen' \in [Gen -> Generation]
  BY <1>1, <1>2
<1>4. TypeOK'
  BY <1>1, <1>3, Given DEF TypeOK
<1>5. acct.pointer \in Gen /\ acct.ever \subseteq Gen /\ visited \subseteq Nat \X Gen
  BY Given DEF TypeOK
<1>6. PointerOK'
  BY <1>1, <1>2, <1>5, Given DEF PointerOK, PointedStands, Live
<1>7. StrandedOK'
  <2>1. PICK p \in Gen : p = acct.pointer
    BY <1>5
  <2>2. Stranded' => Stranded
    BY <1>1, <1>2, <2>1 DEF Stranded, Live, Listed
  <2> QED
    BY <1>1, <2>2, Given DEF StrandedOK
<1>8. \A g \in Gen : GenOK(g)'
  BY <1>1, <1>2, Given DEF GenOK
<1>9. ASSUME NEW x \in visited' PROVE VisitOK(x)'
  <2>1. x[2] \in Gen /\ VisitOK(x)
    BY <1>1, <1>5, Given DEF Shared
  <2> QED
    BY <1>1, <1>2, <2>1 DEF VisitOK
<1>10. \A r \in out' \ overtaken' : RetiredOK(r)'
  BY <1>1, <1>2, <1>5, Given DEF Shared, RetiredOK
<1>11. Shared'
  BY <1>6, <1>7, <1>8, <1>9, <1>10 DEF Shared
<1>12. ASSUME NEW b \in Actor PROVE JobOK(b)'
  <2>1. PICK j \in Job : j = job[b] /\ Fit(b, j) /\ j.pc = "idle"
    BY <1>1, Given DEF JobOK, AtRest
  <2>2. /\ ViewOK(j)' /\ PassOK(j)' /\ SweepOK(j)' /\ RetireOK(j)' /\ OldOK(j)'
        /\ ClientOK(b, j)' /\ MintOK(b, j)'
    BY <1>1, <2>1
       DEF Fit, ViewOK, PassOK, SweepOK, RetireOK, OldOK, ClientOK, MintOK, Minting
  <2>3. \A r \in out' \ overtaken' : CarryOK(b, j, r)'
    BY <1>1, <2>1 DEF Fit, CarryOK
  <2> QED
    BY <1>1, <2>1, <2>2, <2>3 DEF JobOK, Fit
<1>13. Unique'
  BY <1>1, Given DEF Unique, Minted
<1> QED
  BY <1>4, <1>11, <1>12, <1>13 DEF IInv, Core

(***************************************************************************)
(* The theorems.                                                           *)
(***************************************************************************)
\* The account and its first generation, as genesis leaves them.
LEMMA InitInv ==
  ASSUME Init
  PROVE  IInv
<1>1. PICK rungs \in SUBSET Credential, k \in Credential :
        /\ k \in rungs
        /\ gen = [g \in Gen |->
                    IF g = 1 THEN [Unborn EXCEPT !.at = "live", !.rungs = rungs, !.dels = <<k>>]
                    ELSE Unborn]
  BY DEF Init
<1>2. PICK clients \in (SUBSET Client) \ {{}} :
        /\ acct = [pointer |-> 1, ever |-> {1}, standing |-> Credential, enrolled |-> clients]
        /\ left = MaxEvents - Cardinality(clients)
  BY DEF Init
<1>3. /\ due = FALSE /\ job = [a \in Actor |-> Idle] /\ digest = [g \in Gen |-> {}]
      /\ visited = {} /\ out = {} /\ overtaken = {} /\ unread = {} /\ torn = {}
  BY DEF Init
<1>4. 1 \in Gen /\ None \notin Gen
  BY AnnexAssumption DEF AnnexAssumption, Gen
<1>5. PICK one : one = [Unborn EXCEPT !.at = "live", !.rungs = rungs, !.dels = <<k>>]
  OBVIOUS
<1>6. /\ Unborn \in Generation /\ Unborn.at = "unborn" /\ Unborn.dels = <<>>
      /\ Unborn.dead = {}
  BY DEF Unborn, Generation
<1>7. <<k>> \in Seq(Actor) /\ Len(<<k>>) = 1 /\ <<k>>[1] = k
  BY DEF Actor
<1>8. /\ one \in Generation /\ one.at = "live" /\ one.dels = <<k>> /\ one.dead = {}
      /\ one.rungs = rungs
  BY <1>5, <1>6, <1>7 DEF Unborn, Generation
<1>9. gen[1] = one /\ \A g \in Gen : g = 1 \/ gen[g] = Unborn
  BY <1>1, <1>4, <1>5
<1>10. gen \in [Gen -> Generation]
  BY <1>1, <1>5, <1>6, <1>8
<1>11. left \in 0 .. MaxEvents
  <2>1. /\ IsFiniteSet(Client) /\ Cardinality(Client) <= MaxEvents /\ MaxEvents \in Nat
        /\ clients \in SUBSET Client
    BY AnnexAssumption DEF AnnexAssumption
  <2>2. IsFiniteSet(clients) /\ Cardinality(clients) <= Cardinality(Client)
    BY <2>1, FS_Subset
  <2>3. Cardinality(clients) \in Nat /\ Cardinality(Client) \in Nat
    BY <2>1, <2>2, FS_CardinalityType
  <2> QED
    BY <1>2, <2>1, <2>2, <2>3
<1>12. TypeOK
  BY <1>2, <1>3, <1>4, <1>10, <1>11, IdleTyped DEF TypeOK
<1>13. acct.pointer = 1 /\ acct.ever = {1} /\ acct.enrolled = clients
  BY <1>2
<1>14. PointerOK
  BY <1>4, <1>8, <1>9, <1>13 DEF PointerOK, PointedStands, Live
<1>15. ~Stranded
  BY <1>8, <1>9, <1>13 DEF Stranded
<1>16. ASSUME NEW g \in Gen PROVE GenOK(g)
  <2>1. CASE g = 1
    <3>1. gen[g] = one /\ Embedded(g) = 1
      BY <1>7, <1>8, <1>9, <2>1 DEF Embedded
    <3>2. \A i \in 1 .. 1 : one.dels[i] = k
      BY <1>7, <1>8
    <3> QED
      BY ZenonT(40), <1>1, <1>8, <3>1, <3>2 DEF GenOK
  <2>2. CASE g # 1
    <3>1. gen[g] = Unborn /\ Embedded(g) = 0
      BY <1>6, <1>9, <2>2 DEF Embedded
    <3> QED
      BY <1>6, <3>1 DEF GenOK
  <2> QED
    BY <2>1, <2>2
<1>17. Shared
  BY <1>3, <1>14, <1>15, <1>16 DEF Shared, StrandedOK
<1>18. \A b \in Actor : job[b] = Idle
  BY <1>3
<1>19. ASSUME NEW b \in Actor PROVE JobOK(b)
  <2>1. \A r \in out : FALSE
    BY <1>3
  <2>2. Fit(b, Idle) /\ MintOK(b, Idle)
    BY <2>1, IdleTyped DEF Fit, ViewOK, PassOK, SweepOK, RetireOK, OldOK, ClientOK,
                           MintOK, Minting
  <2> QED
    BY <1>18, <2>2 DEF JobOK
<1>20. Unique
  BY <1>18, IdleTyped DEF Unique, Minted, Minting
<1> QED
  BY <1>12, <1>17, <1>19, <1>20 DEF IInv, Core

\* Every step keeps the invariant.
LEMMA NextInv ==
  ASSUME IInv, [Next]_vars
  PROVE  IInv'
<1>1. CASE UNCHANGED vars
  <2>1. TypeOK'
    BY <1>1, Given DEF TypeOK, vars
  <2>2. Shared'
    BY <1>1, Given DEF vars, Shared, PointerOK, PointedStands, StrandedOK, Stranded, Live,
                       Listed, Embedded, GenOK, VisitOK, RetiredOK
  <2>3. None \notin Actor
    BY AnnexAssumption DEF AnnexAssumption, Actor
  <2>4. BookEvolves(None) /\ JobEvolves(None) /\ AcctEvolves(None) /\ GenEvolves(None)
    BY <1>1, <2>3, BooksStill, Still DEF JobEvolves, vars
  <2> QED
    BY <2>1, <2>2, <2>3, <2>4, Advance DEF Evolves
<1>2. CASE Next
  <2>1. CASE ComesDue \/ Age
    BY <2>1, DueStep, AgeStep
  <2>2. ASSUME NEW a \in Actor, Crash(a) \/ SwapStep(a) PROVE IInv'
    BY <2>2, CrashStep, MintStep, GenesisStep, InstallStep DEF SwapStep
  <2>3. ASSUME NEW c \in Client, NEW k \in Credential \cup {None}, StartPass(c, k) PROVE IInv'
    BY <2>3, StartStep DEF Actor
  <2>4. ASSUME NEW c \in Client, PassStep(c) PROVE IInv'
    BY <2>4, PassDecides, RevokeOldStep, PointStep, ListStep DEF PassStep
  <2>5. ASSUME NEW c \in Client, RetireStep(c) PROVE IInv'
    BY <2>5, StrikeStep, SwapDecides DEF RetireStep
  <2>6. ASSUME NEW c \in Client, ForgetStep(c) PROVE IInv'
    BY <2>6, HistoryStep, RenewStep, EmbeddedStep, RemoveStep DEF ForgetStep
  <2>7. ASSUME NEW c \in Client, NEW g \in Gen, CollectStep(c, g) PROVE IInv'
    BY <2>7, CollectReadStep, CollectRevokeStep, CollectDigestStep, CollectDeleteStep
       DEF CollectStep
  <2>8. ASSUME NEW c \in Client, NEW r \in Credential, NEW k \in Credential, Retire(c, r, k)
        PROVE  IInv'
    BY <2>8, RetireBegins
  <2>9. ASSUME NEW c \in Client, NEW k \in Credential, ForgetLast(c, k) PROVE IInv'
    BY <2>9, StartStep DEF Actor
  <2>10. ASSUME NEW k \in Credential, StartVisit(k) \/ VisitStep(k) PROVE IInv'
    <3>1. CASE StartVisit(k)
      BY <3>1, StartStep DEF Actor
    <3>2. CASE VisitStep(k)
      BY <3>2, EnsureStep, LadderMoves, TargetStep, AppendStep, ConfirmStep DEF VisitStep
    <3> QED
      BY <2>10, <3>1, <3>2
  <2>11. ASSUME NEW b \in Credential, NEW k \in Credential, NEW g \in Gen, CommitRung(b, k, g)
         PROVE  IInv'
    BY <2>11, CommitStep
  <2> QED
    BY <1>2, <2>1, <2>2, <2>3, <2>4, <2>5, <2>6, <2>7, <2>8, <2>9, <2>10, <2>11 DEF Next
<1> QED
  BY <1>1, <1>2

\* The invariant holds of every reachable state.
LEMMA Invariance == Spec => []IInv
<1>1. Init => IInv
  BY InitInv
<1>2. IInv /\ [Next]_vars => IInv'
  BY NextInv
<1> QED
  BY <1>1, <1>2, PTL DEF Spec

\* Types: every generation, job and account reading keeps its shape.
THEOREM TypeCorrect == Spec => []TypeOK
<1>1. IInv => TypeOK
  BY DEF IInv
<1> QED
  BY <1>1, Invariance, PTL

\* The fan-out never deletes the generation the account points at, unless a
\* pass listed its collection before the genesis was published.
THEOREM PointedNeverCollected == Spec => []PointedStands
<1>1. IInv => PointedStands
  BY DEF IInv, Core, Shared, PointerOK
<1> QED
  BY <1>1, Invariance, PTL

\* A visit reported as enrolled is counted by a digest once its generation is
\* deleted.
THEOREM VisitsOutliveLogs == Spec => []VisitsRecorded
<1>1. IInv => VisitsRecorded
  BY DEF IInv, Core, Shared, VisitOK, VisitsRecorded
<1> QED
  BY <1>1, Invariance, PTL

\* A credential reported retired, and not overtaken, never stands in the
\* generation the account points at again.
THEOREM RetiredForGood == Spec => []RetiredStaysOut
<1>1. IInv => RetiredStaysOut
  BY DEF IInv, Core, Shared, RetiredOK, RetiredStaysOut
<1> QED
  BY <1>1, Invariance, PTL

\* An account with no client left is one transient visits can still enter,
\* unless a swap died between its revocation and its pointer entry.
THEOREM LastForgetLeavesDoor == Spec => []LastForgetReachable
<1>1. ASSUME IInv, acct.enrolled = {}, acct.pointer \notin torn PROVE ~Stranded
  <2>1. ASSUME NEW c \in Client PROVE job[c].pc = "idle"
    <3>1. c \in Actor
      BY DEF Actor
    <3> QED
      BY <1>1, <3>1, Own DEF Fit, ClientOK
  <2> QED
    BY <1>1, <2>1, Given DEF StrandedOK
<1>2. IInv => LastForgetReachable
  BY <1>1 DEF LastForgetReachable
<1> QED
  BY <1>2, Invariance, PTL

=============================================================================

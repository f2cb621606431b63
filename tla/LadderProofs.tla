---------------------------- MODULE LadderProofs ----------------------------
(***************************************************************************)
(* Proofs about Ladder, for any sets of credentials, codes and clients and *)
(* any length of the log: every state is well typed, and a finished spend  *)
(* reads its own report back off the log.                                  *)
(*                                                                         *)
(* The second needs nothing of what the walks over the log claim. The      *)
(* report is recomputed over the log before the entry that authorizes the  *)
(* successor, so what matters is that this entry is the spend's own, and   *)
(* that the recomputation takes the code for anchored whenever the spend   *)
(* did strike what earlier attempts with it left.                          *)
(***************************************************************************)
EXTENDS Ladder, TLAPS, WellFoundedInduction

\* What entry i adds over its predecessor: a hash, a credential's member.
Prior(l, i) == IF i = 1 THEN NoEntry ELSE l[i - 1]
Came(l, i, h) == h \in ToSet(l[i].hashes) \ ToSet(Prior(l, i).hashes)
Joins(l, i, c) == c \in l[i].creds \ Prior(l, i).creds
Named(l, c) == \E i \in DOMAIN l : c \in l[i].creds
Placed(l, h) == \E i \in DOMAIN l : Came(l, i, h)

\* Whatever stands in the log came into it: a hash, an authorized key as a
\* hash before, a member to stay until it is seen.
HashesCame(l) ==
    \A i \in DOMAIN l : \A h \in ToSet(l[i].hashes) : \E j \in 1..i : Came(l, j, h)
KeysCame(l) ==
    \A i \in DOMAIN l : \A k \in l[i].ukeys :
        \E j \in 1..i : k \in ToSet(l[j].hashes)
Stays(l, j, i, c) == Joins(l, j, c) /\ \A t \in j..i : c \in l[t].creds
CredsJoined(l) ==
    \A i \in DOMAIN l : \A c \in l[i].creds : \E j \in 1..i : Stays(l, j, i, c)

\* The commitment of a code's rung 0 belongs to its last standing run: it came
\* while the code stood, or before, from a key the entry that begins the run
\* retires.
During(l, s, c) ==
    \E i \in s..Len(l) : /\ \A t \in s..i : c \in l[t].creds
                         /\ Came(l, i, Rung(c, 0))
Before(l, s, c) ==
    \E j \in 1..(s - 1) : /\ Came(l, j, Rung(c, 0))
                          /\ l[j].by \in l[s - 1].ukeys \ l[s].ukeys
Begins(l, s, c) == Joins(l, s, c) /\ \A t \in (s + 1)..Len(l) : ~Joins(l, t, c)
Anchored(l, c) ==
    \E s \in 1..Len(l) : Begins(l, s, c) /\ (During(l, s, c) \/ Before(l, s, c))
CodesAnchored(l) ==
    \A c \in Code : Placed(l, Rung(c, 0)) /\ Named(l, c) => Anchored(l, c)

\* The spends, and those that are not finished.
Spends(js) == {x \in Successor : js[x].kind = "spend"}
Live(js) == {x \in Spends(js) : js[x].stage # "done"}

\* Whose key signs what a ceremony publishes.
ShapeOK(l, j) ==
    /\ j.kind = "none" => j = NoJob
    /\ j.kind = "selfEnroll" => j.by \in Unlock /\ Named(l, j.by)
    /\ j.kind = "enroll" => j.by \in Unlock \cup Client
    /\ j.kind = "spend" => /\ j.by \in Code /\ Named(l, j.by)
                           /\ j.replacement \in Code
Shaped(l, js) == \A x \in Successor : ShapeOK(l, js[x])

\* A replacement is one code's: every spend that names it spends that code, and
\* only that code's rung signs its commitment into the log, before it stands.
OneCode(js, code, r) ==
    \A z \in Spends(js) : js[z].replacement = r => js[z].by = code
ReservedFor(l, js, code, r) ==
    /\ OneCode(js, code, r)
    /\ \A i \in DOMAIN l : Came(l, i, Rung(r, 0)) => l[i].by = Rung(code, 0)
    /\ Named(l, r) => Placed(l, Rung(r, 0))
Reserved(l, js) ==
    \A y \in Spends(js) : ReservedFor(l, js, js[y].by, js[y].replacement)

\* Until its spend is finished, a successor is not in the log.
Untouched(l, x) ==
    \A i \in DOMAIN l : x \notin l[i].creds /\ Rung(x, 0) \notin l[i].ukeys
Pending(l, js) == \A x \in Live(js) : Untouched(l, x)

\* A spend about to publish over the head finds the code's rung authorized and
\* the replacement's committed there.
Holds(l, j) ==
    j.stage \in {"committed", "persisted"} =>
        /\ j.head <= Len(l)
        /\ j.head = Len(l) => /\ Rung(j.by, 0) \in Latest(l).ukeys
                              /\ Rung(j.replacement, 0) \in ToSet(Latest(l).hashes)
Held(l, js) == \A x \in Live(js) : Holds(l, js[x])

\* A finished spend: the entry that first authorizes the successor is there,
\* and the report is what the log says.
Authorizes(l, m, k) ==
    m \in 2..Len(l) /\ k \in l[m].ukeys /\ \A i \in 1..(m - 1) : k \notin l[i].ukeys
ReadsBack(l, x, j, rep) ==
    /\ \E m \in 2..Len(l) : Authorizes(l, m, Rung(x, 0))
    /\ rep = RecoverySpendRetirementFromLog(l, x, j.by, j.replacement)
Reported(l, js, reps) ==
    \A x \in Spends(js) \ Live(js) : ReadsBack(l, x, js[x], reps[x])

\* The inductive invariant.
LogInv(l) == HashesCame(l) /\ KeysCame(l) /\ CredsJoined(l) /\ CodesAnchored(l)
JobsInv(l, js) == Shaped(l, js) /\ Reserved(l, js) /\ Pending(l, js) /\ Held(l, js)
LadderInv == /\ TypeOK /\ LogInv(log) /\ JobsInv(log, job)
             /\ Reported(log, job, report)

-----------------------------------------------------------------------------
(* The sequence operators. *)

\* A set of positions that is not empty has a first one.
LEMMA Least ==
    ASSUME NEW S, S \subseteq Nat, S # {}
    PROVE  \E t \in S : \A s \in S : t <= s
<1> DEFINE R == OpToRel(<, Nat)
<1>1. IsWellFoundedOn(R, Nat)
  BY NatLessThanWellFounded
<1> HIDE DEF R
<1>2. PICK t \in S : \A s \in S : ~(<<s, t>> \in R)
  BY <1>1, WFMin
<1>3. \A s \in S : ~(s < t)
  BY <1>2 DEF R, OpToRel
<1> QED
  BY <1>3

\* What is left of s without S after n of its elements.
Left(s, S, n, g) ==
    [i \in 0..n |-> IF i = 0 THEN <<>>
                    ELSE IF s[i] \in S THEN g[i - 1] ELSE Append(g[i - 1], s[i])]
LeftTo(s, S, n) == \E g : g = Left(s, S, n, g)

\* The filter is defined up to every position.
LEMMA LeftExists ==
    ASSUME NEW s, NEW S, NEW n \in Nat
    PROVE  LeftTo(s, S, n)
<1> SUFFICES ASSUME ~LeftTo(s, S, n) PROVE FALSE
  OBVIOUS
<1>1. PICK B : B = {i \in Nat : ~LeftTo(s, S, i)}
  OBVIOUS
<1>2. PICK i \in B : \A j \in B : i <= j
  <2>1. B \subseteq Nat /\ B # {}
    BY <1>1
  <2> QED
    BY <2>1, Least
<1>3. i \in Nat /\ ~LeftTo(s, S, i)
  BY <1>1, <1>2
<1>4. CASE i = 0
  <2>1. PICK g : g = [x \in 0..0 |-> <<>>]
    OBVIOUS
  <2>2. g = Left(s, S, 0, g)
    BY <2>1 DEF Left
  <2> QED
    BY <1>3, <1>4, <2>2 DEF LeftTo
<1>5. CASE i # 0
  <2>1. PICK m \in Nat : i = m + 1
    BY <1>3, <1>5
  <2>2. m \notin B
    BY <1>2, <2>1
  <2>3. LeftTo(s, S, m)
    BY <1>1, <2>2
  <2>4. PICK g : g = Left(s, S, m, g)
    BY <2>3 DEF LeftTo
  <2>5. PICK w : w = Left(s, S, i, g)
    OBVIOUS
  <2>6. ASSUME NEW x \in 0..m PROVE w[x] = g[x]
    <3>1. x \in 0..i
      BY <2>1, <2>6
    <3>2. w[x] = IF x = 0 THEN <<>>
                 ELSE IF s[x] \in S THEN g[x - 1] ELSE Append(g[x - 1], s[x])
      BY <2>5, <3>1 DEF Left
    <3>3. g[x] = IF x = 0 THEN <<>>
                 ELSE IF s[x] \in S THEN g[x - 1] ELSE Append(g[x - 1], s[x])
      BY <2>4, <2>6 DEF Left
    <3> QED
      BY <3>2, <3>3
  <2>7. \A x \in 0..i : x # 0 => w[x - 1] = g[x - 1]
    BY <2>1, <2>6
  <2>8. Left(s, S, i, w) = Left(s, S, i, g)
    BY <2>7 DEF Left
  <2> QED
    BY <1>3, <2>5, <2>8 DEF LeftTo
<1> QED
  BY <1>4, <1>5

\* Without is the last value of such a filter.
LEMMA WithoutLeft ==
    ASSUME NEW T, NEW s \in Seq(T), NEW S
    PROVE  \E g : /\ g = Left(s, S, Len(s), g)
                  /\ Without(s, S) = g[Len(s)]
<1> DEFINE Lefts(g) == g = [n \in 0..Len(s) |->
                IF n = 0 THEN <<>>
                ELSE IF s[n] \in S THEN g[n - 1] ELSE Append(g[n - 1], s[n])]
<1>1. Without(s, S) = (CHOOSE g : Lefts(g))[Len(s)]
  BY DEF Without
<1>2. \A g : Lefts(g) <=> g = Left(s, S, Len(s), g)
  BY ZenonT(40) DEF Left
<1>3. LeftTo(s, S, Len(s))
  BY LeftExists
<1> HIDE DEF Lefts
<1>4. Lefts(CHOOSE g : Lefts(g))
  BY <1>2, <1>3 DEF LeftTo
<1> QED
  BY <1>1, <1>2, <1>4

\* The elements of a longer sequence.
LEMMA AppendSet ==
    ASSUME NEW T, NEW t \in Seq(T), NEW v \in T
    PROVE  ToSet(Append(t, v)) = ToSet(t) \cup {v}
<1>1. PICK n \in Nat : n = Len(t) /\ DOMAIN t = 1..n
  OBVIOUS
<1>2. PICK u : u = Append(t, v)
  OBVIOUS
<1>3. DOMAIN u = 1..(n + 1) /\ u[n + 1] = v /\ \A i \in 1..n : u[i] = t[i]
  BY <1>1, <1>2
<1>4. \A i \in 1..(n + 1) : i \in 1..n \/ i = n + 1
  BY <1>1
<1>5. 1..n \subseteq 1..(n + 1) /\ n + 1 \in 1..(n + 1)
  BY <1>1
<1>6. ToSet(u) = {u[i] : i \in 1..(n + 1)}
  BY <1>3 DEF ToSet
<1>7. ToSet(t) = {t[i] : i \in 1..n}
  BY <1>1 DEF ToSet
<1> QED
  BY <1>2, <1>3, <1>4, <1>5, <1>6, <1>7

\* It keeps, in a sequence over the same set, all that is not in S.
LEMMA WithoutIs ==
    ASSUME NEW T, NEW s \in Seq(T), NEW S
    PROVE  Without(s, S) \in Seq(T) /\ ToSet(Without(s, S)) = ToSet(s) \ S
<1>1. PICK g : g = Left(s, S, Len(s), g) /\ Without(s, S) = g[Len(s)]
  BY WithoutLeft
<1>2. PICK N \in Nat : N = Len(s) /\ DOMAIN s = 1..N
  OBVIOUS
<1> DEFINE Good(n) == /\ g[n] \in Seq(T)
                      /\ ToSet(g[n]) = {s[i] : i \in 1..n} \ S
<1>3. Good(0)
  <2>1. g[0] = <<>>
    BY <1>1, <1>2 DEF Left
  <2> QED
    BY <2>1 DEF ToSet
<1>4. ASSUME NEW n \in 1..N, Good(n - 1) PROVE Good(n)
  <2>1. g[n] = IF s[n] \in S THEN g[n - 1] ELSE Append(g[n - 1], s[n])
    <3>1. n \in 0..Len(s) /\ n # 0
      BY <1>2
    <3> QED
      BY <1>1, <3>1 DEF Left
  <2>2. s[n] \in T
    BY <1>2
  <2>3. {s[i] : i \in 1..n} = {s[i] : i \in 1..(n - 1)} \cup {s[n]}
    OBVIOUS
  <2>4. CASE s[n] \in S
    BY <1>4, <2>1, <2>3, <2>4
  <2>5. CASE s[n] \notin S
    <3>1. PICK t \in Seq(T) : t = g[n - 1] /\ ToSet(t) = {s[i] : i \in 1..(n - 1)} \ S
      BY <1>4
    <3>2. g[n] = Append(t, s[n])
      BY <2>1, <2>5, <3>1
    <3>3. ToSet(Append(t, s[n])) = ToSet(t) \cup {s[n]}
      BY <2>2, <3>1, AppendSet
    <3> QED
      BY <2>2, <2>3, <2>5, <3>1, <3>2, <3>3
  <2> QED
    BY <2>4, <2>5
<1> HIDE DEF Good
<1>5. Good(N)
  <2> SUFFICES ASSUME ~Good(N) PROVE FALSE
    OBVIOUS
  <2>1. PICK B : B = {n \in 0..N : ~Good(n)}
    OBVIOUS
  <2>2. PICK n \in B : \A m \in B : n <= m
    <3>1. B \subseteq Nat /\ B # {}
      BY <1>2, <2>1
    <3> QED
      BY <3>1, Least
  <2>3. n \in 0..N /\ ~Good(n)
    BY <2>1, <2>2
  <2>4. n # 0
    BY <1>3, <2>3
  <2>5. n \in 1..N /\ n - 1 \in 0..N /\ n - 1 \notin B
    BY <1>2, <2>2, <2>3, <2>4
  <2>6. Good(n - 1)
    BY <2>1, <2>5
  <2> QED
    BY <1>4, <2>3, <2>5, <2>6
<1>6. ToSet(s) = {s[i] : i \in 1..N}
  BY <1>2 DEF ToSet
<1> QED
  BY <1>1, <1>2, <1>5, <1>6 DEF Good

\* The elements of a concatenation.
LEMMA ConcatSet ==
    ASSUME NEW T, NEW s \in Seq(T), NEW w \in Seq(T)
    PROVE  ToSet(s \o w) = ToSet(s) \cup ToSet(w)
<1>1. PICK n \in Nat, m \in Nat : n = Len(s) /\ m = Len(w)
  OBVIOUS
<1>2. \A i \in 1..n : (s \o w)[i] = s[i]
  BY <1>1
<1>3. \A i \in 1..m : (s \o w)[n + i] = w[i]
  BY <1>1
<1>4. DOMAIN (s \o w) = 1..(n + m) /\ DOMAIN s = 1..n /\ DOMAIN w = 1..m
  BY <1>1
<1>5. ASSUME NEW i \in 1..(n + m) PROVE (s \o w)[i] \in ToSet(s) \cup ToSet(w)
  <2>1. CASE i <= n
    BY <1>2, <1>4, <2>1 DEF ToSet
  <2>2. CASE ~(i <= n)
    <3>1. i - n \in 1..m /\ i = n + (i - n)
      BY <2>2
    <3> QED
      BY <1>3, <1>4, <3>1 DEF ToSet
  <2> QED
    BY <2>1, <2>2
<1>6. ASSUME NEW i \in 1..n PROVE s[i] \in ToSet(s \o w)
  BY <1>2, <1>4 DEF ToSet
<1>7. ASSUME NEW i \in 1..m PROVE w[i] \in ToSet(s \o w)
  <2>1. n + i \in 1..(n + m)
    OBVIOUS
  <2> QED
    BY <1>3, <1>4, <2>1 DEF ToSet
<1> QED
  BY <1>4, <1>5, <1>6, <1>7 DEF ToSet

\* Joined holds what either holds.
LEMMA JoinedIs ==
    ASSUME NEW T, NEW s \in Seq(T), NEW t \in Seq(T)
    PROVE  Joined(s, t) \in Seq(T) /\ ToSet(Joined(s, t)) = ToSet(s) \cup ToSet(t)
<1>1. PICK w \in Seq(T) : w = Without(t, ToSet(s)) /\ ToSet(w) = ToSet(t) \ ToSet(s)
  BY WithoutIs
<1>2. Joined(s, t) = s \o w
  BY <1>1 DEF Joined
<1>3. ToSet(s \o w) = ToSet(s) \cup ToSet(w)
  BY <1>1, ConcatSet
<1> QED
  BY <1>1, <1>2, <1>3

-----------------------------------------------------------------------------
(* What is read off the log. *)

\* The predecessor of an entry is one, or there is none.
LEMMA PriorTyped ==
    ASSUME NEW l \in Seq(Entry), NEW i \in DOMAIN l
    PROVE  i # 1 => Prior(l, i) = l[i - 1] /\ Prior(l, i) \in Entry
<1>1. i # 1 => i - 1 \in DOMAIN l
  OBVIOUS
<1> QED
  BY <1>1 DEF Prior

\* indexLadderLog keeps the positions and adds the differences.
LEMMA IndexIs ==
    ASSUME NEW l \in Seq(Entry), NEW f, f = IndexLadderLog(l)
    PROVE  /\ Len(f) = Len(l) /\ DOMAIN f = 1..Len(l)
           /\ \A i \in 1..Len(l) :
                /\ f[i].ukeys = l[i].ukeys /\ f[i].hashes = l[i].hashes
                /\ f[i].creds = l[i].creds /\ f[i].by = l[i].by
                /\ f[i].clients = l[i].clients
                /\ f[i].removedKeys = Prior(l, i).ukeys \ l[i].ukeys
                /\ f[i].added = ToSet(l[i].hashes) \ ToSet(Prior(l, i).hashes)
                /\ f[i].introduced = l[i].creds \ Prior(l, i).creds
<1>1. PICK n \in Nat : n = Len(l) /\ DOMAIN l = 1..n
  OBVIOUS
<1>2. PICK g : g = [i \in DOMAIN l |->
        LET p == IF i = 1 THEN NoEntry ELSE l[i - 1] IN
        [ukeys |-> l[i].ukeys, hashes |-> l[i].hashes, creds |-> l[i].creds,
         vms |-> l[i].vms, clients |-> l[i].clients, by |-> l[i].by,
         addedKeys |-> l[i].ukeys \ p.ukeys,
         removedKeys |-> p.ukeys \ l[i].ukeys,
         addedHashes |-> Without(l[i].hashes, ToSet(p.hashes)),
         added |-> ToSet(l[i].hashes) \ ToSet(p.hashes),
         newVms |-> IntroducedVms(p, l[i]),
         introduced |-> IntroducedCredentialKeys(p, l[i]),
         prevHashes |-> ToSet(p.hashes), prevVms |-> p.vms,
         prevCreds |-> p.creds, prevClients |-> p.clients]]
  OBVIOUS
<1>3. f = <<>> \o g
  BY <1>2 DEF IndexLadderLog
<1>4. \A i \in 1..n :
        /\ g[i].ukeys = l[i].ukeys /\ g[i].hashes = l[i].hashes
        /\ g[i].creds = l[i].creds /\ g[i].by = l[i].by
        /\ g[i].clients = l[i].clients
        /\ g[i].removedKeys = Prior(l, i).ukeys \ l[i].ukeys
        /\ g[i].added = ToSet(l[i].hashes) \ ToSet(Prior(l, i).hashes)
        /\ g[i].introduced = l[i].creds \ Prior(l, i).creds
  <2> SUFFICES ASSUME NEW i \in 1..n
               PROVE  /\ g[i].ukeys = l[i].ukeys /\ g[i].hashes = l[i].hashes
                      /\ g[i].creds = l[i].creds /\ g[i].by = l[i].by
                      /\ g[i].clients = l[i].clients
                      /\ g[i].removedKeys = Prior(l, i).ukeys \ l[i].ukeys
                      /\ g[i].added = ToSet(l[i].hashes) \ ToSet(Prior(l, i).hashes)
                      /\ g[i].introduced = l[i].creds \ Prior(l, i).creds
    OBVIOUS
  <2>1. PICK p : p = Prior(l, i)
    OBVIOUS
  <2>2. p = IF i = 1 THEN NoEntry ELSE l[i - 1]
    BY <2>1 DEF Prior
  <2>3. g[i] =
        [ukeys |-> l[i].ukeys, hashes |-> l[i].hashes, creds |-> l[i].creds,
         vms |-> l[i].vms, clients |-> l[i].clients, by |-> l[i].by,
         addedKeys |-> l[i].ukeys \ p.ukeys,
         removedKeys |-> p.ukeys \ l[i].ukeys,
         addedHashes |-> Without(l[i].hashes, ToSet(p.hashes)),
         added |-> ToSet(l[i].hashes) \ ToSet(p.hashes),
         newVms |-> IntroducedVms(p, l[i]),
         introduced |-> IntroducedCredentialKeys(p, l[i]),
         prevHashes |-> ToSet(p.hashes), prevVms |-> p.vms,
         prevCreds |-> p.creds, prevClients |-> p.clients]
    BY <1>1, <1>2, <2>2
  <2> QED
    BY <2>1, <2>3 DEF IntroducedCredentialKeys
<1>5. DOMAIN g = 1..n
  BY <1>1, <1>2
<1>6. PICK w : w = {g[i] : i \in 1..n}
  OBVIOUS
<1>7. g = [i \in 1..n |-> g[i]] /\ \A i \in 1..n : g[i] \in w
  <2>1. g = [i \in DOMAIN g |-> g[i]]
    BY <1>2, ZenonT(30)
  <2> QED
    BY <1>5, <1>6, <2>1
<1>8. g \in Seq(w) /\ Len(g) = n
  BY <1>5, <1>7
<1>9. f = g
  BY <1>3, <1>8
<1> QED
  BY <1>1, <1>4, <1>5, <1>8, <1>9

\* attributeLadderRung names one of the credential's own keys, or none.
LEMMA RungIs ==
    ASSUME NEW c, NEW head, NEW r, r = AttributeLadderRung(c, head).rung
    PROVE  \/ r = NoKey
           \/ Owner(r) = c /\ r \in head.ukeys \cup ToSet(head.hashes)
<1>1. PICK R : R = {k \in head.ukeys : Owner(k) = c}
  OBVIOUS
<1>2. PICK C : C = {k \in ToSet(head.hashes) \ head.ukeys : Owner(k) = c}
  OBVIOUS
<1>3. r \in {NoKey, Only(R), Only(C)}
  BY <1>1, <1>2 DEF AttributeLadderRung
<1>4. \A S : Only(S) \in S \/ Only(S) = NoKey
  BY DEF Only
<1> QED
  BY <1>1, <1>2, <1>3, <1>4

\* A walk claims only hashes that stand at the head.
LEMMA ClaimIs ==
    ASSUME NEW f, NEW c
    PROVE  ClaimLadderInventory(f, c).hashes \subseteq ToSet(f[Len(f)].hashes)
<1>1. \E w : \/ ClaimLadderInventory(f, c) = Refused
             \/ ClaimLadderInventory(f, c).hashes = ToSet(f[Len(f)].hashes) \cap w.hashes
  BY DEF ClaimLadderInventory, AttributeLadderInventory
<1> QED
  BY <1>1 DEF Refused

\* A recovery reports as unclaimed some of what it retires, and strikes what
\* the walks claim.
LEMMA StrikeIs ==
    ASSUME NEW f, NEW cs, NEW kh, NEW kk,
           NEW s, s = AttributeRetiredCredentialRungs(f, cs, kh, kk)
    PROVE  s.unclaimed \subseteq cs /\ s.hashes \subseteq ToSet(f[Len(f)].hashes)
<1>1. PICK claim : claim = [c \in cs |-> ClaimLadderInventory(f, c)]
  OBVIOUS
<1>2. \A c \in cs : claim[c].hashes \subseteq ToSet(f[Len(f)].hashes)
  BY <1>1, ClaimIs
<1>3. PICK p : p = SurvivingClientKeyProtection(
                       f, UNION {claim[c].hashes : c \in cs})
  OBVIOUS
<1>4. s.unclaimed \subseteq cs
  BY <1>1, <1>3 DEF AttributeRetiredCredentialRungs
<1>5. \/ s.hashes = {}
      \/ s.hashes = UNION {claim[c].hashes \ (kh \cup p.hashes) : c \in cs}
  BY <1>1, <1>3 DEF AttributeRetiredCredentialRungs
<1> QED
  BY <1>2, <1>4, <1>5

\* What earlier attempts left is among what stands at the head.
LEMMA AbandonedIs ==
    ASSUME NEW f, NEW k, NEW keep
    PROVE  AbandonedSpendCommitments(f, k, keep) \subseteq ToSet(f[Len(f)].hashes)
<1>1. PICK left : left = {h \in UNION {f[i].added :
              i \in {j \in (Max({i \in DOMAIN f : Adds(f, i, k)}) + 1)..Len(f) :
                       f[j].by = k}} : h \in ToSet(f[Len(f)].hashes) \ keep}
  OBVIOUS
<1>2. \/ AbandonedSpendCommitments(f, k, keep) = {}
      \/ \E p : AbandonedSpendCommitments(f, k, keep) = left \ p
  BY <1>1 DEF AbandonedSpendCommitments
<1> QED
  BY <1>1, <1>2

-----------------------------------------------------------------------------
(* One entry more. *)

Extended(l, e, m) == l # <<>> /\ m = Append(l, e)

\* A longer log has what it had, where it had it.
LEMMA Longer ==
    ASSUME NEW l \in Seq(Entry), NEW e \in Entry, NEW m, Extended(l, e, m)
    PROVE  /\ m \in Seq(Entry) /\ m # <<>> /\ Len(m) = Len(l) + 1
           /\ DOMAIN m = 1..(Len(l) + 1)
           /\ Latest(m) = e /\ m[Len(l) + 1] = e /\ Prior(m, Len(l) + 1) = Latest(l)
           /\ \A i \in 1..Len(l) : m[i] = l[i] /\ Prior(m, i) = Prior(l, i)
<1>1. PICK n \in Nat : n = Len(l) /\ n # 0 /\ DOMAIN l = 1..n
  BY DEF Extended
<1>2. /\ m \in Seq(Entry) /\ Len(m) = n + 1 /\ DOMAIN m = 1..(n + 1)
      /\ m[n + 1] = e /\ \A i \in 1..n : m[i] = l[i]
  BY <1>1 DEF Extended
<1>3. m # <<>> /\ Latest(m) = e
  BY <1>1, <1>2 DEF Latest
<1>4. Prior(m, n + 1) = Latest(l)
  BY <1>1, <1>2 DEF Prior, Latest
<1>5. ASSUME NEW i \in 1..n PROVE Prior(m, i) = Prior(l, i)
  <2>1. i # 1 => i - 1 \in 1..n
    BY <1>1
  <2> QED
    BY <1>2, <2>1 DEF Prior
<1> QED
  BY <1>1, <1>2, <1>3, <1>4, <1>5

\* Hence nothing comes or joins elsewhere than before.
LEMMA LongerComes ==
    ASSUME NEW l \in Seq(Entry), NEW e \in Entry, NEW m, Extended(l, e, m)
    PROVE  /\ \A i \in 1..Len(l) : \A h : Came(m, i, h) <=> Came(l, i, h)
           /\ \A i \in 1..Len(l) : \A c : Joins(m, i, c) <=> Joins(l, i, c)
           /\ \A h : Came(m, Len(l) + 1, h)
                     <=> h \in ToSet(e.hashes) \ ToSet(Latest(l).hashes)
           /\ \A c : Joins(m, Len(l) + 1, c) <=> c \in e.creds \ Latest(l).creds
           /\ \A c : Named(m, c) <=> Named(l, c) \/ c \in e.creds
           /\ \A h : Placed(m, h) <=> Placed(l, h) \/ Came(m, Len(l) + 1, h)
<1>1. PICK n \in Nat : n = Len(l) /\ n # 0 /\ DOMAIN l = 1..n
  BY DEF Extended
<1>2. /\ m \in Seq(Entry) /\ Len(m) = n + 1 /\ DOMAIN m = 1..(n + 1)
      /\ m[n + 1] = e /\ Prior(m, n + 1) = Latest(l)
      /\ \A i \in 1..n : m[i] = l[i] /\ Prior(m, i) = Prior(l, i)
  <2>1. /\ m \in Seq(Entry) /\ Len(m) = Len(l) + 1
        /\ DOMAIN m = 1..(Len(l) + 1)
        /\ m[Len(l) + 1] = e /\ Prior(m, Len(l) + 1) = Latest(l)
        /\ \A i \in 1..Len(l) : m[i] = l[i] /\ Prior(m, i) = Prior(l, i)
    BY Longer
  <2> QED
    BY <1>1, <2>1
<1>3. \A i \in 1..n : \A h : Came(m, i, h) <=> Came(l, i, h)
  BY <1>2 DEF Came
<1>4. \A i \in 1..n : \A c : Joins(m, i, c) <=> Joins(l, i, c)
  BY <1>2 DEF Joins
<1>5. \A h : Came(m, n + 1, h) <=> h \in ToSet(e.hashes) \ ToSet(Latest(l).hashes)
  BY <1>2 DEF Came
<1>6. \A c : Joins(m, n + 1, c) <=> c \in e.creds \ Latest(l).creds
  BY <1>2 DEF Joins
<1>7. \A i : i \in 1..(n + 1) <=> i \in 1..n \/ i = n + 1
  BY <1>1
<1>8. \A c : Named(m, c) <=> Named(l, c) \/ c \in e.creds
  BY <1>1, <1>2, <1>7 DEF Named
<1>9. \A h : Placed(m, h) <=> Placed(l, h) \/ Came(m, n + 1, h)
  BY <1>1, <1>2, <1>3, <1>7 DEF Placed
<1> QED
  BY <1>1, <1>3, <1>4, <1>5, <1>6, <1>8, <1>9

\* An entry whose keys its predecessor commits leaves a log whose hashes, keys
\* and members came into it.
LEMMA HistoryKept ==
    ASSUME NEW l \in Seq(Entry), NEW e \in Entry, NEW m, Extended(l, e, m),
           e.ukeys \subseteq ToSet(Latest(l).hashes),
           HashesCame(l), KeysCame(l), CredsJoined(l)
    PROVE  HashesCame(m) /\ KeysCame(m) /\ CredsJoined(m)
<1>1. PICK n \in Nat : n = Len(l) /\ n # 0 /\ DOMAIN l = 1..n /\ n \in 1..n
  BY DEF Extended
<1>2. /\ DOMAIN m = 1..(n + 1) /\ m[n + 1] = e
      /\ \A i \in 1..n : m[i] = l[i]
  BY <1>1, Longer
<1>3. /\ \A i \in 1..n : \A h : Came(m, i, h) <=> Came(l, i, h)
      /\ \A i \in 1..n : \A c : Joins(m, i, c) <=> Joins(l, i, c)
      /\ \A h : Came(m, n + 1, h) <=> h \in ToSet(e.hashes) \ ToSet(Latest(l).hashes)
      /\ \A c : Joins(m, n + 1, c) <=> c \in e.creds \ Latest(l).creds
  BY <1>1, LongerComes
<1>4. Latest(l) = l[n]
  BY <1>1 DEF Latest
<1>5. \A i \in 1..(n + 1) : i \in 1..n \/ i = n + 1
  BY <1>1
<1>6. ASSUME NEW i \in 1..n PROVE 1..i \subseteq 1..n
  BY <1>1
<1>7. 1..n \subseteq 1..(n + 1) /\ n + 1 \in 1..(n + 1)
  BY <1>1
<1>8. HashesCame(m)
  <2> SUFFICES ASSUME NEW i \in 1..(n + 1), NEW h \in ToSet(m[i].hashes)
               PROVE  \E j \in 1..i : Came(m, j, h)
    BY <1>2 DEF HashesCame
  <2>1. CASE i \in 1..n
    BY <1>1, <1>2, <1>3, <1>6, <2>1 DEF HashesCame
  <2>2. CASE i = n + 1
    <3>1. CASE h \in ToSet(l[n].hashes)
      <4>1. \E j \in 1..n : Came(l, j, h)
        BY <1>1, <3>1 DEF HashesCame
      <4> QED
        BY <1>3, <1>7, <2>2, <4>1
    <3>2. CASE h \notin ToSet(l[n].hashes)
      <4>1. Came(m, n + 1, h)
        BY <1>2, <1>3, <1>4, <2>2, <3>2
      <4> QED
        BY <1>7, <2>2, <4>1
    <3> QED
      BY <3>1, <3>2
  <2> QED
    BY <1>5, <2>1, <2>2
<1>9. KeysCame(m)
  <2> SUFFICES ASSUME NEW i \in 1..(n + 1), NEW k \in m[i].ukeys
               PROVE  \E j \in 1..i : k \in ToSet(m[j].hashes)
    BY <1>2 DEF KeysCame
  <2>1. CASE i \in 1..n
    <3>1. \E j \in 1..i : k \in ToSet(l[j].hashes)
      BY <1>1, <1>2, <2>1 DEF KeysCame
    <3> QED
      BY <1>2, <1>6, <2>1, <3>1
  <2>2. CASE i = n + 1
    <3>1. k \in ToSet(m[n].hashes)
      BY <1>1, <1>2, <1>4, <2>2
    <3> QED
      BY <1>1, <1>7, <2>2, <3>1
  <2> QED
    BY <1>5, <2>1, <2>2
<1>10. CredsJoined(m)
  <2> SUFFICES ASSUME NEW i \in 1..(n + 1), NEW c \in m[i].creds
               PROVE  \E j \in 1..i : Stays(m, j, i, c)
    BY <1>2 DEF CredsJoined
  <2>1. CASE i \in 1..n
    <3>1. PICK j \in 1..i : Stays(l, j, i, c)
      BY <1>1, <1>2, <2>1 DEF CredsJoined
    <3>2. j \in 1..n /\ \A t \in j..i : t \in 1..n
      BY <1>6, <2>1, <3>1
    <3>3. Stays(m, j, i, c)
      BY <1>2, <1>3, <3>1, <3>2 DEF Stays
    <3> QED
      BY <3>3
  <2>2. CASE i = n + 1
    <3>1. CASE c \in l[n].creds
      <4>1. PICK j \in 1..n : Stays(l, j, n, c)
        BY <1>1, <3>1 DEF CredsJoined
      <4>2. \A t \in j..(n + 1) : (t \in j..n /\ t \in 1..n) \/ t = n + 1
        BY <4>1
      <4>3. Stays(m, j, n + 1, c)
        BY <1>2, <1>3, <2>2, <4>1, <4>2 DEF Stays
      <4> QED
        BY <1>7, <2>2, <4>3
    <3>2. CASE c \notin l[n].creds
      <4>1. Joins(m, n + 1, c)
        BY <1>2, <1>3, <1>4, <2>2, <3>2
      <4>2. Stays(m, n + 1, n + 1, c)
        <5>1. \A t \in (n + 1)..(n + 1) : t = n + 1
          BY <1>1
        <5> QED
          BY <2>2, <4>1, <5>1 DEF Stays
      <4> QED
        BY <1>7, <2>2, <4>2
    <3> QED
      BY <3>1, <3>2
  <2> QED
    BY <1>5, <2>1, <2>2
<1> QED
  BY <1>8, <1>9, <1>10

\* What anchored a code goes on to, unless it joins anew.
LEMMA AnchorKept ==
    ASSUME NEW l \in Seq(Entry), NEW e \in Entry, NEW m, Extended(l, e, m),
           NEW c, Anchored(l, c), c \in e.creds => c \in Latest(l).creds
    PROVE  Anchored(m, c)
<1>1. PICK n \in Nat : n = Len(l) /\ n # 0 /\ DOMAIN l = 1..n
  BY DEF Extended
<1>2. /\ Len(m) = n + 1 /\ m[n + 1] = e /\ \A i \in 1..n : m[i] = l[i]
  BY <1>1, Longer
<1>3. /\ \A i \in 1..n : \A h : Came(m, i, h) <=> Came(l, i, h)
      /\ \A i \in 1..n : \A d : Joins(m, i, d) <=> Joins(l, i, d)
      /\ ~Joins(m, n + 1, c)
  BY <1>1, LongerComes
<1>4. PICK s \in 1..n : Begins(l, s, c) /\ (During(l, s, c) \/ Before(l, s, c))
  BY <1>1 DEF Anchored
<1>5. s \in 1..(n + 1) /\ \A t \in (s + 1)..(n + 1) : (t \in (s + 1)..n /\ t \in 1..n)
                                                     \/ t = n + 1
  BY <1>1, <1>4
<1>6. Begins(m, s, c)
  BY <1>1, <1>2, <1>3, <1>4, <1>5 DEF Begins
<1>7. CASE During(l, s, c)
  <2>1. PICK i \in s..n : /\ \A t \in s..i : c \in l[t].creds
                          /\ Came(l, i, Rung(c, 0))
    BY <1>1, <1>7 DEF During
  <2>2. i \in s..(n + 1) /\ i \in 1..n /\ \A t \in s..i : t \in 1..n
    BY <1>4, <2>1
  <2>3. During(m, s, c)
    BY <1>2, <1>3, <2>1, <2>2 DEF During
  <2> QED
    BY <1>2, <1>5, <1>6, <2>3 DEF Anchored
<1>8. CASE Before(l, s, c)
  <2>1. PICK j \in 1..(s - 1) : /\ Came(l, j, Rung(c, 0))
                                /\ l[j].by \in l[s - 1].ukeys \ l[s].ukeys
    BY <1>8 DEF Before
  <2>2. j \in 1..n /\ s - 1 \in 1..n
    BY <1>4, <2>1
  <2>3. Before(m, s, c)
    BY <1>2, <1>3, <1>4, <2>1, <2>2 DEF Before
  <2> QED
    BY <1>2, <1>5, <1>6, <2>3 DEF Anchored
<1> QED
  BY <1>4, <1>7, <1>8

\* A commitment that comes while the code stands anchors it.
LEMMA AnchoredStanding ==
    ASSUME NEW l \in Seq(Entry), NEW e \in Entry, NEW m, Extended(l, e, m),
           CredsJoined(l), NEW c, c \in e.creds,
           Rung(c, 0) \in ToSet(e.hashes) \ ToSet(Latest(l).hashes)
    PROVE  Anchored(m, c)
<1>1. PICK n \in Nat : n = Len(l) /\ n # 0 /\ DOMAIN l = 1..n /\ n \in 1..n
  BY DEF Extended
<1>2. /\ Len(m) = n + 1 /\ m[n + 1] = e /\ \A i \in 1..n : m[i] = l[i]
      /\ Prior(m, n + 1) = Latest(l) /\ \A i \in 1..n : Prior(m, i) = Prior(l, i)
  BY <1>1, Longer
<1>3. /\ \A i \in 1..n : \A d : Joins(m, i, d) <=> Joins(l, i, d)
      /\ Came(m, n + 1, Rung(c, 0))
      /\ Joins(m, n + 1, c) <=> c \in e.creds \ Latest(l).creds
  BY <1>1, LongerComes
<1>4. Latest(l) = l[n]
  BY <1>1 DEF Latest
<1>5. n + 1 \in 1..(n + 1)
  BY <1>1
<1>6. CASE c \in l[n].creds
  <2>1. PICK s \in 1..n : Stays(l, s, n, c)
    BY <1>1, <1>6 DEF CredsJoined
  <2>2. \A t \in (s + 1)..n : ~Joins(l, t, c)
    <3> SUFFICES ASSUME NEW t \in (s + 1)..n PROVE ~Joins(l, t, c)
      OBVIOUS
    <3>1. t - 1 \in s..n /\ t # 1
      BY <1>1, <2>1
    <3>2. Prior(l, t) = l[t - 1]
      BY <3>1 DEF Prior
    <3> QED
      BY <2>1, <3>1, <3>2 DEF Stays, Joins
  <2>3. /\ s \in 1..(n + 1)
        /\ \A t \in (s + 1)..(n + 1) : (t \in (s + 1)..n /\ t \in 1..n) \/ t = n + 1
        /\ \A t \in s..(n + 1) : (t \in s..n /\ t \in 1..n) \/ t = n + 1
    BY <1>1, <2>1
  <2>4. Begins(m, s, c)
    BY <1>2, <1>3, <1>4, <1>6, <2>1, <2>2, <2>3 DEF Begins, Stays
  <2>5. \A t \in s..(n + 1) : c \in m[t].creds
    BY <1>2, <2>1, <2>3 DEF Stays
  <2>6. n + 1 \in s..(n + 1)
    BY <1>1, <2>1
  <2>7. During(m, s, c)
    BY <1>2, <1>3, <2>5, <2>6 DEF During
  <2> QED
    BY <1>2, <2>3, <2>4, <2>7 DEF Anchored
<1>7. CASE c \notin l[n].creds
  <2>1. \A t \in (n + 1)..(n + 1) : t = n + 1
    BY <1>1
  <2>2. n + 1 \in (n + 1)..(n + 1) /\ \A t \in (n + 2)..(n + 1) : FALSE
    BY <1>1
  <2>3. Begins(m, n + 1, c)
    <3>1. (n + 1) + 1 = n + 2
      BY <1>1
    <3> QED
      BY <1>2, <1>3, <1>4, <1>7, <2>2, <3>1 DEF Begins
  <2>4. During(m, n + 1, c)
    BY <1>2, <1>3, <2>1, <2>2 DEF During
  <2> QED
    BY <1>2, <1>5, <2>3, <2>4 DEF Anchored
<1> QED
  BY <1>6, <1>7

\* So does one from a key that leaves as the code joins.
LEMMA AnchoredReplacing ==
    ASSUME NEW l \in Seq(Entry), NEW e \in Entry, NEW m, Extended(l, e, m),
           NEW c, c \in e.creds \ Latest(l).creds, NEW j \in 1..Len(l),
           Came(l, j, Rung(c, 0)), l[j].by \in Latest(l).ukeys \ e.ukeys
    PROVE  Anchored(m, c)
<1>1. PICK n \in Nat : n = Len(l) /\ n # 0 /\ DOMAIN l = 1..n /\ n \in 1..n
  BY DEF Extended
<1>2. /\ Len(m) = n + 1 /\ m[n + 1] = e /\ \A i \in 1..n : m[i] = l[i]
  BY <1>1, Longer
<1>3. Came(m, j, Rung(c, 0)) /\ Joins(m, n + 1, c)
  BY <1>1, LongerComes
<1>4. Latest(l) = l[n] /\ m[n] = l[n] /\ m[j] = l[j]
  BY <1>1, <1>2 DEF Latest
<1>5. /\ n + 1 \in 1..(n + 1) /\ (n + 1) - 1 = n /\ (n + 1) + 1 = n + 2
      /\ \A t \in (n + 2)..(n + 1) : FALSE
  BY <1>1
<1>6. Begins(m, n + 1, c)
  BY <1>2, <1>3, <1>5 DEF Begins
<1>7. Before(m, n + 1, c)
  BY <1>1, <1>2, <1>3, <1>4, <1>5 DEF Before
<1> QED
  BY <1>2, <1>5, <1>6, <1>7 DEF Anchored

\* credentialLadderAnchor finds it.
LEMMA AnchoredIs ==
    ASSUME NEW l \in Seq(Entry), NEW c, Anchored(l, c)
    PROVE  CredentialLadderAnchored(IndexLadderLog(l), c)
<1>1. PICK n \in Nat : n = Len(l) /\ DOMAIN l = 1..n
  OBVIOUS
<1>2. PICK f : f = IndexLadderLog(l)
  OBVIOUS
<1>3. /\ Len(f) = n /\ DOMAIN f = 1..n
      /\ \A i \in 1..n : /\ f[i].creds = l[i].creds /\ f[i].by = l[i].by
                         /\ f[i].removedKeys = Prior(l, i).ukeys \ l[i].ukeys
                         /\ f[i].added = ToSet(l[i].hashes) \ ToSet(Prior(l, i).hashes)
                         /\ f[i].introduced = l[i].creds \ Prior(l, i).creds
  BY <1>1, <1>2, IndexIs
<1>4. \A i \in 1..n : \A h : Adds(f, i, h) <=> Came(l, i, h)
  BY <1>3 DEF Adds, Came
<1>5. PICK s \in 1..n : Begins(l, s, c) /\ (During(l, s, c) \/ Before(l, s, c))
  BY <1>1 DEF Anchored
<1>6. PICK starts : starts = {i \in DOMAIN f : c \in f[i].introduced}
  OBVIOUS
<1>7. \A i \in 1..n : i \in starts <=> Joins(l, i, c)
  BY <1>3, <1>6 DEF Joins
<1>8. starts \subseteq 1..n /\ s \in starts /\ \A i \in starts : i <= s
  <2>1. starts \subseteq 1..n
    BY <1>3, <1>6
  <2>2. ASSUME NEW i \in starts PROVE i <= s
    <3>1. i \in 1..n /\ ~(i \in (s + 1)..n)
      BY <1>1, <1>5, <1>7, <2>1 DEF Begins
    <3> QED
      BY <1>5, <3>1
  <2> QED
    BY <1>5, <1>7, <2>1, <2>2 DEF Begins
<1>9. Max(starts) = s
  <2>1. \A x \in starts : (\A y \in starts : x >= y) <=> x = s
    BY <1>1, <1>5, <1>8
  <2> QED
    BY <1>8, <2>1 DEF Max
<1>10. CASE During(l, s, c)
  <2>1. PICK i \in s..n : /\ \A t \in s..i : c \in l[t].creds
                          /\ Came(l, i, Rung(c, 0))
    BY <1>1, <1>10 DEF During
  <2>2. i \in 1..n /\ \A t \in s..i : t \in 1..n
    BY <1>5, <2>1
  <2>3. Adds(f, i, Rung(c, 0)) /\ \A t \in s..i : c \in f[t].creds
    BY <1>3, <1>4, <2>1, <2>2
  <2> QED
    BY <1>2, <1>3, <1>6, <1>8, <1>9, <2>1, <2>3 DEF CredentialLadderAnchored
<1>11. CASE Before(l, s, c)
  <2>1. PICK j \in 1..(s - 1) : /\ Came(l, j, Rung(c, 0))
                                /\ l[j].by \in l[s - 1].ukeys \ l[s].ukeys
    BY <1>11 DEF Before
  <2>2. j \in 1..n /\ s # 1
    BY <1>5, <2>1
  <2>3. Prior(l, s) = l[s - 1]
    BY <2>2 DEF Prior
  <2>4. CommittedByRetiredSigner(f, s, Rung(c, 0))
    BY <1>3, <1>4, <1>5, <2>1, <2>2, <2>3 DEF CommittedByRetiredSigner
  <2> QED
    BY <1>2, <1>6, <1>8, <1>9, <2>4 DEF CredentialLadderAnchored
<1> QED
  BY <1>5, <1>10, <1>11

\* An entry that neither commits a code's rung 0 nor adds its member.
Quiet(l, e, c) ==
    /\ c \in e.creds => c \in Latest(l).creds
    /\ Rung(c, 0) \in ToSet(e.hashes) => Rung(c, 0) \in ToSet(Latest(l).hashes)

\* One that does so for a replacement only in its code's name.
Fits(l, e, code, r) ==
    /\ r \in e.creds => r \in Latest(l).creds \/ Placed(l, Rung(r, 0))
    /\ Rung(r, 0) \in ToSet(e.hashes)
         => Rung(r, 0) \in ToSet(Latest(l).hashes) \/ e.by = Rung(code, 0)

\* Such an entry leaves the replacement to its code.
LEMMA ReservedKept ==
    ASSUME NEW l \in Seq(Entry), NEW e \in Entry, NEW m, Extended(l, e, m),
           NEW js, NEW ks, NEW code, NEW r,
           ReservedFor(l, js, code, r), Fits(l, e, code, r), OneCode(ks, code, r)
    PROVE  ReservedFor(m, ks, code, r)
<1>1. PICK n \in Nat : n = Len(l) /\ n # 0 /\ DOMAIN l = 1..n /\ n \in 1..n
  BY DEF Extended
<1>2. /\ DOMAIN m = 1..(n + 1) /\ m[n + 1] = e /\ \A i \in 1..n : m[i] = l[i]
  BY <1>1, Longer
<1>3. /\ \A i \in 1..n : \A h : Came(m, i, h) <=> Came(l, i, h)
      /\ \A h : Came(m, n + 1, h) <=> h \in ToSet(e.hashes) \ ToSet(Latest(l).hashes)
      /\ Named(m, r) <=> Named(l, r) \/ r \in e.creds
      /\ Placed(l, Rung(r, 0)) => Placed(m, Rung(r, 0))
  BY <1>1, LongerComes
<1>4. ASSUME NEW i \in DOMAIN m, Came(m, i, Rung(r, 0)) PROVE m[i].by = Rung(code, 0)
  <2>1. i \in 1..n \/ i = n + 1
    BY <1>1, <1>2
  <2> QED
    BY <1>1, <1>2, <1>3, <1>4, <2>1 DEF ReservedFor, Fits
<1>5. Named(m, r) => Placed(m, Rung(r, 0))
  <2>1. r \in Latest(l).creds => Named(l, r)
    BY <1>1 DEF Latest, Named
  <2> QED
    BY <1>3, <2>1 DEF ReservedFor, Fits
<1> QED
  BY <1>4, <1>5 DEF ReservedFor

\* A quiet entry fits, and leaves the code anchored.
LEMMA QuietFits ==
    ASSUME NEW l, NEW e, NEW code, NEW r, Quiet(l, e, r)
    PROVE  Fits(l, e, code, r)
  BY DEF Quiet, Fits

\* One code's part of CodesAnchored.
CodeAnchored(l, c) == Placed(l, Rung(c, 0)) /\ Named(l, c) => Anchored(l, c)

\* A quiet entry leaves a code as anchored as it was.
LEMMA QuietAnchored ==
    ASSUME NEW l \in Seq(Entry), NEW e \in Entry, NEW m, Extended(l, e, m),
           NEW c, CodeAnchored(l, c), Quiet(l, e, c)
    PROVE  CodeAnchored(m, c)
<1>1. PICK n \in Nat : n = Len(l) /\ n # 0 /\ DOMAIN l = 1..n /\ n \in 1..n
  BY DEF Extended
<1>2. /\ Came(m, n + 1, Rung(c, 0))
           <=> Rung(c, 0) \in ToSet(e.hashes) \ ToSet(Latest(l).hashes)
      /\ Named(m, c) <=> Named(l, c) \/ c \in e.creds
      /\ Placed(m, Rung(c, 0))
           <=> Placed(l, Rung(c, 0)) \/ Came(m, n + 1, Rung(c, 0))
  BY <1>1, LongerComes
<1>3. c \in Latest(l).creds => Named(l, c)
  BY <1>1 DEF Latest, Named
<1>4. Anchored(l, c) => Anchored(m, c)
  BY AnchorKept DEF Quiet
<1> QED
  BY <1>2, <1>3, <1>4 DEF Quiet, CodeAnchored

\* What no entry has, a longer log has only if the new entry does.
LEMMA UntouchedKept ==
    ASSUME NEW l \in Seq(Entry), NEW e \in Entry, NEW m, Extended(l, e, m),
           NEW x, Untouched(l, x), x \notin e.creds, Rung(x, 0) \notin e.ukeys
    PROVE  Untouched(m, x)
<1>1. PICK n \in Nat : n = Len(l) /\ n # 0 /\ DOMAIN l = 1..n /\ n \in 1..n
  BY DEF Extended
<1>2. /\ DOMAIN m = 1..(n + 1) /\ m[n + 1] = e /\ \A i \in 1..n : m[i] = l[i]
  BY <1>1, Longer
<1>3. \A i \in 1..(n + 1) : i \in 1..n \/ i = n + 1
  BY <1>1
<1> QED
  BY <1>1, <1>2, <1>3 DEF Untouched

\* A spend whose head another entry passed will meet a conflict.
LEMMA HoldsOff ==
    ASSUME NEW l \in Seq(Entry), NEW e \in Entry, NEW m, Extended(l, e, m),
           NEW j, j.head \in Nat, Holds(l, j)
    PROVE  Holds(m, j)
<1>1. Len(m) = Len(l) + 1 /\ Len(l) \in Nat
  BY Longer
<1> QED
  BY <1>1 DEF Holds

-----------------------------------------------------------------------------
(* The report of a finished spend. *)

\* What recoverySpendRetirementFromLog reads off the log f before the entry
\* that authorizes the successor.
ReadReport(f, credentials, x, code, r) ==
    LET keep == {Rung(x, 0), Rung(x, 1), Rung(r, 0)}
        strike == AttributeRetiredCredentialRungs(f, credentials, keep, {Rung(x, 0)})
        abandoned ==
          IF CredentialLadderAnchored(f, code) /\ Rung(code, 0) \in Latest(f).ukeys
          THEN AbandonedSpendCommitments(f, Rung(code, 0), keep) ELSE {}
    IN [credentials |-> credentials, hashes |-> strike.hashes \cup abandoned,
        unclaimed |-> strike.unclaimed]

\* The search for that entry finds it.
LEMMA FoundAt ==
    ASSUME NEW l \in Seq(Entry), NEW k, NEW m, Authorizes(l, m, k)
    PROVE  SelectInSeq(l, LAMBDA e : k \in e.ukeys) = m
<1>1. PICK n \in Nat : n = Len(l)
  OBVIOUS
<1>2. m \in 1..n /\ k \in l[m].ukeys /\ \A i \in 1..(m - 1) : k \notin l[i].ukeys
  BY <1>1 DEF Authorizes
<1>3. PICK S : S = {i \in 1..n : k \in l[i].ukeys}
  OBVIOUS
<1>4. m \in S /\ S \subseteq 1..n /\ \A i \in S : m <= i
  BY <1>2, <1>3
<1>5. Min(S) = m
  <2>1. \A x \in S : (\A y \in S : x <= y) <=> x = m
    BY <1>1, <1>4
  <2> QED
    BY <1>4, <2>1 DEF Min
<1> QED
  BY <1>1, <1>3, <1>4, <1>5 DEF SelectInSeq

\* The report is read off the log before that entry.
LEMMA ReportIs ==
    ASSUME NEW l \in Seq(Entry), NEW x, NEW code, NEW r, NEW m \in Nat,
           Authorizes(l, m, Rung(x, 0))
    PROVE  RecoverySpendRetirementFromLog(l, x, code, r)
             = ReadReport(IndexLadderLog(SubSeq(l, 1, m - 1)),
                          RetiredCredentialKeys(l[m - 1], l[m]) \ {code}, x, code, r)
<1>1. SelectInSeq(l, LAMBDA e : Rung(x, 0) \in e.ukeys) = m
  BY FoundAt
<1>2. m # 0
  BY DEF Authorizes
<1> QED
  BY <1>1, <1>2 DEF RecoverySpendRetirementFromLog, ReadReport

\* It stays what it is as the log grows.
LEMMA ReadsBackKept ==
    ASSUME NEW l \in Seq(Entry), NEW e \in Entry, NEW m, Extended(l, e, m),
           NEW x, NEW j, NEW rep, ReadsBack(l, x, j, rep)
    PROVE  ReadsBack(m, x, j, rep)
<1>1. PICK n \in Nat : n = Len(l) /\ n # 0 /\ DOMAIN l = 1..n
  BY DEF Extended
<1>2. /\ m \in Seq(Entry) /\ Len(m) = n + 1 /\ \A i \in 1..n : m[i] = l[i]
  BY <1>1, Longer
<1>3. PICK a \in 2..n : Authorizes(l, a, Rung(x, 0))
  BY <1>1 DEF ReadsBack
<1>4. a \in 2..(n + 1) /\ a \in 1..n /\ a - 1 \in 1..n
      /\ \A i \in 1..(a - 1) : i \in 1..n
  BY <1>1, <1>3
<1>5. Authorizes(m, a, Rung(x, 0))
  BY <1>1, <1>2, <1>3, <1>4 DEF Authorizes
<1>6. SubSeq(m, 1, a - 1) = SubSeq(l, 1, a - 1)
  BY <1>1, <1>2, <1>4
<1>7. RecoverySpendRetirementFromLog(m, x, j.by, j.replacement)
        = RecoverySpendRetirementFromLog(l, x, j.by, j.replacement)
  <2>1. l[a] = m[a] /\ l[a - 1] = m[a - 1]
    BY <1>2, <1>4
  <2>2. PICK code, r : code = j.by /\ r = j.replacement /\ a \in Nat
    BY <1>3
  <2>3. RecoverySpendRetirementFromLog(l, x, code, r)
          = ReadReport(IndexLadderLog(SubSeq(l, 1, a - 1)),
                       RetiredCredentialKeys(l[a - 1], l[a]) \ {code}, x, code, r)
    BY <1>3, <2>2, ReportIs
  <2>4. RecoverySpendRetirementFromLog(m, x, code, r)
          = ReadReport(IndexLadderLog(SubSeq(m, 1, a - 1)),
                       RetiredCredentialKeys(m[a - 1], m[a]) \ {code}, x, code, r)
    BY <1>2, <1>5, <2>2, ReportIs
  <2> QED
    BY <1>6, <2>1, <2>2, <2>3, <2>4
<1> QED
  BY <1>2, <1>4, <1>5, <1>7 DEF ReadsBack

-----------------------------------------------------------------------------
(* Steps. *)

\* A step that publishes the entry e.
Grown(e) ==
    /\ e \in Entry /\ Len(log) < MaxEntries /\ log' = Append(log, e)
    /\ e.ukeys \subseteq ToSet(Now.hashes)

\* An entry that leaves the successors of unfinished spends alone.
Spares(js, e) == \A x \in Live(js) : x \notin e.creds /\ Rung(x, 0) \notin e.ukeys
Plain(e) == Spares(job, e) /\ \A c \in Code : Quiet(log, e, c)

\* What a step that is no spend's may do to the ceremonies.
Moves(j, k) ==
    /\ j.kind # "none" /\ k.kind = j.kind /\ k.by = j.by
    /\ k.replacement = j.replacement
    /\ k.stage = "done" <=> j.stage = "done"
    /\ k.stage \in {"committed", "persisted"} =>
           j.stage \in {"committed", "persisted"} /\ k.head = j.head
Enrolls(l, j, k) ==
    j.kind # "spend" /\ k.kind \in {"selfEnroll", "enroll"} /\ ShapeOK(l, k)
JobsMove ==
    /\ job' \in [Successor -> Job]
    /\ \A x \in Successor : \/ job'[x] = job[x] \/ Moves(job[x], job'[x])
                            \/ Enrolls(log', job[x], job'[x])
Tidy ==
    /\ active' \in [Client -> Nat] /\ recorded' \in [Credential -> Nat]
    /\ retired' \subseteq Credential /\ unclaimed' \subseteq Credential

\* The log is published over its head.
LEMMA GrownExtends ==
    ASSUME TypeOK, NEW e, Grown(e)
    PROVE  /\ log \in Seq(Entry) /\ log # <<>> /\ e \in Entry
           /\ Extended(log, e, log')
           /\ Len(log) \in DOMAIN log /\ Now = log[Len(log)] /\ Now \in Entry
           /\ Len(log') \in 1..MaxEntries
<1>1. log \in Seq(Entry) /\ Len(log) \in 1..MaxEntries /\ MaxEntries \in Nat
  BY LadderAssumption DEF TypeOK, LadderAssumption
<1>2. log # <<>> /\ Len(log) \in DOMAIN log
  BY <1>1
<1>3. e \in Entry /\ log' = Append(log, e) /\ Len(log) < MaxEntries
  BY DEF Grown
<1>4. Len(log') = Len(log) + 1
  BY <1>1, <1>3
<1>5. Len(log') \in 1..MaxEntries
  BY <1>1, <1>3, <1>4
<1> QED
  BY <1>1, <1>2, <1>3, <1>5 DEF Extended, Now, Latest

\* The log has a head.
LEMMA HeadIs ==
    ASSUME TypeOK
    PROVE  /\ log \in Seq(Entry) /\ log # <<>> /\ Len(log) \in DOMAIN log
           /\ Now = log[Len(log)] /\ Now \in Entry
<1>1. log \in Seq(Entry) /\ Len(log) \in 1..MaxEntries /\ MaxEntries \in Nat
  BY LadderAssumption DEF TypeOK, LadderAssumption
<1> QED
  BY <1>1 DEF Now, Latest

\* A ceremony keeps its shape on a longer log.
LEMMA ShapeKept ==
    ASSUME NEW l \in Seq(Entry), NEW e \in Entry, NEW m, Extended(l, e, m),
           NEW j, ShapeOK(l, j)
    PROVE  ShapeOK(m, j)
<1>1. \A c : Named(l, c) => Named(m, c)
  BY LongerComes
<1> QED
  BY <1>1 DEF ShapeOK

\* Spends are not touched by steps that are not theirs.
LEMMA SpendsMove ==
    ASSUME TypeOK, JobsMove
    PROVE  /\ Spends(job') = Spends(job) /\ Live(job') = Live(job)
           /\ \A x \in Spends(job) : /\ job'[x].by = job[x].by
                                     /\ job'[x].replacement = job[x].replacement
                                     /\ job'[x] = job[x] \/ Moves(job[x], job'[x])
<1>1. ASSUME NEW x \in Successor
      PROVE  /\ job'[x].kind = "spend" <=> job[x].kind = "spend"
             /\ job[x].kind = "spend" =>
                  /\ job'[x].stage = "done" <=> job[x].stage = "done"
                  /\ job'[x].by = job[x].by /\ job'[x].replacement = job[x].replacement
                  /\ job'[x] = job[x] \/ Moves(job[x], job'[x])
  BY <1>1 DEF JobsMove, Moves, Enrolls
<1> QED
  BY <1>1 DEF Spends, Live

\* Who stays reserved while the spends are the same.
LEMMA OneCodeKept ==
    ASSUME TypeOK, JobsMove, NEW code, NEW r, OneCode(job, code, r)
    PROVE  OneCode(job', code, r)
  BY SpendsMove DEF OneCode

\* Types: of the log, and of all the rest.
LEMMA TypeKept ==
    ASSUME TypeOK, NEW e, Grown(e), Tidy, job' \in [Successor -> Job],
           report' \in [Successor -> Report]
    PROVE  TypeOK'
<1>1. log' \in Seq(Entry) /\ Len(log') \in 1..MaxEntries
  BY GrownExtends, Longer
<1> QED
  BY <1>1 DEF TypeOK, Tidy

\* The log may grow by an entry in which no successor of an unfinished spend and
\* no replacement of another code appears, and after which every code is
\* anchored, under the ceremonies js.
LEMMA GrowLog ==
    ASSUME TypeOK, LogInv(log), NEW js \in [Successor -> Job], JobsInv(log, js),
           NEW reps, Reported(log, js, reps), NEW e, Grown(e), Spares(js, e),
           \A c \in Code : CodeAnchored(log', c),
           \A y \in Spends(js) : Fits(log, e, js[y].by, js[y].replacement)
    PROVE  LogInv(log') /\ JobsInv(log', js) /\ Reported(log', js, reps)
<1>1. /\ log \in Seq(Entry) /\ e \in Entry /\ Extended(log, e, log')
  BY GrownExtends
<1>2. LogInv(log')
  <2>1. e.ukeys \subseteq ToSet(Latest(log).hashes)
    BY DEF Grown, Now
  <2>2. HashesCame(log') /\ KeysCame(log') /\ CredsJoined(log')
    BY <1>1, <2>1, HistoryKept DEF LogInv
  <2> QED
    BY <2>2 DEF LogInv, CodesAnchored, CodeAnchored
<1>3. Shaped(log', js)
  <2> SUFFICES ASSUME NEW x \in Successor PROVE ShapeOK(log', js[x])
    BY DEF Shaped
  <2>1. PICK j : j = js[x] /\ ShapeOK(log, j)
    BY DEF JobsInv, Shaped
  <2> QED
    BY <1>1, <2>1, ShapeKept
<1>4. Reserved(log', js)
  <2> SUFFICES ASSUME NEW y \in Spends(js)
               PROVE  ReservedFor(log', js, js[y].by, js[y].replacement)
    BY DEF Reserved
  <2>1. PICK code, r : code = js[y].by /\ r = js[y].replacement
    OBVIOUS
  <2>2. ReservedFor(log, js, code, r) /\ Fits(log, e, code, r)
    BY <2>1 DEF JobsInv, Reserved
  <2>3. OneCode(js, code, r)
    BY <2>2 DEF ReservedFor
  <2> QED
    BY <1>1, <2>1, <2>2, <2>3, ReservedKept
<1>5. Pending(log', js)
  <2> SUFFICES ASSUME NEW x \in Live(js) PROVE Untouched(log', x)
    BY DEF Pending
  <2>1. Untouched(log, x) /\ x \notin e.creds /\ Rung(x, 0) \notin e.ukeys
    BY DEF JobsInv, Pending, Spares
  <2> QED
    BY <1>1, <2>1, UntouchedKept
<1>6. Held(log', js)
  <2> SUFFICES ASSUME NEW x \in Live(js) PROVE Holds(log', js[x])
    BY DEF Held
  <2>1. x \in Successor
    BY DEF Live, Spends
  <2>2. PICK j : j = js[x] /\ Holds(log, j) /\ j.head \in Nat
    BY <2>1 DEF JobsInv, Held, Job
  <2> QED
    BY <1>1, <2>2, HoldsOff
<1>7. Reported(log', js, reps)
  <2> SUFFICES ASSUME NEW x \in Spends(js) \ Live(js)
               PROVE  ReadsBack(log', x, js[x], reps[x])
    BY DEF Reported
  <2>1. PICK j, rep : j = js[x] /\ rep = reps[x] /\ ReadsBack(log, x, j, rep)
    BY DEF Reported
  <2> QED
    BY <1>1, <2>1, ReadsBackKept
<1> QED
  BY <1>2, <1>3, <1>4, <1>5, <1>6, <1>7 DEF JobsInv

\* Ceremonies that are no spends move on whatever log.
LEMMA JobsKeep ==
    ASSUME TypeOK, JobsMove, JobsInv(log', job), Reported(log', job, report)
    PROVE  JobsInv(log', job') /\ Reported(log', job', report)
<1>1. /\ Spends(job') = Spends(job) /\ Live(job') = Live(job)
      /\ \A x \in Spends(job) : /\ job'[x].by = job[x].by
                                /\ job'[x].replacement = job[x].replacement
                                /\ job'[x] = job[x] \/ Moves(job[x], job'[x])
  BY SpendsMove
<1>2. Shaped(log', job')
  <2> SUFFICES ASSUME NEW x \in Successor PROVE ShapeOK(log', job'[x])
    BY DEF Shaped
  <2>1. ShapeOK(log', job[x])
    BY DEF JobsInv, Shaped
  <2>2. CASE job'[x] = job[x]
    BY <2>1, <2>2
  <2>3. CASE Moves(job[x], job'[x])
    BY <2>1, <2>3 DEF Moves, ShapeOK
  <2>4. CASE Enrolls(log', job[x], job'[x])
    BY <2>4 DEF Enrolls
  <2> QED
    BY <2>2, <2>3, <2>4 DEF JobsMove
<1>3. Reserved(log', job')
  <2> SUFFICES ASSUME NEW y \in Spends(job)
               PROVE  ReservedFor(log', job', job[y].by, job[y].replacement)
    BY <1>1 DEF Reserved
  <2>1. PICK code, r : code = job[y].by /\ r = job[y].replacement
    OBVIOUS
  <2>2. ReservedFor(log', job, code, r)
    BY <2>1 DEF JobsInv, Reserved
  <2>3. OneCode(job', code, r)
    BY <2>2, OneCodeKept DEF ReservedFor
  <2> QED
    BY <2>1, <2>2, <2>3 DEF ReservedFor
<1>4. Pending(log', job')
  BY <1>1 DEF JobsInv, Pending
<1>5. Held(log', job')
  <2> SUFFICES ASSUME NEW x \in Live(job) PROVE Holds(log', job'[x])
    BY <1>1 DEF Held
  <2>1. Holds(log', job[x])
    BY DEF JobsInv, Held
  <2>2. job'[x] = job[x] \/ Moves(job[x], job'[x])
    BY <1>1 DEF Live
  <2> QED
    BY <2>1, <2>2 DEF Holds, Moves
<1>6. Reported(log', job', report)
  <2> SUFFICES ASSUME NEW x \in Spends(job) \ Live(job)
               PROVE  ReadsBack(log', x, job'[x], report[x])
    BY <1>1 DEF Reported
  <2>1. ReadsBack(log', x, job[x], report[x])
    BY DEF Reported
  <2>2. job'[x].by = job[x].by /\ job'[x].replacement = job[x].replacement
    BY <1>1
  <2> QED
    BY <2>1, <2>2 DEF ReadsBack
<1> QED
  BY <1>2, <1>3, <1>4, <1>5, <1>6 DEF JobsInv

\* A step that publishes an entry, and moves no spend.
LEMMA GrowKeeps ==
    ASSUME LadderInv, NEW e, Grown(e), Tidy, JobsMove, report' = report,
           Spares(job, e), \A c \in Code : CodeAnchored(log', c),
           \A y \in Spends(job) : Fits(log, e, job[y].by, job[y].replacement)
    PROVE  LadderInv'
<1>1. /\ TypeOK /\ LogInv(log) /\ JobsInv(log, job) /\ Reported(log, job, report)
      /\ job \in [Successor -> Job] /\ report \in [Successor -> Report]
  BY DEF LadderInv, TypeOK
<1>2. LogInv(log') /\ JobsInv(log', job) /\ Reported(log', job, report)
  BY <1>1, GrowLog
<1>3. JobsInv(log', job') /\ Reported(log', job', report)
  BY <1>1, <1>2, JobsKeep
<1>4. TypeOK'
  BY <1>1, TypeKept DEF JobsMove
<1> QED
  BY <1>2, <1>3, <1>4 DEF LadderInv

\* Where the entry is plain, all of that follows.
LEMMA PlainKeeps ==
    ASSUME LadderInv, NEW e, Grown(e), Plain(e), Tidy, JobsMove, report' = report
    PROVE  LadderInv'
<1>1. /\ log \in Seq(Entry) /\ e \in Entry /\ Extended(log, e, log')
  BY GrownExtends DEF LadderInv
<1>2. ASSUME NEW c \in Code PROVE CodeAnchored(log', c)
  <2>1. CodeAnchored(log, c) /\ Quiet(log, e, c)
    BY DEF LadderInv, LogInv, CodesAnchored, CodeAnchored, Plain
  <2> QED
    BY <1>1, <2>1, QuietAnchored
<1>3. ASSUME NEW y \in Spends(job)
      PROVE  Fits(log, e, job[y].by, job[y].replacement)
  <2>1. PICK code, r : code = job[y].by /\ r = job[y].replacement
    OBVIOUS
  <2>2. r \in Code
    BY <2>1 DEF LadderInv, JobsInv, Shaped, ShapeOK, Spends
  <2>3. Fits(log, e, code, r)
    BY <2>2, QuietFits DEF Plain
  <2> QED
    BY <2>1, <2>3
<1> QED
  BY <1>2, <1>3, GrowKeeps DEF Plain

\* A step that publishes nothing.
LEMMA StillKeeps ==
    ASSUME LadderInv, log' = log, Tidy, JobsMove, report' = report
    PROVE  LadderInv'
<1>1. /\ TypeOK /\ LogInv(log) /\ JobsInv(log, job) /\ Reported(log, job, report)
  BY DEF LadderInv
<1>2. JobsInv(log', job') /\ Reported(log', job', report)
  BY <1>1, JobsKeep
<1>3. TypeOK'
  BY <1>1 DEF TypeOK, Tidy, JobsMove
<1> QED
  BY <1>1, <1>2, <1>3 DEF LadderInv

-----------------------------------------------------------------------------
(* What a signer signs. *)

\* An entry before its signer is known.
Draft == [ukeys : SUBSET Key, hashes : Seq(Key), creds : SUBSET Credential,
          vms : SUBSET Credential, clients : SUBSET Client, by : Key \cup {NoKey}]

\* A draft that adds to the head no hash and no code's member, and spares the
\* successors of unfinished spends; commitments that are no code's rung 0.
Modest(e) ==
    /\ Spares(job, e) /\ ToSet(e.hashes) \subseteq ToSet(Now.hashes)
    /\ \A c \in Code : c \in e.creds => c \in Now.creds
NoCodes(cs) == \A c \in Code : Rung(c, 0) \notin ToSet(cs)

\* A step that publishes a plain entry.
PlainGrowth == \E e : Grown(e) /\ Plain(e)

\* Whose names are whose.
LEMMA Kinds ==
    /\ Unlock \cap Client = {} /\ Code \cap Client = {} /\ Unlock \cap Code = {}
    /\ Unlock \subseteq Credential /\ Code \subseteq Credential
    /\ Code \cap Successor = {}
  BY OwnerAssumption, LadderAssumption DEF OwnerAssumption, LadderAssumption, Successor

\* The keys of clients and credentials.
LEMMA RungTyped ==
    ASSUME NEW c \in Client \cup Credential, NEW n \in Nat
    PROVE  Rung(c, n) \in Key /\ Owner(Rung(c, n)) = c /\ Rung(c, n)[2] = n
  BY DEF Rung, Key, Owner

\* Signers are enrolled clients and standing credentials.
LEMMA SignerIs ==
    ASSUME TypeOK, NEW s \in Signer
    PROVE  s \in Client \cup Unlock /\ (s \in Unlock => Named(log, s))
<1>1. Len(log) \in DOMAIN log /\ Now = log[Len(log)] /\ Now \in Entry
  BY HeadIs
<1>2. s \in Now.clients \/ s \in Now.creds \cap Unlock
  BY DEF Signer
<1> QED
  BY <1>1, <1>2, Kinds DEF Entry, Named

\* Where the spends stand, their successors are not at the head.
LEMMA HeadSpares ==
    ASSUME LadderInv
    PROVE  Spares(job, Now)
<1>1. Len(log) \in DOMAIN log /\ Now = log[Len(log)]
  BY HeadIs DEF LadderInv
<1>2. \A x \in Live(job) : Untouched(log, x)
  BY DEF LadderInv, JobsInv, Pending
<1> QED
  BY <1>1, <1>2 DEF Untouched, Spares

\* A revealed key joins the draft's keys and hashes, before what it commits.
LEMMA RevealsIs ==
    ASSUME NEW key \in Key, NEW e \in Draft, NEW cs \in Seq(Key)
    PROVE  /\ Reveals(key, e, cs) \in Entry
           /\ Reveals(key, e, cs).creds = e.creds
           /\ Reveals(key, e, cs).by = key
           /\ Reveals(key, e, cs).ukeys = e.ukeys \cup {key}
           /\ ToSet(Reveals(key, e, cs).hashes)
                = ToSet(e.hashes) \cup {key} \cup ToSet(cs)
<1>1. PICK u \in Seq(Key) : u = <<key>> /\ ToSet(u) = {key}
  <2>1. <<key>> \in Seq(Key) /\ ToSet(<<key>>) = {key}
    BY DEF ToSet
  <2> QED
    BY <2>1
<1>2. PICK t \in Seq(Key) : t = u \o cs /\ ToSet(t) = {key} \cup ToSet(cs)
  <2>1. u \o cs \in Seq(Key)
    OBVIOUS
  <2>2. ToSet(u \o cs) = ToSet(u) \cup ToSet(cs)
    BY ConcatSet
  <2> QED
    BY <1>1, <2>1, <2>2
<1>3. e.hashes \in Seq(Key)
  BY DEF Draft
<1>4. PICK w \in Seq(Key) : /\ w = Joined(e.hashes, t)
                            /\ ToSet(w) = ToSet(e.hashes) \cup ToSet(t)
  BY <1>3, JoinedIs
<1>5. PICK r : r = Reveals(key, e, cs)
  OBVIOUS
<1>6. r = [e EXCEPT !.ukeys = @ \cup {key}, !.hashes = w, !.by = key]
  BY <1>1, <1>2, <1>4, <1>5 DEF Reveals
<1>7. /\ r.creds = e.creds /\ r.by = key /\ r.ukeys = e.ukeys \cup {key}
      /\ r.hashes = w /\ r.vms = e.vms /\ r.clients = e.clients
  BY <1>6 DEF Draft
<1>8. r \in Entry
  BY <1>6 DEF Draft, Entry
<1> QED
  BY <1>2, <1>4, <1>5, <1>7, <1>8

\* What a client or a credential signs adds its own key, and a client's adds
\* none.
Signed(s, e, cs, r) ==
    /\ r \in Entry /\ r.creds = e.creds /\ r.by \in Key /\ Owner(r.by) = s
    /\ ToSet(r.hashes) \subseteq ToSet(e.hashes) \cup ToSet(cs) \cup {r.by}
    /\ r.ukeys \subseteq e.ukeys \cup (IF s \in Client THEN {} ELSE {r.by})
LEMMA SignedIs ==
    ASSUME TypeOK, NEW s \in Client \cup Unlock, NEW e \in Draft, NEW cs \in Seq(Key),
           SignedBy(s, e, cs).by # NoKey
    PROVE  Signed(s, e, cs, SignedBy(s, e, cs))
<1>1. Now \in Entry
  BY HeadIs
<1>2. PICK k : k = SignerKey(s)
  OBVIOUS
<1>3. CASE s \in Client
  <2>1. active[s] \in Nat
    BY <1>3 DEF TypeOK
  <2>2. k = Rung(s, active[s]) \/ k = NoKey
    BY <1>2, <1>3 DEF SignerKey
  <2>3. PICK w \in Seq(Key) : /\ w = Joined(e.hashes, cs)
                              /\ ToSet(w) = ToSet(e.hashes) \cup ToSet(cs)
    BY JoinedIs DEF Draft
  <2>4. SignedBy(s, e, cs) = [e EXCEPT !.hashes = w, !.by = k]
    BY <1>2, <1>3, <2>3 DEF SignedBy
  <2>5. SignedBy(s, e, cs).by = k
    BY <2>4 DEF Draft
  <2>6. k \in Key /\ Owner(k) = s
    <3>1. PICK n \in Nat : n = active[s]
      BY <2>1
    <3> QED
      BY <1>3, <2>2, <2>5, <3>1, RungTyped
  <2> QED
    BY <1>3, <2>3, <2>4, <2>6 DEF Signed, Draft, Entry
<1>4. CASE s \notin Client
  <2>1. SignedBy(s, e, cs) = Reveals(k, e, cs)
    BY <1>2, <1>4 DEF SignedBy
  <2>2. SignedBy(s, e, cs).by = k
    BY <2>1 DEF Reveals, Draft
  <2>3. k = AttributeLadderRung(s, Now).rung
    BY <1>2, <1>4 DEF SignerKey
  <2>4. Owner(k) = s /\ k \in Now.ukeys \cup ToSet(Now.hashes)
    BY <2>2, <2>3, RungIs
  <2>5. k \in Key
    BY <1>1, <2>4 DEF Entry, ToSet
  <2> QED
    BY <1>4, <2>1, <2>4, <2>5, RevealsIs DEF Signed
<1> QED
  BY <1>3, <1>4

\* A modest draft signed by whom the log names is plain.
LEMMA SignedPlain ==
    ASSUME LadderInv, NEW s \in Client \cup Unlock, s \in Unlock => Named(log, s),
           NEW e \in Draft, Modest(e), NEW cs \in Seq(Key), NoCodes(cs),
           Publish(SignedBy(s, e, cs))
    PROVE  PlainGrowth
<1>1. PICK r : r = SignedBy(s, e, cs)
  OBVIOUS
<1>2. Publish(r)
  BY <1>1
<1>3. Signed(s, e, cs, r)
  BY <1>1, <1>2, SignedIs DEF LadderInv, Publish
<1>4. Grown(r)
  BY <1>2, <1>3 DEF Publish, Signed, Grown
<1>5. Spares(job, r)
  <2> SUFFICES ASSUME NEW x \in Live(job)
               PROVE  x \notin r.creds /\ Rung(x, 0) \notin r.ukeys
    BY DEF Spares
  <2>1. x \notin e.creds /\ Rung(x, 0) \notin e.ukeys
    BY DEF Modest, Spares
  <2>2. ~Named(log, x) /\ x \in Successor
    BY DEF LadderInv, JobsInv, Pending, Untouched, Named, Live, Spends
  <2>3. Owner(Rung(x, 0)) = x
    BY DEF Owner, Rung
  <2>4. s \notin Client => x # s
    BY <2>2
  <2> QED
    BY <1>3, <2>1, <2>3, <2>4 DEF Signed
<1>6. ASSUME NEW c \in Code PROVE Quiet(log, r, c)
  <2>1. Owner(Rung(c, 0)) = c /\ c # s
    BY Kinds DEF Owner, Rung
  <2>2. Rung(c, 0) # r.by /\ Rung(c, 0) \notin ToSet(cs)
    BY <1>3, <2>1 DEF Signed, NoCodes
  <2> QED
    BY <1>3, <2>2 DEF Signed, Modest, Quiet, Now
<1> QED
  BY <1>4, <1>5, <1>6 DEF Plain, PlainGrowth

-----------------------------------------------------------------------------
(* Each step keeps the invariant. *)

\* A plain entry, and the ceremonies where they were.
LEMMA GrowthKeeps ==
    ASSUME LadderInv, PlainGrowth, Tidy, JobsMove, report' = report
    PROVE  LadderInv'
<1>1. PICK e : Grown(e) /\ Plain(e)
  BY DEF PlainGrowth
<1> QED
  BY <1>1, PlainKeeps

\* The same where nothing but the log changes.
LEMMA IdleKeeps ==
    ASSUME LadderInv, PlainGrowth,
           UNCHANGED <<active, recorded, job, retired, unclaimed, report>>
    PROVE  LadderInv'
<1>1. Tidy /\ JobsMove /\ report' = report
  BY DEF Tidy, JobsMove, LadderInv, TypeOK
<1> QED
  BY <1>1, GrowthKeeps

\* The head, or what is left of it, is a modest draft.
LEMMA ModestHead ==
    ASSUME LadderInv, NEW e \in Draft, e.creds \subseteq Now.creds,
           e.ukeys \subseteq Now.ukeys, ToSet(e.hashes) \subseteq ToSet(Now.hashes)
    PROVE  Modest(e)
<1>1. Spares(job, Now)
  BY HeadSpares
<1> QED
  BY <1>1 DEF Modest, Spares

\* Nothing committed commits no code's rung.
LEMMA NoCommits == <<>> \in Seq(Key) /\ NoCodes(<<>>)
<1>1. ToSet(<<>>) = {}
  BY DEF ToSet
<1> QED
  BY <1>1 DEF NoCodes

\* Bind.
LEMMA BindKeeps ==
    ASSUME LadderInv, NEW s \in Unlock \cup Client, NEW c \in Unlock, Bind(s, c)
    PROVE  LadderInv'
<1>1. Now \in Entry /\ TypeOK
  BY HeadIs DEF LadderInv
<1>2. PICK e : e = BoundFields(c, TRUE, TRUE)
  OBVIOUS
<1>3. PICK cs : /\ cs \in {<<Rung(c, 0)>>, <<>>}
                /\ s \in Signer /\ Unused(c) /\ Publish(SignedBy(s, e, cs))
                /\ UNCHANGED <<active, recorded, job, retired, unclaimed, report>>
  BY <1>2 DEF Bind, PublishUnlockKey
<1>4. s \in Client \cup Unlock /\ (s \in Unlock => Named(log, s))
  BY <1>1, <1>3, SignerIs
<1>5. Rung(c, 0) \in Key /\ \A d \in Code : Rung(d, 0) # Rung(c, 0)
  BY Kinds, RungTyped DEF Rung
<1>6. cs \in Seq(Key) /\ ToSet(cs) \subseteq {Rung(c, 0)}
  <2>1. CASE cs = <<Rung(c, 0)>>
    BY <1>5, <2>1 DEF ToSet
  <2>2. CASE cs = <<>>
    BY <2>2 DEF ToSet
  <2> QED
    BY <1>3, <2>1, <2>2
<1>7. NoCodes(cs)
  BY <1>5, <1>6 DEF NoCodes
<1>8. e = [Now EXCEPT !.creds = @ \cup {c}, !.vms = @ \cup {c}]
  BY <1>2 DEF BoundFields
<1>9. /\ e \in Draft /\ e.creds = Now.creds \cup {c} /\ e.hashes = Now.hashes
      /\ e.ukeys = Now.ukeys
  BY <1>1, <1>8, Kinds DEF Entry, Draft
<1>10. c \notin Live(job)
  BY <1>3 DEF Unused, Successor, Live, Spends, NoJob
<1>11. Modest(e)
  BY <1>9, <1>10, Kinds, HeadSpares DEF Modest, Spares
<1>12. PlainGrowth
  BY <1>3, <1>4, <1>6, <1>7, <1>9, <1>11, SignedPlain
<1> QED
  BY <1>3, <1>12, IdleKeeps

\* RemoveUnlockKey.
LEMMA RemoveKeeps ==
    ASSUME LadderInv, NEW c \in Credential, NEW seeded \in BOOLEAN,
           RemoveUnlockKey(c, seeded)
    PROVE  LadderInv'
<1>1. Now \in Entry /\ TypeOK
  BY HeadIs DEF LadderInv
<1>2. PICK r, struck, a : /\ a \in Signer
                          /\ Publish(SignedBy(a, StruckFields(c, r, struck), <<>>))
  BY DEF RemoveUnlockKey
<1>3. PICK s \in Client \cup Unlock : s = a /\ (s \in Unlock => Named(log, s))
  BY <1>1, <1>2, SignerIs
<1>4. PICK w \in Seq(Key) : /\ w = Without(Now.hashes, r.hashes)
                            /\ ToSet(w) = ToSet(Now.hashes) \ r.hashes
  BY <1>1, WithoutIs DEF Entry
<1>5. PICK e : e = StruckFields(c, r, struck)
  OBVIOUS
<1>6. e = [Now EXCEPT !.ukeys = @ \ r.keys, !.hashes = w, !.creds = @ \ {c},
                      !.vms = @ \ struck]
  BY <1>4, <1>5 DEF StruckFields
<1>7. /\ e \in Draft /\ e.creds \subseteq Now.creds /\ e.ukeys \subseteq Now.ukeys
      /\ e.hashes = w
  BY <1>1, <1>6 DEF Entry, Draft
<1>8. Modest(e)
  BY <1>4, <1>7, ModestHead
<1>9. PICK cs \in Seq(Key) : cs = <<>> /\ NoCodes(cs)
  BY NoCommits
<1>10. Publish(SignedBy(s, e, cs))
  BY <1>2, <1>3, <1>5, <1>9
<1>11. PlainGrowth
  BY <1>3, <1>7, <1>8, <1>9, <1>10, SignedPlain
<1>12. Tidy /\ JobsMove /\ report' = report
  BY <1>1 DEF Tidy, JobsMove, TypeOK, RemoveUnlockKey
<1> QED
  BY <1>11, <1>12, GrowthKeeps

\* SetLadderVmPresence.
LEMMA PresenceKeeps ==
    ASSUME LadderInv, NEW c \in Unlock, NEW present \in BOOLEAN,
           SetLadderVmPresence(c, present)
    PROVE  LadderInv'
<1>1. Now \in Entry /\ TypeOK
  BY HeadIs DEF LadderInv
<1>2. PICK e : e = [Now EXCEPT !.vms = IF present THEN @ \cup {c} ELSE @ \ {c}]
  OBVIOUS
<1>3. PICK cs \in Seq(Key) : cs = <<>> /\ NoCodes(cs)
  BY NoCommits
<1>4. /\ c \in Signer /\ Publish(SignedBy(c, e, cs))
      /\ UNCHANGED <<active, recorded, job, retired, unclaimed, report>>
  BY <1>2, <1>3 DEF SetLadderVmPresence
<1>5. c \in Client \cup Unlock /\ (c \in Unlock => Named(log, c))
  BY <1>1, <1>4, SignerIs
<1>6. /\ e \in Draft /\ e.creds = Now.creds /\ e.ukeys = Now.ukeys
      /\ e.hashes = Now.hashes
  BY <1>1, <1>2, Kinds DEF Entry, Draft
<1>7. Modest(e)
  BY <1>6, ModestHead
<1>8. PlainGrowth
  BY <1>3, <1>4, <1>5, <1>6, <1>7, SignedPlain
<1> QED
  BY <1>4, <1>8, IdleKeeps

\* RevealLadderRung.
LEMMA RungKeeps ==
    ASSUME LadderInv, NEW c \in Unlock, RevealLadderRung(c)
    PROVE  LadderInv'
<1>1. Now \in Entry /\ TypeOK
  BY HeadIs DEF LadderInv
<1>2. PICK k : k = AttributeLadderRung(c, Now).rung
  OBVIOUS
<1>3. PICK cs : cs = <<Rung(c, k[2] + 1)>>
  OBVIOUS
<1>4. /\ c \in Signer /\ Publish(SignedBy(c, Now, cs))
      /\ UNCHANGED <<active, recorded, job, retired, unclaimed, report>>
  BY <1>2, <1>3 DEF RevealLadderRung
<1>5. c \in Client \cup Unlock /\ (c \in Unlock => Named(log, c))
  BY <1>1, <1>4, SignerIs
<1>6. k \in Key
  <2>1. SignedBy(c, Now, cs).by # NoKey
    BY <1>4 DEF Publish
  <2>2. SignedBy(c, Now, cs).by = k
    BY <1>1, <1>2, Kinds DEF SignedBy, SignerKey, Reveals, Entry
  <2>3. k \in Now.ukeys \cup ToSet(Now.hashes)
    BY <1>2, <2>1, <2>2, RungIs
  <2> QED
    BY <1>1, <2>3 DEF Entry, ToSet
<1>7. k[2] + 1 \in Nat
  BY <1>6 DEF Key
<1>8. /\ cs \in Seq(Key) /\ NoCodes(cs)
  <2>1. Rung(c, k[2] + 1) \in Key /\ \A d \in Code : Rung(d, 0) # Rung(c, k[2] + 1)
    BY <1>7, Kinds DEF Rung, Key
  <2> QED
    BY <1>3, <2>1 DEF NoCodes, ToSet
<1>9. Now \in Draft /\ Modest(Now)
  BY <1>1, ModestHead DEF Entry, Draft
<1>10. PlainGrowth
  BY <1>4, <1>5, <1>8, <1>9, SignedPlain
<1> QED
  BY <1>4, <1>10, IdleKeeps

\* RemoveClient, in a revocation or a forget.
LEMMA RemoveClientKeeps ==
    ASSUME LadderInv, NEW signers \in SUBSET Signer, NEW a, NEW vouched,
           RemoveClient(signers, a, vouched)
    PROVE  LadderInv'
<1>1. Now \in Entry /\ TypeOK
  BY HeadIs DEF LadderInv
<1>2. PICK e, k, out, b :
        /\ b \in Signer /\ Publish(SignedBy(b, e, <<>>))
        /\ e = [Now EXCEPT !.ukeys = @ \ {k}, !.hashes = Without(@, out),
                           !.clients = @ \ {a}]
  <2>1. PICK f \in {Facts} :
          \E k \in {AttributeClientUpdateKey(f, a)} \ {NoKey} :
          \E staged \in {RemovalStagedHash(f, a, k, vouched)} :
          \E s \in signers \ {a} :
             Publish(SignedBy(s, [Now EXCEPT !.ukeys = @ \ {k},
                                             !.hashes = Without(@, {k} \cup staged),
                                             !.clients = @ \ {a}], <<>>))
    BY DEF RemoveClient
  <2>2. PICK k, staged, s :
          /\ s \in signers
          /\ Publish(SignedBy(s, [Now EXCEPT !.ukeys = @ \ {k},
                                             !.hashes = Without(@, {k} \cup staged),
                                             !.clients = @ \ {a}], <<>>))
    BY <2>1
  <2>3. PICK out : out = {k} \cup staged
    OBVIOUS
  <2>4. PICK e : e = [Now EXCEPT !.ukeys = @ \ {k}, !.hashes = Without(@, out),
                                 !.clients = @ \ {a}]
    OBVIOUS
  <2>5. s \in Signer /\ Publish(SignedBy(s, e, <<>>))
    BY <2>2, <2>3, <2>4
  <2> QED
    BY <2>4, <2>5, Zenon
<1>3. PICK s \in Client \cup Unlock : s = b /\ (s \in Unlock => Named(log, s))
  BY <1>1, <1>2, SignerIs
<1>4. PICK w \in Seq(Key) : /\ w = Without(Now.hashes, out)
                            /\ ToSet(w) = ToSet(Now.hashes) \ out
  BY <1>1, WithoutIs DEF Entry
<1>5. /\ e \in Draft /\ e.creds \subseteq Now.creds /\ e.ukeys \subseteq Now.ukeys
      /\ e.hashes = w
  BY <1>1, <1>2, <1>4 DEF Entry, Draft
<1>6. Modest(e)
  BY <1>4, <1>5, ModestHead
<1>7. PICK cs \in Seq(Key) : cs = <<>> /\ NoCodes(cs)
  BY NoCommits
<1>8. Publish(SignedBy(s, e, cs))
  BY <1>2, <1>3, <1>7
<1>9. PlainGrowth
  BY <1>3, <1>5, <1>6, <1>7, <1>8, SignedPlain
<1> QED
  BY <1>9, IdleKeeps DEF RemoveClient

\* RevokeClient.
LEMMA RevokeKeeps ==
    ASSUME LadderInv, NEW a \in Client, RevokeClient(a)
    PROVE  LadderInv'
<1>1. RemoveClient(Signer, a, {}) /\ Signer \in SUBSET Signer
  BY DEF RevokeClient
<1> QED
  BY <1>1, RemoveClientKeeps

\* ForgetClient.
LEMMA ForgetKeeps ==
    ASSUME LadderInv, NEW c \in Unlock, NEW a \in Client, ForgetClient(c, a)
    PROVE  LadderInv'
<1>1. PICK vouched : RemoveClient({c}, a, vouched) /\ {c} \in SUBSET Signer
  BY DEF ForgetClient
<1> QED
  BY <1>1, RemoveClientKeeps

\* RotateUpdateKey.
LEMMA RotateKeeps ==
    ASSUME LadderInv, NEW a \in Client, RotateUpdateKey(a)
    PROVE  LadderInv'
<1>1. Now \in Entry /\ TypeOK
  BY HeadIs DEF LadderInv
<1>2. PICK n \in Nat : n = active[a]
  BY <1>1 DEF TypeOK
<1>3. PICK k \in Key, k1 \in Key, k2 \in Key :
        k = Rung(a, n) /\ k1 = Rung(a, n + 1) /\ k2 = Rung(a, n + 2)
  <2>1. n + 1 \in Nat /\ n + 2 \in Nat
    BY <1>2
  <2> QED
    BY <1>2, <2>1, RungTyped
<1>4. PICK v \in Seq(Key) : /\ v = Without(Now.hashes, {k})
                            /\ ToSet(v) = ToSet(Now.hashes) \ {k}
  BY <1>1, WithoutIs DEF Entry
<1>5. PICK u \in Seq(Key) : u = <<k2>> /\ ToSet(u) = {k2}
  <2>1. <<k2>> \in Seq(Key) /\ ToSet(<<k2>>) = {k2}
    BY DEF ToSet
  <2> QED
    BY <2>1
<1>6. PICK w \in Seq(Key) : w = Joined(v, u) /\ ToSet(w) = ToSet(v) \cup {k2}
  <2>1. Joined(v, u) \in Seq(Key) /\ ToSet(Joined(v, u)) = ToSet(v) \cup ToSet(u)
    BY JoinedIs
  <2> QED
    BY <1>5, <2>1
<1>7. PICK e : e = [Now EXCEPT !.ukeys = (@ \ {k}) \cup {k1}, !.hashes = w, !.by = k1]
  OBVIOUS
<1>8. Publish(e) /\ k1 \in ToSet(Now.hashes)
  BY <1>2, <1>3, <1>4, <1>5, <1>6, <1>7 DEF RotateUpdateKey
<1>9. /\ e \in Entry /\ e.creds = Now.creds /\ e.hashes = w
      /\ e.ukeys = (Now.ukeys \ {k}) \cup {k1}
  BY <1>1, <1>7 DEF Entry
<1>10. Grown(e)
  BY <1>8, <1>9 DEF Publish, Grown
<1>11. Spares(job, e)
  <2>1. \A x : Rung(x, 0) # k1
    BY <1>2, <1>3 DEF Rung
  <2> QED
    BY <1>9, <2>1, HeadSpares DEF Spares
<1>12. ASSUME NEW c \in Code PROVE Quiet(log, e, c)
  <2>1. Rung(c, 0) # k2
    BY <1>2, <1>3 DEF Rung
  <2> QED
    BY <1>4, <1>6, <1>9, <2>1 DEF Quiet, Now
<1>13. PlainGrowth
  BY <1>10, <1>11, <1>12 DEF Plain, PlainGrowth
<1>14. Tidy /\ JobsMove /\ report' = report
  BY <1>1, <1>2 DEF Tidy, JobsMove, TypeOK, RotateUpdateKey
<1> QED
  BY <1>13, <1>14, GrowthKeeps

\* OnCommitted, Conflict and Crash move one ceremony and publish nothing.
LEMMA AdvanceMoves ==
    ASSUME LadderInv, NEW x \in Successor, NEW j \in Job, job[x].kind # "none",
           Moves(job[x], j), job' = [job EXCEPT ![x] = j],
           UNCHANGED <<log, active, recorded, retired, unclaimed, report>>
    PROVE  LadderInv'
<1>1. TypeOK
  BY DEF LadderInv
<1>2. Tidy /\ JobsMove /\ report' = report /\ log' = log
  BY <1>1 DEF Tidy, JobsMove, TypeOK
<1> QED
  BY <1>2, StillKeeps

\* OnCommitted.
LEMMA OnCommittedKeeps ==
    ASSUME LadderInv, NEW x \in Successor, OnCommitted(x)
    PROVE  LadderInv'
<1>1. job[x] \in Job /\ job[x].stage = "committed" /\ job[x].kind # "none"
  BY DEF LadderInv, TypeOK, OnCommitted
<1>2. PICK j : j = [job[x] EXCEPT !.stage = "persisted", !.saved = TRUE]
  OBVIOUS
<1>3. j \in Job /\ Moves(job[x], j)
  BY <1>1, <1>2 DEF Job, Stage, Moves
<1>4. job' = [job EXCEPT ![x] = j]
  BY <1>2 DEF OnCommitted
<1>5. UNCHANGED <<log, active, recorded, retired, unclaimed, report>>
  BY DEF OnCommitted
<1> QED
  BY <1>1, <1>3, <1>4, <1>5, AdvanceMoves

\* Conflict.
LEMMA ConflictKeeps ==
    ASSUME LadderInv, NEW x \in Successor, Conflict(x)
    PROVE  LadderInv'
<1>1. job[x] \in Job /\ job[x].stage = "persisted" /\ ShapeOK(log, job[x])
  BY DEF LadderInv, TypeOK, Conflict, JobsInv, Shaped
<1>2. PICK j : j = [job[x] EXCEPT !.stage = "reveal", !.head = 0]
  OBVIOUS
<1>3. j \in Job /\ Moves(job[x], j) /\ job[x].kind # "none"
  <2>1. job[x].kind # "none"
    BY <1>1 DEF ShapeOK, NoJob
  <2> QED
    BY <1>1, <1>2, <2>1 DEF Job, Stage, Moves
<1>4. job' = [job EXCEPT ![x] = j]
  BY <1>2 DEF Conflict, Advance
<1>5. UNCHANGED <<log, active, recorded, retired, unclaimed, report>>
  BY DEF Conflict
<1> QED
  BY <1>3, <1>4, <1>5, AdvanceMoves

\* Crash.
LEMMA CrashKeeps ==
    ASSUME LadderInv, NEW x \in Successor, Crash(x)
    PROVE  LadderInv'
<1>1. /\ job[x] \in Job /\ job[x].stage \in {"committed", "persisted"}
      /\ ShapeOK(log, job[x])
  BY DEF LadderInv, TypeOK, Crash, JobsInv, Shaped
<1>2. PICK t : t = (IF job[x].saved THEN "reveal" ELSE "lost")
  OBVIOUS
<1>3. PICK j : j = [job[x] EXCEPT !.stage = t, !.head = 0]
  OBVIOUS
<1>4. j \in Job /\ Moves(job[x], j) /\ job[x].kind # "none"
  <2>1. job[x].kind # "none"
    BY <1>1 DEF ShapeOK, NoJob
  <2>2. t \in Stage /\ t \notin {"done", "committed", "persisted"}
    BY <1>2 DEF Stage
  <2>3. /\ j.kind = job[x].kind /\ j.by = job[x].by /\ j.stage = t
        /\ j.replacement = job[x].replacement /\ j \in Job
    BY <1>1, <1>3, <2>2 DEF Job
  <2> QED
    BY <1>1, <2>1, <2>2, <2>3 DEF Moves
<1>5. job' = [job EXCEPT ![x] = j]
  BY <1>2, <1>3 DEF Crash, Advance
<1>6. UNCHANGED <<log, active, recorded, retired, unclaimed, report>>
  BY DEF Crash
<1> QED
  BY <1>4, <1>5, <1>6, AdvanceMoves

\* An enrollment moves: its own record changes, and the log at most by a plain
\* entry.
LEMMA EnrollKeeps ==
    ASSUME LadderInv, NEW a \in Client, NEW j \in Job, job[a].kind # "spend",
           j.kind \in {"selfEnroll", "enroll"}, ShapeOK(log, j),
           job' = [job EXCEPT ![a] = j], log' = log \/ PlainGrowth,
           Tidy, report' = report
    PROVE  LadderInv'
<1>1. TypeOK /\ a \in Successor
  BY DEF LadderInv, Successor
<1>2. ShapeOK(log', j)
  <2>1. CASE log' = log
    BY <2>1
  <2>2. CASE PlainGrowth
    <3>1. PICK e : Grown(e)
      BY <2>2 DEF PlainGrowth
    <3>2. log \in Seq(Entry) /\ e \in Entry /\ Extended(log, e, log')
      BY <1>1, <3>1, GrownExtends
    <3> QED
      BY <3>2, ShapeKept
  <2> QED
    BY <2>1, <2>2
<1>3. JobsMove
  <2>1. ASSUME NEW x \in Successor
        PROVE  job'[x] = job[x] \/ Enrolls(log', job[x], job'[x])
    BY <1>1, <1>2 DEF TypeOK, Enrolls
  <2> QED
    BY <1>1, <2>1 DEF TypeOK, JobsMove
<1>4. CASE log' = log
  BY <1>3, <1>4, StillKeeps
<1>5. CASE PlainGrowth
  BY <1>3, <1>5, GrowthKeeps
<1> QED
  BY <1>4, <1>5

\* A key read at the head, and the number of the one that follows it.
LEMMA NextRung ==
    ASSUME TypeOK, NEW c \in Unlock
    PROVE  \E n \in Nat : n = AttributeLadderRung(c, Now).rung[2]
<1>1. Now \in Entry
  BY HeadIs
<1>2. PICK k : k = AttributeLadderRung(c, Now).rung
  OBVIOUS
<1>3. k = NoKey \/ k \in Key
  <2>1. k = NoKey \/ k \in Now.ukeys \cup ToSet(Now.hashes)
    BY <1>2, RungIs
  <2> QED
    BY <1>1, <2>1 DEF Entry, ToSet
<1>4. k[2] \in Nat
  BY <1>3 DEF NoKey, Key
<1> QED
  BY <1>2, <1>4

\* SelfEnrollReveal.
LEMMA SelfEnrollRevealKeeps ==
    ASSUME LadderInv, NEW c \in Unlock, NEW a \in Client, SelfEnrollReveal(c, a)
    PROVE  LadderInv'
<1>1. Now \in Entry /\ TypeOK /\ Now = log[Len(log)] /\ Len(log) \in DOMAIN log
  BY HeadIs DEF LadderInv
<1>2. PICK n \in Nat : n = AttributeLadderRung(c, Now).rung[2]
  BY <1>1, NextRung
<1>3. PICK cs : cs = <<Rung(a, 0), Rung(a, 1), Rung(c, n + 1)>>
  OBVIOUS
<1>4. PICK j0 : j0 = [kind |-> "selfEnroll", by |-> c, replacement |-> "none",
                      stage |-> "reveal", head |-> 0, saved |-> job[a].saved]
  OBVIOUS
<1>5. /\ \/ Unused(a) /\ c \in Now.creds
         \/ job[a].kind = "selfEnroll" /\ job[a].by = c
      /\ UNCHANGED log \/ Publish(SignedBy(c, Now, cs))
      /\ job' = [job EXCEPT ![a] = [j0 EXCEPT !.stage = "committed",
                                             !.head = Len(log')]]
      /\ UNCHANGED <<active, recorded, retired, unclaimed, report>>
  BY <1>2, <1>3, <1>4 DEF SelfEnrollReveal, Committed, EnrollmentCommits
<1>6. Named(log, c) /\ job[a].kind # "spend" /\ a \in Successor
  <2>1. a \in Successor /\ ShapeOK(log, job[a])
    BY DEF Successor, LadderInv, JobsInv, Shaped
  <2>2. CASE Unused(a) /\ c \in Now.creds
    BY <1>1, <2>1, <2>2 DEF Unused, NoJob, Named
  <2>3. CASE job[a].kind = "selfEnroll" /\ job[a].by = c
    BY <2>1, <2>3 DEF ShapeOK
  <2> QED
    BY <1>5, <2>1, <2>2, <2>3
<1>7. cs \in Seq(Key) /\ NoCodes(cs)
  <2>1. /\ Rung(a, 0) \in Key /\ Rung(a, 1) \in Key /\ Rung(c, n + 1) \in Key
        /\ \A d \in Code : Rung(d, 0) \notin {Rung(a, 0), Rung(a, 1), Rung(c, n + 1)}
    BY <1>2, Kinds DEF Rung, Key
  <2>2. ToSet(cs) = {Rung(a, 0), Rung(a, 1), Rung(c, n + 1)}
    BY <1>3 DEF ToSet
  <2> QED
    BY <1>3, <2>1, <2>2 DEF NoCodes
<1>8. log' = log \/ PlainGrowth
  <2>1. Now \in Draft /\ Modest(Now)
    BY <1>1, ModestHead DEF Entry, Draft
  <2>2. CASE Publish(SignedBy(c, Now, cs))
    <3>1. PICK e \in Draft : e = Now /\ Modest(e)
      BY <2>1
    <3> QED
      BY <1>6, <1>7, <2>2, <3>1, SignedPlain
  <2> QED
    BY <1>5, <2>2
<1>9. Len(log') \in Nat
  BY <1>1, <1>8, GrownExtends DEF PlainGrowth, TypeOK
<1>10. PICK j : j = [j0 EXCEPT !.stage = "committed", !.head = Len(log')]
  OBVIOUS
<1>11. /\ j \in Job /\ j.kind = "selfEnroll" /\ j.by = c
  BY <1>1, <1>4, <1>6, <1>9, <1>10, Kinds DEF Job, Stage, TypeOK
<1>12. ShapeOK(log, j)
  BY <1>6, <1>11 DEF ShapeOK
<1>13. Tidy /\ report' = report
  BY <1>1, <1>5 DEF Tidy, TypeOK
<1> QED
  BY <1>5, <1>6, <1>8, <1>10, <1>11, <1>12, <1>13, EnrollKeeps

\* EnrollCommit.
LEMMA EnrollCommitKeeps ==
    ASSUME LadderInv, NEW s \in Unlock \cup Client, NEW a \in Client,
           EnrollCommit(s, a)
    PROVE  LadderInv'
<1>1. Now \in Entry /\ TypeOK
  BY HeadIs DEF LadderInv
<1>2. PICK cs : /\ cs \in {<<Rung(a, 0), Rung(a, 1)>>, <<>>}
                /\ s \in Signer
                /\ Unused(a) \/ job[a].kind = "enroll"
                /\ UNCHANGED log \/ Publish(SignedBy(s, Now, cs))
                /\ UNCHANGED <<active, recorded, retired, unclaimed, report>>
  BY DEF EnrollCommit, Committed
<1>3. PICK j0 : /\ j0 = [kind |-> "enroll", by |-> s, replacement |-> "none",
                        stage |-> "reveal", head |-> 0, saved |-> TRUE]
                /\ job' = [job EXCEPT ![a] = [j0 EXCEPT !.stage = "committed",
                                                        !.head = Len(log')]]
  BY DEF EnrollCommit, Committed
<1>4. job[a].kind # "spend" /\ a \in Successor
  BY <1>2 DEF Unused, NoJob, Successor
<1>5. s \in Client \cup Unlock /\ (s \in Unlock => Named(log, s))
  BY <1>1, <1>2, SignerIs
<1>6. cs \in Seq(Key) /\ NoCodes(cs)
  <2>1. /\ Rung(a, 0) \in Key /\ Rung(a, 1) \in Key
        /\ \A d \in Code : Rung(d, 0) \notin {Rung(a, 0), Rung(a, 1)}
    BY Kinds DEF Rung, Key
  <2>2. CASE cs = <<Rung(a, 0), Rung(a, 1)>>
    <3>1. ToSet(cs) = {Rung(a, 0), Rung(a, 1)}
      BY <2>2 DEF ToSet
    <3> QED
      BY <2>1, <2>2, <3>1 DEF NoCodes
  <2>3. CASE cs = <<>>
    BY <2>3, NoCommits
  <2> QED
    BY <1>2, <2>2, <2>3
<1>7. log' = log \/ PlainGrowth
  <2>1. PICK e \in Draft : e = Now /\ Modest(e)
    BY <1>1, ModestHead DEF Entry, Draft
  <2>2. CASE Publish(SignedBy(s, Now, cs))
    BY <1>5, <1>6, <2>1, <2>2, SignedPlain
  <2> QED
    BY <1>2, <2>2
<1>8. Len(log') \in Nat
  BY <1>1, <1>7, GrownExtends DEF PlainGrowth, TypeOK
<1>9. PICK j : j = [j0 EXCEPT !.stage = "committed", !.head = Len(log')]
  OBVIOUS
<1>10. j \in Job /\ j.kind = "enroll" /\ j.by = s
  BY <1>3, <1>8, <1>9, Kinds DEF Job, Stage
<1>11. ShapeOK(log, j)
  BY <1>5, <1>10 DEF ShapeOK
<1>12. Tidy /\ report' = report
  BY <1>1, <1>2 DEF Tidy, TypeOK
<1> QED
  BY <1>3, <1>4, <1>7, <1>9, <1>10, <1>11, <1>12, EnrollKeeps

\* EnrollAdd.
LEMMA EnrollAddKeeps ==
    ASSUME LadderInv, NEW a \in Client, EnrollAdd(a)
    PROVE  LadderInv'
<1>1. Now \in Entry /\ TypeOK
  BY HeadIs DEF LadderInv
<1>2. PICK b : b = job[a].by /\ b \in Signer
  BY DEF EnrollAdd
<1>3. PICK s \in Client \cup Unlock : s = b /\ (s \in Unlock => Named(log, s))
  BY <1>1, <1>2, SignerIs
<1>4. PICK e : e = [Now EXCEPT !.ukeys = @ \cup {Rung(a, 0)}, !.clients = @ \cup {a}]
  OBVIOUS
<1>5. PICK cs \in Seq(Key) : cs = <<>> /\ NoCodes(cs)
  BY NoCommits
<1>6. PICK j : j = [job[a] EXCEPT !.stage = "done", !.head = 0]
  OBVIOUS
<1>7. /\ job[a].kind = "enroll" /\ Publish(SignedBy(s, e, cs))
      /\ job' = [job EXCEPT ![a] = j]
      /\ UNCHANGED <<active, recorded, retired, unclaimed, report>>
  BY <1>2, <1>3, <1>4, <1>5, <1>6 DEF EnrollAdd, Advance
<1>8. a \in Successor /\ ShapeOK(log, job[a])
  BY DEF Successor, LadderInv, JobsInv, Shaped
<1>9. /\ e \in Draft /\ e.creds = Now.creds /\ e.hashes = Now.hashes
      /\ e.ukeys = Now.ukeys \cup {Rung(a, 0)}
  <2>1. Rung(a, 0) \in Key
    BY DEF Rung, Key
  <2> QED
    BY <1>1, <1>4, <2>1 DEF Entry, Draft
<1>10. Modest(e)
  <2>1. a \notin Live(job)
    BY <1>7 DEF Live, Spends
  <2>2. \A x \in Live(job) : Rung(x, 0) # Rung(a, 0)
    BY <2>1 DEF Rung
  <2> QED
    BY <1>9, <2>2, HeadSpares DEF Modest, Spares
<1>11. PlainGrowth
  BY <1>3, <1>5, <1>7, <1>9, <1>10, SignedPlain
<1>12. j \in Job /\ j.kind = "enroll" /\ j.by = job[a].by
  BY <1>1, <1>6, <1>7, <1>8 DEF Job, Stage, TypeOK
<1>13. ShapeOK(log, j)
  BY <1>7, <1>8, <1>12 DEF ShapeOK
<1>14. Tidy /\ report' = report
  BY <1>1, <1>7 DEF Tidy, TypeOK
<1> QED
  BY <1>7, <1>11, <1>12, <1>13, <1>14, EnrollKeeps

\* SelfEnrollAdd.
LEMMA SelfEnrollAddKeeps ==
    ASSUME LadderInv, NEW a \in Client, SelfEnrollAdd(a)
    PROVE  LadderInv'
<1>1. Now \in Entry /\ TypeOK
  BY HeadIs DEF LadderInv
<1>2. a \in Successor /\ ShapeOK(log, job[a]) /\ job[a].kind = "selfEnroll"
  BY DEF Successor, LadderInv, JobsInv, Shaped, SelfEnrollAdd
<1>3. PICK c \in Unlock : c = job[a].by
  BY <1>2 DEF ShapeOK
<1>4. PICK k : k = AttributeLadderRung(c, Now).rung
  OBVIOUS
<1>5. PICK w \in Seq(Key) : /\ w = Without(Now.hashes, {k})
                            /\ ToSet(w) = ToSet(Now.hashes) \ {k}
  BY <1>1, WithoutIs DEF Entry
<1>6. PICK e : e = [Now EXCEPT !.ukeys = (@ \ {k}) \cup {Rung(a, 0)}, !.hashes = w,
                               !.clients = @ \cup {a}, !.by = Rung(a, 0)]
  OBVIOUS
<1>7. PICK j : j = [job[a] EXCEPT !.stage = "done", !.head = 0]
  OBVIOUS
<1>8. /\ Publish(e) /\ job' = [job EXCEPT ![a] = j]
      /\ recorded' \in {recorded, [recorded EXCEPT ![c] = k[2] + 1]}
      /\ UNCHANGED <<active, retired, unclaimed, report>>
  BY <1>3, <1>4, <1>5, <1>6, <1>7 DEF SelfEnrollAdd, Advance
<1>9. /\ e \in Entry /\ e.creds = Now.creds /\ e.hashes = w
      /\ e.ukeys = (Now.ukeys \ {k}) \cup {Rung(a, 0)}
  <2>1. Rung(a, 0) \in Key
    BY DEF Rung, Key
  <2> QED
    BY <1>1, <1>6, <2>1 DEF Entry
<1>10. Grown(e)
  BY <1>8, <1>9 DEF Publish, Grown
<1>11. Spares(job, e)
  <2>1. a \notin Live(job)
    BY <1>2 DEF Live, Spends
  <2>2. \A x \in Live(job) : Rung(x, 0) # Rung(a, 0)
    BY <2>1 DEF Rung
  <2> QED
    BY <1>9, <2>2, HeadSpares DEF Spares
<1>12. \A c1 \in Code : Quiet(log, e, c1)
  BY <1>5, <1>9 DEF Quiet, Now
<1>13. PlainGrowth
  BY <1>10, <1>11, <1>12 DEF Plain, PlainGrowth
<1>14. j \in Job /\ j.kind = "selfEnroll" /\ j.by = job[a].by
  BY <1>1, <1>2, <1>7 DEF Job, Stage, TypeOK
<1>15. ShapeOK(log, j)
  BY <1>2, <1>14 DEF ShapeOK
<1>16. Tidy /\ report' = report
  <2>1. k[2] + 1 \in Nat
    BY <1>1, <1>4, NextRung
  <2>2. recorded' \in [Credential -> Nat]
    BY <1>1, <1>8, <2>1, Kinds DEF TypeOK
  <2> QED
    BY <1>1, <1>8, <2>2 DEF Tidy, TypeOK
<1> QED
  BY <1>2, <1>8, <1>13, <1>14, <1>15, <1>16, EnrollKeeps

\* A fresh name is nowhere in the log.
LEMMA UnusedIs ==
    ASSUME LadderInv, NEW x, Unused(x)
    PROVE  ~Named(log, x) /\ ~Placed(log, Rung(x, 0)) /\ Untouched(log, x)
<1>1. \A i \in DOMAIN log : /\ x \notin log[i].creds
                            /\ \A k \in ToSet(log[i].hashes) : Owner(k) # x
  BY DEF Unused
<1>2. Owner(Rung(x, 0)) = x
  BY DEF Owner, Rung
<1>3. \A i \in DOMAIN log : Rung(x, 0) \notin ToSet(log[i].hashes)
  BY <1>1, <1>2
<1>4. ASSUME NEW i \in DOMAIN log PROVE Rung(x, 0) \notin log[i].ukeys
  <2>1. KeysCame(log) /\ log \in Seq(Entry)
    BY HeadIs DEF LadderInv, LogInv
  <2>2. 1..i \subseteq DOMAIN log
    BY <2>1
  <2> QED
    BY <1>3, <2>1, <2>2 DEF KeysCame
<1> QED
  BY <1>1, <1>3, <1>4 DEF Named, Placed, Came, Untouched

\* PublishRecoveryKey. In the half that adds the authority, a code that stands
\* as a replacement is found anchored, and nothing is committed for it.
LEMMA IssueKeeps ==
    ASSUME LadderInv, NEW s \in Unlock \cup Client, NEW c \in Code,
           PublishRecoveryKey(s, c)
    PROVE  LadderInv'
<1>1. /\ Now \in Entry /\ TypeOK /\ log \in Seq(Entry) /\ Now = Latest(log)
      /\ Now = log[Len(log)] /\ Len(log) \in DOMAIN log
  BY HeadIs DEF LadderInv, Now
<1>2. PICK e, cs :
        /\ s \in Signer /\ (Unused(c) \/ c \in Now.creds)
        /\ Publish(SignedBy(s, e, cs)) /\ cs \in {<<Rung(c, 0)>>, <<>>}
        /\ \/ e.creds = Now.creds \/ e.creds = Now.creds \cup {c}
        /\ e \in Draft /\ e.hashes = Now.hashes /\ e.ukeys = Now.ukeys
        /\ CredentialLadderAnchored(Facts, c) /\ c \in Now.creds => cs = <<>>
        /\ UNCHANGED <<active, recorded, job, retired, unclaimed, report>>
  <2>1. PICK part \in {"all", "key", "authority"} : PublishUnlockKey(s, c, part)
    BY DEF PublishRecoveryKey
  <2>2. PICK key, authority : /\ key = (part \in {"all", "key"})
                              /\ authority = (part \in {"all", "authority"})
    OBVIOUS
  <2>3. PICK e : e = BoundFields(c, key, authority)
    OBVIOUS
  <2>4. /\ e \in Draft /\ e.hashes = Now.hashes /\ e.ukeys = Now.ukeys
        /\ e.creds = Now.creds \/ e.creds = Now.creds \cup {c}
    BY <1>1, <2>3, Kinds DEF BoundFields, Entry, Draft
  <2>5. PICK cs : /\ Publish(SignedBy(s, e, cs))
                  /\ cs \in {<<Rung(c, 0)>>, <<>>}
                  /\ CredentialLadderAnchored(Facts, c) /\ c \in Now.creds
                       => cs = <<>>
    BY <2>1, <2>2, <2>3 DEF PublishUnlockKey
  <2> QED
    BY <2>1, <2>4, <2>5 DEF PublishUnlockKey
<1>3. s \in Client \cup Unlock /\ (s \in Unlock => Named(log, s))
  BY <1>1, <1>2, SignerIs
<1>4. cs \in Seq(Key) /\ ToSet(cs) \subseteq {Rung(c, 0)}
  <2>1. CASE cs = <<Rung(c, 0)>>
    BY <2>1, Kinds DEF Rung, Key, ToSet
  <2>2. CASE cs = <<>>
    BY <2>2 DEF ToSet
  <2> QED
    BY <1>2, <2>1, <2>2
<1>5. PICK r : r = SignedBy(s, e, cs)
  OBVIOUS
<1>6. Signed(s, e, cs, r)
  BY <1>1, <1>2, <1>3, <1>4, <1>5, SignedIs DEF Publish
<1>7. Grown(r)
  BY <1>2, <1>5, <1>6 DEF Publish, Signed, Grown
<1>8. Extended(log, r, log') /\ r \in Entry
  BY <1>1, <1>7, GrownExtends
<1>9. Spares(job, r)
  <2> SUFFICES ASSUME NEW x \in Live(job)
               PROVE  x \notin r.creds /\ Rung(x, 0) \notin r.ukeys
    BY DEF Spares
  <2>1. x \notin Now.creds /\ Rung(x, 0) \notin Now.ukeys
    BY HeadSpares DEF Spares
  <2>2. ~Named(log, x) /\ x \in Successor
    BY DEF LadderInv, JobsInv, Pending, Untouched, Named, Live, Spends
  <2>3. Owner(Rung(x, 0)) = x /\ x # c
    BY <2>2, Kinds DEF Owner, Rung
  <2>4. s \notin Client => x # s
    BY <1>3, <2>2
  <2>5. x \notin r.creds
    BY <1>2, <1>6, <2>1, <2>3 DEF Signed
  <2>6. Rung(x, 0) \notin r.ukeys
    BY <1>2, <1>6, <2>1, <2>3, <2>4 DEF Signed
  <2> QED
    BY <2>5, <2>6
<1>10. ASSUME NEW d \in Code
       PROVE  /\ Rung(d, 0) \in ToSet(r.hashes) =>
                   Rung(d, 0) \in ToSet(Now.hashes) \/ Rung(d, 0) \in ToSet(cs)
              /\ d # c => Rung(d, 0) \notin ToSet(cs)
  <2>1. Owner(Rung(d, 0)) = d /\ d # s
    BY Kinds DEF Owner, Rung
  <2>2. d # c => Rung(d, 0) # Rung(c, 0)
    BY DEF Rung
  <2> QED
    BY <1>2, <1>4, <1>6, <2>1, <2>2 DEF Signed
<1>11. ASSUME NEW d \in Code, d # c PROVE Quiet(log, r, d)
  BY <1>1, <1>2, <1>6, <1>10, <1>11 DEF Quiet, Signed
<1>12. c \in Now.creds /\ cs = <<>> => Quiet(log, r, c)
  <2>1. ToSet(<<>>) = {}
    BY DEF ToSet
  <2> QED
    BY <1>1, <1>10, <2>1 DEF Quiet
<1>13. ASSUME NEW d \in Code PROVE CodeAnchored(log', d)
  <2>1. CodeAnchored(log, d)
    BY DEF LadderInv, LogInv, CodesAnchored, CodeAnchored
  <2>2. CASE d # c
    BY <1>1, <1>8, <1>11, <2>1, <2>2, QuietAnchored
  <2>3. CASE d = c /\ Rung(c, 0) \in ToSet(r.hashes) \ ToSet(Now.hashes)
    <3>1. CASE c \in r.creds
      <4>1. CredsJoined(log)
        BY DEF LadderInv, LogInv
      <4>2. Anchored(log', c)
        BY <1>1, <1>8, <2>3, <3>1, <4>1, AnchoredStanding
      <4> QED
        BY <2>3, <4>2 DEF CodeAnchored
    <3>2. CASE c \notin r.creds
      <4>1. ~Named(log, c)
        BY <1>2, <1>6, <3>2, UnusedIs DEF Signed
      <4>2. ~Named(log', c)
        BY <1>1, <1>8, <3>2, <4>1, LongerComes
      <4> QED
        BY <2>3, <4>2 DEF CodeAnchored
    <3> QED
      BY <3>1, <3>2
  <2>4. CASE d = c /\ Rung(c, 0) \notin ToSet(r.hashes) \ ToSet(Now.hashes)
    <3>1. CASE c \in Now.creds
      <4>1. Quiet(log, r, c)
        BY <1>1, <2>4, <3>1 DEF Quiet
      <4> QED
        BY <1>1, <1>8, <2>1, <2>4, <4>1, QuietAnchored
    <3>2. CASE c \notin Now.creds
      <4>1. ~Placed(log, Rung(c, 0))
        BY <1>2, <3>2, UnusedIs
      <4>2. ~Placed(log', Rung(c, 0))
        BY <1>1, <1>8, <2>4, <4>1, LongerComes
      <4> QED
        BY <2>4, <4>2 DEF CodeAnchored
    <3> QED
      BY <3>1, <3>2
  <2> QED
    BY <2>2, <2>3, <2>4
<1>14. ASSUME NEW y \in Spends(job)
       PROVE  Fits(log, r, job[y].by, job[y].replacement)
  <2>1. PICK code, t : code = job[y].by /\ t = job[y].replacement
    OBVIOUS
  <2>2. t \in Code /\ y \in Successor /\ ReservedFor(log, job, code, t)
    BY <2>1 DEF LadderInv, JobsInv, Shaped, ShapeOK, Spends, Reserved
  <2>3. CASE t # c
    <3>1. Fits(log, r, code, t)
      BY <1>11, <2>2, <2>3, QuietFits
    <3> QED
      BY <2>1, <3>1
  <2>4. CASE t = c
    <3>1. c \in Now.creds
      BY <1>2, <2>1, <2>2, <2>4 DEF Unused
    <3>2. Named(log, c)
      BY <1>1, <3>1 DEF Named
    <3>3. Anchored(log, c)
      BY <2>2, <2>4, <3>2 DEF ReservedFor, LadderInv, LogInv, CodesAnchored
    <3>4. CredentialLadderAnchored(Facts, c)
      BY <1>1, <3>3, AnchoredIs DEF Facts
    <3>5. Quiet(log, r, c)
      BY <1>2, <1>12, <3>1, <3>4
    <3>6. Fits(log, r, code, t)
      BY <2>4, <3>5, QuietFits
    <3> QED
      BY <2>1, <3>6
  <2> QED
    BY <2>3, <2>4
<1>15. Tidy /\ JobsMove /\ report' = report
  BY <1>1, <1>2 DEF Tidy, JobsMove, TypeOK
<1> QED
  BY <1>7, <1>9, <1>13, <1>14, <1>15, GrowKeeps

-----------------------------------------------------------------------------
(* The spends: the ceremonies without one of them, and that one put back. *)

\* Without the ceremony of one successor the rest stands as it stood.
LEMMA DropSpend ==
    ASSUME TypeOK, NEW x \in Successor, JobsInv(log, job), Reported(log, job, report),
           NEW js, js = [job EXCEPT ![x] = NoJob],
           NEW reps, \A y \in Successor \ {x} : reps[y] = report[y]
    PROVE  /\ js \in [Successor -> Job] /\ JobsInv(log, js) /\ js[x] = NoJob
           /\ Reported(log, js, reps)
           /\ Spends(js) = Spends(job) \ {x} /\ Live(js) = Live(job) \ {x}
           /\ \A y \in Successor \ {x} : js[y] = job[y]
<1>1. job \in [Successor -> Job] /\ NoJob \in Job
  BY DEF TypeOK, NoJob, Job, Stage
<1>2. /\ js \in [Successor -> Job] /\ js[x] = NoJob
      /\ \A y \in Successor \ {x} : js[y] = job[y]
  BY <1>1
<1>3. NoJob.kind # "spend"
  BY DEF NoJob
<1>4. Spends(js) = Spends(job) \ {x}
  BY <1>2, <1>3 DEF Spends
<1>5. Live(js) = Live(job) \ {x}
  BY <1>2, <1>4 DEF Live, Spends
<1>6. \A y \in Spends(js) : y \in Spends(job) /\ y \in Successor \ {x} /\ js[y] = job[y]
  BY <1>2, <1>4 DEF Spends
<1>7. Shaped(log, js)
  <2>1. ShapeOK(log, NoJob)
    BY DEF ShapeOK, NoJob
  <2> QED
    BY <1>2, <2>1 DEF JobsInv, Shaped
<1>8. Reserved(log, js)
  <2> SUFFICES ASSUME NEW y \in Spends(js)
               PROVE  ReservedFor(log, js, js[y].by, js[y].replacement)
    BY DEF Reserved
  <2>1. PICK code, r : code = job[y].by /\ r = job[y].replacement
    OBVIOUS
  <2>2. ReservedFor(log, job, code, r)
    BY <1>6, <2>1 DEF JobsInv, Reserved
  <2>3. OneCode(js, code, r)
    BY <1>6, <2>2 DEF ReservedFor, OneCode
  <2> QED
    BY <1>6, <2>1, <2>2, <2>3 DEF ReservedFor
<1>9. Pending(log, js)
  BY <1>5 DEF JobsInv, Pending
<1>10. Held(log, js)
  BY <1>5, <1>6 DEF JobsInv, Held, Live
<1>11. Reported(log, js, reps)
  <2> SUFFICES ASSUME NEW y \in Spends(js) \ Live(js)
               PROVE  ReadsBack(log, y, js[y], reps[y])
    BY DEF Reported
  <2>1. y \in Spends(job) \ Live(job) /\ js[y] = job[y] /\ reps[y] = report[y]
    BY <1>5, <1>6
  <2> QED
    BY <2>1 DEF Reported
<1> QED
  BY <1>2, <1>4, <1>5, <1>7, <1>8, <1>9, <1>10, <1>11 DEF JobsInv

\* What a spend has to be to join the others.
SpendFits(l, x, k) ==
    /\ k.kind = "spend" /\ ShapeOK(l, k)
    /\ k.stage # "done" => Untouched(l, x) /\ Holds(l, k)

\* It joins them.
LEMMA PutSpend ==
    ASSUME NEW l, NEW js \in [Successor -> Job], JobsInv(l, js),
           NEW x \in Successor, js[x] = NoJob, NEW k \in Job, SpendFits(l, x, k),
           ReservedFor(l, js, k.by, k.replacement), NEW ks, ks = [js EXCEPT ![x] = k],
           NEW reps, Reported(l, js, reps),
           k.stage = "done" => ReadsBack(l, x, k, reps[x])
    PROVE  JobsInv(l, ks) /\ Reported(l, ks, reps)
<1>1. ks[x] = k /\ \A y \in Successor \ {x} : ks[y] = js[y]
  OBVIOUS
<1>2. Spends(ks) = Spends(js) \cup {x}
  BY <1>1 DEF Spends, SpendFits
<1>3. x \notin Spends(js)
  BY DEF Spends, NoJob
<1>4. /\ \A y \in Spends(ks) \ {x} : y \in Spends(js) /\ ks[y] = js[y]
      /\ \A y \in Live(ks) \ {x} : y \in Live(js) /\ ks[y] = js[y]
      /\ \A y \in (Spends(ks) \ Live(ks)) \ {x} : /\ y \in Spends(js) \ Live(js)
                                                   /\ ks[y] = js[y]
  BY <1>1, <1>2 DEF Live, Spends
<1>5. x \in Live(ks) <=> k.stage # "done"
  BY <1>1, <1>2 DEF Live
<1>6. Shaped(l, ks)
  BY <1>1 DEF JobsInv, Shaped, SpendFits
<1>7. Reserved(l, ks)
  <2> SUFFICES ASSUME NEW y \in Spends(ks)
               PROVE  ReservedFor(l, ks, ks[y].by, ks[y].replacement)
    BY DEF Reserved
  <2>1. PICK code, r : code = k.by /\ r = k.replacement
    OBVIOUS
  <2>2. ReservedFor(l, js, code, r)
    BY <2>1
  <2>3. CASE y = x
    <3>1. \A z \in Spends(js) : js[z].replacement = r => js[z].by = code
      BY <2>2 DEF OneCode, ReservedFor
    <3>2. \A z \in Spends(ks) : ks[z].replacement = r => ks[z].by = code
      BY <1>1, <1>4, <2>1, <3>1
    <3>3. OneCode(ks, code, r)
      BY <3>2 DEF OneCode
    <3> QED
      BY <1>1, <2>1, <2>2, <2>3, <3>3 DEF ReservedFor
  <2>4. CASE y # x
    <3>1. PICK d, t : d = js[y].by /\ t = js[y].replacement
      OBVIOUS
    <3>2. y \in Spends(js) /\ ks[y] = js[y]
      BY <1>4, <2>4
    <3>3. ReservedFor(l, js, d, t)
      BY <3>1, <3>2 DEF JobsInv, Reserved
    <3>4. t = r => d = code
      BY <2>2, <3>1, <3>2 DEF ReservedFor, OneCode
    <3>5. OneCode(ks, d, t)
      BY <1>1, <1>4, <2>1, <3>3, <3>4 DEF ReservedFor, OneCode
    <3> QED
      BY <3>1, <3>2, <3>3, <3>5 DEF ReservedFor
  <2> QED
    BY <2>3, <2>4
<1>8. Pending(l, ks)
  BY <1>4, <1>5 DEF JobsInv, Pending, SpendFits
<1>9. Held(l, ks)
  BY <1>1, <1>4, <1>5 DEF JobsInv, Held, SpendFits
<1>10. Reported(l, ks, reps)
  <2> SUFFICES ASSUME NEW y \in Spends(ks) \ Live(ks)
               PROVE  ReadsBack(l, y, ks[y], reps[y])
    BY DEF Reported
  <2>1. CASE y = x
    BY <1>1, <1>5, <2>1
  <2>2. CASE y # x
    <3>1. y \in Spends(js) \ Live(js) /\ ks[y] = js[y]
      BY <1>4, <2>2
    <3> QED
      BY <3>1 DEF Reported
  <2> QED
    BY <2>1, <2>2
<1> QED
  BY <1>6, <1>7, <1>8, <1>9, <1>10 DEF JobsInv

\* A spend that starts, or starts over, finds the code in the log, its
\* successor nowhere, and its replacement nobody else's.
LEMMA RevealFinds ==
    ASSUME LadderInv, NEW code \in Code, NEW r \in Code, NEW x \in Successor,
           SpendReveal(code, x, r), NEW js, js = [job EXCEPT ![x] = NoJob]
    PROVE  Named(log, code) /\ Untouched(log, x) /\ ReservedFor(log, js, code, r)
<1>1. TypeOK /\ Len(log) \in DOMAIN log /\ Now = log[Len(log)]
  BY HeadIs DEF LadderInv
<1>2. /\ Spends(js) = Spends(job) \ {x}
      /\ \A y \in Successor \ {x} : js[y] = job[y]
  BY <1>1, DropSpend DEF LadderInv
<1>3. \A y \in Spends(js) : y \in Spends(job) /\ y \in Successor /\ js[y] = job[y]
  BY <1>2 DEF Spends
<1>4. ASSUME NEW z \in Spends(job), job[z].by = code, job[z].replacement = r
      PROVE  ReservedFor(log, js, code, r)
  <2>1. ReservedFor(log, job, code, r)
    BY <1>4 DEF LadderInv, JobsInv, Reserved
  <2>2. OneCode(js, code, r)
    BY <1>3, <2>1 DEF ReservedFor, OneCode
  <2> QED
    BY <2>1, <2>2 DEF ReservedFor
<1>5. CASE Unused(x) /\ code \in Now.creds
  <2>1. Named(log, code)
    BY <1>1, <1>5 DEF Named
  <2>2. Untouched(log, x)
    BY <1>5, UnusedIs
  <2>3. CASE Unused(r)
    <3>1. ~Named(log, r) /\ ~Placed(log, Rung(r, 0))
      BY <2>3, UnusedIs
    <3>2. OneCode(js, code, r)
      BY <1>3, <2>3 DEF Unused, OneCode
    <3> QED
      BY <2>1, <2>2, <3>1, <3>2 DEF ReservedFor, Placed
  <2>4. CASE ~Unused(r)
    <3>1. PICK z \in Successor : /\ job[z].by = code /\ job[z].stage = "lost"
                                 /\ job[z].replacement = r
      <4>1. job[x] = NoJob
        BY <1>5 DEF Unused
      <4>2. job[x].kind # "spend"
        BY <4>1 DEF NoJob
      <4>3. r \in {job[y].replacement : y \in {z \in Successor :
                     job[z].by = code /\ job[z].stage = "lost"}}
        BY <2>4, <4>2 DEF SpendReveal
      <4> QED
        BY <4>3
    <3>2. ShapeOK(log, job[z]) /\ job[z] \in Job
      BY <1>1 DEF LadderInv, JobsInv, Shaped, TypeOK
    <3>3. job[z].kind = "spend"
      BY <3>1, <3>2, Kinds DEF ShapeOK, NoJob, Job
    <3>4. ReservedFor(log, js, code, r)
      BY <1>4, <3>1, <3>3 DEF Spends
    <3> QED
      BY <2>1, <2>2, <3>4
  <2> QED
    BY <2>3, <2>4
<1>6. CASE /\ job[x].kind = "spend" /\ job[x].stage = "reveal"
           /\ job[x].by = code /\ job[x].replacement = r
  <2>1. x \in Spends(job) /\ x \in Live(job)
    BY <1>6 DEF Spends, Live
  <2>2. Untouched(log, x)
    BY <2>1 DEF LadderInv, JobsInv, Pending
  <2>3. Named(log, code)
    BY <1>6 DEF LadderInv, JobsInv, Shaped, ShapeOK
  <2>4. ReservedFor(log, js, code, r)
    BY <1>4, <1>6, <2>1
  <2> QED
    BY <2>2, <2>3, <2>4
<1> QED
  BY <1>5, <1>6 DEF SpendReveal

\* What a spend commits.
LEMMA SpendCommitsIs ==
    ASSUME NEW x \in Successor, NEW r \in Code
    PROVE  /\ SpendCommits(x, r) \in Seq(Key)
           /\ ToSet(SpendCommits(x, r)) = {Rung(x, 0), Rung(x, 1), Rung(r, 0)}
           /\ {Rung(x, 0), Rung(x, 1), Rung(r, 0)} \subseteq Key
           /\ \A c \in Code : Rung(c, 0) \in {Rung(x, 0), Rung(x, 1), Rung(r, 0)}
                              => c = r
<1>1. x \in Credential \cup Client /\ r \in Credential /\ x \notin Code
  BY Kinds DEF Successor
<1>2. {Rung(x, 0), Rung(x, 1), Rung(r, 0)} \subseteq Key
  BY <1>1 DEF Rung, Key
<1>3. ToSet(SpendCommits(x, r)) = {Rung(x, 0), Rung(x, 1), Rung(r, 0)}
  BY DEF SpendCommits, ToSet
<1>4. \A c \in Code : Rung(c, 0) \in {Rung(x, 0), Rung(x, 1), Rung(r, 0)} => c = r
  BY <1>1 DEF Rung
<1> QED
  BY <1>2, <1>3, <1>4 DEF SpendCommits

\* The log that the reveal entry of a spend leaves to the other ceremonies js,
\* and what the spend may count on.
Ready(l, js, reps, x, code, r) ==
    /\ LogInv(l) /\ JobsInv(l, js) /\ Reported(l, js, reps)
    /\ Named(l, code) /\ Untouched(l, x) /\ ReservedFor(l, js, code, r)
    /\ Rung(code, 0) \in Latest(l).ukeys
    /\ Rung(r, 0) \in ToSet(Latest(l).hashes)

\* The reveal entry.
LEMMA RevealGrows ==
    ASSUME LadderInv, NEW code \in Code, NEW r \in Code, NEW x \in Successor,
           SpendReveal(code, x, r), NEW js, js = [job EXCEPT ![x] = NoJob],
           NEW e, e = Reveals(Rung(code, 0), Now, SpendCommits(x, r)), Publish(e)
    PROVE  Grown(e) /\ Ready(log', js, report, x, code, r)
<1>1. /\ TypeOK /\ LogInv(log) /\ Now \in Entry /\ Now = Latest(log) /\ log \in Seq(Entry)
      /\ Len(log) \in DOMAIN log /\ Now = log[Len(log)]
  BY HeadIs DEF LadderInv, Now
<1>2. /\ js \in [Successor -> Job] /\ JobsInv(log, js)
      /\ Reported(log, js, report) /\ Live(js) = Live(job) \ {x}
  BY <1>1, DropSpend DEF LadderInv
<1>3. Named(log, code) /\ Untouched(log, x) /\ ReservedFor(log, js, code, r)
  BY RevealFinds
<1>4. PICK k \in Key : k = Rung(code, 0)
  BY Kinds DEF Rung, Key
<1>5. PICK cs \in Seq(Key) : /\ cs = SpendCommits(x, r)
                             /\ ToSet(cs) = {Rung(x, 0), Rung(x, 1), Rung(r, 0)}
  BY SpendCommitsIs
<1>6. /\ e \in Entry /\ e.creds = Now.creds /\ e.by = k
      /\ e.ukeys = Now.ukeys \cup {k}
      /\ ToSet(e.hashes) = ToSet(Now.hashes) \cup {k} \cup ToSet(cs)
  <2>1. Now \in Draft
    BY <1>1 DEF Entry, Draft
  <2> QED
    BY <1>4, <1>5, <2>1, RevealsIs
<1>7. Grown(e)
  BY <1>6 DEF Publish, Grown
<1>8. Extended(log, e, log')
  BY <1>1, <1>7, GrownExtends
<1>9. k \in ToSet(Now.hashes)
  BY <1>4 DEF SpendReveal, Publish
<1>10. \A y \in Successor : Rung(y, 0) # k
  BY <1>4, Kinds DEF Rung
<1>11. Spares(js, e)
  BY <1>2, <1>6, <1>10, HeadSpares DEF Spares, Live, Spends
<1>12. ASSUME NEW d \in Code, d # r PROVE Quiet(log, e, d)
  BY <1>1, <1>5, <1>6, <1>9, <1>12, SpendCommitsIs DEF Quiet
<1>13. ASSUME NEW d \in Code PROVE CodeAnchored(log', d)
  <2>1. CodeAnchored(log, d)
    BY <1>1 DEF LogInv, CodesAnchored, CodeAnchored
  <2>2. CASE d # r
    BY <1>1, <1>6, <1>8, <1>12, <2>1, <2>2, QuietAnchored
  <2>3. CASE d = r
    <3> SUFFICES ASSUME Named(log', d) PROVE Anchored(log', d)
      BY DEF CodeAnchored
    <3>1. d \in Now.creds => Named(log, d)
      BY <1>1 DEF Named
    <3>2. Named(log, d)
      BY <1>1, <1>6, <1>8, <3>1, LongerComes
    <3>3. Anchored(log, d)
      BY <1>3, <2>1, <2>3, <3>2 DEF ReservedFor, CodeAnchored
    <3> QED
      BY <1>1, <1>6, <1>8, <3>3, AnchorKept
  <2> QED
    BY <2>2, <2>3
<1>14. Fits(log, e, code, r)
  BY <1>1, <1>4, <1>6 DEF Fits
<1>15. ASSUME NEW y \in Spends(js)
       PROVE  Fits(log, e, js[y].by, js[y].replacement)
  <2>1. PICK d, t : d = js[y].by /\ t = js[y].replacement
    OBVIOUS
  <2>2. t \in Code
    BY <1>2, <2>1 DEF JobsInv, Shaped, ShapeOK, Spends
  <2>3. CASE t = r
    <3>1. d = code
      BY <1>3, <2>1, <2>3 DEF ReservedFor, OneCode
    <3> QED
      BY <1>14, <2>1, <2>3, <3>1
  <2>4. CASE t # r
    <3>1. Fits(log, e, d, t)
      BY <1>12, <2>2, <2>4, QuietFits
    <3> QED
      BY <2>1, <3>1
  <2> QED
    BY <2>3, <2>4
<1>16. LogInv(log') /\ JobsInv(log', js) /\ Reported(log', js, report)
  BY <1>1, <1>2, <1>7, <1>11, <1>13, <1>15, GrowLog
<1>17. ReservedFor(log', js, code, r)
  <2>1. OneCode(js, code, r)
    BY <1>3 DEF ReservedFor
  <2> QED
    BY <1>1, <1>3, <1>6, <1>8, <1>14, <2>1, ReservedKept
<1>18. Untouched(log', x)
  <2>1. x \notin e.creds /\ Rung(x, 0) \notin e.ukeys
    BY <1>6, <1>10 DEF SpendReveal
  <2> QED
    BY <1>1, <1>3, <1>6, <1>8, <2>1, UntouchedKept
<1>19. Named(log', code) /\ Latest(log') = e
  BY <1>1, <1>3, <1>6, <1>8, Longer, LongerComes
<1>20. Rung(code, 0) \in e.ukeys /\ Rung(r, 0) \in ToSet(e.hashes)
  BY <1>4, <1>5, <1>6
<1> QED
  BY <1>7, <1>16, <1>17, <1>18, <1>19, <1>20 DEF Ready

\* SpendReveal.
LEMMA SpendRevealKeeps ==
    ASSUME LadderInv, NEW code \in Code, NEW r \in Code, NEW x \in Successor,
           SpendReveal(code, x, r)
    PROVE  LadderInv'
<1>1. TypeOK /\ LogInv(log) /\ Now = Latest(log)
  BY DEF LadderInv, Now
<1>2. PICK js : js = [job EXCEPT ![x] = NoJob]
  OBVIOUS
<1>3. /\ js \in [Successor -> Job] /\ JobsInv(log, js) /\ js[x] = NoJob
      /\ Reported(log, js, report)
  BY <1>1, <1>2, DropSpend DEF LadderInv
<1>4. PICK e : e = Reveals(Rung(code, 0), Now, SpendCommits(x, r))
  OBVIOUS
<1>5. PICK j0 : j0 = [kind |-> "spend", by |-> code, replacement |-> r,
                      stage |-> "reveal", head |-> 0, saved |-> job[x].saved]
  OBVIOUS
<1>6. PICK k : k = [j0 EXCEPT !.stage = "committed", !.head = Len(log')]
  OBVIOUS
<1>7. /\ \/ /\ UNCHANGED log /\ Rung(code, 0) \in Now.ukeys
            /\ ToSet(SpendCommits(x, r)) \subseteq ToSet(Now.hashes)
         \/ Publish(e)
      /\ job' = [job EXCEPT ![x] = k]
      /\ UNCHANGED <<active, recorded, retired, unclaimed, report>>
  BY <1>4, <1>5, <1>6 DEF SpendReveal, Committed
<1>8. Ready(log', js, report, x, code, r) /\ (log' = log \/ Grown(e))
  <2>1. CASE /\ UNCHANGED log /\ Rung(code, 0) \in Now.ukeys
             /\ ToSet(SpendCommits(x, r)) \subseteq ToSet(Now.hashes)
    <3>1. Named(log, code) /\ Untouched(log, x) /\ ReservedFor(log, js, code, r)
      BY <1>2, RevealFinds
    <3>2. Rung(r, 0) \in ToSet(Now.hashes)
      BY <2>1, SpendCommitsIs
    <3> QED
      BY <1>1, <1>3, <2>1, <3>1, <3>2 DEF Ready
  <2>2. CASE Publish(e)
    BY <1>2, <1>4, <2>2, RevealGrows
  <2> QED
    BY <1>7, <2>1, <2>2
<1>9. Len(log') \in Nat
  BY <1>1, <1>8, GrownExtends DEF TypeOK
<1>10. /\ k \in Job /\ k.kind = "spend" /\ k.by = code /\ k.replacement = r
       /\ k.stage = "committed" /\ k.head = Len(log')
  <2>1. job[x].saved \in BOOLEAN
    BY <1>1 DEF TypeOK, Job
  <2> QED
    BY <1>5, <1>6, <1>9, <2>1, Kinds DEF Job, Stage
<1>11. SpendFits(log', x, k)
  BY <1>8, <1>9, <1>10 DEF SpendFits, ShapeOK, Holds, Ready
<1>12. job' = [js EXCEPT ![x] = k] /\ job' \in [Successor -> Job]
  BY <1>1, <1>2, <1>7, <1>10 DEF TypeOK
<1>13. JobsInv(log', job') /\ Reported(log', job', report)
  <2>1. ReservedFor(log', js, k.by, k.replacement)
    BY <1>8, <1>10 DEF Ready
  <2> QED
    BY <1>3, <1>8, <1>10, <1>11, <1>12, <2>1, PutSpend DEF Ready
<1>14. TypeOK'
  <2>1. CASE log' = log
    BY <1>1, <1>7, <1>12, <2>1 DEF TypeOK
  <2>2. CASE Grown(e)
    BY <1>1, <1>7, <1>12, <2>2, TypeKept DEF Tidy, TypeOK
  <2> QED
    BY <1>8, <2>1, <2>2
<1> QED
  BY <1>7, <1>8, <1>13, <1>14 DEF LadderInv, Ready

\* What an add-and-retire entry strikes beside the code's rung, what the draft
\* of it is, and what its step leaves.
Struck(x, code, r, others) ==
    AttributeRetiredCredentialRungs(Facts, others, {Rung(x, 0), Rung(x, 1), Rung(r, 0)},
                                    {Rung(x, 0)})
Gone(x, code, r) ==
    AbandonedSpendCommitments(Facts, Rung(code, 0),
                              {Rung(x, 0), Rung(x, 1), Rung(r, 0)})
SpendDraft(x, code, r, others) ==
    [ukeys |-> Now.ukeys \ ({Rung(code, 0)} \cup Struck(x, code, r, others).keys),
     hashes |-> Without(Now.hashes, {Rung(code, 0)}
                    \cup Struck(x, code, r, others).hashes \cup Gone(x, code, r)),
     creds |-> (Now.creds \ ({code} \cup others)) \cup ({r} \cup ({x} \cap Unlock)),
     vms |-> {r} \cup ({x} \cap Unlock), by |-> NoKey,
     clients |-> Now.clients \cup ({x} \cap Client)]
SpendReport(x, code, r, others) ==
    [credentials |-> others, unclaimed |-> Struck(x, code, r, others).unclaimed,
     hashes |-> Struck(x, code, r, others).hashes \cup Gone(x, code, r)]

AddStep(x, code, r, others) ==
    /\ Publish(Reveals(Rung(x, 0), SpendDraft(x, code, r, others), <<>>))
    /\ job[x].kind = "spend" /\ job[x].stage = "persisted"
    /\ job[x].head = Len(log)
    /\ job' = [job EXCEPT ![x] = [job[x] EXCEPT !.stage = "done", !.head = 0]]
    /\ report' = [report EXCEPT ![x] = SpendReport(x, code, r, others)]
    /\ unclaimed' = unclaimed \cup Struck(x, code, r, others).unclaimed
    /\ retired' = retired \cup others \cup {code}
    /\ UNCHANGED <<active, recorded>>

\* The step of SpendAdd, taken apart.
LEMMA AddIs ==
    ASSUME NEW x \in Successor, SpendAdd(x), NEW code, code = job[x].by,
           NEW r \in Code, r = job[x].replacement,
           NEW others, others = Now.creds \ {code, r, x}
    PROVE  AddStep(x, code, r, others)
<1>1. ToSet(SpendCommits(x, r)) = {Rung(x, 0), Rung(x, 1), Rung(r, 0)}
  BY SpendCommitsIs
<1>2. PICK strike, gone, d :
        /\ strike = AttributeRetiredCredentialRungs(
                        Facts, others, ToSet(SpendCommits(x, r)), {Rung(x, 0)})
        /\ gone = AbandonedSpendCommitments(Facts, Rung(code, 0),
                                            ToSet(SpendCommits(x, r)))
        /\ d = [ukeys |-> Now.ukeys \ ({Rung(code, 0)} \cup strike.keys),
                hashes |-> Without(Now.hashes, {Rung(code, 0)}
                                       \cup strike.hashes \cup gone),
                creds |-> (Now.creds \ ({code} \cup others))
                          \cup ({r} \cup RecoveredCredential(x)),
                vms |-> {r} \cup RecoveredCredential(x), by |-> NoKey,
                clients |-> Now.clients \cup RecoveredClient(x)]
        /\ Publish(Reveals(Rung(x, 0), d, <<>>))
        /\ unclaimed' = unclaimed \cup strike.unclaimed
        /\ report' = [report EXCEPT ![x] =
              [credentials |-> others, unclaimed |-> strike.unclaimed,
               hashes |-> strike.hashes \cup gone]]
  BY DEF SpendAdd
<1>3. strike = Struck(x, code, r, others) /\ gone = Gone(x, code, r)
  BY <1>1, <1>2 DEF Struck, Gone
<1>4. d = SpendDraft(x, code, r, others)
  BY <1>2, <1>3 DEF SpendDraft, RecoveredCredential, RecoveredClient
<1>5. report' = [report EXCEPT ![x] = SpendReport(x, code, r, others)]
  BY <1>2, <1>3 DEF SpendReport
<1>6. /\ job' = [job EXCEPT ![x] = [job[x] EXCEPT !.stage = "done", !.head = 0]]
      /\ job[x].kind = "spend" /\ job[x].stage = "persisted"
      /\ job[x].head = Len(log)
      /\ retired' = retired \cup others \cup {code}
      /\ UNCHANGED <<active, recorded>>
  BY DEF SpendAdd, Advance
<1> QED
  BY <1>2, <1>3, <1>4, <1>5, <1>6 DEF AddStep

\* The add-and-retire entry: it adds the successor and the replacement, drops
\* the code's rung, and commits nothing new but the successor's key.
LEMMA SpendEntryIs ==
    ASSUME TypeOK, NEW x \in Successor, NEW code \in Code, NEW r \in Code,
           NEW others, others = Now.creds \ {code, r, x},
           NEW e, e = Reveals(Rung(x, 0), SpendDraft(x, code, r, others), <<>>)
    PROVE  /\ e \in Entry /\ e.by = Rung(x, 0)
           /\ e.creds = (Now.creds \ ({code} \cup others)) \cup ({r} \cup ({x} \cap Unlock))
           /\ e.ukeys \subseteq (Now.ukeys \ {Rung(code, 0)}) \cup {Rung(x, 0)}
           /\ Rung(x, 0) \in e.ukeys
           /\ ToSet(e.hashes) \subseteq ToSet(Now.hashes) \cup {Rung(x, 0)}
<1>1. Now \in Entry
  BY HeadIs
<1>2. PICK d : d = SpendDraft(x, code, r, others)
  OBVIOUS
<1>3. PICK out : out = {Rung(code, 0)} \cup Struck(x, code, r, others).hashes
                       \cup Gone(x, code, r)
  OBVIOUS
<1>4. PICK w \in Seq(Key) : /\ w = Without(Now.hashes, out)
                            /\ ToSet(w) = ToSet(Now.hashes) \ out
  BY <1>1, WithoutIs DEF Entry
<1>5. PICK u : u = Now.ukeys \ ({Rung(code, 0)} \cup Struck(x, code, r, others).keys)
  OBVIOUS
<1>6. d = [ukeys |-> u, hashes |-> w,
           creds |-> (Now.creds \ ({code} \cup others)) \cup ({r} \cup ({x} \cap Unlock)),
           vms |-> {r} \cup ({x} \cap Unlock), by |-> NoKey,
           clients |-> Now.clients \cup ({x} \cap Client)]
  BY <1>2, <1>3, <1>4, <1>5 DEF SpendDraft
<1>7. d \in Draft
  BY <1>1, <1>5, <1>6, Kinds DEF Entry, Draft
<1>8. PICK k \in Key : k = Rung(x, 0)
  BY SpendCommitsIs
<1>9. PICK cs \in Seq(Key) : cs = <<>> /\ ToSet(cs) = {}
  <2>1. <<>> \in Seq(Key) /\ ToSet(<<>>) = {}
    BY DEF ToSet
  <2> QED
    BY <2>1
<1>10. /\ e \in Entry /\ e.creds = d.creds /\ e.by = k /\ e.ukeys = d.ukeys \cup {k}
       /\ ToSet(e.hashes) = ToSet(d.hashes) \cup {k} \cup ToSet(cs)
  <2>1. e = Reveals(k, d, cs)
    BY <1>2, <1>8, <1>9
  <2>2. k \in Key /\ cs \in Seq(Key)
    BY <1>8, <1>9
  <2>3. /\ Reveals(k, d, cs) \in Entry /\ Reveals(k, d, cs).creds = d.creds
        /\ Reveals(k, d, cs).by = k /\ Reveals(k, d, cs).ukeys = d.ukeys \cup {k}
        /\ ToSet(Reveals(k, d, cs).hashes) = ToSet(d.hashes) \cup {k} \cup ToSet(cs)
    BY <1>7, <2>2, RevealsIs
  <2> QED
    BY <2>1, <2>3
<1>11. d.ukeys = u /\ d.hashes = w
       /\ d.creds = (Now.creds \ ({code} \cup others)) \cup ({r} \cup ({x} \cap Unlock))
  BY <1>6
<1> QED
  BY <1>4, <1>5, <1>8, <1>9, <1>10, <1>11

\* A spend about to publish over the head is ready to.
LEMMA AddFinds ==
    ASSUME LadderInv, NEW x \in Successor, SpendAdd(x), NEW code, code = job[x].by,
           NEW r, r = job[x].replacement, NEW js, js = [job EXCEPT ![x] = NoJob],
           NEW reps, \A y \in Successor \ {x} : reps[y] = report[y]
    PROVE  code \in Code /\ r \in Code /\ Ready(log, js, reps, x, code, r)
<1>1. TypeOK /\ LogInv(log)
  BY DEF LadderInv
<1>2. /\ JobsInv(log, js) /\ Reported(log, js, reps) /\ Spends(js) = Spends(job) \ {x}
      /\ \A y \in Successor \ {x} : js[y] = job[y]
  BY <1>1, DropSpend DEF LadderInv
<1>3. /\ x \in Spends(job) /\ x \in Live(job) /\ job[x].stage = "persisted"
      /\ job[x].kind = "spend" /\ job[x].head = Len(log)
  BY DEF SpendAdd, Spends, Live
<1>4. code \in Code /\ r \in Code /\ Named(log, code)
  BY <1>3 DEF LadderInv, JobsInv, Shaped, ShapeOK
<1>5. Untouched(log, x)
  BY <1>3 DEF LadderInv, JobsInv, Pending
<1>6. /\ Rung(code, 0) \in Latest(log).ukeys
      /\ Rung(r, 0) \in ToSet(Latest(log).hashes)
  BY <1>3 DEF LadderInv, JobsInv, Held, Holds
<1>7. ReservedFor(log, js, code, r)
  <2>1. ReservedFor(log, job, code, r)
    BY <1>3 DEF LadderInv, JobsInv, Reserved
  <2>2. OneCode(js, code, r)
    BY <1>2, <2>1 DEF ReservedFor, OneCode, Spends
  <2> QED
    BY <2>1, <2>2 DEF ReservedFor
<1> QED
  BY <1>1, <1>2, <1>4, <1>5, <1>6, <1>7 DEF Ready

\* The other ceremonies meet the add-and-retire entry: the replacement joins
\* as the key that committed it leaves, which anchors it.
LEMMA AddGrows ==
    ASSUME TypeOK, NEW x \in Successor, NEW code \in Code, NEW r \in Code,
           NEW js \in [Successor -> Job], NEW reps, Ready(log, js, reps, x, code, r),
           x \notin Live(js), \A y \in Live(js) : y \notin Now.creds,
           \A y \in Live(js) : Rung(y, 0) \notin Now.ukeys,
           NEW others, others = Now.creds \ {code, r, x},
           NEW e, e = Reveals(Rung(x, 0), SpendDraft(x, code, r, others), <<>>),
           Grown(e)
    PROVE  /\ LogInv(log') /\ JobsInv(log', js) /\ Reported(log', js, reps)
           /\ ReservedFor(log', js, code, r) /\ Named(log', code)
<1>1. /\ Now \in Entry /\ Now = Latest(log) /\ log \in Seq(Entry)
      /\ Len(log) \in DOMAIN log /\ Now = log[Len(log)] /\ Extended(log, e, log')
  BY HeadIs, GrownExtends DEF Now
<1>2. /\ LogInv(log) /\ JobsInv(log, js) /\ Reported(log, js, reps)
      /\ Named(log, code) /\ ReservedFor(log, js, code, r)
      /\ Rung(code, 0) \in Now.ukeys /\ Rung(r, 0) \in ToSet(Now.hashes)
  BY <1>1 DEF Ready
<1>3. /\ e \in Entry /\ e.by = Rung(x, 0) /\ e.creds \subseteq Now.creds \cup {r, x}
      /\ e.ukeys \subseteq (Now.ukeys \ {Rung(code, 0)}) \cup {Rung(x, 0)}
      /\ ToSet(e.hashes) \subseteq ToSet(Now.hashes) \cup {Rung(x, 0)}
  BY SpendEntryIs
<1>4. \A c : Owner(Rung(c, 0)) = c
  BY DEF Owner, Rung
<1>5. \A c \in Code : c # x /\ Rung(c, 0) # Rung(x, 0)
  BY <1>4, Kinds
<1>6. Spares(js, e)
  <2> SUFFICES ASSUME NEW y \in Live(js)
               PROVE  y \notin e.creds /\ Rung(y, 0) \notin e.ukeys
    BY DEF Spares
  <2>1. y \in Successor /\ y # x /\ y # r
    BY Kinds DEF Live, Spends
  <2>2. Rung(y, 0) # Rung(x, 0)
    BY <1>4, <2>1
  <2> QED
    BY <1>3, <2>1, <2>2
<1>7. ASSUME NEW d \in Code, d # r \/ r \in Now.creds PROVE Quiet(log, e, d)
  BY <1>1, <1>3, <1>5, <1>7 DEF Quiet
<1>8. PICK j \in 1..Len(log) : Came(log, j, Rung(r, 0)) /\ log[j].by = Rung(code, 0)
  <2>1. PICK j \in 1..Len(log) : Came(log, j, Rung(r, 0))
    BY <1>1, <1>2 DEF LogInv, HashesCame
  <2>2. j \in DOMAIN log
    BY <1>1, <2>1
  <2> QED
    BY <1>2, <2>1, <2>2 DEF ReservedFor
<1>9. Placed(log, Rung(r, 0))
  <2>1. j \in DOMAIN log
    BY <1>1, <1>8
  <2> QED
    BY <1>8, <2>1 DEF Placed
<1>10. ASSUME NEW d \in Code PROVE CodeAnchored(log', d)
  <2>1. CodeAnchored(log, d)
    BY <1>2 DEF LogInv, CodesAnchored, CodeAnchored
  <2>2. CASE d # r \/ r \in Now.creds
    BY <1>1, <1>3, <1>7, <2>1, <2>2, QuietAnchored
  <2>3. CASE d = r /\ r \notin Now.creds
    <3>1. r \in e.creds \ Latest(log).creds
      BY <1>1, <2>3, SpendEntryIs
    <3>2. log[j].by \in Latest(log).ukeys \ e.ukeys
      BY <1>1, <1>2, <1>3, <1>5, <1>8
    <3>3. Anchored(log', r)
      BY <1>1, <1>3, <1>8, <3>1, <3>2, AnchoredReplacing
    <3> QED
      BY <2>3, <3>3 DEF CodeAnchored
  <2> QED
    BY <2>2, <2>3
<1>11. ASSUME NEW d, NEW t \in Code PROVE Fits(log, e, d, t)
  <2>1. CASE t # r \/ r \in Now.creds
    BY <1>7, <2>1, QuietFits
  <2>2. CASE t = r
    BY <1>1, <1>3, <1>5, <1>9, <2>2 DEF Fits
  <2> QED
    BY <2>1, <2>2
<1>12. \A y \in Spends(js) : Fits(log, e, js[y].by, js[y].replacement)
  <2> SUFFICES ASSUME NEW y \in Spends(js)
               PROVE  Fits(log, e, js[y].by, js[y].replacement)
    OBVIOUS
  <2>1. js[y].replacement \in Code
    BY <1>2 DEF JobsInv, Shaped, ShapeOK, Spends
  <2> QED
    BY <1>11, <2>1
<1>13. LogInv(log') /\ JobsInv(log', js) /\ Reported(log', js, reps)
  BY <1>2, <1>6, <1>10, <1>12, GrowLog
<1>14. ReservedFor(log', js, code, r)
  <2>1. OneCode(js, code, r)
    BY <1>2 DEF ReservedFor
  <2>2. Fits(log, e, code, r)
    BY <1>11
  <2> QED
    BY <1>1, <1>2, <1>3, <2>1, <2>2, ReservedKept
<1>15. Named(log', code)
  BY <1>1, <1>2, <1>3, LongerComes
<1> QED
  BY <1>13, <1>14, <1>15

\* The code of a spend ready to publish is found anchored.
LEMMA CodeFound ==
    ASSUME TypeOK, LogInv(log), NEW code \in Code, Named(log, code),
           Rung(code, 0) \in Now.ukeys
    PROVE  CredentialLadderAnchored(Facts, code) /\ Rung(code, 0) \in Latest(Facts).ukeys
<1>1. PICK n \in DOMAIN log : /\ n = Len(log) /\ Now = log[n] /\ log \in Seq(Entry)
                              /\ DOMAIN log = 1..n
  BY HeadIs
<1>2. PICK f : f = Facts
  OBVIOUS
<1>3. Len(f) = n /\ f[n].ukeys = log[n].ukeys
  BY <1>1, <1>2, IndexIs DEF Facts
<1>4. Placed(log, Rung(code, 0))
  <2>1. PICK j \in 1..n : Rung(code, 0) \in ToSet(log[j].hashes)
    BY <1>1 DEF LogInv, KeysCame
  <2>2. PICK i \in 1..j : Came(log, i, Rung(code, 0))
    BY <1>1, <2>1 DEF LogInv, HashesCame
  <2>3. i \in DOMAIN log
    BY <1>1, <2>1, <2>2
  <2> QED
    BY <2>2, <2>3 DEF Placed
<1>5. Anchored(log, code)
  BY <1>4 DEF LogInv, CodesAnchored
<1>6. CredentialLadderAnchored(f, code)
  BY <1>1, <1>2, <1>5, AnchoredIs DEF Facts
<1> QED
  BY <1>1, <1>2, <1>3, <1>6 DEF Latest

\* The report of the spend is what is read back off the log it leaves.
LEMMA AddReadsBack ==
    ASSUME TypeOK, LogInv(log), NEW x \in Successor, NEW code \in Code, NEW r \in Code,
           Named(log, code), Untouched(log, x), Rung(code, 0) \in Now.ukeys,
           NEW others, others = Now.creds \ {code, r, x},
           NEW e, e = Reveals(Rung(x, 0), SpendDraft(x, code, r, others), <<>>),
           Grown(e), NEW k, k.by = code, k.replacement = r
    PROVE  ReadsBack(log', x, k, SpendReport(x, code, r, others))
<1>1. /\ Now \in Entry /\ log \in Seq(Entry) /\ Len(log) \in DOMAIN log
      /\ Now = log[Len(log)] /\ Extended(log, e, log')
  BY HeadIs, GrownExtends
<1>2. /\ e \in Entry /\ Rung(x, 0) \in e.ukeys
      /\ e.creds = (Now.creds \ ({code} \cup others)) \cup ({r} \cup ({x} \cap Unlock))
  BY SpendEntryIs
<1>3. PICK n \in Nat : n = Len(log) /\ n # 0
  BY <1>1
<1>4. /\ log' \in Seq(Entry) /\ Len(log') = n + 1 /\ log'[n + 1] = e
      /\ \A i \in 1..n : log'[i] = log[i]
  BY <1>1, <1>2, <1>3, Longer
<1>5. Authorizes(log', n + 1, Rung(x, 0))
  <2>1. n + 1 \in 2..Len(log') /\ (n + 1) - 1 = n
    BY <1>3, <1>4
  <2>2. \A i \in 1..n : i \in DOMAIN log
    BY <1>1, <1>3
  <2> QED
    BY <1>2, <1>4, <2>1, <2>2 DEF Authorizes, Untouched
<1>6. SubSeq(log', 1, n) = log
  BY <1>1, <1>3 DEF Grown
<1>7. RetiredCredentialKeys(log'[n], log'[n + 1]) \ {code} = others
  <2>1. log'[n] = Now
    BY <1>1, <1>3, <1>4
  <2> QED
    BY <1>2, <1>4, <2>1 DEF RetiredCredentialKeys
<1>8. RecoverySpendRetirementFromLog(log', x, code, r) = ReadReport(Facts, others, x, code, r)
  <2>1. PICK a \in Nat : a = n + 1 /\ a - 1 = n
    BY <1>3
  <2>2. RecoverySpendRetirementFromLog(log', x, code, r)
          = ReadReport(IndexLadderLog(SubSeq(log', 1, a - 1)),
                       RetiredCredentialKeys(log'[a - 1], log'[a]) \ {code}, x, code, r)
    <3>1. Authorizes(log', a, Rung(x, 0)) /\ log' \in Seq(Entry) /\ a \in Nat
      BY <1>4, <1>5, <2>1
    <3> QED
      BY <3>1, ReportIs
  <2> QED
    BY <1>6, <1>7, <2>1, <2>2 DEF Facts
<1>9. CredentialLadderAnchored(Facts, code) /\ Rung(code, 0) \in Latest(Facts).ukeys
  BY CodeFound
<1>10. ReadReport(Facts, others, x, code, r) = SpendReport(x, code, r, others)
  BY <1>9 DEF ReadReport, SpendReport, Struck, Gone
<1>11. n + 1 \in 2..Len(log')
  BY <1>3, <1>4
<1> QED
  BY <1>5, <1>8, <1>10, <1>11 DEF ReadsBack

\* SpendAdd.
LEMMA SpendAddKeeps ==
    ASSUME LadderInv, NEW x \in Successor, SpendAdd(x)
    PROVE  LadderInv'
<1>1. PICK code, r, reps : code = job[x].by /\ r = job[x].replacement /\ reps = report'
  OBVIOUS
<1>2. PICK js : js = [job EXCEPT ![x] = NoJob]
  OBVIOUS
<1>3. PICK others : others = Now.creds \ {code, r, x}
  OBVIOUS
<1>4. PICK e : e = Reveals(Rung(x, 0), SpendDraft(x, code, r, others), <<>>)
  OBVIOUS
<1>5. PICK k : k = [job[x] EXCEPT !.stage = "done", !.head = 0]
  OBVIOUS
<1>6. TypeOK /\ LogInv(log) /\ Now \in Entry /\ Now = Latest(log)
  BY HeadIs DEF LadderInv, Now
<1>7. code \in Code /\ r \in Code
  BY <1>1, <1>6 DEF SpendAdd, LadderInv, JobsInv, Shaped, ShapeOK
<1>8. /\ Publish(e) /\ job[x].kind = "spend" /\ job[x].stage = "persisted"
      /\ job' = [job EXCEPT ![x] = k]
      /\ report' = [report EXCEPT ![x] = SpendReport(x, code, r, others)]
      /\ unclaimed' = unclaimed \cup Struck(x, code, r, others).unclaimed
      /\ retired' = retired \cup others \cup {code}
      /\ UNCHANGED <<active, recorded>>
  <2>1. code = job[x].by /\ r = job[x].replacement
    BY <1>1
  <2>2. AddStep(x, code, r, others)
    BY <1>3, <1>7, <2>1, AddIs
  <2> QED
    BY <1>4, <1>5, <2>2 DEF AddStep
<1>9. report \in [Successor -> Report]
  BY <1>6 DEF TypeOK
<1>10. /\ \A y \in Successor \ {x} : reps[y] = report[y]
       /\ reps[x] = SpendReport(x, code, r, others)
  BY <1>1, <1>8, <1>9
<1>11. Ready(log, js, reps, x, code, r)
  BY <1>1, <1>2, <1>10, AddFinds
<1>12. /\ js \in [Successor -> Job] /\ js[x] = NoJob /\ Live(js) = Live(job) \ {x}
  BY <1>2, <1>6, DropSpend DEF LadderInv
<1>13. Grown(e)
  BY <1>3, <1>4, <1>6, <1>7, <1>8, SpendEntryIs DEF Publish, Grown
<1>14. /\ LogInv(log') /\ JobsInv(log', js) /\ Reported(log', js, reps)
       /\ ReservedFor(log', js, code, r) /\ Named(log', code)
  <2>1. /\ x \notin Live(js) /\ \A y \in Live(js) : y \notin Now.creds
        /\ \A y \in Live(js) : Rung(y, 0) \notin Now.ukeys
    BY <1>12, HeadSpares DEF Spares
  <2> QED
    BY <1>3, <1>4, <1>6, <1>7, <1>11, <1>12, <1>13, <2>1, AddGrows
<1>15. /\ k \in Job /\ k.kind = "spend" /\ k.by = code /\ k.replacement = r
       /\ k.stage = "done"
  BY <1>1, <1>5, <1>6, <1>8 DEF TypeOK, Job, Stage
<1>16. ReadsBack(log', x, k, reps[x])
  BY <1>3, <1>4, <1>6, <1>7, <1>10, <1>11, <1>13, <1>15, AddReadsBack DEF Ready
<1>17. SpendFits(log', x, k)
  BY <1>7, <1>14, <1>15 DEF SpendFits, ShapeOK
<1>18. job' = [js EXCEPT ![x] = k] /\ job' \in [Successor -> Job]
  BY <1>2, <1>6, <1>8, <1>15 DEF TypeOK
<1>19. JobsInv(log', job') /\ Reported(log', job', reps)
  <2>1. ReservedFor(log', js, k.by, k.replacement)
    BY <1>14, <1>15
  <2> QED
    BY <1>12, <1>14, <1>15, <1>16, <1>17, <1>18, <2>1, PutSpend
<1>20. others \subseteq Credential /\ SpendReport(x, code, r, others) \in Report
  <2>1. others \subseteq Credential
    BY <1>3, <1>6 DEF Entry
  <2>2. Facts[Len(Facts)].hashes = Now.hashes
    BY <1>6, HeadIs, IndexIs DEF Facts
  <2>3. ToSet(Now.hashes) \subseteq Key
    BY <1>6 DEF Entry, ToSet
  <2>4. /\ Struck(x, code, r, others).unclaimed \subseteq others
        /\ Struck(x, code, r, others).hashes \subseteq ToSet(Now.hashes)
    BY <2>2, StrikeIs DEF Struck
  <2>5. Gone(x, code, r) \subseteq ToSet(Now.hashes)
    BY <2>2, AbandonedIs DEF Gone
  <2> QED
    BY <2>1, <2>3, <2>4, <2>5 DEF SpendReport, Report
<1>21. Tidy
  <2>1. Struck(x, code, r, others).unclaimed \subseteq others
    BY StrikeIs DEF Struck
  <2> QED
    BY <1>6, <1>7, <1>8, <1>20, <2>1, Kinds DEF Tidy, TypeOK
<1>22. TypeOK'
  <2>1. report' \in [Successor -> Report]
    BY <1>8, <1>9, <1>20
  <2> QED
    BY <1>6, <1>13, <1>18, <1>21, <2>1, TypeKept
<1> QED
  BY <1>1, <1>14, <1>19, <1>22 DEF LadderInv

-----------------------------------------------------------------------------
(* The specification. *)

\* A log of one entry that carries no code has all of it come in that entry.
LEMMA GenesisIs ==
    ASSUME NEW e \in Entry, e.ukeys \subseteq ToSet(e.hashes), e.creds \cap Code = {}
    PROVE  LogInv(<<e>>)
<1>1. PICK l : l = <<e>> /\ DOMAIN l = 1..1 /\ l[1] = e
  <2>1. DOMAIN <<e>> = 1..1 /\ <<e>>[1] = e
    OBVIOUS
  <2> QED
    BY <2>1
<1>2. \A i \in 1..1 : i = 1
  OBVIOUS
<1>3. 1 \in 1..1
  OBVIOUS
<1>4. Prior(l, 1) = NoEntry /\ NoEntry.creds = {} /\ ToSet(NoEntry.hashes) = {}
  BY DEF Prior, NoEntry, ToSet
<1>5. HashesCame(l)
  BY <1>1, <1>2, <1>3, <1>4 DEF HashesCame, Came
<1>6. KeysCame(l)
  BY <1>1, <1>2, <1>3 DEF KeysCame
<1>7. CredsJoined(l)
  BY <1>1, <1>2, <1>3, <1>4 DEF CredsJoined, Stays, Joins
<1>8. CodesAnchored(l)
  BY <1>1, <1>2 DEF CodesAnchored, Named
<1> QED
  BY <1>1, <1>5, <1>6, <1>7, <1>8 DEF LogInv

\* The invariant holds at first.
LEMMA InitKeeps == Init => LadderInv
<1> SUFFICES ASSUME Init PROVE LadderInv
  OBVIOUS
<1>1. PICK e \in Entry : /\ log = <<e>> /\ e.ukeys \subseteq ToSet(e.hashes)
                         /\ e.creds \cap Code = {}
  <2>1. ASSUME NEW c \in Credential \cup Client
        PROVE  /\ Rung(c, 0) \in Key /\ <<Rung(c, 0), Rung(c, 1)>> \in Seq(Key)
               /\ Rung(c, 0) \in ToSet(<<Rung(c, 0), Rung(c, 1)>>)
    <3>1. Rung(c, 0) \in Key /\ Rung(c, 1) \in Key
      BY DEF Rung, Key
    <3>2. ToSet(<<Rung(c, 0), Rung(c, 1)>>) = {Rung(c, 0), Rung(c, 1)}
      BY DEF ToSet
    <3> QED
      BY <3>1, <3>2
  <2>2. CASE \E c \in Unlock : log = <<LadderGenesis(c)>>
    <3>1. PICK c \in Unlock : log = <<LadderGenesis(c)>>
      BY <2>2
    <3>2. PICK e : e = LadderGenesis(c)
      OBVIOUS
    <3>3. e \in Entry /\ e.ukeys \subseteq ToSet(e.hashes) /\ e.creds \cap Code = {}
      BY <2>1, <3>2, Kinds DEF LadderGenesis, Entry
    <3> QED
      BY <3>1, <3>2, <3>3
  <2>3. CASE \E a \in Client : log = <<ClientGenesis(a)>>
    <3>1. PICK a \in Client : log = <<ClientGenesis(a)>>
      BY <2>3
    <3>2. PICK e : e = ClientGenesis(a)
      OBVIOUS
    <3>3. e \in Entry /\ e.ukeys \subseteq ToSet(e.hashes) /\ e.creds \cap Code = {}
      BY <2>1, <3>2 DEF ClientGenesis, Entry
    <3> QED
      BY <3>1, <3>2, <3>3
  <2> QED
    BY <2>2, <2>3 DEF Init
<1>2. LogInv(log)
  BY <1>1, GenesisIs
<1>3. \A x \in Successor : job[x] = NoJob
  BY DEF Init
<1>4. Spends(job) = {} /\ Live(job) = {}
  BY <1>3 DEF Spends, Live, NoJob
<1>5. \A x \in Successor : ShapeOK(log, job[x])
  BY <1>3 DEF ShapeOK, NoJob
<1>6. JobsInv(log, job) /\ Reported(log, job, report)
  BY <1>4, <1>5 DEF JobsInv, Shaped, Reserved, Pending, Held, Reported
<1>7. TypeOK
  <2>1. NoJob \in Job /\ NoReport \in Report
    BY DEF NoJob, Job, Stage, NoReport, Report
  <2>2. log \in Seq(Entry) /\ Len(log) = 1
    BY <1>1
  <2>3. Len(log) \in 1..MaxEntries
    BY <2>2, LadderAssumption DEF LadderAssumption
  <2> QED
    BY <2>1, <2>2, <2>3 DEF TypeOK, Init
<1> QED
  BY <1>2, <1>6, <1>7 DEF LadderInv

\* No step breaks it.
LEMMA StepKeeps == LadderInv /\ [Ceremony]_vars => LadderInv'
<1> SUFFICES ASSUME LadderInv, [Ceremony]_vars PROVE LadderInv'
  OBVIOUS
<1>1. CASE UNCHANGED vars
  BY <1>1 DEF vars, LadderInv, TypeOK, LogInv, JobsInv, Reported
<1>2. ASSUME NEW s \in Unlock \cup Client, NEW c \in Unlock, Bind(s, c) PROVE LadderInv'
  BY <1>2, BindKeeps
<1>3. ASSUME NEW s \in Unlock \cup Client, NEW c \in Code, PublishRecoveryKey(s, c)
      PROVE  LadderInv'
  BY <1>3, IssueKeeps
<1>4. ASSUME NEW c \in Credential, Unbind(c) PROVE LadderInv'
  BY <1>4, RemoveKeeps DEF Unbind
<1>5. ASSUME NEW c \in Unlock, RevealLadderRung(c) PROVE LadderInv'
  BY <1>5, RungKeeps
<1>6. ASSUME NEW c \in Unlock, NEW p \in BOOLEAN, SetLadderVmPresence(c, p)
      PROVE  LadderInv'
  BY <1>6, PresenceKeeps
<1>7. ASSUME NEW a \in Client, \/ RevokeClient(a) \/ RotateUpdateKey(a)
                               \/ SelfEnrollAdd(a) \/ EnrollAdd(a)
      PROVE  LadderInv'
  BY <1>7, RevokeKeeps, RotateKeeps, SelfEnrollAddKeeps, EnrollAddKeeps
<1>8. ASSUME NEW s \in Unlock \cup Client, NEW a \in Client, EnrollCommit(s, a)
      PROVE  LadderInv'
  BY <1>8, EnrollCommitKeeps
<1>9. ASSUME NEW c \in Unlock, NEW a \in Client, ForgetClient(c, a) \/ SelfEnrollReveal(c, a)
      PROVE  LadderInv'
  BY <1>9, ForgetKeeps, SelfEnrollRevealKeeps
<1>10. ASSUME NEW code \in Code, NEW r \in Code, NEW x \in Successor, SpendReveal(code, x, r)
       PROVE  LadderInv'
  BY <1>10, SpendRevealKeeps
<1>11. ASSUME NEW x \in Successor,
              SpendAdd(x) \/ OnCommitted(x) \/ Conflict(x) \/ Crash(x)
       PROVE  LadderInv'
  BY <1>11, SpendAddKeeps, OnCommittedKeeps, ConflictKeeps, CrashKeeps
<1> QED
  BY <1>1, <1>2, <1>3, <1>4, <1>5, <1>6, <1>7, <1>8, <1>9, <1>10, <1>11, Kinds
     DEF Ceremony, RemoveRecoveryKey

\* The invariant of every behaviour.
LEMMA Invariance == Spec => []LadderInv
<1>1. Init => LadderInv
  BY InitKeeps
<1>2. LadderInv /\ [Ceremony]_vars => LadderInv'
  BY StepKeeps
<1> QED
  BY <1>1, <1>2, PTL DEF Spec

\* Every state of the ceremonies is well typed: the entries they publish are
\* entries, whatever the walks over the log claimed and struck, and the reports
\* of recoveries name credentials and committed hashes.
THEOREM TypeCorrect == Spec => []TypeOK
<1>1. LadderInv => TypeOK
  BY DEF LadderInv
<1> QED
  BY <1>1, Invariance, PTL

\* recoverySpendRetirementFromLog: a resumed recovery reads off the log that has
\* grown since exactly what the run that published the add-and-retire entry
\* reported, with however many credentials, codes, clients, attempts and
\* entries in between.
THEOREM ReportsReadBack == Spec => []ReportReadBack
<1>1. LadderInv => ReportReadBack
  <2> SUFFICES ASSUME LadderInv, NEW x \in Successor,
                      job[x].kind = "spend", job[x].stage = "done"
               PROVE  report[x] = RecoverySpendRetirementFromLog(
                                      log, x, job[x].by, job[x].replacement)
    BY DEF ReportReadBack
  <2>1. x \in Spends(job) \ Live(job)
    BY DEF Spends, Live
  <2> QED
    BY <2>1 DEF LadderInv, Reported, ReadsBack
<1> QED
  BY <1>1, Invariance, PTL

=============================================================================

------------------------------- MODULE Annex -------------------------------
(***************************************************************************)
(* The client annex of an account (src/src/clientAnnex): the generations   *)
(* of its auxiliary Space, each a collection holding one did:webvh log,    *)
(* and the pointer the account document keeps to one of them.  Transient   *)
(* visits write the pointed generation with the annex rung of a            *)
(* credential; every remembered login of an enrolled client runs the       *)
(* garbage collection pass; retiring a credential strikes its rung or      *)
(* swaps the generation; forgetting the last client replaces the           *)
(* delegation it leaves behind.                                            *)
(*                                                                         *)
(* Every ceremony is a job of several requests, any of which another job   *)
(* may overtake and after any of which its process may die.  A request     *)
(* that writes a log is conditional on the version it read and is repeated *)
(* over a fresh read when it loses, decision included, so it is one step   *)
(* here.                                                                   *)
(*                                                                         *)
(* A credential's annex rung is the same key in every generation and keeps *)
(* its hash committed once revealed, so "revealed or committed" is         *)
(* membership in one set, rungs.  No delegation expires within a           *)
(* behaviour, and the auxiliary Space itself stays in place.               *)
(***************************************************************************)
EXTENDS Integers, Sequences, FiniteSets

CONSTANTS Credential,  \* the unlock credentials of the account
          Client,      \* its enrolled clients
          MaxGen,      \* bound: generations ever minted
          MaxEvents,   \* bound: clients enrolled at the start, ceremonies
                       \* started, crashes, refusals and due dates
          MaxJobs,     \* bound: ceremonies in flight together
          MaxRounds,   \* enrollTransientClient's maxRounds
          None         \* the absent credential, generation or pointer

ASSUME AnnexAssumption ==
  /\ MaxGen \in Nat \ {0}
  /\ MaxEvents \in Nat /\ IsFiniteSet(Client) /\ Cardinality(Client) <= MaxEvents
  /\ {MaxJobs, MaxRounds} \subseteq Nat \ {0}
  /\ Client \cap Credential = {}
  /\ None \notin Client \cup Credential \cup Nat

VARIABLES
  acct,       \* the account log: pointer, pointers it ever had, who it lists
  gen,        \* the auxiliary Space: what stands at each generation id
  due,        \* the pointer value is older than GENERATION_GC_PERIOD_MS
  job,        \* the ceremony each actor has in flight
  digest,     \* per generation, the visits its recorded digests cover
  visited,    \* the transient visits reported as enrolled, and where
  out,        \* credentials whose annex inventory was reported retired
  overtaken,  \* those a restatement already under way still carried
  unread,     \* generations deleted after a reading that found no log
  torn,       \* generations a swap revoked and died before replacing
  left        \* ceremonies and faults the environment may still start

vars == <<acct, gen, due, job, digest, visited, out, overtaken, unread, torn, left>>

Gen   == 1 .. MaxGen
Actor == Client \cup Credential

(***************************************************************************)
(* A generation: no id yet, a bare collection, a published log, deleted.   *)
(* dels is the history of delegations its log embedded, by signer, the     *)
(* last one embedded now; dead the ones the server holds revoked.          *)
(***************************************************************************)
Generation == [at : {"unborn", "bare", "live", "gone"},
               rungs : SUBSET Credential,
               dels : Seq(Actor),
               dead : SUBSET Nat,
               visits : SUBSET Nat,
               quiet : BOOLEAN]

Unborn == [at |-> "unborn", rungs |-> {}, dels |-> <<>>, dead |-> {},
           visits |-> {}, quiet |-> FALSE]

Steps == {"idle", "head", "log", "strike", "swapHead", "swapLog",
          "mint", "genesis", "install", "revoke", "point", "move", "reread",
          "list", "sweep", "ensure", "target", "append", "confirm",
          "doomed", "renew", "embedded", "remove"}

\* What a pass holds of a generation it is collecting: how far it is, and
\* the visits and the delegation its reading of the log found.
Collection == [at : {"listed", "blank", "read", "revoked", "digested"},
               seen : SUBSET Nat, del : Nat]

\* A job: the credential it acts with, the one it retires and those its
\* genesis leaves out, the pointer, pointer history and document it read, the
\* standing set it will restate, the delegation it supersedes, the generation
\* it minted, the generations it is collecting, its visit and its round.
Job == [pc : Steps, cred : Credential \cup {None}, retire : Credential \cup {None},
        drop : SUBSET Credential, view : Gen \cup {None}, ever : SUBSET Gen,
        doc : SUBSET Actor, set : SUBSET Credential, old : Nat,
        new : Gen \cup {None}, sweep : UNION {[S -> Collection] : S \in SUBSET Gen},
        visit : Nat, round : Nat]
Idle == [pc |-> "idle", cred |-> None, retire |-> None, drop |-> {},
         view |-> None, ever |-> {}, doc |-> {}, set |-> {}, old |-> 0,
         new |-> None, sweep |-> <<>>, visit |-> 0, round |-> 0]

(***************************************************************************)
(* Readings                                                                *)
(***************************************************************************)
Live(g)     == g # None /\ gen[g].at = "live"
Embedded(g) == Len(gen[g].dels)
Listed      == acct.standing \cup acct.enrolled
Fresh       == {g \in Gen : gen[g].at = "unborn"
                            /\ \A h \in 1 .. (g - 1) : gen[h].at # "unborn"}

\* logCommitsRung: the writer-admission rule of an annex log.
LogCommitsRung(k, g) == k \in gen[g].rungs

\* standingZcapStale: no delegation, or one whose signer the document the
\* ceremony read does not list, or is about to lose.
DelegationStale(g, doc, retiring) ==
  \/ Embedded(g) = 0
  \/ gen[g].dels[Embedded(g)] \notin doc \ retiring

\* A bug: the retiring credential's rung is carried over with the others.
RestateAll(g, drop) == IF Live(g) THEN gen[g].rungs ELSE {}

\* restatedRungHashes: the standing set a fresh genesis commits.
Restated(g, drop) == IF Live(g) THEN gen[g].rungs \ drop ELSE {}

(***************************************************************************)
(* Writing one generation's log.  Every entry is recent: the log is no     *)
(* longer quiet.                                                           *)
(***************************************************************************)
Entry(g, r) == gen' = [gen EXCEPT ![g] = [r EXCEPT !.quiet = FALSE]]

\* createClientAnnexLog: the genesis commits the rungs, and no delegation yet.
Published(r, rungs) == [r EXCEPT !.at = "live", !.rungs = rungs]

\* ensureGenerationDelegationCurrent, the entry that installs a delegation.
Delegated(r, signer) == [r EXCEPT !.dels = Append(@, signer)]

Goto(a, pc) == job' = [job EXCEPT ![a].pc = pc]
Stop(a)     == job' = [job EXCEPT ![a] = Idle]
Disturb     == left > 0 /\ left' = left - 1
Begins(a)   == /\ Disturb /\ job[a].pc = "idle"
               /\ Cardinality({b \in Actor : job[b].pc # "idle"}) < MaxJobs

\* A strike or a swap is reported done.  What was retired may still be
\* carried by a ceremony that acts with it, that restates a standing set it
\* read or that is about to read one, or by the generation a sibling has
\* pointed the account at by now.
Carries(b) == job[b].set \cup {job[b].cred}
              \cup (IF job[b].pc = "ensure" THEN gen'[job[b].view].rungs ELSE {})
Carried(a, r) == \/ \E b \in Actor \ {a} : r \in Carries(b)
                 \/ /\ acct'.pointer \notin {job[a].view, job[a].new}
                    /\ r \in gen'[acct'.pointer].rungs
ReportRetired(a) ==
  IF job[a].retire = None
  THEN UNCHANGED <<out, overtaken>>
  ELSE /\ out' = out \cup {job[a].retire}
       /\ overtaken' = IF Carried(a, job[a].retire)
                       THEN overtaken \cup {job[a].retire} ELSE overtaken

Init ==
  /\ \E rungs \in (SUBSET Credential) \ {{}}, k \in Credential :
       /\ k \in rungs
       /\ gen = [g \in Gen |->
                   IF g = 1
                   THEN [Unborn EXCEPT !.at = "live", !.rungs = rungs,
                                       !.dels = <<k>>]
                   ELSE Unborn]
  /\ \E clients \in (SUBSET Client) \ {{}} :
       /\ acct = [pointer |-> 1, ever |-> {1},
                  standing |-> Credential, enrolled |-> clients]
       /\ left = MaxEvents - Cardinality(clients)
  /\ due = FALSE
  /\ job = [a \in Actor |-> Idle]
  /\ digest = [g \in Gen |-> {}]
  /\ visited = {}
  /\ out = {} /\ overtaken = {} /\ unread = {} /\ torn = {}

(***************************************************************************)
(* The environment                                                         *)
(***************************************************************************)
AtRest == \A a \in Actor : job[a].pc = "idle"

\* generationQuiet: 25 hours pass with no entry.  A ceremony is over long
\* before, so none is in flight.
Age ==
  /\ AtRest
  /\ {g \in Gen : Live(g) /\ ~gen[g].quiet} # {}
  /\ gen' = [g \in Gen |-> [gen[g] EXCEPT !.quiet = Live(g)]]
  /\ UNCHANGED <<acct, due, job, digest, visited, out, overtaken, unread, torn, left>>

\* clientAnnexGcDue: 90 days pass since the pointer value was established.
ComesDue ==
  /\ AtRest /\ Disturb /\ ~due /\ due' = TRUE
  /\ UNCHANGED <<acct, gen, job, digest, visited, out, overtaken, unread, torn>>

\* The process running a ceremony dies between two requests.
Crash(a) ==
  /\ Disturb /\ job[a].pc # "idle" /\ Stop(a)
  /\ torn' = IF job[a].pc = "point" /\ job[a].old # 0
             THEN torn \cup {job[a].view} ELSE torn
  /\ UNCHANGED <<acct, gen, due, digest, visited, out, overtaken, unread>>

(***************************************************************************)
(* runClientAnnexGc: the decision                                          *)
(***************************************************************************)
\* A remembered login of c with credential k, or with no ladder seed, starts
\* a pass over the account document it read.
StartPass(c, k) ==
  /\ Begins(c) /\ c \in acct.enrolled
  /\ k \in acct.standing \cup {None}
  /\ job' = [job EXCEPT ![c] = [Idle EXCEPT !.pc = "head", !.cred = k,
                                            !.view = acct.pointer]]
  /\ UNCHANGED <<acct, gen, due, digest, visited, out, overtaken, unread, torn>>

\* The pass goes on to collect against the account log as it read it.
Collect(c, pointer, ever) ==
  job' = [job EXCEPT ![c] = [Idle EXCEPT !.pc = "list", !.view = pointer,
                                         !.ever = ever]]

\* The account log is re-read under the client's pin; a pointer a sibling
\* moved leaves nothing to swap.
PassHead(c) ==
  /\ job[c].pc = "head"
  /\ IF acct.pointer = job[c].view
     THEN job' = [job EXCEPT ![c].pc = "log", ![c].ever = acct.ever]
     ELSE Collect(c, acct.pointer, acct.ever)
  /\ UNCHANGED <<acct, gen, due, digest, visited, out, overtaken, unread, torn, left>>

\* The pointed log is read, and the pass swaps when it is dead, when it does
\* not admit the login credential, or when the quarter has passed; the last
\* two wait for a quiet generation, and all need the ladder seed.
SwapOwed(c) ==
  LET g == job[c].view  k == job[c].cred
  IN  /\ k # None
      /\ Live(g) => /\ gen[g].quiet
                    /\ due \/ ~LogCommitsRung(k, g)
Replace(c, drop) ==
  LET g == job[c].view
  IN  job' = [job EXCEPT ![c].pc  = "mint",
                         ![c].set = Restated(g, drop) \cup {job[c].cred},
                         ![c].old = IF Live(g) THEN Embedded(g) ELSE 0]
PassLog(c) ==
  /\ job[c].pc = "log"
  /\ IF SwapOwed(c) THEN Replace(c, {})
     ELSE Collect(c, job[c].view, job[c].ever)
  /\ UNCHANGED <<acct, gen, due, digest, visited, out, overtaken, unread, torn, left>>

(***************************************************************************)
(* mintCredentialClientAnnexGeneration: the collection, then its genesis.  *)
(***************************************************************************)
\* The swap is over, done or failed: a pass goes on to collect, a retirement
\* and a visit that failed are over too.
EndSwap(a) ==
  IF a \in Client /\ job[a].retire = None
  THEN job' = [job EXCEPT ![a] = [Idle EXCEPT !.pc = "reread"]]
  ELSE Stop(a)

Mint(a) ==
  /\ job[a].pc = "mint"
  /\ \E g \in Fresh :
       /\ gen' = [gen EXCEPT ![g].at = "bare"]
       /\ job' = [job EXCEPT ![a].pc = "genesis", ![a].new = g]
  /\ UNCHANGED <<acct, due, digest, visited, out, overtaken, unread, torn, left>>

\* publishClientAnnexGenesis: refused when the collection is gone again.
Genesis(a) ==
  /\ job[a].pc = "genesis"
  /\ LET g == job[a].new
     IN  IF gen[g].at = "bare"
         THEN /\ Entry(g, Published(gen[g], job[a].set))
              /\ Goto(a, "install")
         ELSE EndSwap(a) /\ UNCHANGED gen
  /\ UNCHANGED <<acct, due, digest, visited, out, overtaken, unread, torn, left>>

\* The fresh generation's delegation, signed by the client of a pass and by
\* the ladder of a visit.
Install(a) ==
  /\ job[a].pc = "install"
  /\ LET g == job[a].new
     IN  IF Live(g)
         THEN /\ Entry(g, Delegated(gen[g], a))
              /\ Goto(a, IF a \in Client THEN "revoke" ELSE "move")
         ELSE EndSwap(a) /\ UNCHANGED gen
  /\ UNCHANGED <<acct, due, digest, visited, out, overtaken, unread, torn, left>>

(***************************************************************************)
(* replaceClientAnnexGeneration: revoke the superseded delegation, then    *)
(* re-point while the account still points at the generation replaced.     *)
(***************************************************************************)
\* revokeTreatingAlreadyRevokedAsSuccess: a chain whose signer the document
\* dropped is refused and read as dead; any other refusal is a fault.
Accepts(g, i) == gen[g].dels[i] \in Listed
Revoke(g, i)  == gen' = [gen EXCEPT ![g].dead = IF Accepts(g, i)
                                                THEN @ \cup {i} ELSE @]

RevokeOld(c) ==
  /\ job[c].pc = "revoke"
  /\ \/ job[c].old # 0 /\ Revoke(job[c].view, job[c].old) /\ UNCHANGED left
     \/ job[c].old = 0 /\ UNCHANGED <<gen, left>>
     \/ job[c].old # 0 /\ Disturb /\ UNCHANGED gen
  /\ Goto(c, "point")
  /\ UNCHANGED <<acct, due, digest, visited, out, overtaken, unread, torn>>

PointedAt(g) == [acct EXCEPT !.pointer = g, !.ever = @ \cup {g}]

\* setDelegatedClientsPointer with expectedPointer: a sibling's re-point
\* stands, and the swap that lost to it reports nothing done.
Point(c) ==
  /\ job[c].pc = "point"
  /\ UNCHANGED gen
  /\ IF acct.pointer = job[c].view
     THEN /\ acct' = PointedAt(job[c].new)
          /\ due' = FALSE
          /\ ReportRetired(c)
     ELSE UNCHANGED <<acct, due, out, overtaken>>
  /\ EndSwap(c)
  /\ UNCHANGED <<digest, visited, unread, torn, left>>

(***************************************************************************)
(* runClientAnnexGc: the collect fan-out                                   *)
(***************************************************************************)
\* A pass whose swap reached a write re-reads the account log.
Reread(c) ==
  /\ job[c].pc = "reread"
  /\ Collect(c, acct.pointer, acct.ever)
  /\ UNCHANGED <<acct, gen, due, digest, visited, out, overtaken, unread, torn, left>>

\* Every generation collection the pointer it read does not name.
List(c) ==
  /\ job[c].pc = "list"
  /\ LET stale == {g \in Gen : gen[g].at \in {"bare", "live"}} \ {job[c].view}
     IN  IF stale = {} THEN Stop(c)
         ELSE job' = [job EXCEPT
                ![c].pc = "sweep", ![c].view = None,
                ![c].sweep = [g \in stale |-> [at |-> "listed", seen |-> {},
                                               del |-> 0]]]
  /\ UNCHANGED <<acct, gen, due, digest, visited, out, overtaken, unread, torn, left>>

\* The fan-out goes on for every generation but g, whose collection is over.
Swept(c, g) ==
  LET rest == DOMAIN job[c].sweep \ {g}
  IN  IF rest = {} THEN Stop(c)
      ELSE job' = [job EXCEPT ![c].sweep = [h \in rest |-> @[h]]]
Collecting(c, g, at) ==
  job[c].pc = "sweep" /\ g \in DOMAIN job[c].sweep /\ job[c].sweep[g].at = at
CollectNext(c, g, at) == job' = [job EXCEPT ![c].sweep[g].at = at]

\* A bug: a young generation nothing points at is collected like any other.
CollectYoung(c, g) ==
  /\ Collecting(c, g, "listed")
  /\ IF ~Live(g) THEN CollectNext(c, g, "blank")
     ELSE job' = [job EXCEPT ![c].sweep[g] =
                    [at |-> "read", seen |-> gen[g].visits,
                     del |-> Embedded(g)]]
  /\ UNCHANGED <<acct, gen, due, digest, visited, out, overtaken, unread, torn, left>>

\* collectOneGeneration reads the log.  One the account never pointed at is
\* kept while it is young; one that holds no log at all is not.
CollectRead(c, g) ==
  /\ Collecting(c, g, "listed")
  /\ IF ~Live(g) THEN CollectNext(c, g, "blank")
     ELSE IF g \notin job[c].ever /\ ~gen[g].quiet THEN Swept(c, g)
     ELSE job' = [job EXCEPT ![c].sweep[g] =
                    [at |-> "read", seen |-> gen[g].visits,
                     del |-> Embedded(g)]]
  /\ UNCHANGED <<acct, gen, due, digest, visited, out, overtaken, unread, torn, left>>

\* A revocation or a digest that fails keeps the generation for another pass.
CollectRevoke(c, g) ==
  /\ Collecting(c, g, "read")
  /\ LET i == job[c].sweep[g].del
     IN  \/ /\ IF i = 0 THEN UNCHANGED gen ELSE Revoke(g, i)
            /\ CollectNext(c, g, "revoked") /\ UNCHANGED left
         \/ i # 0 /\ Disturb /\ Swept(c, g) /\ UNCHANGED gen
  /\ UNCHANGED <<acct, due, digest, visited, out, overtaken, unread, torn>>

CollectDigest(c, g) ==
  /\ Collecting(c, g, "revoked")
  /\ \/ /\ digest' = [digest EXCEPT ![g] = @ \cup job[c].sweep[g].seen]
        /\ CollectNext(c, g, "digested") /\ UNCHANGED left
     \/ Disturb /\ Swept(c, g) /\ UNCHANGED digest
  /\ UNCHANGED <<acct, gen, due, visited, out, overtaken, unread, torn>>

CollectDelete(c, g) ==
  /\ Collecting(c, g, "digested") \/ Collecting(c, g, "blank")
  /\ gen' = [gen EXCEPT ![g].at = "gone"]
  /\ unread' = IF Collecting(c, g, "blank") THEN unread \cup {g} ELSE unread
  /\ Swept(c, g)
  /\ UNCHANGED <<acct, due, digest, visited, out, overtaken, torn, left>>

(***************************************************************************)
(* Retiring a credential: the document edit, then the annex stage over the *)
(* document the edit published, strike first and swap when no committed    *)
(* rung can sign the strike.                                               *)
(***************************************************************************)
\* retireUnlockCredential: r leaves the document; the ceremony acts with the
\* surviving k.  One that holds no seed of r restates nothing when it swaps.
Retire(c, r, k) ==
  /\ Begins(c) /\ c \in acct.enrolled
  /\ {r, k} \subseteq acct.standing /\ r # k
  /\ acct' = [acct EXCEPT !.standing = @ \ {r}]
  /\ \E named \in BOOLEAN :
       job' = [job EXCEPT ![c] = [Idle EXCEPT
                 !.pc = IF named THEN "strike" ELSE "swapHead",
                 !.cred = k, !.retire = r, !.view = acct.pointer,
                 !.drop = IF named THEN {r} ELSE Credential]]
  /\ UNCHANGED <<gen, due, digest, visited, out, overtaken, unread, torn>>

\* retireClientAnnexRung on the generation the edited document names.
Strike(c) ==
  /\ job[c].pc = "strike"
  /\ LET g == job[c].view
         r == job[c].retire
     IN  \/ /\ Live(g) /\ r \notin gen[g].rungs
            /\ UNCHANGED <<acct, gen>> /\ ReportRetired(c) /\ Stop(c)
         \/ /\ Live(g) /\ r \in gen[g].rungs /\ LogCommitsRung(job[c].cred, g)
            /\ UNCHANGED acct
            /\ Entry(g, [gen[g] EXCEPT !.rungs = @ \ {r}])
            /\ ReportRetired(c) /\ Stop(c)
         \/ /\ Live(g) /\ r \in gen[g].rungs /\ ~LogCommitsRung(job[c].cred, g)
            /\ Goto(c, "swapHead") /\ UNCHANGED <<acct, gen, out, overtaken>>
         \/ /\ ~Live(g) /\ Stop(c) /\ UNCHANGED <<acct, gen, out, overtaken>>
  /\ UNCHANGED <<due, digest, visited, unread, torn, left>>

\* swapClientAnnexGeneration: the re-read account log, then the old log.
SwapHead(c) ==
  /\ job[c].pc = "swapHead"
  /\ IF acct.pointer = job[c].view THEN Goto(c, "swapLog") ELSE Stop(c)
  /\ UNCHANGED <<acct, gen, due, digest, visited, out, overtaken, unread, torn, left>>

SwapLog(c) ==
  /\ job[c].pc = "swapLog"
  /\ Replace(c, job[c].drop)
  /\ UNCHANGED <<acct, gen, due, digest, visited, out, overtaken, unread, torn, left>>

\* commitClientAnnexRung: a standing writer commits the rung of a credential
\* bound meanwhile, in a generation its own view of the account named.
CommitRung(b, k, g) ==
  /\ Disturb /\ b # k /\ {b, k} \subseteq acct.standing
  /\ g \in acct.ever /\ Live(g)
  /\ LogCommitsRung(k, g) /\ ~LogCommitsRung(b, g)
  /\ Entry(g, [gen[g] EXCEPT !.rungs = @ \cup {b}])
  /\ UNCHANGED <<acct, due, job, digest, visited, out, overtaken, unread, torn>>

(***************************************************************************)
(* A transient visit: ensureCredentialClientAnnexGeneration, then          *)
(* enrollTransientClient.                                                  *)
(***************************************************************************)
StartVisit(k) ==
  /\ Begins(k) /\ k \in acct.standing
  /\ job' = [job EXCEPT ![k] = [Idle EXCEPT
               !.pc = "ensure", !.cred = k, !.view = acct.pointer,
               !.doc = Listed, !.visit = left]]
  /\ UNCHANGED <<acct, gen, due, digest, visited, out, overtaken, unread, torn>>

\* The delegation its unlock record holds for the annex Space is signed by
\* the ladder of k: the server refuses it once the document drops k.
MayWrite(k) == k \in acct.standing

\* An admitted credential renews a stale delegation; one the log does not
\* admit, and a dead generation, take the fresh-generation arm.
Ensure(k) ==
  /\ job[k].pc = "ensure"
  /\ LET g == job[k].view
     IN  \/ /\ Live(g) /\ LogCommitsRung(k, g)
            /\ ~DelegationStale(g, job[k].doc, {})
            /\ Goto(k, "target") /\ UNCHANGED gen
         \/ /\ Live(g) /\ LogCommitsRung(k, g)
            /\ DelegationStale(g, job[k].doc, {})
            /\ IF MayWrite(k)
               THEN Entry(g, Delegated(gen[g], k)) /\ Goto(k, "target")
               ELSE Stop(k) /\ UNCHANGED gen
         \/ /\ ~(Live(g) /\ LogCommitsRung(k, g))
            /\ job' = [job EXCEPT ![k].pc = "mint",
                                  ![k].set = Restated(g, {}) \cup {k}]
            /\ UNCHANGED gen
  /\ UNCHANGED <<acct, due, digest, visited, out, overtaken, unread, torn, left>>

\* movePointerAsLadder: the ladder's own rung signs the pointer entry, over
\* whatever generation the account points at by then.
Move(k) ==
  /\ job[k].pc = "move"
  /\ IF MayWrite(k)
     THEN /\ acct' = PointedAt(job[k].new) /\ due' = FALSE
          /\ job' = [job EXCEPT ![k].pc = "target", ![k].set = {},
                                ![k].new = None]
     ELSE Stop(k) /\ UNCHANGED <<acct, due>>
  /\ UNCHANGED <<gen, digest, visited, out, overtaken, unread, torn, left>>

\* enrollTransientClient: read the pointer, append the visit's method to that
\* generation, read the pointer again; a moved pointer starts another round.
Target(k) ==
  /\ job[k].pc = "target"
  /\ job' = [job EXCEPT ![k].pc = "append", ![k].view = acct.pointer,
                        ![k].doc = {}]
  /\ UNCHANGED <<acct, gen, due, digest, visited, out, overtaken, unread, torn, left>>

AppendVisit(k) ==
  /\ job[k].pc = "append"
  /\ LET g == job[k].view
     IN  IF Live(g) /\ LogCommitsRung(k, g) /\ MayWrite(k)
         THEN /\ Entry(g, [gen[g] EXCEPT !.visits = @ \cup {job[k].visit}])
              /\ Goto(k, "confirm")
         ELSE Stop(k) /\ UNCHANGED gen
  /\ UNCHANGED <<acct, due, digest, visited, out, overtaken, unread, torn, left>>

\* A bug: the visit is reported without reading the pointer again.
ConfirmBlindly(k) ==
  /\ job[k].pc = "confirm"
  /\ visited' = visited \cup {<<job[k].visit, job[k].view>>}
  /\ Stop(k)
  /\ UNCHANGED <<acct, gen, due, digest, out, overtaken, unread, torn, left>>

Confirm(k) ==
  /\ job[k].pc = "confirm"
  /\ IF acct.pointer = job[k].view
     THEN /\ visited' = visited \cup {<<job[k].visit, job[k].view>>}
          /\ Stop(k)
     ELSE /\ IF job[k].round + 1 < MaxRounds
             THEN job' = [job EXCEPT ![k].pc = "append", ![k].round = @ + 1,
                                     ![k].view = acct.pointer]
             ELSE Stop(k)
          /\ UNCHANGED visited
  /\ UNCHANGED <<acct, gen, due, digest, out, overtaken, unread, torn, left>>

(***************************************************************************)
(* forgetLastEnrolledClient, its annex stage and its removal entry: every  *)
(* delegation the credential's ladder ever signed is revoked, the embedded *)
(* one only after a fresh one replaced it.                                 *)
(***************************************************************************)
ForgetLast(c, k) ==
  /\ Begins(c)
  /\ acct.enrolled = {c} /\ k \in acct.standing
  /\ job' = [job EXCEPT ![c] = [Idle EXCEPT
               !.pc = "doomed", !.cred = k, !.view = acct.pointer,
               !.doc = Listed]]
  /\ UNCHANGED <<acct, gen, due, digest, visited, out, overtaken, unread, torn>>

\* retireLadderGenerationDelegations: the history is read, and what is no
\* longer embedded revoked.
RevokeHistory(c) ==
  /\ job[c].pc = "doomed"
  /\ LET g == job[c].view
         doomed == {i \in DOMAIN gen[g].dels : gen[g].dels[i] = job[c].cred}
     IN  IF Live(g)
         THEN /\ gen' = [gen EXCEPT ![g].dead =
                           @ \cup {i \in doomed \ {Embedded(g)} : Accepts(g, i)}]
              /\ job' = [job EXCEPT ![c].pc = "renew",
                           ![c].old = IF Embedded(g) \in doomed
                                      THEN Embedded(g) ELSE 0]
         ELSE Goto(c, "remove") /\ UNCHANGED gen
  /\ UNCHANGED <<acct, due, digest, visited, out, overtaken, unread, torn, left>>

\* A bug: the delegation of the leaving parties counts as current.
RenewIfStale(c) ==
  /\ job[c].pc = "renew"
  /\ LET g == job[c].view
         k == job[c].cred
     IN  IF ~Live(g) THEN Stop(c) /\ UNCHANGED gen
         ELSE /\ IF DelegationStale(g, job[c].doc, {}) /\ LogCommitsRung(k, g)
                 THEN Entry(g, Delegated(gen[g], k)) ELSE UNCHANGED gen
              /\ Goto(c, "embedded")
  /\ UNCHANGED <<acct, due, digest, visited, out, overtaken, unread, torn, left>>

RenewLast(c) ==
  /\ job[c].pc = "renew"
  /\ LET g == job[c].view
         k == job[c].cred
     IN  IF ~Live(g) THEN Stop(c) /\ UNCHANGED gen
         ELSE /\ IF DelegationStale(g, job[c].doc, {k, c})
                    /\ LogCommitsRung(k, g)
                 THEN Entry(g, Delegated(gen[g], k)) ELSE UNCHANGED gen
              /\ Goto(c, "embedded")
  /\ UNCHANGED <<acct, due, digest, visited, out, overtaken, unread, torn, left>>

RevokeEmbedded(c) ==
  /\ job[c].pc = "embedded"
  /\ IF job[c].old = 0 THEN UNCHANGED gen ELSE Revoke(job[c].view, job[c].old)
  /\ Goto(c, "remove")
  /\ UNCHANGED <<acct, due, digest, visited, out, overtaken, unread, torn, left>>

\* forgetLastWebvhClient: refused once the ladder's method no longer stands.
RemoveLast(c) ==
  /\ job[c].pc = "remove"
  /\ acct' = IF job[c].cred \in acct.standing
             THEN [acct EXCEPT !.enrolled = {}] ELSE acct
  /\ Stop(c)
  /\ UNCHANGED <<gen, due, digest, visited, out, overtaken, unread, torn, left>>

(***************************************************************************)
(* The specification                                                       *)
(***************************************************************************)
SwapStep(a)  == Mint(a) \/ Genesis(a) \/ Install(a)
PassStep(c)  == PassHead(c) \/ PassLog(c) \/ RevokeOld(c) \/ Point(c)
                \/ Reread(c) \/ List(c)
CollectStep(c, g) == CollectRead(c, g) \/ CollectRevoke(c, g)
                     \/ CollectDigest(c, g) \/ CollectDelete(c, g)
RetireStep(c) == Strike(c) \/ SwapHead(c) \/ SwapLog(c)
VisitStep(k) == Ensure(k) \/ Move(k) \/ Target(k) \/ AppendVisit(k) \/ Confirm(k)
ForgetStep(c) == RevokeHistory(c) \/ RenewLast(c) \/ RevokeEmbedded(c)
                 \/ RemoveLast(c)

Next ==
  \/ ComesDue \/ Age
  \/ \E a \in Actor : Crash(a) \/ SwapStep(a)
  \/ \E c \in Client :
       \/ \E k \in Credential \cup {None} : StartPass(c, k)
       \/ PassStep(c) \/ RetireStep(c) \/ ForgetStep(c)
       \/ \E g \in Gen : CollectStep(c, g)
       \/ \E r, k \in Credential : Retire(c, r, k)
       \/ \E k \in Credential : ForgetLast(c, k)
  \/ \E k \in Credential : StartVisit(k) \/ VisitStep(k)
  \/ \E b, k \in Credential, g \in Gen : CommitRung(b, k, g)

Spec == Init /\ [][Next]_vars

(***************************************************************************)
(* Properties                                                              *)
(***************************************************************************)
\* Types: every generation, job and account reading keeps its shape.
TypeOK ==
  /\ acct \in [pointer : Gen, ever : SUBSET Gen,
               standing : SUBSET Credential, enrolled : SUBSET Client]
  /\ gen \in [Gen -> Generation]
  /\ due \in BOOLEAN /\ left \in 0 .. MaxEvents
  /\ job \in [Actor -> Job]
  /\ digest \in [Gen -> SUBSET Nat] /\ visited \subseteq Nat \X Gen
  /\ out \cup overtaken \subseteq Credential /\ unread \cup torn \subseteq Gen

\* The fan-out never deletes the generation the account points at, although
\* it works from a reading siblings overtake (runClientAnnexGc).  The one
\* exception is the documented one: a collection listed before its genesis
\* was published.
PointedStands == Live(acct.pointer) \/ acct.pointer \in unread

\* Every visit reported as enrolled survives its generation: once the
\* collection is deleted a digest counts it, although the digest is written
\* from a log read several requests earlier (collectOneGeneration against
\* enrollTransientClient's second reading of the pointer).
VisitsRecorded ==
  \A x \in visited : gen[x[2]].at = "gone"
                       => x[1] \in digest[x[2]] \/ x[2] \in unread

\* A credential whose annex inventory was reported retired is out of the
\* pointed generation for good, unless a restatement was already under way
\* when the report was made.
RetiredStaysOut ==
  \A r \in out \ overtaken : r \notin gen[acct.pointer].rungs

\* The pointed generation embeds a revoked delegation whose signer the
\* document still lists: no visit finds it stale, and none can use it.
Stranded ==
  /\ Live(acct.pointer) /\ Embedded(acct.pointer) \in gen[acct.pointer].dead
  /\ gen[acct.pointer].dels[Embedded(acct.pointer)] \in Listed

\* The last client's forget leaves transient visits a delegation they can use
\* or will renew: retireLadderGenerationDelegations replaces before it
\* revokes, and the removal comes last.  The exception is a swap that died
\* between its revocation and its re-point.
LastForgetReachable ==
  acct.enrolled = {} /\ acct.pointer \notin torn => ~Stranded

=============================================================================

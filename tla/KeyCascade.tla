----------------------------- MODULE KeyCascade -----------------------------
(***************************************************************************)
(* The user key roster and the rotation cascade (keys/userKeyRoster.ts,    *)
(* userKeyRosterCascade.ts, userKeyCascade.ts, userKeyGenerations.ts,      *)
(* clients/revocation.ts, clients/rosterPolicy.ts, clientAnnex/forget.ts,  *)
(* the approving side of enrollment/enrollment.ts). The account document   *)
(* says which clients the account has; the roster wraps each generation of *)
(* the user key to them; each collection wraps its epochs to generations.  *)
(* Enrollments, revocations, forgets and sign-ins of several clients run   *)
(* concurrently over these three, each with its own compare-and-swap and   *)
(* none with a transaction.                                                *)
(*                                                                         *)
(* A roster, like a collection's descriptor, is the sequence of its        *)
(* epochs, each the set of its recipients; the last epoch is the current   *)
(* one and a generation of the user key is its position. The document edit *)
(* is one step here (AccountLog has its parts). A standing credential is a *)
(* recipient that stays, and the key a forgetting client reads through.    *)
(* The logs' own seals and a collection's other readers are left out.      *)
(***************************************************************************)
EXTENDS Integers, Sequences, FiniteSets

CONSTANTS
    Client,
    Setups,      \* accounts to start from: the clients enrolled, those that
                 \* may revoke, those that may be enrolled, those that may
                 \* forget themselves and the credential they hold, and the
                 \* bounds on edits of the document and on ceremonies cut short
    Collection,
    CasAttempts  \* ESCROW_CAS_ATTEMPTS and pws-client's own, 3 in the code

ASSUME SetupAssumption ==
    Setups \subseteq [members : (SUBSET Client) \ {{}}, revokers : SUBSET Client,
                      enrollees : SUBSET Client, forgetters : SUBSET Client,
                      credential : SUBSET Client, edits : Nat, crashes : Nat]
ASSUME CasAssumption == CasAttempts \in Nat \ {0}

VARIABLES
    document,   \* the clients the account document keys
    removed,    \* the clients a revocation has removed
    roster,     \* key-map/user-key.jsonl
    collection, \* [Collection -> its descriptor]
    userKey,    \* [Client -> the generation it cached and pinned, 0 if none]
    job,        \* [Client -> the ceremony it runs]
    fan,        \* [Client -> [Collection -> its step of the fan-out]]
    setup,      \* the account chosen at the start
    edits, crashes

vars == <<document, removed, roster, collection, userKey, job, fan, setup,
          edits, crashes>>

-----------------------------------------------------------------------------
Descriptor(R) == Seq(SUBSET R)
Generation == Nat \ {0}

Stage == {"idle", "verify", "converge", "retire", "put", "publish", "fanOut",
          "remove"}
Job == [op : {"none", "signIn", "revoke", "enroll", "forget"}, stage : Stage,
        doc : SUBSET Client, base : Descriptor(Client),
        roster : Descriptor(Client), retire : SUBSET Client,
        incoming : SUBSET Client, attempt : 0..CasAttempts]
Idle == [op |-> "none", stage |-> "idle", doc |-> {}, base |-> <<>>,
         roster |-> <<>>, retire |-> {}, incoming |-> {}, attempt |-> 0]

Task == [stage : {"todo", "put", "done"}, base : Descriptor(Generation),
         retire : SUBSET Generation, owner : Nat, attempt : 0..CasAttempts]
ToDo == [stage |-> "todo", base |-> <<>>, retire |-> {}, owner |-> 0,
         attempt |-> 0]
Done == [ToDo EXCEPT !.stage = "done"]

TypeOK ==
    /\ document \subseteq Client /\ removed \subseteq Client
    /\ roster \in Descriptor(Client) \ {<<>>}
    /\ collection \in [Collection -> Descriptor(Generation) \ {<<>>}]
    /\ userKey \in [Client -> Nat]
    /\ job \in [Client -> Job]
    /\ fan \in [Client -> [Collection -> Task]]
    /\ setup \in Setups
    /\ edits \in 0..setup.edits /\ crashes \in 0..setup.crashes

\* A provisioned account: the roster wraps generation 1 to every member, and
\* every collection has its epoch[0] wrapped to it.
Init ==
    /\ setup \in Setups
    /\ document = setup.members /\ removed = {}
    /\ roster = <<setup.members>>
    /\ collection = [k \in Collection |-> <<{1}>>]
    /\ userKey = [c \in Client |-> IF c \in setup.members THEN 1 ELSE 0]
    /\ job = [c \in Client |-> Idle]
    /\ fan = [c \in Client |-> [k \in Collection |-> Done]]
    /\ edits = 0 /\ crashes = 0

-----------------------------------------------------------------------------
(* pws-client's recipient operations, as the code uses them. *)

CurrentEpoch(d) == d[Len(d)]

\* Escrow: the incoming recipients are wrapped into every epoch, by an owner
\* that can open each epoch they are not in yet.
CanEscrow(d, incoming, owner) ==
    \A e \in DOMAIN d : incoming \subseteq d[e] \/ owner \in d[e]

\* addRecipient, removeRecipient and replaceRecipient in one: a fresh epoch is
\* minted only when a retiring recipient stands in the current one, and goes
\* to the incoming recipients and the survivors that are vouched for.
Recipients(d, retire, incoming, vouched) ==
    LET escrowed == [e \in DOMAIN d |-> d[e] \cup incoming]
    IN IF retire \cap CurrentEpoch(d) = {} THEN escrowed
       ELSE Append(escrowed, ((CurrentEpoch(d) \ retire) \cap vouched)
                                 \cup incoming)

-----------------------------------------------------------------------------
(* Reading the roster. *)

\* readUserKeyRoster: a client whose cached key is current needs no wrap;
\* any other must find its own in the current epoch. A forgetting client
\* reads through the wrap of its standing credential.
ReadBackKey(c) == IF job[c].op = "forget" THEN setup.credential ELSE {c}
CanAdopt(c, d) ==
    userKey[c] = Len(d) \/ ReadBackKey(c) \cap CurrentEpoch(d) # {}

\* unwrapUserKeyGenerations
Generations(c, d) == {g \in DOMAIN d : ReadBackKey(c) \cap d[g] # {}}

DriftIgnoringMissing(d, doc) ==
    [stale |-> CurrentEpoch(d) \ doc, unwrapped |-> {}]

\* userKeyRosterDrift
UserKeyRosterDrift(d, doc) ==
    [stale |-> CurrentEpoch(d) \ doc, unwrapped |-> doc \ CurrentEpoch(d)]

-----------------------------------------------------------------------------
Goto(c, stage) == job' = [job EXCEPT ![c] = [@ EXCEPT !.stage = stage]]
End(c) == job' = [job EXCEPT ![c] = Idle]

\* The fan-out starts on every collection at once.
FanOut(c, d) ==
    /\ job' = [job EXCEPT ![c] = [@ EXCEPT !.stage = "fanOut", !.roster = d]]
    /\ fan' = [fan EXCEPT ![c] = [k \in Collection |-> ToDo]]

\* adoptRotatedUserKey and what follows it: the key the roster delivers is
\* persisted, or the ceremony throws.
AdoptAndFanOut(c, d) ==
    IF CanAdopt(c, d)
    THEN userKey' = [userKey EXCEPT ![c] = Len(d)] /\ FanOut(c, d)
    ELSE End(c) /\ UNCHANGED <<userKey, fan>>

\* convergeUserKeyRosterToDocument up to its write: nothing to do, a refusal
\* to rotate onto no one, a removal, an escrow, or both in one write. The
\* removal names one stale recipient; the resolver drops the others.
Converge(c, d, doc, unchanged) ==
    LET drift == UserKeyRosterDrift(d, doc) IN
    IF drift.stale = {} /\ drift.unwrapped = {}
    THEN unchanged
    ELSE IF drift.stale # {} /\ CurrentEpoch(d) = drift.stale
    THEN End(c) /\ UNCHANGED <<userKey, fan>>
    ELSE /\ \E retire \in IF drift.unwrapped = {}
                          THEN {{s} : s \in drift.stale} ELSE {drift.stale} :
              job' = [job EXCEPT ![c] = [@ EXCEPT !.stage = "put",
                          !.doc = doc, !.base = d, !.roster = d,
                          !.retire = retire, !.incoming = drift.unwrapped,
                          !.attempt = 1]]
         /\ UNCHANGED <<userKey, fan>>

-----------------------------------------------------------------------------
(* Sign-in: the roster check, then the completion sweep. *)

\* checkUserKeyRosterAtLogin; a client that cannot unwrap is refused.
CheckUserKeyRosterAtLogin(c) ==
    /\ job[c].stage = "idle" /\ c \in document \ setup.credential
    /\ CanAdopt(c, roster)
    /\ userKey' = [userKey EXCEPT ![c] = Len(roster)]
    /\ job' = [job EXCEPT ![c] = [Idle EXCEPT !.op = "signIn",
                                   !.stage = "verify", !.roster = roster]]
    /\ UNCHANGED <<setup, document, removed, roster, collection, fan, edits, crashes>>

\* convergeUserKeyRosterToAccount: the document is read after the roster, and
\* the convergence is decided on the roster the sign-in read.
ConvergeToAccount(c) ==
    /\ job[c].stage = "verify"
    /\ Converge(c, job[c].roster, document,
                FanOut(c, job[c].roster) /\ UNCHANGED userKey)
    /\ UNCHANGED <<setup, document, removed, roster, collection, edits, crashes>>

-----------------------------------------------------------------------------
(* Revocation. *)

\* revokeWebvhClient: the document edit, which a re-run finds already made.
\* The tail works on the document this edit resolved to.
RevokeAccountClient(c, t) ==
    /\ job[c].stage = "idle" /\ c \in document \cap setup.revokers /\ t # c
    /\ t \in (document \cup removed) \ setup.credential
    /\ edits < setup.edits /\ edits' = edits + 1
    /\ document' = document \ {t} /\ removed' = removed \cup {t}
    /\ job' = [job EXCEPT ![c] = [Idle EXCEPT !.op = "revoke",
                           !.stage = "converge", !.doc = document \ {t}]]
    /\ UNCHANGED <<setup, roster, collection, userKey, fan, crashes>>

\* rotateRosterToDocumentAndCascade: the roster's read and decision.
RotateRosterToDocument(c) ==
    /\ job[c].stage = "converge"
    /\ IF c \in document
       THEN Converge(c, roster, job[c].doc, AdoptAndFanOut(c, roster))
       ELSE End(c) /\ UNCHANGED <<userKey, fan>>
    /\ UNCHANGED <<setup, document, removed, roster, collection, edits, crashes>>

-----------------------------------------------------------------------------
(* Enrollment, a client's approval. *)

\* addUserKeyRosterRecipient: decryption material before authorization.
ApproveEnrollment(c, t) ==
    /\ job[c].stage = "idle" /\ c \in document \ setup.credential
    /\ t \in setup.enrollees \ (document \cup removed)
    /\ \A d \in Client : job[d].op = "enroll" => t \notin job[d].incoming
    /\ edits < setup.edits /\ edits' = edits + 1
    /\ job' = [job EXCEPT ![c] = [Idle EXCEPT !.op = "enroll",
                    !.stage = IF t \in CurrentEpoch(roster) THEN "publish"
                                                            ELSE "put",
                    !.base = roster, !.incoming = {t}, !.attempt = 1]]
    /\ UNCHANGED <<setup, document, removed, roster, collection, userKey, fan,
                   crashes>>

\* enrollWebvhClient's entries.
EnrollWebvhClient(c) ==
    /\ job[c].stage = "publish"
    /\ document' = IF c \in document THEN document \cup job[c].incoming
                                     ELSE document
    /\ End(c)
    /\ UNCHANGED <<setup, removed, roster, collection, userKey, fan, edits, crashes>>

-----------------------------------------------------------------------------
(* Forgetting: a client takes itself out, the roster first. *)

\* isLastEnrolledClient
IsLastEnrolledClient(c) == document \ setup.credential = {c}

\* The read that the refusal and the rotation's recipients are decided on.
ForgetEnrolledClient(c) ==
    /\ job[c].stage = "idle" /\ c \in document \cap setup.forgetters
    /\ ~IsLastEnrolledClient(c)
    /\ edits < setup.edits /\ edits' = edits + 1
    /\ job' = [job EXCEPT ![c] = [Idle EXCEPT !.op = "forget",
                                   !.stage = "retire", !.doc = document]]
    /\ UNCHANGED <<setup, document, removed, roster, collection, userKey, fan,
                   crashes>>

\* retireRosterRecipientAndCascade: the wrap is retired by name, as the
\* document still lists it; a re-run finds it gone.
RetireRosterRecipient(c) ==
    /\ job[c].stage = "retire"
    /\ IF c \notin document
       THEN End(c) /\ UNCHANGED <<userKey, fan>>
       ELSE IF c \in CurrentEpoch(roster)
       THEN /\ job' = [job EXCEPT ![c] = [@ EXCEPT !.stage = "put",
                           !.base = roster, !.roster = roster,
                           !.retire = {c}, !.attempt = 1]]
            /\ UNCHANGED <<userKey, fan>>
       ELSE AdoptAndFanOut(c, roster)
    /\ UNCHANGED <<setup, document, removed, roster, collection, edits, crashes>>

\* forgetWebvhClient: the removal entry, a no-op when another removed the
\* client first, refused when the client has become the last.
ForgetWebvhClient(c) ==
    /\ job[c].stage = "remove"
    /\ IF IsLastEnrolledClient(c) THEN UNCHANGED <<document, removed>>
       ELSE document' = document \ {c} /\ removed' = removed \cup {c}
    /\ End(c)
    /\ UNCHANGED <<setup, roster, collection, userKey, fan, edits, crashes>>

-----------------------------------------------------------------------------
(* The roster's write. *)

RosterAcceptAlways(c) == TRUE

\* The compare-and-swap on the descriptor the ceremony read.
RosterAccepts(c) == roster = job[c].base

\* What follows the write. A sign-in that only escrowed goes on with the
\* roster and the key it already had.
AfterRosterWrite(c, d) ==
    LET j == job[c]
        rotated == j.retire # {} /\ (j.incoming = {} \/ Len(d) # Len(j.roster))
    IN CASE j.op = "enroll" -> Goto(c, "publish") /\ UNCHANGED <<userKey, fan>>
         [] j.op = "signIn" /\ ~rotated -> FanOut(c, j.roster)
                                           /\ UNCHANGED userKey
         [] OTHER -> AdoptAndFanOut(c, d)

MayRetry(attempt) == attempt < CasAttempts

\* A sign-in whose convergence failed warns and sweeps the collections with the
\* roster and the key it read; any other ceremony throws.
GiveUpRoster(c) ==
    IF job[c].op = "signIn" THEN FanOut(c, job[c].roster)
                            ELSE End(c) /\ UNCHANGED fan

\* One attempt: the write lands, or the loop rebases the same intent on what
\* is there now, or gives up. A client the document no longer keys is refused,
\* as each write of its sweep would be.
PutRoster(c) ==
    /\ job[c].stage = "put"
    /\ LET j == job[c]
           d == Recipients(j.base, j.retire, j.incoming, j.doc)
       IN IF c \notin document
          THEN End(c) /\ UNCHANGED <<roster, userKey, fan>>
          ELSE IF ~CanEscrow(j.base, j.incoming, c)
          THEN GiveUpRoster(c) /\ UNCHANGED <<roster, userKey>>
          ELSE IF RosterAccepts(c)
          THEN roster' = d /\ AfterRosterWrite(c, d)
          ELSE /\ IF MayRetry(j.attempt)
                  THEN /\ job' = [job EXCEPT ![c] = [@ EXCEPT !.base = roster,
                                               !.attempt = j.attempt + 1]]
                       /\ UNCHANGED fan
                  ELSE GiveUpRoster(c)
               /\ UNCHANGED <<roster, userKey>>
    /\ UNCHANGED <<setup, document, removed, collection, edits, crashes>>

-----------------------------------------------------------------------------
(* The fan-out: rotateCollectionEpochsToUserKey for each collection. *)

Newest(S) == CHOOSE g \in S : \A h \in S : h <= g

EscrowInsteadOfRotate(d, key, gens) ==
    LET incomplete == {e \in DOMAIN d : key \notin d[e]}
        owners == {g \in gens : \A e \in incomplete : g \in d[e]}
    IN IF incomplete = {} \/ owners = {} THEN Done
       ELSE [stage |-> "put", base |-> d, retire |-> {},
             owner |-> Newest(owners), attempt |-> 1]

RetireEveryOther(d, key, gens) ==
    LET stale == CurrentEpoch(d) \ {key}
    IN IF stale = {} THEN Done
       ELSE [stage |-> "put", base |-> d, retire |-> stale,
             owner |-> Newest(stale), attempt |-> 1]

\* readCollectionEpochs and the switch on its verdict: what to write, or
\* nothing.
CollectionTask(d, key, gens) ==
    LET stale == (gens \ {key}) \cap CurrentEpoch(d)
        incomplete == {e \in DOMAIN d : key \notin d[e]}
        owners == {g \in gens : \A e \in incomplete : g \in d[e]}
        write(retire, owner) == [stage |-> "put", base |-> d, retire |-> retire,
                                 owner |-> owner, attempt |-> 1]
    IN IF stale # {} THEN write(stale, Newest(stale))
       ELSE IF key \notin CurrentEpoch(d) \/ incomplete = {} \/ owners = {}
       THEN Done
       ELSE write({}, Newest(owners))

ReadCollection(c, k) ==
    /\ job[c].stage = "fanOut" /\ fan[c][k].stage = "todo"
    /\ fan' = [fan EXCEPT ![c][k] =
                  IF c \in document
                  THEN CollectionTask(collection[k], userKey[c],
                                      Generations(c, job[c].roster))
                  ELSE Done]
    /\ UNCHANGED <<setup, document, removed, roster, collection, userKey, job,
                   edits, crashes>>

CollectionAccepts(c, k) == collection[k] = fan[c][k].base

PutCollection(c, k) ==
    /\ job[c].stage = "fanOut" /\ fan[c][k].stage = "put"
    /\ LET f == fan[c][k]
           key == userKey[c]
           able == c \in document /\ CanEscrow(f.base, {key}, f.owner)
           lost == able /\ ~CollectionAccepts(c, k)
       IN /\ fan' = [fan EXCEPT ![c][k] =
                IF lost /\ MayRetry(f.attempt)
                THEN [f EXCEPT !.base = collection[k], !.attempt = f.attempt + 1]
                ELSE Done]
          /\ collection' = IF able /\ ~lost
                THEN [collection EXCEPT ![k] =
                        Recipients(f.base, f.retire, {key}, Generation)]
                ELSE collection
    /\ UNCHANGED <<setup, document, removed, roster, userKey, job, edits, crashes>>

\* cascadeCollectionsToUserKey settles every task; failures do not stop it,
\* nor the forget's last stage.
FanOutDone(c) ==
    /\ job[c].stage = "fanOut" /\ \A k \in Collection : fan[c][k].stage = "done"
    /\ IF job[c].op = "forget" THEN Goto(c, "remove") ELSE End(c)
    /\ fan' = [fan EXCEPT ![c] = [k \in Collection |-> Done]]
    /\ UNCHANGED <<setup, document, removed, roster, collection, userKey, edits,
                   crashes>>

CutShort(c) ==
    /\ job[c].stage # "idle" /\ crashes < setup.crashes
    /\ crashes' = crashes + 1
    /\ job' = [job EXCEPT ![c] = Idle]
    /\ fan' = [fan EXCEPT ![c] = [k \in Collection |-> Done]]
    /\ UNCHANGED <<setup, document, removed, roster, collection, userKey, edits>>

CeremonyStep(c) ==
    \/ ConvergeToAccount(c) \/ RotateRosterToDocument(c)
    \/ EnrollWebvhClient(c) \/ PutRoster(c) \/ FanOutDone(c)
    \/ RetireRosterRecipient(c) \/ ForgetWebvhClient(c)
    \/ \E k \in Collection : ReadCollection(c, k) \/ PutCollection(c, k)

Next ==
    \E c \in Client :
        \/ CheckUserKeyRosterAtLogin(c) \/ ForgetEnrolledClient(c)
        \/ CeremonyStep(c)
        \/ \E t \in Client : RevokeAccountClient(c, t) \/ ApproveEnrollment(c, t)
        \/ CutShort(c)

\* Fairness: a ceremony under way proceeds, and every client signs in again
\* and again.
Spec ==
    /\ Init /\ [][Next]_vars
    /\ \A c \in Client : WF_vars(CeremonyStep(c) \/ CheckUserKeyRosterAtLogin(c))

-----------------------------------------------------------------------------
(* Properties. *)

\* The clients that can open an epoch of a collection with a generation the
\* roster wraps to them.
Openers(epoch) == {c \in Client : \E g \in epoch \cap DOMAIN roster :
                                      c \in roster[g]}

\* No history is lost to a reader: a client the document keys and the current
\* epoch wraps can open every epoch of every collection.
HistoryReadable ==
    \A c \in document \cap CurrentEpoch(roster), k \in Collection :
        \A e \in DOMAIN collection[k] : c \in Openers(collection[k][e])

\* A collection never moves back to an older generation, whichever fan-out,
\* however late, writes it last.
CollectionNeverRewinds ==
    [][\A k \in Collection : Newest(CurrentEpoch(collection[k])) <=
                             Newest(CurrentEpoch(collection'[k]))]_vars

\* Once a revocation's cascade ended, uncut, no removed client can open what
\* is written from then on.
AllIdle == \A c \in Client : job[c].stage = "idle"
RevocationBites ==
    AllIdle /\ crashes = 0 =>
        \A k \in Collection : Openers(CurrentEpoch(collection[k])) \cap removed = {}

\* The same of an account where one client does all the revoking while the
\* others sign in, and nobody enrolls or forgets itself. (Between a forget's
\* rotation and its removal entry the document still lists the leaving
\* client, and a sign-in escrows it back; a sign-in that sweeps while a client
\* is enrolled can escrow one the revocation removes meanwhile.)
Sole(r) ==
    setup.revokers = {r} /\ setup.enrollees = {} /\ setup.forgetters = {}
LoneRevocationBites == (\E r \in Client : Sole(r)) => RevocationBites

\* Whatever was torn or raced, sign-ins bring the roster to exactly the
\* document's clients and every collection onto the current generation.
CascadeSettles ==
    <>[](/\ CurrentEpoch(roster) = document
         /\ \A k \in Collection :
              CurrentEpoch(collection[k]) = {Len(roster)})
=============================================================================

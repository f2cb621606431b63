------------------------------- MODULE Ladder -------------------------------
(***************************************************************************)
(* The ceremonies of standing unlock credentials and recovery codes on the *)
(* account log (unlock/standingWebvh.ts, clientAnnex/ladderAnchored.ts,    *)
(* webvh/enrollClient.ts, webvh/revokeClient.ts, recovery/continuation.ts, *)
(* recoveryWebvh.ts, clientAnnex/recoveryLadderAnchored.ts): binding and   *)
(* retiring a credential, enrolling a client under a credential's ladder,  *)
(* removing a client, spending a recovery code.                            *)
(*                                                                         *)
(* Every entry is published conditionally on the log it was built on, so   *)
(* reading, building and publishing one entry is one step here; AccountLog *)
(* takes that step apart. A ceremony of two entries may meet anything      *)
(* between them. Projections, chain-head pins and rosters are not here.    *)
(***************************************************************************)
EXTENDS LadderLog

CONSTANTS
    Unlock,        \* credentials that sign through their ladder
    Code,          \* recovery codes
    MaxEntries     \* bound: entries of the log

ASSUME LadderAssumption ==
    /\ Unlock \cap Code = {} /\ Unlock \cup Code = Credential
    /\ MaxEntries \in Nat \ {0}

VARIABLES
    log,       \* the published did.jsonl
    active,    \* [Client -> number of its active update key]
    recorded,  \* [Credential -> the rung the registry records for it]
    job,       \* [owner of the new keys -> the two-entry ceremony]
    retired,   \* credentials a ceremony retired
    unclaimed, \* the ones it reported it could not read
    report     \* [Successor -> what the finished spend reported]

vars == <<log, active, recorded, job, retired, unclaimed, report>>

-----------------------------------------------------------------------------
Successor == Client \cup Unlock
Stage == {"idle", "reveal", "committed", "persisted", "done", "lost"}

\* A ceremony that publishes new keys in two entries: by names the credential,
\* the client or the code whose key signs the first, head the length of the
\* log the second is built on, saved whether onCommitted has persisted the
\* keys.
Job == [kind : {"none", "selfEnroll", "enroll", "spend"},
        by : Credential \cup Client \cup {"none"},
        replacement : Code \cup {"none"}, stage : Stage, head : Nat,
        saved : BOOLEAN]
NoJob == [kind |-> "none", by |-> "none", replacement |-> "none",
          stage |-> "idle", head |-> 0, saved |-> FALSE]

Report == [credentials : SUBSET Credential, hashes : SUBSET Key,
           unclaimed : SUBSET Credential]
NoReport == [credentials |-> {}, hashes |-> {}, unclaimed |-> {}]

TypeOK ==
    /\ log \in Seq(Entry) /\ Len(log) \in 1..MaxEntries
    /\ active \in [Client -> Nat] /\ recorded \in [Credential -> Nat]
    /\ job \in [Successor -> Job]
    /\ report \in [Successor -> Report]
    /\ retired \subseteq Credential /\ unclaimed \subseteq Credential

Now == Latest(log)
Facts == IndexLadderLog(log)

\* createLadderAnchoredAccountLog, or the signup of a first client.
LadderGenesis(c) ==
    [ukeys |-> {Rung(c, 0)}, hashes |-> <<Rung(c, 0), Rung(c, 1)>>,
     creds |-> {c}, vms |-> {c}, clients |-> {}, by |-> Rung(c, 0)]
ClientGenesis(a) ==
    [ukeys |-> {Rung(a, 0)}, hashes |-> <<Rung(a, 0), Rung(a, 1)>>,
     creds |-> {}, vms |-> {}, clients |-> {a}, by |-> Rung(a, 0)]

Init ==
    /\ \/ \E c \in Unlock : log = <<LadderGenesis(c)>>
       \/ \E a \in Client : log = <<ClientGenesis(a)>>
    /\ active = [a \in Client |-> 0]
    /\ recorded = [c \in Credential |-> 0]
    /\ job = [x \in Successor |-> NoJob]
    /\ retired = {} /\ unclaimed = {}
    /\ report = [x \in Successor |-> NoReport]

\* Keys and credentials are minted for one use.
Unused(x) ==
    /\ \A i \in DOMAIN log : /\ x \notin log[i].creds \cup log[i].clients
                             /\ \A k \in ToSet(log[i].hashes) : Owner(k) # x
    /\ \A y \in Successor : job[y].replacement # x
    /\ x \in Successor => job[x] = NoJob

-----------------------------------------------------------------------------
(* signAccountEntry. *)

\* The key a signer signs with: a client's active key while the log authorizes
\* it, a credential's attributed rung.
SignerKey(s) ==
    IF s \in Client
    THEN IF Rung(s, active[s]) \in Now.ukeys THEN Rung(s, active[s]) ELSE NoKey
    ELSE AttributeLadderRung(s, Now).rung

\* Who may act: enrolled clients and standing credentials.
Signer == Now.clients \cup (Now.creds \cap Unlock)

\* An entry over the head: a revealed key joins the update keys and its hash
\* the commitments, before the hashes the ceremony commits.
Reveals(key, e, commits) ==
    [e EXCEPT !.ukeys = @ \cup {key},
              !.hashes = Joined(@, <<key>> \o commits), !.by = key]
SignedBy(s, e, commits) ==
    IF s \in Client
    THEN [e EXCEPT !.hashes = Joined(@, commits), !.by = SignerKey(s)]
    ELSE Reveals(SignerKey(s), e, commits)

\* assertCarryOverCommitments and updateDID: an entry's update keys are
\* committed by the entry before it.
Publish(e) ==
    /\ Len(log) < MaxEntries
    /\ e.by # NoKey
    /\ Now.ukeys \subseteq ToSet(Now.hashes)
    /\ e.ukeys \subseteq ToSet(Now.hashes)
    /\ log' = Append(log, e)

-----------------------------------------------------------------------------
(* One-entry ceremonies. *)

\* The document a binding publishes, and the one a removal leaves.
BoundFields(c, key, authority) ==
    [Now EXCEPT !.creds = IF key THEN @ \cup {c} ELSE @,
                !.vms = IF authority THEN @ \cup {c} ELSE @]
StruckFields(c, r, struck) ==
    [Now EXCEPT !.ukeys = @ \ r.keys, !.hashes = Without(@, r.hashes),
                !.creds = @ \ {c}, !.vms = @ \ struck]

\* publishUnlockKey and publishRecoveryKey: the member, the ladder method and
\* the rung-0 commitment, in one entry or split in two.
PublishUnlockKey(s, c, part) ==
    LET hash == Rung(c, 0)
        committed == \/ hash \in ToSet(Now.hashes)
                     \/ c \in Now.creds /\ CredentialLadderAnchored(Facts, c)
        key == part \in {"all", "key"}
        authority == part \in {"all", "authority"}
        settled == /\ key => c \in Now.creds
                   /\ authority => committed /\ c \in Now.vms
    IN /\ s \in Signer /\ s # c /\ ~settled
       /\ IF part = "authority" THEN c \in Now.creds ELSE Unused(c)
       /\ Publish(SignedBy(s, BoundFields(c, key, authority),
              IF authority /\ ~committed THEN <<hash>> ELSE <<>>))
       /\ UNCHANGED <<active, recorded, job, retired, unclaimed, report>>

\* removeUnlockKey and removeRecoveryKey, with or without the seed: strike
\* what the reading claims, the member and the claimed ladder methods.
RemoveUnlockKey(c, seeded) ==
    /\ c \in UNION {log[i].creds : i \in DOMAIN log}
    /\ \E f \in {Facts} :
       \E r \in {AttributeUnlockLadderInventory(f, c, Rung(c, recorded[c]), seeded)} :
       \E claim \in {LadderVmClaim(f, c, Rung(c, recorded[c]), seeded, r)} :
          /\ r.ok /\ claim.ok
          /\ \/ c \in Now.creds \/ claim.struck \cup r.keys \cup r.hashes # {}
          /\ \E s \in Signer \ {c} :
                Publish(SignedBy(s, StruckFields(c, r, claim.struck), <<>>))
    /\ retired' = retired \cup {c}
    /\ UNCHANGED <<active, recorded, job, unclaimed, report>>

\* setLadderVmPresenceOnce: the last-client transition, entered on a document
\* that lists one client, strikes a ladder's method and reinstalls it.
SetLadderVmPresence(c, present) ==
    /\ c \in Signer \cap Unlock /\ (c \in Now.vms) # present
    /\ {{a} : a \in Client} \cap {log[i].clients : i \in DOMAIN log} # {}
    /\ Publish(SignedBy(c, [Now EXCEPT !.vms = IF present THEN @ \cup {c}
                                                ELSE @ \ {c}], <<>>))
    /\ UNCHANGED <<active, recorded, job, retired, unclaimed, report>>

\* revealLadderRungWebvh: the rung and the commitment of the next one.
RevealLadderRung(c) ==
    LET rung == AttributeLadderRung(c, Now) IN
    /\ c \in Signer \cap Unlock /\ rung.state = "committed"
    /\ Publish(SignedBy(c, Now, <<Rung(c, rung.rung[2] + 1)>>))
    /\ UNCHANGED <<active, recorded, job, retired, unclaimed, report>>

\* rotateWebvhUpdateKeyOnce: reveal the staged key, commit a fresh one.
RotateUpdateKey(a) ==
    LET n == active[a] IN
    /\ a \in Now.clients /\ Rung(a, n) \in Now.ukeys
    /\ Rung(a, n + 1) \in ToSet(Now.hashes)
    /\ Publish([Now EXCEPT
           !.ukeys = (@ \ {Rung(a, n)}) \cup {Rung(a, n + 1)},
           !.hashes = Joined(Without(@, {Rung(a, n)}), <<Rung(a, n + 2)>>),
           !.by = Rung(a, n + 1)])
    /\ active' = [active EXCEPT ![a] = n + 1]
    /\ UNCHANGED <<recorded, job, retired, unclaimed, report>>

RemovalTakingLatest(f, a, k, vouched) ==
    LET latent == SelectSeq(f[Len(f)].hashes, LAMBDA h : h \notin f[Len(f)].ukeys)
    IN IF latent = <<>> THEN {} ELSE {latent[Len(latent)]}

\* clientRemovalFields: the staged hash that goes with a removed client's key,
\* the standing credentials' commitments excluded.
RemovalStagedHash(f, a, k, vouched) ==
    AttributeStagedHash(f, k, vouched, StandingCredentialLatentHashes(f))

\* revokeWebvhClientOnce by another client or a credential, and
\* clientForgetEntryOnce by a credential, which vouches for its own rungs and
\* keeps the last client. The key is the one the listing states.
RemoveClient(signers, a, vouched) ==
    /\ a \in Now.clients
    /\ \E f \in {Facts} :
       \E k \in {AttributeClientUpdateKey(f, a)} \ {NoKey} :
       \E staged \in {RemovalStagedHash(f, a, k, vouched)} :
          /\ staged = {} \/ Only(staged) # NoKey
          /\ \E s \in signers \ {a} :
                Publish(SignedBy(s, [Now EXCEPT !.ukeys = @ \ {k},
                                                !.hashes = Without(@, {k} \cup staged),
                                                !.clients = @ \ {a}], <<>>))
    /\ UNCHANGED <<active, recorded, job, retired, unclaimed, report>>

RevokeClient(a) == RemoveClient(Signer, a, {})

\* forgetWebvhClient keeps the last client (assertNotLastClient), and
\* forgetLastWebvhClient may remove it where the ladder's method stands.
ForgetClient(c, a) ==
    LET n == AttributeLadderRung(c, Now).rung[2] IN
    /\ c \in Signer \cap Unlock
    /\ Now.clients # {a} \/ c \in Now.vms
    /\ RemoveClient({c}, a, {Rung(c, i) : i \in 0..(n + 1)})

-----------------------------------------------------------------------------
(* Two-entry ceremonies. *)

Advance(x, stage, head) ==
    job' = [job EXCEPT ![x] = [@ EXCEPT !.stage = stage, !.head = head]]

\* The first entry, or what an earlier attempt left of it.
Committed(x, j, skip, e) ==
    /\ IF skip THEN UNCHANGED log ELSE Publish(e)
    /\ job' = [job EXCEPT ![x] = [j EXCEPT !.stage = "committed",
                                           !.head = Len(log')]]
    /\ UNCHANGED <<active, recorded, retired, unclaimed, report>>

\* What a self-enrollment's reveal entry commits: the client's two hashes, the
\* ladder's next rung last.
EnrollmentCommits(c, a, n) == <<Rung(a, 0), Rung(a, 1), Rung(c, n + 1)>>

\* selfEnrollWebvhClientOnce up to the reveal-and-commit entry.
SelfEnrollReveal(c, a) ==
    LET rung == AttributeLadderRung(c, Now)
        commits == EnrollmentCommits(c, a, rung.rung[2])
    IN /\ \/ Unused(a) /\ c \in Now.creds
          \/ job[a].kind = "selfEnroll" /\ job[a].by = c
             /\ job[a].stage = "reveal"
       /\ rung.rung # NoKey /\ Rung(a, 0) \notin Now.ukeys
       /\ Committed(a, [kind |-> "selfEnroll", by |-> c,
                        replacement |-> "none", stage |-> "reveal",
                        head |-> 0, saved |-> job[a].saved],
              rung.state = "revealed" /\ ToSet(commits) \subseteq ToSet(Now.hashes),
              SignedBy(c, Now, commits))

\* The add entry: the new client signs, the spent rung and its hash leave. The
\* registry may record the next rung afterwards, or stay behind.
SelfEnrollAdd(a) ==
    LET c == job[a].by
        k == AttributeLadderRung(c, Now).rung
    IN /\ job[a].kind = "selfEnroll" /\ job[a].stage = "persisted"
       /\ job[a].head = Len(log)
       /\ Publish([Now EXCEPT !.ukeys = (@ \ {k}) \cup {Rung(a, 0)},
                               !.hashes = Without(@, {k}),
                               !.clients = @ \cup {a}, !.by = Rung(a, 0)])
       /\ Advance(a, "done", 0)
       /\ recorded' \in {recorded, [recorded EXCEPT ![c] = k[2] + 1]}
       /\ UNCHANGED <<active, retired, unclaimed, report>>

\* enrollWebvhClientOnce: an approver, client or credential, commits the new
\* client's hashes; a resumed run of a credential first reveals its rung.
EnrollCommit(s, a) ==
    LET commits == <<Rung(a, 0), Rung(a, 1)>>
        standing == ToSet(commits) \subseteq ToSet(Now.hashes)
    IN /\ s \in Signer /\ SignerKey(s) # NoKey
       /\ Unused(a) \/ job[a].kind = "enroll"
       /\ Rung(a, 0) \notin Now.ukeys
       /\ Committed(a, [kind |-> "enroll", by |-> s, replacement |-> "none",
                        stage |-> "reveal", head |-> 0, saved |-> TRUE],
              standing /\ SignerKey(s) \in Now.ukeys,
              SignedBy(s, Now, IF standing THEN <<>> ELSE commits))

\* The add entry, over a read of its own, signed by the same approver.
EnrollAdd(a) ==
    LET s == job[a].by IN
    /\ job[a].kind = "enroll" /\ job[a].stage = "committed"
    /\ s \in Signer
    /\ SignerKey(s) # NoKey
    /\ Publish(SignedBy(s, [Now EXCEPT !.ukeys = @ \cup {Rung(a, 0)},
                                        !.clients = @ \cup {a}], <<>>))
    /\ Advance(a, "done", 0)
    /\ UNCHANGED <<active, recorded, retired, unclaimed, report>>

\* What a spend commits: the successor's two hashes, the replacement's last.
SpendCommits(x, r) == <<Rung(x, 0), Rung(x, 1), Rung(r, 0)>>

\* recoveryContinuationOnce up to the reveal entry, for a client
\* (recoverWebvhClient) or a fresh credential (recoverWebvhLadderAnchored).
SpendReveal(code, x, r) ==
    LET commits == SpendCommits(x, r)
        revealed == Rung(code, 0) \in Now.ukeys
    IN /\ \/ /\ Unused(x) /\ code \in Now.creds /\ code # r
             \* a new attempt may carry on with the replacement of a dead one
             /\ \/ Unused(r)
                \/ r \in {job[y].replacement : y \in {z \in Successor :
                              job[z].by = code /\ job[z].stage = "lost"}}
          \/ /\ job[x].kind = "spend" /\ job[x].stage = "reveal"
             /\ job[x].by = code /\ job[x].replacement = r
       /\ Rung(x, 0) \notin Now.ukeys /\ x \notin Now.creds
       /\ revealed \/ Rung(code, 0) \in ToSet(Now.hashes)
       /\ Committed(x, [kind |-> "spend", by |-> code, replacement |-> r,
                        stage |-> "reveal", head |-> 0, saved |-> job[x].saved],
              revealed /\ ToSet(commits) \subseteq ToSet(Now.hashes),
              Reveals(Rung(code, 0), Now, commits))

\* What a recovery adds beside the replacement: recoverWebvhClient a client,
\* recoverWebvhLadderAnchored a fresh credential.
RecoveredClient(x) == {x} \cap Client
RecoveredCredential(x) == {x} \cap Unlock

\* The add-and-retire entry: every other standing credential is retired, the
\* code is spent, the replacement and the successor stand.
SpendAdd(x) ==
    LET code == job[x].by
        r == job[x].replacement
        keep == ToSet(SpendCommits(x, r))
        others == Now.creds \ {code, r, x}
        new == {r} \cup RecoveredCredential(x)
    IN /\ job[x].kind = "spend" /\ job[x].stage = "persisted"
       /\ job[x].head = Len(log)
       /\ \E f \in {Facts} :
          \E strike \in {AttributeRetiredCredentialRungs(f, others, keep,
                                                         {Rung(x, 0)})},
             abandoned \in {AbandonedSpendCommitments(f, Rung(code, 0), keep)} :
          \E e \in {[ukeys |-> Now.ukeys \ ({Rung(code, 0)} \cup strike.keys),
                     hashes |-> Without(Now.hashes, {Rung(code, 0)}
                                            \cup strike.hashes \cup abandoned),
                     creds |-> (Now.creds \ ({code} \cup others)) \cup new,
                     vms |-> new, by |-> NoKey,
                     clients |-> Now.clients \cup RecoveredClient(x)]} :
             /\ e.hashes # <<>>
             /\ Publish(Reveals(Rung(x, 0), e, <<>>))
             /\ unclaimed' = unclaimed \cup strike.unclaimed
             /\ report' = [report EXCEPT ![x] =
                   [credentials |-> others, unclaimed |-> strike.unclaimed,
                    hashes |-> strike.hashes \cup abandoned]]
       /\ Advance(x, "done", 0)
       /\ retired' = retired \cup others \cup {code}
       /\ UNCHANGED <<active, recorded>>

\* onCommitted: the new keys are persisted before the entry that needs them.
OnCommitted(x) ==
    /\ job[x].stage = "committed" /\ job[x].kind \in {"selfEnroll", "spend"}
    /\ job' = [job EXCEPT ![x] = [@ EXCEPT !.stage = "persisted",
                                           !.saved = TRUE]]
    /\ UNCHANGED <<log, active, recorded, retired, unclaimed, report>>

\* The log moved: withLogConflictRetry starts over, with the same keys.
Conflict(x) ==
    /\ job[x].stage = "persisted" /\ job[x].head # Len(log)
    /\ Advance(x, "reveal", 0)
    /\ UNCHANGED <<log, active, recorded, retired, unclaimed, report>>

\* The process dies: persisted keys resume later, others are gone.
Crash(x) ==
    /\ job[x].stage \in {"committed", "persisted"}
    /\ Advance(x, IF job[x].saved THEN "reveal" ELSE "lost", 0)
    /\ UNCHANGED <<log, active, recorded, retired, unclaimed, report>>

\* A credential is bound whole; a recovery code is issued whole or in halves,
\* its decryption key before its authority.
Bind(s, c) == c \in Unlock /\ PublishUnlockKey(s, c, "all")
Unbind(c) == \E seeded \in BOOLEAN : RemoveUnlockKey(c, seeded)
PublishRecoveryKey(s, code) ==
    /\ code \in Code
    /\ \E part \in {"all", "key", "authority"} : PublishUnlockKey(s, code, part)
RemoveRecoveryKey(code) == code \in Code /\ Unbind(code)

Ceremony ==
    \/ \E s \in Unlock \cup Client, c \in Unlock : Bind(s, c)
    \/ \E s \in Unlock \cup Client, c \in Code : PublishRecoveryKey(s, c)
    \/ \E c \in Unlock : Unbind(c) \/ RevealLadderRung(c)
    \/ \E c \in Code : RemoveRecoveryKey(c)
    \/ \E c \in Unlock, p \in BOOLEAN : SetLadderVmPresence(c, p)
    \/ \E a \in Client : RevokeClient(a) \/ RotateUpdateKey(a)
                         \/ SelfEnrollAdd(a) \/ EnrollAdd(a)
    \/ \E s \in Unlock \cup Client, a \in Client : EnrollCommit(s, a)
    \/ \E c \in Unlock, a \in Client : ForgetClient(c, a) \/ SelfEnrollReveal(c, a)
    \/ \E code \in Code, r \in Code, x \in Successor : SpendReveal(code, x, r)
    \/ \E x \in Successor : SpendAdd(x) \/ OnCommitted(x) \/ Conflict(x) \/ Crash(x)

Spec == Init /\ [][Ceremony]_vars

-----------------------------------------------------------------------------
(* What the ceremonies promise of the log they leave, and the two histories *)
(* that take part of it back.                                              *)

\* A client was removed and then approved again. It is listed under its first
\* key, which it may have rotated away, or under a rung that an earlier removal
\* revealed beside its key.
Returned(a) ==
    \E i, j, k \in DOMAIN log : /\ i < j /\ j < k
                                /\ a \in log[i].clients \ log[j].clients
                                /\ a \in log[k].clients

\* A ladder signed the second half of another credential's split binding while
\* the log did not show which ladder method is its own: a reading takes what
\* that entry committed for the signer's next rung.
SignedBlind ==
    LET f == Facts IN
    \E v \in 2..Len(log), s \in Unlock :
        /\ Owner(log[v].by) = s /\ log[v].creds = log[v - 1].creds
        /\ \/ log[v].vms \ (log[v - 1].vms \cup {s}) # {}
           \/ \E k \in ToSet(log[v].hashes) \ ToSet(log[v - 1].hashes) :
                 Owner(k) \in Credential \ {s}
        /\ ClaimLadderInventory(SubSeq(f, 1, v - 1), s).vms = {}

\* Enrolled clients and standing credentials keep what is theirs whatever
\* others enroll, retire or recover: a client's active key stays authorized
\* with its active and staged hashes committed, a bound ladder stays where its
\* seed finds it, and an unspent code's rung stays committed. Retirements and
\* removals strike by position in the log, so this is what they could break.
SurvivorsIntact ==
    /\ \A a \in Now.clients : Returned(a) \/
          /\ Rung(a, active[a]) \in Now.ukeys
          /\ {Rung(a, active[a]), Rung(a, active[a] + 1)} \subseteq ToSet(Now.hashes)
    /\ SignedBlind \/ (\E a \in Client : Returned(a)) \/
          \A c \in Now.creds : CredentialLadderAnchored(Facts, c)
                                  => AttributeLadderRung(c, Now).rung # NoKey

\* A retired credential that its retirement did not report as unclaimed holds
\* nothing any more: no rung authorized, none committed that it could still
\* reveal, no member and no ladder method, as long as no ladder signed a
\* binding blind.
RetiredOwnsNothing ==
    SignedBlind \/ \A c \in retired \ unclaimed :
        /\ \A k \in Now.ukeys \cup ToSet(Now.hashes) : Owner(k) # c
        /\ c \notin Now.creds \cup Now.vms

\* A finished recovery leaves no key behind that nobody answers for: unless it
\* reported a credential it could not read, every hash it leaves committed is
\* that of a standing credential, of an enrolled client or of an enrollment
\* still under way; what attempts that died committed is gone.
Underway(j) == j.stage \in {"reveal", "committed", "persisted"}
SpendLeavesNoOrphans ==
    [][\A x \in Successor :
          /\ job[x].kind = "spend" /\ job[x].stage # "done"
          /\ job'[x].stage = "done" /\ unclaimed' = unclaimed
          => \A k \in ToSet(Now'.hashes) :
                \/ Owner(k) \in Now'.creds \cup Now'.clients
                \/ \E y \in Successor : /\ Underway(job[y])
                                        /\ Owner(k) \in {y, job[y].replacement}]_vars

\* A resumed spend, reading its report back off the log that has grown since,
\* tells the caller exactly what the run that published told it: the caller
\* drops registry entries and unlock Spaces by that report.
ReportReadBack ==
    \A x \in Successor :
        job[x].kind = "spend" /\ job[x].stage = "done" =>
            report[x] = RecoverySpendRetirementFromLog(
                            log, x, job[x].by, job[x].replacement)

\* Whoever can read a credential's ladder without its seed reads what is its
\* own: nothing of another standing credential, and neither the active nor the
\* staged key of an enrolled client, is ever claimed by an accepted reading, as
\* long as no ladder signed a binding blind and, for the clients' keys, none
\* was removed and approved again. (A first key that was committed again after
\* its client had rotated it away may be claimed: the client does not sign with
\* it any more.)
ReadingIsOwn ==
    LET f == Facts
        live(a) == {Rung(a, active[a]), Rung(a, active[a] + 1)}
    IN SignedBlind \/ \A c \in Now.creds :
        LET r == AttributeUnlockLadderInventory(f, c, Rung(c, recorded[c]), FALSE)
        IN \A k \in r.keys \cup r.hashes :
              /\ Owner(k) \notin Now.creds \ {c}
              /\ \A a \in Now.clients : k \notin live(a) \/ \E d \in Client : Returned(d)

\* A credential's ladder key is licensed to append to a resource log at a
\* version only where that version changed the credential inventory or was
\* signed by a rung of that credential's own seed.
LicenseIsEarned ==
    LET f == Facts IN
    \A v \in DOMAIN f : \A c \in f[v].vms :
        LadderAppendLicensed(f, v, c) =>
            \/ f[v].creds # f[v].prevCreds \/ f[v].vms # f[v].prevVms
            \/ Owner(f[v].by) = c

=============================================================================

----------------------------- MODULE LadderLog -----------------------------
(***************************************************************************)
(* Reading an account log that standing credentials extend                 *)
(* (webvh/ladder.ts, webvh/listClients.ts, webvh/revokeClient.ts,          *)
(* resourceLog/document.ts, resourceLog/ladderRungs.ts, license.ts).       *)
(*                                                                         *)
(* A credential's seed derives a ladder of update keys: rung n of          *)
(* credential c is <<c, n>>, the n-th update key of client a is <<a, n>>.  *)
(* The owner is what the code cannot see: it has to work out, from the     *)
(* order hashes were committed in and from who signed what, which keys and *)
(* hashes belong to whom. A key and its hash are one value, and the field  *)
(* it sits in tells them apart. A credential's keyAgreement member and its *)
(* ladder verification method are named by the credential, and the         *)
(* member's ladderCommitment is its rung 0.                                *)
(***************************************************************************)
EXTENDS Integers, Sequences, SequencesExt

CONSTANTS
    Credential,   \* standing unlock credentials and recovery codes
    Client        \* wallet clients that may be enrolled

ASSUME OwnerAssumption == Credential \cap Client = {}

Key == (Credential \cup Client) \X Nat
NoKey == <<"none", 0>>
Owner(k) == k[1]
Rung(c, n) == <<c, n>>

\* One entry, with the parameters in force after it. Hashes keep their order.
Entry == [ukeys : SUBSET Key, hashes : Seq(Key), creds : SUBSET Credential,
          vms : SUBSET Credential, clients : SUBSET Client, by : Key]
NoEntry == [ukeys |-> {}, hashes |-> <<>>, creds |-> {}, vms |-> {},
            clients |-> {}, by |-> NoKey]

Latest(l) == l[Len(l)]
Only(S) == IF \E k \in S : S = {k} THEN CHOOSE k \in S : TRUE ELSE NoKey
\* s.filter((h) => !S.has(h)), front to back
Without(s, S) ==
    LET left[n \in 0..Len(s)] ==
            IF n = 0 THEN <<>>
            ELSE IF s[n] \in S THEN left[n - 1] ELSE Append(left[n - 1], s[n])
    IN left[Len(s)]
\* [...new Set([...s, ...t])]
Joined(s, t) == s \o Without(t, ToSet(s))

-----------------------------------------------------------------------------
(* Facts read off the log once, entry by entry. *)

\* introducedCredentialKeys, introducesLadderVm: what the document e adds to p.
IntroducedCredentialKeys(p, e) == e.creds \ p.creds
IntroducedVms(p, e) == e.vms \ p.vms

\* retiredCredentialKeys: the members the document e no longer lists.
RetiredCredentialKeys(p, e) == p.creds \ e.creds

\* indexLadderLog: what each entry adds over the one before it.
IndexLadderLog(l) ==
    <<>> \o [i \in DOMAIN l |->
        LET p == IF i = 1 THEN NoEntry ELSE l[i - 1] IN
        [ukeys |-> l[i].ukeys, hashes |-> l[i].hashes, creds |-> l[i].creds,
         vms |-> l[i].vms, clients |-> l[i].clients, by |-> l[i].by,
         addedKeys |-> l[i].ukeys \ p.ukeys,
         removedKeys |-> p.ukeys \ l[i].ukeys,
         addedHashes |-> Without(l[i].hashes, ToSet(p.hashes)),
         added |-> ToSet(l[i].hashes) \ ToSet(p.hashes),
         newVms |-> IntroducedVms(p, l[i]),
         introduced |-> IntroducedCredentialKeys(p, l[i]),
         prevHashes |-> ToSet(p.hashes), prevVms |-> p.vms,
         prevCreds |-> p.creds, prevClients |-> p.clients]]

Adds(f, i, h) == h \in f[i].added

\* commitIndex: the first entry that newly committed a hash, and where.
CommitOrigin(f, h) ==
    LET In(e) == [entry |-> e,
                  at |-> IF e = 0 THEN 0
                         ELSE SelectInSeq(f[e].addedHashes, LAMBDA x : x = h)]
    IN In(SelectInSeq(f, LAMBDA x : h \in x.added))

-----------------------------------------------------------------------------
(* Which rung a seed stands on, and what a member's commitment anchors. *)

\* attributeLadderRung: the one revealed rung, or else the one committed rung;
\* two rungs in one role, or none, refuse.
AttributeLadderRung(c, head) ==
    LET Read(revealed, committed) ==
          IF \/ revealed # {} /\ Only(revealed) = NoKey
             \/ committed # {} /\ Only(committed) = NoKey
             \/ revealed \cup committed = {}
          THEN [rung |-> NoKey, state |-> "none"]
          ELSE IF revealed # {}
          THEN [rung |-> Only(revealed), state |-> "revealed"]
          ELSE [rung |-> Only(committed), state |-> "committed"]
    IN Read({k \in head.ukeys : Owner(k) = c},
            {k \in ToSet(head.hashes) \ head.ukeys : Owner(k) = c})

\* committedByRetiredSigner: an earlier entry, whose signer entry i retires,
\* committed the hash.
CommittedByRetiredSigner(f, i, h) ==
    \E j \in 1..(i - 1) : Adds(f, j, h) /\ f[j].by \in f[i].removedKeys

\* credentialLadderAnchor over credentialLadderCommitment: the member's rung-0
\* commitment, once its latest standing run committed it.
CredentialLadderAnchored(f, c) ==
    LET starts == {i \in DOMAIN f : c \in f[i].introduced} IN
    /\ starts # {}
    /\ LET s == Max(starts) IN
       \/ CommittedByRetiredSigner(f, s, Rung(c, 0))
       \/ \E i \in s..Len(f) : /\ \A j \in s..i : c \in f[j].creds
                               /\ Adds(f, i, Rung(c, 0))

-----------------------------------------------------------------------------
(* Backwards from a recorded rung: recoverEarlierRungs. *)

\* findRungReveal: a later entry that retires the committer and authorizes the
\* key.
FindRungReveal(f, e, k) ==
    LET later == {i \in (e + 1)..Len(f) : /\ f[e].by \in f[i].removedKeys
                                          /\ k \in f[i].addedKeys}
    IN IF later = {} THEN 0 ELSE Min(later)

\* The last-position rule: the rung that signed the entry, unless the entry
\* installs inventory and the signer's ladder is not born in it.
ClimbedFrom(f, c, e) ==
    LET k == Only(f[e].addedKeys)
        installs == c \notin f[e].prevCreds \/ f[e].newVms # {}
    IN IF /\ k # NoKey /\ f[e].by = k /\ c \in f[e].creds
          /\ installs => Adds(f, e, k)
       THEN k ELSE NoKey

\* The adjacency rule: the rung committed just before, if the entry that
\* retires the committer revealed it while the credential stood.
HandedFrom(f, c, e, at) ==
    LET k == IF at > 1 THEN f[e].addedHashes[at - 1] ELSE NoKey
        i == IF k = NoKey THEN 0 ELSE FindRungReveal(f, e, k)
    IN IF i # 0 /\ c \in f[i].creds THEN k ELSE NoKey

\* recoverEarlierRungs: one rung per step, through strictly earlier entries.
RecoverEarlierRungs(f, c, anchor) ==
    LET Earlier(s, o) ==
          IF o.entry = 0 \/ o.entry >= s.entry THEN NoKey
          ELSE IF o.at = Len(f[o.entry].addedHashes)
          THEN ClimbedFrom(f, c, o.entry)
          ELSE HandedFrom(f, c, o.entry, o.at)
        Take(s, o, k) ==
          IF s.stop \/ k = NoKey \/ k \in s.rungs \cup {anchor}
          THEN [s EXCEPT !.stop = TRUE]
          ELSE [stop |-> FALSE, rungs |-> s.rungs \cup {k}, hash |-> k,
                entry |-> o.entry]
        Back(s, o) == Take(s, o, Earlier(s, o))
        Step(s) == Back(s, CommitOrigin(f, s.hash))
        after[n \in 0..Len(f)] ==
            IF n = 0 THEN [stop |-> FALSE, rungs |-> {}, hash |-> anchor,
                           entry |-> Len(f) + 1]
            ELSE Step(after[n - 1])
    IN after[Len(f)].rungs

-----------------------------------------------------------------------------
(* Forwards through the log: attributeLadderInventory. The walk carries the *)
(* keys and hashes read as the ladder's, the hashes a handover recovered,   *)
(* the revealed rung whose enrollment is pending with the hashes it claims, *)
(* and the ladder verification methods claimed.                             *)

Transferable(w, h) ==
    h \in w.hashes /\ h \notin w.derived /\ h \notin w.handed

\* The pending rung left: the client's two hashes go to the client, and the
\* rest stays only if derived or if the credential still stands.
CompletePending(f, i, c, w) ==
    LET at == SelectInSeq(w.claims, LAMBDA h : h \in f[i].addedKeys)
        moved == IF at = 0 THEN {}
                 ELSE {w.claims[j] : j \in {at, at + 1} \cap DOMAIN w.claims}
        kept == {h \in ToSet(w.claims) \ moved : c \in f[i].creds
                                                 \/ h \in w.derived}
    IN IF w.pend = NoKey \/ w.pend \in f[i].ukeys THEN w
       ELSE [w EXCEPT !.pend = NoKey, !.claims = <<>>,
                      !.hashes = @ \ (ToSet(w.claims) \ kept)]

\* A claimed hash is authorized while no rung leaves: it and its neighbour
\* become the client's, unless it took the ladder's own last position.
TransferClaims(f, i, w) ==
    LET Moved(k, o) ==
          IF /\ Transferable(w, k) /\ o.entry # 0
             /\ o.at < Len(f[o.entry].addedHashes)
          THEN {k} \cup {h \in {f[o.entry].addedHashes[o.at + 1]} :
                             Transferable(w, h)}
          ELSE {}
        Less(moved) == [w EXCEPT !.hashes = @ \ moved,
                                 !.claims = Without(@, moved)]
    IN Less(UNION {Moved(k, CommitOrigin(f, k)) : k \in f[i].addedKeys})

\* resumedRevealReplacementHashes: earlier attempts by the retired signer that
\* committed all three hashes of a spend.
ResumedReveal(f, o) ==
    LET attempts == {j \in 1..(o.entry - 1) : /\ f[j].by = f[o.entry].by
                                              /\ Len(f[j].addedHashes) # 2}
    IN /\ o.at = 1 /\ Len(f[o.entry].addedHashes) = 2
       /\ attempts # {} /\ \A j \in attempts : Len(f[j].addedHashes) = 3

\* The handover: the hash next to the revealed rung's, in an entry whose
\* signer the revealing entry retires.
HandedOver(f, i, k) ==
    LET Beside(o) ==
          LET added == f[o.entry].addedHashes IN
          IF /\ k \in f[i].prevHashes /\ o.entry # 0
             /\ o.at < Len(added) /\ f[o.entry].by \in f[i].removedKeys
             /\ o.at + 1 < Len(added) \/ ResumedReveal(f, o)
          THEN <<added[o.at + 1]>> ELSE <<>>
    IN Beside(CommitOrigin(f, k))

\* An entry that installs another credential's inventory.
ForeignVm(f, i, w) == f[i].newVms # {} /\ f[i].prevVms \cap w.vms # {}
InstallsForeign(f, i, c, w) ==
    ForeignVm(f, i, w) \/ f[i].introduced \ {c} # {}

ClaimRungOnly(f, i, c, w) ==
    LET reveals == {k \in f[i].addedKeys : k \in w.keys \cup w.hashes} IN
    IF reveals = {} THEN w
    ELSE [w EXCEPT !.keys = @ \cup reveals, !.pend = Only(reveals)]

ClaimEveryReveal(f, i, c, w) ==
    LET reveals == {k \in f[i].addedKeys : k \in w.keys \cup w.hashes}
        k == Only(reveals)
    IN IF reveals # {} /\ (k = NoKey \/ w.pend # NoKey)
       THEN [w EXCEPT !.ok = FALSE]
       ELSE IF reveals # {}
       THEN [w EXCEPT !.keys = @ \cup {k}, !.pend = k,
                      !.claims = f[i].addedHashes,
                      !.hashes = @ \cup f[i].added]
       ELSE IF w.pend # NoKey /\ f[i].by \in w.keys
       THEN [w EXCEPT !.claims = @ \o f[i].addedHashes,
                      !.hashes = @ \cup f[i].added]
       ELSE w

\* A rung is revealed, or a revealed rung's ladder signs again: the hashes
\* that entry commits are claimed, unless they are a foreign inventory's.
ClaimReveal(f, i, c, w) ==
    LET reveals == {k \in f[i].addedKeys : k \in w.keys \cup w.hashes}
        own == IF InstallsForeign(f, i, c, w) THEN <<>> ELSE f[i].addedHashes
        Pending(k, handed) ==
          [w EXCEPT !.keys = @ \cup {k}, !.pend = k,
                    !.claims = handed \o own,
                    !.hashes = @ \cup ToSet(handed \o own),
                    !.handed = @ \cup ToSet(handed)]
    IN IF reveals # {} /\ (Only(reveals) = NoKey \/ w.pend # NoKey)
       THEN [w EXCEPT !.ok = FALSE]
       ELSE IF reveals # {}
       THEN Pending(Only(reveals), HandedOver(f, i, Only(reveals)))
       ELSE IF w.pend # NoKey /\ f[i].by \in w.keys
       THEN [w EXCEPT !.claims = @ \o own, !.hashes = @ \cup ToSet(own)]
       ELSE w

\* The arms that claim a new ladder verification method: introduced with this
\* credential's member alone, with a commitment known a priori, or by a rung.
ClaimVms(f, i, c, w) ==
    LET one == \E v \in f[i].newVms : f[i].newVms = {v}
        coIntroduced == f[i].introduced = {c}
        commitment == /\ f[i].added \cap w.derived # {}
                      /\ f[i].introduced \subseteq {c}
        signer == /\ f[i].by \in w.keys /\ ~ForeignVm(f, i, w)
                  /\ f[i].introduced = {} \/ c \in f[i].introduced
    IN IF one /\ (coIntroduced \/ commitment \/ signer)
       THEN f[i].newVms ELSE {}

\* One entry: whether a foreign verification method arrives is asked of the
\* claims before the entry, whether a rung signed it after.
WalkEntry(f, i, c, w) ==
    LET WithVms(read) ==
          [read EXCEPT !.vms = (@ \ f[i].newVms) \cup ClaimVms(f, i, c, read)]
    IN IF ~w.ok THEN w
       ELSE WithVms(ClaimReveal(f, i, c,
                TransferClaims(f, i, CompletePending(f, i, c, w))))

Refused == [ok |-> FALSE, keys |-> {}, hashes |-> {}, vms |-> {}]

\* attributeLadderInventory for credential c from an anchor: its key where the
\* caller recorded one, and all rungs where it holds the seed.
AttributeLadderInventory(f, c, anchorKey, anchorHash, seeded) ==
    LET head == f[Len(f)]
        Standing(w) ==
          IF ~w.ok THEN Refused
          ELSE [ok |-> TRUE, keys |-> head.ukeys \cap w.keys,
                hashes |-> ToSet(head.hashes) \cap w.hashes,
                vms |-> head.vms \cap w.vms]
        Walk(rungs) ==
          LET known == rungs \cup {anchorHash}
              walk[i \in 0..Len(f)] ==
                IF i = 0
                THEN [ok |-> TRUE, keys |-> ({anchorKey} \ {NoKey}) \cup rungs,
                      hashes |-> known, derived |-> known, handed |-> {},
                      pend |-> NoKey, claims |-> <<>>, vms |-> {}]
                ELSE WalkEntry(f, i, c, walk[i - 1])
          IN Standing(walk[Len(f)])
    IN Walk(IF seeded
            THEN {k \in UNION {f[i].ukeys \cup ToSet(f[i].hashes) :
                                  i \in DOMAIN f} : Owner(k) = c}
            ELSE RecoverEarlierRungs(f, c, anchorHash))

\* claimLadderInventory: anchored on the member alone, or unclaimed.
ClaimLadderInventory(f, c) ==
    IF CredentialLadderAnchored(f, c)
    THEN AttributeLadderInventory(f, c, NoKey, Rung(c, 0), FALSE)
    ELSE Refused

-----------------------------------------------------------------------------
(* Enrolled clients: their active keys, their staged hashes.               *)

\* clientAddIndex, attributeActiveUpdateKeys and attributeClientUpdateKey: the
\* one key the adding entry authorized, followed through the rotations.
AttributeClientUpdateKey(f, a) ==
    LET adds == {i \in DOMAIN f : a \in f[i].clients}
        add == Min(adds)
        active[i \in 0..Len(f)] ==
            IF i < add THEN NoKey
            ELSE IF i = add THEN Only(f[i].addedKeys)
            ELSE LET k == active[i - 1]
                 IN IF k = NoKey \/ k \in f[i].ukeys THEN k
                    ELSE Only(f[i].addedKeys)
    IN IF adds = {} THEN NoKey ELSE active[Len(f)]

\* attributeStagedHash: the candidates left of what the entry that revealed
\* the key committed, or else of what the entry that committed it did. The
\* hash right after the key's own wins among several; otherwise two left over
\* are ambiguous.
AttributeStagedHash(f, k, vouched, derived) ==
    LET After(i, at) == IF at = 0 \/ at = Len(f[i].addedHashes) THEN NoKey
                        ELSE f[i].addedHashes[at + 1]
        Positional(i) == After(i, SelectInSeq(f[i].addedHashes,
                                              LAMBDA h : h = k))
        Prune(i) == (f[i].added \ ({k} \cup vouched))
                    \ (derived \ {Positional(i)})
        Settled(next, left) == IF Only(left) = NoKey /\ next \in left
                               THEN {next} ELSE left
        Settle(i) == Settled(Positional(i), Prune(i))
        reveals == {i \in DOMAIN f : k \in f[i].addedKeys}
        commits == {i \in 1..Max(reveals) : Adds(f, i, k)}
    IN IF reveals = {} THEN {}
       ELSE IF Prune(Max(reveals)) # {} THEN Settle(Max(reveals))
       ELSE IF commits = {} THEN {} ELSE Settle(Max(commits))

\* survivingClientKeyProtection: what the enrolled clients hold, the whole
\* candidate set where a staged hash is ambiguous.
SurvivingClientKeyProtection(f, derived) ==
    LET listed == f[Len(f)].clients
        Held(keyOf, known) ==
          [keys |-> {keyOf[a] : a \in known},
           hashes |-> UNION {{keyOf[a]}
                             \cup AttributeStagedHash(f, keyOf[a], {}, derived) :
                                a \in known},
           ambiguous |-> listed \ known]
        Known(keyOf) == Held(keyOf, {a \in listed : keyOf[a] # NoKey})
    IN Known([a \in listed |-> AttributeClientUpdateKey(f, a)])

\* standingCredentialLatentHashes: what the walks of the standing credentials
\* claim, for latentHashesToExclude.
StandingCredentialLatentHashes(f) ==
    UNION {ClaimLadderInventory(f, c).hashes : c \in f[Len(f)].creds}

-----------------------------------------------------------------------------
(* What a retirement may strike.                                           *)

\* attributeUnlockLadderInventory: seeded, or from the recorded rung and the
\* member's commitment, which must not name different ladders.
UnlockReading(f, c, recorded, seeded) ==
    LET Reconciled(registry, member) ==
          IF ~registry.ok THEN Refused
          ELSE IF ~CredentialLadderAnchored(f, c) THEN registry
          ELSE IF /\ member.ok /\ registry.keys \subseteq member.keys
                  /\ registry.hashes \subseteq member.hashes
                  /\ registry.vms \subseteq member.vms
               THEN member ELSE Refused
    IN IF seeded
       THEN AttributeLadderInventory(f, c, NoKey, Rung(c, 0), TRUE)
       ELSE Reconciled(AttributeLadderInventory(f, c, recorded, recorded, FALSE),
                       ClaimLadderInventory(f, c))

\* leavingSurvivingClients: a reading that names an enrolled client's key is
\* refused, as is one on the recorded key alone beside an unreadable client.
AttributeUnlockLadderInventory(f, c, recorded, seeded) ==
    LET alone == ~seeded /\ ~CredentialLadderAnchored(f, c)
        Meets(r, surviving) == \/ alone /\ surviving.ambiguous # {}
                               \/ r.keys \cap surviving.keys # {}
                               \/ r.hashes \cap surviving.hashes # {}
        Leaving(r) ==
          IF r.keys \cup r.hashes = {} THEN r
          ELSE IF Meets(r, SurvivingClientKeyProtection(f, r.hashes))
          THEN Refused ELSE r
    IN Leaving(UnlockReading(f, c, recorded, seeded))

\* ladderVmIdsIntroducedWithCredential: what could be the credential's ladder
\* verification method.
CandidateVms(f, c, recorded) ==
    UNION {f[i].newVms : i \in {j \in DOMAIN f :
               \/ c \in f[j].introduced \/ f[j].introduced = {}
               \/ Adds(f, j, recorded) \/ recorded \in f[j].addedKeys}}

\* ladderVmClaimOf and assertLadderVmClaimed: the methods a removal strikes,
\* refusing a foreign one, and refusing to strand the credential's own.
LadderVmClaim(f, c, recorded, seeded, r) ==
    LET head == f[Len(f)]
        struck == r.vms \cup (IF seeded THEN head.vms \cap {c} ELSE {})
        unclaimed == head.vms \ struck
        stranded == /\ c \in head.creds /\ ~seeded /\ struck = {}
                    /\ unclaimed \cap CandidateVms(f, c, recorded) # {}
    IN [ok |-> (seeded => r.vms \subseteq {c}) /\ ~stranded, struck |-> struck]

\* attributeRetiredCredentialRungs: the walks of the credentials a recovery
\* retires, less what it protects and what enrolled clients hold.
AttributeRetiredCredentialRungs(f, retired, keepHashes, keepKeys) ==
    LET Strike(claim, surviving) ==
          LET Hashes(c) == claim[c].hashes \ (keepHashes \cup surviving.hashes)
              Keys(c) == claim[c].keys \ (keepKeys \cup surviving.keys)
              unclaimed == {c \in retired : \/ Hashes(c) # claim[c].hashes
                                            \/ Keys(c) # claim[c].keys
                                            \/ Hashes(c) \cup Keys(c) = {}}
          IN IF surviving.ambiguous # {}
             THEN [hashes |-> {}, keys |-> {}, unclaimed |-> retired]
             ELSE [hashes |-> UNION {Hashes(c) : c \in retired},
                   keys |-> UNION {Keys(c) : c \in retired},
                   unclaimed |-> unclaimed]
        Claimed(claim) ==
          Strike(claim, SurvivingClientKeyProtection(
                            f, UNION {claim[c].hashes : c \in retired}))
    IN Claimed([c \in retired |-> ClaimLadderInventory(f, c)])

KeepAbandoned(f, spent, keep) == {}

\* abandonedSpendCommitments: what earlier attempts on the same code left
\* standing since it was issued.
AbandonedSpendCommitments(f, spent, keep) ==
    LET issues == {i \in DOMAIN f : Adds(f, i, spent)}
        left == {h \in UNION {f[i].added :
                              i \in {j \in (Max(issues) + 1)..Len(f) :
                                       f[j].by = spent}} :
                   h \in ToSet(f[Len(f)].hashes) \ keep}
        Unheld(surviving) == IF surviving.ambiguous # {} THEN {}
                             ELSE left \ surviving.hashes
    IN IF issues = {} THEN {} ELSE Unheld(SurvivingClientKeyProtection(f, left))

ReportFromWholeLog(l, x, code, r) ==
    LET f == IndexLadderLog(l)
        keep == {Rung(x, 0), Rung(x, 1), Rung(r, 0)}
        at == SelectInSeq(l, LAMBDA e : Rung(x, 0) \in e.ukeys)
        credentials == RetiredCredentialKeys(l[at - 1], l[at]) \ {code}
        strike == AttributeRetiredCredentialRungs(f, credentials, keep, {Rung(x, 0)})
    IN [credentials |-> credentials, hashes |-> strike.hashes,
        unclaimed |-> strike.unclaimed]

\* recoverySpendRetirementFromLog: the report of a finished spend, recomputed
\* over the log before the first entry that authorizes the successor.
RecoverySpendRetirementFromLog(l, x, code, r) ==
    LET at == SelectInSeq(l, LAMBDA e : Rung(x, 0) \in e.ukeys)
        keep == {Rung(x, 0), Rung(x, 1), Rung(r, 0)}
        Abandoned(f) ==
          IF CredentialLadderAnchored(f, code) /\ Rung(code, 0) \in Latest(f).ukeys
          THEN AbandonedSpendCommitments(f, Rung(code, 0), keep) ELSE {}
        Report(credentials, strike, abandoned) ==
          [credentials |-> credentials, hashes |-> strike.hashes \cup abandoned,
           unclaimed |-> strike.unclaimed]
        Read(f, credentials) ==
          Report(credentials,
                 AttributeRetiredCredentialRungs(f, credentials, keep, {Rung(x, 0)}),
                 Abandoned(f))
    IN IF at = 0 THEN [credentials |-> {}, hashes |-> {}, unclaimed |-> {}]
       ELSE Read(IndexLadderLog(SubSeq(l, 1, at - 1)),
                 RetiredCredentialKeys(l[at - 1], l[at]) \ {code})

-----------------------------------------------------------------------------
(* The license of a ladder-signed append to a resource log.                *)

\* attributeLadderRungsPerVersion, one entry: which rungs each standing ladder
\* verification method is known by. claims and climbs are pending hashes.
OwnerIn(pairs, k) ==
    LET S == {p[1] : p \in {q \in pairs : q[2] = k}}
    IN IF S = {} THEN "none" ELSE CHOOSE v \in S : TRUE

AttributeRungs(f, i, s) ==
    LET k == Only(f[i].addedKeys)
        signed == k # NoKey /\ f[i].by = k
        \* a claimed rung 0 is revealed
        claimed == {p \in s.claims : p[2] \in f[i].addedKeys}
        r1 == s.rungs \cup {p \in claimed : p[1] \notin s.refused \cup {"none"}}
        \* a climb is revealed by its own signature
        climbed == {p \in s.climbs : signed /\ p[2] = k}
        r2 == r1 \cup {p \in climbed : /\ p[1] \notin s.refused
                                       /\ p[1] \in f[i].vms
                                       /\ \E q \in r1 : q[1] = p[1]}
        owner == IF k = NoKey THEN "none" ELSE OwnerIn(r2, k)
        \* a new ladder verification method, alone in its entry
        one == \E v \in f[i].newVms : f[i].newVms = {v}
        vm == CHOOSE v \in f[i].newVms : TRUE
        own == /\ signed /\ owner = "none"
               /\ f[i].clients \subseteq f[i].prevClients
        commits == /\ Len(f[i].addedHashes) = 1
                   /\ f[i].addedKeys = {} \/ owner # "none"
        kept == {p \in r2 : p[1] \notin f[i].newVms}
        r3 == IF one /\ own THEN kept \cup {<<vm, k>>} ELSE kept
        claims == s.claims \ claimed
        h == IF f[i].addedHashes = <<>> THEN NoKey
             ELSE f[i].addedHashes[Len(f[i].addedHashes)]
        claimsHere == one /\ ~own /\ commits
        signing == IF signed THEN OwnerIn(r3, k) ELSE "none"
    IN [rungs |-> r3,
        claims |-> IF ~claimsHere THEN claims
                   ELSE {p \in claims : p[2] # h}
                        \cup {<<IF \E p \in claims : p[2] = h THEN "none"
                                ELSE vm, h>>},
        refused |-> IF f[i].newVms = {} THEN s.refused
                    ELSE IF one /\ (own \/ commits) THEN s.refused \ {vm}
                    ELSE s.refused \cup f[i].newVms,
        climbs |-> LET c == s.climbs \ climbed
                   IN IF signing = "none" \/ h = NoKey \/ claimsHere THEN c
                      ELSE {p \in c : p[2] # h} \cup {<<signing, h>>}]

LadderRungKeysAt(f, v) ==
    LET state[i \in 0..v] ==
            IF i = 0 THEN [rungs |-> {}, claims |-> {}, refused |-> {},
                           climbs |-> {}]
            ELSE AttributeRungs(f, i, state[i - 1])
    IN {p \in state[v].rungs : p[2] \in f[v].ukeys \cup {f[v].by}}

\* assertLadderAppendLicensed: the version changed the credential inventory, or
\* the enrolled clients under a rung of this very ladder.
LadderAppendLicensed(f, v, c) ==
    \/ f[v].vms # f[v].prevVms \/ f[v].creds # f[v].prevCreds
    \/ /\ f[v].clients # f[v].prevClients
       /\ <<c, f[v].by>> \in LadderRungKeysAt(f, v)

=============================================================================

--------------------------- MODULE AccountClients ---------------------------
(***************************************************************************)
(* What the account log amounts to, with nothing of how it is written: a   *)
(* set of wallet clients edited one at a time. A client is founded or is   *)
(* invited and then enrolled, rotates its update key while it is enrolled, *)
(* and is removed, never as the last one. Whoever is enrolled holds one    *)
(* authorized key and has one next key committed; whoever is removed holds *)
(* nothing. What the ceremonies of other clients race with, retry or leave *)
(* half done never shows in it. Nothing more is said of a client that is   *)
(* invited again when nothing of its invitation stands any more.           *)
(***************************************************************************)
EXTENDS Integers

CONSTANTS Client

VARIABLE client   \* [Client -> its phase, authorized keys, committed hashes]

vars == <<client>>

New == [phase |-> "new", keys |-> {}, hashes |-> {}]
ApprovedAgain == [phase |-> "approvedAgain", keys |-> {}, hashes |-> {}]
Removed == [phase |-> "removed", keys |-> {}, hashes |-> {}]
Invited(hashes) == [phase |-> "invited", keys |-> {}, hashes |-> hashes]
Enrolled(key, next) ==
    [phase |-> "enrolled", keys |-> {key}, hashes |-> {key, next}]

\* The two keys a client is minted with.
First(c) == <<c, 1>>
Second(c) == <<c, 2>>

Init == client = [c \in Client |-> New]

Becomes(c, standing) == client' = [client EXCEPT ![c] = standing]

Found(c) ==
    /\ \A d \in Client : client[d] = New
    /\ Becomes(c, Enrolled(First(c), Second(c)))

Invite(c) ==
    /\ client[c] = New
    /\ Becomes(c, Invited({First(c), Second(c)}))

\* The invited key goes, the one meant to follow it stays committed.
Withdraw(c) ==
    /\ client[c] = Invited({First(c), Second(c)})
    /\ Becomes(c, Invited({Second(c)}))

Enroll(c) ==
    /\ client[c] = Invited({First(c), Second(c)})
    /\ Becomes(c, Enrolled(First(c), Second(c)))

\* The next key becomes the key, and a key that is neither is committed.
Rotate(c) ==
    \E key, next \in client[c].hashes, fresh \in client'[c].hashes :
        /\ key # next /\ fresh \notin {key, next}
        /\ client[c] = Enrolled(key, next)
        /\ Becomes(c, Enrolled(next, fresh))

Remove(c) ==
    /\ client[c].phase = "enrolled"
    /\ \E d \in Client \ {c} : client[d].phase \in {"enrolled", "approvedAgain"}
    /\ Becomes(c, Removed)

\* Its invitation no longer stands, and is made again.
ApproveAgain(c) ==
    /\ client[c].phase \in {"invited", "enrolled", "removed"}
    /\ First(c) \notin client[c].hashes
    /\ Becomes(c, ApprovedAgain)

Next == \E c \in Client :
    Found(c) \/ Invite(c) \/ Withdraw(c) \/ Enroll(c) \/ Rotate(c) \/ Remove(c)
        \/ ApproveAgain(c)

Spec == Init /\ [][Next]_vars
=============================================================================

---- MODULE MCReplication ----
EXTENDS Replication
CONSTANTS c1, c2, d1, d2
\* c2 holds no key for payload 2, so c1's write of it reaches c2 unreadable.
OneUnreadable == [c \in Client |-> IF c = c2 THEN {2} ELSE {}]

\* One document of either kind with a failed exchange, and two documents that
\* reach a pull on two pages, one replica deleting.
Heads == [kind |-> "heads", docs |-> {d1}, payloads |-> {1, 2, 3},
          deleters |-> {c1, c2}, faults |-> 1]
Inserts == [Heads EXCEPT !.kind = "inserts", !.payloads = {1}]
Pages == [kind |-> "heads", docs |-> {d1, d2}, payloads |-> {1, 3},
          deleters |-> {c2}, faults |-> 0]
AllSetups == {Heads, Inserts, Pages}
InsertsOnly == {Inserts}
====

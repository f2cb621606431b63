---- MODULE MCKeyCascade ----
EXTENDS KeyCascade
CONSTANTS a, b, x, t
\* A pair of clients that both revoke and may enroll a third, with three edits
\* or with two and a ceremony cut short; and clients of which one revokes two.
Pair == [members |-> {a, b}, revokers |-> {a, b}, enrollees |-> {t},
         forgetters |-> {}, credential |-> {}, edits |-> 3, crashes |-> 0]
TornPair == [Pair EXCEPT !.edits = 2, !.crashes = 1]
OneOfThree == [Pair EXCEPT !.members = {a, b, x}, !.revokers = {a},
                           !.enrollees = {}, !.edits = 2]
\* A pair with a credential: one of them forgets itself, possibly torn, while
\* the other signs in, enrolls or removes it.
Forgetting == [TornPair EXCEPT !.members = {a, b, x}, !.credential = {x},
                               !.forgetters = {a}, !.revokers = {b}]
AllSetups == {Pair, TornPair, OneOfThree, Forgetting}
\* Two of four revoke the other two.
TwoOfFour == {[OneOfThree EXCEPT !.members = {a, b, x, t}, !.revokers = {a, b}]}
====

---------------------------- MODULE MCPollCycle ----------------------------
(* Small instances of PollCycle for TLC.                                   *)
EXTENDS PollCycle

CONSTANTS k1, k2, a1, a2

OneAccount == [k \in Keys |-> a1]
SecondAccount == [k \in Keys |-> a2]

ApplyOnly == {[accounts |-> Accounts, apply |-> TRUE]}
DryThenApply == {[accounts |-> Accounts, apply |-> b] : b \in BOOLEAN}
DropAccount == {[accounts |-> S, apply |-> TRUE] : S \in {{a1}, {a1, a2}}}

Plain    == [actions |-> {}, excluded |-> FALSE, loud |-> TRUE]
Excluded == [actions |-> {}, excluded |-> TRUE, loud |-> TRUE]
Quiet    == [actions |-> {}, excluded |-> FALSE, loud |-> FALSE]
MarkRead == [actions |-> {"mark_read"}, excluded |-> FALSE, loud |-> TRUE]
Dismiss  == [actions |-> {"dismiss"}, excluded |-> FALSE, loud |-> TRUE]
Both     == [actions |-> ActionTypes, excluded |-> FALSE, loud |-> TRUE]

ActingRules == {Plain, Both}
AllRules == {Plain, Excluded, Quiet, MarkRead, Dismiss}
NoRules == {Plain}
=============================================================================

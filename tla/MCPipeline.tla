----------------------------- MODULE MCPipeline -----------------------------
(* A small instance of Pipeline for TLC: two accounts, a pull request both *)
(* are notified of, a subject to recover, a release and a check suite.     *)
EXTENDS Pipeline

CONSTANTS a, b

MCItems == <<
  [account |-> a, thread |-> 1, subject |-> 1, kind |-> "pull", missing |-> TRUE, comment |-> TRUE],
  [account |-> b, thread |-> 1, subject |-> 1, kind |-> "pull", missing |-> FALSE, comment |-> TRUE],
  [account |-> b, thread |-> 2, subject |-> 2, kind |-> "suite", missing |-> FALSE, comment |-> FALSE],
  [account |-> a, thread |-> 3, subject |-> 3, kind |-> "release", missing |-> TRUE, comment |-> FALSE],
  [account |-> a, thread |-> 4, subject |-> 1, kind |-> "pull", missing |-> FALSE, comment |-> FALSE]
>>
=============================================================================

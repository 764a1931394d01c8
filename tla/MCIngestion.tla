---------------------------- MODULE MCIngestion ----------------------------
EXTENDS Ingestion, TLC
CONSTANTS k1, k2, k3
OneAccount == {"primary"}
AllPrimary == [k \in Keys |-> "primary"]
TwoListed == {k1 :> 2 @@ k2 :> 1 @@ k3 :> 0}
=============================================================================

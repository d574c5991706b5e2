------------------------------ MODULE MCTTLCache ------------------------------
(***************************************************************************)
(* A url and two keys of the scripts' own for two entries, and sizes that  *)
(* make either limit of the cache the one that is hit: "page" fills it     *)
(* alone, "huge" may be downloaded and is refused by it, "giant" is more   *)
(* than a download may bring.                                              *)
(***************************************************************************)
EXTENDS Downloads, TLC

MCUrls == {"u"}
MCKeys == MCUrls \cup {"k1", "k2"}
MCImages == {"small", "huge", "giant"}
MCValues == MCImages \cup {"empty", "page"}
MCSize == [v \in MCValues |->
  CASE v = "empty" -> 0 [] v = "small" -> 1 [] v = "page" -> 3 [] v = "huge" -> 4
    [] v = "giant" -> 5]
MCKept == {"small", "page", "huge"}
MCTTLs == {0, 1}

Symmetric == Permutations(Fetchers)
===============================================================================

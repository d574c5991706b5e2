--------------------------- MODULE MCQwenServices ---------------------------
(***************************************************************************)
(* Two requests over one account, a pool of two identities for two uses.   *)
(***************************************************************************)
EXTENDS QwenServices
=============================================================================

--------------------------- MODULE MCFallbackStore ---------------------------
(***************************************************************************)
(* Two uploads and a probe share one store.  The probe gives up before the *)
(* uploads do and the cooldown outlasts the uploads' timeout, as in the    *)
(* default settings (5 s, 25 s and 30 s).                                  *)
(***************************************************************************)
EXTENDS FallbackStore

MCUploads == {"u1", "u2"}
MCProbes == {"p1"}
==============================================================================

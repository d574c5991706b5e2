------------------------------ MODULE MCCascade ------------------------------
(***************************************************************************)
(* Cascade with small timeouts.  The budgets are chosen so that a cascade  *)
(* can end within its budget, run out of it between two calls, during a    *)
(* call, in a poll's sleep and in a phase.                                 *)
(***************************************************************************)
EXTENDS Cascade

MCScriptTimeout == 1
MCUpstreamTimeout == 2
MCPollRequestTimeout == 1
MCPollInterval == 1
MCPollTimeout == 3
MCPollMaxAttempts == 2
MCEmits == {[timeout |-> 0, local |-> FALSE], [timeout |-> 3, local |-> FALSE],
            [timeout |-> 0, local |-> TRUE]}
MCBodies == {"b1"}
Configuration(auth, async, polls, total) ==
  [auth |-> auth, async |-> async, polls |-> polls, total |-> total]
Declaration(c, stages, fallbacks) ==
  {[cfg |-> c, n |-> stages, fallback |-> f, reshapes |-> r] :
     f \in fallbacks, r \in BOOLEAN}

\* Three plain stages: what is skipped, kept and given up along the way.
PlainCascades == Declaration(Configuration(FALSE, FALSE, FALSE, 3), 3, {{}, {1, 3}, {2, 3}})

\* Two stages whose calls are jobs, with and without poll phases.
JobCascades ==
  UNION {Declaration(Configuration(FALSE, TRUE, p, t), 2, {{}, {2}}) :
           p \in BOOLEAN, t \in {2, 4}}

\* Two stages behind an auth phase.
AuthCascades == Declaration(Configuration(TRUE, FALSE, FALSE, 4), 2, {{1}, {2}})

MCCascades == PlainCascades \cup JobCascades \cup AuthCascades
MCConfigs == {c.cfg : c \in MCCascades}
=============================================================================

---------------------------- MODULE MCSingleCall ----------------------------
(***************************************************************************)
(* SingleCall with small timeouts: every cap can be reached, every call    *)
(* can time out or answer first, and a job can use up its attempts or its  *)
(* deadline, whichever the interval lets come first.                       *)
(***************************************************************************)
EXTENDS SingleCall

MCScriptTimeout == 1
MCUpstreamTimeout == 2
MCPollRequestTimeout == 1
MCPollInterval == 1
MCPollTimeout == 4
MCPollMaxAttempts == 3
MCEmits == {[timeout |-> 0, local |-> FALSE], [timeout |-> 3, local |-> FALSE],
            [timeout |-> 0, local |-> TRUE]}
\* Poll phases are only ever looked at on a job channel.
MCConfigs == {c \in [auth : BOOLEAN, async : BOOLEAN, polls : BOOLEAN, total : {0}] :
                c.polls => c.async}
MCBodies == {"b1", "b2"}
=============================================================================

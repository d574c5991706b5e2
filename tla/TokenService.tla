---------------------------- MODULE TokenService -----------------------------
(***************************************************************************)
(* tools/token_service.py: a thread for each GET /token, one lock and one  *)
(* cached token for each account, and the sign-in that runs while the lock *)
(* is held.  An HTTP request is named after the caller that sent it.       *)
(***************************************************************************)
EXTENDS Integers, FiniteSets

CONSTANTS
  Callers,
  Accounts,   \* the --account options
  Unknown,    \* an account that is none of them
  TokenTtl    \* --ttl

None == "none"

ASSUME TokenAssumption ==
  TokenTtl \in Nat \ {0} /\ Unknown \notin Accounts /\ None \notin Callers

VARIABLES
  tokens,   \* _tokens: the time each account's token was stored, or Never
  locks,    \* the thread that holds the lock of each account, or None
  thread    \* of each caller: [at, account]

tokenVars == <<tokens, locks, thread>>

Never == -1
Idle == [at |-> "idle", account |-> None]

TokenInit ==
  /\ tokens = [a \in Accounts |-> Never]
  /\ locks = [a \in Accounts |-> None]
  /\ thread = [c \in Callers |-> Idle]

Fresh(a, now) == tokens[a] # Never /\ now - tokens[a] < TokenTtl

Goes(c, where) == thread' = [thread EXCEPT ![c].at = where]

\* A request comes in; for an account that is not served it is refused at once.
TokenAsked(c, a) ==
  /\ thread' = [thread EXCEPT ![c] =
                 [at |-> IF a \in Accounts THEN "asking" ELSE "refused", account |-> a]]
  /\ UNCHANGED <<tokens, locks>>

Unlocked(a) == TRUE
Available(a) == locks[a] = None

\* Inside the lock, the cache is looked at; a fresh token releases it again.
Enters(c, now) ==
  /\ thread[c].at = "asking" /\ Available(thread[c].account)
  /\ IF Fresh(thread[c].account, now) THEN Goes(c, "served") /\ UNCHANGED locks
     ELSE Goes(c, "signing") /\ locks' = [locks EXCEPT ![thread[c].account] = c]
  /\ UNCHANGED tokens

Leaves(c, where) ==
  /\ Goes(c, where)
  /\ locks' = [locks EXCEPT ![thread[c].account] = None]

\* mint_token: a connection for the warm-up visit, whose outcome does not matter once
\* it is open, and another one for the sign-in.
SignsIn(c, now) ==
  /\ thread[c].at = "signing"
  /\ tokens' = [tokens EXCEPT ![thread[c].account] = now]
  /\ Leaves(c, "served")

\* The proxy, the challenge page or the vendor refuses: a MintError, answered 503.
SignInRefused(c) ==
  /\ thread[c].at = "signing"
  /\ Leaves(c, "refused")
  /\ UNCHANGED tokens

\* Any other exception leaves the handler: the connection closes without an answer.
SignInBreaks(c) ==
  /\ thread[c].at = "signing"
  /\ Leaves(c, "dropped")
  /\ UNCHANGED tokens

\* The answer is read, or nobody is left to read it.
Answers(c) == thread[c].at \in {"served", "refused", "dropped"}

TokenStep(c, now) ==
  Enters(c, now) \/ SignsIn(c, now) \/ SignInRefused(c) \/ SignInBreaks(c)

\* The process is interrupted and started again: tokens live in its memory alone.
TokenRestarts ==
  /\ tokens' = [a \in Accounts |-> Never]
  /\ locks' = [a \in Accounts |-> None]
  /\ thread' = [c \in Callers |->
                 IF thread[c].at \in {"asking", "signing"}
                 THEN [thread[c] EXCEPT !.at = "dropped"] ELSE thread[c]]

TokenTypeOK(now) ==
  /\ tokens \in [Accounts -> Never..now]
  /\ locks \in [Accounts -> Callers \cup {None}]
  /\ \A c \in Callers :
       thread[c] \in [at : {"idle", "asking", "signing", "served", "refused",
                            "dropped"}, account : Accounts \cup {Unknown, None}]
=============================================================================

---------------------------- MODULE QwenServices -----------------------------
(***************************************************************************)
(* The two services a qwen channel may be given, with the requests of the  *)
(* script as their callers: a request of an account asks the token service *)
(* first and, when that has none for it, goes to the guest door, where it  *)
(* needs an identity of the identity service.                              *)
(***************************************************************************)
EXTENDS IdentityService, TokenService

VARIABLES
  call     \* whom the script's request waits for, until it has a door or none

servicesVars == <<now, identityVars, tokenVars, call, faults>>

ServicesInit ==
  /\ now = 0
  /\ IdentityInit /\ TokenInit
  /\ call = [c \in Callers |-> "new"]

Moves(c, where) == call' = [call EXCEPT ![c] = where]

-----------------------------------------------------------------------------
\* A request of an account, served or not, and one of the guest door.
AccountCalls(c) ==
  /\ call[c] = "new"
  /\ \E a \in Accounts \cup {Unknown} : TokenAsked(c, a)
  /\ Moves(c, "token")
  /\ UNCHANGED <<now, identityVars, faults>>

GuestCalls(c) ==
  /\ call[c] = "new"
  /\ Moves(c, "guest")
  /\ UNCHANGED <<now, identityVars, tokenVars, faults>>

TokenAnswered(c) ==
  /\ call[c] = "token" /\ Answers(c)
  /\ Moves(c, IF thread[c].at = "served" THEN "done" ELSE "guest")
  /\ thread' = [thread EXCEPT ![c] = Idle]
  /\ UNCHANGED <<now, identityVars, tokens, locks, faults>>

\* The phase is over before the service has answered; its thread goes on.
GivesUp(c) ==
  /\ call[c] = "token"
  /\ Moves(c, "done")
  /\ UNCHANGED <<now, identityVars, tokenVars, faults>>

\* While main() warms up the socket is bound and a caller waits in its queue.  What it
\* asked for is taken whether it is still there or not.
IdentityAnswered(c) ==
  /\ call[c] = "guest" /\ main = "serving"
  /\ IF Live = <<>> THEN Prune /\ Moves(c, "done") ELSE Take /\ Moves(c, "done")
  /\ UNCHANGED <<now, refill, browser, main, since, tokenVars, faults>>

IdentityRefused(c) ==
  /\ call[c] = "guest" /\ main \in {"stopping", "closed"}
  /\ Moves(c, "done")
  /\ UNCHANGED <<now, identityVars, tokenVars, faults>>

-----------------------------------------------------------------------------
TokenThread(c) == TokenStep(c, now) /\ UNCHANGED <<now, identityVars, call, faults>>

RefillThread ==
  (RefillStep \/ RefillFails \/ BrowserStarts \/ PageGivesIdentity)
    /\ UNCHANGED <<now, tokenVars, call, faults>>

Main == MainStep /\ UNCHANGED <<now, tokenVars, call, faults>>

\* A killed process takes the callers in its queue with it.
Killed ==
  /\ IdentityKilled
  /\ call' = [c \in Callers |-> IF call[c] = "guest" THEN "done" ELSE call[c]]

Fault ==
  /\ faults < MaxFaults /\ faults' = faults + 1
  /\ \/ (BrowserDies \/ Interrupted) /\ UNCHANGED <<tokenVars, call>>
     \/ Killed /\ UNCHANGED tokenVars
     \/ TokenRestarts /\ UNCHANGED <<identityVars, call>>
  /\ UNCHANGED now

Polled == Health /\ UNCHANGED <<now, faults, tokenVars, call>>

ServicesTick ==
  /\ now < Horizon /\ now' = now + 1
  /\ UNCHANGED <<identityVars, tokenVars, call, faults>>

ServicesNext ==
  \/ \E c \in Callers :
       \/ AccountCalls(c) \/ GuestCalls(c) \/ TokenAnswered(c) \/ GivesUp(c)
       \/ IdentityAnswered(c) \/ IdentityRefused(c) \/ TokenThread(c)
  \/ RefillThread \/ Main \/ Fault \/ Polled \/ ServicesTick

\* Threads are scheduled, and every call they make has a timeout.  Of the world it is
\* assumed that the browser starts, and that its page gives an identity, if it is
\* tried again and again.
ServicesFairness ==
  /\ \A c \in Callers : WF_servicesVars(TokenThread(c))
  /\ WF_servicesVars(RefillThread) /\ WF_servicesVars(Main)
  /\ SF_servicesVars(BrowserStarts /\ RefillThread)
  /\ SF_servicesVars(PageGivesIdentity /\ RefillThread)

ServicesSpec == ServicesInit /\ [][ServicesNext]_servicesVars /\ ServicesFairness

-----------------------------------------------------------------------------
ServicesTypeOK ==
  /\ now \in 0..Horizon /\ faults \in 0..MaxFaults
  /\ IdentityTypeOK /\ TokenTypeOK(now)
  /\ call \in [Callers -> {"new", "token", "guest", "done"}]

\* No identity goes out more often, or later, than its quota lasts; and none goes out
\* a second time while another that was there the first time still waits, however
\* takers, mints and expiries interleave.
SpentInTurn ==
  [][\A e \in ToSet(pool), f \in ToSet(pool') :
       (f.id = e.id /\ f.uses > e.uses) =>
          /\ f.uses <= MaxUses /\ now - e.born < Ttl
          /\ e.others \cap Ids(Live) = {}]_servicesVars

\* However many requests ask for an account, and whichever of them gave up: one
\* sign-in at a time, and none while the token of the last one is fresh.
MintedOnce ==
  /\ ServicesTypeOK
  /\ \A a \in Accounts :
       LET minting == {c \in Callers : thread[c].account = a /\ thread[c].at = "signing"}
       IN Cardinality(minting) <= 1 /\ (minting # {} => ~Fresh(a, now))

\* The threads of the token service end, and after browsers that died, mints that
\* failed, stops and restarts, the pool is being served and full again.
ServicesCarryOn ==
  /\ \A c \in Callers : (thread[c].at = "asking") ~> Answers(c)
  /\ <>[](main = "serving" /\ Len(Live) = Target)
=============================================================================

---------------------------- MODULE FallbackStore ----------------------------
(***************************************************************************)
(* storage/fallback_store.py: two object stores behind one port, the       *)
(* primary behind a negative cache.  One worker process, in which uploads  *)
(* (ctx.upload_temp_image) and health probes interleave at every await.    *)
(*                                                                         *)
(* Durations are kept as what is left of them, so time needs no bound:     *)
(* `park` is what is left of _parked_until, `timer` what is left of the    *)
(* asyncio timeout around a call.                                          *)
(***************************************************************************)
EXTENDS Integers

CONSTANTS
  Uploads,        \* coroutines inside ctx.upload_temp_image
  Probes,         \* coroutines inside health._storage_ok
  Cooldown,       \* settings.storage_failover_cooldown
  UploadTimeout,  \* settings.storage_upload_timeout
  ProbeTimeout    \* health._PROBE_TIMEOUT

ASSUME FallbackAssumption ==
  /\ Cooldown \in Nat \ {0}
  /\ UploadTimeout \in Nat \ {0} /\ ProbeTimeout \in Nat \ {0}
  /\ Uploads \cap Probes = {}

VARIABLES
  primary,   \* the primary backend: "up", "down" (it raises) or "hung" (it is silent)
  park,      \* time until the primary may be asked again; 0: not parked
  pc,        \* per coroutine: "idle", or the store it awaits
  timer,     \* per coroutine: what is left of its timeout
  troubled,  \* per coroutine: the primary was not up all through its attempt
  outcome,   \* per upload: what its last call returned
  age,       \* history: time since the last failure noted with no success since
  quiet,     \* history: time since the last report with no success since
  storm      \* history: a failover was reported twice within one cooldown

vars == <<primary, park, pc, timer, troubled, outcome, age, quiet, storm>>
historyVars == <<age, quiet, storm>>

Tasks == Uploads \cup Probes
Outcomes == {"none", "primary", "secondary", "data_uri", "cancelled"}

\* Histories stop counting here: one more than a park can last.
Long == Cooldown + 1

Init ==
  /\ primary \in {"up", "down", "hung"}
  /\ park = 0
  /\ pc = [t \in Tasks |-> "idle"]
  /\ timer = [t \in Tasks |-> 0]
  /\ troubled = [t \in Tasks |-> FALSE]
  /\ outcome = [u \in Uploads |-> "none"]
  /\ age = Long /\ quiet = Long /\ storm = FALSE

-----------------------------------------------------------------------------
(* The park. *)

Parked == park > 0

\* Set for a whole cooldown, parked already or not; reported on the transition.
ParkSilently == park' = Cooldown /\ age' = 0 /\ UNCHANGED <<quiet, storm>>
ParkAndReport ==
  /\ park' = Cooldown
  /\ age' = 0
  /\ quiet' = 0
  /\ storm' = (storm \/ quiet < Cooldown)
ParkOnce == IF Parked THEN age' = 0 /\ UNCHANGED <<park, quiet, storm>> ELSE ParkAndReport
ReportAlways == ParkAndReport
Park == IF Parked THEN ParkSilently ELSE ParkAndReport

\* A success stands the secondary down.
Unpark == park' = 0 /\ age' = Long /\ quiet' = Long /\ UNCHANGED storm

\* Coroutine t goes on to the secondary, or returns.
MoveOn(t, place) ==
  /\ pc' = [pc EXCEPT ![t] = place]
  /\ troubled' = [troubled EXCEPT ![t] = FALSE]
GoToSecondary(t) == MoveOn(t, "secondary") /\ UNCHANGED timer
Leave(t) == MoveOn(t, "idle") /\ timer' = [timer EXCEPT ![t] = 0]
Return(u, result) == Leave(u) /\ outcome' = [outcome EXCEPT ![u] = result]

\* Its attempt on the primary begins.
Attempt(t) ==
  /\ pc' = [pc EXCEPT ![t] = "primary"]
  /\ troubled' = [troubled EXCEPT ![t] = primary # "up"]

-----------------------------------------------------------------------------
(* One upload: put(), under the timeout of upload_temp_image. *)

StartUpload(u) ==
  /\ pc[u] = "idle"
  /\ timer' = [timer EXCEPT ![u] = UploadTimeout]
  /\ outcome' = [outcome EXCEPT ![u] = "none"]
  /\ IF Parked THEN MoveOn(u, "secondary") ELSE Attempt(u)
  /\ UNCHANGED <<primary, park, historyVars>>

PrimaryStores(u) ==
  /\ pc[u] = "primary"
  /\ primary = "up"
  /\ Unpark
  /\ Return(u, "primary")
  /\ UNCHANGED primary

\* A failure is noted when it arrives, whatever the primary has become since the
\* attempt began, and the upload goes on to the secondary.
PrimaryFails(u) ==
  /\ pc[u] = "primary"
  /\ troubled[u]
  /\ Park
  /\ GoToSecondary(u)
  /\ UNCHANGED <<primary, outcome>>

\* The secondary stores the bytes, or raises and the caller gets a data URI.
SecondaryAnswers(u) ==
  /\ pc[u] = "secondary"
  /\ \E result \in {"secondary", "data_uri"} : Return(u, result)
  /\ UNCHANGED <<primary, park, historyVars>>

\* The timeout cancels whichever store is awaited.  A CancelledError is not an
\* Exception, so put() notes nothing.
TimesOutOnPrimary(u) ==
  /\ pc[u] = "primary"
  /\ timer[u] = 0
  /\ Return(u, "data_uri")
  /\ UNCHANGED <<primary, park, historyVars>>
UploadTimesOut(u) ==
  /\ pc[u] # "idle"
  /\ timer[u] = 0
  /\ Return(u, "data_uri")
  /\ UNCHANGED <<primary, park, historyVars>>

\* The phase cap, or a client that goes away, cancels the script around it.
UploadCancelled(u) ==
  /\ pc[u] # "idle"
  /\ Return(u, "cancelled")
  /\ UNCHANGED <<primary, park, historyVars>>

-----------------------------------------------------------------------------
(* One probe: ping(), which asks the primary even while it is parked. *)

StartProbe(p) ==
  /\ pc[p] = "idle"
  /\ timer' = [timer EXCEPT ![p] = ProbeTimeout]
  /\ Attempt(p)
  /\ UNCHANGED <<primary, park, outcome, historyVars>>

ProbeHealthy(p) ==
  /\ pc[p] = "primary"
  /\ primary = "up"
  /\ Unpark
  /\ Leave(p)
  /\ UNCHANGED <<primary, outcome>>

\* The primary's ping raises, which parks it again, or returns False, which parks
\* it only if nothing has.
ProbeUnhealthy(p) ==
  /\ pc[p] = "primary"
  /\ troubled[p]
  /\ \/ Park
     \/ Parked /\ UNCHANGED <<park, historyVars>>
  /\ GoToSecondary(p)
  /\ UNCHANGED <<primary, outcome>>

ProbeEnds(p) ==
  /\ \/ pc[p] = "secondary"
     \/ pc[p] = "primary" /\ timer[p] = 0
  /\ Leave(p)
  /\ UNCHANGED <<primary, park, outcome, historyVars>>

-----------------------------------------------------------------------------
(* The environment. *)

PrimaryBecomes(state) ==
  /\ primary # state
  /\ primary' = state
  /\ troubled' = [t \in Tasks |-> troubled[t] \/ (pc[t] = "primary" /\ state # "up")]
  /\ UNCHANGED <<park, pc, timer, outcome, historyVars>>

NeverLess(n) == n
Unfloored(n) == n - 1
Less(n) == IF n = 0 THEN 0 ELSE n - 1
Older(n) == IF n < Long THEN n + 1 ELSE n

\* Time passes, but not past a timer that is due.
Due(t) == pc[t] # "idle" /\ timer[t] = 0
Tick ==
  /\ \A t \in Tasks : ~Due(t)
  /\ park' = Less(park)
  /\ timer' = [t \in Tasks |-> Less(timer[t])]
  /\ age' = Older(age) /\ quiet' = Older(quiet)
  /\ UNCHANGED <<primary, pc, troubled, outcome, storm>>

UploadStep(u) ==
  \/ PrimaryStores(u)
  \/ PrimaryFails(u)
  \/ SecondaryAnswers(u)
  \/ UploadTimesOut(u)
  \/ UploadCancelled(u)

ProbeStep(p) == ProbeHealthy(p) \/ ProbeUnhealthy(p) \/ ProbeEnds(p)

Next ==
  \/ \E u \in Uploads : StartUpload(u) \/ UploadStep(u)
  \/ \E p \in Probes : StartProbe(p) \/ ProbeStep(p)
  \/ \E state \in {"up", "down", "hung"} : PrimaryBecomes(state)
  \/ Tick

\* Time passes and due timers fire.  Neither store has to answer, and nobody has
\* to call.
Fairness ==
  /\ WF_vars(Tick)
  /\ \A u \in Uploads : WF_vars(UploadTimesOut(u))
  /\ \A p \in Probes : WF_vars(ProbeEnds(p))

Spec == Init /\ [][Next]_vars /\ Fairness

-----------------------------------------------------------------------------
\* Every variable stays in its type; no timer outlives the timeout it was set to.
TypeOK ==
  /\ primary \in {"up", "down", "hung"}
  /\ park \in 0..Cooldown
  /\ pc \in [Tasks -> {"idle", "primary", "secondary"}]
  /\ timer \in [Tasks -> Nat]
  /\ \A u \in Uploads : timer[u] <= UploadTimeout
  /\ \A p \in Probes : timer[p] <= ProbeTimeout
  /\ troubled \in [Tasks -> BOOLEAN]
  /\ outcome \in [Uploads -> Outcomes]
  /\ age \in 0..Long /\ quiet \in 0..Long
  /\ storm \in BOOLEAN

\* "being wrong is bounded": the primary is parked only for what is left of one
\* cooldown after a failure that no success has answered since, whichever upload
\* or probe noted either.
ParkedOnEvidence == park = IF age < Cooldown THEN Cooldown - age ELSE 0

\* "a primary that stays down is reported once per cooldown, not once per probe":
\* between two reports there is a success or a whole cooldown, however many
\* uploads and probes fail together.
NoReportStorm == ~storm

\* Once the primary is up for good the secondary stands down for good: no failure
\* that arrives late, and no probe, keeps the primary parked for ever.
SecondaryStandsDown == <>[](primary = "up") => <>[](park = 0)

\* An upload returns, whatever the stores do: a store is an accelerator.
UploadsReturn == \A u \in Uploads : (pc[u] # "idle") ~> (pc[u] = "idle")

-----------------------------------------------------------------------------
(* What the module's documentation says, and its steps do not keep. *)

\* "The negative cache is what turns that from a per-request tax into a
\* per-cooldown one": an upload that waited in vain for a primary in trouble
\* leaves it parked, so that the uploads after it do not wait as well.
SlowPrimaryIsParked ==
  [][\A u \in Uploads :
       (/\ pc[u] = "primary" /\ troubled[u]
        /\ pc'[u] = "idle" /\ outcome'[u] = "data_uri")
         => park' > 0]_vars
=============================================================================

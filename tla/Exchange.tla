------------------------------ MODULE Exchange ------------------------------
(***************************************************************************)
(* Requests of one channel in one worker, from the canonical body to the   *)
(* canonical reply, several at a time over the one compiled script and its *)
(* module-level _STATE.  Both phases hand their references or items to     *)
(* ctx.fanout, whose jobs end in any order; a vendor that refuses a call   *)
(* with a 4xx gets a second request phase; every phase may be cut by       *)
(* script_timeout.                                                         *)
(*                                                                         *)
(* A request id is minted fresh (1, 2, ...) or comes with the request from *)
(* the control plane, which may use the same one again: Repeated.          *)
(***************************************************************************)
EXTENDS Vendors

CONSTANTS
  Slots,         \* the requests one worker has in flight
  Channel,       \* the channels to look at, one per behaviour
  Bodies,        \* the canonical bodies clients send, for each script
  Width,         \* settings.fanout_concurrency
  MaxRequests,   \* bound: requests begun, for each script
  MaxItems       \* bound: images in one answer

ASSUME ExchangeAssumption ==
  /\ Channel \subseteq Channels /\ DOMAIN Bodies = Scripts
  /\ MaxRequests \in [Scripts -> Nat] /\ Width \in Nat /\ MaxItems \in Nat
  /\ MaxImages \in Nat /\ PerImage \in Nat /\ PocketMax \in Nat \ {0, 1}
  /\ \A script \in Scripts : Bodies[script] \subseteq CanonicalBodies
  /\ \A c \in Channel : c.mode = "first" => c.script = "qwen"

VARIABLES
  channel,   \* script and options; chosen once
  pocket,    \* _STATE of the compiled script
  slot,      \* the request in each slot
  begun      \* requests begun, and the last id minted

vars == <<channel, pocket, slot, begun>>

Repeated == 0
Waiting == "waiting"

NoBody == [image |-> <<>>, mask |-> <<>>, prompt |-> TRUE, many |-> FALSE, format |-> Absent]
Free == [at |-> "free", rid |-> Repeated, body |-> NoBody, error |-> "none",
         jobs |-> <<>>, wire |-> Unsendable, want |-> Absent, items |-> <<>>, blame |-> 0]

Init ==
  /\ channel \in Channel
  /\ pocket = <<>> /\ begun = 0
  /\ slot = [s \in Slots |-> Free]

Become(s, req) == slot' = [slot EXCEPT ![s] = req]

\* Past the call only the format of the request matters.
Asked(b) == [NoBody EXCEPT !.format = b.format]

Answered(req) == [req EXCEPT !.at = "answered", !.body = Asked(@), !.wire = Unsendable,
                             !.error = "none"]
Fails(s) == Become(s, [Free EXCEPT !.at = "failed"])

-----------------------------------------------------------------------------
(* adapter.utils.fanout. *)

Fan(work) == [i \in 1..Len(work) |-> Waiting]

\* The semaphore lets the first ones through that are not done yet.
Running(jobs, i) ==
  /\ jobs[i] = Waiting
  /\ Cardinality({j \in 1..(i - 1) : jobs[j] = Waiting}) < (IF Width = 0 THEN 1 ELSE Width)

Serial(jobs) == Width <= 1 \/ \A i, j \in DOMAIN jobs : i = j
FailedJobs(jobs) == {i \in DOMAIN jobs : jobs[i] = Failed}

JoinedOnFirstFailure(jobs) ==
  \/ \A i \in DOMAIN jobs : jobs[i] # Waiting
  \/ FailedJobs(jobs) # {}

\* All jobs are waited for, unless they run one by one and one has failed.
Joined(jobs) ==
  \/ \A i \in DOMAIN jobs : jobs[i] # Waiting
  \/ Serial(jobs) /\ FailedJobs(jobs) # {}

\* The failure raised: that of the earliest item.
Raised(jobs, i) == i \in FailedJobs(jobs) /\ \A j \in FailedJobs(jobs) : i <= j

JobEnds(s) ==
  /\ slot[s].at \in {"reading", "shaping"} /\ ~Joined(slot[s].jobs)
  /\ \E i \in DOMAIN slot[s].jobs :
       /\ Running(slot[s].jobs, i)
       /\ \E x \in IF slot[s].at = "reading"
                   THEN RefOutcomes(channel, Fetched(channel, slot[s].body)[i],
                                    slot[s].error = "fetch")
                   ELSE ItemOutcomes(channel, slot[s].want, slot[s].items[i]) :
            Become(s, [slot[s] EXCEPT !.jobs[i] = x])
  /\ UNCHANGED <<channel, pocket, begun>>

JobRaises(s) ==
  /\ slot[s].at \in {"reading", "shaping"}
  /\ Joined(slot[s].jobs) /\ FailedJobs(slot[s].jobs) # {}
  /\ \E i \in DOMAIN slot[s].jobs :
       /\ Raised(slot[s].jobs, i)
       /\ Become(s, [Free EXCEPT !.at = "failed", !.jobs = slot[s].jobs, !.blame = i])
  /\ UNCHANGED <<channel, pocket, begun>>

-----------------------------------------------------------------------------
(* The request phase. *)

\* Its synchronous head; `req` goes on to read its references or is refused.
RequestHead(s, req) ==
  IF RefusedOutright(channel, req.body)
  THEN Fails(s) /\ UNCHANGED pocket
  ELSE /\ pocket' = Parked(channel, pocket, req.rid, req.body.format)
       /\ IF RefusedOnceParked(channel, req.body)
          THEN Fails(s)
          ELSE Become(s, [req EXCEPT !.at = "reading", !.jobs = Fan(Fetched(channel, req.body))])

Begin(s) ==
  /\ slot[s].at = "free" /\ begun < MaxRequests[channel.script]
  /\ begun' = begun + 1
  /\ \E b \in Bodies[channel.script], rid \in {begun + 1, Repeated} :
       RequestHead(s, [Free EXCEPT !.rid = rid, !.body = b])
  /\ UNCHANGED channel

ReadAll(s) ==
  /\ slot[s].at = "reading"
  /\ Joined(slot[s].jobs) /\ FailedJobs(slot[s].jobs) = {}

\* tencent_ci: the picture is what was asked for already, no call is made.  The executor
\* looks for a local result once, after the first request phase.
LocalResult(req) == "reached" \in {req.jobs[i] : i \in DOMAIN req.jobs}

AnswerLocally(s) ==
  /\ ReadAll(s) /\ slot[s].error = "none" /\ LocalResult(slot[s])
  /\ channel.script = "tencent_ci"
  /\ Become(s, [slot[s] EXCEPT !.at = "replied", !.items = <<"bytes">>,
                               !.body = Asked(@), !.jobs = <<>>])
  /\ UNCHANGED <<channel, pocket, begun>>

Call(s) ==
  /\ ReadAll(s) /\ (LocalResult(slot[s]) => slot[s].error # "none")
  /\ \E stored \in BOOLEAN :
       LET wire == Wire(channel, slot[s].body, slot[s].jobs, stored)
           again == slot[s].error # "none" /\ SameBody(channel, wire, slot[s].wire)
       IN /\ IF ~wire.ok \/ again THEN Fails(s)
             ELSE Become(s, [slot[s] EXCEPT !.at = "called", !.wire = wire, !.jobs = <<>>])
          /\ pocket' = Booked(channel, pocket, slot[s].rid, slot[s].body.format)
  /\ UNCHANGED <<channel, begun>>

\* Only ark's script reads what the vendor said.
Refusals(c) == IF c.script = "volcengine_ark" THEN {"fetch", "other"} ELSE {"other"}

\* A 4xx: once more from the head, with ctx.upstream_error set.
CallRefused(s) ==
  /\ slot[s].at = "called" /\ slot[s].error = "none"
  /\ \E error \in Refusals(channel) : RequestHead(s, [slot[s] EXCEPT !.error = error])
  /\ UNCHANGED <<channel, begun>>

CallFails(s) ==
  /\ slot[s].at = "called" /\ Fails(s)
  /\ UNCHANGED <<channel, pocket, begun>>

PhaseTimesOut(s) ==
  /\ slot[s].at \in {"reading", "shaping"} /\ Fails(s)
  /\ UNCHANGED <<channel, pocket, begun>>

-----------------------------------------------------------------------------
(* The response phase. *)

\* The items of one answer are of one kind, text beside the pictures of google apart.
Answers(s) ==
  LET kinds == ItemKinds(channel, slot[s].body.format)
      lengths == IF channel.script \in Single THEN {1} ELSE 1..MaxItems
  IN {items \in UNION {[1..n -> kinds] : n \in lengths} :
        channel.script = "google" \/ Cardinality({items[i] : i \in DOMAIN items}) = 1}

CallAnswered(s) ==
  /\ slot[s].at = "called"
  /\ \E items \in {Items(channel, answer) : answer \in Answers(s)} \ {<<>>} :
       Become(s, [slot[s] EXCEPT !.at = "replied", !.items = items, !.body = Asked(@),
                                 !.wire = Unsendable, !.error = "none"])
  /\ UNCHANGED <<channel, pocket, begun>>

\* An answer without a picture in it.
CallAnsweredEmpty(s) ==
  /\ slot[s].at = "called"
  /\ \E answer \in {"nothing", "moderated"} :
       pocket' = IF LeavesParked(channel, answer) THEN pocket ELSE Popped(pocket, slot[s].rid)
  /\ IF PassesNothing(channel) THEN Become(s, Answered(slot[s])) ELSE Fails(s)
  /\ UNCHANGED <<channel, begun>>

ResponsePhase(s) ==
  /\ slot[s].at = "replied"
  /\ Become(s, [slot[s] EXCEPT !.at = "shaping", !.want = Found(pocket, slot[s].rid),
                               !.jobs = Fan(slot[s].items)])
  /\ pocket' = Popped(pocket, slot[s].rid)
  /\ UNCHANGED <<channel, begun>>

Answer(s) ==
  /\ slot[s].at = "shaping"
  /\ Joined(slot[s].jobs) /\ FailedJobs(slot[s].jobs) = {}
  /\ Become(s, Answered(slot[s]))
  /\ UNCHANGED <<channel, pocket, begun>>

Leave(s) ==
  /\ slot[s].at \in {"answered", "failed"}
  /\ Become(s, Free)
  /\ UNCHANGED <<channel, pocket, begun>>

Finished ==
  /\ begun = MaxRequests[channel.script] /\ \A s \in Slots : slot[s].at = "free"
  /\ UNCHANGED vars

Next ==
  \/ \E s \in Slots :
       \/ Begin(s) \/ JobEnds(s) \/ JobRaises(s) \/ AnswerLocally(s) \/ Call(s)
       \/ CallRefused(s) \/ CallFails(s) \/ PhaseTimesOut(s)
       \/ CallAnswered(s) \/ CallAnsweredEmpty(s) \/ ResponsePhase(s) \/ Answer(s) \/ Leave(s)
  \/ Finished

Spec == Init /\ [][Next]_vars

-----------------------------------------------------------------------------
(* Properties. *)

\* Every slot holds a request in one of the stages of the executor, every parked format
\* is one a client may ask for, and only google and qwen park that none was asked for.
TypeOK ==
  /\ channel \in Channels /\ begun \in 0..MaxRequests[channel.script]
  /\ \A i \in DOMAIN pocket :
       /\ pocket[i].rid \in 0..begun
       /\ pocket[i].format \in ResponseFormats
            \cup IF channel.script \in {"google", "qwen"} THEN {Absent} ELSE {}
  /\ \A s \in Slots :
       /\ slot[s].at \in {"free", "reading", "called", "replied", "shaping", "answered",
                         "failed"}
       /\ slot[s].rid \in 0..begun /\ slot[s].blame \in {0} \cup DOMAIN slot[s].jobs
       /\ slot[s].want \in ResponseFormats \cup {Absent}

Own(s) == slot[s].rid # Repeated

\* google drops parked formats once it holds more than its cap, live ones too.
MayBeTrimmed == channel.script = "google" /\ begun > PocketMax

CarriesAs(want, item, out) ==
  CASE want = "b64_json" -> out \notin {"link", "ours", "inline"}
    [] want = "url" /\ item = "link" -> out \in {"link", "ours"}
    [] OTHER -> TRUE

\* A client gets its images in the carrier it asked for itself, in the order of the
\* vendor, however requests interleave: base64 when it asked for base64 (senseaudio
\* turns a data URI into a link all the same), a link when there is one, and never a
\* data URI under `url` that the vendor did not put there.
ReplyAsAsked ==
  \A s \in Slots : slot[s].at = "answered" /\ slot[s].jobs # <<>> /\ Own(s) =>
    LET want == slot[s].body.format
    IN /\ channel.script # "volcengine_ark" /\ ~MayBeTrimmed => slot[s].want = want
       /\ \A i \in DOMAIN slot[s].jobs :
            LET item == slot[s].items[i]
                out == slot[s].jobs[i]
            IN /\ out = "inline" => item = "inline"
               /\ MayBeTrimmed \/ (channel.script = "senseaudio" /\ item = "inline")
                    \/ CarriesAs(want, item, out)

\* A request that was answered leaves nothing in the pocket for a later one to find, and
\* google's pocket stays within its cap whatever the requests that failed left there.
PocketCleared ==
  /\ TypeOK
  /\ \A s \in Slots : slot[s].at = "answered" /\ Own(s) => Entries(pocket, slot[s].rid) = {}
  /\ channel.script = "google" => Len(pocket) <= PocketMax + 1

Ids(parts) == [i \in DOMAIN parts |-> parts[i].id]
InlinedBytes(parts) ==
  LET sum[n \in 0..Len(parts)] ==
        IF n = 0 THEN 0
        ELSE sum[n - 1] + (IF parts[n].form = "inline" THEN parts[n].bytes ELSE 0)
  IN sum[Len(parts)]

\* What the vendor is called with is what a loop over the references would have made:
\* all of them and the mask, in order; google's inline parts within the allowance of the
\* channel; nothing for ark to download once it said that it could not.
ServedLikeALoop ==
  \A s \in Slots : slot[s].at = "called" =>
    LET parts == slot[s].wire.parts
    IN /\ Ids(parts) = Ids(InputRefs(channel, slot[s].body))
       /\ channel.script = "openai" /\ parts # <<>> =>
            Ids(slot[s].wire.mask) = Ids(slot[s].body.mask)
       /\ channel.script = "google" /\ channel.mode = "auto" =>
            InlinedBytes(parts) <= channel.total
       /\ channel.script = "volcengine_ark" /\ slot[s].error = "fetch" =>
            \A i \in DOMAIN parts : parts[i].form \notin {"link", "ours", "bare"}

\* The failure that a fan-out raises, in whatever order its jobs ended, is the one that a
\* loop would have met: every earlier item is through, and none of them failed.
FailsLikeALoop ==
  \A s \in Slots : slot[s].at = "failed" /\ slot[s].blame > 0 =>
    \A i \in DOMAIN slot[s].jobs :
      i < slot[s].blame => slot[s].jobs[i] # Waiting /\ slot[s].jobs[i] # Failed
=============================================================================

------------------------------ MODULE Ingress -------------------------------
(***************************************************************************)
(* pipeline.adapt up to the run of the script: the client's body through   *)
(* its door, the channel's headers, the script's text, the compiled        *)
(* script and its stages.  The requests of one worker, one at a time, over *)
(* roots that an operator edits meanwhile.                                 *)
(***************************************************************************)
EXTENDS FrontDoor, Channel, ScriptSupply

CONSTANTS
  MaxRequests,   \* bound
  Inputs,        \* for each request, the [door, body] its client may send
  MaxBody,       \* settings.max_request_bytes, 0 for none
  Deliveries,    \* how a body may come: the length declared, and the chunks
  Headers,       \* the headers a channel may carry
  AllowInline, AllowRemote,      \* settings
  MaxInlineSize, MaxScriptSize,  \* settings
  Compiles,      \* the texts that pass the scan and compile
  Declares,      \* the STAGES of each text
  Fallbacks      \* the STAGE_FALLBACK of each text

Undeclared == -1

ASSUME IngressAssumption ==
  /\ {AllowInline, AllowRemote} \subseteq BOOLEAN
  /\ {MaxBody, MaxInlineSize, MaxScriptSize} \subseteq Nat
  /\ \A d \in Deliveries : ToSet(d.chunks) \cup {d.declared} \subseteq Nat \cup {Undeclared}
  /\ Compiles \subseteq Texts
  /\ \A h \in Headers : \A s \in h.sources : s.form = "ref" => s.given \in Refs \cup {Malformed}
  /\ MaxRequests \in Nat \ {0}
  /\ \A n \in 1..MaxRequests : \A i \in Inputs[n] : Sendable(i)

VARIABLES
  pc,
  turn,      \* the number of the request
  input,     \* what the client sent, until it is folded and judged
  body,      \* the payload, until the channel is read: nothing changes it after that
  model,     \* its model, as the script will see it
  spec,      \* the ChannelSpec
  source,    \* the ScriptSource
  script,    \* the CompiledScript
  stages     \* what resolve_stages decided

requestVars == <<input, body, model, spec, source, script, stages>>
vars == <<pc, turn, requestVars, supplyVars>>

NoInput == [door |-> None, body |-> None]
NoSource == [form |-> None, ref |-> None, text |-> None]
NoScript == [key |-> None, text |-> None]

Init ==
  /\ SupplyInit
  /\ pc = "new" /\ turn = 1
  /\ input = NoInput /\ body = Refused /\ model = Absent /\ spec = NoSpec
  /\ source = NoSource /\ script = NoScript /\ stages = <<>>

\* The length declared is a fast path: a chunked body has none, and its bytes are counted.
DeclaredOver(d) == d.declared # Undeclared /\ d.declared > MaxBody
CountedOver(d) == FoldLeft(+, 0, d.chunks) > MaxBody
TooLarge(d) == MaxBody > 0 /\ (DeclaredOver(d) \/ CountedOver(d))

BodyTooLarge ==
  /\ pc = "new"
  /\ \E d \in Deliveries : TooLarge(d)
  /\ pc' = "refused"
  /\ UNCHANGED <<turn, requestVars, supplyVars>>

\* A body that is no JSON object, or no form.
BodyUnreadable ==
  /\ pc = "new"
  /\ \E d \in Deliveries : ~TooLarge(d)
  /\ pc' = "refused"
  /\ UNCHANGED <<turn, requestVars, supplyVars>>

PreparedTrusting(i) == IF i.door = "chat" THEN Fold(i.door, i.body)
                       ELSE Validate(Fold(i.door, i.body))
Prepared(i) == Validate(Fold(i.door, i.body))

Prepare ==
  /\ pc = "new"
  /\ \E d \in Deliveries : ~TooLarge(d)
  /\ \E i \in Inputs[turn] : input' = i /\ body' = Prepared(i)
  /\ pc' = IF body'.ok THEN "prepared" ELSE "refused"
  /\ UNCHANGED <<turn, model, spec, source, script, stages, supplyVars>>

\* Here the model is mapped, and the body is what the script will be given.
ReadChannel ==
  /\ pc = "prepared"
  /\ \E h \in Headers :
       /\ spec' = ParseChannel(h)
       /\ IF ParseChannel(h).ok
            THEN model' = ResolveModel(body.model, h.modelMap) /\ pc' = "script"
            ELSE UNCHANGED model /\ pc' = "refused"
  /\ input' = NoInput /\ body' = Refused
  /\ UNCHANGED <<turn, source, script, stages, supplyVars>>

-----------------------------------------------------------------------------
(* The text is checked, and compiled unless it is known.                    *)

Refuse == pc' = "refused" /\ UNCHANGED <<source, script, compiled>>

Load(src) ==
  IF EntriesFor(CacheKey(src)) = {} /\ ~(src.text \in Compiles /\
       DeclarationOk(Declares[src.text], Fallbacks[src.text]))
  THEN Refuse
  ELSE /\ script' = CompiledFrom(src)
       /\ compiled' = Renewed(CompiledFrom(src))
       /\ source' = src
       /\ pc' = "loaded"

Accept(text, ref, limit) ==
  IF text \in Texts /\ Size[text] <= limit /\ Verified(text, spec.pin)
  THEN Load([form |-> spec.form, ref |-> ref, text |-> text])
  ELSE Refuse

InlineScript ==
  /\ pc = "script" /\ spec.form \in {"inline", "base64"}
  /\ IF AllowInline THEN Accept(spec.given, None, MaxInlineSize) ELSE Refuse
  /\ UNCHANGED <<turn, input, body, model, spec, stages, rootVars>>

\* The remote host answers with any text, fails, or sends too much.
RemoteScript ==
  /\ pc = "script" /\ spec.form = "remote"
  /\ \/ AllowRemote /\ \E text \in Texts : Accept(text, spec.given, MaxScriptSize)
     \/ Refuse
  /\ UNCHANGED <<turn, input, body, model, spec, stages, rootVars>>

NamedScript ==
  /\ pc = "script" /\ spec.form = "ref"
  /\ IF spec.given = Malformed THEN pc' = "refused" /\ UNCHANGED supplyVars
     ELSE pc' = "looking" /\ StartLookUp(spec.given)
  /\ UNCHANGED <<turn, requestVars>>

Look ==
  /\ pc = "looking"
  /\ Stat \/ Read
  /\ UNCHANGED <<pc, turn, requestVars>>

LookedUp ==
  /\ pc = "looking"
  /\ look.at \in {"found", "refused"}
  /\ IF look.at = "found" THEN Accept(look.text, look.wanted, MaxScriptSize) ELSE Refuse
  /\ UNCHANGED <<turn, input, body, model, spec, stages, rootVars>>

DecideStages ==
  /\ pc = "loaded"
  /\ IF StageListFits(spec.stages, Declares[script.text])
       THEN pc' = "running" /\ stages' = StagesToRun(spec.stages, Declares[script.text])
       ELSE pc' = "refused" /\ UNCHANGED stages
  /\ UNCHANGED <<turn, input, body, model, spec, source, script, supplyVars>>

NextRequest ==
  /\ pc \in {"running", "refused"}
  /\ turn < MaxRequests
  /\ turn' = turn + 1
  /\ pc' = "new"
  /\ input' = NoInput /\ body' = Refused /\ model' = Absent /\ spec' = NoSpec
  /\ source' = NoSource /\ script' = NoScript /\ stages' = <<>>
  /\ look' = NoLookUp /\ held' = {}
  /\ UNCHANGED <<files, stats, clock, edits, known, compiled>>

\* The files matter to a look-up alone: whatever was edited since the last one was
\* edited just before it.
OperatorEdits == pc \in {"script", "looking"} /\ Edit /\ UNCHANGED <<pc, turn, requestVars>>

Finished == pc \in {"running", "refused"} /\ turn = MaxRequests /\ UNCHANGED vars

Next ==
  \/ BodyTooLarge \/ BodyUnreadable \/ Prepare \/ ReadChannel
  \/ InlineScript \/ RemoteScript \/ NamedScript \/ Look \/ LookedUp
  \/ DecideStages \/ NextRequest \/ OperatorEdits \/ Finished

Spec == Init /\ [][Next]_vars

-----------------------------------------------------------------------------
\* The supply and the request keep their types.
TypeOK ==
  /\ SupplyTypeOK
  /\ pc \in {"new", "prepared", "script", "looking", "loaded", "running", "refused"}
  /\ turn \in 1..MaxRequests
  /\ body.ok \in BOOLEAN /\ spec.ok \in BOOLEAN
  /\ source.text \in Texts \cup {None} /\ script.text \in Texts \cup {None}
  /\ pc \in {"loaded", "running"} => spec.ok /\ script.text \in Compiles

\* Each conversation door amounts to one turn and the instructions around it: on the chat
\* door the last user message, on the responses door the last turn that carries anything.
\* No part of another turn reaches the script, no part of that one is lost, and only what
\* cannot be read, says nothing or shows too much is refused.
FoldsLastTurn ==
  (input.door \in {"chat", "responses"} /\ pc \in {"prepared", "refused"}) =>
     LET want == ExpectedFold(input.door, input.body)
         says == want.image # <<>>
                   \/ ~(ToSet(want.instructions \o want.text) \subseteq {"", Blank})
         fits == \A ref \in ToSet(want.image) : ~BadRef(ref)
     IN /\ body.ok <=> (says /\ fits /\ ~Unreadable(input.door, input.body))
        /\ body.ok => /\ body.instructions = want.instructions
                      /\ body.text = want.text
                      /\ body.image = want.image

\* The responses door truncates the history exactly as the chat door does: the same
\* messages, sent to either, are the same request.
TruncatesLikeChat ==
  (pc = "prepared" /\ input.door = "responses" /\ input.body.messages \in Seq(ChatMessages)) =>
     LET chat == MessagesToCanonical(input.body)
     IN chat.ok => /\ body.instructions = chat.instructions
                   /\ body.text = chat.text
                   /\ body.image = chat.image

\* Whatever the door, a script runs on a body with something to act on: pictures that
\* are references, a mask only over a picture, a count and a carrier it can use.
ScriptsGetCanonical ==
  /\ TypeOK
  /\ pc = "prepared" =>
    /\ body.n \in Counts \cup {Absent} /\ body.format \in ResponseFormats \cup {Absent}
    /\ ToSet(body.image) \cap {"", Blank, Junk} = {}
    /\ body.mask # Absent => body.image # <<>>
    /\ body.image = <<>> => \E t \in ToSet(body.instructions \o body.text) : t \notin {"", Blank}

\* Neither the text cache nor the compiled scripts serve a text that the file which
\* the ref resolved to did not hold at some moment of this look-up.
NoStaleScript ==
  (pc \in {"loaded", "running"} /\ source.form = "ref") =>
     \E f \in HeldBy(look.path) : f.how # "missing" /\ f.text = script.text

\* A root, and the stable version, stand in only for what a stat did not find: each path
\* that comes before the one served had, at some moment of the look-up, no file or one
\* whose stat failed.  A file that is found and then cannot be read is never passed over.
Precedes(r, k, ref) ==
  \/ ref = look.wanted /\ look.ref # look.wanted
  \/ ref = look.ref /\ (r < look.root \/ (r = look.root /\ k < look.layout))
FallsBackOnlyWhenUnseen ==
  look.at = "found" =>
    \A r \in Roots, k \in DOMAIN Layouts, ref \in {look.wanted, Stable} :
      Precedes(r, k, ref) => \E f \in HeldBy(<<r, Layouts[k], Resolve(r, ref)>>) : Unseen(f)

\* The script that runs is the text that was checked: it answers to the channel's
\* pin, the deployment's list and the manifest of the root it came from.
RunsWhatWasVerified ==
  pc \in {"loaded", "running"} =>
    /\ script.text = source.text
    /\ spec.pin \in {None, script.text}
    /\ Allowlist = {} \/ script.text \in Allowlist
    /\ source.form = "ref" => DigestHolds(look.root, look.ref, script.text)
=============================================================================

------------------------------ MODULE Channel -------------------------------
(***************************************************************************)
(* The headers of a channel as functions: parse_channel of adapter/        *)
(* channel.py with stage_spec.py and modelmap.py, and resolve_stages of    *)
(* stages.py, which holds the stage list against the script's own.         *)
(* A header is absent ("" or an empty sequence), a value, or Malformed.    *)
(***************************************************************************)
EXTENDS Integers, FiniteSets, SequencesExt

CONSTANTS
  MaxStages,        \* settings.stage_max_count
  DefaultTimeout,   \* settings.poll_timeout_default
  DefaultProxy,     \* settings.upstream_proxy_default
  Bypass,           \* settings.upstream_proxy_bypass_hosts: hosts as sequences of labels
  DefaultOptions    \* settings.default_channel_options: pairs <<key, value>>

ASSUME ChannelAssumption == {MaxStages, DefaultTimeout} \subseteq Nat

Malformed == "malformed"
Wildcard == "*"
NoSpec == [ok |-> FALSE]

Distinct(seq) == Cardinality(ToSet(seq)) = Len(seq)

Names(pairs) == [i \in DOMAIN pairs |-> pairs[i][1]]

\* X-Model-Map: pairs <<name, model>>.  A key names one model or, alone, any.
ModelMapOk(pairs) == Distinct(Names(pairs)) /\ Malformed \notin ToSet(Names(pairs))

\* The model that the request is sent as; Wildcard also answers for no model.
ResolveModel(model, pairs) ==
  LET For(name) == {i \in DOMAIN pairs : pairs[i][1] = name}
      hit == IF For(model) # {} THEN For(model) ELSE For(Wildcard)
  IN IF hit = {} THEN model ELSE pairs[CHOOSE i \in hit : TRUE][2]

\* X-Upstream-Proxy: the channel's, "none", or what the deployment says.
ProxyFor(header) ==
  CASE header = "none" -> ""
    [] header = "" -> DefaultProxy
    [] header \notin {"none", ""} -> header

\* A bypassed host is bare, any at all, or a suffix of at least one label.
PatternOk(pattern) ==
  /\ Malformed \notin ToSet(pattern)
  /\ Wildcard \in ToSet(pattern) =>
       pattern[1] = Wildcard /\ Wildcard \notin ToSet(Tail(pattern))

\* Bypassed hosts are read with a proxy only.
ProxyOk(header) ==
  /\ ProxyFor(header) # Malformed
  /\ ProxyFor(header) # "" => \A i \in DOMAIN Bypass : PatternOk(Bypass[i])

\* X-Auth-Emit: the fields of target:name:prefix.
EmitOk(fields) ==
  fields # <<>> =>
    \/ fields[1] = "none"
    \/ fields[1] \in {"header", "query", "body"} /\ Len(fields) > 1 /\ fields[2] # ""

Emit(fields) ==
  CASE fields = <<>> -> [target |-> "header", name |-> "Authorization", prefix |-> "Bearer"]
    [] fields # <<>> /\ fields[1] = "none" -> [target |-> "none", name |-> "", prefix |-> ""]
    [] fields # <<>> /\ fields[1] # "none" ->
         [target |-> fields[1], name |-> fields[2],
          prefix |-> IF Len(fields) > 2 THEN fields[3] ELSE ""]

\* X-Channel-Options over the deployment's own: pairs <<key, value>>, no key twice.  The
\* model map is no option any more, wherever it stands.
OptionsOk(pairs) ==
  \A given \in {pairs, DefaultOptions} :
    Distinct(Names(given)) /\ ToSet(Names(given)) \cap {Malformed, "model_map"} = {}

Options(pairs) ==
  ToSet(pairs)
    \cup {o \in ToSet(DefaultOptions) : o[1] \notin ToSet(Names(pairs))}

\* X-Async: pairs <<key, value>>; the last one of a key counts.
AsyncOk(pairs) ==
  \A i \in DOMAIN pairs : pairs[i][1] \in {"poll", "interval", "timeout"} /\ pairs[i][2] > 0

AsyncTimeout(pairs) ==
  LET T == {i \in DOMAIN pairs : pairs[i][1] = "timeout"}
  IN IF T = {} THEN DefaultTimeout ELSE pairs[CHOOSE i \in T : \A j \in T : j <= i][2]

\* X-Stages, X-Stage-Urls and X-Stage-Timeout.  A url must name a listed stage, when
\* stages are listed at all; of the budget only the first pair is read.
StagesOk(names, urls) ==
  /\ Distinct(names) /\ Malformed \notin ToSet(names)
  /\ Distinct(urls) /\ Malformed \notin ToSet(urls)
  /\ names # <<>> => ToSet(urls) \subseteq ToSet(names)

BudgetOk(pairs) == pairs # <<>> => pairs[1][1] = "total" /\ pairs[1][2] > 0

\* X-Upstream-Url is required, and exactly one of X-Script, X-Script-64, X-Script-Ref.
ParseChannel(h) ==
  IF /\ h.url \notin {"", Malformed}
     /\ ProxyOk(h.proxy)
     /\ Cardinality(h.sources) = 1
     /\ EmitOk(h.emit)
     /\ OptionsOk(h.options)
     /\ AsyncOk(h.async)
     /\ ModelMapOk(h.modelMap)
     /\ StagesOk(h.stages, h.urls) /\ BudgetOk(h.budget)
  THEN LET source == CHOOSE s \in h.sources : TRUE
       IN [ok |-> TRUE, form |-> source.form, given |-> source.given, pin |-> h.pin,
           stages |-> h.stages, urls |-> ToSet(h.urls), modelMap |-> h.modelMap,
           proxy |-> ProxyFor(h.proxy), emit |-> Emit(h.emit), options |-> Options(h.options),
           async |-> h.async # <<>>, timeout |-> AsyncTimeout(h.async)]
  ELSE NoSpec

-----------------------------------------------------------------------------
\* _parse_stages and _parse_fallback: what a script may declare.
MaxDeclared == 8
DeclarationOk(stages, fallback) ==
  /\ Distinct(stages) /\ Malformed \notin ToSet(stages) /\ Len(stages) <= MaxDeclared
  /\ fallback \subseteq ToSet(stages)
  /\ fallback # {} => stages[1] \notin fallback

\* The header's list wins over the script's, but names none of its own.
StageListFits(header, declared) ==
  /\ header # <<>> => ToSet(header) \subseteq ToSet(declared)
  /\ Len(IF header = <<>> THEN declared ELSE header) <= MaxStages

StagesToRun(header, declared) == IF header = <<>> THEN declared ELSE header
=============================================================================

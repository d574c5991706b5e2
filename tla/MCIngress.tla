----------------------------- MODULE MCIngress ------------------------------
(***************************************************************************)
(* Two requests over an overlay root and the image root.  The first client *)
(* sends anything of at most three messages or items, or a body of either  *)
(* image door; the second one sends a prompt.                              *)
(***************************************************************************)
EXTENDS Ingress, TLC

Text(v) == [kind |-> "text", val |-> v]
Image(v) == [kind |-> "image", val |-> v]
Bad == [kind |-> "bad", val |-> ""]

Contents == {<<>>, <<Text("a")>>, <<Text(Blank), Image("i")>>, <<Bad>>}
Messages == [role : {"system", "user", "assistant"}, parts : Contents]
              \cup {[role |-> "other", parts |-> <<>>]}
Loose == {[role |-> "string", parts |-> <<Text("")>>],
          [role |-> "string", parts |-> <<Text("b")>>],
          [role |-> "part", parts |-> <<Text("")>>],
          [role |-> "part", parts |-> <<Image("j")>>],
          [role |-> "part", parts |-> <<Image("oversized")>>],
          [role |-> "part", parts |-> <<Bad>>]}

Chat(messages) ==
  [door |-> "chat", body |-> [model |-> Absent, messages |-> messages]]
Responses(items) ==
  [door |-> "responses",
   body |-> [model |-> "m", messages |-> items, tools |-> Absent, prior |-> TRUE]]

Few(S, T, U) == {<<>>} \cup {<<x>> : x \in S} \cup (S \X T) \cup (S \X T \X U)

Quiet == [role : {"user", "assistant"}, parts : {<<>>, <<Text("a")>>}]
Json ==
  [door : {"images"},
   body : [model : {"m"}, n : {Absent, Junk, "3"}, format : {"url", Junk},
           mask : {Absent, "k", ""}, prompt : {Absent, Blank, "a"},
           image : {<<>>, <<"i">>, <<"i", Junk>>}]]
Form(fields) == [door |-> "edits", body |-> [form |-> fields]]
Fields ==
  {[key |-> "image", values |-> <<"png">>], [key |-> "image[]", values |-> <<"nothing", "i">>],
   [key |-> "image", values |-> <<"unknown">>], [key |-> "mask", values |-> <<"nothing">>],
   [key |-> "mask", values |-> <<"png">>], [key |-> "prompt", values |-> <<"a">>],
   [key |-> "prompt", values |-> <<"png">>], [key |-> "n", values |-> <<Junk>>]}
Forms == {Form(<<h[1], h[2]>>) : h \in {h \in Fields \X Fields : h[1].key # h[2].key}} \cup {Form(<<f>>) : f \in Fields}

MCInputs ==
  << {Chat(m) : m \in Few(Messages, Messages, Quiet)}
       \cup {Responses(m) : m \in Few(Messages \cup Loose, Quiet \cup Loose, Quiet \cup Loose)}
       \cup Json \cup Forms,
     {Chat(<<[role |-> "user", parts |-> <<Text("a")>>]>>)} >>

Plain ==
  [url |-> "https", proxy |-> "", sources |-> {[form |-> "ref", given |-> "v1"]}, pin |-> None,
   emit |-> <<>>, options |-> <<>>, async |-> <<>>, modelMap |-> <<>>, stages |-> <<>>, urls |-> <<>>,
   budget |-> <<>>]
From(form, given) == [Plain EXCEPT !.sources = {[form |-> form, given |-> given]}]
MCHeaders ==
  {Plain, From("ref", Stable), From("ref", Malformed), From("inline", "t1"),
   From("base64", Malformed), From("remote", "https"),
   [Plain EXCEPT !.proxy = "none", !.emit = <<"query", "key">>, !.pin = "t1",
                 !.options = <<<<"rehost_url", "no">>>>],
   [From("inline", "t1") EXCEPT !.proxy = "http", !.emit = <<"header", "">>],
   [Plain EXCEPT !.proxy = Malformed], [Plain EXCEPT !.emit = <<"cookie", "key">>],
   [Plain EXCEPT !.options = <<<<"model_map", "m">>>>],
   [Plain EXCEPT !.sources = {}],
   [Plain EXCEPT !.stages = <<"late">>, !.urls = <<"late">>, !.budget = <<<<"total", 3>>>>,
                 !.async = <<<<"timeout", 4>>, <<"poll", 1>>, <<"timeout", 2>>>>,
                 !.modelMap = <<<<"m", "x">>, <<Wildcard, "y">>>>],
   [Plain EXCEPT !.stages = <<"late">>, !.urls = <<"early">>],
   [Plain EXCEPT !.async = <<<<"timeout", 0>>>>]}

MCBypass == <<<<"store", "example">>, <<Wildcard, "example">>>>
MCDefaultOptions == <<<<"rehost_url", "yes">>>>
MCDeliveries == {[declared |-> Undeclared, chunks |-> <<1, 1>>],
                 [declared |-> Undeclared, chunks |-> <<2, 1>>],
                 [declared |-> 3, chunks |-> <<>>], [declared |-> 1, chunks |-> <<1>>]}

MCAliases == <<[x \in {} |-> x], [x \in {Stable, "edge"} |-> IF x = Stable THEN "edge" ELSE "v2"]>>
MCDigests == <<[x \in {} |-> x], [x \in {"v2"} |-> "t2"]>>
MCSize == [t \in Texts |-> IF t = "t3" THEN 2 ELSE 1]
MCEdited == {<<1, "flat", "v1">>, <<2, "nested", "v1">>}
MCOriginal == [p \in {<<2, "nested", "v1">>, <<2, "flat", "v2">>} |->
                 IF p[3] = "v1" THEN "t1" ELSE "t2"]
MCCompiles == {"t1", "t2"}
MCDeclares == [t \in Texts |-> IF t = "t2" THEN <<"early", "late">> ELSE <<>>]
MCFallbacks == [t \in Texts |-> IF t = "t2" THEN {"late"} ELSE {}]
=============================================================================

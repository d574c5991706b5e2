----------------------------- MODULE MCExchange -----------------------------
(***************************************************************************)
(* Two requests at a time and four in all, over each vendor's channel in   *)
(* the modes that change what the script does.                             *)
(***************************************************************************)
EXTENDS Exchange, TLC

Ref(kind, bytes, id) == [kind |-> kind, bytes |-> bytes, id |-> id]
Link == Ref("url", 1, "l")
Data == Ref("data", 2, "d")
Bare == Ref("bare", 1, "b")
Large == Ref("data", 3, "x")

Plain == [script |-> "openai", mode |-> "url", pass |-> TRUE, policy |-> NoPolicy,
          rehost |-> FALSE, total |-> 2, wrong |-> "nothing"]

MCChannels ==
  {[Plain EXCEPT !.script = s] : s \in {"fal", "tencent_hunyuan", "senseaudio"}}
    \cup {[Plain EXCEPT !.rehost = TRUE], [Plain EXCEPT !.script = "tencent_ci", !.mode = "sized"]}
    \cup {[Plain EXCEPT !.script = "fal", !.wrong = "model"],
          [Plain EXCEPT !.script = "tencent_ci", !.wrong = "op"]}
    \cup {[Plain EXCEPT !.script = "qwen", !.rehost = TRUE],
          [Plain EXCEPT !.script = "qwen", !.mode = "first"]}
    \cup {[Plain EXCEPT !.script = "google", !.mode = "auto", !.pass = FALSE]}
    \cup {[Plain EXCEPT !.script = "volcengine_ark"],
          [Plain EXCEPT !.script = "volcengine_ark", !.mode = "base64",
                        !.policy.fmt = "jpeg", !.policy.quality = 90]}

MCMaxRequests == [s \in Scripts |-> IF s = "google" THEN 4 ELSE 2]

Body(image, mask, format) ==
  [image |-> image, mask |-> mask, prompt |-> TRUE, many |-> FALSE, format |-> format]

Prompted == Body(<<>>, <<>>, "url")
Two == Body(<<Link, Data>>, <<>>, Absent)
Three == Body(<<Bare, Link, Large>>, <<>>, "url")

Common ==
  {Prompted, Body(<<>>, <<>>, Absent), Body(<<>>, <<>>, "b64_json"), Body(<<Link>>, <<>>, "url"),
   Two, Three, Body(<<Data, Bare>>, <<Link>>, "b64_json"),
   [Body(<<Link>>, <<>>, "url") EXCEPT !.prompt = FALSE]}

MCBodies ==
  [s \in Scripts |-> IF s = "google" THEN {Prompted, Two, Three, [Prompted EXCEPT !.many = TRUE]}
                     ELSE Common]

Symmetric == Permutations(Slots)
=============================================================================

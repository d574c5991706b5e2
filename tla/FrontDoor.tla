----------------------------- MODULE FrontDoor ------------------------------
(***************************************************************************)
(* The four doors of adapter/api as functions: how each folds what its     *)
(* client sent into the canonical image request, the validator they share, *)
(* and how the canonical reply goes back.  A text is a string, Blank being *)
(* one of white space only; a prompt is the sequence of the texts joined   *)
(* in it; an image reference is a value.                                   *)
(***************************************************************************)
EXTENDS Integers, SequencesExt

Absent == "absent"
Blank == " "
Junk == "junk"         \* a value of the wrong type
ResponseFormats == {"url", "b64_json"}

Refused == [ok |-> FALSE]

\* A canonical body, each field as it is when its key is missing.
Canonical ==
  [ok |-> TRUE, model |-> Absent, instructions |-> <<>>, text |-> <<>>, image |-> <<>>,
   mask |-> Absent, n |-> Absent, format |-> Absent, tools |-> Absent, prior |-> FALSE]

-----------------------------------------------------------------------------
(* Content parts: [kind |-> "text" | "image" | "bad", val |-> ...].  A "bad" *)
(* part is of an unknown type, no object, or an image without a reference.   *)

ContentParts == [kind : {"text", "image", "bad"}, val : STRING]

Refusable(parts) == \E i \in DOMAIN parts : parts[i].kind = "bad"

\* What is appended, one piece after the other.
Strung(pieces) ==
  LET upTo[n \in 0..Len(pieces)] == IF n = 0 THEN <<>> ELSE upTo[n - 1] \o pieces[n]
  IN upTo[Len(pieces)]

Values(parts) == [i \in DOMAIN parts |-> parts[i].val]
TextsOf(parts) ==
  Strung([i \in DOMAIN parts |->
            IF parts[i].kind = "text" /\ parts[i].val # "" THEN <<parts[i].val>> ELSE <<>>])
RefsOf(parts) ==
  Strung([i \in DOMAIN parts |-> IF parts[i].kind = "image" THEN <<parts[i].val>> ELSE <<>>])

-----------------------------------------------------------------------------
(* /v1/chat/completions.  A message is [role, parts].                        *)

ChatMessages == [role : {"system", "user", "assistant", "other"}, parts : Seq(ContentParts)]

ChatStart == [refused |-> FALSE, users |-> 0, instructions |-> <<>>, globals |-> <<>>,
              text |-> <<>>, refs |-> <<>>]

ReadMessage(s, m) ==
  IF s.refused \/ m.role = "assistant" THEN s
  ELSE IF m.role = "other" \/ Refusable(m.parts) THEN [s EXCEPT !.refused = TRUE]
  ELSE IF m.role = "system"
  THEN [s EXCEPT !.instructions = @ \o TextsOf(m.parts), !.globals = @ \o RefsOf(m.parts)]
  ELSE [s EXCEPT !.users = @ + 1, !.text = TextsOf(m.parts), !.refs = RefsOf(m.parts)]

MessagesToCanonical(body) ==
  LET after[n \in 0..Len(body.messages)] ==
        IF n = 0 THEN ChatStart ELSE ReadMessage(after[n - 1], body.messages[n])
      s == after[Len(body.messages)]
  IN IF s.refused \/ s.users = 0 THEN Refused
     ELSE [Canonical EXCEPT !.model = body.model, !.instructions = s.instructions,
             !.text = s.text, !.image = s.globals \o s.refs]

-----------------------------------------------------------------------------
(* /v1/responses.  An item is a message, a loose content part ("part") or a  *)
(* bare string ("string"); a bare input is one bare string.                  *)

InputItems ==
  {m \in [role : {"system", "user", "assistant", "other", "part", "string"},
          parts : Seq(ContentParts)] :
     m.role = "string" => Len(m.parts) = 1 /\ m.parts[1].kind = "text"}

InputStart == [refused |-> FALSE, instructions |-> <<>>, globals |-> <<>>, opened |-> FALSE,
               texts |-> <<>>, refs |-> <<>>, banked |-> [texts |-> <<>>, refs |-> <<>>]]

CloseTurnUncleared(s) ==
  [s EXCEPT !.opened = FALSE,
     !.banked = IF s.opened /\ (s.texts # <<>> \/ s.refs # <<>>)
                THEN [texts |-> s.texts, refs |-> s.refs] ELSE @]

CloseTurn(s) ==
  [s EXCEPT !.opened = FALSE, !.texts = <<>>, !.refs = <<>>,
     !.banked = IF s.opened /\ (s.texts # <<>> \/ s.refs # <<>>)
                THEN [texts |-> s.texts, refs |-> s.refs] ELSE @]

Extend(s, parts) ==
  [s EXCEPT !.opened = TRUE, !.texts = @ \o TextsOf(parts), !.refs = @ \o RefsOf(parts)]

\* An item that has content, or is a part of it.
ReadContent(s, item) ==
  CASE item.role = "system" ->
         [s EXCEPT !.instructions = @ \o TextsOf(item.parts), !.globals = @ \o RefsOf(item.parts)]
    [] item.role = "user" -> Extend(CloseTurn(s), item.parts)
    [] item.role = "part" -> Extend(s, item.parts)

ReadItem(s, item) ==
  IF s.refused THEN s
  ELSE IF item.role = "assistant" THEN CloseTurn(s)
  ELSE IF item.role = "string"
  THEN [s EXCEPT !.opened = TRUE, !.texts = @ \o Values(item.parts)]
  ELSE IF item.role = "other" \/ Refusable(item.parts) THEN [s EXCEPT !.refused = TRUE]
  ELSE ReadContent(s, item)

InputToCanonical(body) ==
  LET after[n \in 0..Len(body.messages)] ==
        IF n = 0 THEN InputStart ELSE ReadItem(after[n - 1], body.messages[n])
      s == after[Len(body.messages)]
      last == CloseTurn(s).banked
  IN IF s.refused THEN Refused
     ELSE [Canonical EXCEPT !.model = body.model, !.instructions = s.instructions,
             !.text = last.texts, !.image = s.globals \o last.refs,
             !.tools = body.tools, !.prior = body.prior]

-----------------------------------------------------------------------------
(* /v1/images/generations takes the canonical body as it is.  Its `image` is *)
(* a sequence here, one reference being a sequence of one.                   *)

JsonToCanonical(body) ==
  [Canonical EXCEPT !.model = body.model, !.n = body.n, !.format = body.format,
     !.mask = body.mask, !.image = body.image,
     !.text = IF body.prompt = Absent THEN <<>> ELSE <<body.prompt>>]

\* /v1/images/edits.  A form is a sequence of [key, values], the keys in the order
\* they first came; a value is a string or an upload.
Uploads == {"png", "nothing", "oversized", "unknown"}
FileFields == {"image", "mask"}
FormFields == [key : {"image", "image[]", "mask", "mask[]", "prompt", "n"},
               values : Seq(STRING) \ {<<>>}]
FieldOf(key) == CASE key = "image[]" -> "image" [] key = "mask[]" -> "mask" [] OTHER -> key

Usable(values) ==
  Strung([i \in DOMAIN values |->
            IF values[i] \in {"nothing", "", Blank} THEN <<>> ELSE <<values[i]>>])

FieldRefused(field, values) ==
  IF field \in FileFields THEN \E i \in DOMAIN values : values[i] \in {"oversized", "unknown"}
  ELSE Last(values) \in Uploads

ReadField(b, f) ==
  LET field == FieldOf(f.key)
      refs == Usable(f.values)
  IN IF ~b.ok \/ FieldRefused(field, f.values) THEN Refused
     ELSE CASE field = "prompt" -> [b EXCEPT !.text = <<Last(f.values)>>]
            [] field = "n" -> [b EXCEPT !.n = Last(f.values)]
            [] field \in FileFields /\ refs = <<>> -> b
            [] field = "image" /\ refs # <<>> -> [b EXCEPT !.image = refs]
            [] field = "mask" /\ refs # <<>> -> [b EXCEPT !.mask = Head(refs)]

FormToCanonical(body) ==
  LET after[n \in 0..Len(body.form)] ==
        IF n = 0 THEN Canonical ELSE ReadField(after[n - 1], body.form[n])
  IN after[Len(body.form)]

-----------------------------------------------------------------------------
(* validate_images_body, which every door runs on the canonical body.        *)

BadRef(v) == v \in {Junk, "", Blank, "oversized"}
Counts == {"1", "3"}     \* the positive integers that a client asks for

HasPrompt(c) == ~(ToSet(c.instructions \o c.text) \subseteq {"", Blank})

Acceptable(c) ==
  /\ c.ok
  /\ \A ref \in ToSet(c.image) : ~BadRef(ref)
  /\ c.mask # Absent => ~BadRef(c.mask) /\ c.image # <<>>
  /\ c.image # <<>> \/ HasPrompt(c)

Validate(c) ==
  IF ~Acceptable(c) THEN Refused
  ELSE [c EXCEPT !.n = IF @ = Absent \/ @ \in Counts THEN @ ELSE "1",
                 !.format = IF @ \in ResponseFormats THEN @ ELSE Absent]

\* What a door can be sent.
Sendable(i) ==
  \/ i.door = "images"
  \/ i.door = "edits" /\ i.body.form \in Seq(FormFields)
  \/ i.door = "chat" /\ i.body.messages \in Seq(ChatMessages)
  \/ i.door = "responses" /\ i.body.messages \in Seq(InputItems)

Fold(door, body) ==
  CASE door = "images"    -> JsonToCanonical(body)
    [] door = "edits"     -> FormToCanonical(body)
    [] door = "chat"      -> MessagesToCanonical(body)
    [] door = "responses" -> InputToCanonical(body)

-----------------------------------------------------------------------------
(* The way back.  A reply is [native |-> whether it already has the door's   *)
(* own shape, items |-> Seq of [url, b64]].                                  *)

Nothing == ""

ChatPart(item) == IF item.url # Nothing THEN <<"url", item.url>>
                  ELSE IF item.b64 # Nothing THEN <<"data", item.b64>> ELSE <<>>

ResponseCall(item) == IF item.b64 # Nothing THEN <<"b64", item.b64>>
                      ELSE IF item.url # Nothing THEN <<"url", item.url>> ELSE <<>>

Kept(seq) == SelectSeq(seq, LAMBDA e : e # <<>>)

CanonicalToChat(items) == Kept([i \in DOMAIN items |-> ChatPart(items[i])])
CanonicalToResponse(items) == Kept([i \in DOMAIN items |-> ResponseCall(items[i])])

-----------------------------------------------------------------------------
(* What a fold has to amount to, said without its states.                   *)

Positions(body, role) == {i \in DOMAIN body.messages : body.messages[i].role \in role}

\* The turn a position belongs to: user messages begin one, assistants end one.
TurnOf(body, i) == Cardinality({j \in Positions(body, {"user", "assistant"}) : j <= i})

Carries(m) == m.role = "string" \/ TextsOf(m.parts) # <<>> \/ RefsOf(m.parts) # <<>>

ItemTexts(m) == IF m.role = "string" THEN Values(m.parts) ELSE TextsOf(m.parts)

\* What the messages at the positions of P say, and what they show.
TextsAt(body, P) ==
  Strung([i \in DOMAIN body.messages |->
            IF i \in P THEN ItemTexts(body.messages[i]) ELSE <<>>])
RefsAt(body, P) ==
  Strung([i \in DOMAIN body.messages |->
            IF i \in P THEN RefsOf(body.messages[i].parts) ELSE <<>>])

\* The positions of the turn that counts.
LastTurn(door, body) ==
  IF door = "chat" THEN LET U == Positions(body, {"user"})
                        IN {i \in U : \A j \in U : j <= i}
  ELSE LET P == Positions(body, {"user", "part", "string"})
           T == {TurnOf(body, i) : i \in {j \in P : Carries(body.messages[j])}}
       IN {i \in P : TurnOf(body, i) \in T /\ \A t \in T : t <= TurnOf(body, i)}

Unreadable(door, body) ==
  \/ Positions(body, {"other"}) # {}
  \/ \E i \in DOMAIN body.messages :
        body.messages[i].role \notin {"assistant", "string"}
           /\ Refusable(body.messages[i].parts)
  \/ door = "chat" /\ Positions(body, {"user"}) = {}

ExpectedFold(door, body) ==
  LET turn == LastTurn(door, body)
      system == Positions(body, {"system"})
  IN [instructions |-> TextsAt(body, system),
      text |-> TextsAt(body, turn),
      image |-> RefsAt(body, system) \o RefsAt(body, turn)]
=============================================================================

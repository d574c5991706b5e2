------------------------------ MODULE Vendors -------------------------------
(***************************************************************************)
(* The image scripts of script_store, a vendor each, as the two functions  *)
(* they are to the executor: what the request phase makes of a canonical   *)
(* body and what the response phase makes of the vendor's answer.          *)
(*                                                                         *)
(* A reference is [kind |-> "url" | "data" | "bare", bytes |-> Nat, id].   *)
(* It reaches the vendor in a form: "link" (as the client's own link),     *)
(* "ours" (a link to our object storage), "inline" (with its bytes and     *)
(* their type), "bare" (the encoded bytes alone) or "file".                *)
(***************************************************************************)
EXTENDS FrontDoor

CONSTANTS
  MaxImages,   \* what fal and google take: MAX_EDIT_IMAGES, max_input_images
  PerImage,    \* google: inline_max_bytes
  PocketMax    \* google: _STATE_MAX

Scripts == {"openai", "fal", "tencent_hunyuan", "google", "senseaudio", "tencent_ci",
            "volcengine_ark", "qwen"}

\* ref_max_edge, ref_max_bytes, ref_fmt and ref_quality of an ark channel.
Unset == -1
Formats == {"jpeg", "jpg", "webp", "png", "gif"}
Lossy == {"jpeg", "jpg", "webp"}
RefOptions ==
  [edge : {Unset, 0, 1}, bytes : {Unset, 0, 1}, fmt : Formats \cup {Absent, "junk"},
   quality : {Unset, 0, 90, 101}]
NoPolicy == [edge |-> Unset, bytes |-> Unset, fmt |-> Absent, quality |-> Unset]

\* What the control plane set up: the script and its options.  `wrong`: which part of
\* the channel the script cannot work with.
Channels ==
  [script : Scripts,
   mode : {"auto", "url", "inline", "data_uri", "base64", "sized", "first"},
   pass : BOOLEAN, policy : RefOptions, rehost : BOOLEAN, total : Nat,
   wrong : {"nothing", "model", "path", "key", "op"}]

Failed == "failed"

-----------------------------------------------------------------------------
(* _STATE of a script: the formats parked between the phases of a request,   *)
(* a sequence of [rid, format] in the order of the dict.                     *)

Entries(p, rid) == {i \in DOMAIN p : p[i].rid = rid}

PutAlone(p, rid, format) == <<[rid |-> rid, format |-> format]>>

Put(p, rid, format) ==
  IF Entries(p, rid) = {} THEN Append(p, [rid |-> rid, format |-> format])
  ELSE [i \in DOMAIN p |-> IF p[i].rid = rid THEN [p[i] EXCEPT !.format = format] ELSE p[i]]

Found(p, rid) ==
  IF Entries(p, rid) = {} THEN Absent ELSE p[CHOOSE i \in Entries(p, rid) : TRUE].format

KeptEntries(p, rid) == p
Popped(p, rid) ==
  IF Entries(p, rid) = {} THEN p ELSE RemoveAt(p, CHOOSE i \in Entries(p, rid) : TRUE)

Trimmed(p) == IF Len(p) > PocketMax THEN SubSeq(p, PocketMax \div 2 + 1, Len(p)) ELSE p

Parked(c, p, rid, format) ==
  CASE c.script = "google" -> Put(Trimmed(p), rid, format)
    [] c.script \notin {"google", "volcengine_ark", "qwen"} /\ format # Absent ->
         Put(p, rid, format)
    [] OTHER -> p

\* qwen: _REQUESTS is filled in when the chat of the call exists, whatever was asked for.
Booked(c, p, rid, format) == IF c.script = "qwen" THEN Put(p, rid, format) ELSE p

-----------------------------------------------------------------------------
(* The request phase up to its first await.  A mask is a sequence of one     *)
(* reference or none, as the body has it.                                    *)

Reference == [kind : {"url", "data", "bare"}, bytes : Nat, id : STRING]
CanonicalBodies ==
  [image : Seq(Reference), mask : Seq(Reference), prompt : BOOLEAN, many : BOOLEAN,
   format : ResponseFormats \cup {Absent}]

GoogleRefuses(c, b) == c.wrong = "model" \/ ~b.prompt \/ b.many \/ b.mask # <<>>

\* The endpoint of fal is the model's or the path's; a mapped model need not have a twin
\* for edits, and a channel without a model needs a path.
FalEndpointKnown(c, edit) == c.wrong # "path" /\ (edit => c.wrong # "model")

FalRefuses(c, b) ==
  \/ b.image # <<>> /\ ~b.prompt
  \/ Len(b.image) > MaxImages
  \/ ~FalEndpointKnown(c, b.image # <<>>)

\* A mapped model without a size table, and no body here names a size.
SizeUnresolved(c) == c.wrong = "model"

SenseaudioRefuses(c, b) == ~b.prompt \/ Len(b.image) > 1 \/ SizeUnresolved(c)

KeySplits(c) == c.wrong # "key"
OpResolves(c) == c.wrong # "op"
CiRefuses(c, b) == ~KeySplits(c) \/ ~OpResolves(c) \/ Len(b.image) # 1

RefusedOutright(c, b) == c.script = "google" /\ GoogleRefuses(c, b)

RefusedOnceParked(c, b) ==
  \/ c.script = "fal" /\ FalRefuses(c, b)
  \/ c.script = "google" /\ Len(b.image) > MaxImages
  \/ c.script = "senseaudio" /\ SenseaudioRefuses(c, b)
  \/ c.script = "tencent_ci" /\ CiRefuses(c, b)

\* google: the references the script has to download itself.
NeedsFetch(c, ref) == ref.kind = "url" /\ (c.mode = "inline" \/ ~c.pass)

\* qwen: the references that the channel uses.
InputRefs(c, b) ==
  IF c.mode = "first" /\ b.image # <<>> THEN <<Head(b.image)>> ELSE b.image

\* What ctx.fanout is given; qwen's fan-outs of downloads and of uploads count as one.
Fetched(c, b) ==
  CASE c.script = "openai" -> IF b.image = <<>> THEN <<>> ELSE b.image \o b.mask
    [] c.script \in {"volcengine_ark", "tencent_hunyuan", "tencent_ci"} -> b.image
    [] c.script = "qwen" -> InputRefs(c, b)
    [] c.script = "google" -> SelectSeq(b.image, LAMBDA r : NeedsFetch(c, r))
    [] OTHER -> <<>>

OwnForm(ref) == CASE ref.kind = "url" -> "link" [] ref.kind = "data" -> "inline"
                  [] ref.kind = "bare" -> "bare"

\* volcengine_ark: the mode that applies, `inlined` once ark could not read a reference.
ArkMode(c, inlined) == IF inlined \/ c.mode = "inline" THEN "data_uri" ELSE c.mode

\* A quality needs a format that has one.
PolicyUsable(o) ==
  /\ o.edge # 0 /\ o.bytes # 0 /\ o.fmt # "junk"
  /\ o.quality # Unset => o.quality \in 1..100 /\ o.fmt \in Lossy

\* What the policy makes of a reference's bytes: shrunk, kept when this build cannot
\* shrink them, or no bytes at all.
\* The conversions a context offers; each but a data URI kept as it is may find that the
\* reference cannot be fetched or decoded, or is too large.  An upload that finds no
\* storage comes back as a data URI.
ImageBytes == {"bytes", Failed}
UploadTempImage == {"ours", "inline"}
ImageB64 == {"bare", Failed}
ImageDataUri(ref) == IF ref.kind = "data" THEN {"inline"} ELSE {"inline", Failed}
ImageUrl(ref) == IF ref.kind = "url" THEN {"link"} ELSE UploadTempImage \cup {Failed}

\* "unfit": no format it reads, or more pixels or bytes than it takes.
CompressImage == {"shrunk", "unfit", Failed}

\* What cannot be shrunk is sent as it came, and its bytes are asked for again.
CompressedOrKept(o) ==
  IF PolicyUsable(o)
  THEN UNION {IF c = "unfit" THEN ImageBytes ELSE {c} : c \in CompressImage}
  ELSE {Failed}

Shape(mode) == CASE mode = "base64" -> {"bare"} [] mode = "data_uri" -> {"inline"}
                 [] mode = "url" -> UploadTempImage

Unpressed(ref, mode) ==
  CASE mode = "base64" -> ImageB64
    [] mode = "data_uri" -> ImageDataUri(ref)
    [] mode = "url" -> ImageUrl(ref)

ArkForms(c, ref, inlined) ==
  LET mode == ArkMode(c, inlined)
  IN CASE mode = "url" /\ ref.kind = "url" -> {"link"}
       [] (mode # "url" \/ ref.kind # "url") /\ c.policy = NoPolicy -> Unpressed(ref, mode)
       [] (mode # "url" \/ ref.kind # "url") /\ c.policy # NoPolicy ->
            UNION {IF bytes = Failed THEN {Failed} ELSE Shape(mode) :
                     bytes \in CompressedOrKept(c.policy)}

WireRef(ref) == IF ref.kind = "bare" THEN {"inline", "bare"} ELSE {OwnForm(ref)}

\* tencent_ci looks at the picture: its format and its shorter side, whether it has the
\* size wanted already, and whether it is larger than the vendor takes.
Pictures == {"unreadable", "foreign", "small", "of_that_size", "fits", "large"}
PassesPreflight(picture) == picture \notin {"foreign", "small"}
SizeWanted(c) == c.mode = "sized"

LookedAt(c, picture) ==
  CASE picture = "unreadable" \/ ~PassesPreflight(picture) -> Failed
    [] picture = "of_that_size" -> IF SizeWanted(c) THEN "reached" ELSE "fits"
    [] picture = "fits" -> "fits"
    [] picture = "large" -> "resized"

\* What one job of the request phase can come to.
RefOutcomes(c, ref, inlined) ==
  CASE c.script \in {"openai", "qwen"} -> {"file", Failed}
    [] c.script = "google" -> {"fetched", Failed}
    [] c.script = "volcengine_ark" -> ArkForms(c, ref, inlined)
    [] c.script = "tencent_hunyuan" -> WireRef(ref)
    [] c.script = "tencent_ci" -> {LookedAt(c, picture) : picture \in Pictures}

-----------------------------------------------------------------------------
(* The request phase after its awaits: what is sent.  `stored`: an upload    *)
(* made now comes back as a link.                                            *)

Part(form, ref) == [form |-> form, id |-> ref.id, bytes |-> ref.bytes]

\* google meters what it inlines, in the order of the references.
Meter(c) == [ok |-> TRUE, left |-> c.total, parts |-> <<>>]

Add(s, form, ref) == [s EXCEPT !.parts = Append(@, Part(form, ref))]

Inlined(c, s, ref) ==
  [Add(s, "inline", ref) EXCEPT !.left = IF c.mode = "auto" THEN @ - ref.bytes ELSE @]

Hosted(s, ref, stored) == IF stored THEN Add(s, "ours", ref) ELSE [s EXCEPT !.ok = FALSE]

OverCapAlone(s, ref) == ref.bytes > PerImage
OverCap(s, ref) == ref.bytes > PerImage \/ ref.bytes > s.left

RefPart(c, s, ref, stored) ==
  CASE ~s.ok -> s
    [] s.ok /\ ref.kind = "url" /\ ~NeedsFetch(c, ref) -> Add(s, "link", ref)
    [] s.ok /\ (ref.kind # "url" \/ NeedsFetch(c, ref)) ->
         IF c.mode = "url" \/ (c.mode = "auto" /\ OverCap(s, ref))
         THEN Hosted(s, ref, stored) ELSE Inlined(c, s, ref)

Metered(c, refs, stored) ==
  LET upTo[n \in 0..Len(refs)] ==
        IF n = 0 THEN Meter(c) ELSE RefPart(c, upTo[n - 1], refs[n], stored)
  IN upTo[Len(refs)]

GoogleWire(c, b, stored) ==
  LET s == Metered(c, b.image, stored)
  IN [ok |-> s.ok, parts |-> s.parts, mask |-> <<>>]

Sent(parts) == [ok |-> TRUE, parts |-> parts, mask |-> <<>>]
Unsendable == [ok |-> FALSE, parts |-> <<>>, mask |-> <<>>]

ImageToCI(b, look, stored) ==
  LET ref == Head(b.image)
  IN IF ref.kind = "url" /\ look = "fits" THEN Sent(<<Part("link", ref)>>)
     ELSE IF stored THEN Sent(<<Part("ours", ref)>>) ELSE Unsendable

PartsOf(forms, refs) == [i \in DOMAIN refs |-> Part(forms[i], refs[i])]

\* The parts of openai split back into the images and the mask, the last one.
Split(b, forms) ==
  [ok |-> TRUE, parts |-> PartsOf(SubSeq(forms, 1, Len(b.image)), b.image),
   mask |-> PartsOf(SubSeq(forms, Len(b.image) + 1, Len(forms)), b.mask)]

OpenaiWire(b, forms) == IF b.image = <<>> THEN Sent(<<>>) ELSE Split(b, forms)
ArkWire(b, forms) == Sent(PartsOf(forms, b.image))
HunyuanWire(b, forms) == Sent(PartsOf(forms, b.image))
QwenWire(c, b, forms) == Sent(PartsOf(forms, InputRefs(c, b)))

\* fal and senseaudio send the references as they came.
Untouched(b) == Sent([i \in DOMAIN b.image |-> Part(OwnForm(b.image[i]), b.image[i])])

Wire(c, b, forms, stored) ==
  CASE c.script = "google" -> GoogleWire(c, b, stored)
    [] c.script = "tencent_ci" -> ImageToCI(b, Head(forms), stored)
    [] c.script = "openai" -> OpenaiWire(b, forms)
    [] c.script = "volcengine_ark" -> ArkWire(b, forms)
    [] c.script = "tencent_hunyuan" -> HunyuanWire(b, forms)
    [] c.script = "qwen" -> QwenWire(c, b, forms)
    [] c.script \in {"fal", "senseaudio"} -> Untouched(b)

\* The body is the one of the attempt before: every upload has a name of its own, and
\* neither openai's files nor tencent_ci's link are in the body that is compared, and
\* qwen's has the id of a new chat.
SameBody(c, w, v) ==
  \/ c.script \in {"openai", "tencent_ci"}
  \/ c.script # "qwen" /\ w = v /\ \A i \in DOMAIN w.parts : w.parts[i].form # "ours"

-----------------------------------------------------------------------------
(* The response phase.  A vendor's item is a link, a data URI under `url`    *)
(* ("inline"), encoded bytes ("b64"), bare bytes ("bytes") or "empty"; an   *)
(* item of the reply is of the same kinds, or a link of "ours".              *)

ItemKinds(c, format) ==
  CASE c.script \in {"openai", "fal"} -> {"link", "inline", "b64", "empty"}
    [] c.script \in {"tencent_hunyuan", "senseaudio"} -> {"link", "inline", "empty"}
    [] c.script = "google" -> {"text", "b64"}
    [] c.script = "tencent_ci" -> {"bytes"}
    [] c.script = "volcengine_ark" -> IF format = "b64_json" THEN {"b64"} ELSE {"link"}
    [] c.script = "qwen" -> {"link", "b64", "empty"}

Single == {"tencent_hunyuan", "senseaudio", "tencent_ci"}

\* google reads the pictures out of the parts of the answer, which are all of one kind.
CollectImages(parts) == [i \in 1..Cardinality({j \in DOMAIN parts : parts[j] = "b64"}) |-> "b64"]

Items(c, answer) == IF c.script = "google" THEN CollectImages(answer) ELSE answer

\* Answers without an image are refused by some scripts before they pop their pocket.
LeavesParked(c, answer) ==
  \/ c.script \in {"fal", "google"} /\ answer = "nothing"
  \/ c.script = "tencent_hunyuan" /\ answer = "moderated"
  \/ c.script = "volcengine_ark"

PassesNothing(c) == c.script \in {"openai", "volcengine_ark"}

\* A vendor's link: left alone, or fetched and stored when the channel says so.
Rehosted(c) == IF c.rehost THEN {"ours", "link", Failed} ELSE {"link"}

\* The bytes behind an item: as a link to our storage, or encoded when there is none.
Restored == {"ours", "b64", Failed}
Fetch == {"b64", Failed}

OpenaiItem(c, want, item) ==
  CASE want = Absent -> {item}
    [] want # Absent /\ item = "empty" -> {Failed}
    [] want = "url" /\ item = "link" -> Rehosted(c)
    [] want = "url" /\ item \in {"inline", "b64"} -> {"ours", item, Failed}
    [] want = "b64_json" /\ item = "b64" -> {"b64"}
    [] want = "b64_json" /\ item \in {"link", "inline"} -> Fetch

FalItem(c, want, item) ==
  CASE item = "inline" -> IF want = "b64_json" THEN Fetch ELSE Restored
    [] item = "link" -> IF want = "b64_json" THEN Fetch ELSE Rehosted(c)
    [] item \in {"b64", "empty"} -> {item}

HunyuanItem(c, want, item) ==
  CASE item = "empty" -> {Failed}
    [] item = "link" -> IF want = "b64_json" THEN Fetch ELSE Rehosted(c)
    [] item = "inline" -> IF want = "b64_json" THEN {Failed} ELSE {item}

SenseaudioItem(c, want, item) ==
  CASE item = "empty" -> {Failed}
    [] item = "inline" -> Restored
    [] item = "link" -> IF want = "b64_json" THEN Fetch ELSE Rehosted(c)

\* A link to our storage, or the encoded bytes when there is none.
HostImage == Restored
GoogleItem(want) == IF want = "url" THEN HostImage ELSE {"b64"}

CiItem(want) == IF want = "b64_json" THEN {"b64"} ELSE {"ours", "b64"}

ArkItem(c, item) == IF item = "link" THEN Rehosted(c) ELSE {item}

\* An item without a link is handed on as it is.
Carried == Fetch
QwenItem(c, want, item) ==
  CASE item # "link" -> {item}
    [] item = "link" -> IF want = "b64_json" THEN Carried ELSE Rehosted(c)

ItemOutcomes(c, want, item) ==
  CASE c.script = "openai" -> OpenaiItem(c, want, item)
    [] c.script = "fal" -> FalItem(c, want, item)
    [] c.script = "tencent_hunyuan" -> HunyuanItem(c, want, item)
    [] c.script = "senseaudio" -> SenseaudioItem(c, want, item)
    [] c.script = "google" -> GoogleItem(want)
    [] c.script = "tencent_ci" -> CiItem(want)
    [] c.script = "volcengine_ark" -> ArkItem(c, item)
    [] c.script = "qwen" -> QwenItem(c, want, item)
=============================================================================

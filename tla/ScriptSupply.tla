---------------------------- MODULE ScriptSupply ----------------------------
(***************************************************************************)
(* Where the text of a script comes from: the roots of adapter/scriptstore *)
(* (DirStore, Manifest, ChainStore), the checks of script_source.py, and   *)
(* the ScriptCache of compiled scripts.  One script, so a ref is a version *)
(* or an alias.  A look-up makes no await, but the files belong to an      *)
(* operator who edits them from another process, between any two calls.    *)
(***************************************************************************)
EXTENDS Integers, FiniteSets, SequencesExt

CONSTANTS
  Depth,        \* the number of roots: overlays first, the image last
  Versions,     \* the versions that files, refs and manifests name
  Aliases,      \* each root's manifest: a partial function from names to names
  Digests,      \* each root's manifest: a partial function from versions to texts
  PinDigests,   \* settings.script_pin_manifest_digests
  MaxAliasDepth,
  MaxCached,    \* _MAX_CACHED of a root
  MaxCompiled,  \* the size of the ScriptCache
  Allowlist,    \* settings.sha256_allowlist, as the texts it admits
  Texts,        \* the texts of scripts; a text stands for its digest
  Size,         \* their sizes
  Edited,       \* bound: the files that the operator edits
  Original,     \* the files as they are at the start
  MaxEdits      \* bound

Roots == 1..Depth
Stable == "stable"
None == "none"
Refs == Versions \cup {Stable}

\* The file of a version: flat `name@v.py`, or `name/v.py`.
Layouts == <<"flat", "nested">>
Paths == Roots \X ToSet(Layouts) \X Refs

\* A file that is "readable"; "locked", which cannot be read or is not UTF-8; "hidden",
\* which is there but whose stat fails; or "outside", a link that leaves the root, with the
\* text that it leads to.  What is no regular file is "missing".
File(how, text, mtime) == [how |-> how, text |-> text, mtime |-> mtime, size |-> Size[text]]
NoFile == [how |-> "missing", text |-> None, mtime |-> 0, size |-> 0]
Unseen(file) == file.how \in {"missing", "hidden"}

\* Two files that one entry of the text cache may stand for differ in their stats.
Siblings(p, q) == p # q /\ p[1] = q[1] /\ p[3] = q[3]

ASSUME SupplyAssumption ==
  /\ Depth \in Nat \ {0}
  /\ {MaxAliasDepth, MaxCached, MaxCompiled, MaxEdits} \subseteq Nat
  /\ MaxCached > 0 /\ MaxCompiled > 0
  /\ Stable \notin Versions /\ None \notin Texts
  /\ Size \in [Texts -> Nat]
  /\ \A r \in Roots : \A name \in DOMAIN Aliases[r] : Aliases[r][name] \in Refs
  /\ Edited \subseteq Paths /\ DOMAIN Original \subseteq Paths
  /\ \A p, q \in DOMAIN Original :
       /\ Original[p] \in Texts
       /\ Siblings(p, q) => Size[Original[p]] # Size[Original[q]]

VARIABLES
  files,      \* the file at each path
  stats,      \* the stats that files ever had
  clock,      \* the time of the file system, as coarse as it is
  edits,
  known,      \* DirStore._cache of each root: a set of [raw, mtime, size, text]
  compiled,   \* ScriptCache._entries, least recently used first
  look,       \* the look-up that goes on
  held        \* history: what edits replaced since the look-up began

rootVars == <<files, stats, clock, edits, known, look, held>>
supplyVars == <<rootVars, compiled>>

\* A look-up: the ref asked for, the ref it is at, the root and the candidate
\* file it is at, the stat it read, and what came out.
LookUp(ref) ==
  [at |-> "stat", wanted |-> ref, ref |-> ref, root |-> 1, layout |-> 1, mtime |-> 0,
   size |-> 0, text |-> None, path |-> None]
NoLookUp == [LookUp(None) EXCEPT !.at = "idle"]

SupplyInit ==
  /\ files = [p \in Paths |-> IF p \in DOMAIN Original THEN File("readable", Original[p], 0)
                              ELSE NoFile]
  /\ stats = {<<0, Size[t]>> : t \in Texts}
  /\ clock = 1
  /\ edits = 0
  /\ known = [r \in Roots |-> {}]
  /\ compiled = <<>>
  /\ look = NoLookUp
  /\ held = {}

\* What a path held at some moment since the look-up began.
HeldBy(p) == {files[p]} \cup {h[2] : h \in {g \in held : g[1] = p}}

-----------------------------------------------------------------------------
(* The manifest of a root.                                                  *)

\* The name after so many aliases were followed; a chain that is still not at its
\* end after MaxAliasDepth of them, as in a cycle, resolves to nothing.
Followed(root, name) ==
  LET follow[k \in 0..MaxAliasDepth] ==
        IF k = 0 THEN name
        ELSE LET last == follow[k - 1]
             IN IF last \in DOMAIN Aliases[root] THEN Aliases[root][last] ELSE last
  IN follow[MaxAliasDepth]

Resolve(root, ref) ==
  LET end == Followed(root, ref) IN IF end \in Refs \ DOMAIN Aliases[root] THEN end ELSE ref

DigestHolds(root, ref, text) ==
  (PinDigests /\ Resolve(root, ref) \in DOMAIN Digests[root])
    => Digests[root][Resolve(root, ref)] = text

-----------------------------------------------------------------------------
(* The look-up of a ref: ChainStore over DirStore over the files.           *)

PathOf(l) == <<l.root, Layouts[l.layout], Resolve(l.root, l.ref)>>

\* The candidate is passed over: the next one, the next root, then the stable ref.
Missed(l) ==
  CASE l.layout < Len(Layouts) -> [l EXCEPT !.layout = @ + 1]
    [] l.layout = Len(Layouts) /\ l.root < Depth -> [l EXCEPT !.layout = 1, !.root = @ + 1]
    [] l.layout = Len(Layouts) /\ l.root = Depth /\ l.ref # Stable ->
         [l EXCEPT !.layout = 1, !.root = 1, !.ref = Stable]
    [] l.layout = Len(Layouts) /\ l.root = Depth /\ l.ref = Stable ->
         [l EXCEPT !.at = "refused"]

\* The manifest's digest is held against every text, cached or not.
Hit(l, text) == IF DigestHolds(l.root, l.ref, text)
                THEN [l EXCEPT !.at = "found", !.text = text, !.path = PathOf(l)]
                ELSE [l EXCEPT !.at = "refused"]

\* A text is cached with the stat it was read after, both of them compared.
SameStatButSize(entry, file) == entry.mtime = file.mtime
SameStat(entry, file) == entry.mtime = file.mtime /\ entry.size = file.size

Known(l, file) == {e \in known[l.root] : e.raw = l.ref /\ SameStat(e, file)}

\* A stat that fails, for whatever reason, says that there is no file.
Stat ==
  LET file == files[PathOf(look)] IN
  /\ look.at = "stat"
  /\ look' = CASE Unseen(file) -> Missed(look)
               [] file.how = "outside" -> [look EXCEPT !.at = "refused"]
               [] file.how \in {"readable", "locked"} ->
                    IF Known(look, file) # {}
                    THEN Hit(look, (CHOOSE e \in Known(look, file) : TRUE).text)
                    ELSE [look EXCEPT !.at = "read", !.mtime = file.mtime, !.size = file.size]
  /\ UNCHANGED <<files, stats, clock, edits, known, compiled, held>>

\* A file that is gone, out of reach, locked or not UTF-8 by now refuses the request; a
\* link is followed.
ReadBrokenIsMissed(l) == Missed([l EXCEPT !.at = "stat"])
ReadBroken(l) == [l EXCEPT !.at = "refused"]

Cached(l, text) ==
  LET others == {e \in known[l.root] : e.raw # l.ref}
      kept == IF Cardinality(known[l.root]) >= MaxCached THEN {} ELSE others
  IN [known EXCEPT ![l.root] =
        kept \cup {[raw |-> l.ref, mtime |-> l.mtime, size |-> l.size, text |-> text]}]

Read ==
  LET file == files[PathOf(look)] IN
  /\ look.at = "read"
  /\ IF file.how \in {"readable", "outside"}
     THEN known' = Cached(look, file.text) /\ look' = Hit(look, file.text)
     ELSE look' = ReadBroken(look) /\ UNCHANGED known
  /\ UNCHANGED <<files, stats, clock, edits, compiled, held>>

StartLookUp(ref) ==
  /\ look' = LookUp(ref)
  /\ held' = {}
  /\ UNCHANGED <<files, stats, clock, edits, known, compiled>>

-----------------------------------------------------------------------------
(* script_source.py and script_cache.py.                                    *)

\* The digest that the channel pins, and the deployment's list.
Verified(text, pin) == (pin = None \/ pin = text) /\ (Allowlist = {} \/ text \in Allowlist)

\* A compiled script is kept under the digest of its text.
KeyByRef(source) == source.ref
CacheKey(source) == source.text

EntriesFor(key) == {i \in DOMAIN compiled : compiled[i].key = key}
EntryFor(key) == CHOOSE i \in EntriesFor(key) : TRUE

Renewed(entry) ==
  LET others == IF EntriesFor(entry.key) = {} THEN compiled
                ELSE RemoveAt(compiled, EntryFor(entry.key))
      all == Append(others, entry)
  IN IF Len(all) > MaxCompiled THEN Tail(all) ELSE all

\* Compiled once: what a script turns out to be is a matter of its text.
CompiledFrom(source) ==
  IF EntriesFor(CacheKey(source)) # {} THEN compiled[EntryFor(CacheKey(source))]
  ELSE [key |-> CacheKey(source), text |-> source.text]

-----------------------------------------------------------------------------
(* The operator.  Every text that is written leaves a stat of its own: a later *)
(* time, or within the same tick of the file system's clock another size.      *)
(* Who may read a file or its directory changes without the stat.              *)

Guarded == {"readable", "locked", "hidden"}

Put(p, file) ==
  /\ files[p] # file
  /\ files' = [files EXCEPT ![p] = file]
  /\ stats' = stats \cup {<<file.mtime, file.size>>}
  /\ held' = IF look.at = "idle" THEN held ELSE held \cup {<<p, files[p]>>}
  /\ edits' = edits + 1

Edit ==
  /\ edits < MaxEdits
  /\ \E p \in Edited, later \in {0, 1} :
       /\ clock' = clock + later
       /\ \/ \E t \in Texts, how \in {"readable", "outside"} :
               /\ <<clock', Size[t]>> \notin stats
               /\ Put(p, File(how, t, clock'))
          \/ /\ later = 0 /\ files[p].how \in Guarded
             /\ \E how \in Guarded : Put(p, [files[p] EXCEPT !.how = how])
          \/ later = 0 /\ Put(p, NoFile)
  /\ UNCHANGED <<known, compiled, look>>

SupplyTypeOK ==
  /\ DOMAIN files = Paths
  /\ clock \in Nat /\ edits \in 0..MaxEdits
  /\ \A r \in Roots : Cardinality(known[r]) <= MaxCached
  /\ \A r \in Roots : \A e, f \in known[r] : e.raw = f.raw => e = f
  /\ Len(compiled) <= MaxCompiled
  /\ look.at \in {"idle", "stat", "read", "found", "refused"}
=============================================================================

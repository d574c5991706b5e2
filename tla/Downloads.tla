------------------------------ MODULE Downloads ------------------------------
(***************************************************************************)
(* ctx.download_image over the TTLCache of a worker: the downloads that    *)
(* requests have in flight at the same time, each with its own clock, the  *)
(* hosts they ask, and the scripts that keep values of their own in the    *)
(* same cache.  get() and set() of the in-process cache never suspend, so  *)
(* a look at the cache and what follows it up to the request for the url   *)
(* is one step, and so are the end of a reply and the write it ends in.    *)
(***************************************************************************)
EXTENDS TTLCache

CONSTANTS
  Urls,       \* the keys of downloads; the other keys are the scripts' own
  Fetchers,   \* the downloads a worker has in flight
  Kept,       \* the values scripts keep under their own keys
  Images,     \* the values with the magic bytes of an image
  MaxAsset,   \* settings.max_asset_bytes
  CacheTTL,   \* settings.img_cache_ttl
  Timeout     \* settings.image_download_timeout

ASSUME DownloadAssumption ==
  /\ Urls \subseteq Keys /\ Images \subseteq Values /\ Kept \subseteq Values
  /\ MaxAsset \in Nat /\ CacheTTL \in TTLs /\ Timeout \in Nat

VARIABLES
  flight,   \* per fetcher, the url it waits for and what is left of its clock
  asked,    \* history: how long ago what a url's entry holds was asked for
  handed    \* history: what a request was given in the last step

downloadVars == <<cacheVars, flight, asked, handed>>

NoDownload == [url |-> "none", left |-> 0]
NothingHanded == [value |-> "none", age |-> 0]

\* Ages are told apart up to the oldest one that may be handed out, and one more.
MaxAge == CacheTTL + Timeout + 1

DownloadInit ==
  /\ CacheInit
  /\ flight = [f \in Fetchers |-> NoDownload]
  /\ asked = [u \in Urls |-> 0]
  /\ handed = NothingHanded

Lands(f) == flight' = [flight EXCEPT ![f] = NoDownload]
Hand(v, old) == handed' = [value |-> v, age |-> old]
HandNothing == handed' = NothingHanded

\* An entry that is there and is not empty is the answer.
ServeCached(f, u) ==
  /\ flight[f] = NoDownload
  /\ Hit(u) /\ Size[EntryOf(u).value] > 0
  /\ Hand(EntryOf(u).value, asked[u])
  /\ UNCHANGED <<flight, asked>>

StartFetch(f, u) ==
  /\ flight[f] = NoDownload
  /\ Get(u) /\ (Hit(u) => Size[EntryOf(u).value] = 0)
  /\ flight' = [flight EXCEPT ![f] = [url |-> u, left |-> Timeout]]
  /\ HandNothing /\ UNCHANGED asked

\* The length a reply declares is no more than its bytes: a compressed one declares less,
\* and one that declares none counts as 0.
TrustedLength(v, declared) == declared <= MaxAsset
WithinCap(v, declared) == declared <= MaxAsset /\ Size[v] <= MaxAsset

\* A reply is refused when it neither claims nor looks to be an image.
RefuseNonImage(v, type) == type = "other" /\ v \notin Images

\* The whole reply, kept for the next request that asks.
FetchEnds(f, v, declared, type) ==
  /\ flight[f] # NoDownload
  /\ WithinCap(v, declared) /\ ~RefuseNonImage(v, type)
  /\ LET u == flight[f].url
         old == Timeout - flight[f].left
     IN  Set(u, v, CacheTTL) /\ asked' = [asked EXCEPT ![u] = old] /\ Hand(v, old)
  /\ Lands(f)

\* An error status, a reply that is too large or no image, a broken connection, or the
\* end of the request.
FetchFails(f) ==
  flight[f] # NoDownload /\ Lands(f) /\ HandNothing /\ UNCHANGED <<cacheVars, asked>>

FetchTimesOut(f) ==
  /\ flight[f] # NoDownload /\ flight[f].left = 0
  /\ Lands(f) /\ HandNothing /\ UNCHANGED <<cacheVars, asked>>

\* A script's own use of ctx.cache.
UseCache(k) ==
  /\ \/ Get(k)
     \/ \E v \in Kept, ttl \in TTLs : Set(k, v, ttl)
  /\ HandNothing /\ UNCHANGED <<flight, asked>>

Shutdown == Close /\ HandNothing /\ UNCHANGED <<flight, asked>>

\* A clock that has run out ends its download before time goes on.
TimePasses ==
  /\ \A f \in Fetchers : flight[f] # NoDownload => flight[f].left > 0
  /\ AgeEntries
  /\ flight' = [f \in Fetchers |->
       IF flight[f] = NoDownload THEN NoDownload ELSE [flight[f] EXCEPT !.left = @ - 1]]
  /\ asked' = [u \in Urls |-> IF asked[u] < MaxAge THEN asked[u] + 1 ELSE MaxAge]
  /\ HandNothing

DownloadNext ==
  \/ \E f \in Fetchers, u \in Urls : ServeCached(f, u) \/ StartFetch(f, u)
  \/ \E f \in Fetchers, v \in Values, type \in {"none", "image", "other"} :
       \E declared \in 0..Size[v] : FetchEnds(f, v, declared, type)
  \/ \E f \in Fetchers : FetchFails(f) \/ FetchTimesOut(f)
  \/ \E k \in Keys \ Urls : UseCache(k)
  \/ Shutdown
  \/ TimePasses

DownloadSpec == DownloadInit /\ [][DownloadNext]_downloadVars

-----------------------------------------------------------------------------
\* A request is given bytes within max_asset_bytes that the host was asked for no longer
\* ago than a life in the cache and one download, through hits, refetches of an empty
\* value and downloads of one url that end in another order than they began: a hit never
\* lengthens the life of what it finds, whatever a reply declares the cap is met, and
\* a slow download is cut before it can store what is older.  (With the types.)
FreshAndBounded ==
  /\ flight \in [Fetchers -> {NoDownload} \cup [url : Urls, left : 0..Timeout]]
  /\ asked \in [Urls -> 0..MaxAge]
  /\ handed # NothingHanded =>
       Size[handed.value] <= MaxAsset /\ handed.age <= CacheTTL + Timeout
  /\ \A i \in DOMAIN entries :
       LET e == entries[i]
       IN e.key \in Urls /\ e.left # Expired => asked[e.key] + e.left <= CacheTTL + Timeout
===============================================================================

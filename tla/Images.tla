------------------------------- MODULE Images -------------------------------
(***************************************************************************)
(* The pictures on the screen: the demand of each frame, the workers that   *)
(* fetch and decode, the store of decoded pictures, and the disk cache that  *)
(* terminals and sessions share.                                             *)
(*                                                                         *)
(* A frame asks for less than QUEUE_CAP, so its queue is what the workers    *)
(* leave; and the order of a frame's requests is left open, but for those    *)
(* of the viewer, which come first.                                          *)
(***************************************************************************)
EXTENDS Integers, Sequences, FiniteSets

CONSTANTS
  Sources,     \* the pictures' addresses
  Private,     \* those the forum's API serves with the grant
  Sizes,       \* the boxes a picture is drawn in
  Keys,        \* the requests the screens make of them
  Workers,     \* LOAD_CONCURRENCY
  Kept,        \* LRU_CAP
  MaxSession,  \* bound: sessions
  MaxJob       \* bound: jobs that are not over

ASSUME ImagesAssumption ==
  /\ Private \subseteq Sources
  /\ Keys \subseteq [source : Sources, size : Sizes, full : BOOLEAN]
  /\ IsFiniteSet(Keys)
  /\ {Workers, Kept, MaxSession, MaxJob} \subseteq Nat \ {0}

VARIABLES
  session,   \* App.session_generation
  inflight,  \* Images.inflight
  failed,    \* Images.failed
  cache,     \* Images.cache, least recently used first
  disk,      \* per source, the bytes on disk
  jobs,      \* the loads, those of earlier sessions included
  arrived    \* Msg::ImageLoaded, sent and not handled

imageVars == <<session, inflight, failed, cache, disk, jobs, arrived>>

Bytes == {"none", "picture", "junk"}
Picture == [source : Sources, size : Sizes, by : 0..MaxSession]

\* Where a job's bytes came from, what they are, and under which session they
\* were fetched; 0 for what the disk kept.
Job == [key : Keys, session : 1..MaxSession,
        at : {"waiting", "loading", "decoding"},
        aborted : BOOLEAN, from : {"nowhere", "disk", "network"},
        bytes : Bytes, by : 0..MaxSession]
Arrival == [key : Keys, session : 1..MaxSession, ok : BOOLEAN,
            by : 0..MaxSession]

ImageTypeOK ==
  /\ session \in 1..MaxSession
  /\ inflight \subseteq Keys /\ failed \subseteq Keys
  /\ cache \in Seq(Picture) /\ Len(cache) <= Kept
  /\ disk \in [Sources -> Bytes]
  /\ jobs \subseteq Job /\ arrived \subseteq Arrival

ImageInit ==
  /\ session = 1 /\ inflight = {} /\ failed = {}
  /\ cache = <<>>
  /\ disk \in [Sources -> Bytes]
  /\ \A s \in Private : disk[s] = "none"
  /\ jobs = {} /\ arrived = {}

SourcesOf(keys) == {k.source : k \in keys}
Holds(k, c) == c.source = k.source /\ c.size = k.size
Decoded(k) == \E i \in DOMAIN cache : Holds(k, cache[i])
-----------------------------------------------------------------------------
(* paint: what a frame asks for and is neither decoded, refused nor on its  *)
(* way.  Frames follow one another as the reader pleases.                    *)
Wanted(shown) ==
  {k \in shown : ~Decoded(k) /\ k \notin failed /\ k \notin inflight}

\* Each worker takes the first request whose source no other worker loads.
Takes(chosen, shown) ==
  /\ \A j, k \in chosen : j.source = k.source => j = k
  /\ SourcesOf(chosen) \cap SourcesOf(inflight) = {}
  /\ Cardinality(inflight) + Cardinality(chosen) <= Workers
  /\ \A k \in Wanted(shown) \ chosen :
       k.source \notin SourcesOf(inflight \cup chosen) =>
         /\ Cardinality(inflight \cup chosen) = Workers
         /\ k.full => \A j \in chosen : j.full

\* Painting marks what it paints as used, in the order it is drawn.
Used(shown) ==
  LET Painted(i) == \E k \in shown : Holds(k, cache[i])
      Comes(i, j) == IF Painted(i) THEN Painted(j) ELSE Painted(j) \/ i < j
      Orders == {order \in [DOMAIN cache -> DOMAIN cache] :
                   \A i, j \in DOMAIN cache :
                     i < j => order[i] # order[j] /\ Comes(order[i], order[j])}
  IN {[i \in DOMAIN cache |-> cache[order[i]]] : order \in Orders}

\* A frame that asks for nothing and marks nothing changes nothing.
Paint(shown, chosen) ==
  /\ cache' \in Used(shown)
  /\ chosen # {} \/ cache' # cache
  /\ Takes(chosen, shown)
  /\ Cardinality(jobs) + Cardinality(chosen) <= MaxJob
  /\ inflight' = inflight \cup chosen
  /\ jobs' = jobs \cup
       {[key |-> k, session |-> session, at |-> "waiting", aborted |-> FALSE,
         from |-> "nowhere", bytes |-> "none", by |-> 0] : k \in chosen}
  /\ UNCHANGED <<session, failed, disk, arrived>>

\* retry_source.
Retry(s) ==
  /\ \E k \in failed : k.source = s
  /\ failed' = {k \in failed : k.source # s}
  /\ UNCHANGED <<session, inflight, cache, disk, jobs, arrived>>
-----------------------------------------------------------------------------
(* spawn_image_load and images::load. *)
Slots == {j \in jobs : j.at # "waiting"}
Becomes(j, k) == jobs' = (jobs \ {j}) \cup {k}
CacheableAll(j) == j.key.source \in Sources           \* mutant
Cacheable(j) == j.key.source \notin Private

AcquireSlot(j) ==
  /\ j.at = "waiting" /\ ~j.aborted /\ Cardinality(Slots) < Workers
  /\ Becomes(j, [j EXCEPT !.at = "loading"])
  /\ UNCHANGED <<session, inflight, failed, cache, disk, arrived>>

ReadDisk(j) ==
  /\ j.at = "loading" /\ ~j.aborted
  /\ Cacheable(j) /\ disk[j.key.source] # "none"
  /\ Becomes(j, [j EXCEPT !.at = "decoding", !.from = "disk",
                          !.bytes = disk[j.key.source]])
  /\ UNCHANGED <<session, inflight, failed, cache, disk, arrived>>

\* The bytes are of the content type of a picture, whatever they are.
Fetch(j, bytes) ==
  /\ j.at = "loading" /\ ~j.aborted
  /\ Cacheable(j) => disk[j.key.source] = "none"
  /\ Becomes(j, [j EXCEPT !.at = "decoding", !.from = "network",
                          !.bytes = bytes, !.by = j.session])
  /\ UNCHANGED <<session, inflight, failed, cache, disk, arrived>>

Arrives(j, ok) ==
  arrived' = arrived \cup {[key |-> j.key, session |-> j.session, ok |-> ok,
                            by |-> j.by]}

FetchFails(j) ==
  /\ j.at = "loading" /\ ~j.aborted
  /\ Cacheable(j) => disk[j.key.source] = "none"
  /\ jobs' = jobs \ {j}
  /\ Arrives(j, FALSE)
  /\ UNCHANGED <<session, inflight, failed, cache, disk>>

\* Fetched bytes are kept only once they decoded, cached bytes that do not
\* decode are forgotten.
Decode(j) ==
  /\ j.at = "decoding" /\ ~j.aborted
  /\ disk' = CASE j.bytes = "picture" /\ j.from = "network" /\ Cacheable(j) ->
                    [disk EXCEPT ![j.key.source] = "picture"]
               [] j.bytes = "junk" /\ j.from = "disk" ->
                    [disk EXCEPT ![j.key.source] = "none"]
               [] OTHER -> disk
  /\ jobs' = jobs \ {j}
  /\ Arrives(j, j.bytes = "picture")
  /\ UNCHANGED <<session, inflight, failed, cache>>

\* An aborted load stops where it waits; what is being decoded is decoded to
\* its end, for nothing, and keeps its slot till then.
AbortedEnds(j) ==
  /\ j.aborted
  /\ jobs' = jobs \ {j}
  /\ UNCHANGED <<session, inflight, failed, cache, disk, arrived>>

\* The cache is pruned, or another terminal stores or forgets the bytes.
DiskChanges(s, bytes) ==
  /\ s \notin Private /\ bytes \in {"none", "picture"} /\ disk[s] # bytes
  /\ disk' = [disk EXCEPT ![s] = bytes]
  /\ UNCHANGED <<session, inflight, failed, cache, jobs, arrived>>
-----------------------------------------------------------------------------
\* Lru::insert.
Inserted(picture) ==
  LET S == {i \in DOMAIN cache : Holds(picture, cache[i])}
      i == CHOOSE i \in S : TRUE
      rest == IF S = {} THEN cache
              ELSE SubSeq(cache, 1, i - 1) \o SubSeq(cache, i + 1, Len(cache))
      all == Append(rest, picture)
  IN IF Len(all) > Kept THEN Tail(all) ELSE all

\* An answer of an earlier session counts in this one.
ImageLoadedAnyway(m) ==                                \* mutant
  /\ m \in arrived /\ arrived' = arrived \ {m}
  /\ inflight' = inflight \ {m.key}
  /\ failed' = IF m.ok THEN failed \ {m.key} ELSE failed \cup {m.key}
  /\ cache' = IF m.ok THEN Inserted([source |-> m.key.source,
                                     size |-> m.key.size, by |-> m.by])
              ELSE cache
  /\ UNCHANGED <<session, disk, jobs>>

(* on_loaded; what an earlier session asked for is dropped. *)
ImageLoaded(m) ==
  /\ m \in arrived /\ arrived' = arrived \ {m}
  /\ IF m.session # session THEN UNCHANGED <<inflight, failed, cache>>
     ELSE /\ inflight' = inflight \ {m.key}
          /\ failed' = IF m.ok THEN failed \ {m.key} ELSE failed \cup {m.key}
          /\ cache' = IF m.ok THEN Inserted([source |-> m.key.source,
                                             size |-> m.key.size,
                                             by |-> m.by])
                      ELSE cache
  /\ UNCHANGED <<session, disk, jobs>>

(* begin_session and end_session: the loads are aborted, reset_session. *)
ResetSession ==
  /\ session < MaxSession
  /\ session' = session + 1
  /\ jobs' = {[j EXCEPT !.aborted = TRUE] : j \in jobs}
  /\ inflight' = {} /\ failed' = {} /\ cache' = <<>>
  /\ UNCHANGED <<disk, arrived>>

ImageNext ==
  \/ \E shown \in SUBSET Keys :
       \E chosen \in SUBSET Wanted(shown) : Paint(shown, chosen)
  \/ \E s \in Sources : Retry(s) \/ \E b \in Bytes : DiskChanges(s, b)
  \/ \E j \in jobs :
       \/ AcquireSlot(j) \/ ReadDisk(j) \/ FetchFails(j) \/ Decode(j)
       \/ AbortedEnds(j)
       \/ \E bytes \in {"picture", "junk"} : Fetch(j, bytes)
  \/ \E m \in arrived : ImageLoaded(m)
  \/ ResetSession

ImageSpec == ImageInit /\ [][ImageNext]_imageVars
-----------------------------------------------------------------------------
(* A picture the forum shows to its members only was fetched under the      *)
(* session that looks at it: no load of an earlier session, no late answer  *)
(* and no file of another account's ever fills it in (spawn_image_load,     *)
(* load, image_uses_bearer).                                                *)
PrivateStaysPrivate ==
  \A i \in DOMAIN cache :
    cache[i].source \in Private => cache[i].by = session

(* A picture that is wanted can come: what is on its way is carried by one  *)
(* load of this session, or by its answer, and no source is loaded twice at *)
(* once; and what failed would not be served from disk what made it fail,   *)
(* so that a retry may succeed (reset_session, on_loaded, load).             *)
PicturesCanCome ==
  LET loading == {j \in jobs : j.session = session /\ ~j.aborted}
      coming == {m \in arrived : m.session = session}
  IN /\ inflight = {j.key : j \in loading} \cup {m.key : m \in coming}
     /\ Cardinality(SourcesOf(inflight)) = Cardinality(loading)
                                            + Cardinality(coming)
     /\ \A k \in failed : k.source \notin Private => disk[k.source] # "junk"
=============================================================================

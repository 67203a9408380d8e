----------------------------- MODULE PageCache ------------------------------
(***************************************************************************)
(* PageCache of cpp-util/page_cache.h on the LRUCache it keeps its pages   *)
(* in and the disk below.  A cached page is an entry whose value is a      *)
(* frame; frames come from free_list_ and, when it is empty, from arena_.  *)
(* The pages of the model fall in one shard of ShardedLRUCache.            *)
(*                                                                         *)
(* One thread uses the cache, but it may have fetched several pages, or    *)
(* one page several times, before it releases them.  WritePage is          *)
(* FetchPage followed by WriteRelease, ReadPage is FetchPage followed by   *)
(* ReadRelease.  The disk holds whole pages, as DiskManager describes.     *)
(***************************************************************************)
EXTENDS LRUCache

CONSTANTS
  Frames,
  Pages_,         \* the frames of the array pages_, a sequence
  Contents,
  Zero, Garbage,  \* a cleared page, and fresh memory of the arena
  Clients         \* the clients to consider, by what they do besides writing

ASSUME FramesAssumption ==
  /\ Keys \subseteq Nat
  /\ Values = Frames
  /\ Pages_ \in Seq(Frames)
  /\ NoRepeats(Pages_)

VARIABLES
  frame,       \* page_id_, data_ and is_dirty_ of a frame
  free_list_,
  fresh,       \* frames the arena has not handed out
  disk,        \* the pages on disk
  client,      \* which of these the client does: "read" pages, "delete" pages
               \* it has fetched and not released, "flush" all pages
  written,     \* history: what was written last, by page
  values       \* history: everything that was written, by page

pageVars == <<frame, free_list_, fresh, disk, client, written, values>>
allVars == <<vars, pageVars>>

FileSize == IF DOMAIN disk = {} THEN 0
            ELSE 1 + CHOOSE n \in DOMAIN disk : \A m \in DOMAIN disk : m <= n

\* DiskManager::ReadPage into a buffer that holds old.
DiskRead(p, old) ==
  CASE p \in DOMAIN disk -> disk[p]
    [] p \notin DOMAIN disk /\ p > FileSize -> old
    [] OTHER -> Zero

\* A frame's page, contents and flag.
Held == [page_id_ : Keys \cup {NULL}, data_ : Contents \cup {Zero, Garbage}, is_dirty_ : BOOLEAN]
Holding(p, d, dirty) == [page_id_ |-> p, data_ |-> d, is_dirty_ |-> dirty]

Put(d, p, v) == [q \in DOMAIN d \cup {p} |-> IF q = p THEN v ELSE d[q]]

-----------------------------------------------------------------------------

PageInit ==
  /\ Init
  /\ frame = [f \in Frames |->
       IF f \in Elements(Pages_) THEN Holding(NULL, Zero, FALSE)
                              ELSE Holding(NULL, Garbage, TRUE)]
  /\ free_list_ = Pages_
  /\ fresh = Frames \ Elements(Pages_)
  /\ disk = [p \in {} |-> Zero]
  /\ client \in Clients
  /\ written = [p \in {} |-> Zero]
  /\ values = [p \in Keys |-> {}]

\* The frame is not reset.
BugCallBackNoReset(fr) ==
  LET freed == {e \in Live : entry'[e] = NULL}
  IN  IF freed = {}
      THEN frame' = fr /\ UNCHANGED <<free_list_, disk>>
      ELSE LET f == entry[CHOOSE e \in freed : TRUE].value
           IN  /\ disk' = IF fr[f].is_dirty_ THEN Put(disk, fr[f].page_id_, fr[f].data_) ELSE disk
               /\ frame' = fr
               /\ free_list_' = Append(free_list_, f)

\* A dirty frame is not written.
BugCallBackNoWrite(fr) ==
  LET freed == {e \in Live : entry'[e] = NULL}
  IN  IF freed = {}
      THEN frame' = fr /\ UNCHANGED <<free_list_, disk>>
      ELSE LET f == entry[CHOOSE e \in freed : TRUE].value
           IN  /\ frame' = [fr EXCEPT ![f] = Holding(@.page_id_, Zero, @.is_dirty_)]
               /\ free_list_' = Append(free_list_, f)
               /\ UNCHANGED disk

\* DeletePageCallBack, the deleter of the cache, on frames fr: it runs for
\* the entry a step of the cache frees, if any.
DeletePageCallBack(fr) ==
  LET freed == {e \in Live : entry'[e] = NULL}
  IN  IF freed = {}
      THEN frame' = fr /\ UNCHANGED <<free_list_, disk>>
      ELSE LET f == entry[CHOOSE e \in freed : TRUE].value
           IN  /\ disk' = IF fr[f].is_dirty_ THEN Put(disk, fr[f].page_id_, fr[f].data_) ELSE disk
               /\ frame' = [fr EXCEPT ![f] = Holding(@.page_id_, Zero, @.is_dirty_)]
               /\ free_list_' = Append(free_list_, f)

\* FetchPage: the page is cached, ...
FetchHit(p) == Lookup(p) /\ UNCHANGED pageVars

\* ... or it needs a frame, from the free list or from the arena, ...
FrameTaken(f) ==
  \/ free_list_ # <<>> /\ f = Head(free_list_) /\ free_list_' = Tail(free_list_) /\ UNCHANGED fresh
  \/ free_list_ = <<>> /\ f \in fresh /\ fresh' = fresh \ {f} /\ UNCHANGED free_list_

\* ... which is loaded and inserted.
FetchMiss(p, e, f) ==
  /\ busy = "no"
  /\ table_[p] = NULL
  /\ FrameTaken(f)
  /\ frame' = [frame EXCEPT ![f] = Holding(p, DiskRead(p, @.data_), @.is_dirty_)]
  /\ Insert(p, f, e)
  /\ UNCHANGED <<disk, client, written, values>>

\* The rest of Insert.
EvictPage ==
  /\ Evict
  /\ DeletePageCallBack(frame)
  /\ UNCHANGED <<fresh, client, written, values>>

FetchReturn == Return /\ UNCHANGED pageVars

\* The copy into the page and ReleasePage(ent, true).
WriteRelease(e, d) ==
  /\ Release(e)
  /\ LET f == entry[e].value
         p == entry[e].key
     IN  /\ DeletePageCallBack([frame EXCEPT ![f] = Holding(@.page_id_, d, TRUE)])
         /\ written' = Put(written, p, d)
         /\ values' = [values EXCEPT ![p] = @ \cup {d}]
  /\ UNCHANGED <<fresh, client>>

\* ReleasePage(ent, false).
ReadRelease(e) ==
  /\ "read" \in client
  /\ Release(e)
  /\ DeletePageCallBack([frame EXCEPT ![entry[e].value] = Holding(@.page_id_, @.data_, FALSE)])
  /\ UNCHANGED <<fresh, client, written, values>>

DeletePage(p) ==
  /\ Erase(p)
  /\ handles[table_[p]] > 0 => "delete" \in client
  /\ DeletePageCallBack(frame)
  /\ UNCHANGED <<fresh, client, written, values>>

\* FlushAllPages: FlushPage of every frame of pages_, in use or free.
FlushAllPages ==
  /\ "flush" \in client
  /\ busy = "no"
  /\ LET dirty == {f \in Elements(Pages_) : frame[f].is_dirty_}
         pages == {frame[f].page_id_ : f \in dirty}
         at(p) == {i \in DOMAIN Pages_ : Pages_[i] \in dirty /\ frame[Pages_[i]].page_id_ = p}
     IN  /\ \E last \in [pages -> DOMAIN Pages_] :
              /\ \A p \in pages : last[p] \in at(p) /\ \A i \in at(p) : i <= last[p]
              /\ disk' = [p \in DOMAIN disk \cup pages |->
                            IF p \in pages THEN frame[Pages_[last[p]]].data_ ELSE disk[p]]
         /\ frame' = [f \in Frames |->
                        IF f \in dirty THEN Holding(frame[f].page_id_, frame[f].data_, FALSE) ELSE frame[f]]
  /\ UNCHANGED <<vars, free_list_, fresh, client, written, values>>

PageNext ==
  \/ \E p \in Keys : FetchHit(p) \/ DeletePage(p)
  \/ \E p \in Keys, e \in Addresses, f \in Frames : FetchMiss(p, e, f)
  \/ EvictPage
  \/ FetchReturn
  \/ \E e \in Addresses : ReadRelease(e) \/ \E d \in Contents : WriteRelease(e, d)
  \/ FlushAllPages

PageSpec == PageInit /\ [][PageNext]_allVars

-----------------------------------------------------------------------------
(* Properties.                                                             *)

PageTypeOK ==
  /\ TypeOK
  /\ frame \in [Frames -> Held]
  /\ free_list_ \in Seq(Frames)
  /\ fresh \subseteq Frames
  /\ DOMAIN disk \subseteq Keys

\* Every frame is in one place: it is the page of one entry, once on the
\* free list, or still in the arena.
FramesAgree ==
  /\ NoRepeats(free_list_)
  /\ \A d, e \in Live : entry[d].value = entry[e].value => d = e
  /\ \A e \in Live : entry[e].value \notin Elements(free_list_) \cup fresh
  /\ Elements(free_list_) \cap fresh = {}
  /\ \A f \in Frames \ (Elements(free_list_) \cup fresh) : \E e \in Live : entry[e].value = f
  /\ \A e \in Live : frame[entry[e].value].page_id_ = entry[e].key

(* Frames are neither lost nor shared.  A page shows, in memory and on     *)
(* disk, only what was written to that page or the fill of a page never    *)
(* written, although frames pass from page to page with their flags.  All  *)
(* variables keep their types.                                             *)
FramesIntact ==
  /\ PageTypeOK
  /\ FramesAgree
  /\ \A e \in Live : frame[entry[e].value].data_ \in values[entry[e].key] \cup {Zero, Garbage}
  /\ \A p \in DOMAIN disk : disk[p] \in values[p] \cup {Zero}

(* What was written last is what a client that has fetched the page sees,  *)
(* also when the page has left memory in between.                          *)
ReadBack ==
  \A e \in Live : entry[e].key \in DOMAIN written /\ handles[e] > 0
    => frame[entry[e].value].data_ = written[entry[e].key]

(* ReadBack, for a client that releases every page it fetches as written,  *)
(* deletes no page it still uses, and does not flush.                      *)
CarefulReadBack == client = {} => ReadBack

-----------------------------------------------------------------------------
(* The inductive invariants.                                               *)

\* A cached frame that shows the arena's garbage is none of pages_, and its
\* flag is set only as long as somebody uses it: a release clears the flag
\* or writes the frame.
GarbageKept(e) ==
  /\ frame[entry[e].value].data_ = Garbage
  /\ entry[e].value \notin Elements(Pages_)
  /\ frame[entry[e].value].is_dirty_ => handles[e] > 0 \/ made = e

DataAgrees ==
  /\ \A e \in Live :
       \/ frame[entry[e].value].data_ \in values[entry[e].key] \cup {Zero}
       \/ GarbageKept(e)
  /\ \A f \in Elements(free_list_) : frame[f].data_ = Zero
  /\ \A f \in fresh : frame[f].data_ = Garbage /\ f \notin Elements(Pages_)
  /\ \A f \in Frames \ fresh : frame[f].is_dirty_ => frame[f].page_id_ \in Keys

PageInv ==
  /\ CacheInv
  /\ FramesIntact
  /\ values \in [Keys -> SUBSET Contents]
  /\ DataAgrees

\* Page p is on disk as it was written last.
Saved(p) == p \in DOMAIN disk /\ disk[p] = written[p]

\* With a careful client every entry is in the cache, a cached page is as it
\* was written last and will be saved unless it is, and the others are.
CarefulInv ==
  client = {} =>
    /\ Live = InCache
    /\ DOMAIN written \subseteq Keys
    /\ \A e \in Live : entry[e].key \in DOMAIN written =>
         /\ frame[entry[e].value].data_ = written[entry[e].key]
         /\ frame[entry[e].value].is_dirty_ \/ Saved(entry[e].key)
    /\ \A p \in DOMAIN written : table_[p] = NULL => Saved(p)

-----------------------------------------------------------------------------
(* The page cache keeps its invariant.                                     *)

\* The fields of a frame after a change.
LEMMA HoldingFrame ==
  ASSUME NEW p \in Keys \cup {NULL}, NEW d \in Contents \cup {Zero, Garbage}, NEW b \in BOOLEAN
  PROVE  /\ Holding(p, d, b) \in Held
         /\ Holding(p, d, b).page_id_ = p
         /\ Holding(p, d, b).data_ = d
         /\ Holding(p, d, b).is_dirty_ = b
  BY DEF Holding, Held

\* The parts of PageInv by name.
LEMMA PageFacts ==
  ASSUME PageInv
  PROVE  /\ CacheInv /\ TypeOK /\ FramesAgree /\ DataAgrees
         /\ frame \in [Frames -> Held]
         /\ free_list_ \in Seq(Frames)
         /\ fresh \subseteq Frames
         /\ DOMAIN disk \subseteq Keys
         /\ values \in [Keys -> SUBSET Contents]
         /\ \A p \in DOMAIN disk : disk[p] \in values[p] \cup {Zero}
         /\ \A e \in Live : e \in Addresses /\ entry[e].value \in Frames /\ entry[e].key \in Keys
<1>1. TypeOK /\ CacheInv
  BY DEF PageInv, FramesIntact, PageTypeOK
<1>2. \A e \in Live : e \in Addresses /\ entry[e].value \in Frames /\ entry[e].key \in Keys
  BY <1>1, LiveEntry, FramesAssumption
<1> QED BY <1>1, <1>2 DEF PageInv, FramesIntact, PageTypeOK

\* PageInv is what DataAgrees says, with types: the contents follow.
LEMMA PageFrom ==
  ASSUME CacheInv, FramesAgree, DataAgrees,
         frame \in [Frames -> Held], free_list_ \in Seq(Frames), fresh \subseteq Frames,
         DOMAIN disk \subseteq Keys, values \in [Keys -> SUBSET Contents],
         \A p \in DOMAIN disk : disk[p] \in values[p] \cup {Zero}
  PROVE  PageInv
<1>1. TypeOK /\ PageTypeOK
  BY DEF CacheInv, CacheConsistent, PageTypeOK
<1>2. \A e \in Live : frame[entry[e].value].data_ \in values[entry[e].key] \cup {Zero, Garbage}
  BY DEF DataAgrees, GarbageKept
<1> QED BY <1>1, <1>2 DEF PageInv, FramesIntact

\* The invariant holds at first.
LEMMA PageInitial ==
  ASSUME PageInit PROVE PageInv
<1>1. CacheInv
  BY CacheInitial DEF PageInit
<1>2. Live = {}
  BY DEF PageInit, Init, Live
<1>3. ASSUME NEW f \in Frames
      PROVE  /\ frame[f] \in Held
             /\ IF f \in Elements(Pages_) THEN frame[f].data_ = Zero /\ frame[f].is_dirty_ = FALSE
                                          ELSE frame[f].data_ = Garbage
  <2>1. /\ Holding(NULL, Zero, FALSE) \in Held /\ Holding(NULL, Garbage, TRUE) \in Held
        /\ Holding(NULL, Zero, FALSE).data_ = Zero /\ Holding(NULL, Garbage, TRUE).data_ = Garbage
        /\ Holding(NULL, Zero, FALSE).is_dirty_ = FALSE
    BY DEF Holding, Held
  <2> QED BY <2>1, Zenon DEF PageInit
<1>4. frame \in [Frames -> Held]
  BY <1>3, ZenonT(30) DEF PageInit
<1>5. Pages_ \in Seq(Frames) /\ NoRepeats(Pages_) /\ Elements(Pages_) \subseteq Frames
  BY FramesAssumption DEF Elements
<1>6. FramesAgree
  BY <1>2, <1>5 DEF PageInit, FramesAgree
<1>7. DataAgrees
  BY <1>2, <1>3, <1>5, Zenon DEF PageInit, DataAgrees
<1>8. free_list_ \in Seq(Frames) /\ fresh \subseteq Frames /\ DOMAIN disk = {}
      /\ values \in [Keys -> SUBSET Contents]
  BY <1>5 DEF PageInit
<1> QED BY <1>1, <1>4, <1>6, <1>7, <1>8, PageFrom

\* Steps that change neither the frames nor whose they are.
LEMMA PageQuiet ==
  ASSUME PageInv, CacheInv', UNCHANGED pageVars,
         \A e \in Addresses : entry'[e] = NULL <=> entry[e] = NULL,
         \A e \in Live : entry'[e].key = entry[e].key /\ entry'[e].value = entry[e].value,
         \A e \in Live : handles[e] > 0 \/ made = e => handles'[e] > 0 \/ made' = e
  PROVE  PageInv'
<1>1. Live' = Live
  BY DEF Live
<1>2. UNCHANGED <<frame, free_list_, fresh, disk, values>>
  BY DEF pageVars
<1>3. FramesAgree'
  BY <1>1, <1>2, PageFacts DEF FramesAgree
<1>4. DataAgrees'
  BY <1>1, <1>2, PageFacts, Zenon DEF DataAgrees, GarbageKept
<1>5. PageTypeOK'
  BY <1>2, PageFacts DEF PageTypeOK, CacheInv, CacheConsistent
<1>6. values' \in [Keys -> SUBSET Contents] /\ \A p \in DOMAIN disk' : disk'[p] \in values'[p] \cup {Zero}
  BY <1>2, PageFacts, Zenon
<1>7. \A e \in Live' : frame'[entry'[e].value].data_ \in values'[entry'[e].key] \cup {Zero, Garbage}
  BY <1>4, Zenon DEF DataAgrees, GarbageKept
<1> QED BY <1>3, <1>4, <1>5, <1>6, <1>7, Zenon DEF PageInv, FramesIntact

\* What Release, Erase and Evict do to the entry they are about: it is freed,
\* or it keeps its key and its value; the other entries stay.
Changes(e) ==
  /\ \/ entry'[e] = NULL
     \/ entry'[e].key = entry[e].key /\ entry'[e].value = entry[e].value
  /\ \A d \in Addresses \ {e} : entry'[d] = entry[d] /\ handles'[d] = handles[d]
  /\ made' = made

\* A release changes at most the entry it is about.
LEMMA ReleaseChanges ==
  ASSUME PageInv, NEW e \in Addresses, Release(e)
  PROVE  e \in Live /\ Changes(e)
<1>1. TypeOK /\ RefsAgree /\ CacheInv
  BY PageFacts DEF CacheInv, CacheConsistent
<1>2. e \in Live
  BY <1>1 DEF Release, RefsAgree, TypeOK
<1>3. CASE entry[e].refs = 1
  <2>1. entry'[e] = NULL
    BY <1>1, <1>3 DEF Release, TypeOK
  <2>2. \A d \in Addresses \ {e} : entry'[d] = entry[d] /\ handles'[d] = handles[d]
    BY <1>1 DEF Release, TypeOK
  <2>3. made' = made
    BY DEF Release
  <2> QED BY <1>2, <2>1, <2>2, <2>3, Zenon DEF Changes
<1>4. CASE entry[e].refs # 1
  <2>1. entry'[e] = Counted(entry[e], entry[e].refs - 1, entry[e].in_cache)
    BY <1>1, <1>4 DEF Release, TypeOK
  <2>2. entry'[e].key = entry[e].key /\ entry'[e].value = entry[e].value
    BY <2>1 DEF Counted
  <2> QED BY <1>1, <1>2, <2>2 DEF Release, TypeOK, Changes
<1> QED BY <1>3, <1>4

\* Taking an entry out changes at most that entry.
LEMMA ErasedChanges ==
  ASSUME PageInv, NEW e \in Live, entry' = Erased(entry, e), UNCHANGED <<handles, made>>
  PROVE  Changes(e)
<1>1. TypeOK /\ e \in Addresses
  BY PageFacts
<1>2. CASE entry[e].refs = 1
  <2>1. entry'[e] = NULL
    BY <1>1, <1>2 DEF Erased, TypeOK
  <2>2. \A d \in Addresses \ {e} : entry'[d] = entry[d] /\ handles'[d] = handles[d]
    BY <1>1 DEF Erased, TypeOK
  <2> QED BY <2>1, <2>2, Zenon DEF Changes
<1>3. CASE entry[e].refs # 1
  <2>1. entry'[e] = Counted(entry[e], entry[e].refs - 1, FALSE)
    BY <1>1, <1>3 DEF Erased, TypeOK
  <2>2. entry'[e].key = entry[e].key /\ entry'[e].value = entry[e].value
    BY <2>1 DEF Counted
  <2> QED BY <1>1, <2>2, ZenonT(30) DEF Erased, TypeOK, Changes
<1> QED BY <1>2, <1>3

\* What the frame of e shows before the callback looks at it.
Shows(e, fr) ==
  \/ fr[entry[e].value].data_ \in values'[entry[e].key] \cup {Zero}
  \/ /\ fr[entry[e].value].data_ = Garbage
     /\ entry[e].value \notin Elements(Pages_)
     /\ fr[entry[e].value].is_dirty_ => handles'[e] > 0 \/ made' = e

\* The frames fr the callback finds: only the one of e can have changed.
Finds(e, fr) ==
  /\ fr \in [Frames -> Held]
  /\ \A f \in Frames \ {entry[e].value} : fr[f] = frame[f]
  /\ fr[entry[e].value].page_id_ = entry[e].key

Wrote ==
  /\ values' \in [Keys -> SUBSET Contents]
  /\ \A p \in Keys : values[p] \subseteq values'[p]

\* The callback, when the entry is not freed.
LEMMA CallBackIdle ==
  ASSUME PageInv, CacheInv', NEW e \in Live, NEW fr, Changes(e), Finds(e, fr), Shows(e, fr),
         Wrote, DeletePageCallBack(fr), fresh' = fresh, entry'[e] # NULL
  PROVE  PageInv' /\ frame' = fr /\ free_list_' = free_list_ /\ disk' = disk /\ Live' = Live
<1>1. Live' = Live /\ \A d \in Live : entry'[d].key = entry[d].key /\ entry'[d].value = entry[d].value
  BY PageFacts DEF Live, Changes
<1>2. frame' = fr /\ free_list_' = free_list_ /\ disk' = disk
  <2>1. {d \in Live : entry'[d] = NULL} = {}
    BY <1>1 DEF Live
  <2> QED BY <2>1 DEF DeletePageCallBack
<1>3. ASSUME NEW d \in Live, d # e
      PROVE  /\ entry[d].value # entry[e].value
             /\ frame'[entry[d].value] = frame[entry[d].value]
             /\ handles'[d] = handles[d] /\ made' = made
  BY <1>2, <1>3, PageFacts DEF FramesAgree, Finds, Changes
<1>4. FramesAgree'
  BY <1>1, <1>2, <1>3, PageFacts DEF FramesAgree, Finds
<1>5. ASSUME NEW d \in Live
      PROVE  \/ frame'[entry'[d].value].data_ \in values'[entry'[d].key] \cup {Zero}
             \/ /\ frame'[entry'[d].value].data_ = Garbage
                /\ entry'[d].value \notin Elements(Pages_)
                /\ frame'[entry'[d].value].is_dirty_ => handles'[d] > 0 \/ made' = d
  <2>1. CASE d = e
    BY <2>1, <1>1, <1>2 DEF Shows
  <2>2. CASE d # e
    <3>1. values[entry[d].key] \subseteq values'[entry[d].key]
      BY PageFacts DEF Wrote
    <3>2. \/ frame[entry[d].value].data_ \in values[entry[d].key] \cup {Zero}
          \/ GarbageKept(d)
      BY PageFacts, ZenonT(30) DEF DataAgrees
    <3>3. /\ frame'[entry'[d].value] = frame[entry[d].value]
          /\ entry'[d].value = entry[d].value /\ entry'[d].key = entry[d].key
          /\ handles'[d] = handles[d] /\ made' = made
      BY <2>2, <1>1, <1>3, Zenon
    <3> QED BY <3>1, <3>2, <3>3 DEF GarbageKept
  <2> QED BY <2>1, <2>2, Zenon
<1>6. DataAgrees'
  <2>1. \A f \in Elements(free_list_') : frame'[f].data_ = Zero
    <3>1. \A f \in Elements(free_list_) : f \in Frames /\ f # entry[e].value
      BY PageFacts DEF FramesAgree, Elements
    <3> QED BY <3>1, <1>2, PageFacts, ZenonT(30) DEF DataAgrees, Finds
  <2>2. \A f \in fresh' : frame'[f].data_ = Garbage /\ f \notin Elements(Pages_)
    <3>1. \A f \in fresh : f \in Frames /\ f # entry[e].value
      BY PageFacts DEF FramesAgree
    <3> QED BY <3>1, <1>2, PageFacts DEF DataAgrees, Finds
  <2>3. \A f \in Frames \ fresh' : frame'[f].is_dirty_ => frame'[f].page_id_ \in Keys
    BY <1>2, PageFacts, ZenonT(30) DEF DataAgrees, Finds
  <2> QED BY <2>1, <2>2, <2>3, <1>1, <1>5 DEF DataAgrees, GarbageKept
<1>7. \A p \in DOMAIN disk' : disk'[p] \in values'[p] \cup {Zero}
  BY <1>2, PageFacts, ZenonT(30) DEF Wrote
<1>8. /\ frame' \in [Frames -> Held] /\ free_list_' \in Seq(Frames) /\ fresh' \subseteq Frames
      /\ DOMAIN disk' \subseteq Keys /\ values' \in [Keys -> SUBSET Contents]
  BY <1>2, PageFacts DEF Finds, Wrote
<1>9. PageTypeOK'
  BY <1>8 DEF PageTypeOK, CacheInv, CacheConsistent
<1>10. \A d \in Live' : frame'[entry'[d].value].data_ \in values'[entry'[d].key] \cup {Zero, Garbage}
  BY <1>1, <1>5
<1>11. FramesIntact'
  BY <1>4, <1>7, <1>9, <1>10 DEF FramesIntact
<1> QED BY <1>1, <1>2, <1>6, <1>8, <1>11 DEF PageInv

\* The callback, when the entry is freed: its frame is saved if the flag says
\* so, cleared and put on the free list.
LEMMA CallBackFrees ==
  ASSUME PageInv, CacheInv', NEW e \in Live, NEW fr, Changes(e), Finds(e, fr), Shows(e, fr),
         Wrote, DeletePageCallBack(fr), fresh' = fresh, entry'[e] = NULL
  PROVE  /\ PageInv'
         /\ Live' = Live \ {e}
         /\ \A f \in Frames \ {entry[e].value} : frame'[f] = frame[f]
         /\ disk' = IF fr[entry[e].value].is_dirty_
                    THEN Put(disk, entry[e].key, fr[entry[e].value].data_) ELSE disk
<1> DEFINE f == entry[e].value
           p == entry[e].key
           b == fr[f].is_dirty_
           h == Holding(fr[f].page_id_, Zero, fr[f].is_dirty_)
<1>1. Live' = Live \ {e} /\ \A d \in Live' : entry'[d] = entry[d] /\ d \in Live /\ d # e
  BY PageFacts DEF Live, Changes
<1>2. /\ frame' = [fr EXCEPT ![f] = h]
      /\ free_list_' = Append(free_list_, f)
      /\ disk' = IF b THEN Put(disk, p, fr[f].data_) ELSE disk
  <2>1. {d \in Live : entry'[d] = NULL} = {e}
    <3>1. \A d \in Live \ {e} : entry'[d] # NULL
      BY PageFacts DEF Live, Changes
    <3> QED BY <3>1
  <2>2. (CHOOSE d \in {e} : TRUE) = e
    OBVIOUS
  <2>3. fr[f].page_id_ = p
    BY DEF Finds
  <2> QED BY <2>1, <2>2, <2>3, Zenon DEF DeletePageCallBack
<1>3. f \in Frames /\ p \in Keys /\ e \in Addresses
  BY PageFacts
<1>4. /\ h \in Held /\ h.page_id_ = p /\ h.data_ = Zero
  <2>1. fr[f] \in Held /\ fr[f].page_id_ = p
    BY <1>3 DEF Finds
  <2>2. fr[f].is_dirty_ \in BOOLEAN
    BY <2>1 DEF Held
  <2> QED BY <1>3, <2>1, <2>2, HoldingFrame
<1>5. b => fr[f].data_ \in values'[p] \cup {Zero}
  <2>1. handles'[e] = 0 /\ made' # e
    BY <1>1, <1>3, ZenonT(30) DEF CacheInv, CacheConsistent, RefsAgree
  <2> QED BY <2>1 DEF Shows
<1> HIDE DEF h
<1>6. frame' \in [Frames -> Held] /\ frame'[f] = h
      /\ \A g \in Frames \ {f} : frame'[g] = frame[g]
  BY <1>2, <1>3, <1>4 DEF Finds
<1> HIDE DEF f, p, b
<1>7. f \notin Elements(free_list_) /\ f \notin fresh
      /\ \A d \in Live \ {e} : entry[d].value # f
  BY PageFacts DEF FramesAgree, f
<1>8. /\ free_list_' \in Seq(Frames) /\ NoRepeats(free_list_')
      /\ Elements(free_list_') = Elements(free_list_) \cup {f}
  <2>1. NoRepeats(free_list_) /\ free_list_ \in Seq(Frames)
    BY PageFacts DEF FramesAgree
  <2>2. /\ Append(free_list_, f) \in Seq(Frames) /\ NoRepeats(Append(free_list_, f))
        /\ Elements(Append(free_list_, f)) = Elements(free_list_) \cup {f}
    BY <2>1, <1>3, <1>7, Appended
  <2> QED BY <2>2, <1>2
<1>9. FramesAgree'
  <2>1. /\ \A c, d \in Live' : entry'[c].value = entry'[d].value => c = d
        /\ \A d \in Live' : entry'[d].value \notin Elements(free_list_') \cup fresh'
    BY <1>1, <1>7, <1>8, PageFacts DEF FramesAgree
  <2>2. Elements(free_list_') \cap fresh' = {}
    <3>1. Elements(free_list_) \cap fresh = {}
      BY PageFacts, Zenon DEF FramesAgree
    <3> QED BY <3>1, <1>7, <1>8
  <2>3. ASSUME NEW g \in Frames \ (Elements(free_list_') \cup fresh')
        PROVE  \E d \in Live' : entry'[d].value = g
    <3>1. g # f /\ g \in Frames \ (Elements(free_list_) \cup fresh)
      BY <2>3, <1>8
    <3>2. PICK d \in Live : entry[d].value = g
      BY <3>1, PageFacts DEF FramesAgree
    <3>3. d # e
      BY <3>1, <3>2 DEF f
    <3> QED BY <3>2, <3>3, <1>1
  <2>4. \A d \in Live' : frame'[entry'[d].value].page_id_ = entry'[d].key
    BY <1>1, <1>6, <1>7, PageFacts DEF FramesAgree
  <2> QED BY <2>1, <2>2, <2>3, <2>4, <1>8 DEF FramesAgree
<1>10. ASSUME NEW d \in Live'
       PROVE  \/ frame'[entry'[d].value].data_ \in values'[entry'[d].key] \cup {Zero}
              \/ /\ frame'[entry'[d].value].data_ = Garbage
                 /\ entry'[d].value \notin Elements(Pages_)
                 /\ frame'[entry'[d].value].is_dirty_ => handles'[d] > 0 \/ made' = d
  <2>1. /\ d \in Live /\ d # e /\ entry'[d] = entry[d]
        /\ frame'[entry[d].value] = frame[entry[d].value]
        /\ handles'[d] = handles[d] /\ made' = made
    BY <1>1, <1>6, <1>7, PageFacts, ZenonT(30) DEF Changes
  <2>2. values[entry[d].key] \subseteq values'[entry[d].key]
    BY <2>1, PageFacts, ZenonT(30) DEF Wrote
  <2>3. \/ frame[entry[d].value].data_ \in values[entry[d].key] \cup {Zero}
        \/ GarbageKept(d)
    BY <2>1, PageFacts, ZenonT(30) DEF DataAgrees
  <2> QED BY <2>1, <2>2, <2>3, Zenon DEF GarbageKept
<1>11. DataAgrees'
  <2>1. \A g \in Elements(free_list_') : frame'[g].data_ = Zero
    <3>1. \A g \in Elements(free_list_) : g \in Frames
      BY PageFacts DEF Elements
    <3> QED BY <3>1, <1>4, <1>6, <1>7, <1>8, PageFacts, ZenonT(30) DEF DataAgrees
  <2>2. \A g \in fresh' : frame'[g].data_ = Garbage /\ g \notin Elements(Pages_)
    BY <1>6, <1>7, PageFacts DEF DataAgrees
  <2>3. \A g \in Frames \ fresh' : frame'[g].is_dirty_ => frame'[g].page_id_ \in Keys
    BY <1>3, <1>4, <1>6, PageFacts, ZenonT(30) DEF DataAgrees
  <2> QED BY <2>1, <2>2, <2>3, <1>10, ZenonT(30) DEF DataAgrees, GarbageKept
<1>12. DOMAIN disk' \subseteq Keys /\ \A q \in DOMAIN disk' : disk'[q] \in values'[q] \cup {Zero}
  <2>1. \A q \in DOMAIN disk : q \in Keys /\ disk[q] \in values'[q] \cup {Zero}
    BY PageFacts, ZenonT(30) DEF Wrote
  <2>2. CASE b
    <3> DEFINE n == Put(disk, p, fr[f].data_)
    <3>1. DOMAIN n = DOMAIN disk \cup {p} /\ n[p] = fr[f].data_
          /\ \A q \in DOMAIN disk \ {p} : n[q] = disk[q]
      BY DEF Put
    <3>2. disk' = n
      BY <2>2, <1>2
    <3> HIDE DEF n
    <3> QED BY <2>1, <2>2, <3>1, <3>2, <1>3, <1>5, ZenonT(30)
  <2>3. CASE ~ b
    BY <2>1, <2>3, <1>2
  <2> QED BY <2>2, <2>3
<1>13. /\ fresh' \subseteq Frames /\ values' \in [Keys -> SUBSET Contents]
  BY PageFacts DEF Wrote
<1>14. PageTypeOK'
  BY <1>6, <1>8, <1>12, <1>13, ZenonT(30) DEF PageTypeOK, CacheInv, CacheConsistent
<1>15. \A d \in Live' : frame'[entry'[d].value].data_ \in values'[entry'[d].key] \cup {Zero, Garbage}
  BY <1>10, ZenonT(30)
<1>16. FramesIntact'
  BY <1>9, <1>12, <1>14, <1>15, Zenon DEF FramesIntact
<1>17. PageInv'
  BY <1>11, <1>13, <1>16 DEF PageInv
<1> QED BY <1>1, <1>2, <1>6, <1>17 DEF f, p, b

\* A step of the cache whose callback finds the frames as Finds and Shows say.
LEMMA CallBackKeeps ==
  ASSUME PageInv, CacheInv', NEW e \in Live, NEW fr, Changes(e), Finds(e, fr), Shows(e, fr),
         Wrote, DeletePageCallBack(fr), fresh' = fresh
  PROVE  PageInv'
  BY CallBackIdle, CallBackFrees, Zenon

\* A step that leaves the frames as they are before the callback.
LEMMA SameFrames ==
  ASSUME PageInv, NEW e \in Live, UNCHANGED <<handles, made, values>>
  PROVE  Finds(e, frame) /\ Shows(e, frame) /\ Wrote
<1>1. Finds(e, frame)
  BY PageFacts DEF Finds, FramesAgree
<1>2. Shows(e, frame)
  BY PageFacts DEF Shows, DataAgrees, GarbageKept
<1>3. Wrote
  BY PageFacts DEF Wrote
<1> QED BY <1>1, <1>2, <1>3

\* An eviction, with the callback, keeps the invariant.
LEMMA EvictPageKeeps ==
  ASSUME PageInv, EvictPage
  PROVE  PageInv'
<1> DEFINE e == Head(lru_)
<1>1. CacheInv /\ CacheInv'
  BY PageFacts, EvictKeeps DEF EvictPage
<1>2. e \in Live
  BY <1>1, Oldest DEF EvictPage, Evict, MustEvict, InCache
<1>3. Changes(e)
  BY <1>2, ErasedChanges DEF EvictPage, Evict
<1>4. Finds(e, frame) /\ Shows(e, frame) /\ Wrote
  BY <1>2, SameFrames DEF EvictPage, Evict
<1> QED BY <1>1, <1>2, <1>3, <1>4, CallBackKeeps DEF EvictPage

\* DeletePage keeps the invariant.
LEMMA DeletePageKeeps ==
  ASSUME PageInv, NEW p \in Keys, DeletePage(p)
  PROVE  PageInv'
<1> DEFINE e == table_[p]
<1>1. CacheInv /\ CacheInv'
  BY PageFacts, EraseKeeps DEF DeletePage
<1>2. e \in Live
  BY <1>1, Found DEF DeletePage, Erase, InCache
<1>3. Changes(e)
  BY <1>2, ErasedChanges DEF DeletePage, Erase
<1>4. Finds(e, frame) /\ Shows(e, frame) /\ Wrote
  BY <1>2, SameFrames DEF DeletePage, Erase
<1> QED BY <1>1, <1>2, <1>3, <1>4, CallBackKeeps DEF DeletePage

\* A release: the frame of e is h when the cache lets go of it.
LEMMA Released ==
  ASSUME PageInv, NEW e \in Live, NEW h \in Held, h.page_id_ = entry[e].key
  PROVE  /\ Finds(e, [frame EXCEPT ![entry[e].value] = h])
         /\ [frame EXCEPT ![entry[e].value] = h][entry[e].value] = h
  BY PageFacts DEF Finds

\* What WriteRelease leaves for the callback to see.
LEMMA WriteReleased ==
  ASSUME PageInv, NEW e \in Addresses, NEW d \in Contents, WriteRelease(e, d)
  PROVE  LET h  == Holding(entry[e].key, d, TRUE)
             fr == [frame EXCEPT ![entry[e].value] = h]
         IN  /\ e \in Live /\ CacheInv' /\ Changes(e) /\ Wrote /\ fresh' = fresh
             /\ Finds(e, fr) /\ Shows(e, fr) /\ DeletePageCallBack(fr)
             /\ fr[entry[e].value] = h /\ h.data_ = d /\ h.is_dirty_ = TRUE
<1> DEFINE f == entry[e].value
           p == entry[e].key
           h == Holding(p, d, TRUE)
           fr == [frame EXCEPT ![f] = h]
<1>1. CacheInv /\ CacheInv' /\ e \in Live /\ Changes(e)
  BY PageFacts, ReleaseKeeps, ReleaseChanges, ZenonT(30) DEF WriteRelease
<1>2. f \in Frames /\ p \in Keys /\ frame[f].page_id_ = p
  BY <1>1, PageFacts DEF FramesAgree
<1>3. h \in Held /\ h.page_id_ = p /\ h.data_ = d /\ h.is_dirty_ = TRUE
  <2>1. p \in Keys \cup {NULL} /\ d \in Contents \cup {Zero, Garbage} /\ TRUE \in BOOLEAN
    BY <1>2
  <2> QED BY <2>1, HoldingFrame, Zenon
<1>4. DeletePageCallBack(fr) /\ values' = [values EXCEPT ![p] = @ \cup {d}] /\ fresh' = fresh
  BY <1>2, Zenon DEF WriteRelease
<1> HIDE DEF h
<1>5. Finds(e, fr) /\ fr[f] = h
  BY <1>1, <1>3, Released
<1>6. values' \in [Keys -> SUBSET Contents] /\ d \in values'[p]
      /\ \A q \in Keys : values[q] \subseteq values'[q]
  BY <1>2, <1>4, PageFacts, ZenonT(30)
<1>7. Shows(e, fr) /\ Wrote
  BY <1>3, <1>5, <1>6 DEF Shows, Wrote
<1> QED BY <1>1, <1>3, <1>4, <1>5, <1>7, ZenonT(30) DEF h

\* A write and its release keep the invariant.
LEMMA WriteReleaseKeeps ==
  ASSUME PageInv, NEW e \in Addresses, NEW d \in Contents, WriteRelease(e, d)
  PROVE  PageInv'
<1> DEFINE fr == [frame EXCEPT ![entry[e].value] = Holding(entry[e].key, d, TRUE)]
<1>1. /\ e \in Live /\ CacheInv' /\ Changes(e) /\ Wrote /\ fresh' = fresh
      /\ Finds(e, fr) /\ Shows(e, fr) /\ DeletePageCallBack(fr)
  BY WriteReleased, ZenonT(30)
<1> HIDE DEF fr
<1> QED BY <1>1, CallBackKeeps

\* A release without a write keeps the invariant, the flag it clears included.
LEMMA ReadReleaseKeeps ==
  ASSUME PageInv, NEW e \in Addresses, ReadRelease(e)
  PROVE  PageInv'
<1> DEFINE f == entry[e].value
           h == Holding(frame[f].page_id_, frame[f].data_, FALSE)
           fr == [frame EXCEPT ![f] = h]
<1>1. CacheInv /\ CacheInv' /\ e \in Live /\ Changes(e)
  BY PageFacts, ReleaseKeeps, ReleaseChanges DEF ReadRelease
<1>2. f \in Frames /\ entry[e].key \in Keys /\ frame[f] \in Held /\ frame[f].page_id_ = entry[e].key
  BY <1>1, PageFacts DEF FramesAgree
<1>3. h \in Held /\ h.page_id_ = entry[e].key /\ h.data_ = frame[f].data_ /\ h.is_dirty_ = FALSE
  <2>1. frame[f].page_id_ \in Keys \cup {NULL} /\ frame[f].data_ \in Contents \cup {Zero, Garbage}
    BY <1>2 DEF Held
  <2> QED BY <2>1, <1>2, HoldingFrame, ZenonT(30)
<1>4. DeletePageCallBack(fr) /\ values' = values /\ fresh' = fresh
  BY DEF ReadRelease
<1> HIDE DEF h
<1>5. Finds(e, fr) /\ fr[f] = h
  BY <1>1, <1>3, Released
<1>6. \/ frame[f].data_ \in values[entry[e].key] \cup {Zero}
      \/ frame[f].data_ = Garbage /\ f \notin Elements(Pages_)
  BY <1>1, PageFacts DEF DataAgrees, GarbageKept
<1>7. Shows(e, fr) /\ Wrote
  BY <1>3, <1>4, <1>5, <1>6, PageFacts, ZenonT(30) DEF Shows, Wrote
<1> HIDE DEF fr
<1> QED BY <1>1, <1>4, <1>5, <1>7, CallBackKeeps, Zenon

\* A fetch of a cached page keeps the invariant.
LEMMA FetchHitKeeps ==
  ASSUME PageInv, NEW p \in Keys, FetchHit(p)
  PROVE  PageInv'
<1> DEFINE e == table_[p]
           x == Counted(entry[e], entry[e].refs + 1, entry[e].in_cache)
<1>1. CacheInv /\ CacheInv' /\ TypeOK /\ e \in Live /\ e \in Addresses
  BY PageFacts, LookupKeeps, Found, Zenon DEF FetchHit, Lookup, InCache
<1>2. entry' = [entry EXCEPT ![e] = x] /\ handles' = [handles EXCEPT ![e] = @ + 1] /\ made' = made
  BY DEF FetchHit, Lookup
<1>3. x.key = entry[e].key /\ x.value = entry[e].value
  BY DEF Counted
<1>4. x # NULL
  <2>1. entry[e] \in Entries /\ entry[e].refs \in Nat /\ entry[e].in_cache \in BOOLEAN
    BY <1>1, LiveEntry
  <2>2. entry[e].refs + 1 \in Nat
    BY <2>1
  <2> QED BY <2>1, <2>2, CountedEntry
<1> HIDE DEF x, e
<1>5. entry'[e] = x /\ \A d \in Addresses \ {e} : entry'[d] = entry[d]
  BY <1>1, <1>2 DEF TypeOK
<1>6. \A d \in Addresses : entry'[d] = NULL <=> entry[d] = NULL
  BY <1>1, <1>4, <1>5 DEF Live
<1>7. \A d \in Live : entry'[d].key = entry[d].key /\ entry'[d].value = entry[d].value
  BY <1>3, <1>5 DEF Live
<1>8. \A d \in Addresses : handles[d] > 0 => handles'[d] > 0
  BY <1>1, <1>2 DEF TypeOK
<1>9. UNCHANGED pageVars
  BY DEF FetchHit
<1>10. \A d \in Live : handles[d] > 0 \/ made = d => handles'[d] > 0 \/ made' = d
  BY <1>2, <1>8 DEF Live
<1> QED BY <1>1, <1>6, <1>7, <1>9, <1>10, PageQuiet

\* The return from a fetch that missed keeps the invariant.
LEMMA FetchReturnKeeps ==
  ASSUME PageInv, FetchReturn
  PROVE  PageInv'
<1>1. CacheInv /\ CacheInv' /\ TypeOK
  BY PageFacts, ReturnKeeps DEF FetchReturn
<1>2. entry' = entry /\ UNCHANGED pageVars
  BY DEF FetchReturn, Return
<1>3. ASSUME NEW d \in Live, handles[d] > 0 \/ made = d PROVE handles'[d] > 0
  <2>1. d \in Addresses /\ handles \in [Addresses -> Nat]
    BY <1>1 DEF Live, TypeOK
  <2>2. CASE made = NULL
    BY <2>1, <2>2, <1>3, CacheAssumption DEF FetchReturn, Return
  <2>3. CASE made # NULL
    BY <2>1, <2>3, <1>1, <1>3 DEF FetchReturn, Return, TypeOK
  <2> QED BY <2>2, <2>3
<1> QED BY <1>1, <1>2, <1>3, PageQuiet

\* The frame FetchPage takes leaves the free list or the arena.
LEMMA Taken ==
  ASSUME PageInv, NEW f \in Frames, FrameTaken(f)
  PROVE  /\ free_list_' \in Seq(Frames) /\ NoRepeats(free_list_')
         /\ Elements(free_list_') = Elements(free_list_) \ {f}
         /\ fresh' = fresh \ {f}
         /\ f \in Elements(free_list_) \cup fresh
<1>1. NoRepeats(free_list_) /\ free_list_ \in Seq(Frames) /\ Elements(free_list_) \cap fresh = {}
  BY PageFacts DEF FramesAgree
<1>2. CASE free_list_ # <<>> /\ f = Head(free_list_) /\ free_list_' = Tail(free_list_) /\ fresh' = fresh
  <2>1. /\ Head(free_list_) \in Elements(free_list_)
        /\ Tail(free_list_) \in Seq(Frames) /\ NoRepeats(Tail(free_list_))
        /\ Elements(Tail(free_list_)) = Elements(free_list_) \ {Head(free_list_)}
    BY <1>1, <1>2, First
  <2> QED BY <1>1, <1>2, <2>1
<1>3. CASE f \in fresh /\ fresh' = fresh \ {f} /\ free_list_' = free_list_
  BY <1>1, <1>3
<1> QED BY <1>2, <1>3 DEF FrameTaken

\* What FetchPage loads into the frame.
LEMMA Loaded ==
  ASSUME PageInv, NEW p \in Keys, NEW f \in Elements(free_list_) \cup fresh
  PROVE  LET v == DiskRead(p, frame[f].data_)
         IN  /\ v \in Contents \cup {Zero, Garbage}
             /\ v \in values[p] \cup {Zero} \/ (v = Garbage /\ f \in fresh)
             /\ p \in DOMAIN disk => v = disk[p]
<1>1. frame[f].data_ = Zero \/ (frame[f].data_ = Garbage /\ f \in fresh)
  BY PageFacts DEF DataAgrees
<1>2. CASE p \in DOMAIN disk
  <2>1. DiskRead(p, frame[f].data_) = disk[p]
    BY <1>2 DEF DiskRead
  <2> QED BY <1>2, <2>1, PageFacts
<1>3. CASE p \notin DOMAIN disk
  <2>1. DiskRead(p, frame[f].data_) = frame[f].data_ \/ DiskRead(p, frame[f].data_) = Zero
    BY <1>3 DEF DiskRead
  <2> QED BY <1>1, <1>3, <2>1
<1> QED BY <1>2, <1>3

\* A fetch that takes a frame keeps the invariant; whose frames change, and how.
LEMMA FetchMissKeeps ==
  ASSUME PageInv, NEW p \in Keys, NEW e \in Addresses, NEW f \in Frames, FetchMiss(p, e, f)
  PROVE  /\ PageInv'
         /\ Live' = Live \cup {e} /\ e \notin Live
         /\ entry'[e].key = p /\ entry'[e].value = f
         /\ \A d \in Live : entry'[d] = entry[d] /\ frame'[entry[d].value] = frame[entry[d].value]
         /\ p \in DOMAIN disk => frame'[f].data_ = disk[p]
         /\ InCache' = InCache \cup {e}
<1> DEFINE v == DiskRead(p, frame[f].data_)
           h == Holding(p, v, frame[f].is_dirty_)
           x == [key |-> p, value |-> f, refs |-> 2, in_cache |-> TRUE]
<1>1. /\ CacheInv /\ CacheInv' /\ TypeOK
  BY PageFacts, InsertNewKeeps, FramesAssumption, ZenonT(30) DEF FetchMiss
<1>2. /\ entry' = [entry EXCEPT ![e] = x] /\ entry[e] = NULL /\ made' = e /\ handles' = handles
      /\ frame' = [frame EXCEPT ![f] = h]
      /\ UNCHANGED <<disk, values>>
  BY Zenon DEF FetchMiss, Insert
<1>3. /\ free_list_' \in Seq(Frames) /\ NoRepeats(free_list_')
      /\ Elements(free_list_') = Elements(free_list_) \ {f}
      /\ fresh' = fresh \ {f}
      /\ f \in Elements(free_list_) \cup fresh
  BY Taken DEF FetchMiss
<1>4. /\ v \in Contents \cup {Zero, Garbage}
      /\ v \in values[p] \cup {Zero} \/ (v = Garbage /\ f \in fresh)
      /\ p \in DOMAIN disk => v = disk[p]
  BY <1>3, Loaded, ZenonT(30)
<1> HIDE DEF v
<1>5. h \in Held /\ h.page_id_ = p /\ h.data_ = v
  <2>1. frame[f].is_dirty_ \in BOOLEAN
    BY PageFacts DEF Held
  <2> QED BY <2>1, <1>4, HoldingFrame
<1>6. x.key = p /\ x.value = f /\ x.in_cache /\ x \in Entries /\ x # NULL
  <2>1. x \in Entries
    BY FramesAssumption DEF Entries
  <2> QED BY <2>1, CacheAssumption, Zenon
<1> HIDE DEF h, x
<1>7. /\ entry'[e] = x /\ Live' = Live \cup {e} /\ InCache' = InCache \cup {e}
      /\ \A d \in Addresses \ {e} : entry'[d] = entry[d]
  BY <1>1, <1>2, <1>6, OneEntry, ZenonT(30)
<1>8. e \notin Live /\ \A d \in Live : entry'[d] = entry[d] /\ d # e
  BY <1>2, <1>7 DEF Live
<1>9. /\ frame' \in [Frames -> Held] /\ frame'[f] = h
      /\ \A g \in Frames \ {f} : frame'[g] = frame[g]
  BY <1>2, <1>5, PageFacts, Zenon
<1>10. \A d \in Live : entry[d].value \in Frames /\ entry[d].value # f
                       /\ frame'[entry[d].value] = frame[entry[d].value]
  BY <1>3, <1>9, PageFacts DEF FramesAgree
<1>11. FramesAgree'
  <2>1. \A c, d \in Live' : entry'[c].value = entry'[d].value => c = d
    BY <1>6, <1>7, <1>8, <1>10, PageFacts DEF FramesAgree
  <2>2. \A d \in Live' : entry'[d].value \notin Elements(free_list_') \cup fresh'
    BY <1>3, <1>6, <1>7, <1>8, PageFacts, Zenon DEF FramesAgree
  <2>3. Elements(free_list_') \cap fresh' = {}
    BY <1>3, PageFacts, Zenon DEF FramesAgree
  <2>4. ASSUME NEW g \in Frames \ (Elements(free_list_') \cup fresh')
        PROVE  \E d \in Live' : entry'[d].value = g
    <3>1. CASE g = f
      BY <3>1, <1>6, <1>7
    <3>2. CASE g # f
      <4>1. PICK d \in Live : entry[d].value = g
        BY <2>4, <3>2, <1>3, PageFacts, ZenonT(30) DEF FramesAgree
      <4> QED BY <4>1, <1>7, <1>8
    <3> QED BY <3>1, <3>2
  <2>5. \A d \in Live' : frame'[entry'[d].value].page_id_ = entry'[d].key
    <3>1. frame'[entry'[e].value].page_id_ = entry'[e].key
      BY <1>5, <1>6, <1>7, <1>9
    <3>2. ASSUME NEW d \in Live PROVE frame'[entry'[d].value].page_id_ = entry'[d].key
      BY <1>5, <1>8, <1>10, PageFacts, Zenon DEF FramesAgree
    <3> QED BY <3>1, <3>2, <1>7, Zenon
  <2> QED BY <2>1, <2>2, <2>3, <2>4, <2>5, <1>3 DEF FramesAgree
<1>12. ASSUME NEW d \in Live'
       PROVE  \/ frame'[entry'[d].value].data_ \in values'[entry'[d].key] \cup {Zero}
              \/ /\ frame'[entry'[d].value].data_ = Garbage
                 /\ entry'[d].value \notin Elements(Pages_)
                 /\ frame'[entry'[d].value].is_dirty_ => handles'[d] > 0 \/ made' = d
  <2>1. CASE d = e
    <3>1. f \in fresh => f \notin Elements(Pages_)
      BY PageFacts, ZenonT(30) DEF DataAgrees
    <3> QED BY <2>1, <3>1, <1>2, <1>4, <1>5, <1>6, <1>7, <1>9, ZenonT(30)
  <2>2. CASE d # e
    <3>1. d \in Live /\ made # d
      <4>1. made = NULL
        BY <1>1 DEF CacheInv, FetchMiss
      <4> QED BY <2>2, <4>1, <1>7, CacheAssumption DEF Live
    <3>2. \/ frame[entry[d].value].data_ \in values[entry[d].key] \cup {Zero}
          \/ GarbageKept(d)
      BY <3>1, PageFacts, ZenonT(30) DEF DataAgrees
    <3> QED BY <3>1, <3>2, <1>2, <1>8, <1>10, ZenonT(30) DEF GarbageKept
  <2> QED BY <2>1, <2>2, Zenon
<1>13. DataAgrees'
  <2>1. \A g \in Elements(free_list_') : frame'[g].data_ = Zero
    <3>1. \A g \in Elements(free_list_) : g \in Frames
      BY PageFacts DEF Elements
    <3> QED BY <3>1, <1>3, <1>9, PageFacts, ZenonT(30) DEF DataAgrees
  <2>2. \A g \in fresh' : frame'[g].data_ = Garbage /\ g \notin Elements(Pages_)
    BY <1>3, <1>9, PageFacts, Zenon DEF DataAgrees
  <2>3. \A g \in Frames \ fresh' : frame'[g].is_dirty_ => frame'[g].page_id_ \in Keys
    BY <1>3, <1>5, <1>9, PageFacts, ZenonT(30) DEF DataAgrees
  <2> QED BY <2>1, <2>2, <2>3, <1>12, ZenonT(30) DEF DataAgrees, GarbageKept
<1>14. /\ fresh' \subseteq Frames /\ DOMAIN disk' \subseteq Keys
       /\ values' \in [Keys -> SUBSET Contents]
       /\ \A q \in DOMAIN disk' : disk'[q] \in values'[q] \cup {Zero}
  BY <1>2, <1>3, PageFacts, ZenonT(30)
<1>15. PageTypeOK'
  BY <1>1, <1>3, <1>9, <1>14 DEF PageTypeOK, CacheInv, CacheConsistent
<1>16. \A d \in Live' : frame'[entry'[d].value].data_ \in values'[entry'[d].key] \cup {Zero, Garbage}
  BY <1>12, ZenonT(30)
<1>17. PageInv'
  BY <1>1, <1>11, <1>13, <1>14, <1>15, <1>16, ZenonT(30) DEF PageInv, FramesIntact
<1> QED BY <1>4, <1>5, <1>6, <1>7, <1>8, <1>9, <1>10, <1>17, ZenonT(30)

\* FlushAllPages keeps the invariant: a dirty frame names a page.
LEMMA FlushKeeps ==
  ASSUME PageInv, FlushAllPages
  PROVE  PageInv'
<1> DEFINE dirty == {f \in Elements(Pages_) : frame[f].is_dirty_}
           pages == {frame[f].page_id_ : f \in dirty}
           at(p) == {i \in DOMAIN Pages_ : Pages_[i] \in dirty /\ frame[Pages_[i]].page_id_ = p}
<1>1. PICK last \in [pages -> DOMAIN Pages_] :
        /\ \A p \in pages : last[p] \in at(p)
        /\ disk' = [p \in DOMAIN disk \cup pages |->
                      IF p \in pages THEN frame[Pages_[last[p]]].data_ ELSE disk[p]]
  BY ZenonT(30) DEF FlushAllPages
<1>2. /\ frame' = [f \in Frames |-> IF f \in dirty
                     THEN Holding(frame[f].page_id_, frame[f].data_, FALSE) ELSE frame[f]]
      /\ UNCHANGED <<vars, free_list_, fresh, client, written, values>>
  BY ZenonT(30) DEF FlushAllPages
<1>3. UNCHANGED <<entry, handles, made>> /\ Live' = Live
  BY <1>2 DEF vars, Live
<1>4. CacheInv'
  <2>1. UNCHANGED <<entry, table_, lru_, in_use_, usage_, made, handles>>
    BY <1>2 DEF vars
  <2>2. busy' = busy
    BY <1>2, ZenonT(30) DEF vars
  <2> QED BY <2>1, <2>2, PageFacts, CacheQuiet
<1>5. Elements(Pages_) \subseteq Frames /\ \A f \in Elements(Pages_) : f \notin fresh
  <2>1. Elements(Pages_) \subseteq Frames
    BY FramesAssumption DEF Elements
  <2> QED BY <2>1, PageFacts DEF DataAgrees
<1>6. ASSUME NEW f \in Frames
      PROVE  /\ frame'[f] \in Held /\ frame'[f].page_id_ = frame[f].page_id_
             /\ frame'[f].data_ = frame[f].data_
             /\ frame'[f].is_dirty_ => frame[f].is_dirty_
  <2>1. frame[f] \in Held
    BY PageFacts
  <2>2. frame[f].page_id_ \in Keys \cup {NULL} /\ frame[f].data_ \in Contents \cup {Zero, Garbage}
    BY <2>1 DEF Held
  <2>3. CASE f \in dirty
    <3> DEFINE h == Holding(frame[f].page_id_, frame[f].data_, FALSE)
    <3>1. h \in Held /\ h.page_id_ = frame[f].page_id_ /\ h.data_ = frame[f].data_
      BY <2>2, HoldingFrame, Zenon
    <3>2. frame'[f] = h /\ frame[f].is_dirty_
      BY <2>3, <1>2, Zenon
    <3> HIDE DEF h
    <3> QED BY <3>1, <3>2
  <2>4. CASE f \notin dirty
    BY <2>1, <2>4, <1>2, ZenonT(30)
  <2> QED BY <2>3, <2>4, ZenonT(30)
<1>7. frame' \in [Frames -> Held]
  BY <1>2, <1>6, Zenon
<1>8. FramesAgree'
  BY <1>2, <1>3, <1>6, PageFacts, ZenonT(30) DEF FramesAgree
<1>9. DataAgrees'
  <2>1. \A f \in Elements(free_list_) : f \in Frames
    BY PageFacts DEF Elements
  <2>2. \A f \in Elements(free_list_') : frame'[f].data_ = Zero
    BY <2>1, <1>2, <1>6, PageFacts, Zenon DEF DataAgrees
  <2>3. \A f \in fresh' : frame'[f].data_ = Garbage /\ f \notin Elements(Pages_)
    BY <1>2, <1>6, PageFacts, ZenonT(30) DEF DataAgrees
  <2>4. \A f \in Frames \ fresh' : frame'[f].is_dirty_ => frame'[f].page_id_ \in Keys
    BY <1>2, <1>6, PageFacts, Zenon DEF DataAgrees
  <2>5. \A e \in Live' : \/ frame'[entry'[e].value].data_ \in values'[entry'[e].key] \cup {Zero}
                         \/ /\ frame'[entry'[e].value].data_ = Garbage
                            /\ entry'[e].value \notin Elements(Pages_)
                            /\ frame'[entry'[e].value].is_dirty_ => handles'[e] > 0 \/ made' = e
    BY <1>2, <1>3, <1>6, PageFacts, ZenonT(30) DEF DataAgrees, GarbageKept
  <2> QED BY <2>2, <2>3, <2>4, <2>5, ZenonT(30) DEF DataAgrees, GarbageKept
<1>10. ASSUME NEW f \in dirty
       PROVE  frame[f].page_id_ \in Keys /\ frame[f].data_ \in values[frame[f].page_id_] \cup {Zero}
  <2>1. f \in Frames /\ f \in Elements(Pages_) /\ f \notin fresh /\ frame[f].is_dirty_
    BY <1>5
  <2>2. frame[f].page_id_ \in Keys
    BY <2>1, PageFacts DEF DataAgrees
  <2>3. CASE f \in Elements(free_list_)
    BY <2>2, <2>3, PageFacts DEF DataAgrees
  <2>4. CASE f \notin Elements(free_list_)
    <3>1. PICK e \in Live : entry[e].value = f /\ frame[f].page_id_ = entry[e].key
      BY <2>1, <2>4, PageFacts DEF FramesAgree
    <3> QED BY <2>1, <2>2, <3>1, PageFacts, ZenonT(30) DEF DataAgrees, GarbageKept
  <2> QED BY <2>2, <2>3, <2>4, Zenon
<1>11. DOMAIN disk' \subseteq Keys /\ \A p \in DOMAIN disk' : disk'[p] \in values'[p] \cup {Zero}
  <2>1. DOMAIN disk' = DOMAIN disk \cup pages /\ pages \subseteq Keys
    BY <1>1, <1>10, ZenonT(30)
  <2>2. ASSUME NEW p \in pages PROVE disk'[p] \in values[p] \cup {Zero}
    <3>1. last[p] \in at(p) /\ disk'[p] = frame[Pages_[last[p]]].data_
      BY <1>1, <2>1, ZenonT(30)
    <3> QED BY <3>1, <1>10, ZenonT(30)
  <2>3. ASSUME NEW p \in DOMAIN disk, p \notin pages PROVE disk'[p] \in values[p] \cup {Zero}
    BY <2>3, <1>1, PageFacts, ZenonT(30)
  <2> QED BY <2>1, <2>2, <2>3, <1>2, PageFacts, Zenon
<1>12. free_list_' \in Seq(Frames) /\ fresh' \subseteq Frames /\ values' \in [Keys -> SUBSET Contents]
  BY <1>2, PageFacts, ZenonT(30)
<1>13. PageTypeOK'
  BY <1>4, <1>7, <1>11, <1>12 DEF PageTypeOK, CacheInv, CacheConsistent
<1>14. \A e \in Live' : frame'[entry'[e].value].data_ \in values'[entry'[e].key] \cup {Zero, Garbage}
  BY <1>9 DEF DataAgrees, GarbageKept
<1> QED BY <1>4, <1>8, <1>9, <1>11, <1>12, <1>13, <1>14, ZenonT(30) DEF PageInv, FramesIntact

\* Every step keeps the invariant.
LEMMA PageStep ==
  ASSUME PageInv, [PageNext]_allVars
  PROVE  PageInv'
<1>1. CASE \E p \in Keys : FetchHit(p) \/ DeletePage(p)
  BY <1>1, FetchHitKeeps, DeletePageKeeps
<1>2. CASE \E p \in Keys, e \in Addresses, f \in Frames : FetchMiss(p, e, f)
  BY <1>2, FetchMissKeeps
<1>3. CASE EvictPage \/ FetchReturn \/ FlushAllPages
  BY <1>3, EvictPageKeeps, FetchReturnKeeps, FlushKeeps
<1>4. CASE \E e \in Addresses : ReadRelease(e) \/ \E d \in Contents : WriteRelease(e, d)
  BY <1>4, ReadReleaseKeeps, WriteReleaseKeeps
<1>5. CASE UNCHANGED allVars
  <2>1. UNCHANGED <<entry, table_, lru_, in_use_, usage_, made, handles>>
    BY <1>5 DEF allVars, vars
  <2>2. busy' = busy /\ UNCHANGED pageVars
    BY <1>5 DEF allVars, vars
  <2>3. CacheInv'
    BY <2>1, <2>2, PageFacts, CacheQuiet
  <2> QED BY <2>1, <2>2, <2>3, PageQuiet
<1> QED BY <1>1, <1>2, <1>3, <1>4, <1>5 DEF PageNext

(* Whatever pages a client fetches, writes, releases, deletes and flushes, *)
(* however many frames and entries there are: no frame is lost or is the   *)
(* page of two entries, and a page shows and leaves on disk only what was  *)
(* written to it or the fill of a page never written.                      *)
THEOREM FramesStayIntact == PageSpec => []FramesIntact
<1>1. PageInit => PageInv
  BY PageInitial
<1>2. PageInv /\ [PageNext]_allVars => PageInv'
  BY PageStep
<1>3. PageInv => FramesIntact
  BY DEF PageInv
<1> QED BY <1>1, <1>2, <1>3, PTL DEF PageSpec

(* The LRU cache under the page cache is consistent in every state, for    *)
(* any number of pages, entries, frames and handles and any capacity.      *)
THEOREM CacheUnderPagesConsistent == PageSpec => []CacheConsistent
<1>1. PageInit => PageInv
  BY PageInitial
<1>2. PageInv /\ [PageNext]_allVars => PageInv'
  BY PageStep
<1>3. PageInv => CacheConsistent
  BY PageFacts DEF CacheInv
<1> QED BY <1>1, <1>2, <1>3, PTL DEF PageSpec

-----------------------------------------------------------------------------
(* A careful client reads back what it wrote.                              *)

\* What CarefulInv and PageInv say of a careful client's pages.
LEMMA CarefulFacts ==
  ASSUME PageInv, CarefulInv, client = {}
  PROVE  /\ Live = InCache
         /\ DOMAIN written \subseteq Keys
         /\ \A e \in Live : entry[e].key \in DOMAIN written =>
              /\ frame[entry[e].value].data_ = written[entry[e].key]
              /\ frame[entry[e].value].is_dirty_ \/ Saved(entry[e].key)
         /\ \A p \in DOMAIN written : table_[p] = NULL => Saved(p)
         /\ \A e \in Live : /\ e \in Addresses /\ entry[e].key \in Keys
                            /\ table_[entry[e].key] = e /\ e # NULL
         /\ \A d, e \in Live : entry[d].key = entry[e].key => d = e
<1>1. /\ Live = InCache /\ DOMAIN written \subseteq Keys
      /\ \A e \in Live : entry[e].key \in DOMAIN written =>
           /\ frame[entry[e].value].data_ = written[entry[e].key]
           /\ frame[entry[e].value].is_dirty_ \/ Saved(entry[e].key)
      /\ \A p \in DOMAIN written : table_[p] = NULL => Saved(p)
  BY ZenonT(30) DEF CarefulInv
<1>2. \A e \in Live : /\ e \in Addresses /\ entry[e].key \in Keys
                      /\ table_[entry[e].key] = e /\ e # NULL
  BY <1>1, PageFacts, CacheAssumption DEF CacheInv, CacheConsistent, TableAgrees
<1> QED BY <1>1, <1>2

\* Steps that change neither the pages nor what is cached.
LEMMA CarefulQuiet ==
  ASSUME PageInv, CarefulInv, CacheInv', UNCHANGED pageVars, table_' = table_,
         \A e \in Addresses : entry'[e] = NULL <=> entry[e] = NULL,
         \A e \in Live : entry'[e].key = entry[e].key /\ entry'[e].value = entry[e].value
  PROVE  CarefulInv'
<1> SUFFICES ASSUME client = {} PROVE CarefulInv'
  BY Zenon DEF CarefulInv, pageVars
<1>1. UNCHANGED <<frame, disk, written>> /\ Live' = Live
  BY DEF pageVars, Live
<1>2. Live' = InCache'
  <2>1. ASSUME NEW e \in Live' PROVE e \in InCache'
    <3>1. e \in Live /\ e \in Addresses /\ entry[e].key \in Keys /\ table_'[entry[e].key] = e
      BY <2>1, <1>1, CarefulFacts
    <3> QED BY <3>1, ZenonT(30) DEF CacheInv, CacheConsistent, TableAgrees
  <2> QED BY <2>1 DEF InCache
<1> QED BY <1>1, <1>2, CarefulFacts, ZenonT(30) DEF CarefulInv, Saved

\* Nothing is written at first.
LEMMA CarefulInitial ==
  ASSUME PageInit PROVE CarefulInv
<1>1. Live = {} /\ InCache = {}
  BY DEF PageInit, Init, Live, InCache
<1> QED BY <1>1, Zenon DEF PageInit, CarefulInv

\* The page of an entry that is freed is on disk as it was written last.
LEMMA CarefulFrees ==
  ASSUME PageInv, CarefulInv, client = {}, NEW e \in Live, Changes(e),
         table_' = [table_ EXCEPT ![entry[e].key] = NULL], written' = written,
         Live' = Live \ {e},
         \A f \in Frames \ {entry[e].value} : frame'[f] = frame[f],
         disk' = IF frame[entry[e].value].is_dirty_
                 THEN Put(disk, entry[e].key, frame[entry[e].value].data_) ELSE disk
  PROVE  CarefulInv'
<1> DEFINE k == entry[e].key
           a == frame[entry[e].value].data_
           Now(p) == p \in DOMAIN disk' /\ disk'[p] = written[p]
<1>1. ASSUME NEW d \in Live'
      PROVE  /\ d \in Live /\ d # e /\ entry'[d] = entry[d] /\ entry[d].key # k
             /\ frame'[entry'[d].value] = frame[entry[d].value]
  <2>1. d \in Live /\ d # e /\ d \in Addresses /\ entry'[d] = entry[d]
    BY <1>1, CarefulFacts, ZenonT(30) DEF Changes
  <2>2. entry[d].value # entry[e].value /\ entry[d].value \in Frames
    BY <2>1, PageFacts, ZenonT(30) DEF FramesAgree
  <2> QED BY <2>1, <2>2, CarefulFacts, ZenonT(30)
<1>2. Live' = InCache'
  <2>1. ASSUME NEW d \in Live' PROVE d \in InCache'
    BY <2>1, <1>1, CarefulFacts, ZenonT(30) DEF InCache
  <2> QED BY <2>1, ZenonT(30) DEF InCache
<1>3. ASSUME NEW q, q # k, Saved(q) PROVE Now(q)
  <2>1. CASE frame[entry[e].value].is_dirty_
    <3>1. disk' = Put(disk, k, a)
      BY <2>1
    <3>2. q \in DOMAIN Put(disk, k, a) /\ Put(disk, k, a)[q] = disk[q]
      BY <1>3 DEF Saved, Put
    <3> QED BY <3>1, <3>2, <1>3, ZenonT(30) DEF Saved
  <2>2. CASE ~ frame[entry[e].value].is_dirty_
    BY <2>2, <1>3 DEF Saved
  <2> QED BY <2>1, <2>2, ZenonT(30)
<1>4. k \in DOMAIN written => Now(k)
  <2> SUFFICES ASSUME k \in DOMAIN written PROVE Now(k)
    OBVIOUS
  <2>1. a = written[k]
    BY CarefulFacts
  <2>2. CASE frame[entry[e].value].is_dirty_
    <3>1. disk' = Put(disk, k, a)
      BY <2>2
    <3>2. k \in DOMAIN Put(disk, k, a) /\ Put(disk, k, a)[k] = a
      BY DEF Put
    <3> HIDE DEF a, k
    <3> QED BY <2>1, <3>1, <3>2 DEF Saved
  <2>3. CASE ~ frame[entry[e].value].is_dirty_
    BY <2>3, CarefulFacts, ZenonT(30) DEF Saved
  <2> QED BY <2>2, <2>3, ZenonT(30)
<1>5. ASSUME NEW p \in DOMAIN written, table_'[p] = NULL PROVE Now(p)
  <2>1. table_ \in [Keys -> Addresses \cup {NULL}] /\ p \in Keys
    BY <1>5, CarefulFacts, PageFacts, ZenonT(30) DEF TypeOK
  <2>2. CASE p = k
    BY <2>2, <1>4, <1>5
  <2>3. CASE p # k
    BY <2>1, <2>3, <1>3, <1>5, CarefulFacts, ZenonT(30)
  <2> QED BY <2>2, <2>3, ZenonT(30)
<1>6. ASSUME NEW d \in Live', entry'[d].key \in DOMAIN written
      PROVE  /\ frame'[entry'[d].value].data_ = written[entry'[d].key]
             /\ frame'[entry'[d].value].is_dirty_ \/ Now(entry'[d].key)
  <2>1. /\ d \in Live /\ entry'[d] = entry[d] /\ entry[d].key # k
        /\ frame'[entry'[d].value] = frame[entry[d].value]
    BY <1>1, ZenonT(30)
  <2>2. /\ frame[entry[d].value].data_ = written[entry[d].key]
        /\ frame[entry[d].value].is_dirty_ \/ Saved(entry[d].key)
    BY <2>1, <1>6, CarefulFacts, ZenonT(30)
  <2>3. Saved(entry[d].key) => Now(entry'[d].key)
    BY <2>1, <1>3, ZenonT(30)
  <2> QED BY <2>1, <2>2, <2>3, ZenonT(30)
<1> QED BY <1>2, <1>5, <1>6, CarefulFacts, ZenonT(30) DEF CarefulInv, Saved

\* A page that is evicted is written when its frame is dirty.
LEMMA CarefulEvict ==
  ASSUME PageInv, CarefulInv, EvictPage
  PROVE  CarefulInv'
<1> SUFFICES ASSUME client = {} PROVE CarefulInv'
  BY DEF CarefulInv, EvictPage
<1> DEFINE e == Head(lru_)
<1>1. CacheInv /\ CacheInv' /\ TypeOK
  BY PageFacts, EvictKeeps DEF EvictPage
<1>2. e \in Live /\ e \in Addresses /\ entry[e].refs = 1
  BY <1>1, Oldest DEF EvictPage, Evict, MustEvict, InCache, Live
<1>3. Changes(e) /\ entry'[e] = NULL
  <2>1. Changes(e)
    BY <1>2, ErasedChanges DEF EvictPage, Evict
  <2> QED BY <2>1, <1>1, <1>2 DEF EvictPage, Evict, Erased, TypeOK
<1>4. Finds(e, frame) /\ Shows(e, frame) /\ Wrote
  BY <1>2, SameFrames DEF EvictPage, Evict
<1>5. /\ DeletePageCallBack(frame) /\ fresh' = fresh /\ written' = written
      /\ table_' = [table_ EXCEPT ![entry[e].key] = NULL]
  BY DEF EvictPage, Evict
<1> HIDE DEF e
<1>6. /\ Live' = Live \ {e}
      /\ \A f \in Frames \ {entry[e].value} : frame'[f] = frame[f]
      /\ disk' = IF frame[entry[e].value].is_dirty_
                 THEN Put(disk, entry[e].key, frame[entry[e].value].data_) ELSE disk
  BY <1>1, <1>2, <1>3, <1>4, <1>5, CallBackFrees, ZenonT(30)
<1> QED BY <1>2, <1>3, <1>5, <1>6, CarefulFrees, ZenonT(30)

\* So is a page that is deleted and that nobody uses.
LEMMA CarefulDelete ==
  ASSUME PageInv, CarefulInv, NEW p \in Keys, DeletePage(p)
  PROVE  CarefulInv'
<1> SUFFICES ASSUME client = {} PROVE CarefulInv'
  BY ZenonT(30) DEF CarefulInv, DeletePage
<1> DEFINE e == table_[p]
<1>1. CacheInv /\ CacheInv' /\ TypeOK /\ RefsAgree /\ made = NULL
  BY PageFacts, EraseKeeps, ZenonT(30) DEF DeletePage, Erase, CacheInv, CacheConsistent
<1>2. e \in Live /\ e \in InCache /\ e \in Addresses /\ entry[e].key = p
  BY <1>1, Found DEF DeletePage, Erase, InCache, Live
<1>3. entry[e].refs = 1
  <2>1. handles[e] = 0
    BY <1>1, <1>2 DEF DeletePage, TypeOK
  <2> QED BY <2>1, <1>1, <1>2, CacheAssumption DEF RefsAgree, InCache
<1>4. Changes(e) /\ entry'[e] = NULL
  <2>1. Changes(e)
    BY <1>2, ErasedChanges, ZenonT(30) DEF DeletePage, Erase
  <2> QED BY <2>1, <1>1, <1>2, <1>3 DEF DeletePage, Erase, Erased, TypeOK
<1>5. Finds(e, frame) /\ Shows(e, frame) /\ Wrote
  BY <1>2, SameFrames, ZenonT(30) DEF DeletePage, Erase
<1>6. /\ DeletePageCallBack(frame) /\ fresh' = fresh /\ written' = written
      /\ table_' = [table_ EXCEPT ![entry[e].key] = NULL]
  BY <1>2, ZenonT(30) DEF DeletePage, Erase
<1> HIDE DEF e
<1>7. /\ Live' = Live \ {e}
      /\ \A f \in Frames \ {entry[e].value} : frame'[f] = frame[f]
      /\ disk' = IF frame[entry[e].value].is_dirty_
                 THEN Put(disk, entry[e].key, frame[entry[e].value].data_) ELSE disk
  BY <1>1, <1>2, <1>4, <1>5, <1>6, CallBackFrees, ZenonT(30)
<1> QED BY <1>2, <1>4, <1>6, <1>7, CarefulFrees, ZenonT(30)

\* A write makes the frame dirty.
LEMMA CarefulWrite ==
  ASSUME PageInv, CarefulInv, NEW e \in Addresses, NEW d \in Contents, WriteRelease(e, d)
  PROVE  CarefulInv'
<1> SUFFICES ASSUME client = {} PROVE CarefulInv'
  BY ZenonT(30) DEF CarefulInv, WriteRelease
<1> DEFINE f == entry[e].value
           p == entry[e].key
           h == Holding(p, d, TRUE)
           fr == [frame EXCEPT ![f] = h]
<1>1. /\ e \in Live /\ CacheInv' /\ Changes(e) /\ Wrote /\ fresh' = fresh
      /\ Finds(e, fr) /\ Shows(e, fr) /\ DeletePageCallBack(fr)
      /\ fr[f] = h /\ h.data_ = d /\ h.is_dirty_ = TRUE
  BY WriteReleased, ZenonT(30)
<1>2. table_' = table_ /\ written' = Put(written, p, d) /\ handles[e] > 0
  BY DEF WriteRelease, Release
<1> HIDE DEF h, fr
<1>3. CacheInv /\ TypeOK /\ RefsAgree /\ made = NULL /\ e \in InCache
  BY <1>1, PageFacts, CarefulFacts, Zenon DEF CacheInv, CacheConsistent, WriteRelease, Release
<1>4. entry'[e] # NULL
  <2>1. entry[e] \in Entries /\ entry[e].refs \in Nat /\ entry[e].in_cache \in BOOLEAN
    BY <1>1, <1>3, LiveEntry, Zenon
  <2>2. entry[e].refs # 1 /\ entry[e].refs - 1 \in Nat
    <3>1. handles[e] \in Nat /\ made # e /\ entry[e].in_cache
      BY <1>3, CacheAssumption DEF InCache, TypeOK
    <3>2. entry[e].refs = handles[e] + 1
      BY <1>1, <1>3, <3>1 DEF RefsAgree
    <3> QED BY <3>1, <3>2, <1>2
  <2>3. entry'[e] = Counted(entry[e], entry[e].refs - 1, entry[e].in_cache)
    BY <2>2, <1>3 DEF WriteRelease, Release, TypeOK
  <2> QED BY <2>1, <2>2, <2>3, CountedEntry
<1>5. frame' = fr /\ disk' = disk /\ Live' = Live
  BY <1>1, <1>4, CallBackIdle, Zenon
<1>6. \A c \in Live : entry'[c].key = entry[c].key /\ entry'[c].value = entry[c].value
  <2>1. entry'[e].key = entry[e].key /\ entry'[e].value = entry[e].value
    BY <1>1, <1>4, ZenonT(30) DEF Changes
  <2>2. ASSUME NEW c \in Live, c # e PROVE entry'[c] = entry[c]
    BY <1>1, <2>2, CarefulFacts, Zenon DEF Changes
  <2> QED BY <2>1, <2>2
<1>7. Live' = InCache'
  <2>1. ASSUME NEW c \in Live' PROVE c \in InCache'
    <3>1. c \in Live /\ c \in Addresses /\ entry[c].key \in Keys /\ table_'[entry[c].key] = c
      BY <2>1, <1>2, <1>5, CarefulFacts, ZenonT(30)
    <3> QED BY <3>1, <1>1, ZenonT(30) DEF CacheInv, CacheConsistent, TableAgrees
  <2> QED BY <2>1 DEF InCache
<1>8. /\ DOMAIN written' = DOMAIN written \cup {p} /\ written'[p] = d
      /\ \A q \in DOMAIN written \ {p} : written'[q] = written[q]
  BY <1>2 DEF Put
<1> DEFINE Now(q) == q \in DOMAIN disk' /\ disk'[q] = written'[q]
<1>9. ASSUME NEW c \in Live', entry'[c].key \in DOMAIN written'
      PROVE  /\ frame'[entry'[c].value].data_ = written'[entry'[c].key]
             /\ frame'[entry'[c].value].is_dirty_ \/ Now(entry'[c].key)
  <2>1. CASE c = e
    <3>1. frame'[entry'[c].value] = h /\ entry'[c].key = p
      BY <2>1, <1>1, <1>5, <1>6, Zenon
    <3>2. h.data_ = d /\ h.is_dirty_ = TRUE
      BY <1>1
    <3> QED BY <3>1, <3>2, <1>8, Zenon
  <2>2. CASE c # e
    <3>1. /\ c \in Live /\ entry[c].key # p /\ entry[c].value # f
          /\ entry'[c].key = entry[c].key /\ entry'[c].value = entry[c].value
      BY <2>2, <1>1, <1>5, <1>6, CarefulFacts, PageFacts, Zenon DEF FramesAgree
    <3>2. frame'[entry[c].value] = frame[entry[c].value]
      BY <3>1, <1>1, <1>5, PageFacts, ZenonT(30) DEF Finds
    <3>3. entry[c].key \in DOMAIN written /\ written'[entry[c].key] = written[entry[c].key]
      BY <3>1, <1>8, <1>9, ZenonT(30)
    <3>4. /\ frame[entry[c].value].data_ = written[entry[c].key]
          /\ frame[entry[c].value].is_dirty_ \/ Saved(entry[c].key)
      BY <3>1, <3>3, CarefulFacts, Zenon
    <3>5. Saved(entry[c].key) => Now(entry[c].key)
      BY <3>3, <1>5, Zenon DEF Saved
    <3> HIDE DEF Now
    <3> QED BY <3>1, <3>2, <3>3, <3>4, <3>5, Zenon
  <2> HIDE DEF Now
  <2> QED BY <2>1, <2>2, Zenon
<1>10. ASSUME NEW q \in DOMAIN written', table_'[q] = NULL PROVE Now(q)
  <2>1. q # p
    BY <1>1, <1>2, <1>10, CarefulFacts, ZenonT(30)
  <2>2. q \in DOMAIN written /\ written'[q] = written[q] /\ table_[q] = NULL
    BY <2>1, <1>2, <1>8, <1>10, Zenon
  <2>3. Saved(q)
    BY <2>2, CarefulFacts, Zenon
  <2> QED BY <2>2, <2>3, <1>5, Zenon DEF Saved
<1>11. DOMAIN written' \subseteq Keys
  BY <1>1, <1>8, CarefulFacts, ZenonT(30)
<1> QED BY <1>7, <1>9, <1>10, <1>11, ZenonT(30) DEF CarefulInv, Saved

\* A page that was written comes back from the disk.
LEMMA CarefulMiss ==
  ASSUME PageInv, CarefulInv, NEW p \in Keys, NEW e \in Addresses, NEW f \in Frames,
         FetchMiss(p, e, f)
  PROVE  CarefulInv'
<1> SUFFICES ASSUME client = {} PROVE CarefulInv'
  BY ZenonT(30) DEF CarefulInv, FetchMiss
<1>1. /\ Live' = Live \cup {e} /\ e \notin Live
      /\ entry'[e].key = p /\ entry'[e].value = f
      /\ \A d \in Live : entry'[d] = entry[d] /\ frame'[entry[d].value] = frame[entry[d].value]
      /\ p \in DOMAIN disk => frame'[f].data_ = disk[p]
      /\ InCache' = InCache \cup {e}
  BY FetchMissKeeps
<1>2. /\ table_[p] = NULL /\ table_' = [table_ EXCEPT ![p] = e]
      /\ UNCHANGED <<disk, written>>
  BY ZenonT(30) DEF FetchMiss, Insert
<1>3. ASSUME NEW q \in DOMAIN written, table_'[q] = NULL PROVE Saved(q)
  <2>1. table_ \in [Keys -> Addresses \cup {NULL}] /\ q \in Keys
    BY <1>3, CarefulFacts, PageFacts, Zenon DEF TypeOK
  <2>2. q # p /\ table_[q] = NULL
    BY <2>1, <1>2, <1>3, CacheAssumption
  <2> QED BY <2>2, CarefulFacts, ZenonT(30)
<1>4. p \in DOMAIN written => Saved(p) /\ frame'[f].data_ = written[p]
  BY <1>1, <1>2, CarefulFacts, ZenonT(30) DEF Saved
<1>5. \A d \in Live' : entry'[d].key \in DOMAIN written =>
        /\ frame'[entry'[d].value].data_ = written[entry'[d].key]
        /\ frame'[entry'[d].value].is_dirty_ \/ Saved(entry'[d].key)
  BY <1>1, <1>4, CarefulFacts
<1>6. Live' = InCache'
  BY <1>1, CarefulFacts, Zenon
<1> QED BY <1>2, <1>3, <1>5, <1>6, CarefulFacts, ZenonT(30) DEF CarefulInv, Saved

\* A fetch of a cached page changes no frame.
LEMMA CarefulHit ==
  ASSUME PageInv, CarefulInv, NEW p \in Keys, FetchHit(p)
  PROVE  CarefulInv'
<1> DEFINE e == table_[p]
           x == Counted(entry[e], entry[e].refs + 1, entry[e].in_cache)
<1>1. CacheInv /\ CacheInv' /\ TypeOK /\ e \in Live /\ e \in Addresses
  BY PageFacts, LookupKeeps, Found, Zenon DEF FetchHit, Lookup, InCache, Live
<1>2. entry' = [entry EXCEPT ![e] = x] /\ table_' = table_ /\ UNCHANGED pageVars
  BY DEF FetchHit, Lookup
<1>3. x.key = entry[e].key /\ x.value = entry[e].value
  BY DEF Counted
<1>4. x # NULL
  <2>1. entry[e] \in Entries /\ entry[e].refs \in Nat /\ entry[e].in_cache \in BOOLEAN
    BY <1>1, LiveEntry
  <2>2. entry[e].refs + 1 \in Nat
    BY <2>1
  <2> QED BY <2>1, <2>2, CountedEntry
<1> HIDE DEF x, e
<1>5. entry'[e] = x /\ \A d \in Addresses \ {e} : entry'[d] = entry[d]
  BY <1>1, <1>2 DEF TypeOK
<1>6. \A d \in Addresses : entry'[d] = NULL <=> entry[d] = NULL
  BY <1>1, <1>4, <1>5 DEF Live
<1>7. \A d \in Live : entry'[d].key = entry[d].key /\ entry'[d].value = entry[d].value
  BY <1>3, <1>5 DEF Live
<1> QED BY <1>1, <1>2, <1>6, <1>7, CarefulQuiet

\* Every step keeps what a careful client relies on.
LEMMA CarefulStep ==
  ASSUME PageInv, CarefulInv, [PageNext]_allVars
  PROVE  CarefulInv'
<1>1. CASE \E p \in Keys : FetchHit(p) \/ DeletePage(p)
  BY <1>1, CarefulHit, CarefulDelete
<1>2. CASE \E p \in Keys, e \in Addresses, f \in Frames : FetchMiss(p, e, f)
  BY <1>2, CarefulMiss
<1>3. CASE EvictPage
  BY <1>3, CarefulEvict
<1>4. CASE FetchReturn
  <2>1. entry' = entry /\ table_' = table_ /\ UNCHANGED pageVars
    BY <1>4 DEF FetchReturn, Return
  <2>2. CacheInv'
    BY <1>4, PageFacts, ReturnKeeps DEF FetchReturn
  <2> QED BY <2>1, <2>2, CarefulQuiet
<1>5. CASE \E e \in Addresses : \E d \in Contents : WriteRelease(e, d)
  BY <1>5, CarefulWrite
<1>6. CASE FlushAllPages \/ \E e \in Addresses : ReadRelease(e)
  <2>1. client # {} /\ client' = client
    BY <1>6, Zenon DEF FlushAllPages, ReadRelease
  <2> QED BY <2>1 DEF CarefulInv
<1>7. CASE UNCHANGED allVars
  <2>1. entry' = entry /\ table_' = table_ /\ UNCHANGED pageVars
    BY <1>7 DEF allVars, vars
  <2>2. CacheInv'
    BY <1>7, PageStep DEF PageInv
  <2> QED BY <2>1, <2>2, CarefulQuiet
<1> QED BY <1>1, <1>2, <1>3, <1>4, <1>5, <1>6, <1>7 DEF PageNext

(* A client that releases every page it fetches as written, deletes no     *)
(* page it still uses and does not flush sees what was written last,       *)
(* however often the page left memory, whatever the flag of the frame it   *)
(* came back in was, and with any number of pages, frames and entries.     *)
THEOREM CarefulClientReadsBack == PageSpec => []CarefulReadBack
<1>1. PageInit => PageInv /\ CarefulInv
  BY PageInitial, CarefulInitial
<1>2. PageInv /\ CarefulInv /\ [PageNext]_allVars => PageInv' /\ CarefulInv'
  BY PageStep, CarefulStep
<1>3. PageInv /\ CarefulInv => CarefulReadBack
  BY CarefulFacts DEF CarefulReadBack, ReadBack
<1> QED BY <1>1, <1>2, <1>3, PTL DEF PageSpec
=============================================================================

-------------------------------- MODULE Slab --------------------------------
(***************************************************************************)
(* ngx_slab of c-util/slab.c: runs of pages on a free list, and chunks of  *)
(* equal size cut from single pages, one circular list of pages with a     *)
(* free chunk per size.                                                    *)
(*                                                                         *)
(* A pointer to a ngx_slab_page_t is the number of a page, FREE (the       *)
(* header of the free list), a class (the header of its slot) or NULL.     *)
(* The word page->slab holds a run length or a bitmap depending on the     *)
(* type bits in prev; it is the two fields slab and map here.  A class is  *)
(* a chunk size, with its type, how many chunks a page has, and how many   *)
(* of them hold the bitmap (SMALL only).                                   *)
(***************************************************************************)
EXTENDS Integers, Sequences, FiniteSetsExt

CONSTANTS
  NPages, NULL, FREE,
  Classes, TypeOf, ChunksOf, MapChunksOf,
  RunLengths    \* the whole-page requests, in pages

VARIABLES
  pool,   \* [next, prev, type, slab, map] by page; next and prev by header too
  live    \* ghost: the blocks handed out and not freed

vars == <<pool, live>>

Pages == 0 .. NPages - 1
Headers == {FREE} \cup Classes
Chunk(c) == MapChunksOf[c] .. ChunksOf[c] - 1   \* what callers can get
START == 100   \* NGX_SLAB_PAGE_START
BUSY == 99     \* NGX_SLAB_PAGE_BUSY

\* ngx_slab_init: one run of all pages, empty slots.
Init ==
  /\ pool = [next |-> [x \in Pages \cup Headers |->
                         CASE x = FREE -> 0 [] x = 0 -> FREE
                           [] x \in Classes -> x [] OTHER -> NULL],
             prev |-> [x \in Pages \cup Headers |-> IF x = 0 THEN FREE ELSE NULL],
             type |-> [x \in Pages |-> "PAGE"],
             slab |-> [x \in Pages |-> IF x = 0 THEN NPages ELSE 0],
             map |-> [x \in Pages |-> {}]]
  /\ live = {}

-----------------------------------------------------------------------------
(* Pages *)

Unlink(s, x) ==
  [s EXCEPT !.next[s.prev[x]] = s.next[x], !.prev[s.next[x]] = s.prev[x]]

\* The pages of a list, in order.
Listed(s, header) ==
  LET at[i \in 1 .. NPages + 1] ==
        IF i = 1 THEN s.next[header]
        ELSE IF at[i - 1] = header THEN header ELSE s.next[at[i - 1]]
      n == Cardinality({i \in 1 .. NPages + 1 : at[i] \in Pages})
  IN  [i \in 1 .. n |-> at[i]]

Fits(s, n) == {i \in DOMAIN Listed(s, FREE) : s.slab[Listed(s, FREE)[i]] >= n}

\* ngx_slab_alloc_pages, when there is a run: the first that is long enough,
\* what remains of it in its place.
TakeRun(s, page, n) ==
  LET rest == page + n
      len == s.slab[page]
      cut == IF len > n
             THEN LET last == [s EXCEPT !.prev[page + len - 1] = rest]
                  IN  [last EXCEPT !.slab[rest] = len - n,
                                   !.next = [@ EXCEPT ![rest] = s.next[page],
                                                      ![s.prev[page]] = rest],
                                   !.prev = [@ EXCEPT ![rest] = s.prev[page],
                                                      ![s.next[page]] = rest]]
             ELSE Unlink(s, page)
      taken == page .. page + n - 1
  IN  [cut EXCEPT
         !.slab = [x \in Pages |-> IF x = page THEN START + n
                                   ELSE IF x \in taken THEN BUSY ELSE @[x]],
         !.next = [x \in DOMAIN @ |-> IF x \in taken THEN NULL ELSE @[x]],
         !.prev = [x \in DOMAIN @ |-> IF x \in taken THEN NULL ELSE @[x]],
         !.type = [x \in Pages |-> IF x \in taken THEN "PAGE" ELSE @[x]]]

ngx_slab_alloc_pages(s, n) == TakeRun(s, Listed(s, FREE)[Min(Fits(s, n))], n)

Cleared(s, x) == [s EXCEPT !.slab[x] = 0, !.next[x] = NULL, !.prev[x] = NULL,
                           !.type[x] = "PAGE"]

\* The run after the freed one joins it; the model's page is its head.
JoinRight(s, page) ==
  LET join == page + s.slab[page]
  IN  IF join < NPages /\ s.type[join] = "PAGE" /\ s.next[join] # NULL
      THEN [Cleared(Unlink(s, join), join) EXCEPT !.slab[page] = @ + s.slab[join]]
      ELSE s

\* The run before: found through the prev of its last page.
LeftHead(s, page) ==
  IF s.slab[page - 1] = 0 THEN s.prev[page - 1] ELSE page - 1
JoinsLeft(s, page) ==
  page > 0 /\ s.type[page - 1] = "PAGE" /\ s.next[LeftHead(s, page)] # NULL

\* ngx_slab_free_pages: pages behind the first are cleared, the page leaves the
\* slot it is in, joins its neighbours, and the run goes to the front of the
\* free list with its last page pointing to its first.
ngx_slab_free_pages(s, page, n) ==
  LET cleared ==
        [s EXCEPT !.slab = [x \in Pages |-> IF x = page THEN n
                              ELSE IF x \in page + 1 .. page + n - 1 THEN 0 ELSE @[x]]]
      out == IF s.next[page] # NULL THEN Unlink(cleared, page) ELSE cleared
      right == JoinRight(out, page)
      head == IF JoinsLeft(right, page) THEN LeftHead(right, page) ELSE page
      run == IF JoinsLeft(right, page)
             THEN [Cleared(Unlink(right, head), page) EXCEPT
                     !.slab[head] = @ + right.slab[page]]
             ELSE right
      tail == head + run.slab[head] - 1
      marked == IF tail # head THEN [run EXCEPT !.prev[tail] = head] ELSE run
  IN  [marked EXCEPT !.type[head] = "PAGE",
                     !.next = [@ EXCEPT ![head] = marked.next[FREE], ![FREE] = head],
                     !.prev = [@ EXCEPT ![head] = FREE, ![marked.next[FREE]] = head]]

-----------------------------------------------------------------------------
(* Chunks *)

Full(s, c, x) == s.map[x] = 0 .. ChunksOf[c] - 1

\* The first free chunk of the first page in the slot; a page that is full now
\* leaves the slot.
TakeChunk(s, c) ==
  LET page == s.next[c]
      i == Min((0 .. ChunksOf[c] - 1) \ s.map[page])
      used == [s EXCEPT !.map[page] = @ \cup {i}]
  IN  [chunk |-> [page |-> page, at |-> i, class |-> c],
       pool |-> IF Full(used, c, page)
                THEN [Unlink(used, page) EXCEPT !.next[page] = NULL, !.prev[page] = NULL]
                ELSE used]

\* A page is cut into chunks: those of the bitmap and the first of the others
\* are taken, and the page is alone in its slot.
CutPage(s, c) ==
  LET page == Listed(s, FREE)[Min(Fits(s, 1))]
      t == ngx_slab_alloc_pages(s, 1)
  IN  [chunk |-> [page |-> page, at |-> MapChunksOf[c], class |-> c],
       pool |-> [t EXCEPT !.map[page] = 0 .. MapChunksOf[c],
                          !.type[page] = TypeOf[c],
                          !.next = [@ EXCEPT ![page] = c, ![c] = page],
                          !.prev[page] = c]]

Failed == UNCHANGED vars

\* ngx_slab_alloc of more than half a page.
AllocPages(n) ==
  IF Fits(pool, n) = {} THEN Failed
  ELSE LET page == Listed(pool, FREE)[Min(Fits(pool, n))]
           b == [page |-> page, at |-> n, class |-> "PAGE"]
       IN  pool' = ngx_slab_alloc_pages(pool, n) /\ live' = live \cup {b}

\* ngx_slab_alloc of a chunk.
AllocChunk(c) ==
  LET got == IF pool.next[c] # c THEN TakeChunk(pool, c) ELSE CutPage(pool, c)
  IN  IF pool.next[c] = c /\ Fits(pool, 1) = {} THEN Failed
      ELSE pool' = got.pool /\ live' = live \cup {got.chunk}

\* A page that was full does not return to its slot.
BugFreeChunk(s, page, c, i) ==
  LET freed == [s EXCEPT !.map[page] = @ \ {i}]
  IN  IF freed.map[page] \cap Chunk(c) # {} THEN freed
      ELSE ngx_slab_free_pages(freed, page, 1)

\* A chunk is given back: a page that was full returns to its slot, a page
\* with nothing but its bitmap to the free pages.
FreeChunk(s, page, c, i) ==
  LET back == IF s.next[page] = NULL
              THEN [s EXCEPT !.next = [@ EXCEPT ![page] = s.next[c], ![c] = page],
                             !.prev = [@ EXCEPT ![page] = c, ![s.next[c]] = page]]
              ELSE s
      freed == [back EXCEPT !.map[page] = @ \ {i}]
  IN  IF freed.map[page] \cap Chunk(c) # {} THEN freed
      ELSE ngx_slab_free_pages(freed, page, 1)

\* Whole pages: one that is marked free is refused, and so is a page behind
\* the first of a run.
FreePage(s, x) ==
  LET n == s.slab[x]
  IN  IF n \in {0, BUSY} THEN s
      ELSE ngx_slab_free_pages(s, x, IF n > START THEN n - START ELSE n)

\* ngx_slab_free: by the type of the page the pointer is in.  A chunk that is
\* marked free is refused.
ngx_slab_free(b) ==
  LET x == b.page
  IN  /\ pool' = IF pool.type[x] = "PAGE" THEN FreePage(pool, x)
                 ELSE IF b.at \in pool.map[x] THEN FreeChunk(pool, x, b.class, b.at)
                 ELSE pool
      /\ live' = live \ {b}

PagesOf(b) == IF b.class = "PAGE" THEN b.page .. b.page + b.at - 1 ELSE {b.page}
Overlap(b, d) ==
  /\ PagesOf(b) \cap PagesOf(d) # {}
  /\ b.class # d.class \/ b.class = "PAGE" \/ b.at = d.at

Next ==
  \/ \E n \in RunLengths : AllocPages(n)
  \/ \E c \in Classes : AllocChunk(c)
  \/ \E b \in live : ngx_slab_free(b)

Spec == Init /\ [][Next]_vars

-----------------------------------------------------------------------------

\* Blocks handed out never overlap each other or a bitmap, a page is never in
\* two uses, a slot lists exactly the pages of its size with a free chunk (the
\* walk of ngx_slab_alloc ends at the header otherwise), and the free list is
\* the pages nothing live is on, as the longest runs they form.
SlabIntact ==
  /\ \A b, d \in live : b # d => ~Overlap(b, d)
  /\ \A b \in live : b.class # "PAGE" => b.at \in Chunk(b.class)
  /\ \A c \in Classes :
       {Listed(pool, c)[i] : i \in DOMAIN Listed(pool, c)} =
         {x \in Pages : \E b \in live : /\ b.class = c /\ b.page = x
                                        /\ \E i \in Chunk(c) : [b EXCEPT !.at = i] \notin live}
  /\ LET idle == Pages \ UNION {PagesOf(b) : b \in live}
         heads == {x \in idle : x - 1 \notin idle}
         Run(x) == {y \in idle : x .. y \subseteq idle /\ y >= x}
     IN  {<<Listed(pool, FREE)[i], pool.slab[Listed(pool, FREE)[i]]>> :
            i \in DOMAIN Listed(pool, FREE)} = {<<x, Cardinality(Run(x))>> : x \in heads}
=============================================================================

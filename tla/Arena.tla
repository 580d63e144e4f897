------------------------------- MODULE Arena -------------------------------
(***************************************************************************)
(* srf::memory::arena_resource: threads allocate from an arena of their    *)
(* own, which takes superblocks from one global arena; the global arena    *)
(* takes memory from an upstream resource.  Three locks are involved, and  *)
(* they nest in this order: the reader/writer lock of the resource (the    *)
(* table of arenas), the mutex of an arena, the mutex of the global arena. *)
(* A step is what a thread does between two acquisitions of a mutex that   *)
(* another thread may hold.                                                *)
(***************************************************************************)
EXTENDS Integers, FiniteSets, FiniteSetsExt

CONSTANTS Threads,         \* the ids the threads run under
          Requests,        \* the byte counts callers ask for
          Alignment,       \* CUDA_ALLOCATION_ALIGNMENT
          minimum_superblock_size,
          max_free_blocks,
          initial_size,
          maximum_size,
          Addresses        \* where upstream may place a block

None == "none"

ASSUME ArenaAssumption ==
  /\ Alignment \in Nat \ {0} /\ minimum_superblock_size \in Nat \ {0}
  /\ max_free_blocks \in Nat /\ initial_size \in Nat \ {0} /\ maximum_size \in Nat
  /\ initial_size <= maximum_size
  /\ Requests \subseteq Nat /\ Addresses \subseteq Nat \ {0}
  /\ None \notin Threads

VARIABLES free,      \* free_blocks_ of the global arena
          upstream,  \* upstream_blocks_ of the global arena
          current,   \* current_size_
          arenas,    \* thread_arenas_: the free_blocks_ of every thread's arena
          made,      \* the ids that have an entry in thread_arenas_
          cleaner,   \* the threads holding an arena_cleaner
          held,      \* what callers hold: blocks of the bytes they asked for
          pc, job,   \* where a thread is; the request or block it works on
          todo, at,  \* clean: the arenas a thread has yet to clean, the current one
          left,      \* the blocks of that arena that are still only there
          writer,    \* the thread holding mtx_ of the resource for writing
          amtx,      \* the thread holding the mutex of each arena
          gmtx,      \* the thread in the loop of global_arena::deallocate(set)
          fatal      \* LOG(FATAL) ended the process

memory == <<free, upstream, current, arenas, held>>
table == <<made, cleaner>>
locks == <<writer, amtx, gmtx>>
cleaning == <<todo, at, left>>
vars == <<memory, table, pc, job, cleaning, locks, fatal>>

NoBlock == [p |-> 0, s |-> 0]
is_valid(b) == b.p # 0
is_superblock(b) == b.s >= minimum_superblock_size
is_contiguous_before(a, b) == a.p + a.s = b.p

align_up(n) == ((n + Alignment - 1) \div Alignment) * Alignment

Lowest(S) == CHOOSE b \in S : \A c \in S : b.p <= c.p

(* Mutants of split: the remainder still begins where the block did, or is
   forgotten. *)
SplitOverlapping(b, n) == IF b.s > n THEN {[p |-> b.p, s |-> b.s - n]} ELSE {}
SplitForgotten(b, n) == {}

split(b, n) == IF b.s > n THEN {[p |-> b.p + n, s |-> b.s - n]} ELSE {}

first_fit(F, n) ==
  LET fit == {b \in F : b.s >= n}
      b == Lowest(fit)
  IN IF fit = {} THEN [free |-> F, blk |-> NoBlock]
     ELSE [free |-> (F \ {b}) \cup split(b, n), blk |-> [p |-> b.p, s |-> n]]

(* The neighbours of blk in address order.  On an empty list the code reads
   through end(): what it finds there (the element count, then the member that
   follows the set) is no block that ends at blk, so nothing is merged. *)
Previous(F, blk) ==
  {b \in F : b.p < blk.p /\ \A c \in F : c.p < blk.p => c.p <= b.p}
Following(F, blk) ==
  {b \in F : b.p >= blk.p /\ \A c \in F : c.p >= blk.p => b.p <= c.p}

(* Mutant of coalesce_block: the next neighbour is forgotten. *)
CoalescePreviousOnly(F, blk) ==
  LET prev == {b \in Previous(F, blk) : is_contiguous_before(b, blk)}
      merged == IF prev = {} THEN blk
                ELSE [p |-> Lowest(prev).p, s |-> Lowest(prev).s + blk.s]
  IN [free |-> (F \ prev) \cup {merged}, blk |-> merged]

coalesce_block(F, blk) ==
  LET prev == {b \in Previous(F, blk) : is_contiguous_before(b, blk)}
      next == {b \in Following(F, blk) : is_contiguous_before(blk, b)}
      low == IF prev = {} THEN blk
             ELSE [p |-> Lowest(prev).p, s |-> Lowest(prev).s + blk.s]
      merged == IF next = {} THEN low ELSE [p |-> low.p, s |-> low.s + Lowest(next).s]
  IN IF is_valid(blk)
     THEN [free |-> (F \ (prev \cup next)) \cup {merged}, blk |-> merged]
     ELSE [free |-> F, blk |-> blk]

size_to_grow(n) == IF current + n > maximum_size THEN 0 ELSE maximum_size - current

Apart(a, b) == a.p + a.s <= b.p \/ b.p + b.s <= a.p

(* global_arena::expand_arena: the blocks upstream_mr_ may answer with when the
   arena grows to its maximum, anywhere apart from all it gave before. *)
Expanded ==
  IF current >= maximum_size THEN {NoBlock}
  ELSE {b \in [p : Addresses, s : {maximum_size - current}] : \A u \in upstream : Apart(b, u)}

(* A state with the memory of global_arena's constructor. *)
Init ==
  /\ \E b \in [p : Addresses, s : {initial_size}] : free = {b} /\ upstream = {b}
  /\ current = initial_size
  /\ arenas = [t \in Threads |-> {}]
  /\ made = {} /\ cleaner = {} /\ held = {}
  /\ pc = [t \in Threads |-> "idle"]
  /\ job = [t \in Threads |-> NoBlock]
  /\ todo = [t \in Threads |-> {}] /\ left = [t \in Threads |-> {}]
  /\ at = [t \in Threads |-> t]
  /\ writer = None /\ amtx = [t \in Threads |-> None] /\ gmtx = None
  /\ fatal = FALSE
-----------------------------------------------------------------------------
(* get_thread_arena: found under the read lock, or made under the write lock
   together with the arena_cleaner of the calling thread. *)
get_thread_arena(t) ==
  /\ writer = None
  /\ made' = made \cup {t}
  /\ cleaner' = IF t \in made THEN cleaner ELSE cleaner \cup {t}

(* do_allocate up to the arena's mutex; zero bytes return nullptr at once and
   change nothing. *)
do_allocate(t) ==
  /\ pc[t] = "idle"
  /\ get_thread_arena(t)
  /\ \E bytes \in Requests \ {0} :
       job' = [job EXCEPT ![t] = [p |-> 0, s |-> bytes]]
  /\ pc' = [pc EXCEPT ![t] = "allocate"]
  /\ UNCHANGED <<memory, cleaning, locks, fatal>>

(* The caller receives the bytes it asked for, at the block's address. *)
Return(t, b) ==
  /\ held' = held \cup {[p |-> b.p, s |-> job[t].s]}
  /\ job' = [job EXCEPT ![t] = NoBlock]
  /\ pc' = [pc EXCEPT ![t] = "idle"]

(* arena::get_block, the part under the arena's mutex alone: small requests
   are served from the arena's own blocks.  After a failed first attempt the
   thread is in "again" and gives back the write lock when it has a block. *)
get_block(t) ==
  /\ pc[t] \in {"allocate", "again"} /\ amtx[t] = None
  /\ \E n \in {align_up(job[t].s)} :
     \E r \in {IF n < minimum_superblock_size THEN first_fit(arenas[t], n)
               ELSE [free |-> arenas[t], blk |-> NoBlock]} :
       /\ arenas' = [arenas EXCEPT ![t] = r.free]
       /\ IF is_valid(r.blk)
          THEN /\ Return(t, r.blk)
               /\ writer' = IF pc[t] = "again" THEN None ELSE writer
               /\ UNCHANGED amtx
          ELSE /\ amtx' = [amtx EXCEPT ![t] = t]
               /\ pc' = [pc EXCEPT ![t] = IF pc[t] = "again" THEN "expandAgain"
                                          ELSE "expand"]
               /\ UNCHANGED <<held, job, writer>>
  /\ UNCHANGED <<free, upstream, current, table, cleaning, gmtx, fatal>>

(* Mutant of GlobalBlock: the second attempt forgets to take the block out of
   the global free list. *)
GlobalBlockKept(n, fresh) ==
  LET r == first_fit(free, n)
  IN IF is_valid(r.blk)
     THEN [free |-> free, blk |-> r.blk, up |-> upstream, size |-> current]
     ELSE [free |-> free, blk |-> NoBlock, up |-> upstream, size |-> current]

(* global_arena::get_block: first fit, then growth to the maximum. *)
GlobalBlock(n, fresh) ==
  LET r == first_fit(free, n)
      g == size_to_grow(n)
      b == IF g > 0 THEN fresh ELSE NoBlock
      q == first_fit(coalesce_block(free, b).free, n)
  IN IF is_valid(r.blk)
     THEN [free |-> r.free, blk |-> r.blk, up |-> upstream, size |-> current]
     ELSE [free |-> q.free, blk |-> q.blk, size |-> current + g,
           up |-> IF g > 0 THEN upstream \cup {b} ELSE upstream]

(* The rest of arena::get_block, with expand_arena.  A failure sends the first
   attempt to defragment and ends the process on the second. *)
expand_arena(t) ==
  /\ pc[t] \in {"expand", "expandAgain"} /\ gmtx = None
  /\ \E fresh \in Expanded :
     \E n \in {align_up(job[t].s)} :
     \E g \in {GlobalBlock(IF n >= minimum_superblock_size THEN n
                           ELSE minimum_superblock_size, fresh)} :
     \E r \in {first_fit(coalesce_block(arenas[t], g.blk).free, n)} :
       /\ free' = g.free /\ upstream' = g.up /\ current' = g.size
       /\ IF is_valid(g.blk)
          THEN /\ arenas' = [arenas EXCEPT ![t] = r.free]
               /\ Return(t, r.blk)
               /\ writer' = IF pc[t] = "expandAgain" THEN None ELSE writer
               /\ UNCHANGED fatal
          ELSE /\ pc' = [pc EXCEPT ![t] = "defragment"]
               /\ fatal' = (pc[t] = "expandAgain")
               /\ UNCHANGED <<arenas, held, job, writer>>
  /\ amtx' = [amtx EXCEPT ![t] = None]
  /\ UNCHANGED <<table, cleaning, gmtx>>
-----------------------------------------------------------------------------
(* do_allocate after a failed attempt: defragment cleans every arena of the
   table under the write lock. *)
defragment(t) ==
  /\ pc[t] = "defragment" /\ writer = None
  /\ writer' = t
  /\ todo' = [todo EXCEPT ![t] = made]
  /\ pc' = [pc EXCEPT ![t] = "clean"]
  /\ UNCHANGED <<memory, table, job, at, left, amtx, gmtx, fatal>>

(* arena::clean takes the mutex of the arena ... *)
clean(t) ==
  /\ pc[t] = "clean"
  /\ \E u \in todo[t] :
       /\ amtx[u] = None
       /\ amtx' = [amtx EXCEPT ![u] = t]
       /\ todo' = [todo EXCEPT ![t] = @ \ {u}]
       /\ at' = [at EXCEPT ![t] = u]
       /\ left' = [left EXCEPT ![t] = arenas[u]]
  /\ pc' = [pc EXCEPT ![t] = "give"]
  /\ UNCHANGED <<memory, table, job, writer, gmtx, fatal>>

(* ... hands every block to the global arena, in one critical section ... *)
GiveBlock(t) ==
  /\ pc[t] = "give" /\ left[t] # {} /\ gmtx \in {None, t}
  /\ LET b == Lowest(left[t])
     IN /\ free' = coalesce_block(free, b).free
        /\ left' = [left EXCEPT ![t] = @ \ {b}]
        /\ gmtx' = IF left[t] = {b} THEN None ELSE t
  /\ UNCHANGED <<upstream, current, arenas, held, table, pc, job, todo, at,
                 writer, amtx, fatal>>

(* ... and forgets them.  After the last arena the thread tries again, or has
   ended when it was its arena_cleaner that called clean. *)
Clear(t) ==
  /\ pc[t] = "give" /\ left[t] = {}
  /\ arenas' = [arenas EXCEPT ![at[t]] = {}]
  /\ amtx' = [amtx EXCEPT ![at[t]] = None]
  /\ at' = [at EXCEPT ![t] = t]
  /\ pc' = [pc EXCEPT ![t] = IF todo[t] # {} THEN "clean"
                             ELSE IF writer = t THEN "again" ELSE "exited"]
  /\ UNCHANGED <<free, upstream, current, held, table, job, todo, left, writer,
                 gmtx, fatal>>
-----------------------------------------------------------------------------
(* do_deallocate: any thread may return a block, to its own arena. *)
do_deallocate(t) ==
  /\ pc[t] = "idle"
  /\ get_thread_arena(t)
  /\ \E b \in held :
       /\ held' = held \ {b}
       /\ job' = [job EXCEPT ![t] = [p |-> b.p, s |-> align_up(b.s)]]
  /\ pc' = [pc EXCEPT ![t] = "free"]
  /\ UNCHANGED <<free, upstream, current, arenas, cleaning, locks, fatal>>

(* arena::deallocate. *)
deallocate(t) ==
  /\ pc[t] = "free" /\ amtx[t] = None
  /\ \E r \in {coalesce_block(arenas[t], job[t])} :
       /\ arenas' = [arenas EXCEPT ![t] = r.free]
       /\ IF is_superblock(r.blk) \/ Cardinality(r.free) > max_free_blocks
          THEN /\ amtx' = [amtx EXCEPT ![t] = t]
               /\ job' = [job EXCEPT ![t] = r.blk]
               /\ pc' = [pc EXCEPT ![t] = "shrink"]
          ELSE /\ job' = [job EXCEPT ![t] = NoBlock]
               /\ pc' = [pc EXCEPT ![t] = "idle"]
               /\ UNCHANGED amtx
  /\ UNCHANGED <<free, upstream, current, held, table, cleaning, writer, gmtx, fatal>>

(* shrink_arena: the block goes to the global arena before it leaves this one;
   the arena's mutex is held over both steps. *)
shrink_arena(t) ==
  /\ pc[t] = "shrink" /\ gmtx = None
  /\ free' = coalesce_block(free, job[t]).free
  /\ left' = [left EXCEPT ![t] = arenas[t] \ {job[t]}]
  /\ pc' = [pc EXCEPT ![t] = "erase"]
  /\ UNCHANGED <<upstream, current, arenas, held, table, job, todo, at, locks, fatal>>

Erase(t) ==
  /\ pc[t] = "erase"
  /\ arenas' = [arenas EXCEPT ![t] = @ \ {job[t]}]
  /\ amtx' = [amtx EXCEPT ![t] = None]
  /\ job' = [job EXCEPT ![t] = NoBlock]
  /\ left' = [left EXCEPT ![t] = {}]
  /\ pc' = [pc EXCEPT ![t] = "idle"]
  /\ UNCHANGED <<free, upstream, current, held, table, todo, at, writer, gmtx, fatal>>

(* Mutant of Exit: the cleaner does not clean. *)
ExitUncleaned(t) ==
  /\ pc[t] = "idle"
  /\ pc' = [pc EXCEPT ![t] = "exited"]
  /\ UNCHANGED <<memory, table, job, cleaning, locks, fatal>>

(* A thread ends: ~arena_cleaner cleans the arena this thread made. *)
Exit(t) ==
  /\ pc[t] = "idle"
  /\ IF t \in cleaner
     THEN pc' = [pc EXCEPT ![t] = "clean"] /\ todo' = [todo EXCEPT ![t] = {t}]
     ELSE pc' = [pc EXCEPT ![t] = "exited"] /\ UNCHANGED todo
  /\ UNCHANGED <<memory, table, job, at, left, locks, fatal>>

(* A new thread gets the id of one that ended.  Its arena is still in the
   table, so get_thread_arena gives this thread no cleaner. *)
Start(t) ==
  /\ pc[t] = "exited"
  /\ pc' = [pc EXCEPT ![t] = "idle"]
  /\ cleaner' = cleaner \ {t}
  /\ UNCHANGED <<memory, made, job, cleaning, locks, fatal>>

Step(t) ==
  \/ do_allocate(t) \/ get_block(t) \/ expand_arena(t)
  \/ defragment(t) \/ clean(t) \/ GiveBlock(t) \/ Clear(t)
  \/ do_deallocate(t) \/ deallocate(t) \/ shrink_arena(t) \/ Erase(t)
  \/ Exit(t) \/ Start(t)

(* The process after LOG(FATAL). *)
Aborted == fatal /\ UNCHANGED vars

Next == (~fatal /\ \E t \in Threads : Step(t)) \/ Aborted

Spec == Init /\ [][Next]_vars
-----------------------------------------------------------------------------
Blocks == [p : Nat \ {0}, s : Nat \ {0}]

(* The blocks that belong to arena u alone: its free list, without what the
   thread that has its mutex has already put into the global list. *)
Own(u) ==
  IF amtx[u] \in Threads /\ pc[amtx[u]] \in {"give", "erase"} THEN left[amtx[u]]
  ELSE arenas[u]

(* Every block with the place it is in; "back" is a block between
   do_deallocate and arena::deallocate. *)
Items ==
  {<<"held", None, b>> : b \in held} \cup {<<"global", None, b>> : b \in free}
    \cup (UNION {{<<"arena", u, b>> : b \in Own(u)} : u \in Threads})
    \cup {<<"back", t, job[t]>> : t \in {u \in Threads : pc[u] = "free"}}

(* No byte is given out twice (the point of first_fit, split and
   coalesce_block under the three locks): blocks held by callers, blocks being
   returned, the global free list and every arena's own free list are pairwise
   disjoint, also while shrink_arena or clean has a block in two lists. *)
Disjoint == \A i, j \in Items : i # j => Apart(i[3], j[3])

Rounded(i) == IF i[1] = "held" THEN align_up(i[3].s) ELSE i[3].s

(* No byte is lost: what is held (rounded up as do_deallocate will round it),
   being returned or free adds up to what upstream gave, whatever the threads
   that allocated a block and returned it. *)
Conserved == MapThenSumSet(Rounded, Items) = current

(* Free lists are coalesced, so that fragmentation is never worse than what is
   held dictates: no list has two blocks that touch. *)
Coalesced ==
  \A F \in {free} \cup {arenas[u] : u \in Threads} :
    \A a, b \in F : ~is_contiguous_before(a, b)

(* ~arena_cleaner: a thread that made its arena leaves nothing in it. *)
ExitReturns == \A t \in cleaner : pc[t] = "exited" => arenas[t] = {}

(* arena_mr at every moment: no block in two places, free lists coalesced and
   nothing left behind by a thread with a cleaner, while threads allocate, free
   each other's blocks, defragment, exit and reuse ids. *)
ArenaSound == Disjoint /\ Coalesced /\ ExitReturns

(* The stronger reading of arena_cleaner ("useful when a thread is about to
   terminate, and it contains a per-thread arena", arena.hpp:655): whatever
   thread ends leaves nothing behind.  A thread with a reused id has no cleaner. *)
EveryExitReturns == \A t \in Threads : pc[t] = "exited" => arenas[t] = {}

(* LOG(FATAL) "Maximum pool size exceeded" is the truth: no free block, in any
   list, was large enough for the request.  Blocks smaller than a superblock are
   out of reach once they are in the global arena. *)
FatalIsReal ==
  fatal => \A t \in Threads : pc[t] = "defragment" =>
             \A i \in Items : i[1] # "held" => i[3].s < align_up(job[t].s)
=============================================================================

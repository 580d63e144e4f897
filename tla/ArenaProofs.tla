---------------------------- MODULE ArenaProofs ----------------------------
(***************************************************************************)
(* The safety of arena_resource for every number of threads, every size of *)
(* requests, superblocks and pool, and every alignment: no byte is in two  *)
(* places, free lists are coalesced, and a thread that made its arena      *)
(* leaves nothing in it.  A block is seen as the set of its bytes, and a   *)
(* step as a move of items from some places to others that covers no byte  *)
(* it did not take.                                                        *)
(***************************************************************************)
EXTENDS Arena, WellFoundedInduction, TLAPS

(* Byte x is in block b. *)
In(x, b) == b.p <= x /\ x < b.p + b.s

(* Every byte of b is in a block of F. *)
Covered(b, F) == \A x \in Nat : In(x, b) => \E c \in F : In(x, c)

(* A free list: blocks without a common byte. *)
Neat(F) ==
  /\ F \subseteq Blocks
  /\ \A a, b \in F : \A x \in Nat : In(x, a) /\ In(x, b) => a = b

Tight(F) == \A a, b \in F : ~ is_contiguous_before(a, b)

Clear_of(F, b) == \A a \in F : \A x \in Nat : ~ (In(x, a) /\ In(x, b))

Extent(i) == [p |-> i[3].p, s |-> Rounded(i)]

(* A set of items is packed if each is a block and no two share a byte. *)
Packed(I) ==
  /\ \A i \in I : Extent(i) \in Blocks
  /\ \A i, j \in I : \A x \in Nat : In(x, Extent(i)) /\ In(x, Extent(j)) => i = j

(* Every byte of an item is in a block of U. *)
Within(I, U) == \A i \in I : Covered(Extent(i), U)
-----------------------------------------------------------------------------
(* align_up rounds up: a request of at least a byte gets at least as much. *)
LEMMA AlignUp ==
  ASSUME NEW n \in Nat \ {0} PROVE align_up(n) \in Nat \ {0} /\ align_up(n) >= n
<1> DEFINE A == Alignment
           q == (n + A - 1) \div A
<1>1. A \in Nat \ {0}
  BY ArenaAssumption, Zenon
<1>2. q \in Int /\ n + A - 1 = A * q + ((n + A - 1) % A) /\ (n + A - 1) % A \in 0 .. A - 1
  BY <1>1
<1>3. A * q = q * A /\ A * q \in Int
  BY <1>1, <1>2
<1> HIDE DEF q, A
<1>4. q * A \in Int /\ q * A >= n
  BY <1>1, <1>2, <1>3
<1>5. align_up(n) = q * A
  BY Zenon DEF align_up, q, A
<1> QED BY <1>4, <1>5

(* Two blocks lie apart exactly if no byte is in both. *)
LEMMA ApartBytes ==
  ASSUME NEW a \in Blocks, NEW b \in Blocks, \A x \in Nat : ~ (In(x, a) /\ In(x, b))
  PROVE  Apart(a, b)
<1>1. a.p \in Nat /\ a.s \in Nat \ {0} /\ b.p \in Nat /\ b.s \in Nat \ {0}
  BY Zenon DEF Blocks
<1>2. ~ (In(a.p, a) /\ In(a.p, b)) /\ ~ (In(b.p, a) /\ In(b.p, b))
  BY <1>1, Zenon
<1> QED BY <1>1, <1>2 DEF In, Apart

(* A list of blocks has a lowest one, finite or not. *)
LEMMA LowestIn ==
  ASSUME NEW S, S \subseteq Blocks, S # {}
  PROVE  Lowest(S) \in S /\ \A c \in S : Lowest(S).p <= c.p
<1> DEFINE T == {b.p : b \in S}
<1>1. T \subseteq Nat /\ T # {}
  BY Zenon DEF Blocks
<1>2. \E x \in T : \A y \in T : ~ (<<y, x>> \in OpToRel(<, Nat))
  BY <1>1, NatLessThanWellFounded, WFMin, Zenon
<1>3. PICK x \in T : \A y \in T : ~ (<<y, x>> \in OpToRel(<, Nat))
  BY <1>2, Zenon
<1> HIDE DEF T
<1>4. \A y \in T : ~ (y < x)
  BY <1>1, <1>3, Zenon DEF OpToRel
<1>5. \E b \in S : \A c \in S : b.p <= c.p
  <2>1. \A y \in T : x <= y
    BY <1>1, <1>4
  <2> QED BY <2>1, Zenon DEF T
<1> QED BY <1>5, Zenon DEF Lowest
-----------------------------------------------------------------------------
(* first_fit with split: the list falls apart into the block found and the   *)
(* rest, which is as tight as it was.                                        *)
LEMMA FirstFit ==
  ASSUME NEW F, Neat(F), NEW n \in Nat \ {0}
  PROVE  LET r == first_fit(F, n) IN
           \/ r.blk = NoBlock /\ r.free = F /\ \A b \in F : b.s < n
           \/ /\ r.blk \in Blocks /\ r.blk.s = n
              /\ Neat(r.free) /\ Clear_of(r.free, r.blk)
              /\ \A b \in r.free \cup {r.blk} : Covered(b, F)
              /\ Tight(F) => Tight(r.free)
<1> DEFINE fit == {b \in F : b.s >= n}
           b == Lowest(fit)
           r == first_fit(F, n)
<1>0. F \subseteq Blocks
  BY Zenon DEF Neat
<1>1. CASE fit = {}
  <2>1. r = [free |-> F, blk |-> NoBlock]
    BY <1>1, Zenon DEF first_fit
  <2>2. \A c \in F : c.s < n
    BY <1>0, <1>1 DEF Blocks
  <2> QED BY <2>1, <2>2
<1>2. CASE fit # {}
  <2>1. b \in F /\ b.s >= n
    <3>1. b \in fit
      BY <1>0, <1>2, LowestIn, Zenon
    <3> QED BY <3>1, Zenon
  <2>2. r = [free |-> (F \ {b}) \cup split(b, n), blk |-> [p |-> b.p, s |-> n]]
    BY <1>2, Zenon DEF first_fit
  <2> DEFINE k == [p |-> b.p, s |-> n]
             rest == [p |-> b.p + n, s |-> b.s - n]
  <2> HIDE DEF b, r, fit
  <2>3. b.p \in Nat \ {0} /\ b.s \in Nat \ {0} /\ b \in Blocks
    BY <1>0, <2>1, Zenon DEF Blocks
  <2>4. k \in Blocks /\ k.s = n /\ \A x \in Nat : In(x, k) => In(x, b)
    BY <2>1, <2>3 DEF Blocks, In
  <2>5. \A c \in split(b, n) : c = rest /\ b.s > n
    BY Zenon DEF split
  <2>6. b.s > n => /\ rest \in Blocks
                   /\ \A x \in Nat : In(x, rest) => In(x, b) /\ ~ In(x, k)
    BY <2>3 DEF Blocks, In
  <2>7. \A c \in r.free : c \in F \ {b} \/ (c = rest /\ b.s > n)
    BY <2>2, <2>5, Zenon
  <2> HIDE DEF k, rest
  <2>8. \A c \in F \ {b} : \A x \in Nat : ~ (In(x, c) /\ In(x, b))
    BY <2>1, Zenon DEF Neat
  <2>9. Neat(r.free)
    BY <1>0, <2>6, <2>7, <2>8, Zenon DEF Neat
  <2>10. Clear_of(r.free, k)
    BY <2>4, <2>6, <2>7, <2>8, Zenon DEF Clear_of
  <2>11. \A c \in r.free \cup {k} : Covered(c, F)
    BY <2>1, <2>4, <2>6, <2>7, Zenon DEF Covered
  <2>12. ASSUME Tight(F) PROVE Tight(r.free)
    <3> SUFFICES ASSUME NEW c \in r.free, NEW d \in r.free, is_contiguous_before(c, d)
                 PROVE  FALSE
      BY Zenon DEF Tight
    <3>1. CASE c \in F \ {b} /\ d \in F \ {b}
      BY <2>12, <3>1, Zenon DEF Tight
    <3>2. CASE c = rest /\ b.s > n /\ d \in F \ {b}
      <4>1. is_contiguous_before(b, d)
        BY <2>3, <3>2 DEF is_contiguous_before, rest
      <4> QED BY <2>1, <2>12, <3>2, <4>1, Zenon DEF Tight
    <3>3. CASE d = rest /\ b.s > n /\ c \in F \ {b}
      <4>1. c.p \in Nat /\ c.s \in Nat \ {0} /\ c.p + c.s = b.p + n
        BY <1>0, <3>3, Zenon DEF Blocks, is_contiguous_before, rest
      <4>2. In(c.p + c.s - 1, c) /\ In(c.p + c.s - 1, b) /\ c.p + c.s - 1 \in Nat
        BY <2>3, <3>3, <4>1 DEF In
      <4> QED BY <2>8, <3>3, <4>2, Zenon
    <3>4. CASE c = rest /\ d = rest /\ b.s > n
      BY <2>3, <3>4 DEF is_contiguous_before, rest
    <3> QED BY <2>7, <3>1, <3>2, <3>3, <3>4, Zenon
  <2>13. r.blk = k
    BY <2>2, Zenon DEF k
  <2> QED BY <2>4, <2>9, <2>10, <2>11, <2>12, <2>13, Zenon DEF r
<1> QED BY <1>1, <1>2, Zenon

(* coalesce_block: what comes out covers the list and the block and no more, *)
(* holds the block within one at least as large, and is tight if it was.     *)
LEMMA Coalesce ==
  ASSUME NEW F, Neat(F), NEW blk \in Blocks, Clear_of(F, blk)
  PROVE  LET r == coalesce_block(F, blk) IN
           /\ Neat(r.free)
           /\ r.blk \in r.free /\ r.blk.s >= blk.s
           /\ \A b \in r.free : Covered(b, F \cup {blk})
           /\ Tight(F) => Tight(r.free)
<1> DEFINE prev == {b \in Previous(F, blk) : is_contiguous_before(b, blk)}
           next == {b \in Following(F, blk) : is_contiguous_before(blk, b)}
           low == IF prev = {} THEN blk
                  ELSE [p |-> Lowest(prev).p, s |-> Lowest(prev).s + blk.s]
           merged == IF next = {} THEN low ELSE [p |-> low.p, s |-> low.s + Lowest(next).s]
           r == coalesce_block(F, blk)
<1>0. /\ F \subseteq Blocks /\ blk.p \in Nat \ {0} /\ blk.s \in Nat \ {0}
      /\ \A b \in F : b.p \in Nat \ {0} /\ b.s \in Nat \ {0}
  BY Zenon DEF Neat, Blocks
<1>1. r = [free |-> (F \ (prev \cup next)) \cup {merged}, blk |-> merged]
  BY <1>0, Zenon DEF coalesce_block, is_valid
<1>2. prev = {b \in F : b.p + b.s = blk.p}
  <2>1. ASSUME NEW b \in F, b.p + b.s = blk.p PROVE b \in Previous(F, blk)
    <3>1. b.p < blk.p
      BY <1>0, <2>1
    <3>2. ASSUME NEW c \in F, c.p < blk.p PROVE c.p <= b.p
      <4>1. c.p > b.p => In(c.p, b) /\ In(c.p, c)
        BY <1>0, <2>1, <3>2 DEF In
      <4>2. c.p > b.p => b = c
        BY <1>0, <4>1, Zenon DEF Neat
      <4> QED BY <1>0, <4>2
    <3> QED BY <3>1, <3>2, Zenon DEF Previous
  <2> QED BY <2>1, Zenon DEF Previous, is_contiguous_before
<1>3. next = {b \in F : blk.p + blk.s = b.p}
  <2>1. ASSUME NEW b \in F, blk.p + blk.s = b.p PROVE b \in Following(F, blk)
    <3>1. b.p >= blk.p
      BY <1>0, <2>1
    <3>2. ASSUME NEW c \in F, c.p >= blk.p PROVE b.p <= c.p
      <4>1. c.p < b.p => In(c.p, blk) /\ In(c.p, c)
        BY <1>0, <2>1, <3>2 DEF In
      <4> QED BY <1>0, <4>1 DEF Clear_of
    <3> QED BY <3>1, <3>2, Zenon DEF Following
  <2> QED BY <2>1, Zenon DEF Following, is_contiguous_before
<1>4. \A a, b \in prev : a = b
  <2> SUFFICES ASSUME NEW a \in F, NEW b \in F, a.p + a.s = blk.p, b.p + b.s = blk.p
               PROVE  a = b
    BY <1>2, Zenon
  <2>1. blk.p - 1 \in Nat /\ In(blk.p - 1, a) /\ In(blk.p - 1, b)
    BY <1>0 DEF In
  <2> QED BY <2>1, Zenon DEF Neat
<1>5. \A a, b \in next : a = b
  <2> SUFFICES ASSUME NEW a \in F, NEW b \in F, blk.p + blk.s = a.p, blk.p + blk.s = b.p
               PROVE  a = b
    BY <1>3, Zenon
  <2>1. a.p \in Nat /\ In(a.p, a) /\ In(a.p, b)
    BY <1>0 DEF In
  <2> QED BY <2>1, Zenon DEF Neat
<1>6. prev # {} => Lowest(prev) \in prev
  BY <1>0, <1>2, LowestIn, Zenon
<1>7. next # {} => Lowest(next) \in next
  BY <1>0, <1>3, LowestIn, Zenon
<1> DEFINE a == Lowest(prev)
           d == Lowest(next)
<1>8. prev = {} \/ (prev = {a} /\ a \in F /\ a.p + a.s = blk.p)
  BY <1>2, <1>4, <1>6, Zenon
<1>9. next = {} \/ (next = {d} /\ d \in F /\ blk.p + blk.s = d.p)
  BY <1>3, <1>5, <1>7, Zenon
<1>10. /\ low = IF prev = {} THEN blk ELSE [p |-> a.p, s |-> a.s + blk.s]
       /\ merged = IF next = {} THEN low ELSE [p |-> low.p, s |-> low.s + d.s]
  BY Zenon
<1> HIDE DEF prev, next, low, merged, r, a, d
<1>11. /\ low \in Blocks /\ low.p + low.s = blk.p + blk.s /\ low.s >= blk.s
       /\ low.p = IF prev = {} THEN blk.p ELSE a.p
       /\ \A x \in Nat : In(x, low) <=> In(x, blk) \/ (prev # {} /\ In(x, a))
  <2>1. CASE prev = {}
    BY <1>0, <1>10, <2>1
  <2>2. CASE prev # {}
    <3>1. a.p \in Nat \ {0} /\ a.s \in Nat \ {0} /\ a.p + a.s = blk.p
      BY <1>0, <1>8, <2>2, Zenon
    <3>2. low = [p |-> a.p, s |-> a.s + blk.s]
      BY <1>10, <2>2, Zenon
    <3> QED BY <1>0, <2>2, <3>1, <3>2 DEF Blocks, In
  <2> QED BY <2>1, <2>2, Zenon
<1>12. /\ merged \in Blocks /\ merged.s >= blk.s /\ merged.p = low.p
       /\ merged.p + merged.s = IF next = {} THEN blk.p + blk.s ELSE d.p + d.s
       /\ \A x \in Nat : In(x, merged) <=> In(x, low) \/ (next # {} /\ In(x, d))
  <2>0. low.p \in Nat \ {0} /\ low.s \in Nat \ {0}
    BY <1>11, Zenon DEF Blocks
  <2>1. CASE next = {}
    BY <1>10, <1>11, <2>1, Zenon
  <2>2. CASE next # {}
    <3>1. d.p \in Nat \ {0} /\ d.s \in Nat \ {0} /\ blk.p + blk.s = d.p
      BY <1>0, <1>9, <2>2, Zenon
    <3>2. merged = [p |-> low.p, s |-> low.s + d.s]
      BY <1>10, <2>2, Zenon
    <3> QED BY <1>0, <1>11, <2>0, <2>2, <3>1, <3>2 DEF Blocks, In
  <2> QED BY <2>1, <2>2, Zenon
<1>13. \A x \in Nat : In(x, merged) =>
          In(x, blk) \/ (prev # {} /\ In(x, a)) \/ (next # {} /\ In(x, d))
  BY <1>11, <1>12, Zenon
<1>14. \A b \in r.free : b \in F \ (prev \cup next) \/ b = merged
  BY <1>1, Zenon
<1>15. \A b \in F \ (prev \cup next) : \A x \in Nat : ~ (In(x, b) /\ In(x, merged))
  BY <1>8, <1>9, <1>13, Zenon DEF Neat, Clear_of
<1>16. Neat(r.free)
  BY <1>0, <1>12, <1>14, <1>15, Zenon DEF Neat
<1>17. \A b \in r.free : Covered(b, F \cup {blk})
  BY <1>8, <1>9, <1>13, <1>14, Zenon DEF Covered
<1>18. ASSUME Tight(F) PROVE Tight(r.free)
  <2> SUFFICES ASSUME NEW b \in r.free, NEW c \in r.free, is_contiguous_before(b, c)
               PROVE  FALSE
    BY Zenon DEF Tight
  <2>1. CASE b \in F \ (prev \cup next) /\ c \in F \ (prev \cup next)
    BY <1>18, <2>1, Zenon DEF Tight
  <2>2. CASE b \in F \ (prev \cup next) /\ c = merged
    <3>1. b.p + b.s = IF prev = {} THEN blk.p ELSE a.p
      BY <1>11, <1>12, <2>2, Zenon DEF is_contiguous_before
    <3>2. CASE prev = {}
      BY <1>2, <2>2, <3>1, <3>2, Zenon
    <3>3. CASE prev # {}
      <4>1. is_contiguous_before(b, a) /\ a \in F
        BY <1>8, <3>1, <3>3, Zenon DEF is_contiguous_before
      <4> QED BY <1>18, <2>2, <4>1, Zenon DEF Tight
    <3> QED BY <3>2, <3>3, Zenon
  <2>3. CASE b = merged /\ c \in F \ (prev \cup next)
    <3>1. c.p = IF next = {} THEN blk.p + blk.s ELSE d.p + d.s
      BY <1>12, <2>3, Zenon DEF is_contiguous_before
    <3>2. CASE next = {}
      BY <1>3, <2>3, <3>1, <3>2, Zenon
    <3>3. CASE next # {}
      <4>1. is_contiguous_before(d, c) /\ d \in F
        BY <1>9, <3>1, <3>3, Zenon DEF is_contiguous_before
      <4> QED BY <1>18, <2>3, <4>1, Zenon DEF Tight
    <3> QED BY <3>2, <3>3, Zenon
  <2>4. CASE b = merged /\ c = merged
    BY <1>12, <2>4 DEF Blocks, is_contiguous_before
  <2> QED BY <1>14, <2>1, <2>2, <2>3, <2>4, Zenon
<1>19. r.blk = merged /\ merged \in r.free
  BY <1>1, Zenon
<1> QED BY <1>12, <1>16, <1>17, <1>18, <1>19, Zenon DEF r
-----------------------------------------------------------------------------
(* Items taken out of some places and put into others, byte for byte, stay   *)
(* packed, and within any blocks that covered them.                          *)
LEMMA Moved ==
  ASSUME NEW I, NEW J, NEW Old, NEW New, Packed(I), Old \subseteq I,
         J \subseteq (I \ Old) \cup New, Packed(New),
         \A n \in New : Covered(Extent(n), {Extent(o) : o \in Old})
  PROVE  Packed(J) /\ \A U : Within(I, U) => Within(J, U)
<1>1. \A n \in New : \A x \in Nat : In(x, Extent(n)) => \E o \in Old : In(x, Extent(o))
  BY Zenon DEF Covered
<1>2. Packed(J)
  <2> SUFFICES ASSUME NEW i \in J, NEW j \in J, NEW x \in Nat, In(x, Extent(i)), In(x, Extent(j))
               PROVE  i = j
    BY Zenon DEF Packed
  <2>1. CASE i \in I \ Old /\ j \in I \ Old
    BY <2>1, Zenon DEF Packed
  <2>2. CASE i \in New /\ j \in New
    BY <2>2, Zenon DEF Packed
  <2>3. CASE i \in New /\ j \in I \ Old
    BY <1>1, <2>3 DEF Packed
  <2>4. CASE i \in I \ Old /\ j \in New
    BY <1>1, <2>4 DEF Packed
  <2> QED BY <2>1, <2>2, <2>3, <2>4, Zenon
<1>3. ASSUME NEW U, Within(I, U), NEW n \in New PROVE Covered(Extent(n), U)
  <2> SUFFICES ASSUME NEW x \in Nat, In(x, Extent(n)) PROVE \E c \in U : In(x, c)
    BY Zenon DEF Covered
  <2>1. PICK o \in Old : In(x, Extent(o))
    BY <1>1, Zenon
  <2> QED BY <1>3, <2>1, Zenon DEF Within, Covered
<1> QED BY <1>2, <1>3, Zenon DEF Within

(* Blocks that lie apart have no byte in common. *)
LEMMA ApartClear ==
  ASSUME NEW a \in Blocks, NEW b \in Blocks, Apart(a, b)
  PROVE  \A x \in Nat : ~ (In(x, a) /\ In(x, b))
<1>1. a.p \in Nat /\ a.s \in Nat /\ b.p \in Nat /\ b.s \in Nat
  BY Zenon DEF Blocks
<1> QED BY <1>1 DEF In, Apart

(* Memory that upstream places apart from all it gave before is packed with  *)
(* what lies in that.                                                        *)
LEMMA Grown ==
  ASSUME NEW I, Packed(I), NEW U, Within(I, U), NEW i, Extent(i) \in Blocks,
         Clear_of(U, Extent(i))
  PROVE  Packed(I \cup {i}) /\ Within(I \cup {i}, U \cup {Extent(i)}) /\ i \notin I
<1> DEFINE b == Extent(i)
<1>1. \A j \in I : \A x \in Nat : ~ (In(x, Extent(j)) /\ In(x, b))
  BY Zenon DEF Within, Covered, Clear_of
<1>2. Packed(I \cup {i})
  BY <1>1, Zenon DEF Packed
<1>3. Within(I \cup {i}, U \cup {b})
  BY Zenon DEF Within, Covered
<1>4. b.p \in Nat /\ In(b.p, b)
  <2>1. b.p \in Nat /\ b.s \in Nat \ {0}
    BY Zenon DEF Blocks
  <2> HIDE DEF b
  <2> QED BY <2>1 DEF In
<1> QED BY <1>1, <1>2, <1>3, <1>4, Zenon
-----------------------------------------------------------------------------
(* The items of a list: of the global arena, or of a thread's. *)
Listed(place, u, F) == {<<place, u, b>> : b \in F}

(* first_fit and coalesce report a failure with the invalid block. *)
LEMMA ValidBlock == ASSUME NEW b, is_valid(b) PROVE b # NoBlock
BY SMTT(30) DEF is_valid, NoBlock

(* But for the blocks that callers hold, an item is as large as its block. *)
LEMMA ExtentIs ==
  ASSUME NEW place, NEW u, NEW b \in Blocks, place # "held"
  PROVE  Extent(<<place, u, b>>) = b
BY Zenon DEF Extent, Rounded, Blocks

(* The items of a neat list are packed, and packed items make a neat list. *)
LEMMA ListPacked ==
  ASSUME NEW place, NEW u, place # "held", NEW F
  PROVE  /\ Neat(F) => Packed(Listed(place, u, F))
         /\ F \subseteq Blocks /\ Packed(Listed(place, u, F)) => Neat(F)
         /\ F \subseteq Blocks => {Extent(i) : i \in Listed(place, u, F)} = F
<1>1. ASSUME F \subseteq Blocks
      PROVE  \A i \in Listed(place, u, F) : \E b \in F : i = <<place, u, b>> /\ Extent(i) = b
  BY <1>1, ExtentIs, Zenon DEF Listed
<1>2. ASSUME F \subseteq Blocks
      PROVE  \A b \in F : <<place, u, b>> \in Listed(place, u, F) /\ Extent(<<place, u, b>>) = b
  BY <1>2, ExtentIs, Zenon DEF Listed
<1>3. ASSUME Neat(F) PROVE Packed(Listed(place, u, F))
  BY <1>1, <1>3, Zenon DEF Packed, Neat
<1>4. ASSUME F \subseteq Blocks, Packed(Listed(place, u, F)) PROVE Neat(F)
  <2> SUFFICES ASSUME NEW a \in F, NEW b \in F, NEW x \in Nat, In(x, a), In(x, b)
               PROVE  a = b
    BY <1>4, Zenon DEF Neat
  <2>1. <<place, u, a>> = <<place, u, b>>
    BY <1>2, <1>4, Zenon DEF Packed
  <2> QED BY <2>1, Zenon
<1>5. ASSUME F \subseteq Blocks PROVE {Extent(i) : i \in Listed(place, u, F)} = F
  BY <1>1, <1>2, <1>5, Zenon
<1> QED BY <1>3, <1>4, <1>5, Zenon

(* A block returned to a list: arena::deallocate, global_arena::deallocate,   *)
(* and the block that expand_arena gets.                                     *)
LEMMA Returned ==
  ASSUME NEW place, NEW u, place # "held", NEW F, F \subseteq Blocks,
         NEW I, Packed(I), Listed(place, u, F) \subseteq I,
         NEW i \in I, i \notin Listed(place, u, F)
  PROVE  LET r == coalesce_block(F, Extent(i))
             J == (I \ (Listed(place, u, F) \cup {i})) \cup Listed(place, u, r.free)
         IN /\ Packed(J) /\ \A U : Within(I, U) => Within(J, U)
            /\ Neat(r.free) /\ r.blk \in r.free /\ r.blk.s >= Extent(i).s
            /\ Tight(F) => Tight(r.free)
<1> DEFINE b == Extent(i)
           r == coalesce_block(F, b)
           L == Listed(place, u, F)
           J == (I \ (L \cup {i})) \cup Listed(place, u, r.free)
<1>1. b \in Blocks
  BY Zenon DEF Packed
<1>2. Packed(L)
  BY Zenon DEF Packed
<1>3. Neat(F) /\ {Extent(j) : j \in L} = F
  BY <1>2, ListPacked, Zenon
<1>4. Clear_of(F, b)
  <2> SUFFICES ASSUME NEW c \in F, NEW x \in Nat, In(x, c), In(x, b) PROVE FALSE
    BY Zenon DEF Clear_of
  <2>1. <<place, u, c>> \in L /\ Extent(<<place, u, c>>) = c
    BY ExtentIs, Zenon DEF Listed
  <2>2. <<place, u, c>> = i
    BY <2>1, Zenon DEF Packed
  <2> QED BY <2>1, <2>2, Zenon
<1> HIDE DEF b
<1>5. /\ Neat(r.free) /\ r.blk \in r.free /\ r.blk.s >= b.s
      /\ \A c \in r.free : Covered(c, F \cup {b})
      /\ Tight(F) => Tight(r.free)
  BY <1>1, <1>3, <1>4, Coalesce, Zenon
<1> DEFINE G == r.free
           New == Listed(place, u, G)
           Old == L \cup {i}
<1>6. Packed(New) /\ {Extent(j) : j \in New} = G
  <2>1. G \subseteq Blocks
    BY <1>5, Zenon DEF Neat
  <2> HIDE DEF r
  <2> QED BY <1>5, <2>1, ListPacked, Zenon
<1>7. {Extent(o) : o \in Old} = F \cup {b}
  BY <1>3, Zenon DEF b
<1> HIDE DEF r, L
<1>8. \A n \in New : Covered(Extent(n), {Extent(o) : o \in Old})
  BY <1>5, <1>6, <1>7, Zenon
<1>9. Old \subseteq I /\ J \subseteq (I \ Old) \cup New
  BY Zenon DEF L
<1> HIDE DEF New, Old, J
<1>10. Packed(J) /\ \A U : Within(I, U) => Within(J, U)
  BY <1>6, <1>8, <1>9, Moved, Zenon
<1> QED BY <1>5, <1>10, Zenon DEF J, L, New, r, b

(* A block taken from a list by first_fit, which becomes item j. *)
LEMMA Taken ==
  ASSUME NEW place, NEW u, place # "held", NEW F, F \subseteq Blocks,
         NEW I, Packed(I), Listed(place, u, F) \subseteq I,
         NEW n \in Nat \ {0}, NEW r, r = first_fit(F, n), r.blk # NoBlock,
         NEW j, Extent(j) = r.blk
  PROVE  LET J == (I \ Listed(place, u, F)) \cup Listed(place, u, r.free) \cup {j}
         IN Packed(J) /\ \A U : Within(I, U) => Within(J, U)
<1> DEFINE k == r.blk
           G == r.free
           L == Listed(place, u, F)
           New == Listed(place, u, G) \cup {j}
           J == (I \ L) \cup Listed(place, u, G) \cup {j}
<1>1. Packed(L)
  BY Zenon DEF Packed
<1>2. Neat(F) /\ {Extent(i) : i \in L} = F
  BY <1>1, ListPacked, Zenon
<1>3. /\ k \in Blocks /\ k.s = n
      /\ Neat(G) /\ Clear_of(G, k)
      /\ \A b \in G \cup {k} : Covered(b, F)
  BY <1>2, FirstFit, Zenon
<1> HIDE DEF G, k
<1>4. Packed(Listed(place, u, G)) /\ {Extent(i) : i \in Listed(place, u, G)} = G
  BY <1>3, ListPacked, Zenon DEF Neat
<1>5. Extent(j) = k
  BY Zenon DEF k
<1>6. Packed(New)
  <2>1. \A i \in Listed(place, u, G) : Extent(i) \in G
    BY <1>4, Zenon
  <2>2. \A i \in Listed(place, u, G) : \A x \in Nat : ~ (In(x, Extent(i)) /\ In(x, Extent(j)))
    BY <1>3, <1>5, <2>1, Zenon DEF Clear_of
  <2> QED BY <1>3, <1>4, <1>5, <2>2, Zenon DEF Packed
<1>7. \A i \in New : Covered(Extent(i), {Extent(o) : o \in L})
  BY <1>2, <1>3, <1>4, <1>5, Zenon
<1>8. L \subseteq I /\ J \subseteq (I \ L) \cup New
  BY Zenon
<1> HIDE DEF New, L, J
<1>9. Packed(J) /\ \A U : Within(I, U) => Within(J, U)
  BY <1>6, <1>7, <1>8, Moved, Zenon
<1> QED BY <1>3, <1>9, Zenon DEF J, L, G, k
-----------------------------------------------------------------------------
(* What is listed once g is the outcome of global_arena::get_block for        *)
(* thread t: the new free list, and the block it hands out, if any.           *)
Handed(I, g, t) ==
  ((I \ Listed("global", None, free)) \cup Listed("global", None, g.free))
     \cup {<<"back", t, b>> : b \in {g.blk} \ {NoBlock}}

(* global_arena::get_block: the block comes out of the global free list or   *)
(* out of memory apart from everything that upstream gave before.            *)
LEMMA GlobalStep ==
  ASSUME free \subseteq Blocks, Tight(free), upstream \subseteq Blocks, current \in Nat,
         NEW I, Packed(I), Within(I, upstream), Listed("global", None, free) \subseteq I,
         \A b : <<"global", None, b>> \in I => b \in free,
         NEW n \in Nat \ {0}, NEW fresh \in Expanded, NEW t, NEW g, g = GlobalBlock(n, fresh)
  PROVE  /\ Packed(Handed(I, g, t)) /\ Within(Handed(I, g, t), g.up)
         /\ g.up \subseteq Blocks
         /\ Neat(g.free) /\ Tight(g.free) /\ g.size \in Nat
         /\ g.blk = NoBlock \/ (g.blk \in Blocks /\ g.blk.s = n)
<1> DEFINE L == Listed("global", None, free)
<1>2. Packed(L)
  BY Zenon DEF Packed
<1>3. Neat(free)
  BY <1>2, ListPacked, Zenon
<1>4. \A b \in Blocks : is_valid(b) /\ b # NoBlock
  BY DEF Blocks, is_valid, NoBlock
<1>5. ~ is_valid(NoBlock)
  BY Zenon DEF is_valid, NoBlock
<1>r. PICK r : r = first_fit(free, n)
  BY Zenon
<1>6. CASE r.blk # NoBlock
  <2>1. r.blk \in Blocks
    BY <1>3, <1>6, <1>r, FirstFit, Zenon
  <2>2. g.free = r.free /\ g.blk = r.blk /\ g.up = upstream /\ g.size = current
    BY <1>4, <1>r, <2>1, Zenon DEF GlobalBlock
  <2>3. PICK j : j = <<"back", t, r.blk>>
    BY Zenon
  <2> DEFINE J == (I \ L) \cup Listed("global", None, r.free) \cup {j}
  <2>4. Extent(j) = r.blk
    BY <2>1, <2>3, ExtentIs
  <2>5. Neat(r.free) /\ r.blk.s = n /\ Tight(r.free)
    BY <1>3, <1>6, <1>r, FirstFit, Zenon
  <2>6. Packed(J)
    BY <1>6, <1>r, <2>4, Taken, Zenon
  <2>7. \A U : Within(I, U) => Within(J, U)
    BY <1>6, <1>r, <2>4, Taken, Zenon
  <2>8. Within(J, upstream)
    BY <2>7, Zenon
  <2>9. Handed(I, g, t) = J
    BY <1>6, <2>2, <2>3, Zenon DEF Handed
  <2> HIDE DEF J
  <2> QED BY <2>1, <2>2, <2>5, <2>6, <2>8, <2>9, Zenon
<1>7. CASE r.blk = NoBlock
  <2>0. PICK a : a = size_to_grow(n) /\ a \in Nat
    BY ArenaAssumption DEF size_to_grow
  <2>1. PICK b : b = IF a > 0 THEN fresh ELSE NoBlock
    BY Zenon
  <2>2. PICK c : c = coalesce_block(free, b)
    BY Zenon
  <2>3. PICK up : up = IF a > 0 THEN upstream \cup {b} ELSE upstream
    BY Zenon
  <2>4. PICK q : q = first_fit(c.free, n)
    BY Zenon
  <2>5. g.free = q.free /\ g.blk = q.blk /\ g.size = current + a /\ g.up = up
    BY <1>5, <1>7, <1>r, <2>0, <2>1, <2>2, <2>3, <2>4, Zenon DEF GlobalBlock
  <2> DEFINE G == c.free
             M == Listed("global", None, G)
             I2 == (I \ L) \cup M
  <2>6. /\ Packed(I2) /\ Within(I2, up) /\ up \subseteq Blocks
        /\ Neat(G) /\ Tight(G)
    <3>1. CASE a = 0
      <4>1. b = NoBlock /\ up = upstream
        BY <2>1, <2>3, <3>1
      <4>2. G = free
        BY <1>5, <2>2, <4>1, Zenon DEF coalesce_block
      <4>3. I2 = I
        BY <4>2, Zenon
      <4> QED BY <1>3, <4>1, <4>2, <4>3, Zenon
    <3>2. CASE a > 0
      <4>0. a = maximum_size - current /\ ~ (current >= maximum_size)
        BY <2>0, <3>2, ArenaAssumption DEF size_to_grow
      <4>1. b = fresh /\ up = upstream \cup {b}
        BY <2>1, <2>3, <3>2, Zenon
      <4>2. b \in Blocks /\ \A u \in upstream : Apart(b, u)
        <5>1. b \in [p : Addresses, s : {a}] /\ \A u \in upstream : Apart(b, u)
          BY <4>0, <4>1, Zenon DEF Expanded
        <5>2. a \in Nat \ {0}
          BY <2>0, <3>2
        <5>3. [p : Addresses, s : {a}] \subseteq Blocks
          BY <5>2, ArenaAssumption, Zenon DEF Blocks
        <5> QED BY <5>1, <5>3, Zenon
      <4>3. Clear_of(upstream, b)
        BY <4>2, ApartClear, Zenon DEF Clear_of
      <4>i. PICK i : i = <<"fresh", None, b>>
        BY Zenon
      <4>4. Extent(i) = b
        BY <4>2, <4>i, ExtentIs
      <4>5. Packed(I \cup {i}) /\ Within(I \cup {i}, up) /\ i \notin I
        BY <4>1, <4>2, <4>3, <4>4, Grown, Zenon
      <4>6. i \notin I /\ i \notin L
        BY <4>5, Zenon
      <4>7. PICK I3 : I3 = I \cup {i} /\ L \subseteq I3 /\ i \in I3
        BY Zenon
      <4> DEFINE J == (I3 \ (L \cup {i})) \cup M
      <4>8. Packed(J) /\ (\A U : Within(I3, U) => Within(J, U)) /\ Neat(G) /\ Tight(G)
        <5>1. c = coalesce_block(free, Extent(i))
          BY <2>2, <4>4, Zenon
        <5>2. Packed(I3)
          BY <4>5, <4>7, Zenon
        <5> QED BY <4>2, <4>4, <4>6, <4>7, <5>1, <5>2, Returned, Zenon
      <4>9. J = I2
        BY <4>6, <4>7, Zenon
      <4>10. Within(J, up) /\ up \subseteq Blocks
        BY <4>1, <4>2, <4>5, <4>7, <4>8, Zenon
      <4> QED BY <4>8, <4>9, <4>10, Zenon
    <3> QED BY <2>0, <3>1, <3>2
  <2>7. G \subseteq Blocks /\ M \subseteq I2
    BY <2>6, Zenon DEF Neat
  <2>9. CASE q.blk = NoBlock
    <3>1. q.free = G
      BY <1>4, <2>4, <2>6, <2>9, FirstFit, Zenon
    <3>2. Handed(I, g, t) = I2
      BY <2>5, <2>9, <3>1, Zenon DEF Handed
    <3> HIDE DEF I2
    <3> QED BY <2>0, <2>5, <2>6, <2>9, <3>1, <3>2
  <2>10. CASE q.blk # NoBlock
    <3>1. q.blk \in Blocks /\ Neat(q.free) /\ q.blk.s = n /\ Tight(q.free)
      BY <2>4, <2>6, <2>10, FirstFit, Zenon
    <3>2. PICK j : j = <<"back", t, q.blk>>
      BY Zenon
    <3>3. Extent(j) = q.blk
      BY <3>1, <3>2, ExtentIs
    <3> DEFINE J == (I2 \ M) \cup Listed("global", None, q.free) \cup {j}
    <3>4. Packed(J) /\ \A U : Within(I2, U) => Within(J, U)
      <4> HIDE DEF I2, G
      <4> QED BY <2>4, <2>6, <2>7, <2>10, <3>3, Taken, Zenon DEF G
    <3>5. Handed(I, g, t) = J
      <4>1. (I \ L) \cap M = {}
        BY Zenon DEF Listed
      <4> QED BY <2>5, <2>10, <3>2, <4>1, Zenon DEF Handed
    <3>6. Within(J, up)
      BY <2>6, <3>4, Zenon
    <3> HIDE DEF J, I2
    <3> QED BY <2>0, <2>5, <2>6, <3>1, <3>4, <3>5, <3>6
  <2> QED BY <2>9, <2>10, Zenon
<1> QED BY <1>6, <1>7, Zenon
-----------------------------------------------------------------------------
PCs == {"idle", "allocate", "again", "expand", "expandAgain", "defragment", "clean", "give",
        "free", "shrink", "erase", "exited"}

Types ==
  /\ free \subseteq Blocks /\ held \subseteq Blocks /\ current \in Nat
  /\ arenas \in [Threads -> SUBSET Blocks] /\ left \in [Threads -> SUBSET Blocks]
  /\ pc \in [Threads -> PCs] /\ job \in [Threads -> [p : Nat, s : Nat]]
  /\ todo \in [Threads -> SUBSET Threads] /\ at \in [Threads -> Threads]
  /\ made \subseteq Threads /\ cleaner \subseteq Threads
  /\ amtx \in [Threads -> Threads \cup {None}] /\ writer \in Threads \cup {None}
  /\ fatal \in BOOLEAN

(* Who has the mutex of an arena: its own thread between two attempts or     *)
(* while it shrinks the arena, or a thread that cleans it.                   *)
OwnLocked == {"expand", "expandAgain", "shrink", "erase"}

Locked ==
  /\ \A t \in Threads : pc[t] \in OwnLocked => amtx[t] = t
  /\ \A t \in Threads : pc[t] = "give" => amtx[at[t]] = t
  /\ \A t, u \in Threads : amtx[u] = t =>
       \/ pc[t] = "give" /\ u = at[t]
       \/ pc[t] \in OwnLocked /\ u = t

(* Who has mtx_ for writing: the thread that defragments, until it has its   *)
(* block; a thread that cleans without it is its own arena_cleaner.          *)
Writes ==
  /\ \A t \in Threads : pc[t] \in {"again", "expandAgain"} => writer = t
  /\ \A t \in Threads : writer = t =>
       pc[t] \in {"clean", "give", "again", "expandAgain"} \/ fatal
  /\ \A t \in Threads : pc[t] \in {"clean", "give"} /\ writer # t =>
       todo[t] \subseteq {t} /\ (pc[t] = "give" => at[t] = t)

(* What job and left are at each statement. *)
Jobs ==
  \A t \in Threads :
    /\ pc[t] \in {"allocate", "again", "expand", "expandAgain", "defragment"} \/ writer = t
         => job[t].s \in Nat \ {0}
    /\ pc[t] = "free" => job[t] \in Blocks
    /\ pc[t] = "shrink" => job[t] \in arenas[t]
    /\ pc[t] = "erase" => left[t] = arenas[t] \ {job[t]}

(* Items share no byte, lie in what upstream gave, and lists are coalesced. *)
Placed ==
  /\ Packed(Items) /\ Tight(free) /\ \A u \in Threads : Tight(arenas[u])
  /\ upstream \subseteq Blocks /\ Within(Items, upstream)

IInv == Types /\ Locked /\ Writes /\ Jobs /\ Placed /\ ExitReturns

(* The items are those of four kinds of places. *)
LEMMA ItemCases ==
  \A i : i \in Items <=>
    \/ \E b \in held : i = <<"held", None, b>>
    \/ \E b \in free : i = <<"global", None, b>>
    \/ \E u \in Threads : \E b \in Own(u) : i = <<"arena", u, b>>
    \/ \E u \in Threads : pc[u] = "free" /\ i = <<"back", u, job[u]>>
<1> TAKE i
<1> DEFINE A == {<<"held", None, b>> : b \in held}
           B == {<<"global", None, b>> : b \in free}
           C == UNION {{<<"arena", u, b>> : b \in Own(u)} : u \in Threads}
           D == {<<"back", u, job[u]>> : u \in {w \in Threads : pc[w] = "free"}}
<1>1. i \in A <=> \E b \in held : i = <<"held", None, b>>
  BY Zenon
<1>2. i \in B <=> \E b \in free : i = <<"global", None, b>>
  BY Zenon
<1>3. i \in C <=> \E u \in Threads : \E b \in Own(u) : i = <<"arena", u, b>>
  OBVIOUS
<1>4. i \in D <=> \E u \in Threads : pc[u] = "free" /\ i = <<"back", u, job[u]>>
  BY Zenon
<1>5. Items = A \cup B \cup C \cup D
  BY Zenon DEF Items
<1> HIDE DEF A, B, C, D
<1> QED BY <1>1, <1>2, <1>3, <1>4, <1>5, Zenon

(* The same after a step. *)
LEMMA ItemCasesNext ==
  \A i : i \in Items' <=>
    \/ \E b \in held' : i = <<"held", None, b>>
    \/ \E b \in free' : i = <<"global", None, b>>
    \/ \E u \in Threads : \E b \in Own(u)' : i = <<"arena", u, b>>
    \/ \E u \in Threads : pc'[u] = "free" /\ i = <<"back", u, job'[u]>>
<1> TAKE i
<1> DEFINE A == {<<"held", None, b>> : b \in held'}
           B == {<<"global", None, b>> : b \in free'}
           C == UNION {{<<"arena", u, b>> : b \in Own(u)'} : u \in Threads}
           D == {<<"back", u, job'[u]>> : u \in {w \in Threads : pc'[w] = "free"}}
<1>1. i \in A <=> \E b \in held' : i = <<"held", None, b>>
  BY Zenon
<1>2. i \in B <=> \E b \in free' : i = <<"global", None, b>>
  BY Zenon
<1>3. i \in C <=> \E u \in Threads : \E b \in Own(u)' : i = <<"arena", u, b>>
  OBVIOUS
<1>4. i \in D <=> \E u \in Threads : pc'[u] = "free" /\ i = <<"back", u, job'[u]>>
  BY Zenon
<1>5. Items' = A \cup B \cup C \cup D
  BY Zenon DEF Items
<1> HIDE DEF A, B, C, D
<1> QED BY <1>1, <1>2, <1>3, <1>4, <1>5, Zenon

(* global_arena's constructor: all memory is one free block. *)
LEMMA ArenaInit == Init => IInv
<1> SUFFICES ASSUME Init PROVE IInv
  BY Zenon
<1>0. PICK b \in [p : Addresses, s : {initial_size}] : free = {b} /\ upstream = {b}
  BY Zenon DEF Init
<1>1. b \in Blocks
  BY ArenaAssumption DEF Blocks
<1>2. free = {b} /\ upstream = {b} /\ held = {}
  BY <1>0, Zenon DEF Init
<1>3. Types
  BY <1>1, <1>2, ArenaAssumption, Zenon DEF Init, Types, PCs, NoBlock
<1>4. Locked /\ Writes /\ Jobs /\ ExitReturns
  BY ArenaAssumption, Zenon DEF Init, Locked, OwnLocked, Writes, Jobs, ExitReturns
<1>5. \A u \in Threads : Own(u) = {}
  BY ArenaAssumption, Zenon DEF Init, Own
<1>6. \A u \in Threads : pc[u] # "free"
  BY Zenon DEF Init
<1>7. Items = {<<"global", None, b>>}
  BY <1>2, <1>5, <1>6, ItemCases, Zenon
<1>8. Extent(<<"global", None, b>>) = b
  BY <1>1, ExtentIs
<1>9. upstream \subseteq Blocks
  BY <1>1, <1>2, Zenon
<1>10. Tight(free) /\ \A u \in Threads : Tight(arenas[u])
  BY <1>1, <1>2 DEF Init, Tight, is_contiguous_before, Blocks
<1>11. Packed(Items) /\ Within(Items, upstream)
  BY <1>1, <1>2, <1>7, <1>8, Zenon DEF Packed, Within, Covered
<1> QED BY <1>3, <1>4, <1>9, <1>10, <1>11, Zenon DEF IInv, Placed

(* A step that moves no block. *)
LEMMA Kept ==
  ASSUME Placed, UNCHANGED <<held, free, upstream>>,
         \A u \in Threads : Own(u)' = Own(u),
         \A u \in Threads : Tight(arenas'[u]),
         \A u \in Threads : pc'[u] = "free" <=> pc[u] = "free",
         \A u \in Threads : pc[u] = "free" => job'[u] = job[u]
  PROVE  Placed'
<1>1. Items' = Items
  BY ItemCases, ItemCasesNext, Zenon
<1> QED BY <1>1, Zenon DEF Placed
-----------------------------------------------------------------------------
(* The steps that move no block.  Each is shown to keep the invariant conjunct by   *)
(* conjunct.                                                                 *)

(* What an arena owns does not change while neither it nor the thread that    *)
(* has its mutex does.                                                       *)
LEMMA OthersOwn ==
  ASSUME NEW t, NEW v \in Threads, amtx[v] # t, amtx'[v] = amtx[v], arenas'[v] = arenas[v],
         \A w \in Threads : w # t => pc'[w] = pc[w] /\ left'[w] = left[w]
  PROVE  Own(v)' = Own(v)
BY DEF Own

(* A step of thread t that touches nobody else's statement or mutex: what has  *)
(* to be right is whether t has the mutex of its own arena.                   *)
LEMMA LockedNext ==
  ASSUME Locked, NEW t \in Threads, at' = at, \A v \in Threads : at[v] \in Threads,
         \A v \in Threads : v # t => pc'[v] = pc[v] /\ amtx'[v] = amtx[v] /\ amtx[v] # t,
         pc'[t] # "give", amtx[t] \in {None, t}, amtx'[t] \in {None, t},
         pc'[t] \in OwnLocked <=> amtx'[t] = t
  PROVE  Locked'
<1>1. ASSUME NEW v \in Threads, pc'[v] \in OwnLocked PROVE amtx'[v] = v
  BY <1>1, Zenon DEF Locked
<1>2. ASSUME NEW v \in Threads, pc'[v] = "give" PROVE amtx'[at'[v]] = v
  <2>1. v # t /\ amtx[at[v]] = v /\ at[v] \in Threads
    BY <1>2, Zenon DEF Locked
  <2>2. at[v] # t
    BY <2>1, ArenaAssumption, Zenon
  <2> QED BY <2>1, <2>2, Zenon
<1>3. ASSUME NEW v \in Threads, NEW u \in Threads, amtx'[u] = v
      PROVE  \/ pc'[v] = "give" /\ u = at'[v]
             \/ pc'[v] \in OwnLocked /\ u = v
  <2>1. CASE u = t
    BY <1>3, <2>1, ArenaAssumption, Zenon
  <2>2. CASE u # t
    <3>1. amtx[u] = v /\ v # t
      BY <1>3, <2>2, Zenon
    <3> QED BY <3>1, Zenon DEF Locked
  <2> QED BY <2>1, <2>2, Zenon
<1> QED BY <1>1, <1>2, <1>3, Zenon DEF Locked

(* do_allocate up to the mutex of the arena. *)
LEMMA AllocateStep == ASSUME IInv, ~ fatal, NEW t \in Threads, do_allocate(t) PROVE IInv'
<1> USE DEF do_allocate, get_thread_arena, memory, cleaning, locks
<1>0. Types /\ Locked /\ Writes /\ Jobs /\ Placed /\ ExitReturns
  BY Zenon DEF IInv
<1>1. Types'
  BY <1>0, ArenaAssumption, SMTT(30) DEF Types, PCs, NoBlock
<1>2. Locked'
  BY <1>0, ArenaAssumption, SMTT(30) DEF Types, Locked, OwnLocked
<1>3. Writes'
  BY <1>0, ArenaAssumption, SMTT(30) DEF Types, Writes
<1>4. Jobs'
  BY <1>0, ArenaAssumption, SMTT(30) DEF Types, Jobs, Writes, Locked, OwnLocked
<1>5. ExitReturns'
  BY <1>0, SMTT(30) DEF Types, ExitReturns, Writes
<1>6. \A u \in Threads : Own(u)' = Own(u)
  BY <1>0, ArenaAssumption, Zenon DEF Types, Locked, OwnLocked, Own, Jobs
<1>7. \A u \in Threads : Tight(arenas'[u])
  BY <1>0, Zenon DEF Types, Placed
<1>8. \A u \in Threads : pc'[u] = "free" <=> pc[u] = "free"
  BY <1>0, Zenon DEF Types
<1>9. \A u \in Threads : pc[u] = "free" => job'[u] = job[u]
  BY <1>0, Zenon DEF Types
<1>10. UNCHANGED <<held, free, upstream>>
  BY Zenon
<1>11. Placed'
  BY <1>0, <1>6, <1>7, <1>8, <1>9, <1>10, Kept, Zenon
<1> QED BY <1>1, <1>2, <1>3, <1>4, <1>5, <1>11, Zenon DEF IInv

(* defragment takes mtx_ for writing. *)
LEMMA DefragmentStep == ASSUME IInv, ~ fatal, NEW t \in Threads, defragment(t) PROVE IInv'
<1> USE DEF defragment, memory, table
<1>0. Types /\ Locked /\ Writes /\ Jobs /\ Placed /\ ExitReturns
  BY Zenon DEF IInv
<1>1. Types'
  BY <1>0, ArenaAssumption, Zenon DEF Types, PCs, NoBlock
<1>2. Locked'
  BY <1>0, ArenaAssumption, SMTT(30) DEF Types, Locked, OwnLocked
<1>3. Writes'
  BY <1>0, ArenaAssumption, SMTT(30) DEF Types, Writes
<1>4. Jobs'
  BY <1>0, ArenaAssumption, SMTT(30) DEF Types, Jobs, Writes, Locked, OwnLocked
<1>5. ExitReturns'
  BY <1>0, Zenon DEF Types, ExitReturns, Writes
<1>6. \A u \in Threads : Own(u)' = Own(u)
  BY <1>0, ArenaAssumption, Zenon DEF Types, Locked, OwnLocked, Own, Jobs
<1>7. \A u \in Threads : Tight(arenas'[u])
  BY <1>0, Zenon DEF Types, Placed
<1>8. \A u \in Threads : pc'[u] = "free" <=> pc[u] = "free"
  BY <1>0, Zenon DEF Types
<1>9. \A u \in Threads : pc[u] = "free" => job'[u] = job[u]
  BY <1>0, Zenon DEF Types
<1>10. UNCHANGED <<held, free, upstream>>
  BY Zenon
<1>11. Placed'
  BY <1>0, <1>6, <1>7, <1>8, <1>9, <1>10, Kept, Zenon
<1> QED BY <1>1, <1>2, <1>3, <1>4, <1>5, <1>11, Zenon DEF IInv

(* arena::clean takes the mutex of an arena. *)
LEMMA CleanStep == ASSUME IInv, ~ fatal, NEW t \in Threads, clean(t) PROVE IInv'
<1> USE DEF clean, memory, table
<1>0. Types /\ Locked /\ Writes /\ Jobs /\ Placed /\ ExitReturns
  BY Zenon DEF IInv
<1>1. Types'
  BY <1>0, ArenaAssumption, SMTT(30) DEF Types, PCs, NoBlock
<1>2. Locked'
  BY <1>0, ArenaAssumption, SMTT(30) DEF Types, Locked, OwnLocked
<1>3. Writes'
  BY <1>0, ArenaAssumption, SMTT(30) DEF Types, Writes
<1>4. Jobs'
  BY <1>0, ArenaAssumption, SMTT(30) DEF Types, Jobs, Writes, Locked, OwnLocked
<1>5. ExitReturns'
  BY <1>0, Zenon DEF Types, ExitReturns, Writes
<1>6. \A u \in Threads : Own(u)' = Own(u)
  <2>1. PICK u \in todo[t] : /\ amtx[u] = None /\ amtx' = [amtx EXCEPT ![u] = t]
                              /\ left' = [left EXCEPT ![t] = arenas[u]]
    BY Zenon
  <2>2. u \in Threads /\ amtx'[u] = t /\ pc'[t] = "give" /\ left'[t] = arenas[u]
    BY <1>0, <2>1, Zenon DEF Types
  <2>3. Own(u)' = Own(u)
    BY <2>1, <2>2, ArenaAssumption, Zenon DEF Own
  <2>4. ASSUME NEW v \in Threads, v # u PROVE Own(v)' = Own(v)
    <3>1. amtx[v] # t
      BY <1>0, Zenon DEF Types, Locked, OwnLocked
    <3>2. amtx'[v] = amtx[v] /\ arenas'[v] = arenas[v]
      <4>1. DOMAIN amtx = Threads /\ arenas' = arenas
        BY <1>0, Zenon DEF Types
      <4>2. amtx' = [amtx EXCEPT ![u] = t]
        BY <2>1, Zenon
      <4> QED BY ONLY <2>4, <4>1, <4>2, SMTT(30)
    <3>3. \A w \in Threads : w # t => pc'[w] = pc[w] /\ left'[w] = left[w]
      BY <1>0, <2>1, Zenon DEF Types
    <3> QED BY <3>1, <3>2, <3>3, OthersOwn, Zenon
  <2> QED BY <2>3, <2>4, Zenon
<1>7. \A u \in Threads : Tight(arenas'[u])
  BY <1>0, Zenon DEF Types, Placed
<1>8. \A u \in Threads : pc'[u] = "free" <=> pc[u] = "free"
  BY <1>0, SMTT(30) DEF Types
<1>9. \A u \in Threads : pc[u] = "free" => job'[u] = job[u]
  BY <1>0, Zenon DEF Types
<1>10. UNCHANGED <<held, free, upstream>>
  BY Zenon
<1>11. Placed'
  BY <1>0, <1>6, <1>7, <1>8, <1>9, <1>10, Kept, Zenon
<1> QED BY <1>1, <1>2, <1>3, <1>4, <1>5, <1>11, Zenon DEF IInv

(* clean forgets the blocks it has given away. *)
LEMMA ClearStep == ASSUME IInv, ~ fatal, NEW t \in Threads, Clear(t) PROVE IInv'
<1> USE DEF Clear, table
<1>0. Types /\ Locked /\ Writes /\ Jobs /\ Placed /\ ExitReturns
  BY Zenon DEF IInv
<1>1. Types'
  BY <1>0, ArenaAssumption, Zenon DEF Types, PCs, NoBlock
<1>2. Locked'
  BY <1>0, ArenaAssumption, SMTT(30) DEF Types, Locked, OwnLocked
<1>3. Writes'
  BY <1>0, ArenaAssumption, SMTT(30) DEF Types, Writes
<1>4. Jobs'
  BY <1>0, ArenaAssumption, SMTT(30) DEF Types, Jobs, Writes, Locked, OwnLocked
<1>5. ExitReturns'
  BY <1>0, Zenon DEF Types, ExitReturns, Writes
<1>6. \A u \in Threads : Own(u)' = Own(u)
  <2>1. PICK u \in Threads :
          u = at[t] /\ amtx[u] = t /\ amtx'[u] = None /\ arenas'[u] = {}
    BY <1>0, Zenon DEF Types, Locked
  <2>2. Own(u)' = Own(u)
    BY <2>1, ArenaAssumption, Zenon DEF Own
  <2>3. ASSUME NEW v \in Threads, v # u PROVE Own(v)' = Own(v)
    <3>1. amtx[v] # t
      BY <1>0, <2>1, <2>3, Zenon DEF Types, Locked, OwnLocked
    <3>2. amtx'[v] = amtx[v] /\ arenas'[v] = arenas[v]
      BY <1>0, <2>1, <2>3, Zenon DEF Types
    <3>3. \A w \in Threads : w # t => pc'[w] = pc[w] /\ left'[w] = left[w]
      BY <1>0, Zenon DEF Types
    <3> QED BY <3>1, <3>2, <3>3, OthersOwn, Zenon
  <2> QED BY <2>2, <2>3, Zenon
<1>7. \A u \in Threads : Tight(arenas'[u])
  BY <1>0, Zenon DEF Types, Placed, Tight
<1>8. \A u \in Threads : pc'[u] = "free" <=> pc[u] = "free"
  BY <1>0, Zenon DEF Types
<1>9. \A u \in Threads : pc[u] = "free" => job'[u] = job[u]
  BY <1>0, Zenon DEF Types
<1>10. UNCHANGED <<held, free, upstream>>
  BY Zenon
<1>11. Placed'
  BY <1>0, <1>6, <1>7, <1>8, <1>9, <1>10, Kept, Zenon
<1> QED BY <1>1, <1>2, <1>3, <1>4, <1>5, <1>11, Zenon DEF IInv

(* shrink_arena forgets the block it has given away. *)
LEMMA EraseStep == ASSUME IInv, ~ fatal, NEW t \in Threads, Erase(t) PROVE IInv'
<1> USE DEF Erase, table
<1>0. Types /\ Locked /\ Writes /\ Jobs /\ Placed /\ ExitReturns
  BY Zenon DEF IInv
<1>1. Types'
  BY <1>0, ArenaAssumption, Zenon DEF Types, PCs, NoBlock
<1>2. Locked'
  BY <1>0, ArenaAssumption, SMTT(30) DEF Types, Locked, OwnLocked
<1>3. Writes'
  BY <1>0, ArenaAssumption, SMTT(30) DEF Types, Writes
<1>4. Jobs'
  BY <1>0, ArenaAssumption, SMTT(30) DEF Types, Jobs, Writes, Locked, OwnLocked
<1>5. ExitReturns'
  BY <1>0, Zenon DEF Types, ExitReturns, Writes
<1>6. \A u \in Threads : Own(u)' = Own(u)
  <2>1. amtx[t] = t /\ amtx'[t] = None /\ arenas'[t] = left[t]
    BY <1>0, SMTT(30) DEF Types, Locked, OwnLocked, Jobs
  <2>2. Own(t)' = Own(t)
    BY <2>1, ArenaAssumption, Zenon DEF Own
  <2>3. ASSUME NEW v \in Threads, v # t PROVE Own(v)' = Own(v)
    <3>1. amtx[v] # t
      BY <1>0, <2>3, Zenon DEF Types, Locked, OwnLocked
    <3>2. amtx'[v] = amtx[v] /\ arenas'[v] = arenas[v]
      BY <1>0, <2>3, Zenon DEF Types
    <3>3. \A w \in Threads : w # t => pc'[w] = pc[w] /\ left'[w] = left[w]
      BY <1>0, Zenon DEF Types
    <3> QED BY <3>1, <3>2, <3>3, OthersOwn, Zenon
  <2> QED BY <2>2, <2>3, Zenon
<1>7. \A u \in Threads : Tight(arenas'[u])
  BY <1>0, Zenon DEF Types, Placed, Tight
<1>8. \A u \in Threads : pc'[u] = "free" <=> pc[u] = "free"
  BY <1>0, Zenon DEF Types
<1>9. \A u \in Threads : pc[u] = "free" => job'[u] = job[u]
  BY <1>0, Zenon DEF Types
<1>10. UNCHANGED <<held, free, upstream>>
  BY Zenon
<1>11. Placed'
  BY <1>0, <1>6, <1>7, <1>8, <1>9, <1>10, Kept, Zenon
<1> QED BY <1>1, <1>2, <1>3, <1>4, <1>5, <1>11, Zenon DEF IInv

(* A thread ends, and its cleaner goes to work if it has one. *)
LEMMA ExitStep == ASSUME IInv, ~ fatal, NEW t \in Threads, Exit(t) PROVE IInv'
<1> USE DEF Exit, memory, table, locks
<1>0. Types /\ Locked /\ Writes /\ Jobs /\ Placed /\ ExitReturns
  BY Zenon DEF IInv
<1>1. Types'
  <2>1. pc' \in [Threads -> PCs] /\ todo' \in [Threads -> SUBSET Threads]
    <3>1. CASE t \in cleaner
      <4>1. pc' \in [Threads -> PCs]
        BY <1>0, <3>1, SMTT(30) DEF Types, PCs
      <4>2. todo' = [todo EXCEPT ![t] = {t}] /\ {t} \in SUBSET Threads
        BY <3>1, Zenon
      <4>3. todo' \in [Threads -> SUBSET Threads]
        BY <1>0, <4>2, Zenon DEF Types
      <4> QED BY <4>1, <4>3, Zenon
    <3>2. CASE t \notin cleaner
      BY <1>0, <3>2, Zenon DEF Types, PCs
    <3> QED BY <3>1, <3>2, Zenon
  <2> QED BY <1>0, <2>1, Zenon DEF Types
<1>2. Locked'
  BY <1>0, ArenaAssumption, SMTT(30) DEF Types, Locked, OwnLocked
<1>3. Writes'
  <2>1. pc[t] = "idle" /\ writer' = writer /\ at' = at /\ fatal' = fatal
    BY Zenon
  <2>2. \A u \in Threads : u # t => pc'[u] = pc[u] /\ todo'[u] = todo[u]
    BY <1>0, Zenon DEF Types
  <2>3. pc'[t] = "exited" \/ (pc'[t] = "clean" /\ todo'[t] = {t})
    BY <1>0, Zenon DEF Types
  <2>4. writer # t
    BY <1>0, <2>1, Zenon DEF Writes
  <2> HIDE DEF Exit
  <2> QED BY <1>0, <2>1, <2>2, <2>3, <2>4, Zenon DEF Writes
<1>4. Jobs'
  BY <1>0, ArenaAssumption, SMTT(30) DEF Types, Jobs, Writes, Locked, OwnLocked
<1>5. ExitReturns'
  BY <1>0, SMTT(30) DEF Types, ExitReturns, Writes
<1>6. \A u \in Threads : Own(u)' = Own(u)
  BY <1>0, ArenaAssumption, SMTT(30) DEF Types, Locked, OwnLocked, Own, Jobs
<1>7. \A u \in Threads : Tight(arenas'[u])
  BY <1>0, Zenon DEF Types, Placed
<1>8. \A u \in Threads : pc'[u] = "free" <=> pc[u] = "free"
  BY <1>0, Zenon DEF Types
<1>9. \A u \in Threads : pc[u] = "free" => job'[u] = job[u]
  BY <1>0, Zenon DEF Types
<1>10. UNCHANGED <<held, free, upstream>>
  BY Zenon
<1>11. Placed'
  BY <1>0, <1>6, <1>7, <1>8, <1>9, <1>10, Kept, Zenon
<1> QED BY <1>1, <1>2, <1>3, <1>4, <1>5, <1>11, Zenon DEF IInv

(* A thread starts under an id that was used before. *)
LEMMA StartStep == ASSUME IInv, ~ fatal, NEW t \in Threads, Start(t) PROVE IInv'
<1> USE DEF Start, memory, cleaning, locks
<1>0. Types /\ Locked /\ Writes /\ Jobs /\ Placed /\ ExitReturns
  BY Zenon DEF IInv
<1>1. Types'
  BY <1>0, ArenaAssumption, Zenon DEF Types, PCs, NoBlock
<1>2. Locked'
  BY <1>0, ArenaAssumption, SMTT(30) DEF Types, Locked, OwnLocked
<1>3. Writes'
  BY <1>0, ArenaAssumption, SMTT(30) DEF Types, Writes
<1>4. Jobs'
  BY <1>0, ArenaAssumption, SMTT(30) DEF Types, Jobs, Writes, Locked, OwnLocked
<1>5. ExitReturns'
  BY <1>0, Zenon DEF Types, ExitReturns, Writes
<1>6. \A u \in Threads : Own(u)' = Own(u)
  BY <1>0, ArenaAssumption, Zenon DEF Types, Locked, OwnLocked, Own, Jobs
<1>7. \A u \in Threads : Tight(arenas'[u])
  BY <1>0, Zenon DEF Types, Placed
<1>8. \A u \in Threads : pc'[u] = "free" <=> pc[u] = "free"
  BY <1>0, Zenon DEF Types
<1>9. \A u \in Threads : pc[u] = "free" => job'[u] = job[u]
  BY <1>0, Zenon DEF Types
<1>10. UNCHANGED <<held, free, upstream>>
  BY Zenon
<1>11. Placed'
  BY <1>0, <1>6, <1>7, <1>8, <1>9, <1>10, Kept, Zenon
<1> QED BY <1>1, <1>2, <1>3, <1>4, <1>5, <1>11, Zenon DEF IInv

-----------------------------------------------------------------------------
(* The steps that move blocks.  Each is a move of items in the sense of the   *)
(* lemmas Moved, Returned, Taken and GlobalStep.                             *)

(* Fewer items are packed as well. *)
LEMMA PlacedNext ==
  ASSUME NEW J, Packed(J), \A i \in Items' : i \in J, Within(J, upstream'),
         Tight(free'), \A u \in Threads : Tight(arenas'[u]), upstream' \subseteq Blocks
  PROVE  Placed'
<1>1. Packed(Items')
  BY Zenon DEF Packed
<1>2. Within(Items', upstream')
  BY Zenon DEF Within
<1>3. Packed(Items)' /\ Within(Items, upstream)'
  BY <1>1, <1>2, Zenon DEF Packed, Within, Extent, Rounded, Covered
<1> QED BY <1>3, Zenon DEF Placed, Tight

(* do_deallocate takes a block out of the caller's hands. *)
LEMMA DoDeallocateStep ==
  ASSUME IInv, ~ fatal, NEW t \in Threads, do_deallocate(t) PROVE IInv'
<1> USE DEF do_deallocate, get_thread_arena, cleaning, locks
<1>0. Types /\ Locked /\ Writes /\ Jobs /\ Placed /\ ExitReturns
  BY Zenon DEF IInv
<1>1. PICK b \in held : /\ held' = held \ {b}
                        /\ job' = [job EXCEPT ![t] = [p |-> b.p, s |-> align_up(b.s)]]
  BY Zenon
<1> DEFINE k == [p |-> b.p, s |-> align_up(b.s)]
           i == <<"held", None, b>>
           j == <<"back", t, k>>
           J == (Items \ {i}) \cup {j}
<1>2. b \in Blocks /\ k \in Blocks
  BY <1>0, AlignUp, Zenon DEF Types, Blocks
<1>3. i \in Items /\ Extent(i) = k /\ Extent(j) = k
  <2>1. i \in Items
    BY ItemCases, Zenon
  <2>2. Extent(i) = k
    BY Zenon DEF Extent, Rounded
  <2> QED BY <1>2, <2>1, <2>2, ExtentIs, SMTT(30)
<1>4. job'[t] = k /\ pc'[t] = "free" /\ pc[t] = "idle"
  BY <1>0, <1>1, Zenon DEF Types
<1>5. \A u \in Threads : u # t => pc'[u] = pc[u] /\ job'[u] = job[u]
  BY <1>0, <1>1, Zenon DEF Types
<1>6. \A v \in Threads : Own(v)' = Own(v)
  BY <1>0, ArenaAssumption, Zenon DEF Types, Locked, OwnLocked, Own
<1>7. Types'
  <2>1. k \in [p : Nat, s : Nat]
    BY <1>2, Zenon DEF Blocks
  <2> HIDE DEF k
  <2> QED BY <1>0, <1>1, <2>1, SMTT(30) DEF Types, PCs, k
<1>8. Locked'
  BY <1>0, ArenaAssumption, SMTT(30) DEF Types, Locked, OwnLocked
<1>9. Writes'
  BY <1>0, ArenaAssumption, SMTT(30) DEF Types, Writes
<1>10. Jobs'
  <2>1. writer # t
    BY <1>0, <1>4, Zenon DEF Writes
  <2> HIDE DEF k
  <2> QED BY <1>0, <1>2, <1>4, <1>5, <2>1, Zenon DEF Jobs
<1>11. ExitReturns'
  BY <1>0, <1>4, SMTT(30) DEF Types, ExitReturns, Writes
<1> HIDE DEF i, j, k
<1>12. Packed(J) /\ \A U : Within(Items, U) => Within(J, U)
  <2>1. Packed({j})
    BY <1>2, <1>3, Zenon DEF Packed
  <2>2. \A n \in {j} : Covered(Extent(n), {Extent(o) : o \in {i}})
    BY <1>3, Zenon DEF Covered
  <2>3. {i} \subseteq Items /\ J \subseteq (Items \ {i}) \cup {j} /\ Packed(Items)
    BY <1>0, <1>3, Zenon DEF Placed
  <2> HIDE DEF J
  <2> QED BY <2>1, <2>2, <2>3, Moved, Zenon
<1>13. \A m \in Items' : m \in J
  BY <1>1, <1>4, <1>5, <1>6, ItemCases, ItemCasesNext, SMTT(30) DEF i, j
<1>14. Placed'
  <2>1. Within(J, upstream')
    BY <1>0, <1>12, Zenon DEF Placed
  <2>2. upstream' \subseteq Blocks
    BY <1>0, Zenon DEF Placed
  <2> HIDE DEF J
  <2> QED BY <1>0, <1>12, <1>13, <2>1, <2>2, PlacedNext, Zenon DEF Placed, Tight
<1> QED BY <1>7, <1>8, <1>9, <1>10, <1>11, <1>14, Zenon DEF IInv

(* arena::deallocate puts the block into the arena's free list. *)
LEMMA DeallocateStep == ASSUME IInv, ~ fatal, NEW t \in Threads, deallocate(t) PROVE IInv'
<1> USE DEF deallocate, cleaning, table
<1>0. Types /\ Locked /\ Writes /\ Jobs /\ Placed /\ ExitReturns
  BY Zenon DEF IInv
<1>1. PICK k \in Blocks : k = job[t]
  BY <1>0, Zenon DEF Jobs
<1>2. PICK F : F = arenas[t] /\ F \subseteq Blocks /\ Tight(F)
  BY <1>0, Zenon DEF Types, Placed
<1>3. PICK r : /\ r = coalesce_block(F, k)
               /\ arenas' = [arenas EXCEPT ![t] = r.free]
               /\ \/ /\ amtx' = [amtx EXCEPT ![t] = t]
                     /\ job' = [job EXCEPT ![t] = r.blk]
                     /\ pc' = [pc EXCEPT ![t] = "shrink"]
                  \/ /\ job' = [job EXCEPT ![t] = NoBlock]
                     /\ pc' = [pc EXCEPT ![t] = "idle"]
                     /\ UNCHANGED amtx
  BY <1>1, <1>2, Zenon
<1> DEFINE i == <<"back", t, k>>
           L == Listed("arena", t, F)
           J == (Items \ (L \cup {i})) \cup Listed("arena", t, r.free)
<1>4. pc[t] = "free" /\ amtx[t] = None /\ Own(t) = F
  BY <1>2, ArenaAssumption, Zenon DEF Own
<1>5. i \in Items /\ i \notin L /\ L \subseteq Items /\ Extent(i) = k
  <2>1. i \in Items /\ L \subseteq Items
    BY <1>1, <1>4, ItemCases, Zenon DEF Listed
  <2> QED BY <2>1, ExtentIs, SMTT(30) DEF Listed
<1>u. /\ held' = held /\ free' = free /\ upstream' = upstream /\ current' = current
      /\ made' = made /\ cleaner' = cleaner /\ todo' = todo /\ at' = at /\ left' = left
      /\ writer' = writer /\ gmtx' = gmtx /\ fatal' = fatal
  BY Zenon
<1> HIDE DEF deallocate, cleaning, table
<1>6. /\ Packed(J) /\ \A U : Within(Items, U) => Within(J, U)
      /\ Neat(r.free) /\ r.blk \in r.free /\ Tight(r.free)
  <2>1. Packed(Items)
    BY <1>0, Zenon DEF Placed
  <2> HIDE DEF i
  <2> QED BY <1>2, <1>3, <1>5, <2>1, Returned, Zenon
<1>7. r.free \subseteq Blocks /\ r.blk \in Blocks
  BY <1>6, Zenon DEF Neat
<1>t. /\ pc \in [Threads -> PCs] /\ job \in [Threads -> [p : Nat, s : Nat]]
      /\ arenas \in [Threads -> SUBSET Blocks] /\ amtx \in [Threads -> Threads \cup {None}]
  BY <1>0, Zenon DEF Types
<1>8. \A u \in Threads : u # t => /\ pc'[u] = pc[u] /\ job'[u] = job[u]
                                  /\ arenas'[u] = arenas[u] /\ amtx'[u] = amtx[u]
  BY <1>3, <1>t, Zenon
<1>9. arenas'[t] = r.free /\ pc'[t] \in {"shrink", "idle"} /\ amtx'[t] \in {None, t}
  BY <1>3, <1>4, <1>t, Zenon
<1>10. \A v \in Threads : v # t => Own(v)' = Own(v)
  <2> SUFFICES ASSUME NEW v \in Threads, v # t PROVE Own(v)' = Own(v)
    BY Zenon
  <2>1. amtx[v] # t
    BY <1>u, <1>0, <1>4, Zenon DEF Locked, OwnLocked
  <2> QED BY <1>u, <1>8, <2>1, OthersOwn, Zenon
<1>11. Own(t)' = r.free
  BY <1>u, <1>9, ArenaAssumption, Zenon DEF Own
<1>12. Types'
  <2>1. r.blk \in [p : Nat, s : Nat] /\ NoBlock \in [p : Nat, s : Nat]
    BY <1>7, Zenon DEF Blocks, NoBlock
  <2>2. job' \in [Threads -> [p : Nat, s : Nat]]
    BY <1>u, <1>0, <1>3, <2>1, Zenon DEF Types
  <2>3. arenas' \in [Threads -> SUBSET Blocks]
    BY <1>u, <1>0, <1>3, <1>7, Zenon DEF Types
  <2>4. pc' \in [Threads -> PCs]
    BY <1>u, <1>0, <1>3, Zenon DEF Types, PCs
  <2>5. amtx' \in [Threads -> Threads \cup {None}]
    BY <1>3, <1>t, Zenon
  <2> QED BY <1>u, <1>0, <2>2, <2>3, <2>4, <2>5, Zenon DEF Types
<1>13. Locked'
  <2>1. \/ amtx'[t] = t /\ pc'[t] = "shrink"
        \/ amtx'[t] = None /\ pc'[t] = "idle"
    BY <1>3, <1>4, <1>t, Zenon
  <2>2. at' = at /\ \A v \in Threads : at[v] \in Threads
    BY <1>u, <1>0, Zenon DEF Types
  <2>3. \A v \in Threads : v # t => amtx[v] # t
    BY <1>0, <1>4, Zenon DEF Locked, OwnLocked
  <2>4. pc'[t] # "give" /\ (pc'[t] \in OwnLocked <=> amtx'[t] = t)
    BY <2>1, ArenaAssumption, Zenon DEF OwnLocked
  <2> QED BY <1>0, <1>4, <1>8, <1>9, <2>2, <2>3, <2>4, LockedNext, Zenon
<1>14. Writes'
  <2>1. writer # t
    BY <1>0, <1>4, Zenon DEF Writes
  <2> QED BY <1>u, <1>0, <1>8, <1>9, <2>1, Zenon DEF Writes
<1>15. Jobs'
  <2>1. writer # t
    BY <1>u, <1>0, <1>4, Zenon DEF Writes
  <2>2. pc'[t] = "shrink" => job'[t] \in arenas'[t]
    BY <1>u, <1>0, <1>3, <1>6, Zenon DEF Types
  <2> QED BY <1>u, <1>0, <1>8, <1>9, <2>1, <2>2, Zenon DEF Jobs
<1>16. ExitReturns'
  BY <1>u, <1>0, <1>8, <1>9, Zenon DEF Types, ExitReturns
<1>17. \A m \in Items' : m \in J
  <2> SUFFICES ASSUME NEW m \in Items' PROVE m \in J
    BY Zenon
  <2>1. CASE \E b \in held' : m = <<"held", None, b>>
    BY <1>u, <2>1, ItemCases, SMTT(30) DEF Listed
  <2>2. CASE \E b \in free' : m = <<"global", None, b>>
    BY <1>u, <2>2, ItemCases, SMTT(30) DEF Listed
  <2>3. CASE \E u \in Threads : \E b \in Own(u)' : m = <<"arena", u, b>>
    BY <1>u, <2>3, <1>10, <1>11, ItemCases, SMTT(30) DEF Listed
  <2>4. CASE \E u \in Threads : pc'[u] = "free" /\ m = <<"back", u, job'[u]>>
    BY <1>u, <2>4, <1>8, <1>9, ItemCases, SMTT(30) DEF Listed
  <2> QED BY <2>1, <2>2, <2>3, <2>4, ItemCasesNext, Zenon
<1>18. Placed'
  <2>1. Within(J, upstream')
    BY <1>u, <1>0, <1>6, Zenon DEF Placed
  <2>2. \A u \in Threads : Tight(arenas'[u])
    BY <1>u, <1>0, <1>6, <1>8, <1>9, Zenon DEF Placed
  <2>3. Tight(free') /\ upstream' \subseteq Blocks
    BY <1>u, <1>0, Zenon DEF Placed
  <2> HIDE DEF J
  <2> QED BY <1>u, <1>0, <1>6, <1>17, <2>1, <2>2, <2>3, PlacedNext, Zenon
<1> QED BY <1>12, <1>13, <1>14, <1>15, <1>16, <1>18, Zenon DEF IInv

(* A block of an arena's own goes to the global free list. *)
LEMMA ToGlobal ==
  ASSUME Types, Placed, NEW u \in Threads, NEW k \in Own(u), k \in Blocks,
         free' = coalesce_block(free, k).free, UNCHANGED <<held, upstream, arenas>>,
         Own(u)' = Own(u) \ {k}, \A v \in Threads : v # u => Own(v)' = Own(v),
         \A v \in Threads : pc'[v] = "free" <=> pc[v] = "free",
         \A v \in Threads : pc[v] = "free" => job'[v] = job[v]
  PROVE  Placed' /\ free' \subseteq Blocks
<1> DEFINE i == <<"arena", u, k>>
           L == Listed("global", None, free)
           J == (Items \ (L \cup {i})) \cup Listed("global", None, free')
<1>1. i \in Items /\ i \notin L /\ L \subseteq Items /\ Extent(i) = k
  <2>1. i \in Items /\ L \subseteq Items
    BY ItemCases, Zenon DEF Listed
  <2> QED BY <2>1, ExtentIs, SMTT(30) DEF Listed
<1>2. /\ Packed(J) /\ \A U : Within(Items, U) => Within(J, U)
      /\ Neat(free') /\ Tight(free')
  <2>1. Packed(Items) /\ Tight(free) /\ free \subseteq Blocks
    BY Zenon DEF Placed, Types
  <2> HIDE DEF i
  <2> QED BY <1>1, <2>1, Returned, Zenon
<1>3. \A m \in Items' : m \in J
  <2> SUFFICES ASSUME NEW m \in Items' PROVE m \in J
    BY Zenon
  <2>1. CASE \E b \in held' : m = <<"held", None, b>>
    BY <2>1, ItemCases, SMTT(30) DEF Listed
  <2>2. CASE \E b \in free' : m = <<"global", None, b>>
    BY <2>2, Zenon DEF Listed
  <2>3. CASE \E v \in Threads : \E b \in Own(v)' : m = <<"arena", v, b>>
    BY <2>3, ItemCases, SMTT(30) DEF Listed
  <2>4. CASE \E v \in Threads : pc'[v] = "free" /\ m = <<"back", v, job'[v]>>
    BY <2>4, ItemCases, SMTT(30) DEF Listed
  <2> QED BY <2>1, <2>2, <2>3, <2>4, ItemCasesNext, Zenon
<1>4. Placed'
  <2>1. Within(J, upstream')
    BY <1>2, Zenon DEF Placed
  <2>2. upstream' \subseteq Blocks /\ \A v \in Threads : Tight(arenas'[v])
    BY Zenon DEF Placed
  <2> HIDE DEF J
  <2> QED BY <1>2, <1>3, <2>1, <2>2, PlacedNext, Zenon
<1> QED BY <1>2, <1>4, Zenon DEF Neat

(* arena::clean hands a block to the global arena. *)
LEMMA GiveStep == ASSUME IInv, ~ fatal, NEW t \in Threads, GiveBlock(t) PROVE IInv'
<1> USE DEF GiveBlock, table
<1>0. Types /\ Locked /\ Writes /\ Jobs /\ Placed /\ ExitReturns
  BY Zenon DEF IInv
<1>1. PICK u \in Threads : u = at[t] /\ amtx[u] = t
  BY <1>0, Zenon DEF Types, Locked
<1>2. PICK k \in left[t] : /\ free' = coalesce_block(free, k).free
                           /\ left' = [left EXCEPT ![t] = @ \ {k}]
  <2>1. left[t] \subseteq Blocks /\ left[t] # {}
    BY <1>0, Zenon DEF Types
  <2> QED BY <2>1, LowestIn, Zenon
<1>u. /\ upstream' = upstream /\ current' = current /\ arenas' = arenas /\ held' = held
      /\ made' = made /\ cleaner' = cleaner /\ pc' = pc /\ job' = job /\ todo' = todo
      /\ at' = at /\ writer' = writer /\ amtx' = amtx /\ fatal' = fatal
      /\ pc[t] = "give"
  BY Zenon
<1> HIDE DEF GiveBlock, table
<1>3. pc[t] = "give" /\ Own(u) = left[t] /\ Own(u)' = left[t] \ {k} /\ k \in Blocks
  <2>1. left[t] \subseteq Blocks /\ left'[t] = left[t] \ {k}
    BY <1>0, <1>2, Zenon DEF Types
  <2> QED BY <1>1, <1>u, <2>1, Zenon DEF Own
<1>4. \A v \in Threads : v # u => Own(v)' = Own(v)
  <2> SUFFICES ASSUME NEW v \in Threads, v # u PROVE Own(v)' = Own(v)
    BY Zenon
  <2>1. amtx[v] # t
    BY <1>0, <1>1, <1>3, Zenon DEF Locked, OwnLocked
  <2>2. \A w \in Threads : w # t => left'[w] = left[w]
    BY <1>0, <1>2, Zenon DEF Types
  <2> QED BY <1>u, <2>1, <2>2, OthersOwn, Zenon
<1>5. Placed' /\ free' \subseteq Blocks
  BY <1>0, <1>2, <1>3, <1>4, <1>u, ToGlobal, Zenon
<1>6. Types'
  <2>1. left' \in [Threads -> SUBSET Blocks]
    BY <1>0, <1>2, Zenon DEF Types
  <2> QED BY <1>0, <1>5, <1>u, <2>1, Zenon DEF Types
<1>7. Locked' /\ Writes' /\ ExitReturns'
  BY <1>0, <1>u, Zenon DEF Locked, Writes, ExitReturns
<1>8. Jobs'
  <2>1. \A w \in Threads : pc[w] = "erase" => left'[w] = left[w]
    BY <1>0, <1>2, <1>3, Zenon DEF Types
  <2> QED BY <1>0, <1>u, <2>1, Zenon DEF Jobs
<1> QED BY <1>5, <1>6, <1>7, <1>8, Zenon DEF IInv

(* arena::shrink_arena hands one to it. *)
LEMMA ShrinkStep == ASSUME IInv, ~ fatal, NEW t \in Threads, shrink_arena(t) PROVE IInv'
<1> USE DEF shrink_arena, table, locks
<1>0. Types /\ Locked /\ Writes /\ Jobs /\ Placed /\ ExitReturns
  BY Zenon DEF IInv
<1>1. PICK k \in arenas[t] : k = job[t]
  BY <1>0, Zenon DEF Jobs
<1>2. pc[t] = "shrink" /\ amtx[t] = t /\ pc'[t] = "erase" /\ left'[t] = arenas[t] \ {k}
  BY <1>0, <1>1, Zenon DEF Types, Locked, OwnLocked
<1>3. \A w \in Threads : w # t => pc'[w] = pc[w] /\ left'[w] = left[w]
  BY <1>0, Zenon DEF Types
<1>u. /\ upstream' = upstream /\ current' = current /\ arenas' = arenas /\ held' = held
      /\ made' = made /\ cleaner' = cleaner /\ job' = job /\ todo' = todo
      /\ at' = at /\ writer' = writer /\ amtx' = amtx /\ fatal' = fatal
      /\ free' = coalesce_block(free, job[t]).free
  BY Zenon DEF locks
<1>s. left' \in [Threads -> SUBSET Blocks] /\ pc' \in [Threads -> PCs]
  BY <1>0, Zenon DEF Types, PCs
<1> HIDE DEF shrink_arena, table, locks
<1>4. Own(t) = arenas[t] /\ Own(t)' = arenas[t] \ {k} /\ k \in Blocks
  BY <1>0, <1>1, <1>2, <1>u, Zenon DEF Types, Own
<1>5. \A v \in Threads : v # t => Own(v)' = Own(v)
  <2> SUFFICES ASSUME NEW v \in Threads, v # t PROVE Own(v)' = Own(v)
    BY Zenon
  <2>1. amtx[v] # t
    BY <1>0, <1>2, Zenon DEF Locked, OwnLocked
  <2> QED BY <1>3, <1>u, <2>1, OthersOwn, Zenon
<1>6. Placed' /\ free' \subseteq Blocks
  <2>1. \A v \in Threads : pc'[v] = "free" <=> pc[v] = "free"
    BY <1>2, <1>3, Zenon
  <2> QED BY <1>0, <1>1, <1>4, <1>5, <1>u, <2>1, ToGlobal, Zenon
<1>7. Types'
  BY <1>0, <1>6, <1>s, <1>u, Zenon DEF Types
<1>8. Locked'
  BY <1>0, <1>2, <1>3, <1>u, SMTT(30) DEF Locked, OwnLocked
<1>9. Writes' /\ ExitReturns'
  <2>1. made' = made /\ cleaner' = cleaner /\ pc[t] = "shrink" /\ pc'[t] = "erase"
    BY <1>2, <1>u, Zenon
  <2>2. ExitReturns'
    <3>1. cleaner \subseteq Threads
      BY <1>0, Zenon DEF Types
    <3> QED BY <1>0, <1>3, <1>u, <2>1, <3>1, Zenon DEF ExitReturns
  <2>3. Writes'
    <3>1. writer # t
      BY <1>0, <2>1, Zenon DEF Writes
    <3> QED BY <1>0, <1>3, <1>u, <2>1, <3>1, Zenon DEF Writes
  <2> QED BY <2>2, <2>3, Zenon
<1>10. Jobs'
  BY <1>0, <1>1, <1>2, <1>3, <1>u, SMTT(30) DEF Jobs, Writes
<1> QED BY <1>6, <1>7, <1>8, <1>9, <1>10, Zenon DEF IInv

(* What an allocation does when it returns, with G the free list it leaves:    *)
(* locks and table are as they were before it.                               *)
Returns(t, G) ==
  /\ pc[t] \in {"allocate", "again", "expand", "expandAgain"} /\ amtx[t] \in {None, t}
  /\ pc' = [pc EXCEPT ![t] = "idle"] /\ job' = [job EXCEPT ![t] = NoBlock]
  /\ arenas' = [arenas EXCEPT ![t] = G] /\ amtx' = [amtx EXCEPT ![t] = None]
  /\ writer' = IF pc[t] \in {"again", "expandAgain"} THEN None ELSE writer
  /\ UNCHANGED <<made, cleaner, todo, at, left, fatal>>

(* Only the arena of the thread changes when its allocation returns. *)
LEMMA ReturnRest ==
  ASSUME IInv, ~ fatal, NEW t \in Threads, NEW G, Returns(t, G)
  PROVE  /\ Locked' /\ Writes' /\ Jobs' /\ ExitReturns'
         /\ Own(t)' = G /\ \A v \in Threads : v # t => Own(v)' = Own(v)
<1> USE DEF Returns
<1>0. Types /\ Locked /\ Writes /\ Jobs /\ Placed /\ ExitReturns
  BY Zenon DEF IInv
<1>1. pc'[t] = "idle" /\ amtx'[t] = None /\ arenas'[t] = G
  BY <1>0, Zenon DEF Types
<1>2. \A v \in Threads : v # t => /\ pc'[v] = pc[v] /\ job'[v] = job[v]
                                  /\ amtx'[v] = amtx[v] /\ arenas'[v] = arenas[v]
  BY <1>0, Zenon DEF Types
<1>3. writer' # t /\ \A v \in Threads : v # t => (writer' = v <=> writer = v)
  BY <1>0, ArenaAssumption, Zenon DEF Writes
<1>4. \A v \in Threads : v # t => amtx[v] # t
  BY <1>0, Zenon DEF Locked, OwnLocked
<1>5. at' = at /\ \A v \in Threads : at[v] \in Threads
  BY <1>0, Zenon DEF Types
<1>u. /\ made' = made /\ cleaner' = cleaner /\ todo' = todo /\ left' = left /\ fatal' = fatal
      /\ amtx[t] \in {None, t}
  BY Zenon
<1> HIDE DEF Returns
<1>6. Locked'
  <2>1. pc'[t] # "give" /\ (pc'[t] \in OwnLocked <=> amtx'[t] = t)
    BY <1>1, ArenaAssumption, Zenon DEF OwnLocked
  <2> QED BY <1>0, <1>1, <1>2, <1>4, <1>5, <1>u, <2>1, LockedNext, Zenon
<1>7. Writes'
  BY <1>0, <1>1, <1>2, <1>3, <1>5, <1>u, Zenon DEF Writes
<1>8. Jobs'
  BY <1>0, <1>1, <1>2, <1>3, <1>u, Zenon DEF Jobs
<1>9. ExitReturns'
  BY <1>0, <1>1, <1>2, <1>u, Zenon DEF ExitReturns, Types
<1>10. Own(t)' = G
  BY <1>1, <1>u, ArenaAssumption, Zenon DEF Own
<1>11. \A v \in Threads : v # t => Own(v)' = Own(v)
  BY <1>2, <1>4, <1>u, OthersOwn, Zenon
<1> QED BY <1>6, <1>7, <1>8, <1>9, <1>10, <1>11, Zenon

(* arena::get_block under the mutex of the arena. *)
LEMMA GetBlockStep == ASSUME IInv, ~ fatal, NEW t \in Threads, get_block(t) PROVE IInv'
<1> USE DEF get_block, Return, table, cleaning
<1>0. Types /\ Locked /\ Writes /\ Jobs /\ Placed /\ ExitReturns
  BY Zenon DEF IInv
<1>1. PICK s \in Nat \ {0} : s = job[t].s
  BY <1>0, Zenon DEF Jobs
<1>2. PICK n \in Nat \ {0} : n = align_up(s)
  BY AlignUp, Zenon
<1>3. PICK F : F = arenas[t] /\ F \subseteq Blocks /\ Tight(F) /\ Own(t) = F
  BY <1>0, ArenaAssumption, Zenon DEF Types, Placed, Own
<1>4. PICK r : /\ r = IF n < minimum_superblock_size THEN first_fit(F, n)
                      ELSE [free |-> F, blk |-> NoBlock]
               /\ arenas' = [arenas EXCEPT ![t] = r.free]
               /\ IF is_valid(r.blk)
                  THEN /\ held' = held \cup {[p |-> r.blk.p, s |-> s]}
                       /\ job' = [job EXCEPT ![t] = NoBlock]
                       /\ pc' = [pc EXCEPT ![t] = "idle"]
                       /\ writer' = IF pc[t] = "again" THEN None ELSE writer
                       /\ UNCHANGED amtx
                  ELSE /\ amtx' = [amtx EXCEPT ![t] = t]
                       /\ pc' = [pc EXCEPT ![t] = IF pc[t] = "again" THEN "expandAgain"
                                                  ELSE "expand"]
                       /\ UNCHANGED <<held, job, writer>>
  BY <1>1, <1>2, <1>3, Zenon
<1>5. /\ pc[t] \in {"allocate", "again"} /\ amtx[t] = None
      /\ UNCHANGED <<free, upstream, current, made, cleaner, todo, at, left, gmtx, fatal>>
  BY Zenon
<1> HIDE DEF get_block
<1> DEFINE L == Listed("arena", t, F)
<1>6. Neat(F) /\ Packed(Items) /\ L \subseteq Items
  <2>1. L \subseteq Items
    BY <1>3, ItemCases, Zenon DEF Listed
  <2>2. Packed(Items)
    BY <1>0, Zenon DEF Placed
  <2>3. Packed(L)
    BY <2>1, <2>2, Zenon DEF Packed
  <2> QED BY <1>3, <2>1, <2>2, <2>3, ListPacked, Zenon
<1>7. CASE is_valid(r.blk)
  <2>1. r = first_fit(F, n) /\ r.blk # NoBlock
    BY <1>4, <1>7, ValidBlock, Zenon
  <2>2. r.blk \in Blocks /\ r.blk.s = n /\ Neat(r.free) /\ Tight(r.free)
    BY <1>3, <1>6, <2>1, FirstFit, Zenon
  <2>3. r.free \subseteq Blocks /\ [p |-> r.blk.p, s |-> s] \in Blocks
    BY <1>1, <2>2, Zenon DEF Neat, Blocks
  <2> DEFINE j == <<"held", None, [p |-> r.blk.p, s |-> s]>>
             J == (Items \ L) \cup Listed("arena", t, r.free) \cup {j}
  <2>4. Extent(j) = r.blk
    BY <1>2, <2>2, Zenon DEF Extent, Rounded, Blocks
  <2>5. amtx' = [amtx EXCEPT ![t] = None]
    BY <1>0, <1>4, <1>5, <1>7, Zenon DEF Types
  <2>6. /\ Locked' /\ Writes' /\ Jobs' /\ ExitReturns'
        /\ Own(t)' = r.free /\ \A v \in Threads : v # t => Own(v)' = Own(v)
    <3>1. Returns(t, r.free)
      BY <1>4, <1>5, <1>7, <2>5, Zenon DEF Returns
    <3> QED BY <3>1, ReturnRest, Zenon
  <2>7. Types'
    <3>1. arenas' \in [Threads -> SUBSET Blocks]
      BY <1>0, <1>4, <2>3, Zenon DEF Types
    <3>2. held' \subseteq Blocks
      BY <1>0, <1>4, <1>7, <2>3, Zenon DEF Types
    <3>3. pc' \in [Threads -> PCs] /\ job' \in [Threads -> [p : Nat, s : Nat]]
      <4>1. NoBlock \in [p : Nat, s : Nat] /\ "idle" \in PCs
        BY Zenon DEF NoBlock, PCs
      <4>2. pc' = [pc EXCEPT ![t] = "idle"] /\ job' = [job EXCEPT ![t] = NoBlock]
        BY <1>4, <1>7, Zenon
      <4> QED BY <1>0, <4>1, <4>2, Zenon DEF Types
    <3>4. amtx' \in [Threads -> Threads \cup {None}] /\ writer' \in Threads \cup {None}
      BY <1>0, <1>4, <1>7, Zenon DEF Types
    <3> QED BY <1>0, <1>5, <3>1, <3>2, <3>3, <3>4, Zenon DEF Types
  <2>8. Packed(J) /\ \A U : Within(Items, U) => Within(J, U)
    <3> HIDE DEF j
    <3>1. Packed(J)
      BY <1>3, <1>6, <2>1, <2>4, Taken, Zenon
    <3>2. \A U : Within(Items, U) => Within(J, U)
      BY <1>3, <1>6, <2>1, <2>4, Taken, Zenon
    <3> QED BY <3>1, <3>2, Zenon
  <2>9. \A m \in Items' : m \in J
    <3> SUFFICES ASSUME NEW m \in Items' PROVE m \in J
      BY Zenon
    <3>1. CASE \E b \in held' : m = <<"held", None, b>>
      <4>1. held' = held \cup {[p |-> r.blk.p, s |-> s]}
        BY <1>4, <1>7, Zenon
      <4>2. PICK b \in held' : m = <<"held", None, b>>
        BY <3>1, Zenon
      <4>3. CASE b \in held
        <5>1. m \in Items
          BY <4>2, <4>3, ItemCases, Zenon
        <5>2. m \notin L
          BY <4>2, Zenon DEF Listed
        <5> QED BY <5>1, <5>2, Zenon
      <4>4. CASE b = [p |-> r.blk.p, s |-> s]
        BY <4>2, <4>4, Zenon
      <4> QED BY <4>1, <4>3, <4>4, Zenon
    <3>2. CASE \E b \in free' : m = <<"global", None, b>>
      <4>1. m \in Items
        BY <1>5, <3>2, ItemCases, Zenon
      <4>2. m \notin L
        BY <3>2, SMTT(30) DEF Listed
      <4> QED BY <4>1, <4>2, Zenon
    <3>3. CASE \E u \in Threads : \E b \in Own(u)' : m = <<"arena", u, b>>
      <4>1. PICK u \in Threads : \E b \in Own(u)' : m = <<"arena", u, b>>
        BY <3>3, Zenon
      <4>2. PICK b \in Own(u)' : m = <<"arena", u, b>>
        BY <4>1, Zenon
      <4>3. CASE u = t
        BY <2>6, <4>2, <4>3, Zenon DEF Listed
      <4>4. CASE u # t
        <5>1. m \in Items
          BY <2>6, <4>2, <4>4, ItemCases, Zenon
        <5>2. m \notin L
          BY <4>2, <4>4, Zenon DEF Listed
        <5> QED BY <5>1, <5>2, Zenon
      <4> QED BY <4>3, <4>4, Zenon
    <3>4. CASE \E u \in Threads : pc'[u] = "free" /\ m = <<"back", u, job'[u]>>
      <4>1. \A u \in Threads : pc'[u] = "free" => pc[u] = "free" /\ job'[u] = job[u]
        BY <1>0, <1>4, <1>7, Zenon DEF Types
      <4>2. m \in Items
        BY <3>4, <4>1, ItemCases, Zenon
      <4>3. m \notin L
        BY <3>4, SMTT(30) DEF Listed
      <4> QED BY <4>2, <4>3, Zenon
    <3> QED BY <3>1, <3>2, <3>3, <3>4, ItemCasesNext, Zenon
  <2>10. Placed'
    <3>1. Within(J, upstream')
      BY <1>0, <1>5, <2>8, Zenon DEF Placed
    <3>2. \A u \in Threads : Tight(arenas'[u])
      BY <1>0, <1>4, <2>2, Zenon DEF Types, Placed
    <3>3. Tight(free') /\ upstream' \subseteq Blocks
      BY <1>0, <1>5, Zenon DEF Placed
    <3> HIDE DEF J
    <3> QED BY <1>0, <1>5, <2>8, <2>9, <3>1, <3>2, <3>3, PlacedNext, Zenon
  <2> QED BY <2>6, <2>7, <2>10, Zenon DEF IInv
<1>8. CASE ~ is_valid(r.blk)
  <2>1. r.free = F
    <3>1. n < minimum_superblock_size => r.blk = NoBlock \/ r.blk \in Blocks
      BY <1>4, <1>6, FirstFit, Zenon
    <3>2. n < minimum_superblock_size => r.blk = NoBlock
      BY <1>8, <3>1, Zenon DEF is_valid, Blocks
    <3>3. NoBlock \notin Blocks
      BY Zenon DEF NoBlock, Blocks
    <3>4. n < minimum_superblock_size => r.free = F
      <4>1. n < minimum_superblock_size => r = first_fit(F, n)
        BY <1>4, Zenon
      <4>2. n < minimum_superblock_size => r.free = F \/ r.blk \in Blocks
        BY <1>6, <4>1, FirstFit, Zenon
      <4> QED BY <3>2, <3>3, <4>2, Zenon
    <3> QED BY <1>4, <3>4, Zenon
  <2>2. arenas' = arenas /\ job' = job /\ held' = held /\ writer' = writer
    BY <1>0, <1>3, <1>4, <1>8, <2>1, Zenon DEF Types
  <2>3. /\ amtx'[t] = t /\ pc'[t] = IF pc[t] = "again" THEN "expandAgain" ELSE "expand"
        /\ \A v \in Threads : v # t => amtx'[v] = amtx[v] /\ pc'[v] = pc[v]
    BY <1>0, <1>4, <1>8, Zenon DEF Types
  <2>4. Types'
    <3>1. pc' \in [Threads -> PCs] /\ amtx' \in [Threads -> Threads \cup {None}]
      <4>1. (IF pc[t] = "again" THEN "expandAgain" ELSE "expand") \in PCs
        BY Zenon DEF PCs
      <4>2. /\ pc' = [pc EXCEPT ![t] = IF pc[t] = "again" THEN "expandAgain" ELSE "expand"]
            /\ amtx' = [amtx EXCEPT ![t] = t]
        BY <1>4, <1>8, Zenon
      <4>3. pc' \in [Threads -> PCs]
        BY <1>0, <4>1, <4>2, Zenon DEF Types
      <4> QED BY <1>0, <4>2, <4>3, Zenon DEF Types
    <3> QED BY <1>0, <1>5, <2>2, <3>1, Zenon DEF Types
  <2>5. \A v \in Threads : amtx[v] # t
    BY <1>0, <1>5, Zenon DEF Locked, OwnLocked
  <2>6. Locked'
    <3>1. \A v \in Threads : at'[v] = at[v] /\ at[v] \in Threads
      BY <1>0, <1>5, Zenon DEF Types
    <3>2. at' = at /\ pc'[t] \in {"expand", "expandAgain"}
      BY <1>5, <2>3, Zenon
    <3>3. pc'[t] # "give" /\ (pc'[t] \in OwnLocked <=> amtx'[t] = t)
      BY <2>3, <3>2, Zenon DEF OwnLocked
    <3> QED BY <1>0, <1>5, <2>3, <2>5, <3>1, <3>2, <3>3, LockedNext, Zenon
  <2>7. Writes' /\ ExitReturns'
    BY <1>0, <1>5, <2>2, <2>3, Zenon DEF Writes, ExitReturns, Types
  <2>8. Jobs'
    BY <1>0, <1>5, <2>2, <2>3, Zenon DEF Jobs
  <2>9. \A v \in Threads : Own(v)' = Own(v)
    <3>1. Own(t)' = Own(t)
      BY <1>5, <2>2, <2>3, ArenaAssumption, Zenon DEF Own
    <3>2. \A v \in Threads : v # t => Own(v)' = Own(v)
      BY <1>5, <2>2, <2>3, <2>5, OthersOwn, Zenon
    <3> QED BY <3>1, <3>2, Zenon
  <2>10. \A v \in Threads : pc'[v] = "free" <=> pc[v] = "free"
    BY <1>5, <2>3, Zenon
  <2>11. Placed'
    BY <1>0, <1>5, <2>2, <2>9, <2>10, Kept, Zenon DEF Placed
  <2> QED BY <2>4, <2>6, <2>7, <2>8, <2>11, Zenon DEF IInv
<1> QED BY <1>7, <1>8, Zenon

(* arena::get_block, continued with expand_arena: the block of the global     *)
(* arena goes into this one, and the request is served from it.              *)
LEMMA ExpandStep == ASSUME IInv, ~ fatal, NEW t \in Threads, expand_arena(t) PROVE IInv'
<1>0. Types /\ Locked /\ Writes /\ Jobs /\ Placed /\ ExitReturns
  BY Zenon DEF IInv
<1>p. pc[t] \in {"expand", "expandAgain"}
  BY Zenon DEF expand_arena
<1>1. PICK s \in Nat \ {0} : s = job[t].s
  BY <1>0, <1>p, Zenon DEF Jobs
<1>2. PICK n \in Nat \ {0} : n = align_up(s)
  BY AlignUp, Zenon
<1>3. PICK N \in Nat \ {0} :
        N = (IF n >= minimum_superblock_size THEN n ELSE minimum_superblock_size) /\ N >= n
  <2> DEFINE W == IF n >= minimum_superblock_size THEN n ELSE minimum_superblock_size
  <2>1. minimum_superblock_size \in Nat \ {0}
    BY ArenaAssumption, Zenon
  <2>2. W \in Nat \ {0} /\ W >= n
    BY <2>1, SMTT(30)
  <2> HIDE DEF W
  <2>3. \E N \in Nat \ {0} : N = W /\ N >= n
    BY <2>2, Zenon
  <2> QED BY <2>3, Zenon DEF W
<1>4. PICK F : F = arenas[t] /\ F \subseteq Blocks /\ Tight(F) /\ Own(t) = F
  BY <1>0, <1>p, Zenon DEF Types, Placed, Own, Locked, OwnLocked
<1>5. PICK fresh, g :
        /\ fresh \in Expanded /\ g = GlobalBlock(N, fresh)
        /\ free' = g.free /\ upstream' = g.up /\ current' = g.size
        /\ LET r == first_fit(coalesce_block(F, g.blk).free, n)
           IN IF is_valid(g.blk)
              THEN /\ arenas' = [arenas EXCEPT ![t] = r.free]
                   /\ Return(t, r.blk)
                   /\ writer' = IF pc[t] = "expandAgain" THEN None ELSE writer
                   /\ UNCHANGED fatal
              ELSE /\ pc' = [pc EXCEPT ![t] = "defragment"]
                   /\ fatal' = (pc[t] = "expandAgain")
                   /\ UNCHANGED <<arenas, held, job, writer>>
  BY <1>1, <1>2, <1>3, <1>4, Zenon DEF expand_arena
<1>6. /\ pc[t] \in {"expand", "expandAgain"} /\ amtx[t] = t
      /\ amtx' = [amtx EXCEPT ![t] = None]
      /\ UNCHANGED <<made, cleaner, todo, at, left, gmtx>>
  BY <1>0, Zenon DEF expand_arena, Locked, OwnLocked, table, cleaning
<1> DEFINE i == <<"back", t, g.blk>>
           L == Listed("arena", t, F)
           H == (Items \ Listed("global", None, free)) \cup Listed("global", None, g.free)
           K == Handed(Items, g, t)
<1>7. /\ Packed(K) /\ Within(K, upstream') /\ upstream' \subseteq Blocks
      /\ Neat(free') /\ Tight(free') /\ current' \in Nat
      /\ g.blk = NoBlock \/ (g.blk \in Blocks /\ g.blk.s = N)
  <2>1. upstream' = g.up
    BY <1>5, Zenon
  <2>2. /\ free \subseteq Blocks /\ Tight(free) /\ upstream \subseteq Blocks /\ current \in Nat
        /\ Packed(Items) /\ Within(Items, upstream)
    BY <1>0, Zenon DEF Types, Placed
  <2>3. /\ Listed("global", None, free) \subseteq Items
        /\ \A b : <<"global", None, b>> \in Items => b \in free
    BY ItemCases, SMTT(30) DEF Listed
  <2>4. /\ Packed(K) /\ Within(K, g.up) /\ g.up \subseteq Blocks
        /\ Neat(g.free) /\ Tight(g.free) /\ g.size \in Nat
        /\ g.blk = NoBlock \/ (g.blk \in Blocks /\ g.blk.s = N)
    BY <1>5, <2>2, <2>3, GlobalStep, Zenon
  <2> HIDE DEF K
  <2> QED BY <1>5, <2>1, <2>4, Zenon
<1>8. \A m \in Items : (\E b \in free : m = <<"global", None, b>>) \/ m \in H
  BY Zenon DEF Listed
<1>9. \A b \in free' : <<"global", None, b>> \in H
  BY <1>5, Zenon DEF Listed
<1>10. free' \subseteq Blocks
  BY <1>7, Zenon DEF Neat
<1> HIDE DEF H
<1>11. CASE is_valid(g.blk)
  <2>1. g.blk \in Blocks /\ g.blk.s = N /\ K = H \cup {i}
    <3>1. g.blk # NoBlock
      BY <1>11, ValidBlock, Zenon
    <3> QED BY <1>7, <3>1, Zenon DEF Handed, H
  <2>2. PICK c : c = coalesce_block(F, g.blk)
    BY Zenon
  <2>3. PICK r : /\ r = first_fit(c.free, n)
                 /\ arenas' = [arenas EXCEPT ![t] = r.free]
                 /\ held' = held \cup {[p |-> r.blk.p, s |-> s]}
                 /\ job' = [job EXCEPT ![t] = NoBlock]
                 /\ pc' = [pc EXCEPT ![t] = "idle"]
                 /\ writer' = IF pc[t] = "expandAgain" THEN None ELSE writer
                 /\ UNCHANGED fatal
    BY <1>1, <1>5, <1>11, <2>2, Zenon DEF Return
  <2> DEFINE M == Listed("arena", t, c.free)
             K2 == (K \ (L \cup {i})) \cup M
  <2>4. L \subseteq K /\ i \in K /\ i \notin L /\ Extent(i) = g.blk
    <3>1. L \subseteq Items
      BY <1>4, ItemCases, Zenon DEF Listed
    <3>2. L \subseteq H
      BY <1>8, <3>1, SMTT(30) DEF Listed
    <3> QED BY <2>1, <3>2, ExtentIs, SMTT(30) DEF Listed
  <2>5. /\ Packed(K2) /\ \A U : Within(K, U) => Within(K2, U)
        /\ Neat(c.free) /\ c.blk \in c.free /\ c.blk.s >= N /\ Tight(c.free)
    <3> HIDE DEF i, K
    <3> QED BY <1>4, <1>7, <2>1, <2>2, <2>4, Returned, Zenon
  <2>6. c.free \subseteq Blocks /\ c.blk \in Blocks
    BY <2>5, Zenon DEF Neat
  <2>7. r.blk # NoBlock
    <3>1. ~ (c.blk.s < n)
      <4>1. c.blk.s >= N
        BY <2>5, Zenon
      <4>2. c.blk.s \in Nat
        BY ONLY <2>6, Zenon DEF Blocks
      <4> QED BY ONLY <1>3, <4>1, <4>2, SMTT(30)
    <3>2. NoBlock \notin Blocks
      BY Zenon DEF NoBlock, Blocks
    <3>3. r = first_fit(c.free, n) /\ Neat(c.free) /\ c.blk \in c.free
      BY <2>3, <2>5, Zenon
    <3>4. (\A b \in c.free : b.s < n) \/ r.blk \in Blocks
      BY <3>3, FirstFit, Zenon
    <3> QED BY <3>1, <3>2, <3>3, <3>4, Zenon
  <2>8. r.blk \in Blocks /\ r.blk.s = n /\ Neat(r.free) /\ Tight(r.free)
    BY <2>3, <2>5, <2>7, FirstFit, Zenon
  <2>9. r.free \subseteq Blocks /\ [p |-> r.blk.p, s |-> s] \in Blocks
    BY <1>1, <2>8, Zenon DEF Neat, Blocks
  <2> DEFINE j == <<"held", None, [p |-> r.blk.p, s |-> s]>>
             J == (K2 \ M) \cup Listed("arena", t, r.free) \cup {j}
  <2>10. Extent(j) = r.blk
    BY <1>2, <2>8, Zenon DEF Extent, Rounded, Blocks
  <2>11. M \subseteq K2
    BY Zenon
  <2>12. Packed(J) /\ \A U : Within(K2, U) => Within(J, U)
    <3> HIDE DEF j, K2
    <3>1. Packed(J)
      BY <2>3, <2>5, <2>6, <2>7, <2>10, <2>11, Taken, Zenon
    <3>2. \A U : Within(K2, U) => Within(J, U)
      BY <2>3, <2>5, <2>6, <2>7, <2>10, <2>11, Taken, Zenon
    <3> QED BY <3>1, <3>2, Zenon
  <2>13. /\ Locked' /\ Writes' /\ Jobs' /\ ExitReturns'
         /\ Own(t)' = r.free /\ \A v \in Threads : v # t => Own(v)' = Own(v)
    <3>1. Returns(t, r.free)
      BY <1>6, <2>3, Zenon DEF Returns
    <3> QED BY <3>1, ReturnRest, Zenon
  <2>14. Types'
    <3>1. arenas' \in [Threads -> SUBSET Blocks]
      BY <1>0, <2>3, <2>9, Zenon DEF Types
    <3>2. held' \subseteq Blocks
      BY <1>0, <2>3, <2>9, Zenon DEF Types
    <3>3. pc' \in [Threads -> PCs] /\ job' \in [Threads -> [p : Nat, s : Nat]]
      <4>1. NoBlock \in [p : Nat, s : Nat] /\ "idle" \in PCs
        BY Zenon DEF NoBlock, PCs
      <4> QED BY <1>0, <2>3, <4>1, Zenon DEF Types
    <3>4. amtx' \in [Threads -> Threads \cup {None}] /\ writer' \in Threads \cup {None}
      BY <1>0, <1>6, <2>3, Zenon DEF Types
    <3>5. fatal' \in BOOLEAN
      BY <1>0, <2>3, Zenon DEF Types
    <3> QED BY <1>0, <1>6, <1>7, <1>10, <3>1, <3>2, <3>3, <3>4, <3>5, Zenon DEF Types
  <2>15. \A m \in Items' : m \in J
    <3>0. \A m : m \in J <=> \/ m \in H /\ m \notin L /\ m # i /\ m \notin M
                             \/ m \in Listed("arena", t, r.free) \/ m = j
      BY <2>1, Zenon
    <3> HIDE DEF J
    <3> SUFFICES ASSUME NEW m \in Items' PROVE m \in J
      BY Zenon
    <3>1. CASE \E b \in held' : m = <<"held", None, b>>
      BY <1>8, <2>3, <3>0, <3>1, ItemCases, Zenon DEF Listed
    <3>2. CASE \E b \in free' : m = <<"global", None, b>>
      BY <1>9, <3>0, <3>2, Zenon DEF Listed
    <3>3. CASE \E u \in Threads : \E b \in Own(u)' : m = <<"arena", u, b>>
      <4>1. PICK u \in Threads : \E b \in Own(u)' : m = <<"arena", u, b>>
        BY <3>3, Zenon
      <4>2. PICK b \in Own(u)' : m = <<"arena", u, b>>
        BY <4>1, Zenon
      <4>3. CASE u = t
        BY <2>13, <3>0, <4>2, <4>3, Zenon DEF Listed
      <4>4. CASE u # t
        <5>1. m \in Items
          BY <2>13, <4>2, <4>4, ItemCases, Zenon
        <5>2. m \in H
          BY <1>8, <4>2, <5>1, Zenon
        <5> QED BY <3>0, <4>2, <4>4, <5>2, Zenon DEF Listed
      <4> QED BY <4>3, <4>4, Zenon
    <3>4. CASE \E u \in Threads : pc'[u] = "free" /\ m = <<"back", u, job'[u]>>
      <4>1. \A u \in Threads : pc'[u] = "free" => u # t /\ pc[u] = "free" /\ job'[u] = job[u]
        BY <1>0, <2>3, Zenon DEF Types
      <4> QED BY <1>8, <3>0, <3>4, <4>1, ItemCases, Zenon DEF Listed
    <3> QED BY <3>1, <3>2, <3>3, <3>4, ItemCasesNext, Zenon
  <2>16. Placed'
    <3>4. Within(J, upstream')
      BY <1>7, <2>5, <2>12, Zenon
    <3>5. \A u \in Threads : Tight(arenas'[u])
      BY <1>0, <2>3, <2>8, Zenon DEF Types, Placed
    <3> HIDE DEF J
    <3> QED BY <1>7, <2>12, <2>15, <3>4, <3>5, PlacedNext, Zenon
  <2> QED BY <2>13, <2>14, <2>16, Zenon DEF IInv
<1>12. CASE ~ is_valid(g.blk)
  <2>1. K = H
    <3>1. g.blk = NoBlock
      BY <1>7, <1>12, Zenon DEF is_valid, Blocks
    <3> QED BY <3>1, Zenon DEF Handed, H
  <2>2. /\ arenas' = arenas /\ held' = held /\ job' = job /\ writer' = writer
        /\ fatal' = (pc[t] = "expandAgain") /\ pc' = [pc EXCEPT ![t] = "defragment"]
    BY <1>5, <1>12, Zenon
  <2>3. /\ pc'[t] = "defragment" /\ amtx'[t] = None
        /\ \A v \in Threads : v # t => pc'[v] = pc[v] /\ amtx'[v] = amtx[v] /\ amtx[v] # t
    <3>1. \A v \in Threads : v # t => amtx[v] # t
      BY <1>0, <1>6, Zenon DEF Locked, OwnLocked
    <3> QED BY <1>0, <1>6, <2>2, <3>1, Zenon DEF Types
  <2>4. Types'
    <3>1. pc' \in [Threads -> PCs] /\ amtx' \in [Threads -> Threads \cup {None}]
      BY <1>0, <1>6, <2>2, Zenon DEF Types, PCs
    <3>2. fatal' \in BOOLEAN
      BY <2>2, Zenon
    <3> QED BY <1>0, <1>6, <1>7, <1>10, <2>2, <3>1, <3>2, Zenon DEF Types
  <2>5. Locked'
    <3>1. \A v \in Threads : at'[v] = at[v] /\ at[v] \in Threads
      BY <1>0, <1>6, Zenon DEF Types
    <3>2. at' = at /\ pc'[t] # "give" /\ (pc'[t] \in OwnLocked <=> amtx'[t] = t)
      BY <1>6, <2>3, ArenaAssumption, Zenon DEF OwnLocked
    <3> QED BY <1>0, <1>6, <2>3, <3>1, <3>2, LockedNext, Zenon
  <2>6. Writes'
    <3>1. writer = t => fatal'
      BY <1>0, <1>6, <2>2, Zenon DEF Writes
    <3> QED BY <1>0, <1>6, <2>2, <2>3, <3>1, Zenon DEF Writes
  <2>7. Jobs' /\ ExitReturns'
    <3>1. ExitReturns'
      BY <1>0, <1>6, <2>2, <2>3, Zenon DEF ExitReturns, Types
    <3>2. Jobs'
      BY <1>0, <1>6, <2>2, <2>3, Zenon DEF Jobs
    <3> QED BY <3>1, <3>2, Zenon
  <2>8. \A v \in Threads : Own(v)' = Own(v)
    <3>1. Own(t)' = Own(t)
      BY <1>4, <2>2, <2>3, ArenaAssumption, Zenon DEF Own
    <3>2. \A v \in Threads : v # t => Own(v)' = Own(v)
      BY <1>6, <2>2, <2>3, OthersOwn, Zenon
    <3> QED BY <3>1, <3>2, Zenon
  <2>9. \A v \in Threads : pc'[v] = "free" => pc[v] = "free"
    BY <2>3, Zenon
  <2>10. \A m \in Items' : m \in H
    <3> SUFFICES ASSUME NEW m \in Items' PROVE m \in H
      BY Zenon
    <3>1. CASE \E b \in free' : m = <<"global", None, b>>
      BY <1>9, <3>1, Zenon
    <3>2. CASE \E b \in held' : m = <<"held", None, b>>
      <4>1. m \in Items
        BY <2>2, <3>2, ItemCases, Zenon
      <4> QED BY <1>8, <3>2, <4>1, Zenon
    <3>3. CASE \E u \in Threads : \E b \in Own(u)' : m = <<"arena", u, b>>
      <4>1. m \in Items
        BY <2>8, <3>3, ItemCases, Zenon
      <4> QED BY <1>8, <3>3, <4>1, Zenon
    <3>4. CASE \E u \in Threads : pc'[u] = "free" /\ m = <<"back", u, job'[u]>>
      <4>1. m \in Items
        BY <2>2, <2>9, <3>4, ItemCases, Zenon
      <4> QED BY <1>8, <3>4, <4>1, Zenon
    <3> QED BY <3>1, <3>2, <3>3, <3>4, ItemCasesNext, Zenon
  <2>11. Placed'
    BY <1>0, <1>7, <2>1, <2>2, <2>10, PlacedNext, Zenon DEF Placed
  <2> QED BY <2>4, <2>5, <2>6, <2>7, <2>11, Zenon DEF IInv
<1> QED BY <1>11, <1>12, Zenon
-----------------------------------------------------------------------------
(* Every step of every thread keeps the invariant. *)
LEMMA ArenaStep == IInv /\ [Next]_vars => IInv'
<1> SUFFICES ASSUME IInv, [Next]_vars PROVE IInv'
  BY Zenon
<1>1. CASE UNCHANGED vars
  <2> USE <1>1 DEF vars, memory, table, cleaning, locks
  <2>0. Types /\ Locked /\ Writes /\ Jobs /\ Placed /\ ExitReturns
    BY Zenon DEF IInv
  <2>1. Types' /\ Locked' /\ Writes' /\ Jobs' /\ ExitReturns'
    <3>1. Types'
      BY <2>0, Zenon DEF Types
    <3>2. Locked' /\ ExitReturns'
      BY <2>0, Zenon DEF Locked, ExitReturns
    <3>3. Writes'
      BY <2>0, Zenon DEF Writes
    <3>4. Jobs'
      BY <2>0, Zenon DEF Jobs
    <3> QED BY <3>1, <3>2, <3>3, <3>4, Zenon
  <2>2. Placed'
    <3>1. \A u \in Threads : Own(u)' = Own(u)
      BY Zenon DEF Own
    <3>2. \A u \in Threads : Tight(arenas'[u])
      BY <2>0, Zenon DEF Placed
    <3> QED BY <2>0, <3>1, <3>2, Kept, Zenon
  <2> QED BY <2>1, <2>2, Zenon DEF IInv
<1>2. CASE ~ fatal /\ \E t \in Threads : Step(t)
  <2>1. PICK t \in Threads : Step(t)
    BY <1>2, Zenon
  <2>2. ~ fatal
    BY <1>2, Zenon
  <2> QED BY <2>1, <2>2, AllocateStep, GetBlockStep, ExpandStep, DefragmentStep, CleanStep,
             GiveStep, ClearStep, DoDeallocateStep, DeallocateStep, ShrinkStep, EraseStep,
             ExitStep, StartStep, Zenon DEF Step
<1> QED BY <1>1, <1>2, Zenon DEF Next, Aborted

(* The invariant gives what the resource promises: items without a common     *)
(* byte are apart, and what a caller holds is no larger than its extent.     *)
LEMMA ArenaPromise == IInv => ArenaSound
<1> SUFFICES ASSUME IInv PROVE ArenaSound
  BY Zenon
<1>1. Packed(Items) /\ Tight(free) /\ (\A u \in Threads : Tight(arenas[u])) /\ ExitReturns
  BY Zenon DEF IInv, Placed
<1>2. Coalesced
  BY <1>1, Zenon DEF Coalesced, Tight
<1>3. \A m \in Items : /\ m[3].p = Extent(m).p /\ m[3].p \in Nat /\ m[3].s \in Nat
                       /\ Extent(m) \in Blocks /\ m[3].s <= Extent(m).s
  <2> SUFFICES ASSUME NEW m \in Items
               PROVE  /\ m[3].p = Extent(m).p /\ m[3].p \in Nat /\ m[3].s \in Nat
                      /\ Extent(m) \in Blocks /\ m[3].s <= Extent(m).s
    BY Zenon
  <2>1. Extent(m) \in Blocks /\ m[3].p = Extent(m).p /\ Extent(m).s = Rounded(m)
    BY <1>1, Zenon DEF Packed, Extent
  <2>2. CASE m[1] = "held"
    <3>1. m[3] \in Blocks
      <4>1. held \subseteq Blocks
        BY Zenon DEF IInv, Types
      <4> QED BY <2>2, <4>1, ItemCases, SMTT(30)
    <3>2. Rounded(m) = align_up(m[3].s)
      BY <2>2, Zenon DEF Rounded
    <3> QED BY <2>1, <3>1, <3>2, AlignUp, Zenon DEF Blocks
  <2>3. CASE m[1] # "held"
    BY <2>1, <2>3, SMTT(30) DEF Rounded, Blocks
  <2> QED BY <2>2, <2>3, Zenon
<1>4. Disjoint
  <2> SUFFICES ASSUME NEW i \in Items, NEW j \in Items, i # j PROVE Apart(i[3], j[3])
    BY Zenon DEF Disjoint
  <2>1. Apart(Extent(i), Extent(j))
    BY <1>1, ApartBytes, Zenon DEF Packed
  <2> QED BY <1>3, <2>1, SMTT(30) DEF Apart, Blocks
<1> QED BY <1>1, <1>2, <1>4, Zenon DEF ArenaSound

(* Whatever the threads, the requests and the size of the pool, arena_resource *)
(* gives no byte out twice, keeps every free list coalesced, and a thread that *)
(* made its arena leaves nothing in it.                                      *)
THEOREM ArenaIsSound == Spec => []ArenaSound
<1>1. Init => IInv
  BY ArenaInit, Zenon
<1>2. IInv /\ [Next]_vars => IInv'
  BY ArenaStep, Zenon
<1>3. IInv => ArenaSound
  BY ArenaPromise, Zenon
<1> QED BY <1>1, <1>2, <1>3, PTL DEF Spec
=============================================================================

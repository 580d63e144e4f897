---------------------------- MODULE BlockManager ----------------------------
(***************************************************************************)
(* block_manager: the memory blocks of a process, found by any address     *)
(* inside them.  The map is keyed by the address after a block's last      *)
(* byte, so that upper_bound of an address is the only block that can      *)
(* contain it, as long as no two blocks overlap.                           *)
(***************************************************************************)
EXTENDS Naturals, FiniteSets, FiniteSetsExt, Functions, TLC

CONSTANTS Space,        \* addresses; 0 is nullptr
          Overlapping   \* TRUE: blocks that overlap others are offered too

VARIABLES m_block_map,  \* key |-> block
          added,        \* history: blocks added and not dropped
          checked       \* FALSE: the DCHECK of add_block has failed

vars == <<m_block_map, added, checked>>

Blocks == {b \in [data : Space \ {0}, bytes : Space \ {0}] : b.data + b.bytes \in Space}
none == [data |-> 0, bytes |-> 0]

(* memory_block::contains *)
contains(block, ptr) == block.data # 0 /\ block.data <= ptr /\ ptr < block.data + block.bytes

(* Mutant of find_entry: lower_bound, the first key not below the address. *)
find_entryLower(map, ptr) ==
  LET keys == {k \in DOMAIN map : k >= ptr} IN IF keys = {} THEN 0 ELSE Min(keys)

(* upper_bound: the first key above the address; 0 is end(). *)
find_entry(map, ptr) ==
  LET keys == {k \in DOMAIN map : k > ptr} IN IF keys = {} THEN 0 ELSE Min(keys)

find_block(map, ptr) ==
  LET k == find_entry(map, ptr) IN IF k # 0 /\ contains(map[k], ptr) THEN map[k] ELSE none

owns(map, ptr) == find_block(map, ptr) # none

Init == m_block_map = <<>> /\ added = {} /\ checked = TRUE

Disjoint(b, c) == b.data + b.bytes <= c.data \/ c.data + c.bytes <= b.data

(* add_block; a block at an equal key is replaced. *)
add_block(b) ==
  /\ Overlapping \/ \A c \in added : Disjoint(b, c)
  /\ LET key == b.data + b.bytes
     IN IF owns(m_block_map, b.data) \/ owns(m_block_map, key - 1)
        THEN checked' = FALSE /\ UNCHANGED <<m_block_map, added>>
        ELSE /\ m_block_map' = (key :> b) @@ m_block_map
             /\ added' = added \cup {b}
             /\ UNCHANGED checked

(* drop_block: the block that contains the address, if there is one. *)
drop_block(ptr) ==
  /\ owns(m_block_map, ptr)
  /\ LET k == find_entry(m_block_map, ptr)
     IN /\ m_block_map' = Restrict(m_block_map, DOMAIN m_block_map \ {k})
        /\ added' = added \ {m_block_map[k]}
  /\ UNCHANGED checked

clear == m_block_map' = <<>> /\ added' = {} /\ UNCHANGED checked

Next ==
  /\ checked
  /\ (\E b \in Blocks : add_block(b)) \/ (\E ptr \in Space : drop_block(ptr)) \/ clear

Spec == Init /\ [][Next]_vars
-----------------------------------------------------------------------------
(* find_block and drop_block, after any additions and drops: every address   *)
(* leads to the block that holds it, also at the first and last byte and     *)
(* between adjacent blocks, and every other address to none.                 *)
FindsItsBlock ==
  \A ptr \in Space :
    LET holding == {b \in added : contains(b, ptr)}
    IN IF holding = {} THEN find_block(m_block_map, ptr) = none
       ELSE find_block(m_block_map, ptr) \in holding

(* "block manager already owns a block with an overlapping address": no      *)
(* block that overlaps another is added.                                     *)
OverlapIsCaught == \A b, c \in added : b # c => Disjoint(b, c)
=============================================================================

------------------------------ MODULE Buffers ------------------------------
(***************************************************************************)
(* Who owns memory: a buffer owns one allocation of the memory resource    *)
(* its resource_view keeps alive; a blob shares a BlobStorage, which owns  *)
(* a buffer.  The program moves, copies, assigns and drops them in any     *)
(* order.  An address is reused as soon as it is free, so that what points *)
(* to released memory is seen to.                                          *)
(***************************************************************************)
EXTENDS Naturals, FiniteSets, FiniteSetsExt, Functions, TLC

CONSTANTS
  Addresses,    \* memory, one address per allocation; not 0, which is nullptr
  Sizes,        \* what a program asks for
  Resources,    \* memory resources; not 0
  Kind,         \* memory_kind_type of every resource
  Smart,        \* resources behind a shared_ptr; the others outlive everything
  Names,        \* variables of the type buffer
  Blobs,        \* variables of the type blob, pairs
  AssignOver    \* TRUE: a buffer that holds memory may be assigned to

VARIABLES
  heap,         \* live allocations: address |-> resource, bytes and content
  creators,     \* resources whose creator still holds them
  buffers,      \* every buffer variable: view, bytes and data
  storages,     \* BlobStorages in use, named by an address: the buffers they own
  blobs,        \* m_storage of every blob variable, 0 is nullptr
  fatal

memoryVars == <<heap, creators, buffers, storages, blobs>>

NoBuffer == [view |-> 0, bytes |-> 0, data |-> 0]

MemoryInit ==
  /\ heap = <<>> /\ creators = Resources
  /\ buffers = [v \in Names |-> NoBuffer]
  /\ storages = <<>> /\ blobs = [b \in Blobs |-> 0]
  /\ fatal = FALSE
-----------------------------------------------------------------------------
Views == {buffers[v].view : v \in Names} \cup {storages[s].view : s \in DOMAIN storages}

(* A resource_view to a smart pointer, resource_view_smart_storage, keeps    *)
(* its resource alive.                                                       *)
Alive(r) == r \in creators \cup Views

Free == Addresses \ DOMAIN heap

(* buffer::buffer(bytes, view): m_view.allocate. *)
NewAllocation(r, bytes, content) ==
  LET a == Min(Free)
  IN [buffer |-> [view |-> r, bytes |-> bytes, data |-> a],
      heap |-> heap @@ (a :> [resource |-> r, bytes |-> bytes, content |-> content])]

(* Mutant of Released: bytes is reset, the memory is not given back. *)
ReleasedKept(h, buffer) == h

(* buffer::release: m_view.deallocate of what is not nullptr. *)
Released(h, buffer) ==
  IF buffer.data = 0 THEN h ELSE Restrict(h, DOMAIN h \ {buffer.data})

(* The buffer that is left by a move: all three members are given away. *)
Moved(buffer) == NoBuffer

Construct(v, bytes, r) ==
  /\ buffers[v].data = 0 /\ Alive(r) /\ Free # {}
  /\ \E new \in {NewAllocation(r, bytes, 0)} :
       heap' = new.heap /\ buffers' = [buffers EXCEPT ![v] = new.buffer]
  /\ UNCHANGED <<creators, storages, blobs, fatal>>

(* buffer::operator=(buffer&&), and the move constructor if v is new: what   *)
(* v holds is overwritten, not released.                                     *)
MoveAssign(v, w) ==
  /\ v # w /\ buffers[w].view # 0 /\ (AssignOver \/ buffers[v].data = 0)
  /\ buffers' = [buffers EXCEPT ![v] = buffers[w], ![w] = Moved(buffers[w])]
  /\ UNCHANGED <<heap, creators, storages, blobs, fatal>>

(* buffer::release, or the destructor if the view goes too. *)
Release(v, destroy) ==
  /\ buffers[v].view # 0
  /\ heap' = Released(heap, buffers[v])
  /\ buffers' = [buffers EXCEPT ![v] = IF destroy THEN NoBuffer
                                       ELSE [@ EXCEPT !.data = 0, !.bytes = 0]]
  /\ UNCHANGED <<creators, storages, blobs, fatal>>

DropResource(r) ==
  /\ r \in creators \cap Smart
  /\ creators' = creators \ {r}
  /\ UNCHANGED <<heap, buffers, storages, blobs, fatal>>
-----------------------------------------------------------------------------
(* Blobs take new values: a BlobStorage that no blob shares any more is      *)
(* destroyed, and with it the buffer it owns.  kept is the memory before     *)
(* that, owned are the storages.                                             *)
Share(kept, owned, new) ==
  LET unused == DOMAIN owned \ {new[b] : b \in Blobs}
  IN /\ blobs' = new
     /\ storages' = Restrict(owned, DOMAIN owned \ unused)
     /\ heap' = Restrict(kept, DOMAIN kept \ {owned[s].data : s \in unused})

(* blob(buffer&&) into the variable b. *)
MakeBlob(b, v) ==
  /\ buffers[v].data # 0
  /\ Share(heap, storages @@ (buffers[v].data :> buffers[v]), [blobs EXCEPT ![b] = buffers[v].data])
  /\ buffers' = [buffers EXCEPT ![v] = Moved(buffers[v])]
  /\ UNCHANGED <<creators, fatal>>

(* The defaulted copy and move assignments, and the destructor. *)
CopyBlob(b, c) ==
  /\ blobs[b] # blobs[c]
  /\ Share(heap, storages, [blobs EXCEPT ![b] = blobs[c]])
  /\ UNCHANGED <<creators, buffers, fatal>>

MoveBlob(b, c) ==
  /\ b # c /\ blobs[c] # 0
  /\ Share(heap, storages, [blobs EXCEPT ![b] = blobs[c], ![c] = 0])
  /\ UNCHANGED <<creators, buffers, fatal>>

DropBlob(b) ==
  /\ blobs[b] # 0
  /\ Share(heap, storages, [blobs EXCEPT ![b] = 0])
  /\ UNCHANGED <<creators, buffers, fatal>>

(* b = c.allocate(bytes): a buffer of the same resource; of a c that is not  *)
(* empty.                                                                    *)
AllocateLike(b, c, bytes) ==
  /\ blobs[c] # 0 /\ Free # {}
  /\ \E new \in {NewAllocation(storages[blobs[c]].view, bytes, 0)} :
       Share(new.heap, storages @@ (new.buffer.data :> new.buffer), [blobs EXCEPT ![b] = new.buffer.data])
  /\ UNCHANGED <<creators, buffers, fatal>>

(* blob::data, bytes and kind; const_block(blob), and its operator bool.     *)
BlockOf(s) == [data |-> storages[s].data, bytes |-> storages[s].bytes, kind |-> Kind[storages[s].view]]
Valid(block) == block.data # 0 /\ block.bytes # 0 /\ block.kind # "none"

(* buffer_utils::copy: host to host; else it throws.                         *)
Copy(b, c) ==
  /\ blobs[b] # 0 /\ blobs[c] # 0 /\ b # c
  /\ LET dst == BlockOf(blobs[b])
         src == BlockOf(blobs[c])
     IN /\ src.bytes <= dst.bytes /\ src.kind = "host" /\ dst.kind = "host"
        /\ heap' = [heap EXCEPT ![dst.data].content = heap[src.data].content]
  /\ UNCHANGED <<creators, buffers, storages, blobs, fatal>>

MemoryNext ==
  \/ \E b \in Blobs, v \in Names : MakeBlob(b, v)
  \/ \E b, c \in Blobs : CopyBlob(b, c) \/ MoveBlob(b, c) \/ Copy(b, c) \/ \E n \in Sizes : AllocateLike(b, c, n)
  \/ \E b \in Blobs : DropBlob(b)
  \/ \E v \in Names, n \in Sizes, r \in Resources : Construct(v, n, r)
  \/ \E v, w \in Names : MoveAssign(v, w)
  \/ \E v \in Names, destroy \in BOOLEAN : Release(v, destroy)
  \/ \E r \in Resources : DropResource(r)

MemorySpec == MemoryInit /\ [][MemoryNext]_<<memoryVars, fatal>>
-----------------------------------------------------------------------------
(* buffer and BlobStorage, "The held memory will be released when the last   *)
(* blob ... referencing the memory block have been released": every live     *)
(* allocation has one owner, which knows its size and the resource it came   *)
(* from; no owner's memory is released under it, and no resource is          *)
(* destroyed before the memory it gave out is back.                          *)
MemoryOwned ==
  LET owners == {<<"buffer", v>> : v \in {u \in Names : buffers[u].data # 0}}
                  \cup {<<"storage", s>> : s \in DOMAIN storages}
      held(o) == IF o[1] = "buffer" THEN buffers[o[2]] ELSE storages[o[2]]
  IN /\ {held(o).data : o \in owners} = DOMAIN heap
     /\ Cardinality(owners) = Cardinality(DOMAIN heap)
     /\ \A o \in owners : heap[held(o).data].resource = held(o).view
                            /\ heap[held(o).data].bytes = held(o).bytes
     /\ \A a \in DOMAIN heap : Alive(heap[a].resource)
     /\ DOMAIN storages = {blobs[b] : b \in Blobs} \ {0}
=============================================================================

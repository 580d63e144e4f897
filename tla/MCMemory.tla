------------------------------ MODULE MCMemory ------------------------------
(***************************************************************************)
(* The memory components, one of them per behaviour: the arena resource    *)
(* with two threads, the encodings of objects, the ownership of buffers    *)
(* and blobs, and the block manager.  live names the one that runs; the    *)
(* others stay in an initial state.  The arena's memory is counted in      *)
(* small units so that splitting, growth, fragmentation and exhaustion all *)
(* happen.                                                                 *)
(***************************************************************************)
EXTENDS Arena, TLC

CONSTANTS BufferNames, BlobNames, EncodedTypes, Kinds, EncodedBlobs

VARIABLES
  live,
  heap, creators, buffers, storages, blobs, enc_fatal, TypeOf, object, encoding, origin,
  b_heap, b_creators, b_buffers, b_storages, b_blobs, b_fatal,
  m_block_map, added, checked

E == INSTANCE Codable WITH fatal <- enc_fatal, Addresses <- 1 .. 3, Sizes <- {1},
       Resources <- {1}, Smart <- {}, Names <- {"v"}, AssignOver <- FALSE, Kind <- Kinds,
       Blobs <- EncodedBlobs, Encodings <- {"e", "f"}, Objects <- {"m", "o"},
       Types <- EncodedTypes, Values <- {1, 2}, Host <- 1, MaxObjects <- 2
B == INSTANCE Buffers WITH heap <- b_heap, creators <- b_creators, buffers <- b_buffers,
       storages <- b_storages, blobs <- b_blobs, fatal <- b_fatal,
       Addresses <- 1 .. 3, Sizes <- {1, 2}, Resources <- {1, 2}, Smart <- {2},
       Names <- BufferNames, Blobs <- BlobNames, AssignOver <- FALSE, Kind <- Kinds
K == INSTANCE BlockManager WITH Space <- 0 .. 8, Overlapping <- FALSE

(* The threads of the arena are interchangeable. *)
Symmetry == Permutations(Threads)

MCKinds == 1 :> "host" @@ 2 :> "host"
MCTypes == {"m" :> "message" @@ "o" :> t : t \in {"fundamental", "string", "tensor"}}
MCBlobs == {"e", "f"} \X (0 .. 2)

encVars == <<heap, creators, buffers, storages, blobs, enc_fatal, TypeOf, object, encoding, origin>>
bufVars == <<b_heap, b_creators, b_buffers, b_storages, b_blobs, b_fatal>>
blockVars == <<m_block_map, added, checked>>

MemInit ==
  /\ live \in {"arena", "codable", "buffers", "blocks"}
  /\ live # "codable" => object = [o \in {"m", "o"} |-> 1] /\ TypeOf = [o \in {"m", "o"} |-> "message"]
  /\ Init /\ E!MemoryInit /\ B!MemoryInit /\ K!Init
  /\ live # "arena" => free = {[p |-> 1, s |-> initial_size]}
  /\ live = "codable" => E!Init
  /\ encoding = [e \in {"e", "f"} |-> E!Empty] /\ origin = [e \in {"e", "f"} |-> <<>>]

MemNext ==
  /\ UNCHANGED live
  /\ \/ live = "arena" /\ Next /\ UNCHANGED <<encVars, bufVars, blockVars>>
     \/ live = "codable" /\ E!Next /\ UNCHANGED <<vars, bufVars, blockVars>>
     \/ live = "buffers" /\ B!MemoryNext /\ UNCHANGED <<vars, encVars, blockVars>>
     \/ live = "blocks" /\ K!Next /\ UNCHANGED <<vars, encVars, bufVars>>

MemSpec == MemInit /\ [][MemNext]_<<live, vars, encVars, bufVars, blockVars>>
-----------------------------------------------------------------------------
(* buffer, BlobStorage and EncodedObject: memory has one owner at a time and *)
(* goes back to its resource with it; an encoding keeps the buffers it       *)
(* refers to, and its objects decode to what they were.                      *)
EncodingsSound ==
  /\ B!MemoryOwned
  /\ E!MemoryOwned /\ E!BuffersKept /\ E!DecodesToOrigin

(* block_manager::find_block, see BlockManager.                              *)
FindsItsBlock == K!FindsItsBlock
=============================================================================

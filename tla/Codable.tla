------------------------------ MODULE Codable ------------------------------
(***************************************************************************)
(* EncodedObject: a sequence of descriptors and an index of the objects    *)
(* they encode.  A value is encoded inline (eager), by a buffer that the   *)
(* encoding owns through m_buffers, or by a reference to the memory of the *)
(* object.  Objects change and go, encodings are extended, copied and      *)
(* destroyed, and the program uses buffers of its own.                     *)
(* EncodingOptions::force_copy cannot be set, so it is false.              *)
(***************************************************************************)
EXTENDS Buffers, Integers, Sequences, SequencesExt

CONSTANTS
  Encodings,    \* variables of the type EncodedObject
  Objects,      \* what is encoded
  Types,        \* choices of the objects' types: fundamental, string, message, tensor (the user's)
  Values,       \* of objects; a value is as many bytes as it says
  Host,         \* resource of host_resource_view()
  MaxObjects    \* bound on the objects of an encoding

VARIABLES
  TypeOf,       \* types of the objects
  object,       \* every object's value, -1 when it is destroyed
  encoding,     \* m_proto and m_context_acquired; m_buffers is in blobs
  origin        \* history: what every object of an encoding was, if encode returned

vars == <<memoryVars, fatal, TypeOf, object, encoding, origin>>

Empty == [objects |-> <<>>, descriptors |-> <<>>, context |-> FALSE]

Init ==
  /\ MemoryInit
  /\ TypeOf \in Types /\ object \in [Objects -> Values]
  /\ encoding = [e \in Encodings |-> Empty]
  /\ origin = [e \in Encodings |-> <<>>]
-----------------------------------------------------------------------------
eager(value)     == [is |-> "eager", value |-> value]
meta(value)      == [is |-> "meta", value |-> value]

(* The two switches of encoded_object.cpp; "none" is fatal and not used here. *)
encode_memory_type(kind) ==
  CASE kind = "host" -> "Host" [] kind = "pinned" -> "Pinned"
    [] kind = "device" -> "Device" [] kind = "managed" -> "Managed"
decode_memory_type(kind) ==
  CASE kind = "Host" -> "host" [] kind = "Pinned" -> "pinned"
    [] kind = "Device" -> "device" [] kind = "Managed" -> "managed"

encode_descriptor(block) == [block EXCEPT !.kind = encode_memory_type(@)]
decode_descriptor(block) == [block EXCEPT !.kind = decode_memory_type(@)]

remote(o, block) == [is |-> "remote", of |-> o, block |-> encode_descriptor(block)]

descriptor_count(enc) == Len(enc.descriptors)

(* Mutant of acquire_encoding_context: the index of the object, not of its   *)
(* first descriptor.                                                         *)
acquire_encoding_contextCounts(enc, type) ==
  [enc EXCEPT !.context = TRUE,
              !.objects = Append(@, [type |-> type, desc_id |-> Len(@)])]

(* ContextGuard::ContextGuard and add_type_index. *)
acquire_encoding_context(enc, type) ==
  [enc EXCEPT !.context = TRUE,
              !.objects = Append(@, [type |-> type, desc_id |-> descriptor_count(enc)])]

add(enc, desc) == [enc EXCEPT !.descriptors = Append(@, desc)]
guard_released(enc) == [enc EXCEPT !.context = FALSE]

(* codable_protocol::serialize of the types without a buffer. *)
serialize(enc, o) ==
  LET value == object[o]
      block == [data |-> 0, bytes |-> value, kind |-> "host"]
  IN CASE TypeOf[o] = "fundamental" -> add(enc, eager(value))
       [] TypeOf[o] = "string" -> add(enc, remote(o, block))
       [] TypeOf[o] = "tensor" -> add(add(enc, remote(o, block)), meta(value))

Returned(e, o) == origin' = [origin EXCEPT ![e] = Append(@, [of |-> o, value |-> object[o], ok |-> TRUE])]

(* encode(t, encoding) of these types: the guard, serialize, and the end of  *)
(* the guard.                                                                *)
Encode(e, o) ==
  /\ TypeOf[o] # "message" /\ object[o] # -1 /\ Len(encoding[e].objects) < MaxObjects
  /\ encoding' = [encoding EXCEPT ![e] =
                    guard_released(serialize(acquire_encoding_context(@, TypeOf[o]), o))]
  /\ Returned(e, o)
  /\ UNCHANGED <<memoryVars, fatal, object>>

(* Mutant of EncodeMessage: the blob is not kept in m_buffers. *)
EncodeMessageUnowned(e, o) ==
  /\ TypeOf[o] = "message" /\ object[o] > 0 /\ Len(encoding[e].objects) < MaxObjects
  /\ Alive(Host) /\ Free # {}
  /\ \E new \in {NewAllocation(Host, object[o], object[o])} :
       LET block == [data |-> new.buffer.data, bytes |-> new.buffer.bytes, kind |-> Kind[Host]]
       IN encoding' = [encoding EXCEPT ![e] = guard_released(
            add(acquire_encoding_context(@, "message"), remote(o, block)))]
  /\ Returned(e, o)
  /\ UNCHANGED <<memoryVars, fatal, object>>

(* encode of a protobuf message, with add_host_buffer and add_buffer: a new  *)
(* buffer that m_buffers owns under the index of its descriptor.  The block  *)
(* of a blob of no bytes fails a CHECK.                                      *)
EncodeMessage(e, o) ==
  /\ TypeOf[o] = "message" /\ object[o] # -1 /\ Len(encoding[e].objects) < MaxObjects
  /\ Alive(Host) /\ Free # {}
  /\ \E new \in {NewAllocation(Host, object[o], object[o])} :
       LET block == [data |-> new.buffer.data, bytes |-> new.buffer.bytes, kind |-> Kind[Host]]
           b == <<e, descriptor_count(encoding[e])>>
       IN IF Valid(block)
          THEN /\ encoding' = [encoding EXCEPT ![e] = guard_released(
                    add(acquire_encoding_context(@, "message"), remote(o, block)))]
               /\ Share(new.heap, storages @@ (block.data :> new.buffer), [blobs EXCEPT ![b] = block.data])
               /\ Returned(e, o)
               /\ UNCHANGED fatal
          ELSE fatal' = TRUE /\ UNCHANGED <<heap, storages, blobs, encoding, origin>>
  /\ UNCHANGED <<creators, buffers, object>>

(* encode of a message for which there is no memory, or no thread local      *)
(* MemoryResources: it throws, the guard ends, and the object has no         *)
(* descriptor.                                                               *)
EncodeThrows(e, o) ==
  /\ TypeOf[o] = "message" /\ object[o] # -1 /\ Len(encoding[e].objects) < MaxObjects
  /\ encoding' = [encoding EXCEPT ![e] = guard_released(acquire_encoding_context(@, "message"))]
  /\ origin' = [origin EXCEPT ![e] = Append(@, [of |-> o, value |-> 0, ok |-> FALSE])]
  /\ UNCHANGED <<memoryVars, fatal, object>>
-----------------------------------------------------------------------------
MBuffers(e) == {b \in Blobs : b[1] = e}

(* The defaulted copy and destructor of EncodedObject. *)
CopyEncoding(e, f) ==
  /\ e # f /\ encoding[e] # encoding[f]
  /\ encoding' = [encoding EXCEPT ![e] = encoding[f]]
  /\ origin' = [origin EXCEPT ![e] = origin[f]]
  /\ Share(heap, storages, [b \in Blobs |-> IF b \in MBuffers(e) THEN blobs[<<f, b[2]>>] ELSE blobs[b]])
  /\ UNCHANGED <<creators, buffers, fatal, object>>

DestroyEncoding(e) ==
  /\ encoding[e] # Empty
  /\ encoding' = [encoding EXCEPT ![e] = Empty]
  /\ origin' = [origin EXCEPT ![e] = <<>>]
  /\ Share(heap, storages, [b \in Blobs |-> IF b \in MBuffers(e) THEN 0 ELSE blobs[b]])
  /\ UNCHANGED <<creators, buffers, fatal, object>>

(* The program changes or destroys an object. *)
SetObject(o, value) ==
  /\ object[o] \notin {-1, value}
  /\ object' = [object EXCEPT ![o] = value]
  /\ UNCHANGED <<memoryVars, fatal, encoding, origin>>

Next ==
  /\ ~fatal /\ UNCHANGED TypeOf
  /\ \/ \E e \in Encodings, o \in Objects : Encode(e, o) \/ EncodeMessage(e, o) \/ EncodeThrows(e, o)
     \/ \E e, f \in Encodings : CopyEncoding(e, f)
     \/ \E e \in Encodings : DestroyEncoding(e)
     \/ \E o \in Objects, value \in Values \cup {-1} : SetObject(o, value)
     \/ /\ \E v \in Names : (\E n \in Sizes : Construct(v, n, Host)) \/ Release(v, TRUE)
        /\ UNCHANGED <<object, encoding, origin>>

Spec == Init /\ [][Next]_vars
-----------------------------------------------------------------------------
(* What is in the memory of a descriptor now; -2 is anything. *)
Read(desc) ==
  IF desc.block.data # 0
  THEN IF desc.block.data \in DOMAIN heap THEN heap[desc.block.data].content ELSE -2
  ELSE IF object[desc.of] = desc.block.bytes THEN object[desc.of] ELSE -2

start_idx_for_object(enc, i) == enc.objects[i].desc_id + 1

(* codable_protocol::deserialize; a descriptor that is not there decodes to  *)
(* nothing.                                                                  *)
decode(enc, i) ==
  LET idx == start_idx_for_object(enc, i)
      desc(k) == IF k \in DOMAIN enc.descriptors THEN enc.descriptors[k] ELSE [is |-> "none"]
  IN CASE enc.objects[i].type = "fundamental" ->
            IF desc(idx).is = "eager" THEN desc(idx).value ELSE -2
       [] enc.objects[i].type \in {"string", "message"} ->
            IF desc(idx).is = "remote" THEN Read(desc(idx)) ELSE -2
       [] enc.objects[i].type = "tensor" ->
            IF desc(idx).is = "remote" /\ desc(idx + 1).is = "meta"
                 /\ Read(desc(idx)) = desc(idx + 1).value THEN Read(desc(idx)) ELSE -2

(* "EncodedObject is a non-owning sequence of descriptors ... it may own     *)
(* memory regions": an object that was encoded decodes to what it was, after *)
(* whatever is done to other objects, encodings and memory, or to itself if  *)
(* it was copied; an object that is referred to must still be as it was.     *)
DecodesToOrigin ==
  \A e \in Encodings : \A i \in DOMAIN origin[e] :
    LET was == origin[e][i]
        copied == TypeOf[was.of] \in {"fundamental", "message"}
    IN was.ok /\ (copied \/ object[was.of] = was.value) => decode(encoding[e], i) = was.value

(* add_buffer with m_buffers, and ContextGuard: the memory of a descriptor   *)
(* is that of the blob the encoding keeps under its index, and no encoding   *)
(* context is left open.                                                     *)
BuffersKept ==
  \A e \in Encodings :
    /\ ~encoding[e].context
    /\ \A b \in MBuffers(e) :
         LET i == b[2] + 1
         IN IF i \in DOMAIN encoding[e].descriptors /\ encoding[e].descriptors[i].is = "remote"
                 /\ encoding[e].descriptors[i].block.data # 0
            THEN blobs[b] # 0 /\ BlockOf(blobs[b]) = decode_descriptor(encoding[e].descriptors[i].block)
            ELSE blobs[b] = 0

(* Every object of an encoding can be decoded: object_count counts "unique   *)
(* objects described by the encoded object".                                 *)
EveryObjectDecodes ==
  \A e \in Encodings : \A i \in DOMAIN encoding[e].objects :
    start_idx_for_object(encoding[e], i) \in DOMAIN encoding[e].descriptors

(* encode of a protobuf message whose fields all have their default values,  *)
(* of ByteSizeLong() 0, succeeds as that of an empty string does.            *)
EmptyEncodes == ~fatal
=============================================================================

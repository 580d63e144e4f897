------------------------------ MODULE PyHolder ------------------------------
(***************************************************************************)
(* The holders that let a Python object travel between threads without the *)
(* GIL (python/srf/_pysrf/src/utils.cpp, include/pysrf/utils.hpp): a       *)
(* PyObjectHolder shares a PyObjectWrapper, which owns one reference on    *)
(* the Python object.  There is one object; every wrapper and every local  *)
(* py::object owns a reference on it.                                      *)
(***************************************************************************)
EXTENDS Integers, FiniteSets, SequencesExt

CONSTANTS
    Holders,    \* variables of type PyObjectHolder
    Wrappers,   \* wrappers that may be allocated
    Threads     \* the threads that use them

None == "none"

VARIABLES
    wrapped,    \* per holder: m_wrapped, None when null, "dead" outside its lifetime
    object,     \* per wrapper: m_obj is set
    locals,     \* per thread: py::object variables it owns (at most one)
    refs,       \* the reference count of the Python object
    gil,        \* the thread that has the GIL, or None
    failed,     \* per thread: its last call threw ("threw"), or crashed ("null"), or "ok"
    racy        \* a reference was counted by a thread without the GIL

vars == <<wrapped, object, locals, refs, gil, failed, racy>>

Used(w) == \E h \in Holders : wrapped[h] = w
Free == {w \in Wrappers : ~Used(w)}
HasGil(t) == gil = t

Init ==
    /\ wrapped = [h \in Holders |-> "dead"] /\ object = [w \in Wrappers |-> FALSE]
    /\ locals = [t \in Threads |-> FALSE] /\ refs = 0 /\ gil = None
    /\ failed = [t \in Threads |-> "ok"] /\ racy = FALSE

Runs(t) == failed[t] # "null"
Ok(t) == failed' = [failed EXCEPT ![t] = "ok"]
Throws(t, how) == failed' = [failed EXCEPT ![t] = how]

(* gil_scoped_acquire, and its end; a thread that has a py::object keeps it. *)
TakeGil(t) == gil = None /\ Runs(t) /\ gil' = t /\ UNCHANGED <<wrapped, object, locals, refs, failed, racy>>
DropGil(t) ==
    /\ HasGil(t) /\ ~locals[t] /\ gil' = None
    /\ UNCHANGED <<wrapped, object, locals, refs, failed, racy>>

(* Python code of t makes a reference of its own. *)
MakeObject(t) ==
    /\ Runs(t) /\ HasGil(t) /\ ~locals[t]
    /\ locals' = [locals EXCEPT ![t] = TRUE] /\ refs' = refs + 1 /\ Ok(t)
    /\ UNCHANGED <<wrapped, object, gil, racy>>

(* PyObjectHolder(py::object&&): a new wrapper steals the reference. *)
Wrap(t, h) ==
    /\ Runs(t) /\ wrapped[h] = "dead" /\ locals[t] /\ Free # {}
    /\ \E w \in {CHOOSE x \in Free : TRUE} :
          wrapped' = [wrapped EXCEPT ![h] = w] /\ object' = [object EXCEPT ![w] = TRUE]
    /\ locals' = [locals EXCEPT ![t] = FALSE] /\ Ok(t)
    /\ UNCHANGED <<refs, gil, racy>>

(* Mutant of Release: the wrapper is destroyed without the GIL. *)
ReleaseBare(t, w) ==
    IF object[w] THEN /\ object' = [object EXCEPT ![w] = FALSE] /\ refs' = refs - 1
                      /\ racy' = (racy \/ ~HasGil(t))
    ELSE UNCHANGED <<object, refs, racy>>

(* ~PyObjectWrapper: with an object inside it takes the GIL, or has it.    *)
Release(t, w) ==
    IF object[w] THEN /\ gil \in {None, t}
                      /\ object' = [object EXCEPT ![w] = FALSE] /\ refs' = refs - 1 /\ UNCHANGED racy
    ELSE UNCHANGED <<object, refs, racy>>

LastOwner(h) == \A g \in Holders \ {h} : wrapped[g] # wrapped[h]
Owns(h) == wrapped[h] \in Wrappers

(* The holder h gives up its wrapper; the last owner destroys it. *)
Reset(t, h) == IF Owns(h) /\ LastOwner(h) THEN Release(t, wrapped[h]) ELSE UNCHANGED <<object, refs, racy>>

(* The defaulted copy constructor. *)
CopyConstruct(t, h, from) ==
    /\ Runs(t) /\ wrapped[h] = "dead" /\ wrapped[from] # "dead"
    /\ wrapped' = [wrapped EXCEPT ![h] = wrapped[from]] /\ Ok(t)
    /\ UNCHANGED <<object, locals, refs, gil, racy>>

(* PyObjectHolder(PyObjectHolder&&): the other one is left null. *)
MoveConstruct(t, h, from) ==
    /\ Runs(t) /\ wrapped[h] = "dead" /\ wrapped[from] # "dead"
    /\ wrapped' = [wrapped EXCEPT ![h] = wrapped[from], ![from] = None] /\ Ok(t)
    /\ UNCHANGED <<object, locals, refs, gil, racy>>

(* operator=(const PyObjectHolder&) *)
CopyAssign(t, h, from) ==
    /\ Runs(t) /\ h # from /\ wrapped[h] # "dead" /\ wrapped[from] # "dead"
    /\ IF wrapped[h] = wrapped[from] THEN UNCHANGED <<object, refs, racy>> ELSE Reset(t, h)
    /\ wrapped' = [wrapped EXCEPT ![h] = wrapped[from]] /\ Ok(t)
    /\ UNCHANGED <<locals, gil>>

(* operator=(PyObjectHolder&&): reset, then swap with the other one. *)
MoveAssign(t, h, from) ==
    /\ Runs(t) /\ h # from /\ wrapped[h] # "dead" /\ wrapped[from] # "dead"
    /\ Reset(t, h)
    /\ wrapped' = [wrapped EXCEPT ![h] = wrapped[from], ![from] = None] /\ Ok(t)
    /\ UNCHANGED <<locals, gil>>

Destroy(t, h) ==
    /\ Runs(t) /\ wrapped[h] # "dead"
    /\ Reset(t, h) /\ wrapped' = [wrapped EXCEPT ![h] = "dead"] /\ Ok(t)
    /\ UNCHANGED <<locals, gil>>

(* copy_obj(): needs the GIL, else it throws. *)
CopyObj(t, h) ==
    /\ Runs(t) /\ ~locals[t] /\ wrapped[h] # "dead"
    /\ IF wrapped[h] = None THEN Throws(t, "null") /\ UNCHANGED <<locals, refs>>
       ELSE IF ~HasGil(t) THEN Throws(t, "threw") /\ UNCHANGED <<locals, refs>>
       ELSE /\ locals' = [locals EXCEPT ![t] = object[wrapped[h]]] /\ Ok(t)
            /\ refs' = IF object[wrapped[h]] THEN refs + 1 ELSE refs
    /\ UNCHANGED <<wrapped, object, gil, racy>>

(* move_obj() and the conversion to py::object&&: an empty wrapper throws. *)
MoveObj(t, h) ==
    /\ Runs(t) /\ HasGil(t) /\ ~locals[t] /\ wrapped[h] # "dead"
    /\ IF wrapped[h] = None THEN Throws(t, "null") /\ UNCHANGED <<locals, object>>
       ELSE IF ~object[wrapped[h]] THEN Throws(t, "threw") /\ UNCHANGED <<locals, object>>
       ELSE /\ locals' = [locals EXCEPT ![t] = TRUE]
            /\ object' = [object EXCEPT ![wrapped[h]] = FALSE] /\ Ok(t)
    /\ UNCHANGED <<wrapped, refs, gil, racy>>

(* A py::object of t goes out of scope. *)
DropObject(t) ==
    /\ Runs(t) /\ locals[t]
    /\ locals' = [locals EXCEPT ![t] = FALSE] /\ refs' = refs - 1
    /\ racy' = (racy \/ ~HasGil(t)) /\ Ok(t)
    /\ UNCHANGED <<wrapped, object, gil>>

Next ==
    \E t \in Threads :
        \/ TakeGil(t) \/ DropGil(t) \/ MakeObject(t) \/ DropObject(t)
        \/ \E h \in Holders :
              \/ Wrap(t, h) \/ Destroy(t, h) \/ CopyObj(t, h) \/ MoveObj(t, h)
              \/ \E g \in Holders : \/ CopyConstruct(t, h, g) \/ MoveConstruct(t, h, g)
                                    \/ CopyAssign(t, h, g) \/ MoveAssign(t, h, g)

Spec == Init /\ [][Next]_vars
---------------------------------------------------------------------------
(* The conversions between Python and nlohmann::json, in which options and *)
(* metrics cross the boundary.  A value is a tuple of its type and, unless *)
(* it has none, its content: a number, a text, a sequence of values, or a  *)
(* function from keys to values.                                           *)

LongBound == 4      \* stands for 2 ^ 63
IsLong(n) == n \in -LongBound .. LongBound - 1
ToLong(n) == ((n + LongBound) % (2 * LongBound)) - LongBound

(* cast_from_json; is_number_integer() is true of unsigned numbers as well. *)
RECURSIVE cast_from_json(_)
cast_from_json(source) ==
    CASE source[1] = "array"   -> <<"list", [i \in DOMAIN source[2] |-> cast_from_json(source[2][i])]>>
      [] source[1] = "boolean" -> <<"bool", source[2]>>
      [] source[1] = "float"   -> <<"float", source[2]>>
      [] source[1] \in {"integer", "unsigned"} -> <<"int", ToLong(source[2])>>
      [] source[1] = "object"  ->
           <<"dict", [k \in {<<"str", key>> : key \in DOMAIN source[2]} |-> cast_from_json(source[2][k[2]])]>>
      [] source[1] = "string"  -> <<"str", source[2]>>
      [] OTHER -> <<"None">>

(* py::isinstance: a Python bool is an int, too. *)
isinstance(source, type) == source[1] = type \/ (type = "int" /\ source[1] = "bool")

CastError == <<"cast_error">>   \* thrown by py::cast, through all calls

(* Mutant of cast_from_pyobject: integers are looked for before booleans. *)
RECURSIVE cast_from_pyobjectIntFirst(_)
cast_from_pyobjectIntFirst(source) ==
    IF isinstance(source, "int")
    THEN IF IsLong(source[2]) THEN <<"integer", source[2]>> ELSE CastError
    ELSE IF isinstance(source, "list")
    THEN <<"array", [i \in DOMAIN source[2] |-> cast_from_pyobjectIntFirst(source[2][i])]>>
    ELSE <<"null">>

RECURSIVE cast_from_pyobject(_)
cast_from_pyobject(source) ==
    LET Parts == [i \in DOMAIN source[2] |-> cast_from_pyobject(source[2][i])]
        Failed == \E i \in DOMAIN Parts : Parts[i] = CastError
    IN  CASE isinstance(source, "dict") ->
               IF Failed \/ \E k \in DOMAIN source[2] : ~isinstance(k, "str") THEN CastError
               ELSE <<"object", [key \in {k[2] : k \in DOMAIN source[2]} |-> Parts[<<"str", key>>]]>>
          [] isinstance(source, "list") \/ isinstance(source, "tuple") ->
               IF Failed THEN CastError ELSE <<"array", Parts>>
          [] isinstance(source, "bool") -> <<"boolean", source[2]>>
          [] isinstance(source, "int") /\ ~isinstance(source, "bool") ->
               IF IsLong(source[2]) THEN <<"integer", source[2]>> ELSE CastError
          [] isinstance(source, "float") -> <<"float", source[2]>>
          [] isinstance(source, "str")   -> <<"string", source[2]>>
          [] OTHER -> <<"null">>
---------------------------------------------------------------------------
(* "Allows you to move a pybind11::object around without needing the GIL"  *)
(* (utils.hpp:146): whatever is done with holders, by whichever thread,    *)
(* the reference count is what its owners hold, and only a thread with the *)
(* GIL ever changes it.                                                    *)
CountedUnderGil ==
    /\ ~racy
    /\ refs = Cardinality({w \in Wrappers : object[w]}) + Cardinality({t \in Threads : locals[t]})
    /\ \A w \in Wrappers : object[w] => Used(w)

(* "Did you accidentally move out the object?" (utils.cpp:216): the use of *)
(* a holder that was moved from is reported by an exception.               *)
MovedIsReported == \A t \in Threads : failed[t] # "null"
(* The Python objects that are small: leaves, and containers of leaves and *)
(* of such containers.                                                     *)
Leaves == {<<"None">>, <<"bool", 0>>, <<"bool", 1>>, <<"float", 1>>, <<"str", "a">>, <<"set">>}
          \cup {<<"int", n>> : n \in {-LongBound, 1, LongBound}}
Containers(values) ==
    {<<type, xs>> : type \in {"list", "tuple"}, xs \in BoundedSeq(values, 1)}
    \cup {<<"list", <<x, y>> >> : x, y \in values}
    \cup {<<"dict", [k \in {key} |-> x]>> : key \in {<<"str", "a">>, <<"int", 1>>}, x \in values}
PyObjects == Leaves \cup Containers(Leaves)
             \cup UNION {Containers({<<"tuple", <<x>> >>, <<"dict", [k \in {<<"str", "b">>} |-> x]>>}) : x \in Leaves}

(* A value inside, at any depth, that json or a long cannot hold. *)
RECURSIVE Unfit(_)
Unfit(x) ==
    IF x[1] \in {"list", "tuple", "dict"}
    THEN \E k \in DOMAIN x[2] : Unfit(x[2][k]) \/ (x[1] = "dict" /\ k[1] # "str")
    ELSE x[1] = "int" /\ ~IsLong(x[2])

(* A tuple comes back as a list, what is of no known type as None. *)
RECURSIVE Returned(_)
Returned(x) ==
    CASE x[1] \in {"list", "tuple"} -> <<"list", [i \in DOMAIN x[2] |-> Returned(x[2][i])]>>
      [] x[1] = "dict" -> <<"dict", [k \in DOMAIN x[2] |-> Returned(x[2][k])]>>
      [] x[1] = "set" -> <<"None">>
      [] OTHER -> x

(* What Python hands over as json (cast_from_pyobject) is what Python gets *)
(* back (cast_from_json), at every depth, a bool as a bool and a number as *)
(* the number it was; what json cannot hold raises.                        *)
JsonKeeps ==
    \A x \in PyObjects :
        IF Unfit(x) THEN cast_from_pyobject(x) = CastError
        ELSE cast_from_json(cast_from_pyobject(x)) = Returned(x)
=============================================================================

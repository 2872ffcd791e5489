------------------------------ MODULE TypeWalk ------------------------------
(***************************************************************************)
(* The type walker (core/walk.hpp) and the four questions asked with it at *)
(* compile time: may a value move to another thread (Sendable), can it     *)
(* change through const access (Frozen), may threads share it (Sync), does *)
(* destroying it wait for a thread (JoinFree).  A program declares structs *)
(* field by field; a type is its kind, the struct it holds and how the     *)
(* field is declared.                                                      *)
(***************************************************************************)
EXTENDS Naturals, Sequences, FiniteSets

CONSTANTS Structs,        \* the program's structs
          Fields,         \* the fields they may have: [k, of, mode]
          MaxFields       \* at most this many in each struct

VARIABLES fields          \* what each struct declares, in order

(* A type as the walker meets it. *)
Type(k, s, m) == [k |-> k, of |-> s, mode |-> m]
Struct(s) == Type("struct", s, "plain")
Stripped(t) == [t EXCEPT !.mode = "plain"]
Void == Type("void", "", "plain")

(* The marks the library's own classes carry, and what may be assigned. *)
sendable_opt_out(t) == t.k = "guarded"
sendable_opt_in(t) == t.k \in {"Sink", "shared", "co_owned"}
frozen_opt_in(t) == t.k = "shared"
sync_opt_in(t) == t.k = "guarded"
sync_when_const(t) == t.k = "co_owned"
joins_on_destroy(t) == t.k = "pool"
is_class(t) == t.k \in {"struct", "opaque", "Sink", "shared", "co_owned", "guarded", "pool", "atomic",
                        "stop_token", "vector", "unique_ptr", "shared_ptr", "weak_ptr", "string_view"}
reseatable(t) == t.k # "guarded"

(* shape_of: what kind of standard type it is. *)
shape(t) ==
    CASE t.k = "vector"                       -> "owns"
      [] t.k = "unique_ptr"                   -> "unique_owner"
      [] t.k \in {"shared_ptr", "weak_ptr"}   -> "shared_owner"
      [] t.k = "string_view"                  -> "view"
      [] t.k = "stop_token"                   -> "sync_handle"
      [] OTHER                                -> "unknown"

(* decision: accept, reject, into<Ts...>, structural. *)
accept == [d |-> "accept", ts |-> <<>>]
reject == [d |-> "reject", ts |-> <<>>]
structural == [d |-> "structural", ts |-> <<>>]
into(t) == [d |-> "into", ts |-> <<Struct(t.of)>>]
Either(yes) == IF yes THEN accept ELSE reject

(* Variant: what a unique_ptr owns is not looked at. *)
sendable_classify_Shallow(t) ==
    IF sendable_opt_out(t) THEN reject
    ELSE IF sendable_opt_in(t) THEN accept
    ELSE IF t.k \in {"pointer", "reference"} THEN reject
    ELSE IF t.k = "int" \/ shape(t) \in {"sync_handle", "unique_owner"} THEN accept
    ELSE IF shape(t) \in {"view", "shared_owner"} THEN reject
    ELSE IF shape(t) = "owns" THEN into(t)
    ELSE structural

(* The policies' classify(): the first rule that applies decides. *)
sendable_classify(t) ==
    IF sendable_opt_out(t) THEN reject
    ELSE IF sendable_opt_in(t) THEN accept
    ELSE IF t.k \in {"pointer", "reference"} THEN reject
    ELSE IF t.k = "int" \/ shape(t) = "sync_handle" THEN accept
    ELSE IF shape(t) \in {"view", "shared_owner"} THEN reject
    ELSE IF shape(t) \in {"owns", "unique_owner"} THEN into(t)
    ELSE structural

frozen_classify(t) ==
    IF t.mode = "mutable" THEN reject
    ELSE IF frozen_opt_in(t) THEN accept
    ELSE IF t.k \in {"pointer", "reference"} THEN reject
    ELSE IF t.k = "int" THEN accept
    ELSE IF shape(t) \in {"view", "sync_handle", "shared_owner", "unique_owner"} THEN reject
    ELSE IF shape(t) = "owns" THEN into(t)
    ELSE structural

(* An array is not a class: what it is made of is not looked at. *)
join_free_classify(t) ==
    IF joins_on_destroy(t) THEN reject
    ELSE IF t.k \in {"unique_ptr", "shared_ptr"} \/ shape(t) = "owns" THEN into(t)
    ELSE IF t.k = "struct" THEN structural
    ELSE accept

(* A struct's fields: as a const binding sees them, stripped of const, and *)
(* as they are declared.  Const bindings make all but `mutable` ones const. *)
fields_t(s) == [i \in DOMAIN fields[s] |->
                  [fields[s][i] EXCEPT !.mode = IF @ = "mutable" THEN @ ELSE "const"]]
field_types_t(s) == [i \in DOMAIN fields[s] |-> Stripped(fields_t(s)[i])]
declared_fields_t(s) == [i \in DOMAIN fields[s] |->
                           [fields[s][i] EXCEPT !.mode = IF @ = "const" THEN @ ELSE "plain"]]

(* A `mutable` field stays marked. *)
frozen_field(t) == IF t.mode = "const" THEN Stripped(t) ELSE t

field_list(p, s) ==
    CASE p = "frozen" -> [i \in DOMAIN fields[s] |-> frozen_field(fields_t(s)[i])]
      [] p = "sync"   -> declared_fields_t(s)
      [] OTHER        -> field_types_t(s)

RECURSIVE check(_, _, _, _), all_of(_, _, _, _)

Frozen(deep, t) == check("frozen", deep, Stripped(t), {}) = Void

(* Variant: a const pointer is trusted with whatever it points at. *)
sync_classify_PointerTrusted(deep, t) ==
    IF t.k = "reference" THEN reject
    ELSE IF sync_opt_in(t) \/ shape(t) = "sync_handle" THEN Either(t.mode = "const" \/ ~reseatable(t))
    ELSE IF t.mode = "const" /\ (sync_when_const(t) \/ t.k \in {"unique_ptr", "shared_ptr"}) THEN accept
    ELSE IF t.mode = "const" THEN Either(Frozen(deep, t))
    ELSE IF t.k = "atomic" THEN accept
    ELSE IF t.k \in {"array", "struct"} \/ (~deep /\ is_class(t)) THEN structural
    ELSE reject

(* What may be assigned is safe only where it is const; a const pointer is *)
(* as safe as what it owns; another const field must be Frozen.            *)
sync_classify(deep, t) ==
    IF t.k = "reference" THEN reject
    ELSE IF sync_opt_in(t) \/ shape(t) = "sync_handle" THEN Either(t.mode = "const" \/ ~reseatable(t))
    ELSE IF t.mode = "const" /\ sync_when_const(t) THEN accept
    ELSE IF t.mode = "const" /\ t.k \in {"unique_ptr", "shared_ptr"} THEN into(t)
    ELSE IF t.mode = "const" THEN Either(Frozen(deep, t))
    ELSE IF t.k = "atomic" THEN accept
    ELSE IF t.k \in {"array", "struct"} \/ (~deep /\ is_class(t)) THEN structural
    ELSE reject

classify(p, deep, t) ==
    CASE p = "sendable"  -> sendable_classify(t)
      [] p = "frozen"    -> frozen_classify(t)
      [] p = "join_free" -> join_free_classify(t)
      [] p = "sync"      -> sync_classify(deep, t)

(* A decision becomes a result: Void, or the innermost type that failed.   *)
(* Without the compiler's help to see fields, a class is taken as it is.   *)
apply(p, deep, t, Seen, decided) ==
    CASE decided.d = "accept" -> Void
      [] decided.d = "reject" -> t
      [] decided.d = "into"   -> all_of(p, deep, Seen \union {t}, decided.ts)
      [] decided.d = "structural" ->
            IF t.k = "array" THEN check(p, deep, Struct(t.of), Seen)
            ELSE IF t.k = "struct" /\ deep
                 THEN all_of(p, deep, Seen \union {t}, field_list(p, t.of))
            ELSE IF ~deep /\ is_class(t) THEN Void ELSE t

(* A type already on the stack is assumed fine. *)
check(p, deep, t, Seen) ==
    IF t \in Seen THEN Void ELSE apply(p, deep, t, Seen, classify(p, deep, t))

(* The first failure is reported. *)
all_of(p, deep, Seen, ts) ==
    IF ts = <<>> THEN Void
    ELSE LET r == check(p, deep, Head(ts), Seen)
         IN  IF r # Void THEN r ELSE all_of(p, deep, Seen, Tail(ts))

run(p, deep, t) == check(p, deep, t, {})

(* A struct gets a field; it does not hold itself by value. *)
Declare(s, f) ==
    /\ Len(fields[s]) < MaxFields[s]
    /\ f.k \in {"struct", "array"} => f.of # s
    /\ \A g \in Structs : \A i \in DOMAIN fields[g] :
          f.k \in {"struct", "array"} /\ fields[g][i].k \in {"struct", "array"} => g # f.of
    /\ fields' = [fields EXCEPT ![s] = Append(@, f)]

TypesInit == fields = [s \in Structs |-> <<>>]

TypesNext == \E s \in Structs, f \in Fields : Declare(s, f)
-----------------------------------------------------------------------------
FieldsOf(t) == {fields[t.of][i] : i \in DOMAIN fields[t.of]}
Held(t, kinds) == IF t.k = "struct" THEN FieldsOf(t)
                  ELSE IF t.k \in kinds THEN {Struct(t.of)} ELSE {}

(* The types inside one: what it owns, what it holds by value, what its    *)
(* end may destroy, and what threads that share it reach (fields that are  *)
(* not const, and what a const pointer owns).                              *)
Inside(how, t) ==
    CASE how = "owns"     -> Held(t, {"vector", "array", "unique_ptr"})
      [] how = "holds"    -> IF t.mode = "mutable" THEN {} ELSE Held(t, {"vector", "array"})
      [] how = "destroys" -> Held(t, {"vector", "unique_ptr", "shared_ptr"})
      [] how = "reaches"  -> IF t.mode # "const" THEN Held(t, {"array"})
                             ELSE IF t.k = "struct" THEN {}
                             ELSE Held(t, {"unique_ptr", "shared_ptr"})

RECURSIVE Closure(_, _)
Closure(how, found) ==
    LET more == found \union UNION {Inside(how, t) : t \in found}
    IN  IF more = found THEN found ELSE Closure(how, more)

MayMove(s) == \A t \in Closure("owns", {Struct(s)}) :
    t.k \in {"int", "struct", "array", "vector", "unique_ptr", "stop_token", "Sink", "shared", "co_owned"}
StaysSame(s) == \A t \in Closure("holds", {Struct(s)}) :
    t.mode # "mutable" /\ t.k \in {"int", "struct", "array", "vector", "shared"}
EndsAlone(s) == \A t \in Closure("destroys", {Struct(s)}) : t.k # "pool"
RaceFree(s) == \A t \in Closure("reaches", {Struct(s)}) :
    \/ t.k \in {"guarded", "atomic", "struct", "array"} /\ t.mode # "const"
    \/ t.mode = "const" /\ t.k \in {"stop_token", "guarded", "co_owned", "unique_ptr", "shared_ptr"}
    \/ t.mode = "const" /\ \A u \in Closure("holds", {Stripped(t)}) :
          u.mode # "mutable" /\ u.k \in {"int", "struct", "array", "vector", "shared"}

(* Walking the types of a program decides what the types mean, on cycles   *)
(* too (walk.hpp: "a bad field anywhere in the cycle is still found"): a   *)
(* Sendable value owns all it reaches; a Frozen one holds nothing that can *)
(* change through const access; destroying a JoinFree one destroys nothing *)
(* that joins a thread, C arrays aside; every field that threads sharing a *)
(* Sync one reach is synchronised or cannot be written.  The culprit that  *)
(* is reported fails by itself, and a compiler that cannot see fields      *)
(* refuses nothing that one that can would accept.                         *)
WalkDecides ==
    \A s \in Structs :
        /\ run("sendable", TRUE, Struct(s)) = Void <=> MayMove(s)
        /\ run("frozen", TRUE, Struct(s)) = Void <=> StaysSame(s)
        /\ run("join_free", TRUE, Struct(s)) = Void <=> EndsAlone(s)
        /\ run("sync", TRUE, Struct(s)) = Void <=> RaceFree(s)
        /\ \A p \in {"sendable", "frozen", "join_free", "sync"} :
              LET culprit == run(p, TRUE, Struct(s))
              IN  IF culprit = Void THEN run(p, FALSE, Struct(s)) = Void
                  ELSE run(p, TRUE, culprit) = culprit
=============================================================================

---------------------------- MODULE MetadataOps ----------------------------
(***************************************************************************)
(* One key of a metadata namespace: the operations of ops.go applied to    *)
(* the native values of the process that issued them, and to the values    *)
(* another process decodes from a segment or from a rollup (wire.go).  A   *)
(* state is <<>> (the key is absent) or <<value>>.  Integers have Width    *)
(* bits.                                                                   *)
(***************************************************************************)
EXTENDS Integers, Sequences

CONSTANTS Width, Operands, MaxList

VARIABLES kind, local, replayed

vars == <<kind, local, replayed>>

Kinds == {"scalar", "int", "set", "intmap", "map", "list"}
\* A native key is a string or a struct; decoded from JSON, the struct is a map.
Keys == {"string", "struct"}

Wrap(n) == ((n + 2^(Width - 1)) % 2^Width) - 2^(Width - 1)
Quotient(a, b) ==
    LET abs(n) == IF n < 0 THEN -n ELSE n
        q == abs(a) \div abs(b)
    IN IF (a < 0) = (b < 0) THEN q ELSE -q

-----------------------------------------------------------------------------
(* Values: a Go int64, a json.Number, or any other Go value.               *)

Int64(n) == [form |-> "int64", n |-> Wrap(n)]
toInt64(v) == IF v.form \in {"int64", "float64", "number"} THEN v.n ELSE 0
\* Decoding into an any: UseNumber keeps every digit.
Decoded(v) == [form |-> "number", n |-> v.n]

\* json.Marshal writes a struct in field order and a map with sorted keys;
\* marshalKey brings both to the sorted form.
marshalKeyPlain(k) == <<k.key, IF k.form = "struct" THEN "declared" ELSE "sorted">>
marshalKey(k) == <<k.key, "sorted">>
Native(key) == [key |-> key, form |-> key]
DecodedKey(k) == [k EXCEPT !.form = IF @ = "struct" THEN "map" ELSE @]

-----------------------------------------------------------------------------
(* Operations.                                                             *)

\* What the typed wrappers of api.go send for each kind of key.
Ops ==
    LET op(names, keys, ns) ==
            [op : names, key : {Native(k) : k \in keys}, value : {Int64(n) : n \in ns}]
    IN [scalar |-> op({"ScalarSet"}, {"string"}, Operands) \cup op({"ScalarDelete"}, {"string"}, {0}),
        int    |-> op({"IntSet", "IntAdd", "IntMul", "IntDiv"}, {"string"}, Operands),
        set    |-> op({"SetAdd", "SetRemove"}, Keys, {0}),
        intmap |-> op({"IntMapSet", "IntMapAdd", "IntMapMul", "IntMapDiv"}, Keys, Operands)
                     \cup op({"IntMapDelete"}, Keys, {0}),
        map    |-> op({"MapSet"}, Keys, Operands) \cup op({"MapDelete"}, Keys, {0}),
        list   |-> op({"ListAppend"}, {"string"}, Operands)]

\* Typed integer fields decode as int64; values of type any and keys do not.
decodeOp(o) ==
    [o EXCEPT !.key = DecodedKey(@),
              !.value = IF o.op \in {"ScalarSet", "MapSet", "ListAppend"} THEN Decoded(@) ELSE @]

Current(m, k) == IF k \in DOMAIN m THEN toInt64(m[k]) ELSE 0
Put(m, k, v) == [x \in DOMAIN m \cup {k} |-> IF x = k THEN v ELSE m[x]]
Without(m, k) == [x \in DOMAIN m \ {k} |-> m[x]]
Submap(s) == IF s = <<>> THEN [x \in {} |-> Int64(0)] ELSE s[1]

ApplyOp(s, o) ==
    LET k == marshalKey(o.key)
        n == o.value.n
        scalar == IF s = <<>> THEN 0 ELSE toInt64(s[1])
        m == Submap(s)
    IN CASE o.op \in {"ScalarSet", "IntSet"} -> <<o.value>>
         [] o.op = "ScalarDelete" -> <<>>
         [] o.op = "IntAdd" -> <<Int64(scalar + n)>>
         [] o.op = "IntMul" -> <<Int64(scalar * n)>>
         [] o.op = "IntDiv" -> IF n = 0 THEN s ELSE <<Int64(Quotient(scalar, n))>>
         [] o.op = "SetAdd" -> <<Put(m, k, [form |-> "bool", n |-> 1])>>
         [] o.op \in {"IntMapSet", "MapSet"} -> <<Put(m, k, o.value)>>
         [] o.op = "IntMapAdd" -> <<Put(m, k, Int64(Current(m, k) + n))>>
         [] o.op = "IntMapMul" -> <<Put(m, k, Int64(Current(m, k) * n))>>
         [] o.op = "IntMapDiv" ->
                IF n = 0 \/ s = <<>> THEN s ELSE <<Put(m, k, Int64(Quotient(Current(m, k), n)))>>
         [] o.op \in {"SetRemove", "IntMapDelete", "MapDelete"} ->
                IF s = <<>> THEN s ELSE <<Without(m, k)>>
         [] o.op = "ListAppend" -> <<Append(IF s = <<>> THEN <<>> ELSE s[1], o.value)>>

\* A rollup: the state as JSON, and back.
unmarshalState(s) ==
    LET decode(v) == IF v.form = "bool" THEN v ELSE Decoded(v)
    IN CASE s = <<>> -> s
         [] s # <<>> /\ kind \in {"scalar", "int"} -> <<decode(s[1])>>
         [] s # <<>> /\ kind \notin {"scalar", "int"} -> <<[x \in DOMAIN s[1] |-> decode(s[1][x])]>>

-----------------------------------------------------------------------------
(* Queries, whose results reach the caller's type through JSON.            *)

queryState(s) ==
    CASE kind = "scalar" -> IF s = <<>> THEN <<>> ELSE <<s[1].n>>
      [] kind = "int" -> <<IF s = <<>> THEN 0 ELSE toInt64(s[1])>>
      [] kind = "set" -> <<DOMAIN Submap(s), {k \in Keys : marshalKey(Native(k)) \in DOMAIN Submap(s)}>>
      [] kind = "intmap" -> <<DOMAIN Submap(s), [k \in Keys |-> Current(Submap(s), marshalKey(Native(k)))]>>
      [] kind = "map" -> <<DOMAIN Submap(s),
                           [k \in {x \in Keys : marshalKey(Native(x)) \in DOMAIN Submap(s)}
                              |-> Submap(s)[marshalKey(Native(k))].n]>>
      [] kind = "list" -> IF s = <<>> THEN <<>> ELSE <<Len(s[1]), [i \in DOMAIN s[1] |-> s[1][i].n]>>

-----------------------------------------------------------------------------
Init == kind \in Kinds /\ local = <<>> /\ replayed = <<>>

\* A segment is applied where it was written, and replayed elsewhere.
Apply(o) ==
    /\ o.op = "ListAppend" /\ local # <<>> => Len(local[1]) < MaxList
    /\ local' = ApplyOp(local, o) /\ replayed' = ApplyOp(replayed, decodeOp(o)) /\ UNCHANGED kind
Fold == replayed' = unmarshalState(replayed) /\ UNCHANGED <<kind, local>>

Next == Fold \/ \E o \in Ops[kind] : Apply(o)

Spec == Init /\ [][Next]_vars

\* Whatever the operations, and wherever a rollup was taken between them, the process
\* that wrote them and a process that replays them answer every query alike (ApplyOp,
\* marshalKey, toInt64, queryState against decodeOp and unmarshalState).
ReplayAgrees == queryState(local) = queryState(replayed)
=============================================================================

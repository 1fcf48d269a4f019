----------------------------- MODULE JsonValues -----------------------------
(***************************************************************************)
(* Values as json.loads makes them, tagged with their kind.  An object is  *)
(* the sequence of its <<key, value>>, since a dict keeps its order.  A    *)
(* number stands for its value; a float is a kind of its own even when it  *)
(* equals an integer, and so are NaN and the infinities, which json.loads  *)
(* reads.  Integers with more digits than Python reads or writes are left  *)
(* out.                                                                    *)
(*                                                                         *)
(* What the code does with the parts of a value before the whole is a      *)
(* function on the values there are: an array or an object is among them   *)
(* with its parts, which are not as deep.                                  *)
(***************************************************************************)
EXTENDS Integers, Sequences, SequencesExt

CONSTANTS
    Values,   \* the values there are, with their parts
    Depth,    \* how deep the arrays and objects of a value are nested
    MaxFloat  \* the largest integer that can be made a float

Null == [is |-> "null"]
Bool(b) == [is |-> "boolean", bool |-> b]
Integer(n) == [is |-> "integer", int |-> n]
Floating(n) == [is |-> "float", float |-> n]
NaN == [is |-> "nan"]
Str(s) == [is |-> "string", str |-> s]
Arr(items) == [is |-> "array", items |-> items]
Obj(fields) == [is |-> "object", fields |-> fields]
Alien == [is |-> "alien"]   \* a Python value that JSON does not have

Keys(o) == {o.fields[i][1] : i \in DOMAIN o.fields}

Has(o, key) == key \in Keys(o)

(* dict.get() *)
Get(o, key, default) ==
    IF Has(o, key)
    THEN o.fields[CHOOSE i \in DOMAIN o.fields : o.fields[i][1] = key][2]
    ELSE default

Children(v) ==
    CASE v.is = "array" -> ToSet(v.items)
      [] v.is = "object" -> {v.fields[i][2] : i \in DOMAIN v.fields}
      [] OTHER -> {}

ASSUME JsonAssumption ==
    /\ Depth \in [Values -> Nat] /\ MaxFloat \in Nat
    /\ \A v \in Values :
          /\ \/ v \in {Null, NaN, Alien, Bool(TRUE), Bool(FALSE)}
             \/ v.is = "integer" /\ v = Integer(v.int) /\ v.int \in Int
             \/ v.is = "float" /\ v = Floating(v.float) /\ v.float \in Int
             \/ v.is = "string" /\ v = Str(v.str) /\ v.str \in STRING
             \/ v.is = "array" /\ v = Arr(v.items) /\ v.items \in Seq(Values)
             \/ /\ v.is = "object" /\ v = Obj(v.fields) /\ v.fields \in Seq(STRING \X Values)
                /\ \A i, j \in DOMAIN v.fields : v.fields[i][1] = v.fields[j][1] => i = j
          /\ \A child \in Children(v) : Depth[child] < Depth[v]

IsNumber(v) == v.is \in {"integer", "float", "nan"}

(* An integer that no float can hold: math.isfinite raises for it. *)
Beyond(v) == v.is = "integer" /\ (v.int > MaxFloat \/ -v.int > MaxFloat)

Amount(v) == IF v.is = "integer" THEN v.int ELSE v.float

(* A list of strings without a repetition. *)
UniqueStrings(v) ==
    /\ v.is = "array"
    /\ \A i \in DOMAIN v.items : v.items[i].is = "string"
    /\ IsInjective(v.items)

=============================================================================

----------------------------- MODULE ToolSchema -----------------------------
(***************************************************************************)
(* astraship.tools.schema: the subset of JSON Schema for the arguments of  *)
(* tools.  A schema is a JSON value itself.  validate_schema accepts it,   *)
(* refuses it with ToolRegistrationError, or raises another exception;     *)
(* _validate_value finds a value valid, invalid, or raises.  The first     *)
(* check that fails decides; where in the value it fails is left out.      *)
(* Where the code calls itself for a part of a schema, its definition has  *)
(* what it finds for each value as a parameter (check, validate).  Schemas *)
(* are the program's own: that one is nested more deeply than the stack    *)
(* bears is left out.                                                      *)
(***************************************************************************)
EXTENDS JsonValues

CONSTANT Patterns   \* for each regular expression, the strings where it finds a match

Keywords ==
    [object  |-> {"type", "properties", "required", "additionalProperties"},
     array   |-> {"type", "items", "minItems", "maxItems"},
     string  |-> {"type", "minLength", "maxLength", "enum", "pattern"},
     integer |-> {"type", "minimum", "maximum"},
     number  |-> {"type", "minimum", "maximum"},
     boolean |-> {"type"},
     null    |-> {"type"}]

TypeOf(schema) == Get(schema, "type", Null)

(* The first of some verdicts that is not the one to hope for. *)
FirstOther(good, verdicts) ==
    LET others == {i \in DOMAIN verdicts : verdicts[i] # good}
    IN  IF others = {} THEN good ELSE verdicts[CHOOSE i \in others : \A j \in others : i <= j]

(* Two bounds, each absent or of the right kind, and not in reverse.  None *)
(* passes for an absent bound until it is compared.                        *)
CheckBounds(schema, low, high, Verdict(_)) ==
    LET given == {k \in {low, high} : Get(schema, k, Null) # Null}
        Of(k) == IF k \in given THEN Verdict(Get(schema, k, Null)) ELSE "accepted"
    IN  IF Of(low) # "accepted" THEN Of(low)
        ELSE IF Of(high) # "accepted" THEN Of(high)
        ELSE IF \E k \in {low, high} \ given : Has(schema, k) THEN "raises"
        ELSE IF given = {low, high} /\ Amount(Get(schema, low, Null)) > Amount(Get(schema, high, Null))
        THEN "refused" ELSE "accepted"

(* _validate_nonnegative_integer *)
NonNegative(v) == IF v.is = "integer" /\ v.int >= 0 THEN "accepted" ELSE "refused"

Finite(v) ==
    IF Beyond(v) THEN "raises" ELSE IF IsNumber(v) /\ v # NaN THEN "accepted" ELSE "refused"

CheckEnum(schema) ==
    LET enum == Get(schema, "enum", Null)
    IN  IF enum = Null \/ (UniqueStrings(enum) /\ enum.items # <<>>) THEN "accepted" ELSE "refused"

CheckPattern(schema) ==
    LET pattern == Get(schema, "pattern", Null)
    IN  IF pattern = Null THEN "accepted"
        ELSE IF pattern.is = "string" /\ pattern.str \in DOMAIN Patterns THEN "accepted"
        ELSE "refused"

CheckObject(schema, check) ==
    LET properties == Get(schema, "properties", Obj(<<>>))
        required == Get(schema, "required", Arr(<<>>))
    IN  IF properties.is # "object" THEN "refused"
        ELSE FirstOther("accepted",
            [i \in DOMAIN properties.fields |-> check[properties.fields[i][2]]]
            \o << IF /\ UniqueStrings(required)
                     /\ \A i \in DOMAIN required.items : Has(properties, required.items[i].str)
                     /\ Get(schema, "additionalProperties", Bool(TRUE)).is = "boolean"
                  THEN "accepted" ELSE "refused" >>)

CheckArray(schema, check) ==
    IF ~Has(schema, "items") THEN "refused"
    ELSE FirstOther("accepted", << check[Get(schema, "items", Null)],
                                   CheckBounds(schema, "minItems", "maxItems", NonNegative) >>)

CheckString(schema) ==
    FirstOther("accepted", << CheckBounds(schema, "minLength", "maxLength", NonNegative),
                              CheckEnum(schema), CheckPattern(schema) >>)

(* _validate_schema_node.  A list or an object has no hash, so that looking *)
(* for it among the types raises.                                           *)
CheckNode(schema, check) ==
    IF schema.is # "object" THEN "refused"
    ELSE IF TypeOf(schema).is \in {"array", "object"} THEN "raises"
    ELSE IF TypeOf(schema) \notin {Str(t) : t \in DOMAIN Keywords} THEN "refused"
    ELSE IF ~(Keys(schema) \subseteq Keywords[TypeOf(schema).str]) THEN "refused"
    ELSE CASE TypeOf(schema).str = "object" -> CheckObject(schema, check)
           [] TypeOf(schema).str = "array" -> CheckArray(schema, check)
           [] TypeOf(schema).str = "string" -> CheckString(schema)
           [] TypeOf(schema).str \in {"integer", "number"} ->
                CheckBounds(schema, "minimum", "maximum", Finite)
           [] OTHER -> "accepted"

(* validate_schema *)
Check[schema \in Values] == CheckNode(schema, Check)

Accepted == {schema \in Values : Check[schema] = "accepted"}

(* Fault: any number is an integer. *)
MatchesTypeLoosely(type, v) ==
    IF type \in {"integer", "number"} THEN IsNumber(v) ELSE v.is = type

(* _matches_type *)
MatchesType(type, v) == IF type = "number" THEN IsNumber(v) ELSE v.is = type

(* Bounds are there or not, and were checked. *)
Within(schema, low, high, n) ==
    /\ Has(schema, low) => n >= Amount(Get(schema, low, Null))
    /\ Has(schema, high) => n <= Amount(Get(schema, high, Null))

(* Looking in an enum of None, or for a pattern of None, raises. *)
ValidateString(schema, s) ==
    IF ~Within(schema, "minLength", "maxLength", Len(s)) THEN "invalid"
    ELSE FirstOther("valid",
        << IF ~Has(schema, "enum") THEN "valid"
           ELSE IF Get(schema, "enum", Null) = Null THEN "raises"
           ELSE IF Str(s) \in ToSet(Get(schema, "enum", Null).items) THEN "valid" ELSE "invalid",
           IF ~Has(schema, "pattern") THEN "valid"
           ELSE IF Get(schema, "pattern", Null) = Null THEN "raises"
           ELSE IF s \in Patterns[Get(schema, "pattern", Null).str] THEN "valid" ELSE "invalid" >>)

ValidateObject(schema, v, validate) ==
    LET properties == Get(schema, "properties", Obj(<<>>))
        required == Get(schema, "required", Arr(<<>>))
        Property(key, item) ==
            IF Has(properties, key) THEN validate[Get(properties, key, Null)][item]
            ELSE IF Get(schema, "additionalProperties", Bool(TRUE)) = Bool(FALSE) THEN "invalid"
            ELSE "valid"
    IN  IF \E i \in DOMAIN required.items : ~Has(v, required.items[i].str) THEN "invalid"
        ELSE FirstOther("valid", [i \in DOMAIN v.fields |-> Property(v.fields[i][1], v.fields[i][2])])

ValidateArray(schema, v, validate) ==
    IF ~Within(schema, "minItems", "maxItems", Len(v.items)) THEN "invalid"
    ELSE FirstOther("valid", [i \in DOMAIN v.items |-> validate[Get(schema, "items", Null)][v.items[i]]])

(* NaN stands for the infinities too. *)
ValidateNumber(schema, v) ==
    IF Beyond(v) THEN "raises"
    ELSE IF v # NaN /\ Within(schema, "minimum", "maximum", Amount(v)) THEN "valid" ELSE "invalid"

(* _validate_value, for a schema that was accepted. *)
ValidateNode(schema, v, validate) ==
    LET type == TypeOf(schema).str
    IN  IF ~MatchesType(type, v) THEN "invalid"
        ELSE CASE type = "object" -> ValidateObject(schema, v, validate)
               [] type = "array" -> ValidateArray(schema, v, validate)
               [] type = "string" -> ValidateString(schema, v.str)
               [] type \in {"integer", "number"} -> ValidateNumber(schema, v)
               [] OTHER -> "valid"

Validate[schema \in Accepted] == [v \in Values |-> ValidateNode(schema, v, Validate)]

(* validate_arguments *)
ValidateArguments(schema, v) ==
    IF schema \in Accepted THEN Validate[schema][v] ELSE "raises"

-----------------------------------------------------------------------------
(* What a schema means, keyword by keyword: a value conforms if it does    *)
(* not break any of them.  A keyword of None says nothing.                 *)

Instances(type) ==
    CASE type = "number" -> {"integer", "float"}
      [] OTHER -> {type}

Obeys(schema, key, rule, v, conforms) ==
    CASE key = "type" -> v.is \in Instances(rule.str)
      [] key = "properties" ->
            \A i \in DOMAIN v.fields : Has(rule, v.fields[i][1]) =>
                conforms[Get(rule, v.fields[i][1], Null)][v.fields[i][2]]
      [] key = "required" -> {item.str : item \in ToSet(rule.items)} \subseteq Keys(v)
      [] key = "additionalProperties" ->
            rule.bool \/ Keys(v) \subseteq Keys(Get(schema, "properties", Obj(<<>>)))
      [] key = "items" -> \A item \in ToSet(v.items) : conforms[rule][item]
      [] key = "minItems" -> Len(v.items) >= rule.int
      [] key = "maxItems" -> Len(v.items) <= rule.int
      [] key = "minLength" -> Len(v.str) >= rule.int
      [] key = "maxLength" -> Len(v.str) <= rule.int
      [] key = "enum" -> v \in ToSet(rule.items)
      [] key = "pattern" -> v.str \in Patterns[rule.str]
      [] key = "minimum" -> Amount(v) >= Amount(rule)
      [] key = "maximum" -> Amount(v) <= Amount(rule)

ConformsTo(schema, v, conforms) ==
    /\ Obeys(schema, "type", TypeOf(schema), v, conforms)
    /\ \A key \in Keys(schema) \ {"type"} :
          Get(schema, key, Null) # Null => Obeys(schema, key, Get(schema, key, Null), v, conforms)

Conforms[schema \in Accepted] == [v \in Values |-> ConformsTo(schema, v, Conforms)]

(* A schema with an enum or a pattern of None somewhere. *)
Hollow[schema \in Values] ==
    \/ schema.is = "object" /\ \E key \in {"enum", "pattern"} :
          Has(schema, key) /\ Get(schema, key, Alien) = Null
    \/ \E child \in Children(schema) : Hollow[child]

(* A value with an integer that no float can hold. *)
Huge[v \in Values] == Beyond(v) \/ \E child \in Children(v) : Huge[child]

=============================================================================

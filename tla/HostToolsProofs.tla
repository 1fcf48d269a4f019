--------------------------- MODULE HostToolsProofs ---------------------------
(***************************************************************************)
(* What validate_schema and _validate_value find, and the safety           *)
(* properties of HostTools, for every set of JSON values, every regular    *)
(* expression, whatever lines the host sends and whatever tools it is      *)
(* given, and whatever they return.                                        *)
(*                                                                         *)
(* Check and Validate call themselves for the parts of a schema, so they   *)
(* are functions only because the parts are not as deep as the whole: that *)
(* comes first, and then, by induction on the depth, that what             *)
(* _validate_value finds is what the schema means.  The invariant of the   *)
(* adapter adds to its properties what is known of the call it runs and of *)
(* the message it answers between two of its steps.                        *)
(***************************************************************************)
EXTENDS HostTools, SharedLemmas, FiniteSetTheorems, TLAPS

-----------------------------------------------------------------------------
(* JSON values *)

(* A dict gives for each of its keys the item that stands with it. *)
LEMMA GetField ==
    ASSUME NEW o, NEW key, Has(o, key), NEW default
    PROVE  \E i \in DOMAIN o.fields : o.fields[i][1] = key /\ Get(o, key, default) = o.fields[i][2]
  BY DEF Has, Keys, Get

(* A value is what its kind says. *)
LEMMA ScalarShapes ==
    ASSUME NEW v \in Values
    PROVE  /\ v.is = "boolean" => v \in {Bool(TRUE), Bool(FALSE)}
           /\ v.is = "integer" => v = Integer(v.int) /\ v.int \in Int
           /\ v.is = "float" => v = Floating(v.float) /\ v.float \in Int
           /\ v.is = "nan" => v = NaN
           /\ v.is = "string" => v = Str(v.str) /\ v.str \in STRING
  <1>1. Null.is = "null" /\ NaN.is = "nan" /\ Alien.is = "alien"
    BY DEF Null, NaN, Alien
  <1>2. Bool(TRUE).is = "boolean" /\ Bool(FALSE).is = "boolean"
    BY DEF Bool
  <1> QED
    BY <1>1, <1>2, JsonAssumption

(* The items of a list are values, and not as deep. *)
LEMMA ArrayParts ==
    ASSUME NEW v \in Values, v.is = "array"
    PROVE  /\ v = Arr(v.items) /\ v.items \in Seq(Values)
           /\ \A i \in DOMAIN v.items : v.items[i] \in Values /\ Depth[v.items[i]] < Depth[v]
  <1>1. v = Arr(v.items) /\ v.items \in Seq(Values)
    BY JsonAssumption DEF Null, NaN, Alien, Bool
  <1>2. Children(v) = ToSet(v.items)
    BY DEF Children
  <1>3. \A i \in DOMAIN v.items : v.items[i] \in ToSet(v.items) /\ v.items[i] \in Values
    BY <1>1 DEF ToSet
  <1> QED
    BY <1>1, <1>2, <1>3, JsonAssumption

(* A dict has each key once, and the items are values, and not as deep. *)
LEMMA ObjectParts ==
    ASSUME NEW v \in Values, v.is = "object"
    PROVE  /\ v = Obj(v.fields) /\ v.fields \in Seq(STRING \X Values)
           /\ \A i, j \in DOMAIN v.fields : v.fields[i][1] = v.fields[j][1] => i = j
           /\ \A i \in DOMAIN v.fields :
                 /\ v.fields[i][1] \in STRING /\ v.fields[i][2] \in Values
                 /\ Depth[v.fields[i][2]] < Depth[v]
                 /\ \A default : Get(v, v.fields[i][1], default) = v.fields[i][2]
           /\ \A key, default : Has(v, key) =>
                 Get(v, key, default) \in Values /\ Depth[Get(v, key, default)] < Depth[v]
  <1>1. /\ v = Obj(v.fields) /\ v.fields \in Seq(STRING \X Values)
        /\ \A i, j \in DOMAIN v.fields : v.fields[i][1] = v.fields[j][1] => i = j
    BY JsonAssumption DEF Null, NaN, Alien, Bool
  <1>2. Children(v) = {v.fields[i][2] : i \in DOMAIN v.fields}
    BY DEF Children
  <1>3. ASSUME NEW i \in DOMAIN v.fields
        PROVE  /\ v.fields[i][1] \in STRING /\ v.fields[i][2] \in Values
               /\ Depth[v.fields[i][2]] < Depth[v]
    <2>1. v.fields[i] \in STRING \X Values
      BY <1>1
    <2> QED
      BY <1>2, <2>1, JsonAssumption
  <1>4. ASSUME NEW i \in DOMAIN v.fields, NEW default
        PROVE  Get(v, v.fields[i][1], default) = v.fields[i][2]
    <2>1. Has(v, v.fields[i][1])
      BY DEF Has, Keys
    <2>2. PICK j \in DOMAIN v.fields :
             v.fields[j][1] = v.fields[i][1] /\ Get(v, v.fields[i][1], default) = v.fields[j][2]
      BY <2>1, GetField
    <2> QED
      BY <1>1, <2>2
  <1>5. \A key, default : Has(v, key) =>
           Get(v, key, default) \in Values /\ Depth[Get(v, key, default)] < Depth[v]
    BY <1>3, GetField
  <1> QED
    BY <1>1, <1>3, <1>4, <1>5

(* A list of verdicts comes to the first that is not the one hoped for. *)
LEMMA FirstOtherIs ==
    ASSUME NEW good, NEW verdicts, DOMAIN verdicts \subseteq Nat
    PROVE  \/ /\ \A i \in DOMAIN verdicts : verdicts[i] = good
              /\ FirstOther(good, verdicts) = good
           \/ \E i \in DOMAIN verdicts :
                 verdicts[i] # good /\ FirstOther(good, verdicts) = verdicts[i]
  <1> DEFINE others == {i \in DOMAIN verdicts : verdicts[i] # good}
  <1>1. CASE others = {}
    BY <1>1 DEF FirstOther
  <1>2. CASE others # {}
    <2>1. \E i \in others : \A j \in others : i <= j
      BY <1>2, LeastNatural
    <2>2. FirstOther(good, verdicts) = verdicts[CHOOSE i \in others : \A j \in others : i <= j]
      BY <1>2 DEF FirstOther
    <2> QED
      BY <2>1, <2>2
  <1> QED
    BY <1>1, <1>2

-----------------------------------------------------------------------------
(* Checking a schema *)

Checks == {"accepted", "refused", "raises"}

(* The properties of a schema, if they are an object. *)
Properties(schema) == Get(schema, "properties", Obj(<<>>))

LEMMA PropertiesAre ==
    ASSUME NEW schema \in Values, schema.is = "object", Properties(schema).is = "object"
    PROVE  /\ DOMAIN Properties(schema).fields = 1 .. Len(Properties(schema).fields)
           /\ Len(Properties(schema).fields) \in Nat
           /\ \A i \in DOMAIN Properties(schema).fields :
                 /\ Properties(schema).fields[i][2] \in Values
                 /\ Depth[Properties(schema).fields[i][2]] < Depth[schema]
           /\ \A key, default : Has(Properties(schema), key) =>
                 /\ Get(Properties(schema), key, default) \in Values
                 /\ Depth[Get(Properties(schema), key, default)] < Depth[schema]
                 /\ \E i \in DOMAIN Properties(schema).fields :
                       Get(Properties(schema), key, default) = Properties(schema).fields[i][2]
  <1> DEFINE p == Properties(schema)
  <1>1. CASE Has(schema, "properties")
    <2>1. p \in Values /\ Depth[p] < Depth[schema]
      BY <1>1, ObjectParts DEF Properties
    <2>2. p.is = "object"
      OBVIOUS
    <2> HIDE DEF p
    <2>3. /\ p.fields \in Seq(STRING \X Values)
          /\ \A i \in DOMAIN p.fields : p.fields[i][2] \in Values /\ Depth[p.fields[i][2]] < Depth[p]
          /\ \A key, default : Has(p, key) =>
                Get(p, key, default) \in Values /\ Depth[Get(p, key, default)] < Depth[p]
      BY <2>1, <2>2, ObjectParts
    <2>4. \A w \in Values : Depth[w] < Depth[p] => Depth[w] < Depth[schema]
      BY <2>1, JsonAssumption
    <2>5. \A key, default : Has(p, key) =>
             \E i \in DOMAIN p.fields : Get(p, key, default) = p.fields[i][2]
      BY GetField
    <2> QED
      BY <2>3, <2>4, <2>5 DEF p
  <1>2. CASE ~Has(schema, "properties")
    <2>1. p = Obj(<<>>) /\ p.fields = <<>>
      BY <1>2 DEF Properties, Get, Obj
    <2>2. \A key : ~Has(p, key)
      BY <2>1 DEF Has, Keys
    <2> QED
      BY <2>1, <2>2
  <1> QED
    BY <1>1, <1>2

LEMMA CheckObjectTyped ==
    ASSUME NEW schema \in Values, schema.is = "object", NEW h \in [Values -> Checks]
    PROVE  CheckObject(schema, h) \in Checks
  <1> DEFINE p == Properties(schema)
             parts == [i \in DOMAIN p.fields |-> h[p.fields[i][2]]]
             last == IF /\ UniqueStrings(Get(schema, "required", Arr(<<>>)))
                        /\ \A i \in DOMAIN Get(schema, "required", Arr(<<>>)).items :
                              Has(p, Get(schema, "required", Arr(<<>>)).items[i].str)
                        /\ Get(schema, "additionalProperties", Bool(TRUE)).is = "boolean"
                     THEN "accepted" ELSE "refused"
  <1>1. CASE p.is # "object"
    BY <1>1 DEF CheckObject, Properties, Checks
  <1>2. CASE p.is = "object"
    <2>1. CheckObject(schema, h) = FirstOther("accepted", parts \o <<last>>)
      BY <1>2 DEF CheckObject, Properties
    <2>2. parts \in Seq(Checks) /\ last \in Checks
      <3>1. /\ DOMAIN p.fields = 1 .. Len(p.fields) /\ Len(p.fields) \in Nat
            /\ \A i \in DOMAIN p.fields : p.fields[i][2] \in Values
        BY <1>2, PropertiesAre
      <3> HIDE DEF p
      <3>2. \A i \in 1 .. Len(p.fields) : h[p.fields[i][2]] \in Checks
        BY <3>1
      <3>3. parts \in Seq(Checks)
        BY <3>1, <3>2
      <3> QED
        BY <3>3 DEF Checks
    <2> HIDE DEF parts, last
    <2>3. parts \o <<last>> \in Seq(Checks)
      BY <2>2
    <2> DEFINE all == parts \o <<last>>
    <2> HIDE DEF all
    <2>4. all \in Seq(Checks) /\ DOMAIN all \subseteq Nat
      BY <2>3 DEF all
    <2>5. FirstOther("accepted", all) \in Checks
      BY <2>4, FirstOtherIs DEF Checks
    <2> QED
      BY <2>1, <2>5 DEF all
  <1> QED
    BY <1>1, <1>2

LEMMA BoundsTyped ==
    ASSUME NEW schema, NEW low, NEW high
    PROVE  /\ CheckBounds(schema, low, high, NonNegative) \in Checks
           /\ CheckBounds(schema, low, high, Finite) \in Checks
  <1>1. \A v : NonNegative(v) \in Checks /\ Finite(v) \in Checks
    BY DEF NonNegative, Finite, Checks
  <1> QED
    BY <1>1 DEF CheckBounds, Checks

LEMMA CheckTyped ==
    ASSUME NEW schema \in Values, NEW h \in [Values -> Checks]
    PROVE  CheckNode(schema, h) \in Checks
  <1>1. CASE schema.is # "object"
    BY <1>1 DEF CheckNode, Checks
  <1>2. CASE schema.is = "object"
    <2>1. CheckObject(schema, h) \in Checks
      BY <1>2, CheckObjectTyped
    <2>2. CheckArray(schema, h) \in Checks
      <3>1. CASE ~Has(schema, "items")
        BY <3>1 DEF CheckArray, Checks
      <3>2. CASE Has(schema, "items")
        <4> DEFINE all == << h[Get(schema, "items", Null)],
                             CheckBounds(schema, "minItems", "maxItems", NonNegative) >>
        <4>1. h[Get(schema, "items", Null)] \in Checks
          BY <1>2, <3>2, ObjectParts
        <4>2. all \in Seq(Checks) /\ DOMAIN all \subseteq Nat
          BY <4>1, BoundsTyped
        <4>3. CheckArray(schema, h) = FirstOther("accepted", all)
          BY <3>2 DEF CheckArray
        <4> HIDE DEF all
        <4> QED
          BY <4>2, <4>3, FirstOtherIs DEF Checks
      <3> QED
        BY <3>1, <3>2
    <2>3. CheckString(schema) \in Checks
      <3> DEFINE all == << CheckBounds(schema, "minLength", "maxLength", NonNegative),
                           CheckEnum(schema), CheckPattern(schema) >>
      <3>1. CheckEnum(schema) \in Checks /\ CheckPattern(schema) \in Checks
        BY DEF CheckEnum, CheckPattern, Checks
      <3>2. all \in Seq(Checks) /\ DOMAIN all \subseteq Nat
        BY <3>1, BoundsTyped
      <3>3. CheckString(schema) = FirstOther("accepted", all)
        BY DEF CheckString
      <3> HIDE DEF all
      <3> QED
        BY <3>2, <3>3, FirstOtherIs DEF Checks
    <2>4. CheckBounds(schema, "minimum", "maximum", Finite) \in Checks
      BY BoundsTyped
    <2> QED
      BY <2>1, <2>2, <2>3, <2>4 DEF CheckNode, Checks
  <1> QED
    BY <1>1, <1>2

(* The verdict on a schema depends on those on its parts only. *)
LEMMA CheckLocal ==
    ASSUME NEW schema \in Values, NEW h, NEW k,
           \A w \in Values : Depth[w] < Depth[schema] => h[w] = k[w]
    PROVE  CheckNode(schema, h) = CheckNode(schema, k)
  <1>1. CASE schema.is # "object"
    BY <1>1 DEF CheckNode
  <1>2. CASE schema.is = "object"
    <2>1. CheckObject(schema, h) = CheckObject(schema, k)
      <3> DEFINE p == Properties(schema)
      <3>1. CASE p.is # "object"
        BY <3>1 DEF CheckObject, Properties
      <3>2. CASE p.is = "object"
        <4>1. \A i \in DOMAIN p.fields :
                 p.fields[i][2] \in Values /\ Depth[p.fields[i][2]] < Depth[schema]
          BY <1>2, <3>2, PropertiesAre
        <4>2. [i \in DOMAIN p.fields |-> h[p.fields[i][2]]]
                = [i \in DOMAIN p.fields |-> k[p.fields[i][2]]]
          BY <4>1
        <4> QED
          BY <4>2 DEF CheckObject, Properties
      <3> QED
        BY <3>1, <3>2
    <2>2. CheckArray(schema, h) = CheckArray(schema, k)
      <3>1. Has(schema, "items") => h[Get(schema, "items", Null)] = k[Get(schema, "items", Null)]
        BY <1>2, ObjectParts
      <3> QED
        BY <3>1 DEF CheckArray
    <2> QED
      BY <2>1, <2>2 DEF CheckNode
  <1> QED
    BY <1>1, <1>2

(* The recursion of _validate_schema_node ends. *)
LEMMA CheckIs == \A schema \in Values : Check[schema] = CheckNode(schema, Check)
  <1> DEFINE Pass == [h \in [Values -> Checks] |-> [schema \in Values |-> CheckNode(schema, h)]]
  <1>1. Pass \in [[Values -> Checks] -> [Values -> Checks]]
    BY CheckTyped
  <1>2. \A h, k \in [Values -> Checks] : \A v \in Values :
           (\A w \in Values : Depth[w] < Depth[v] => h[w] = k[w]) => Pass[h][v] = Pass[k][v]
    BY CheckLocal
  <1>3. "refused" \in Checks /\ Depth \in [Values -> Nat]
    BY JsonAssumption DEF Checks
  <1>4. \E h \in [Values -> Checks] : h = Pass[h]
    <2> HIDE DEF Pass
    <2>1. LooksDown(Pass, Values, Checks, Depth)
      BY <1>1, <1>2 DEF LooksDown
    <2> QED
      BY <1>3, <2>1, PassHasFixpoint
  <1>5. \E h : h = [schema \in Values |-> CheckNode(schema, h)]
    BY <1>4
  <1>6. Check = [schema \in Values |-> CheckNode(schema, Check)]
    BY <1>5, Zenon DEF Check
  <1> QED
    BY <1>6

-----------------------------------------------------------------------------
(* Schemas that were accepted *)

(* An accepted schema names its type, and has no keyword but those of the  *)
(* type.                                                                   *)
LEMMA AcceptedRoot ==
    ASSUME NEW s \in Accepted
    PROVE  /\ s \in Values /\ s.is = "object"
           /\ Has(s, "type") /\ TypeOf(s) = Str(TypeOf(s).str)
           /\ TypeOf(s).str \in DOMAIN Keywords
           /\ Keys(s) \subseteq Keywords[TypeOf(s).str]
           /\ TypeOf(s).str = "object" => CheckObject(s, Check) = "accepted"
           /\ TypeOf(s).str = "array" => CheckArray(s, Check) = "accepted"
           /\ TypeOf(s).str = "string" => CheckString(s) = "accepted"
           /\ TypeOf(s).str \in {"integer", "number"} =>
                 CheckBounds(s, "minimum", "maximum", Finite) = "accepted"
  <1>1. s \in Values /\ CheckNode(s, Check) = "accepted"
    BY CheckIs DEF Accepted
  <1>2. /\ s.is = "object" /\ TypeOf(s) \in {Str(t) : t \in DOMAIN Keywords}
        /\ Keys(s) \subseteq Keywords[TypeOf(s).str]
    BY <1>1 DEF CheckNode
  <1>3. TypeOf(s).is \notin {"array", "object"}
    BY <1>1, <1>2 DEF CheckNode
  <1>4. PICK t \in DOMAIN Keywords : TypeOf(s) = Str(t)
    BY <1>2
  <1>5. TypeOf(s).str = t
    BY <1>4 DEF Str
  <1>6. Has(s, "type")
    <2>1. CASE ~Has(s, "type")
      BY <2>1, <1>4 DEF TypeOf, Get, Null, Str
    <2> QED
      BY <2>1
  <1>7. /\ t = "object" => CheckObject(s, Check) = "accepted"
        /\ t = "array" => CheckArray(s, Check) = "accepted"
        /\ t = "string" => CheckString(s) = "accepted"
        /\ t \in {"integer", "number"} => CheckBounds(s, "minimum", "maximum", Finite) = "accepted"
    BY <1>1, <1>2, <1>3, <1>5 DEF CheckNode
  <1> QED
    BY <1>1, <1>2, <1>4, <1>5, <1>6, <1>7

(* The bounds of an accepted schema are there and right, or are not there. *)
LEMMA BoundsAccepted ==
    ASSUME NEW s, NEW low, NEW high, NEW key \in {low, high}, Has(s, key)
    PROVE  /\ CheckBounds(s, low, high, NonNegative) = "accepted" =>
                 Get(s, key, Null) # Null /\ NonNegative(Get(s, key, Null)) = "accepted"
           /\ CheckBounds(s, low, high, Finite) = "accepted" =>
                 Get(s, key, Null) # Null /\ Finite(Get(s, key, Null)) = "accepted"
  BY DEF CheckBounds

(* What an accepted schema of an object says is well formed, and each of   *)
(* its properties has an accepted schema.                                  *)
LEMMA ObjectAccepted ==
    ASSUME NEW s \in Accepted, TypeOf(s).str = "object"
    PROVE  /\ Properties(s).is = "object"
           /\ \A i \in DOMAIN Properties(s).fields : Properties(s).fields[i][2] \in Accepted
           /\ UniqueStrings(Get(s, "required", Arr(<<>>)))
           /\ Get(s, "additionalProperties", Bool(TRUE)).is = "boolean"
  <1> DEFINE p == Properties(s)
             parts == [i \in DOMAIN p.fields |-> Check[p.fields[i][2]]]
             Fine == /\ UniqueStrings(Get(s, "required", Arr(<<>>)))
                     /\ \A i \in DOMAIN Get(s, "required", Arr(<<>>)).items :
                           Has(p, Get(s, "required", Arr(<<>>)).items[i].str)
                     /\ Get(s, "additionalProperties", Bool(TRUE)).is = "boolean"
             last == IF Fine THEN "accepted" ELSE "refused"
             all == parts \o <<last>>
  <1>1. s \in Values /\ s.is = "object" /\ CheckObject(s, Check) = "accepted"
    BY AcceptedRoot
  <1>2. p.is = "object" /\ FirstOther("accepted", all) = "accepted"
    BY <1>1 DEF CheckObject, Properties
  <1>3. /\ DOMAIN p.fields = 1 .. Len(p.fields) /\ Len(p.fields) \in Nat
        /\ \A i \in DOMAIN p.fields : p.fields[i][2] \in Values
    BY <1>1, <1>2, PropertiesAre
  <1>4. /\ DOMAIN all = 1 .. Len(p.fields) + 1
        /\ \A i \in DOMAIN p.fields : all[i] = Check[p.fields[i][2]]
        /\ all[Len(p.fields) + 1] = last
    <2> HIDE DEF p, last
    <2>1. Len(parts) = Len(p.fields) /\ parts = [i \in 1 .. Len(p.fields) |-> Check[p.fields[i][2]]]
      BY <1>3
    <2> HIDE DEF parts
    <2>2. /\ DOMAIN all = 1 .. Len(p.fields) + 1
          /\ \A i \in 1 .. Len(p.fields) : all[i] = parts[i]
          /\ all[Len(p.fields) + 1] = last
      BY <1>3, <2>1
    <2> QED
      BY <1>3, <2>1, <2>2
  <1> HIDE DEF all, last, p
  <1>5. \A i \in DOMAIN all : all[i] = "accepted"
    BY <1>2, <1>4, FirstOtherIs
  <1>6. last = "accepted"
    BY <1>3, <1>4, <1>5
  <1>7. \A i \in DOMAIN p.fields : Check[p.fields[i][2]] = "accepted"
    BY <1>3, <1>4, <1>5
  <1> QED
    BY <1>2, <1>3, <1>6, <1>7 DEF last, p, Accepted

(* So has each item of an accepted schema of an array.                     *)
LEMMA ArrayAccepted ==
    ASSUME NEW s \in Accepted, TypeOf(s).str = "array"
    PROVE  /\ Has(s, "items") /\ Get(s, "items", Null) \in Accepted
           /\ Depth[Get(s, "items", Null)] < Depth[s]
           /\ \A key \in {"minItems", "maxItems"} : Has(s, key) =>
                 Get(s, key, Null) # Null /\ NonNegative(Get(s, key, Null)) = "accepted"
  <1> DEFINE all == << Check[Get(s, "items", Null)],
                       CheckBounds(s, "minItems", "maxItems", NonNegative) >>
  <1>1. s \in Values /\ s.is = "object" /\ CheckArray(s, Check) = "accepted"
    BY AcceptedRoot
  <1>2. Has(s, "items") /\ FirstOther("accepted", all) = "accepted"
    BY <1>1 DEF CheckArray
  <1>3. Get(s, "items", Null) \in Values /\ Depth[Get(s, "items", Null)] < Depth[s]
    BY <1>1, <1>2, ObjectParts
  <1>4. DOMAIN all = 1 .. 2 /\ all[1] = Check[Get(s, "items", Null)]
        /\ all[2] = CheckBounds(s, "minItems", "maxItems", NonNegative)
    OBVIOUS
  <1> HIDE DEF all
  <1>5. all[1] = "accepted" /\ all[2] = "accepted"
    BY <1>2, <1>4, FirstOtherIs
  <1> QED
    BY <1>2, <1>3, <1>4, <1>5, BoundsAccepted DEF Accepted

(* The bounds of an accepted schema of a string are right, and its enum    *)
(* and its pattern are None or can be used.                                *)
LEMMA StringAccepted ==
    ASSUME NEW s \in Accepted, TypeOf(s).str = "string"
    PROVE  /\ \A key \in {"minLength", "maxLength"} : Has(s, key) =>
                 Get(s, key, Null) # Null /\ NonNegative(Get(s, key, Null)) = "accepted"
           /\ CheckEnum(s) = "accepted" /\ CheckPattern(s) = "accepted"
  <1> DEFINE all == << CheckBounds(s, "minLength", "maxLength", NonNegative),
                       CheckEnum(s), CheckPattern(s) >>
  <1>1. FirstOther("accepted", all) = "accepted"
    BY AcceptedRoot DEF CheckString
  <1>2. /\ DOMAIN all = 1 .. 3 /\ all[2] = CheckEnum(s) /\ all[3] = CheckPattern(s)
        /\ all[1] = CheckBounds(s, "minLength", "maxLength", NonNegative)
    OBVIOUS
  <1> HIDE DEF all
  <1>3. all[1] = "accepted" /\ all[2] = "accepted" /\ all[3] = "accepted"
    BY <1>1, <1>2, FirstOtherIs
  <1> QED
    BY <1>2, <1>3, BoundsAccepted

(* The schema of a property, looked up by its name. *)
LEMMA PropertyAccepted ==
    ASSUME NEW s \in Accepted, TypeOf(s).str = "object", NEW key, Has(Properties(s), key)
    PROVE  /\ Get(Properties(s), key, Null) \in Accepted
           /\ Depth[Get(Properties(s), key, Null)] < Depth[s]
           /\ Has(s, "properties") /\ Properties(s) = Get(s, "properties", Null)
  <1>1. s \in Values /\ s.is = "object" /\ Properties(s).is = "object"
    BY AcceptedRoot, ObjectAccepted
  <1>2. /\ Depth[Get(Properties(s), key, Null)] < Depth[s]
        /\ \E i \in DOMAIN Properties(s).fields :
              Get(Properties(s), key, Null) = Properties(s).fields[i][2]
    BY <1>1, PropertiesAre
  <1>3. Has(s, "properties")
    <2>1. CASE ~Has(s, "properties")
      <3>1. Properties(s).fields = <<>>
        BY <2>1 DEF Properties, Get, Obj
      <3> QED
        BY <3>1 DEF Has, Keys
    <2> QED
      BY <2>1
  <1>4. Properties(s) = Get(s, "properties", Null)
    BY <1>3 DEF Properties, Get
  <1> QED
    BY <1>2, <1>3, <1>4, ObjectAccepted

-----------------------------------------------------------------------------
(* Validating a value *)

Verdicts == {"valid", "invalid", "raises"}

(* What _validate_value finds for one field of an object. *)
FieldVerdict(s, key, item, validate) ==
    IF Has(Properties(s), key) THEN validate[Get(Properties(s), key, Null)][item]
    ELSE IF Get(s, "additionalProperties", Bool(TRUE)) = Bool(FALSE) THEN "invalid"
    ELSE "valid"

FieldVerdicts(s, v, validate) ==
    [i \in DOMAIN v.fields |-> FieldVerdict(s, v.fields[i][1], v.fields[i][2], validate)]

(* The verdict on an object is that of the names that are required, and    *)
(* then that of the first field that is not valid.                         *)
LEMMA ValidateObjectIs ==
    ASSUME NEW s, NEW v, NEW validate
    PROVE  ValidateObject(s, v, validate) =
              LET required == Get(s, "required", Arr(<<>>)) IN
              IF \E i \in DOMAIN required.items : ~Has(v, required.items[i].str) THEN "invalid"
              ELSE FirstOther("valid", FieldVerdicts(s, v, validate))
  BY DEF ValidateObject, FieldVerdicts, FieldVerdict, Properties

LEMMA ValidateTyped ==
    ASSUME NEW s \in Accepted, NEW v \in Values, NEW h \in [Accepted -> [Values -> Verdicts]]
    PROVE  ValidateNode(s, v, h) \in Verdicts
  <1> DEFINE type == TypeOf(s).str
  <1>1. CASE ~MatchesType(type, v)
    BY <1>1 DEF ValidateNode, Verdicts
  <1>2. CASE MatchesType(type, v) /\ type = "object"
    <2>1. v.is = "object"
      BY <1>2 DEF MatchesType
    <2>2. /\ v.fields \in Seq(STRING \X Values)
          /\ \A i \in DOMAIN v.fields : v.fields[i][2] \in Values
      BY <2>1, ObjectParts
    <2>3. \A i \in DOMAIN v.fields : FieldVerdict(s, v.fields[i][1], v.fields[i][2], h) \in Verdicts
      BY <1>2, <2>2, PropertyAccepted DEF FieldVerdict, Verdicts
    <2> DEFINE all == FieldVerdicts(s, v, h)
    <2>4. DOMAIN all \subseteq Nat /\ \A i \in DOMAIN all : all[i] \in Verdicts
      BY <2>2, <2>3 DEF FieldVerdicts
    <2> HIDE DEF all
    <2>5. FirstOther("valid", all) \in Verdicts
      BY <2>4, FirstOtherIs DEF Verdicts
    <2>6. ValidateObject(s, v, h) \in Verdicts
      BY <2>5, ValidateObjectIs DEF all, Verdicts
    <2> QED
      BY <1>2, <2>6 DEF ValidateNode
  <1>3. CASE MatchesType(type, v) /\ type = "array"
    <2>1. v.is = "array"
      BY <1>3 DEF MatchesType
    <2>2. v.items \in Seq(Values) /\ \A i \in DOMAIN v.items : v.items[i] \in Values
      BY <2>1, ArrayParts
    <2> DEFINE all == [i \in DOMAIN v.items |-> h[Get(s, "items", Null)][v.items[i]]]
    <2>3. DOMAIN all \subseteq Nat /\ \A i \in DOMAIN all : all[i] \in Verdicts
      BY <1>3, <2>2, ArrayAccepted
    <2>4. ValidateArray(s, v, h) \in {"invalid", FirstOther("valid", all)}
      BY DEF ValidateArray
    <2> HIDE DEF all
    <2>5. FirstOther("valid", all) \in Verdicts
      BY <2>3, FirstOtherIs DEF Verdicts
    <2> QED
      BY <1>3, <2>4, <2>5 DEF ValidateNode, Verdicts
  <1>4. CASE MatchesType(type, v) /\ type = "string"
    <2> DEFINE all ==
          << IF ~Has(s, "enum") THEN "valid"
             ELSE IF Get(s, "enum", Null) = Null THEN "raises"
             ELSE IF Str(v.str) \in ToSet(Get(s, "enum", Null).items) THEN "valid" ELSE "invalid",
             IF ~Has(s, "pattern") THEN "valid"
             ELSE IF Get(s, "pattern", Null) = Null THEN "raises"
             ELSE IF v.str \in Patterns[Get(s, "pattern", Null).str] THEN "valid" ELSE "invalid" >>
    <2>1. DOMAIN all \subseteq Nat /\ \A i \in DOMAIN all : all[i] \in Verdicts
      BY DEF Verdicts
    <2>2. ValidateString(s, v.str) \in {"invalid", FirstOther("valid", all)}
      BY DEF ValidateString
    <2> HIDE DEF all
    <2>3. FirstOther("valid", all) \in Verdicts
      BY <2>1, FirstOtherIs DEF Verdicts
    <2> QED
      BY <1>4, <2>2, <2>3 DEF ValidateNode, Verdicts
  <1>5. CASE MatchesType(type, v) /\ type \notin {"object", "array", "string"}
    BY <1>5 DEF ValidateNode, ValidateNumber, Verdicts
  <1> QED
    BY <1>1, <1>2, <1>3, <1>4, <1>5

(* The verdict depends on those of the parts of the schema only. *)
LEMMA ValidateLocal ==
    ASSUME NEW s \in Accepted, NEW v \in Values, NEW h, NEW k,
           \A w \in Accepted : Depth[w] < Depth[s] => h[w] = k[w]
    PROVE  ValidateNode(s, v, h) = ValidateNode(s, v, k)
  <1>1. CASE TypeOf(s).str = "object"
    <2>1. \A key, item : FieldVerdict(s, key, item, h) = FieldVerdict(s, key, item, k)
      BY <1>1, PropertyAccepted DEF FieldVerdict
    <2>2. FieldVerdicts(s, v, h) = FieldVerdicts(s, v, k)
      BY <2>1 DEF FieldVerdicts
    <2>3. ValidateObject(s, v, h) = ValidateObject(s, v, k)
      BY <2>2, ValidateObjectIs
    <2> QED
      BY <1>1, <2>3 DEF ValidateNode
  <1>2. CASE TypeOf(s).str = "array"
    <2>1. h[Get(s, "items", Null)] = k[Get(s, "items", Null)]
      BY <1>2, ArrayAccepted
    <2>2. ValidateArray(s, v, h) = ValidateArray(s, v, k)
      BY <2>1 DEF ValidateArray
    <2> QED
      BY <1>2, <2>2 DEF ValidateNode
  <1>3. CASE TypeOf(s).str \notin {"object", "array"}
    BY <1>3 DEF ValidateNode
  <1> QED
    BY <1>1, <1>2, <1>3

(* The recursion of _validate_value ends. *)
LEMMA ValidateIs ==
    \A s \in Accepted : \A v \in Values : Validate[s][v] = ValidateNode(s, v, Validate)
  <1> DEFINE R == [Values -> Verdicts]
             Pass == [h \in [Accepted -> R] |->
                        [s \in Accepted |-> [v \in Values |-> ValidateNode(s, v, h)]]]
             depth == [s \in Accepted |-> Depth[s]]
  <1>1. Pass \in [[Accepted -> R] -> [Accepted -> R]]
    BY ValidateTyped
  <1>2. ASSUME NEW h \in [Accepted -> R], NEW k \in [Accepted -> R], NEW s \in Accepted,
               \A w \in Accepted : depth[w] < depth[s] => h[w] = k[w]
        PROVE  Pass[h][s] = Pass[k][s]
    <2>1. \A w \in Accepted : Depth[w] < Depth[s] => h[w] = k[w]
      BY <1>2
    <2>2. \A v \in Values : ValidateNode(s, v, h) = ValidateNode(s, v, k)
      BY <2>1, ValidateLocal
    <2> HIDE DEF R
    <2> QED
      BY <2>2
  <1>3. depth \in [Accepted -> Nat] /\ [v \in Values |-> "valid"] \in R
    BY JsonAssumption DEF Accepted, Verdicts
  <1>4. \E h \in [Accepted -> R] : h = Pass[h]
    <2> HIDE DEF Pass, R, depth
    <2>1. LooksDown(Pass, Accepted, R, depth)
      BY <1>1, <1>2 DEF LooksDown
    <2> QED
      BY <1>3, <2>1, PassHasFixpoint
  <1>5. PICK h \in [Accepted -> R] :
           h = [s \in Accepted |-> [v \in Values |-> ValidateNode(s, v, h)]]
    BY <1>4
  <1>6. Validate = [s \in Accepted |-> [v \in Values |-> ValidateNode(s, v, Validate)]]
    BY <1>5, Zenon DEF Validate
  <1> QED
    BY <1>6

-----------------------------------------------------------------------------
(* What a schema means *)

(* Each keyword that may stand in an accepted schema. *)
LEMMA KeywordsOf ==
    ASSUME NEW s \in Accepted
    PROVE  /\ TypeOf(s).str = "object" =>
                 Keys(s) \subseteq {"type", "properties", "required", "additionalProperties"}
           /\ TypeOf(s).str = "array" => Keys(s) \subseteq {"type", "items", "minItems", "maxItems"}
           /\ TypeOf(s).str = "string" =>
                 Keys(s) \subseteq {"type", "minLength", "maxLength", "enum", "pattern"}
           /\ TypeOf(s).str \in {"integer", "number"} => Keys(s) \subseteq {"type", "minimum", "maximum"}
           /\ TypeOf(s).str \in {"boolean", "null"} => Keys(s) \subseteq {"type"}
           /\ TypeOf(s).str \in
                 {"object", "array", "string", "integer", "number", "boolean", "null"}
  BY AcceptedRoot DEF Keywords

(* Whether a value conforms depends on whether parts of it conform to      *)
(* parts of the schema.                                                    *)
LEMMA ConformsLocal ==
    ASSUME NEW s \in Accepted, NEW v, NEW h, NEW k,
           \A w \in Accepted : Depth[w] < Depth[s] => h[w] = k[w]
    PROVE  ConformsTo(s, v, h) = ConformsTo(s, v, k)
  <1> SUFFICES ASSUME NEW key \in Keys(s)
               PROVE  Obeys(s, key, Get(s, key, Null), v, h) <=> Obeys(s, key, Get(s, key, Null), v, k)
    <2>1. Obeys(s, "type", TypeOf(s), v, h) <=> Obeys(s, "type", TypeOf(s), v, k)
      BY DEF Obeys
    <2>2. ConformsTo(s, v, h) <=> ConformsTo(s, v, k)
      BY <2>1 DEF ConformsTo
    <2> QED
      BY <2>2 DEF ConformsTo
  <1>1. CASE key = "properties"
    <2>1. TypeOf(s).str = "object"
      BY <1>1, KeywordsOf
    <2>2. Get(s, key, Null) = Properties(s)
      BY <1>1 DEF Properties, Get, Has
    <2>3. \A name : Has(Properties(s), name) =>
             h[Get(Properties(s), name, Null)] = k[Get(Properties(s), name, Null)]
      BY <2>1, PropertyAccepted
    <2> QED
      BY <1>1, <2>2, <2>3 DEF Obeys
  <1>2. CASE key = "items"
    <2>1. TypeOf(s).str = "array"
      BY <1>2, KeywordsOf
    <2>2. h[Get(s, "items", Null)] = k[Get(s, "items", Null)]
      BY <2>1, ArrayAccepted
    <2> QED
      BY <1>2, <2>2 DEF Obeys
  <1>3. CASE key \notin {"properties", "items"}
    <2>1. key \in {"type", "required", "additionalProperties", "minItems", "maxItems", "minLength",
                   "maxLength", "enum", "pattern", "minimum", "maximum"}
      BY <1>3, KeywordsOf
    <2> QED
      BY <2>1 DEF Obeys
  <1> QED
    BY <1>1, <1>2, <1>3

LEMMA ConformsIs ==
    \A s \in Accepted : \A v \in Values : Conforms[s][v] <=> ConformsTo(s, v, Conforms)
  <1> DEFINE R == [Values -> BOOLEAN]
             Pass == [h \in [Accepted -> R] |->
                        [s \in Accepted |-> [v \in Values |-> ConformsTo(s, v, h)]]]
             depth == [s \in Accepted |-> Depth[s]]
  <1>1. Pass \in [[Accepted -> R] -> [Accepted -> R]]
    <2>1. \A h \in [Accepted -> R], s \in Accepted, v \in Values : ConformsTo(s, v, h) \in BOOLEAN
      BY DEF ConformsTo
    <2> QED
      BY <2>1
  <1>2. ASSUME NEW h \in [Accepted -> R], NEW k \in [Accepted -> R], NEW s \in Accepted,
               \A w \in Accepted : depth[w] < depth[s] => h[w] = k[w]
        PROVE  Pass[h][s] = Pass[k][s]
    <2>1. \A w \in Accepted : Depth[w] < Depth[s] => h[w] = k[w]
      BY <1>2
    <2>2. \A v \in Values : ConformsTo(s, v, h) = ConformsTo(s, v, k)
      BY <2>1, ConformsLocal
    <2> HIDE DEF R
    <2> QED
      BY <2>2
  <1>3. depth \in [Accepted -> Nat] /\ [v \in Values |-> TRUE] \in R
    BY JsonAssumption DEF Accepted
  <1>4. \E h \in [Accepted -> R] : h = Pass[h]
    <2> HIDE DEF Pass, R, depth
    <2>1. LooksDown(Pass, Accepted, R, depth)
      BY <1>1, <1>2 DEF LooksDown
    <2> QED
      BY <1>3, <2>1, PassHasFixpoint
  <1>5. PICK h \in [Accepted -> R] : h = [s \in Accepted |-> [v \in Values |-> ConformsTo(s, v, h)]]
    BY <1>4
  <1>6. Conforms = [s \in Accepted |-> [v \in Values |-> ConformsTo(s, v, Conforms)]]
    BY <1>5, Zenon DEF Conforms
  <1> QED
    BY <1>6

LEMMA PartsAreValues ==
    ASSUME NEW v \in Values
    PROVE  \A child \in Children(v) : child \in Values /\ Depth[child] < Depth[v]
  <1>1. CASE v.is = "array"
    BY <1>1, ArrayParts DEF Children, ToSet
  <1>2. CASE v.is = "object"
    BY <1>2, ObjectParts DEF Children
  <1>3. CASE v.is \notin {"array", "object"}
    BY <1>3 DEF Children
  <1> QED
    BY <1>1, <1>2, <1>3

HollowNode(schema, hollow) ==
    \/ schema.is = "object" /\ \E key \in {"enum", "pattern"} :
          Has(schema, key) /\ Get(schema, key, Alien) = Null
    \/ \E child \in Children(schema) : hollow[child]

LEMMA HollowIs == \A schema \in Values : Hollow[schema] <=> HollowNode(schema, Hollow)
  <1> DEFINE Pass == [h \in [Values -> BOOLEAN] |-> [schema \in Values |-> HollowNode(schema, h)]]
  <1>1. Pass \in [[Values -> BOOLEAN] -> [Values -> BOOLEAN]]
    BY DEF HollowNode
  <1>2. ASSUME NEW h \in [Values -> BOOLEAN], NEW k \in [Values -> BOOLEAN], NEW schema \in Values,
               \A w \in Values : Depth[w] < Depth[schema] => h[w] = k[w]
        PROVE  Pass[h][schema] = Pass[k][schema]
    <2>1. \A child \in Children(schema) : h[child] = k[child]
      BY <1>2, PartsAreValues
    <2>2. HollowNode(schema, h) = HollowNode(schema, k)
      BY <2>1 DEF HollowNode
    <2> QED
      BY <2>2
  <1>3. \E h \in [Values -> BOOLEAN] : h = Pass[h]
    <2> DEFINE R == BOOLEAN
    <2> HIDE DEF Pass
    <2>1. LooksDown(Pass, Values, R, Depth)
      BY <1>1, <1>2 DEF LooksDown
    <2>2. PICK start \in R : TRUE
      OBVIOUS
    <2> HIDE DEF R
    <2>3. \E h \in [Values -> R] : h = Pass[h]
      BY <2>1, <2>2, PassHasFixpoint, JsonAssumption
    <2> QED
      BY <2>3 DEF R
  <1>4. \E h : h = [schema \in Values |->
           \/ schema.is = "object" /\ \E key \in {"enum", "pattern"} :
                 Has(schema, key) /\ Get(schema, key, Alien) = Null
           \/ \E child \in Children(schema) : h[child]]
    BY <1>3 DEF HollowNode
  <1>5. Hollow = [schema \in Values |->
           \/ schema.is = "object" /\ \E key \in {"enum", "pattern"} :
                 Has(schema, key) /\ Get(schema, key, Alien) = Null
           \/ \E child \in Children(schema) : Hollow[child]]
    BY <1>4, Zenon DEF Hollow
  <1> QED
    BY <1>5 DEF HollowNode

(* A part of a schema that is hollow makes the schema hollow. *)
LEMMA HollowPart ==
    ASSUME NEW schema \in Values, NEW child \in Children(schema), Hollow[child]
    PROVE  Hollow[schema]
  BY HollowIs DEF HollowNode

HugeNode(v, huge) == Beyond(v) \/ \E child \in Children(v) : huge[child]

LEMMA HugeIs == \A v \in Values : Huge[v] <=> HugeNode(v, Huge)
  <1> DEFINE Pass == [h \in [Values -> BOOLEAN] |-> [v \in Values |-> HugeNode(v, h)]]
  <1>1. Pass \in [[Values -> BOOLEAN] -> [Values -> BOOLEAN]]
    BY DEF HugeNode, Beyond
  <1>2. ASSUME NEW h \in [Values -> BOOLEAN], NEW k \in [Values -> BOOLEAN], NEW v \in Values,
               \A w \in Values : Depth[w] < Depth[v] => h[w] = k[w]
        PROVE  Pass[h][v] = Pass[k][v]
    <2>1. \A child \in Children(v) : h[child] = k[child]
      BY <1>2, PartsAreValues
    <2>2. HugeNode(v, h) = HugeNode(v, k)
      BY <2>1 DEF HugeNode
    <2> QED
      BY <2>2
  <1>3. \E h \in [Values -> BOOLEAN] : h = Pass[h]
    <2> DEFINE R == BOOLEAN
    <2> HIDE DEF Pass
    <2>1. LooksDown(Pass, Values, R, Depth)
      BY <1>1, <1>2 DEF LooksDown
    <2>2. PICK start \in R : TRUE
      OBVIOUS
    <2> HIDE DEF R
    <2>3. \E h \in [Values -> R] : h = Pass[h]
      BY <2>1, <2>2, PassHasFixpoint, JsonAssumption
    <2> QED
      BY <2>3 DEF R
  <1>4. \E h : h = [v \in Values |-> Beyond(v) \/ \E child \in Children(v) : h[child]]
    BY <1>3 DEF HugeNode
  <1>5. Huge = [v \in Values |-> Beyond(v) \/ \E child \in Children(v) : Huge[child]]
    BY <1>4, Zenon DEF Huge
  <1> QED
    BY <1>5 DEF HugeNode

(* A part of a value that is huge makes the value huge. *)
LEMMA HugePart ==
    ASSUME NEW v \in Values, NEW child \in Children(v), Huge[child]
    PROVE  Huge[v]
  BY HugeIs DEF HugeNode

-----------------------------------------------------------------------------
(* The validator finds what the schema means: it calls a value valid only  *)
(* if it conforms, invalid only if it does not, and raises only for a      *)
(* schema with an enum or a pattern of None, or for a value with an        *)
(* integer that no float can hold.                                         *)
Agrees(s) ==
    \A v \in Values :
        /\ Validate[s][v] \in Verdicts
        /\ Validate[s][v] = "valid" => Conforms[s][v]
        /\ Validate[s][v] = "invalid" => ~Conforms[s][v]
        /\ Validate[s][v] = "raises" => Hollow[s] \/ Huge[v]

LEMMA TypeObeyed ==
    ASSUME NEW s, NEW v, NEW h
    PROVE  Obeys(s, "type", TypeOf(s), v, h) <=> v.is \in Instances(TypeOf(s).str)
  BY DEF Obeys

(* A keyword is obeyed, or it is None. *)
LEMMA ConformsToIs ==
    ASSUME NEW s, NEW v, NEW h
    PROVE  ConformsTo(s, v, h) <=>
              /\ v.is \in Instances(TypeOf(s).str)
              /\ \A key \in Keys(s) \ {"type"} :
                    Get(s, key, Null) # Null => Obeys(s, key, Get(s, key, Null), v, h)
  BY TypeObeyed DEF ConformsTo

FieldConforms(s, key, item, conforms) ==
    IF Has(Properties(s), key) THEN conforms[Get(Properties(s), key, Null)][item]
    ELSE Get(s, "additionalProperties", Bool(TRUE)) # Bool(FALSE)

(* An object conforms if it has each name that is required, and each of    *)
(* its fields conforms.                                                    *)
LEMMA ObjectConforms ==
    ASSUME NEW s \in Accepted, TypeOf(s).str = "object", NEW v, NEW h
    PROVE  ConformsTo(s, v, h) <=>
              LET required == Get(s, "required", Arr(<<>>)) IN
              /\ v.is = "object"
              /\ \A i \in DOMAIN required.items : Has(v, required.items[i].str)
              /\ \A i \in DOMAIN v.fields : FieldConforms(s, v.fields[i][1], v.fields[i][2], h)
  <1> DEFINE required == Get(s, "required", Arr(<<>>))
             others == Get(s, "additionalProperties", Bool(TRUE))
             Known == \A i \in DOMAIN v.fields : Has(Properties(s), v.fields[i][1]) =>
                         h[Get(Properties(s), v.fields[i][1], Null)][v.fields[i][2]]
             Complete == \A i \in DOMAIN required.items : Has(v, required.items[i].str)
             Closed == others = Bool(FALSE) =>
                          \A i \in DOMAIN v.fields : Has(Properties(s), v.fields[i][1])
  <1>1. /\ s \in Values /\ s.is = "object"
        /\ Keys(s) \subseteq {"type", "properties", "required", "additionalProperties"}
    BY AcceptedRoot, KeywordsOf
  <1>2. Has(s, "properties") =>
           /\ Get(s, "properties", Null) # Null
           /\ Obeys(s, "properties", Get(s, "properties", Null), v, h) <=> Known
    <2>1. SUFFICES ASSUME Has(s, "properties")
                   PROVE  /\ Properties(s) = Get(s, "properties", Null)
                          /\ Properties(s) # Null
      BY DEF Obeys
    <2>2. Properties(s) = Get(s, "properties", Null)
      BY <2>1 DEF Properties, Get
    <2>3. Properties(s).is = "object"
      BY ObjectAccepted
    <2>4. Properties(s) # Null
      BY <2>3 DEF Null
    <2> QED
      BY <2>2, <2>4
  <1>3. ~Has(s, "properties") => Known
    <2>1. ~Has(s, "properties") => Properties(s).fields = <<>>
      BY DEF Properties, Get, Obj
    <2> QED
      BY <2>1 DEF Has, Keys
  <1>4. Has(s, "required") =>
           /\ Get(s, "required", Null) # Null
           /\ Obeys(s, "required", Get(s, "required", Null), v, h) <=> Complete
    <2>1. SUFFICES ASSUME Has(s, "required")
                   PROVE  /\ Get(s, "required", Null) # Null
                          /\ Obeys(s, "required", Get(s, "required", Null), v, h) <=> Complete
      OBVIOUS
    <2>2. required = Get(s, "required", Null)
      BY <2>1 DEF Get
    <2>3. UniqueStrings(required)
      BY ObjectAccepted
    <2>4. Obeys(s, "required", required, v, h)
             <=> {item.str : item \in ToSet(required.items)} \subseteq Keys(v)
      BY DEF Obeys
    <2>5. {item.str : item \in ToSet(required.items)} \subseteq Keys(v) <=> Complete
      BY DEF ToSet, Has
    <2> QED
      BY <2>2, <2>3, <2>4, <2>5 DEF UniqueStrings, Null
  <1>5. ~Has(s, "required") => Complete
    <2>1. ~Has(s, "required") => required.items = <<>>
      BY DEF Get, Arr
    <2> QED
      BY <2>1
  <1>6. others \in {Bool(TRUE), Bool(FALSE)}
    <2>1. others.is = "boolean"
      BY ObjectAccepted
    <2>2. CASE Has(s, "additionalProperties")
      <3>1. others \in Values
        BY <1>1, <2>2, ObjectParts
      <3> HIDE DEF others
      <3> QED
        BY <2>1, <3>1, ScalarShapes
    <2> QED
      BY <2>2 DEF Get
  <1>7. Has(s, "additionalProperties") =>
           /\ Get(s, "additionalProperties", Null) # Null
           /\ Obeys(s, "additionalProperties", Get(s, "additionalProperties", Null), v, h) <=> Closed
    <2>1. SUFFICES ASSUME Has(s, "additionalProperties")
                   PROVE  /\ Get(s, "additionalProperties", Null) # Null
                          /\ Obeys(s, "additionalProperties", Get(s, "additionalProperties", Null), v, h)
                                <=> Closed
      OBVIOUS
    <2>2. others = Get(s, "additionalProperties", Null)
      BY <2>1 DEF Get
    <2>3. Obeys(s, "additionalProperties", others, v, h)
             <=> others.bool \/ Keys(v) \subseteq Keys(Properties(s))
      BY DEF Obeys, Properties
    <2>4. Keys(v) \subseteq Keys(Properties(s))
             <=> \A i \in DOMAIN v.fields : Has(Properties(s), v.fields[i][1])
      BY DEF Has, Keys
    <2>5. others.bool <=> others # Bool(FALSE)
      BY <1>6 DEF Bool
    <2>6. others # Null
      BY <1>6 DEF Bool, Null
    <2> QED
      BY <2>2, <2>3, <2>4, <2>5, <2>6
  <1>8. ~Has(s, "additionalProperties") => Closed
    BY DEF Get, Bool
  <1>9. (\A i \in DOMAIN v.fields : FieldConforms(s, v.fields[i][1], v.fields[i][2], h))
           <=> Known /\ Closed
    BY DEF FieldConforms
  <1>10. v.is \in Instances("object") <=> v.is = "object"
    BY DEF Instances
  <1> DEFINE Obeyed(key) ==
               Has(s, key) /\ Get(s, key, Null) # Null => Obeys(s, key, Get(s, key, Null), v, h)
  <1>11. ConformsTo(s, v, h) <=>
            /\ v.is = "object"
            /\ Obeyed("properties") /\ Obeyed("required") /\ Obeyed("additionalProperties")
    BY <1>1, <1>10, ConformsToIs DEF Has
  <1>12. /\ Obeyed("properties") <=> Known
         /\ Obeyed("required") <=> Complete
         /\ Obeyed("additionalProperties") <=> Closed
    <2> HIDE DEF Known, Complete, Closed
    <2> QED
      BY <1>2, <1>3, <1>4, <1>5, <1>7, <1>8
  <1> HIDE DEF Known, Closed, Obeyed
  <1>13. ConformsTo(s, v, h) <=> v.is = "object" /\ Known /\ Complete /\ Closed
    BY <1>11, <1>12
  <1> QED
    BY <1>9, <1>13

(* So for an array, which is within its bounds, and whose items conform. *)
LEMMA ArrayConforms ==
    ASSUME NEW s \in Accepted, TypeOf(s).str = "array", NEW v, NEW h
    PROVE  ConformsTo(s, v, h) <=>
              /\ v.is = "array"
              /\ Within(s, "minItems", "maxItems", Len(v.items))
              /\ \A i \in DOMAIN v.items : h[Get(s, "items", Null)][v.items[i]]
  <1> DEFINE Obeyed(key) ==
               Has(s, key) /\ Get(s, key, Null) # Null => Obeys(s, key, Get(s, key, Null), v, h)
  <1>1. Keys(s) \subseteq {"type", "items", "minItems", "maxItems"}
    BY KeywordsOf
  <1>2. v.is \in Instances("array") <=> v.is = "array"
    BY DEF Instances
  <1>3. ConformsTo(s, v, h) <=>
           v.is = "array" /\ Obeyed("items") /\ Obeyed("minItems") /\ Obeyed("maxItems")
    BY <1>1, <1>2, ConformsToIs DEF Has
  <1>4. Obeyed("items") <=> \A i \in DOMAIN v.items : h[Get(s, "items", Null)][v.items[i]]
    <2>1. Has(s, "items") /\ Get(s, "items", Null) \in Accepted
      BY ArrayAccepted
    <2>2. Get(s, "items", Null) # Null
      <3>1. Get(s, "items", Null).is = "object"
        BY <2>1, AcceptedRoot
      <3> QED
        BY <3>1 DEF Null
    <2>3. Obeys(s, "items", Get(s, "items", Null), v, h)
             <=> \A item \in ToSet(v.items) : h[Get(s, "items", Null)][item]
      BY DEF Obeys
    <2> QED
      BY <2>1, <2>2, <2>3 DEF ToSet
  <1>5. Obeyed("minItems") /\ Obeyed("maxItems") <=> Within(s, "minItems", "maxItems", Len(v.items))
    <2>1. \A key \in {"minItems", "maxItems"} : Has(s, key) =>
             Get(s, key, Null) # Null /\ NonNegative(Get(s, key, Null)) = "accepted"
      BY ArrayAccepted
    <2>2. \A key \in {"minItems", "maxItems"} : Has(s, key) =>
             Amount(Get(s, key, Null)) = Get(s, key, Null).int
      BY <2>1 DEF NonNegative, Amount
    <2>3. Has(s, "minItems") => (Obeyed("minItems") <=> Len(v.items) >= Amount(Get(s, "minItems", Null)))
      BY <2>1, <2>2 DEF Obeys
    <2>4. Has(s, "maxItems") => (Obeyed("maxItems") <=> Len(v.items) <= Amount(Get(s, "maxItems", Null)))
      BY <2>1, <2>2 DEF Obeys
    <2> QED
      BY <2>3, <2>4 DEF Within
  <1> QED
    BY <1>3, <1>4, <1>5

(* A string, which is as long as it may be, is in the enum and matches the *)
(* pattern, if they are given.                                             *)
LEMMA StringConforms ==
    ASSUME NEW s \in Accepted, TypeOf(s).str = "string", NEW v, NEW h
    PROVE  ConformsTo(s, v, h) <=>
              /\ v.is = "string"
              /\ Within(s, "minLength", "maxLength", Len(v.str))
              /\ Has(s, "enum") /\ Get(s, "enum", Null) # Null
                    => v \in ToSet(Get(s, "enum", Null).items)
              /\ Has(s, "pattern") /\ Get(s, "pattern", Null) # Null
                    => v.str \in Patterns[Get(s, "pattern", Null).str]
  <1> DEFINE Obeyed(key) ==
               Has(s, key) /\ Get(s, key, Null) # Null => Obeys(s, key, Get(s, key, Null), v, h)
  <1>1. Keys(s) \subseteq {"type", "minLength", "maxLength", "enum", "pattern"}
    BY KeywordsOf
  <1>2. v.is \in Instances("string") <=> v.is = "string"
    BY DEF Instances
  <1>3. ConformsTo(s, v, h) <=>
           /\ v.is = "string" /\ Obeyed("minLength") /\ Obeyed("maxLength")
           /\ Obeyed("enum") /\ Obeyed("pattern")
    BY <1>1, <1>2, ConformsToIs DEF Has
  <1>4. /\ Obeyed("enum") <=> (Has(s, "enum") /\ Get(s, "enum", Null) # Null
                                  => v \in ToSet(Get(s, "enum", Null).items))
        /\ Obeyed("pattern") <=> (Has(s, "pattern") /\ Get(s, "pattern", Null) # Null
                                     => v.str \in Patterns[Get(s, "pattern", Null).str])
    BY DEF Obeys
  <1>5. Obeyed("minLength") /\ Obeyed("maxLength")
           <=> Within(s, "minLength", "maxLength", Len(v.str))
    <2>1. \A key \in {"minLength", "maxLength"} : Has(s, key) =>
             Get(s, key, Null) # Null /\ NonNegative(Get(s, key, Null)) = "accepted"
      BY StringAccepted
    <2>2. \A key \in {"minLength", "maxLength"} : Has(s, key) =>
             Amount(Get(s, key, Null)) = Get(s, key, Null).int
      BY <2>1 DEF NonNegative, Amount
    <2>3. Has(s, "minLength") => (Obeyed("minLength") <=> Len(v.str) >= Amount(Get(s, "minLength", Null)))
      BY <2>1, <2>2 DEF Obeys
    <2>4. Has(s, "maxLength") => (Obeyed("maxLength") <=> Len(v.str) <= Amount(Get(s, "maxLength", Null)))
      BY <2>1, <2>2 DEF Obeys
    <2> QED
      BY <2>3, <2>4 DEF Within
  <1> QED
    BY <1>3, <1>4, <1>5

(* A number within its bounds. *)
LEMMA NumberConforms ==
    ASSUME NEW s \in Accepted, TypeOf(s).str \in {"integer", "number"}, NEW v, NEW h
    PROVE  ConformsTo(s, v, h) <=>
              /\ v.is \in Instances(TypeOf(s).str)
              /\ Within(s, "minimum", "maximum", Amount(v))
  <1> DEFINE Obeyed(key) ==
               Has(s, key) /\ Get(s, key, Null) # Null => Obeys(s, key, Get(s, key, Null), v, h)
  <1>1. Keys(s) \subseteq {"type", "minimum", "maximum"}
    BY KeywordsOf
  <1>2. ConformsTo(s, v, h) <=>
           v.is \in Instances(TypeOf(s).str) /\ Obeyed("minimum") /\ Obeyed("maximum")
    BY <1>1, ConformsToIs DEF Has
  <1>3. CheckBounds(s, "minimum", "maximum", Finite) = "accepted"
    BY AcceptedRoot
  <1>4. \A key \in {"minimum", "maximum"} : Has(s, key) => Get(s, key, Null) # Null
    BY <1>3, BoundsAccepted
  <1>5. Has(s, "minimum") => (Obeyed("minimum") <=> Amount(v) >= Amount(Get(s, "minimum", Null)))
    BY <1>4 DEF Obeys
  <1>6. Has(s, "maximum") => (Obeyed("maximum") <=> Amount(v) <= Amount(Get(s, "maximum", Null)))
    BY <1>4 DEF Obeys
  <1> QED
    BY <1>2, <1>5, <1>6 DEF Within

(* The validator and the meaning agree on an object if they agree on the   *)
(* schemas of its properties.                                              *)
LEMMA ObjectAgrees ==
    ASSUME NEW s \in Accepted, TypeOf(s).str = "object",
           \A w \in Accepted : Depth[w] < Depth[s] => Agrees(w)
    PROVE  Agrees(s)
  <1> SUFFICES ASSUME NEW v \in Values
               PROVE  /\ Validate[s][v] \in Verdicts
                      /\ Validate[s][v] = "valid" => ConformsTo(s, v, Conforms)
                      /\ Validate[s][v] = "invalid" => ~ConformsTo(s, v, Conforms)
                      /\ Validate[s][v] = "raises" => Hollow[s] \/ Huge[v]
    BY ConformsIs DEF Agrees
  <1>1. Validate[s][v] = ValidateNode(s, v, Validate)
    BY ValidateIs
  <1>2. CASE v.is # "object"
    <2>1. Validate[s][v] = "invalid"
      BY <1>1, <1>2 DEF ValidateNode, MatchesType
    <2>2. ~ConformsTo(s, v, Conforms)
      BY <1>2, ObjectConforms
    <2> QED
      BY <2>1, <2>2 DEF Verdicts
  <1>3. CASE v.is = "object"
    <2> DEFINE required == Get(s, "required", Arr(<<>>))
               Complete == \A i \in DOMAIN required.items : Has(v, required.items[i].str)
               all == FieldVerdicts(s, v, Validate)
               Field(i) == FieldVerdict(s, v.fields[i][1], v.fields[i][2], Validate)
               Fits(i) == FieldConforms(s, v.fields[i][1], v.fields[i][2], Conforms)
    <2>1. Validate[s][v] = ValidateObject(s, v, Validate)
      BY <1>1, <1>3 DEF ValidateNode, MatchesType
    <2>2. Validate[s][v] = IF Complete THEN FirstOther("valid", all) ELSE "invalid"
      BY <2>1, ValidateObjectIs
    <2>3. ConformsTo(s, v, Conforms) <=> Complete /\ \A i \in DOMAIN v.fields : Fits(i)
      BY <1>3, ObjectConforms
    <2>4. /\ DOMAIN v.fields \subseteq Nat
          /\ \A i \in DOMAIN v.fields : v.fields[i][2] \in Values
      BY <1>3, ObjectParts
    <2>5. DOMAIN all = DOMAIN v.fields /\ \A i \in DOMAIN v.fields : all[i] = Field(i)
      BY DEF FieldVerdicts
    <2>6. ASSUME NEW i \in DOMAIN v.fields
          PROVE  /\ Field(i) \in Verdicts
                 /\ Field(i) = "valid" => Fits(i)
                 /\ Field(i) = "invalid" => ~Fits(i)
                 /\ Field(i) = "raises" => Hollow[s] \/ Huge[v]
      <3> DEFINE key == v.fields[i][1]
                 item == v.fields[i][2]
                 w == Get(Properties(s), key, Null)
      <3>1. CASE ~Has(Properties(s), key)
        <4>1. Field(i) = IF Get(s, "additionalProperties", Bool(TRUE)) = Bool(FALSE)
                         THEN "invalid" ELSE "valid"
          BY <3>1 DEF FieldVerdict
        <4>2. Fits(i) <=> Get(s, "additionalProperties", Bool(TRUE)) # Bool(FALSE)
          BY <3>1 DEF FieldConforms
        <4> HIDE DEF Field, Fits
        <4> QED
          BY <4>1, <4>2 DEF Verdicts
      <3>2. CASE Has(Properties(s), key)
        <4>1. /\ w \in Accepted /\ Depth[w] < Depth[s]
              /\ Has(s, "properties") /\ Properties(s) = Get(s, "properties", Null)
          BY <3>2, PropertyAccepted
        <4>2. Field(i) = Validate[w][item] /\ (Fits(i) <=> Conforms[w][item])
          BY <3>2 DEF FieldVerdict, FieldConforms
        <4>3. /\ Validate[w][item] \in Verdicts
              /\ Validate[w][item] = "valid" => Conforms[w][item]
              /\ Validate[w][item] = "invalid" => ~Conforms[w][item]
              /\ Validate[w][item] = "raises" => Hollow[w] \/ Huge[item]
          <5>1. Agrees(w) /\ item \in Values
            BY <4>1, <2>4
          <5> HIDE DEF w, item
          <5> QED
            BY <5>1 DEF Agrees
        <4>4. Hollow[w] => Hollow[s]
          <5>1. s \in Values /\ s.is = "object"
            BY AcceptedRoot
          <5>2. PICK j \in DOMAIN s.fields : Properties(s) = s.fields[j][2]
            BY <4>1, GetField
          <5>3. Properties(s) \in Children(s)
            BY <5>1, <5>2 DEF Children
          <5>4. PICK k \in DOMAIN Properties(s).fields : w = Properties(s).fields[k][2]
            BY <3>2, GetField
          <5>5. Properties(s).is = "object"
            BY ObjectAccepted
          <5>6. w \in Children(Properties(s))
            BY <5>4, <5>5 DEF Children
          <5>7. Properties(s) \in Values
            BY <5>1, <5>3, PartsAreValues
          <5> HIDE DEF w
          <5> QED
            BY <5>1, <5>3, <5>6, <5>7, HollowPart
        <4>5. Huge[item] => Huge[v]
          <5>1. item \in Children(v)
            BY <1>3 DEF Children
          <5> HIDE DEF item
          <5> QED
            BY <5>1, HugePart
        <4> HIDE DEF Field, Fits
        <4> QED
          BY <4>2, <4>3, <4>4, <4>5
      <3> QED
        BY <3>1, <3>2
    <2> HIDE DEF Complete, all, Field, Fits
    <2>7. \/ FirstOther("valid", all) = "valid" /\ \A i \in DOMAIN v.fields : Field(i) = "valid"
          \/ \E i \in DOMAIN v.fields : Field(i) # "valid" /\ FirstOther("valid", all) = Field(i)
      BY <2>4, <2>5, FirstOtherIs
    <2> QED
      BY <2>2, <2>3, <2>6, <2>7 DEF Verdicts
  <1> QED
    BY <1>2, <1>3

LEMMA ArrayAgrees ==
    ASSUME NEW s \in Accepted, TypeOf(s).str = "array",
           \A w \in Accepted : Depth[w] < Depth[s] => Agrees(w)
    PROVE  Agrees(s)
  <1> SUFFICES ASSUME NEW v \in Values
               PROVE  /\ Validate[s][v] \in Verdicts
                      /\ Validate[s][v] = "valid" => ConformsTo(s, v, Conforms)
                      /\ Validate[s][v] = "invalid" => ~ConformsTo(s, v, Conforms)
                      /\ Validate[s][v] = "raises" => Hollow[s] \/ Huge[v]
    BY ConformsIs DEF Agrees
  <1>1. Validate[s][v] = ValidateNode(s, v, Validate)
    BY ValidateIs
  <1>2. CASE v.is # "array"
    <2>1. Validate[s][v] = "invalid"
      BY <1>1, <1>2 DEF ValidateNode, MatchesType
    <2>2. ~ConformsTo(s, v, Conforms)
      BY <1>2, ArrayConforms
    <2> QED
      BY <2>1, <2>2 DEF Verdicts
  <1>3. CASE v.is = "array"
    <2> DEFINE w == Get(s, "items", Null)
               all == [i \in DOMAIN v.items |-> Validate[w][v.items[i]]]
               Short == Within(s, "minItems", "maxItems", Len(v.items))
    <2>1. Validate[s][v] = ValidateArray(s, v, Validate)
      BY <1>1, <1>3 DEF ValidateNode, MatchesType
    <2>2. Validate[s][v] = IF Short THEN FirstOther("valid", all) ELSE "invalid"
      BY <2>1 DEF ValidateArray
    <2>3. ConformsTo(s, v, Conforms) <=> Short /\ \A i \in DOMAIN v.items : Conforms[w][v.items[i]]
      BY <1>3, ArrayConforms
    <2>4. DOMAIN v.items \subseteq Nat /\ \A i \in DOMAIN v.items : v.items[i] \in Values
      BY <1>3, ArrayParts
    <2>5. DOMAIN all = DOMAIN v.items /\ \A i \in DOMAIN v.items : all[i] = Validate[w][v.items[i]]
      OBVIOUS
    <2>6. Has(s, "items") /\ Agrees(w)
      BY ArrayAccepted
    <2>7. Hollow[w] => Hollow[s]
      <3>1. s \in Values /\ s.is = "object"
        BY AcceptedRoot
      <3>2. PICK j \in DOMAIN s.fields : w = s.fields[j][2]
        BY <2>6, GetField
      <3>3. w \in Children(s)
        BY <3>1, <3>2 DEF Children
      <3> QED
        BY <3>1, <3>3, HollowPart
    <2> HIDE DEF w, all, Short
    <2>8. \A i \in DOMAIN v.items :
             /\ Validate[w][v.items[i]] \in Verdicts
             /\ Validate[w][v.items[i]] = "valid" => Conforms[w][v.items[i]]
             /\ Validate[w][v.items[i]] = "invalid" => ~Conforms[w][v.items[i]]
             /\ Validate[w][v.items[i]] = "raises" => Hollow[w] \/ Huge[v]
      <3>1. \A i \in DOMAIN v.items : v.items[i] \in Children(v)
        BY <1>3 DEF Children, ToSet
      <3> QED
        BY <2>4, <2>6, <3>1, HugePart DEF Agrees
    <2>9. \/ /\ FirstOther("valid", all) = "valid"
             /\ \A i \in DOMAIN v.items : Validate[w][v.items[i]] = "valid"
          \/ \E i \in DOMAIN v.items :
                /\ Validate[w][v.items[i]] # "valid"
                /\ FirstOther("valid", all) = Validate[w][v.items[i]]
      BY <2>4, <2>5, FirstOtherIs
    <2> QED
      BY <2>2, <2>3, <2>7, <2>8, <2>9 DEF Verdicts
  <1> QED
    BY <1>2, <1>3

LEMMA StringAgrees ==
    ASSUME NEW s \in Accepted, TypeOf(s).str = "string"
    PROVE  Agrees(s)
  <1> SUFFICES ASSUME NEW v \in Values
               PROVE  /\ Validate[s][v] \in Verdicts
                      /\ Validate[s][v] = "valid" => ConformsTo(s, v, Conforms)
                      /\ Validate[s][v] = "invalid" => ~ConformsTo(s, v, Conforms)
                      /\ Validate[s][v] = "raises" => Hollow[s] \/ Huge[v]
    BY ConformsIs DEF Agrees
  <1>1. Validate[s][v] = ValidateNode(s, v, Validate)
    BY ValidateIs
  <1>2. CASE v.is # "string"
    <2>1. Validate[s][v] = "invalid"
      BY <1>1, <1>2 DEF ValidateNode, MatchesType
    <2>2. ~ConformsTo(s, v, Conforms)
      BY <1>2, StringConforms
    <2> QED
      BY <2>1, <2>2 DEF Verdicts
  <1>3. CASE v.is = "string"
    <2> DEFINE enum == Get(s, "enum", Null)
               pattern == Get(s, "pattern", Null)
               first == IF ~Has(s, "enum") THEN "valid"
                        ELSE IF enum = Null THEN "raises"
                        ELSE IF v \in ToSet(enum.items) THEN "valid" ELSE "invalid"
               second == IF ~Has(s, "pattern") THEN "valid"
                         ELSE IF pattern = Null THEN "raises"
                         ELSE IF v.str \in Patterns[pattern.str] THEN "valid" ELSE "invalid"
               all == <<first, second>>
               Short == Within(s, "minLength", "maxLength", Len(v.str))
    <2>1. Str(v.str) = v
      BY <1>3, ScalarShapes
    <2>2. Validate[s][v] = ValidateString(s, v.str)
      BY <1>1, <1>3 DEF ValidateNode, MatchesType
    <2>3. Validate[s][v] = IF Short THEN FirstOther("valid", all) ELSE "invalid"
      BY <2>1, <2>2 DEF ValidateString
    <2>4. ConformsTo(s, v, Conforms) <=>
             /\ Short
             /\ Has(s, "enum") /\ enum # Null => v \in ToSet(enum.items)
             /\ Has(s, "pattern") /\ pattern # Null => v.str \in Patterns[pattern.str]
      BY <1>3, StringConforms
    <2>5. first = "raises" \/ second = "raises" => Hollow[s]
      <3>1. s \in Values /\ s.is = "object"
        BY AcceptedRoot
      <3>2. \A key : Has(s, key) => Get(s, key, Alien) = Get(s, key, Null)
        BY DEF Get
      <3> QED
        BY <3>1, <3>2, HollowIs DEF HollowNode
    <2>6. DOMAIN all = 1 .. 2 /\ all[1] = first /\ all[2] = second
      OBVIOUS
    <2>7. /\ first \in Verdicts /\ second \in Verdicts
          /\ first = "valid" => (Has(s, "enum") /\ enum # Null => v \in ToSet(enum.items))
          /\ second = "valid" => (Has(s, "pattern") /\ pattern # Null => v.str \in Patterns[pattern.str])
          /\ first = "invalid" => ~(Has(s, "enum") /\ enum # Null => v \in ToSet(enum.items))
          /\ second = "invalid" =>
                ~(Has(s, "pattern") /\ pattern # Null => v.str \in Patterns[pattern.str])
      BY DEF Verdicts
    <2> HIDE DEF first, second, all, Short, enum, pattern
    <2>8. \/ FirstOther("valid", all) = "valid" /\ first = "valid" /\ second = "valid"
          \/ first # "valid" /\ FirstOther("valid", all) = first
          \/ second # "valid" /\ FirstOther("valid", all) = second
      BY <2>6, FirstOtherIs
    <2> QED
      BY <2>3, <2>4, <2>5, <2>7, <2>8 DEF Verdicts
  <1> QED
    BY <1>2, <1>3

LEMMA OthersAgree ==
    ASSUME NEW s \in Accepted, TypeOf(s).str \in {"integer", "number", "boolean", "null"}
    PROVE  Agrees(s)
  <1> SUFFICES ASSUME NEW v \in Values
               PROVE  \/ Validate[s][v] = "valid" /\ ConformsTo(s, v, Conforms)
                      \/ Validate[s][v] = "invalid" /\ ~ConformsTo(s, v, Conforms)
                      \/ Validate[s][v] = "raises" /\ Huge[v]
    BY ConformsIs DEF Agrees, Verdicts
  <1>1. Validate[s][v] = ValidateNode(s, v, Validate)
    BY ValidateIs
  <1>2. CASE TypeOf(s).str \in {"integer", "number"}
    <2>1. Validate[s][v] = IF MatchesType(TypeOf(s).str, v) THEN ValidateNumber(s, v) ELSE "invalid"
      BY <1>1, <1>2 DEF ValidateNode
    <2>2. v.is \in Instances(TypeOf(s).str) <=> MatchesType(TypeOf(s).str, v) /\ v # NaN
      <3>1. v.is = "nan" => v = NaN
        BY ScalarShapes
      <3>2. NaN.is = "nan"
        BY DEF NaN
      <3> QED
        BY <1>2, <3>1, <3>2 DEF MatchesType, IsNumber, Instances
    <2>3. Beyond(v) => Huge[v]
      BY HugeIs DEF HugeNode
    <2>4. ValidateNumber(s, v) =
             IF Beyond(v) THEN "raises"
             ELSE IF v # NaN /\ Within(s, "minimum", "maximum", Amount(v)) THEN "valid" ELSE "invalid"
      BY DEF ValidateNumber
    <2>5. ConformsTo(s, v, Conforms) <=>
             v.is \in Instances(TypeOf(s).str) /\ Within(s, "minimum", "maximum", Amount(v))
      BY <1>2, NumberConforms
    <2> QED
      BY <2>1, <2>2, <2>3, <2>4, <2>5
  <1>3. CASE TypeOf(s).str \in {"boolean", "null"}
    <2>1. Validate[s][v] = IF v.is = TypeOf(s).str THEN "valid" ELSE "invalid"
      BY <1>1, <1>3 DEF ValidateNode, MatchesType
    <2>2. ConformsTo(s, v, Conforms) <=> v.is = TypeOf(s).str
      BY <1>3, ConformsToIs, KeywordsOf DEF Instances
    <2> QED
      BY <2>1, <2>2
  <1> QED
    BY <1>2, <1>3

(* "Return the first deterministic validation error, or None": for every   *)
(* schema that _validate_schema_node accepts and every value,              *)
(* _validate_value finds what the schema means, keyword by keyword.  It    *)
(* raises for nothing but an enum or a pattern of None in the schema and   *)
(* an integer beyond the largest float in the value.                       *)
THEOREM ValidatorIsExact ==
    \A s \in Accepted : \A v \in Values :
        /\ Validate[s][v] \in {"valid", "invalid", "raises"}
        /\ Validate[s][v] = "valid" => Conforms[s][v]
        /\ Validate[s][v] = "invalid" => ~Conforms[s][v]
        /\ Validate[s][v] = "raises" => Hollow[s] \/ Huge[v]
  <1> DEFINE Upto == {n \in Nat : \A s \in Accepted : Depth[s] < n => Agrees(s)}
  <1>1. \A s \in Accepted : s \in Values /\ Depth[s] \in Nat
    BY JsonAssumption DEF Accepted
  <1>2. 0 \in Upto
    BY <1>1
  <1>3. ASSUME NEW n \in Nat, n \in Upto PROVE n + 1 \in Upto
    <2> SUFFICES ASSUME NEW s \in Accepted, Depth[s] < n + 1 PROVE Agrees(s)
      OBVIOUS
    <2>1. \A w \in Accepted : Depth[w] < Depth[s] => Agrees(w)
      BY <1>1, <1>3
    <2> QED
      BY <2>1, KeywordsOf, ObjectAgrees, ArrayAgrees, StringAgrees, OthersAgree
  <1>4. Upto = Nat
    <2>1. Upto \subseteq Nat
      OBVIOUS
    <2> HIDE DEF Upto
    <2> QED
      BY <1>2, <1>3, <2>1, NaturalsBySteps
  <1>5. ASSUME NEW s \in Accepted PROVE Agrees(s)
    <2>1. Depth[s] + 1 \in Upto /\ Depth[s] < Depth[s] + 1
      BY <1>1, <1>4
    <2> QED
      BY <2>1
  <1> QED
    BY <1>5 DEF Agrees, Verdicts

-----------------------------------------------------------------------------
(* Messages *)

(* An item is found by its key if no other item has that key. *)
LEMMA GetAt ==
    ASSUME NEW fields, NEW i \in DOMAIN fields, NEW key, fields[i][1] = key,
           \A j \in DOMAIN fields : fields[j][1] = key => j = i, NEW default
    PROVE  Has(Obj(fields), key) /\ Get(Obj(fields), key, default) = fields[i][2]
  <1>1. Obj(fields).fields = fields
    BY DEF Obj
  <1> QED
    BY <1>1 DEF Has, Keys, Get

LEMMA RequestFields ==
    ASSUME NEW id, NEW method, NEW params, NEW default
    PROVE  LET v == EncodeRequest(id, method, params) IN
           /\ v # NotJson /\ v # None /\ v.is = "object"
           /\ Get(v, "jsonrpc", default) = Str("2.0")
           /\ Has(v, "id") /\ Get(v, "id", default) = id
           /\ Has(v, "method") /\ Get(v, "method", default) = Str(method)
           /\ Get(v, "params", default) = params
  <1> DEFINE f == << <<"jsonrpc", Str("2.0")>>, <<"id", id>>,
                     <<"method", Str(method)>>, <<"params", params>> >>
  <1>1. /\ DOMAIN f = 1 .. 4
        /\ f[1] = <<"jsonrpc", Str("2.0")>> /\ f[2] = <<"id", id>>
        /\ f[3] = <<"method", Str(method)>> /\ f[4] = <<"params", params>>
    OBVIOUS
  <1>2. EncodeRequest(id, method, params) = Obj(f)
    BY DEF EncodeRequest
  <1> HIDE DEF f
  <1>3. Obj(f) # NotJson /\ Obj(f) # None /\ Obj(f).is = "object"
    BY DEF Obj, NotJson, None
  <1>4. /\ Get(Obj(f), "jsonrpc", default) = Str("2.0")
        /\ Has(Obj(f), "id") /\ Get(Obj(f), "id", default) = id
        /\ Has(Obj(f), "method") /\ Get(Obj(f), "method", default) = Str(method)
        /\ Get(Obj(f), "params", default) = params
    <2>1. \A i \in 1 .. 4 : \A key : f[i][1] = key =>
             (\A j \in 1 .. 4 : f[j][1] = key => j = i)
      BY <1>1
    <2>2. \A i \in 1 .. 4 : \A key : f[i][1] = key =>
             Has(Obj(f), key) /\ Get(Obj(f), key, default) = f[i][2]
      BY <1>1, <2>1, GetAt
    <2> QED
      BY <1>1, <2>2
  <1> QED
    BY <1>2, <1>3, <1>4

LEMMA ResultFields ==
    ASSUME NEW id, NEW result, NEW default
    PROVE  LET v == EncodeResult(id, result) IN
           /\ v # NotJson /\ v # None /\ v.is = "object"
           /\ Has(v, "id") /\ Has(v, "result") /\ ~Has(v, "error") /\ ~Has(v, "method")
           /\ Get(v, "jsonrpc", default) = Str("2.0")
           /\ Get(v, "id", default) = id
           /\ Get(v, "result", default) = result
  <1> DEFINE f == << <<"jsonrpc", Str("2.0")>>, <<"id", id>>, <<"result", result>> >>
  <1>1. /\ DOMAIN f = 1 .. 3
        /\ f[1] = <<"jsonrpc", Str("2.0")>> /\ f[2] = <<"id", id>> /\ f[3] = <<"result", result>>
    OBVIOUS
  <1>2. EncodeResult(id, result) = Obj(f)
    BY DEF EncodeResult
  <1> HIDE DEF f
  <1>3. Obj(f) # NotJson /\ Obj(f) # None /\ Obj(f).is = "object" /\ Obj(f).fields = f
    BY DEF Obj, NotJson, None
  <1>4. /\ Has(Obj(f), "id") /\ Has(Obj(f), "result")
        /\ ~Has(Obj(f), "error") /\ ~Has(Obj(f), "method")
    <2>1. Keys(Obj(f)) = {f[i][1] : i \in 1 .. 3}
      BY <1>1, <1>3 DEF Keys
    <2> QED
      BY <1>1, <2>1 DEF Has
  <1>5. /\ Get(Obj(f), "jsonrpc", default) = Str("2.0")
        /\ Get(Obj(f), "id", default) = id
        /\ Get(Obj(f), "result", default) = result
    <2>1. \A i \in 1 .. 3 : \A key : f[i][1] = key =>
             (\A j \in 1 .. 3 : f[j][1] = key => j = i)
      BY <1>1
    <2>2. \A i \in 1 .. 3 : \A key : f[i][1] = key => Get(Obj(f), key, default) = f[i][2]
      BY <1>1, <2>1, GetAt
    <2> QED
      BY <1>1, <2>2
  <1> QED
    BY <1>2, <1>3, <1>4, <1>5

LEMMA ErrorFields ==
    ASSUME NEW id, NEW code, NEW default
    PROVE  LET v == EncodeError(id, code)  error == Get(v, "error", default) IN
           /\ v # NotJson /\ v # None /\ v.is = "object"
           /\ Has(v, "id") /\ ~Has(v, "result") /\ Has(v, "error") /\ ~Has(v, "method")
           /\ Get(v, "jsonrpc", default) = Str("2.0")
           /\ Get(v, "id", default) = id
           /\ error.is = "object"
           /\ Get(error, "code", default) = Integer(code)
           /\ Get(error, "message", default) = Str("error")
  <1> DEFINE g == << <<"code", Integer(code)>>, <<"message", Str("error")>> >>
             f == << <<"jsonrpc", Str("2.0")>>, <<"id", id>>, <<"error", Obj(g)>> >>
  <1>1. DOMAIN g = 1 .. 2 /\ g[1] = <<"code", Integer(code)>> /\ g[2] = <<"message", Str("error")>>
    OBVIOUS
  <1>2. EncodeError(id, code) = Obj(f)
    BY DEF EncodeError
  <1> HIDE DEF g
  <1>3. /\ DOMAIN f = 1 .. 3
        /\ f[1] = <<"jsonrpc", Str("2.0")>> /\ f[2] = <<"id", id>> /\ f[3] = <<"error", Obj(g)>>
    OBVIOUS
  <1> HIDE DEF f
  <1>4. /\ Obj(f) # NotJson /\ Obj(f) # None /\ Obj(f).is = "object" /\ Obj(f).fields = f
        /\ Obj(g).is = "object"
    BY DEF Obj, NotJson, None
  <1>5. /\ Has(Obj(f), "id") /\ ~Has(Obj(f), "result")
        /\ Has(Obj(f), "error") /\ ~Has(Obj(f), "method")
    <2>1. Keys(Obj(f)) = {f[i][1] : i \in 1 .. 3}
      BY <1>3, <1>4 DEF Keys
    <2> QED
      BY <1>3, <2>1 DEF Has
  <1>6. /\ Get(Obj(f), "jsonrpc", default) = Str("2.0")
        /\ Get(Obj(f), "id", default) = id
        /\ Get(Obj(f), "error", default) = Obj(g)
    <2>1. \A i \in 1 .. 3 : \A key : f[i][1] = key =>
             (\A j \in 1 .. 3 : f[j][1] = key => j = i)
      BY <1>3
    <2>2. \A i \in 1 .. 3 : \A key : f[i][1] = key => Get(Obj(f), key, default) = f[i][2]
      BY <1>3, <2>1, GetAt
    <2> QED
      BY <1>3, <2>2
  <1>7. /\ Get(Obj(g), "code", default) = Integer(code)
        /\ Get(Obj(g), "message", default) = Str("error")
    <2>1. \A i \in 1 .. 2 : \A key : g[i][1] = key =>
             (\A j \in 1 .. 2 : g[j][1] = key => j = i)
      BY <1>1
    <2>2. \A i \in 1 .. 2 : \A key : g[i][1] = key => Get(Obj(g), key, default) = g[i][2]
      BY <1>1, <2>1, GetAt
    <2> QED
      BY <1>1, <2>2
  <1> QED
    BY <1>2, <1>4, <1>5, <1>6, <1>7

(* What the child writes reads back as it was meant. *)
LEMMA DecodeAnswers ==
    ASSUME NEW id, ValidId(id)
    PROVE  /\ \A result : Decode(EncodeResult(id, result))
                             = [message |-> "result", id |-> id, result |-> result]
           /\ \A code : Decode(EncodeError(id, code))
                           = [message |-> "error", id |-> id, code |-> code]
           /\ \A method, params : method # "" =>
                 Decode(EncodeRequest(id, method, params)).params = params
  <1>1. ASSUME NEW result
        PROVE  Decode(EncodeResult(id, result)) = [message |-> "result", id |-> id, result |-> result]
    <2> DEFINE v == EncodeResult(id, result)
    <2>1. /\ v # NotJson /\ v.is = "object"
          /\ Has(v, "id") /\ Has(v, "result") /\ ~Has(v, "error") /\ ~Has(v, "method")
          /\ Get(v, "jsonrpc", Null) = Str("2.0") /\ Get(v, "id", Null) = id
          /\ Get(v, "result", Null) = result
      BY ResultFields
    <2> HIDE DEF v
    <2>2. Decode(v) = DecodeResponse(v)
      BY <2>1 DEF Decode
    <2>3. DecodeResponse(v) = [message |-> "result", id |-> id, result |-> result]
      BY <2>1 DEF DecodeResponse
    <2> QED
      BY <2>2, <2>3 DEF v
  <1>2. ASSUME NEW code
        PROVE  Decode(EncodeError(id, code)) = [message |-> "error", id |-> id, code |-> code]
    <2> DEFINE v == EncodeError(id, code)
               error == Get(v, "error", Null)
    <2>1. /\ v # NotJson /\ v.is = "object"
          /\ Has(v, "id") /\ ~Has(v, "result") /\ Has(v, "error") /\ ~Has(v, "method")
          /\ Get(v, "jsonrpc", Null) = Str("2.0") /\ Get(v, "id", Null) = id
          /\ error.is = "object" /\ Get(error, "code", Null) = Integer(code)
          /\ Get(error, "message", Null) = Str("error")
      BY ErrorFields
    <2>2. /\ Get(error, "code", Null).is = "integer" /\ Get(error, "code", Null).int = code
          /\ Get(error, "message", Null).is = "string"
      BY <2>1 DEF Integer, Str
    <2> HIDE DEF v
    <2>3. Decode(v) = DecodeResponse(v)
      BY <2>1 DEF Decode
    <2>4. DecodeResponse(v) = [message |-> "error", id |-> id, code |-> code]
      BY <2>1, <2>2 DEF DecodeResponse
    <2> QED
      BY <2>3, <2>4 DEF v
  <1>3. ASSUME NEW method, NEW params, method # ""
        PROVE  Decode(EncodeRequest(id, method, params)).params = params
    <2> DEFINE v == EncodeRequest(id, method, params)
    <2>1. /\ v # NotJson /\ v.is = "object"
          /\ Get(v, "jsonrpc", Null) = Str("2.0")
          /\ Has(v, "id") /\ Get(v, "id", Null) = id
          /\ Has(v, "method") /\ Get(v, "method", Null) = Str(method)
          /\ Get(v, "params", Null) = params
      BY RequestFields
    <2> HIDE DEF v
    <2>2. NonEmpty(Str(method))
      BY <1>3 DEF NonEmpty, Str
    <2>3. Decode(v) = [message |-> "request", id |-> id, method |-> Str(method).str, params |-> params]
      BY <2>1, <2>2 DEF Decode
    <2> QED
      BY <2>3 DEF v
  <1> QED
    BY <1>1, <1>2, <1>3

(* What the child may write is no None, and a value if it is an object. *)
LEMMA LinesAre ==
    ASSUME NEW v \in Lines
    PROVE  /\ v # None
           /\ v.is = "object" => v \in Values
           /\ Get(v, "params", Null) \in Values \/ Get(v, "params", Null) = Null \/ v.is # "object"
  <1>1. v \in Values \/ v = NotJson
    BY HostToolsAssumption
  <1>2. CASE v = NotJson
    BY <1>2 DEF NotJson, None
  <1>3. CASE v \in Values
    <2>1. v # None
      <3>1. DOMAIN None = {"message"}
        BY DEF None
      <3>2. "is" \in DOMAIN v
        BY <1>3, JsonAssumption DEF Null, NaN, Alien, Bool, Integer, Floating, Str, Arr, Obj
      <3> QED
        BY <3>1, <3>2
    <2>2. v.is = "object" => Get(v, "params", Null) \in Values \/ Get(v, "params", Null) = Null
      BY <1>3, ObjectParts DEF Get
    <2> QED
      BY <1>3, <2>1, <2>2
  <1> QED
    BY <1>1, <1>2, <1>3

Kinds == {"malformed", "notification", "request", "result", "error"}

(* A message of JSON-RPC 2.0 that the client supports. *)
Supported(v) == (IsCall(v) \/ IsReply(v)) /\ ~Unsupported(v)

(* The IDs that the code takes are those of JSON-RPC 2.0 that it supports, *)
(* and so are the names of methods.                                        *)
LEMMA SupportedParts ==
    ASSUME NEW v \in Lines, v.is = "object"
    PROVE  /\ Has(v, "id") /\ ValidId(Get(v, "id", Null))
                 <=> HasId(v) /\ Get(v, "id", Null).is \notin {"null", "float"}
           /\ NonEmpty(Get(v, "method", Null)) <=>
                 Get(v, "method", Null).is = "string" /\ Get(v, "method", Null) # Str("")
           /\ NonEmpty(Get(v, "method", Null)) => Has(v, "method")
           /\ ~Has(v, "method") => Get(v, "method", Null) # Str("") /\ Get(v, "method", Null).is = "null"
  <1>1. ~Has(v, "method") => Get(v, "method", Null) = Null
    BY DEF Get
  <1>2. Null.is = "null" /\ Str("").is = "string" /\ Str("").str = ""
    BY DEF Null, Str
  <1>3. ASSUME Has(v, "method"), Get(v, "method", Null).is = "string"
        PROVE  Get(v, "method", Null) = Str(Get(v, "method", Null).str)
    <2> DEFINE method == Get(v, "method", Null)
    <2>1. v \in Values
      BY LinesAre
    <2>2. method \in Values
      BY <1>3, <2>1, ObjectParts
    <2>3. method.is = "string"
      BY <1>3
    <2> HIDE DEF method
    <2>4. method = Str(method.str)
      BY <2>2, <2>3, ScalarShapes
    <2> QED
      BY <2>4 DEF method
  <1>4. Has(v, "id") /\ ValidId(Get(v, "id", Null))
           <=> HasId(v) /\ Get(v, "id", Null).is \notin {"null", "float"}
    BY DEF HasId, ValidId
  <1>5. NonEmpty(Get(v, "method", Null)) <=>
           Get(v, "method", Null).is = "string" /\ Get(v, "method", Null) # Str("")
    <2> DEFINE method == Get(v, "method", Null)
    <2>1. method.is = "string" => method = Str(method.str)
      BY <1>1, <1>2, <1>3
    <2> HIDE DEF method
    <2>2. NonEmpty(method) <=> method.is = "string" /\ method # Str("")
      BY <1>2, <2>1 DEF NonEmpty
    <2> QED
      BY <2>2 DEF method
  <1> QED
    BY <1>1, <1>2, <1>4, <1>5 DEF NonEmpty

(* A line is sorted by what JSON-RPC 2.0 says of it, as far as the client  *)
(* supports it.                                                            *)
LEMMA DecodeSorts ==
    ASSUME NEW v \in Lines
    PROVE  LET m == Decode(v) IN
           /\ m.message \in Kinds
           /\ m.message = "malformed" <=> ~Supported(v)
           /\ m.message = "request" <=> Supported(v) /\ IsCall(v) /\ Has(v, "id")
           /\ m.message = "request" =>
                 ValidId(m.id) /\ m.id = Get(v, "id", Null) /\ m.params = Get(v, "params", Null)
           /\ m.message = "result" =>
                 IsReply(v) /\ m.id = Get(v, "id", Null) /\ m.result = Get(v, "result", Null)
  <1> DEFINE id == Get(v, "id", Null)
             method == Get(v, "method", Null)
  <1>1. CASE ~Version2(v)
    <2>1. Decode(v) = Malformed
      BY <1>1 DEF Version2, Decode
    <2> QED
      BY <1>1, <2>1 DEF Malformed, Supported, IsCall, IsReply, Kinds
  <1>2. CASE Version2(v)
    <2>1. /\ Has(v, "id") /\ ValidId(id) <=> HasId(v) /\ id.is \notin {"null", "float"}
          /\ NonEmpty(method) <=> method.is = "string" /\ method # Str("")
          /\ NonEmpty(method) => Has(v, "method")
          /\ ~Has(v, "method") => method # Str("") /\ method.is = "null"
      BY <1>2, SupportedParts DEF Version2
    <2>2. HasId(v) => Has(v, "id")
      BY DEF HasId
    <2> HIDE DEF id, method
    <2>3. Unsupported(v) <=> (Has(v, "id") /\ id.is \in {"null", "float"}) \/ method = Str("")
      BY DEF Unsupported, id, method
    <2>4. IsCall(v) <=> method.is = "string" /\ (Has(v, "id") => HasId(v))
      BY <1>2 DEF IsCall, method
    <2>5. CASE ~Has(v, "method")
      <3> DEFINE m == DecodeResponse(v)
      <3>1. Decode(v) = m
        BY <1>2, <2>5 DEF Version2, Decode
      <3>2. ~IsCall(v)
        BY <2>1, <2>4, <2>5
      <3>3. IsReply(v) <=>
               /\ HasId(v) /\ ~(Has(v, "result") <=> Has(v, "error"))
               /\ Has(v, "error") => IsError(Get(v, "error", Null))
        <4>1. "method" \notin Keys(v)
          BY <2>5 DEF Has
        <4>2. Keys(v) \cap {"method", "result", "error"} \in {{"result"}, {"error"}}
                 <=> ~(Has(v, "result") <=> Has(v, "error"))
          <5>1. Keys(v) \cap {"method", "result", "error"} = {"result"}
                   <=> Has(v, "result") /\ ~Has(v, "error")
            BY <4>1 DEF Has
          <5>2. Keys(v) \cap {"method", "result", "error"} = {"error"}
                   <=> ~Has(v, "result") /\ Has(v, "error")
            BY <4>1 DEF Has
          <5> QED
            BY <5>1, <5>2
        <4> QED
          BY <1>2, <4>2 DEF IsReply
      <3>4. Supported(v) <=>
               /\ Has(v, "id") /\ ValidId(id) /\ ~(Has(v, "result") <=> Has(v, "error"))
               /\ Has(v, "error") => IsError(Get(v, "error", Null))
        BY <2>1, <2>2, <2>3, <2>5, <3>2, <3>3 DEF Supported
      <3>5. /\ m.message \in {"malformed", "result", "error"}
            /\ m.message = "malformed" <=>
                  ~(/\ Has(v, "id") /\ ValidId(id) /\ ~(Has(v, "result") <=> Has(v, "error"))
                    /\ Has(v, "error") => IsError(Get(v, "error", Null)))
            /\ m.message = "result" => m.id = id /\ m.result = Get(v, "result", Null)
        BY DEF DecodeResponse, Malformed, IsError, id
      <3> HIDE DEF m
      <3> QED
        BY <3>1, <3>2, <3>3, <3>4, <3>5 DEF Kinds, Supported, id
    <2>6. CASE Has(v, "method")
      <3>1. ~IsReply(v)
        BY <2>6 DEF IsReply, Has
      <3>2. CASE ~NonEmpty(method)
        <4>1. Decode(v) = Malformed
          BY <1>2, <2>6, <3>2 DEF Version2, Decode, method
        <4>2. ~Supported(v)
          BY <2>1, <2>3, <2>4, <3>1, <3>2 DEF Supported
        <4> QED
          BY <4>1, <4>2 DEF Malformed, Kinds
      <3>3. CASE NonEmpty(method) /\ ~Has(v, "id")
        <4>1. Decode(v) = [message |-> "notification", method |-> method.str,
                           params |-> Get(v, "params", Null)]
          BY <1>2, <2>6, <3>3 DEF Version2, Decode, method
        <4>2. Supported(v)
          BY <2>1, <2>3, <2>4, <3>3 DEF Supported
        <4> QED
          BY <3>3, <4>1, <4>2 DEF Kinds
      <3>4. CASE NonEmpty(method) /\ Has(v, "id") /\ ~ValidId(id)
        <4>1. Decode(v) = Malformed
          BY <1>2, <2>6, <3>4 DEF Version2, Decode, method, id
        <4>2. ~Supported(v)
          BY <2>1, <2>3, <2>4, <3>1, <3>4 DEF Supported
        <4> QED
          BY <4>1, <4>2 DEF Malformed, Kinds
      <3>5. CASE NonEmpty(method) /\ Has(v, "id") /\ ValidId(id)
        <4>1. Decode(v) = [message |-> "request", id |-> id,
                           method |-> method.str, params |-> Get(v, "params", Null)]
          BY <1>2, <2>6, <3>5 DEF Version2, Decode, method, id
        <4>2. Supported(v) /\ IsCall(v)
          BY <2>1, <2>3, <2>4, <3>5 DEF Supported
        <4> QED
          BY <3>5, <4>1, <4>2 DEF Kinds, id
      <3> QED
        BY <3>2, <3>3, <3>4, <3>5
    <2> QED
      BY <2>5, <2>6
  <1> QED
    BY <1>1, <1>2

(* The checks of handle() let through the four fields and nothing else. *)
LEMMA EnvelopeIs ==
    ASSUME NEW params, params \in Values \/ params = Null
    PROVE  Envelope(params) <=> IsEnvelope(params)
  <1>1. CASE params.is # "object"
    BY <1>1 DEF Envelope, IsEnvelope
  <1>2. CASE params.is = "object"
    <2> DEFINE f == params.fields
               n == Len(f)
               key == [i \in 1 .. n |-> f[i][1]]
    <2>1. params \in Values
      BY <1>2 DEF Null
    <2>2. /\ f \in Seq(STRING \X Values)
          /\ \A i \in DOMAIN f : Get(params, f[i][1], Null) = f[i][2]
          /\ \A i, j \in DOMAIN f : f[i][1] = f[j][1] => i = j
      BY <1>2, <2>1, ObjectParts
    <2>3. DOMAIN f = 1 .. n /\ n \in Nat /\ Keys(params) = {key[i] : i \in 1 .. n}
      <3>1. DOMAIN f = 1 .. n /\ n \in Nat
        BY <2>2
      <3>2. Keys(params) = {f[i][1] : i \in 1 .. n}
        BY <3>1 DEF Keys
      <3>3. \A i \in 1 .. n : key[i] = f[i][1]
        OBVIOUS
      <3> HIDE DEF key, n
      <3> QED
        BY <3>1, <3>2, <3>3
    <2>4. ASSUME Keys(params) \subseteq Fields
          PROVE  Keys(params) = Fields <=> n = 4
      <3>1. key \in Injection(1 .. n, Fields)
        <4>1. key \in [1 .. n -> Fields]
          BY <2>3, <2>4
        <4>2. \A a, b \in DOMAIN key : key[a] = key[b] => a = b
          BY <2>2, <2>3
        <4> HIDE DEF key
        <4> QED
          BY <4>1, <4>2 DEF Injection, IsInjective
      <3>2. IsFiniteSet(Fields) /\ Cardinality(Fields) = 4
        <4>1. IsFiniteSet({"sessionId"}) /\ Cardinality({"sessionId"}) = 1
          BY FS_Singleton
        <4>2. /\ IsFiniteSet({"sessionId", "callId"})
              /\ Cardinality({"sessionId", "callId"}) = 2
          <5>1. {"sessionId", "callId"} = {"sessionId"} \cup {"callId"}
            OBVIOUS
          <5> QED
            BY <4>1, <5>1, FS_AddElement
        <4>3. /\ IsFiniteSet({"sessionId", "callId", "name"})
              /\ Cardinality({"sessionId", "callId", "name"}) = 3
          <5>1. {"sessionId", "callId", "name"} = {"sessionId", "callId"} \cup {"name"}
            OBVIOUS
          <5> QED
            BY <4>2, <5>1, FS_AddElement
        <4>4. Fields = {"sessionId", "callId", "name"} \cup {"arguments"}
          BY DEF Fields
        <4> QED
          BY <4>3, <4>4, FS_AddElement
      <3>3. Cardinality(1 .. n) = n
        BY <2>3, FS_Interval
      <3> HIDE DEF key
      <3>4. n = 4 <=> key \in Surjection(1 .. n, Fields)
        BY <3>1, <3>2, <3>3, FS_Injection
      <3>5. key \in [1 .. n -> Fields]
        BY <3>1 DEF Injection
      <3> QED
        BY <2>3, <3>4, <3>5 DEF Surjection
    <2>5. Keys(params) \subseteq Fields <=> \A i \in DOMAIN f : f[i][1] \in Fields
      BY DEF Keys
    <2> DEFINE Right(k, item) == IF k = "arguments" THEN item.is = "object"
                                 ELSE item.is = "string" /\ item.str \notin Blanks
    <2>6. IsEnvelope(params) <=>
             /\ Keys(params) \subseteq Fields /\ n = 4
             /\ \A i \in DOMAIN f : Right(f[i][1], f[i][2])
      BY <1>2, <2>5 DEF IsEnvelope
    <2>7. Envelope(params) <=>
             Keys(params) = Fields /\ \A k \in Fields : Right(k, Get(params, k, Null))
      BY <1>2 DEF Envelope, Fields
    <2>8. (\A i \in DOMAIN f : Right(f[i][1], f[i][2]))
             <=> \A k \in Keys(params) : Right(k, Get(params, k, Null))
      <3> HIDE DEF Right
      <3> QED
        BY <2>2 DEF Keys
    <2> HIDE DEF n, Right
    <2> QED
      BY <2>4, <2>6, <2>7, <2>8
  <1> QED
    BY <1>1, <1>2

(* The result on the wire. *)
LEMMA WireFields ==
    ASSUME NEW code, NEW output, NEW default
    PROVE  LET w == Wire(code, output) IN
           /\ Get(w, "callId", default) = Param("callId")
           /\ Get(w, "name", default) = Param("name")
           /\ Get(w, "isError", default) = Bool(code # "success")
           /\ Get(w, "output", default) = output
           /\ Has(w, "error") <=> code # "success"
           /\ code # "success" => Get(Get(w, "error", default), "code", default) = Str(code)
  <1> DEFINE g == << <<"code", Str(code)>> >>
             f == << <<"callId", Param("callId")>>, <<"name", Param("name")>>,
                     <<"isError", Bool(code # "success")>>, <<"output", output>> >>
             all == f \o IF code = "success" THEN <<>> ELSE << <<"error", Obj(g)>> >>
  <1>1. Wire(code, output) = Obj(all)
    BY DEF Wire
  <1>2. DOMAIN g = {1} /\ g[1] = <<"code", Str(code)>>
    OBVIOUS
  <1>3. Get(Obj(g), "code", default) = Str(code)
    <2>1. 1 \in DOMAIN g /\ g[1][1] = "code" /\ \A j \in DOMAIN g : j = 1
      BY <1>2
    <2> HIDE DEF g
    <2> QED
      BY <1>2, <2>1, GetAt
  <1> HIDE DEF g
  <1> DEFINE callId == Param("callId")
             name == Param("name")
             failed == Bool(code # "success")
  <1> HIDE DEF callId, name, failed
  <1>4. /\ f = << <<"callId", callId>>, <<"name", name>>, <<"isError", failed>>, <<"output", output>> >>
        /\ Len(f) = 4
        /\ f[1] = <<"callId", callId>> /\ f[2] = <<"name", name>>
        /\ f[3] = <<"isError", failed>> /\ f[4] = <<"output", output>>
    BY DEF callId, name, failed
  <1> HIDE DEF f
  <1>5. /\ DOMAIN all = IF code = "success" THEN 1 .. 4 ELSE 1 .. 5
        /\ all[1] = <<"callId", callId>> /\ all[2] = <<"name", name>>
        /\ all[3] = <<"isError", failed>> /\ all[4] = <<"output", output>>
        /\ code # "success" => all[5] = <<"error", Obj(g)>>
    <2>1. CASE code = "success"
      <3>1. all = f \o <<>>
        BY <2>1
      <3>2. f \o <<>> = << <<"callId", callId>>, <<"name", name>>, <<"isError", failed>>,
                           <<"output", output>> >>
        BY <1>4
      <3> HIDE DEF all
      <3> QED
        BY <2>1, <3>1, <3>2
    <2>2. CASE code # "success"
      <3> DEFINE last == <<"error", Obj(g)>>
      <3>1. all = f \o <<last>>
        BY <2>2
      <3> HIDE DEF all, last
      <3>2. /\ DOMAIN all = 1 .. 5 /\ all[5] = last
            /\ all[1] = f[1] /\ all[2] = f[2] /\ all[3] = f[3] /\ all[4] = f[4]
        <4>1. f \in Seq({f[1], f[2], f[3], f[4]})
          BY <1>4
        <4> QED
          BY <1>4, <3>1, <4>1
      <3> QED
        BY <1>4, <2>2, <3>2 DEF last
    <2> QED
      BY <2>1, <2>2
  <1> HIDE DEF all
  <1>6. \A i \in DOMAIN all : \A key : all[i][1] = key => \A j \in DOMAIN all : all[j][1] = key => j = i
    BY <1>5
  <1>7. \A i \in DOMAIN all : \A key : all[i][1] = key =>
           Has(Obj(all), key) /\ Get(Obj(all), key, default) = all[i][2]
    BY <1>6, GetAt
  <1>8. /\ Get(Obj(all), "callId", default) = callId /\ Get(Obj(all), "name", default) = name
        /\ Get(Obj(all), "isError", default) = failed /\ Get(Obj(all), "output", default) = output
        /\ code # "success" => Has(Obj(all), "error") /\ Get(Obj(all), "error", default) = Obj(g)
    BY <1>5, <1>7
  <1>9. code = "success" => ~Has(Obj(all), "error")
    <2>1. Obj(all).fields = all
      BY DEF Obj
    <2> QED
      BY <1>5, <2>1 DEF Has, Keys
  <1> QED
    BY <1>1, <1>3, <1>8, <1>9 DEF callId, name, failed

-----------------------------------------------------------------------------
(* The capability that start() sends *)

(* The parameters of a tool that a request tells the child. *)
AnnouncedBy(v, n) ==
    LET capabilities == Get(Decode(v).params, "capabilities", Null)
        tools == Get(Get(capabilities, "hostTools", Null), "tools", Null).items
    IN  {Get(tools[i], "parameters", Null) : i \in {j \in DOMAIN tools :
            Get(tools[j], "name", Null) = Str(n)}}

Initialize ==
    EncodeRequest(Integer(1), "initialize",
        Obj(<< <<"protocolVersion", Integer(1)>>, <<"capabilities", Capability>> >>))

(* Two fields with different keys. *)
LEMMA TwoFields ==
    ASSUME NEW k1, NEW v1, NEW k2, NEW v2, k1 # k2, NEW default
    PROVE  LET v == Obj(<< <<k1, v1>>, <<k2, v2>> >>) IN
           Get(v, k1, default) = v1 /\ Get(v, k2, default) = v2
  <1> DEFINE f == << <<k1, v1>>, <<k2, v2>> >>
  <1>1. DOMAIN f = 1 .. 2 /\ f[1] = <<k1, v1>> /\ f[2] = <<k2, v2>>
    OBVIOUS
  <1> HIDE DEF f
  <1>2. \A i \in 1 .. 2 : \A key : f[i][1] = key => \A j \in 1 .. 2 : f[j][1] = key => j = i
    BY <1>1
  <1>3. \A i \in 1 .. 2 : \A key : f[i][1] = key => Get(Obj(f), key, default) = f[i][2]
    BY <1>1, <1>2, GetAt
  <1>4. Get(Obj(f), k1, default) = v1 /\ Get(Obj(f), k2, default) = v2
    BY <1>1, <1>3
  <1> QED
    BY <1>4 DEF f

(* The child is told the version, and of each tool that is registered the  *)
(* parameters that it has.                                                 *)
LEMMA InitializeTells ==
    ASSUME IsFiniteSet(DOMAIN definitions)
    PROVE  /\ Initialize # None /\ Get(Initialize, "id", Null) = Integer(1)
           /\ Get(Decode(Initialize).params, "protocolVersion", Null) = Integer(1)
           /\ \A n : \A schema \in AnnouncedBy(Initialize, n) :
                 n \in DOMAIN definitions /\ schema = definitions[n]
  <1> DEFINE params == Obj(<< <<"protocolVersion", Integer(1)>>, <<"capabilities", Capability>> >>)
             names == SetToSeq(DOMAIN definitions)
             Tool(n) == Obj(<< <<"name", Str(n)>>, <<"parameters", definitions[n]>> >>)
             tools == [i \in DOMAIN names |-> Tool(names[i])]
             host == Obj(<< <<"version", Integer(1)>>, <<"tools", Arr(tools)>> >>)
  <1>1. ValidId(Integer(1))
    BY DEF ValidId, Integer
  <1>2. Initialize = EncodeRequest(Integer(1), "initialize", params)
    BY DEF Initialize
  <1>3. /\ Get(params, "protocolVersion", Null) = Integer(1)
        /\ Get(params, "capabilities", Null) = Capability
    BY TwoFields
  <1> HIDE DEF params
  <1>4. Initialize # None /\ Get(Initialize, "id", Null) = Integer(1) /\ Decode(Initialize).params = params
    <2> DEFINE id == Integer(1)
               method == "initialize"
    <2>1. ValidId(id) /\ method # ""
      BY <1>1
    <2> HIDE DEF id, method
    <2>2. \A m, p : m # "" => Decode(EncodeRequest(id, m, p)).params = p
      BY <2>1, DecodeAnswers
    <2>3. Decode(EncodeRequest(id, method, params)).params = params
      BY <2>1, <2>2
    <2> QED
      BY <1>2, <2>3, RequestFields DEF id, method
  <1>5. Get(Capability, "hostTools", Null) = host
    <2> DEFINE f == << <<"hostTools", host>> >>
    <2>1. Capability = Obj(f)
      BY DEF Capability
    <2>2. DOMAIN f = {1} /\ f[1] = <<"hostTools", host>>
      OBVIOUS
    <2> HIDE DEF f, host
    <2>3. 1 \in DOMAIN f /\ f[1][1] = "hostTools" /\ \A j \in DOMAIN f : j = 1
      BY <2>2
    <2> QED
      BY <2>1, <2>2, <2>3, GetAt
  <1>6. Get(host, "tools", Null) = Arr(tools)
    BY TwoFields
  <1>7. \A i \in DOMAIN names : names[i] \in DOMAIN definitions
    <2> DEFINE S == DOMAIN definitions
               n == Cardinality(S)
    <2>1. ExistsBijection(1 .. n, S)
      BY FS_CardinalityType
    <2>2. \E f \in [1 .. n -> S] : IsInjective(f)
      BY <2>1 DEF ExistsBijection, Bijection, Injection
    <2>3. SetToSeq(S) \in [1 .. n -> S]
      BY <2>2 DEF SetToSeq
    <2> QED
      BY <2>3
  <1>8. \A n : AnnouncedBy(Initialize, n)
           = {Get(tools[i], "parameters", Null) :
                 i \in {j \in DOMAIN tools : Get(tools[j], "name", Null) = Str(n)}}
    <2>1. Arr(tools).items = tools
      BY DEF Arr
    <2> HIDE DEF tools, host
    <2> QED
      BY <1>3, <1>4, <1>5, <1>6, <2>1 DEF AnnouncedBy
  <1>9. \A i \in DOMAIN names :
           /\ Get(Tool(names[i]), "name", Null) = Str(names[i])
           /\ Get(Tool(names[i]), "parameters", Null) = definitions[names[i]]
    BY TwoFields
  <1>10. DOMAIN tools = DOMAIN names /\ \A i \in DOMAIN names : tools[i] = Tool(names[i])
    OBVIOUS
  <1>11. \A m, n : Str(m) = Str(n) => m = n
    BY DEF Str
  <1> HIDE DEF names, Tool, tools, host
  <1>12. ASSUME NEW n, NEW schema \in AnnouncedBy(Initialize, n)
         PROVE  n \in DOMAIN definitions /\ schema = definitions[n]
    <2>1. PICK i \in DOMAIN names :
             Get(tools[i], "name", Null) = Str(n) /\ schema = Get(tools[i], "parameters", Null)
      BY <1>8, <1>10
    <2>2. names[i] = n
      BY <1>9, <1>10, <1>11, <2>1
    <2> QED
      BY <1>7, <1>9, <1>10, <2>1, <2>2
  <1> QED
    BY <1>3, <1>4, <1>12

-----------------------------------------------------------------------------
(* The invariant *)

(* Each tool has an accepted schema of an object. *)
ToolsInv ==
    /\ DOMAIN definitions \subseteq ToolNames /\ IsFiniteSet(DOMAIN definitions)
    /\ \A n \in DOMAIN definitions :
          definitions[n] \in Accepted /\ TypeOf(definitions[n]) = Str("object")

(* The child was told of tools that are registered since. *)
SentInv ==
    /\ kernel \in {"new", "starting", "ready", "refused", "broken"}
    /\ kernel = "new" => sent = None
    /\ kernel \in {"starting", "ready", "refused"} => sent # None
    /\ sent # None =>
          /\ Get(sent, "id", Null) = Integer(1)
          /\ Get(Decode(sent).params, "protocolVersion", Null) = Integer(1)
          /\ \A n : \A schema \in Announced(n) : n \in DOMAIN definitions /\ schema = definitions[n]

(* What the reader makes of a line. *)
Understood(v) == IF v \in Unreadable THEN Malformed ELSE Decode(v)

(* What became of the line is what the reader makes of it. *)
LineInv ==
    /\ line \in Lines \cup {None}
    /\ task \in {"none", "dispatched", "body", "answered", "failed"}
    /\ task = "none" => request = None
    /\ line = None => task = "none" /\ (sent # None => kernel = "starting")
    /\ line # None =>
          /\ sent # None
          /\ kernel = "broken" <=> Understood(line).message = "malformed" \/ task = "failed"
          /\ kernel = "ready" =>
                /\ Understood(line).message = "result"
                /\ Understood(line).id = Integer(1) /\ Compatible(Understood(line).result)
          /\ task # "none" <=> Understood(line).message = "request"
          /\ task # "none" => request = Understood(line)

IsExecute == request.method = "tool/execute" /\ Envelope(request.params)

Allowed ==
    /\ Param("name").str \in DOMAIN definitions
    /\ Conforms[definitions[Param("name").str]][Param("arguments")]

(* How the body of a tool ended. *)
EndedInv ==
    \/ ended = NotEnded
    \/ \E output \in Outputs : ended = Returned(output)
    \/ \E text \in Texts : ended = Raised(text)
    \/ ended = TimedOut

(* What each answer says of the request, and of the end of the body. *)
Refusal ==
    \/ request.method # "tool/execute" /\ ended = NotEnded /\ answer = EncodeError(request.id, -32601)
    \/ /\ request.method = "tool/execute" /\ ~Envelope(request.params) /\ ended = NotEnded
       /\ answer = EncodeError(request.id, -32602)
    \/ /\ IsExecute /\ Param("name").str \in DOMAIN definitions
       /\ ended = NotEnded
       /\ Hollow[definitions[Param("name").str]] \/ Huge[Param("arguments")]
       /\ answer = EncodeError(request.id, -32603)
    \/ /\ IsExecute /\ ended.body = "returned" /\ Depth[ended.output] > MaxNesting
       /\ answer = EncodeError(request.id, -32603)

Failure(code) ==
    \/ code = "tool_not_found" /\ ended = NotEnded /\ Announced(Param("name").str) = {}
    \/ /\ code = "invalid_arguments" /\ ended = NotEnded /\ Param("name").str \in DOMAIN definitions
       /\ ~Conforms[definitions[Param("name").str]][Param("arguments")]
    \/ code = "invalid_result" /\ Allowed /\ ended.body = "returned" /\ ~IsJson[ended.output]
    \/ code = "execution_error" /\ Allowed /\ ended.body = "raised"
    \/ code = "timeout" /\ Allowed /\ ended = TimedOut

Codes == {"tool_not_found", "invalid_arguments", "invalid_result", "execution_error", "timeout"}

Outcome ==
    /\ IsExecute
    /\ \/ \E code \in Codes : Failure(code) /\ answer = EncodeResult(request.id, Wire(code, Null))
       \/ /\ Allowed
          /\ \E output \in Outputs :
                /\ ended = Returned(output) /\ IsJson[output]
                /\ answer = EncodeResult(request.id, Wire("success", output))

TaskInv ==
    /\ answer = None <=> task # "answered"
    /\ EndedInv
    /\ ended # NotEnded => task \in {"answered", "failed"} /\ context # None
    /\ context # None => IsExecute /\ Allowed /\ context = Param("sessionId")
    /\ task \in {"none", "dispatched"} => context = None
    /\ task = "body" => context # None
    /\ task = "answered" => Refusal \/ Outcome
    /\ task = "failed" => \E v \in Repeated : ~Encodable[v]

HostToolsInv == ToolsInv /\ SentInv /\ LineInv /\ TaskInv

(* The parameters and the fields of a request. *)
LEMMA RequestIs ==
    ASSUME LineInv, task # "none"
    PROVE  /\ line \in Lines /\ line \notin Unreadable /\ request = Decode(line) /\ request # None
           /\ Supported(line) /\ IsCall(line) /\ Has(line, "id")
           /\ ValidId(request.id) /\ request.id = Get(line, "id", Null)
           /\ Envelope(request.params) <=> IsEnvelope(request.params)
           /\ Envelope(request.params) =>
                 /\ Param("arguments") \in Values
                 /\ Param("sessionId").is = "string" /\ Param("sessionId").str \notin Blanks
                 /\ Param("sessionId") # None
                 /\ Param("name") = Str(Param("name").str)
  <1>1. /\ line # None /\ line \in Lines /\ line \notin Unreadable
        /\ request = Decode(line) /\ request.message = "request"
    BY DEF LineInv, Understood, Malformed
  <1>2. /\ Supported(line) /\ IsCall(line) /\ Has(line, "id")
        /\ ValidId(request.id) /\ request.id = Get(line, "id", Null)
        /\ request.params = Get(line, "params", Null)
    BY <1>1, DecodeSorts
  <1>3. request.params \in Values \/ request.params = Null
    BY <1>1, <1>2, LinesAre DEF IsCall, Version2
  <1>4. request # None
    BY <1>1 DEF None
  <1>5. ASSUME Envelope(request.params)
        PROVE  /\ Param("arguments") \in Values
               /\ Param("sessionId").is = "string" /\ Param("sessionId").str \notin Blanks
               /\ Param("sessionId") # None
               /\ Param("name") = Str(Param("name").str)
    <2>1. request.params \in Values /\ request.params.is = "object"
      BY <1>3, <1>5 DEF Envelope, Null
    <2>2. \A key \in Fields : Param(key) \in Values
      BY <1>5, <2>1, ObjectParts DEF Envelope, Param, Has
    <2>3. \A key \in {"sessionId", "name"} : Param(key).is = "string" /\ Param(key).str \notin Blanks
      BY <1>5 DEF Envelope, Param, Fields
    <2>4. Param("sessionId") = Str(Param("sessionId").str) /\ Param("name") = Str(Param("name").str)
      BY <2>2, <2>3, ScalarShapes DEF Fields
    <2>5. Param("sessionId") # None
      <3>1. "is" \in DOMAIN Param("sessionId") /\ "is" \notin DOMAIN None
        BY <2>4 DEF Str, None
      <3> QED
        BY <3>1
    <2> QED
      BY <2>2, <2>3, <2>4, <2>5 DEF Fields
  <1> QED
    BY <1>1, <1>2, <1>3, <1>4, <1>5, EnvelopeIs

LEMMA ToolsGrow ==
    ASSUME NEW d \in Earlier \cup Later, NEW defs, IsFiniteSet(DOMAIN defs), DOMAIN defs \subseteq ToolNames,
           \A n \in DOMAIN defs : defs[n] \in Accepted /\ TypeOf(defs[n]) = Str("object")
    PROVE  LET grown == WithTool(defs, d) IN
           /\ IsFiniteSet(DOMAIN grown) /\ DOMAIN grown \subseteq ToolNames
           /\ \A n \in DOMAIN grown : grown[n] \in Accepted /\ TypeOf(grown[n]) = Str("object")
           /\ \A n \in DOMAIN defs : n \in DOMAIN grown /\ grown[n] = defs[n]
  <1> DEFINE grown == WithTool(defs, d)
  <1>1. CASE grown = defs
    BY <1>1
  <1>2. CASE grown # defs
    <2>1. /\ d.name \in ToolNames /\ d.parameters \in Accepted
          /\ TypeOf(d.parameters) = Str("object") /\ d.name \notin DOMAIN defs
          /\ grown = [n \in DOMAIN defs \cup {d.name} |-> IF n = d.name THEN d.parameters ELSE defs[n]]
      BY <1>2 DEF WithTool
    <2>2. DOMAIN grown = DOMAIN defs \cup {d.name}
      BY <2>1
    <2>3. IsFiniteSet(DOMAIN grown)
      BY <2>2, FS_AddElement
    <2> HIDE DEF grown
    <2> QED
      BY <2>1, <2>2, <2>3 DEF grown
  <1> QED
    BY <1>1, <1>2

(* What is said of a call stays true while tools are registered. *)
LEMMA CallKept ==
    ASSUME request' = request, sent' = sent,
           \A n \in DOMAIN definitions : n \in DOMAIN definitions' /\ definitions'[n] = definitions[n]
    PROVE  /\ \A key : Param(key)' = Param(key)
           /\ \A code, output : Wire(code, output)' = Wire(code, output)
           /\ \A n : Announced(n)' = Announced(n)
           /\ IsExecute' <=> IsExecute
           /\ Allowed => Allowed'
           /\ \A code : ended' = ended /\ Failure(code) => Failure(code)'
           /\ ended' = ended => Repeated' = Repeated
  <1>1. \A key : Param(key)' = Param(key)
    BY DEF Param
  <1>2. \A code, output : Wire(code, output)' = Wire(code, output)
    BY DEF Wire, Param
  <1>3. IsExecute' <=> IsExecute
    BY DEF IsExecute
  <1>4. Allowed => Allowed'
    BY <1>1 DEF Allowed
  <1>5. \A n : Announced(n)' = Announced(n)
    BY DEF Announced
  <1>6. ASSUME NEW code, ended' = ended, Failure(code) PROVE Failure(code)'
    BY <1>1, <1>4, <1>5, <1>6 DEF Failure
  <1>7. ended' = ended => Repeated' = Repeated
    BY <1>1 DEF Repeated
  <1> QED
    BY <1>1, <1>2, <1>3, <1>4, <1>5, <1>6, <1>7

LEMMA HostToolsInitInv == HostToolsInit => HostToolsInv
  <1> SUFFICES ASSUME HostToolsInit PROVE HostToolsInv
    OBVIOUS
  <1> USE DEF HostToolsInit
  <1>1. ToolsInv
    <2>1. DOMAIN NoTools = {} /\ IsFiniteSet({})
      BY FS_EmptySet DEF NoTools
    <2>2. CASE definitions = NoTools
      BY <2>1, <2>2 DEF ToolsInv
    <2>3. CASE \E d \in Earlier : definitions = WithTool(NoTools, d)
      <3>1. PICK d \in Earlier : definitions = WithTool(NoTools, d)
        BY <2>3
      <3> QED
        BY <2>1, <3>1, ToolsGrow DEF ToolsInv
    <2> QED
      BY <2>2, <2>3
  <1>2. SentInv
    BY DEF SentInv
  <1>3. LineInv
    BY DEF LineInv
  <1>4. TaskInv
    BY DEF TaskInv, EndedInv
  <1> QED
    BY <1>1, <1>2, <1>3, <1>4 DEF HostToolsInv

(* What is said of the task stays true while it does not take a step. *)
LEMMA TaskKept ==
    ASSUME TaskInv, UNCHANGED <<sent, request, task, context, ended, answer>>,
           \A n \in DOMAIN definitions : n \in DOMAIN definitions' /\ definitions'[n] = definitions[n]
    PROVE  TaskInv'
  <1>1. /\ \A key : Param(key)' = Param(key)
        /\ \A code, output : Wire(code, output)' = Wire(code, output)
        /\ IsExecute' <=> IsExecute
        /\ Allowed => Allowed'
        /\ \A code : Failure(code) => Failure(code)'
        /\ Repeated' = Repeated
    BY CallKept
  <1>2. Refusal => Refusal'
    BY <1>1 DEF Refusal
  <1>3. Outcome => Outcome'
    BY <1>1 DEF Outcome
  <1>4. EndedInv => EndedInv'
    BY DEF EndedInv
  <1> QED
    BY <1>1, <1>2, <1>3, <1>4 DEF TaskInv

LEMMA RegisterInv ==
    ASSUME HostToolsInv, NEW d \in Later, Register(d) PROVE HostToolsInv'
  <1> USE DEF HostToolsInv
  <1>1. /\ definitions' = WithTool(definitions, d) /\ sent' = sent /\ kernel' = kernel /\ line' = line
        /\ request' = request /\ task' = task /\ context' = context /\ ended' = ended /\ answer' = answer
    BY DEF Register
  <1>2. /\ IsFiniteSet(DOMAIN definitions') /\ DOMAIN definitions' \subseteq ToolNames
        /\ \A n \in DOMAIN definitions' :
              definitions'[n] \in Accepted /\ TypeOf(definitions'[n]) = Str("object")
        /\ \A n \in DOMAIN definitions : n \in DOMAIN definitions' /\ definitions'[n] = definitions[n]
    BY <1>1, ToolsGrow DEF ToolsInv
  <1>3. ToolsInv'
    BY <1>2 DEF ToolsInv
  <1>4. SentInv'
    <2>1. \A n : Announced(n)' = Announced(n)
      BY <1>1 DEF Announced
    <2> QED
      BY <1>1, <1>2, <2>1 DEF SentInv
  <1>5. LineInv'
    BY <1>1 DEF LineInv
  <1>6. TaskInv'
    BY <1>1, <1>2, TaskKept
  <1> QED
    BY <1>3, <1>4, <1>5, <1>6

LEMMA StartInv ==
    ASSUME HostToolsInv, Start PROVE HostToolsInv'
  <1> USE DEF HostToolsInv
  <1>1. /\ kernel = "new" /\ definitions' = definitions /\ line' = line /\ request' = request
        /\ task' = task /\ context' = context /\ ended' = ended /\ answer' = answer
        /\ \/ kernel' = "starting" /\ sent' = Initialize
           \/ kernel' = "broken" /\ sent' = sent
    BY DEF Start, Initialize
  <1>2. sent = None /\ line = None /\ task = "none"
    BY <1>1 DEF SentInv, LineInv
  <1>3. ToolsInv'
    BY <1>1 DEF ToolsInv
  <1>4. SentInv'
    <2>1. /\ Initialize # None /\ Get(Initialize, "id", Null) = Integer(1)
          /\ Get(Decode(Initialize).params, "protocolVersion", Null) = Integer(1)
          /\ \A n : \A schema \in AnnouncedBy(Initialize, n) :
                n \in DOMAIN definitions /\ schema = definitions[n]
      BY InitializeTells DEF ToolsInv
    <2>2. sent' = Initialize => \A n : Announced(n)' = AnnouncedBy(Initialize, n)
      BY DEF Announced, AnnouncedBy
    <2> QED
      BY <1>1, <1>2, <2>1, <2>2 DEF SentInv
  <1>5. LineInv'
    BY <1>1, <1>2 DEF LineInv
  <1>6. TaskInv'
    <2>1. EndedInv'
      BY <1>1 DEF TaskInv, EndedInv
    <2> QED
      BY <1>1, <1>2, <2>1 DEF TaskInv
  <1> QED
    BY <1>3, <1>4, <1>5, <1>6

LEMMA ReceiveInv ==
    ASSUME HostToolsInv, NEW v \in Lines, Receive(v) PROVE HostToolsInv'
  <1> USE DEF HostToolsInv
  <1> DEFINE m == Understood(v)
  <1>1. /\ sent # None /\ line = None /\ line' = v /\ definitions' = definitions
        /\ sent' = sent /\ context' = context /\ ended' = ended /\ answer' = answer
    BY DEF Receive
  <1>2. kernel = "starting" /\ task = "none" /\ request = None /\ context = None /\ answer = None
    BY <1>1 DEF LineInv, TaskInv
  <1>3. v # None
    BY LinesAre
  <1>4. m.message \in Kinds
    BY DecodeSorts DEF Understood, Malformed, Kinds
  <1>5. /\ kernel' \in {"starting", "ready", "refused", "broken"}
        /\ kernel' = "broken" <=> m.message = "malformed"
        /\ kernel' = "ready" => m.message = "result" /\ m.id = Integer(1) /\ Compatible(m.result)
        /\ task' = IF m.message = "request" THEN "dispatched" ELSE "none"
        /\ request' = IF m.message = "request" THEN m ELSE None
    BY <1>2, <1>4 DEF Receive, Kinds, Understood
  <1>6. ToolsInv'
    BY <1>1 DEF ToolsInv
  <1>7. SentInv'
    <2>1. \A n : Announced(n)' = Announced(n)
      BY <1>1 DEF Announced
    <2> QED
      BY <1>1, <1>2, <1>5, <2>1 DEF SentInv
  <1> HIDE DEF m
  <1>8. LineInv'
    BY <1>1, <1>3, <1>5 DEF LineInv, m
  <1>9. TaskInv'
    <2>1. EndedInv'
      BY <1>1 DEF TaskInv, EndedInv
    <2> QED
      BY <1>1, <1>2, <1>5, <2>1 DEF TaskInv
  <1> QED
    BY <1>6, <1>7, <1>8, <1>9

(* A step of the task leaves everything else alone, unless its answer      *)
(* fails.                                                                  *)
LEMMA TaskStep ==
    ASSUME HostToolsInv, task # "none", UNCHANGED <<definitions, sent, line, request>>,
           \/ task \in {"dispatched", "body"} /\ task' \in {"body", "answered"} /\ kernel' = kernel
           \/ task' = "failed" /\ kernel' = "broken",
           TaskInv'
    PROVE  HostToolsInv'
  <1> USE DEF HostToolsInv
  <1>1. ToolsInv'
    BY DEF ToolsInv
  <1>2. line # None /\ sent # None
    BY DEF LineInv
  <1>3. SentInv'
    <2>1. \A n : Announced(n)' = Announced(n)
      BY DEF Announced
    <2> QED
      BY <1>2, <2>1 DEF SentInv
  <1>4. LineInv'
    BY <1>2 DEF LineInv
  <1> QED
    BY <1>1, <1>3, <1>4

(* The answer is written and says what was the matter, or the task fails   *)
(* at a string that it repeats.                                            *)
LEMMA AnswerInv ==
    ASSUME HostToolsInv, task \in {"dispatched", "body"}, NEW response, NEW repeated,
           Answer(response, repeated), UNCHANGED context, response # None,
           repeated \subseteq Repeated', EndedInv', ended' # NotEnded => context # None,
           answer' = response => Refusal' \/ Outcome'
    PROVE  HostToolsInv'
  <1> USE DEF HostToolsInv
  <1>1. /\ UNCHANGED <<definitions, sent, line, request>>
        /\ \/ task' = "answered" /\ answer' = response /\ kernel' = kernel
           \/ /\ task' = "failed" /\ answer' = answer /\ kernel' = "broken"
              /\ \E v \in repeated : ~Encodable[v]
    BY DEF Answer
  <1>2. answer = None
    BY DEF TaskInv
  <1>3. (\A key : Param(key)' = Param(key)) /\ (IsExecute' <=> IsExecute) /\ (Allowed => Allowed')
    BY <1>1, CallKept
  <1>4. context' # None => IsExecute' /\ Allowed' /\ context' = Param("sessionId")'
    BY <1>3 DEF TaskInv
  <1>5. TaskInv'
    BY <1>1, <1>2, <1>4 DEF TaskInv
  <1> QED
    BY <1>1, <1>5, TaskStep

(* What an answer to the call of a tool repeats. *)
LEMMA CallRepeats ==
    ASSUME LineInv, task # "none"
    PROVE  /\ request.id \in Repeated
           /\ IsExecute => {request.id, Param("callId"), Param("name")} \subseteq Repeated
  <1>1. Envelope(request.params) <=> IsEnvelope(request.params)
    BY RequestIs
  <1> QED
    BY <1>1 DEF Repeated, IsExecute

LEMMA HandleInv ==
    ASSUME HostToolsInv, Handle PROVE HostToolsInv'
  <1> USE DEF HostToolsInv
  <1> DEFINE name == Param("name").str
             arguments == Param("arguments")
  <1>1. /\ task = "dispatched" /\ context = None /\ ended = NotEnded /\ ended' = ended
        /\ definitions' = definitions /\ sent' = sent /\ line' = line /\ request' = request
    BY DEF Handle, Refuse, Answer, Finish, TaskInv
  <1>2. /\ \A key : Param(key)' = Param(key)
        /\ \A code, output : Wire(code, output)' = Wire(code, output)
        /\ IsExecute' <=> IsExecute
        /\ Allowed => Allowed'
        /\ \A code : Failure(code) => Failure(code)'
        /\ Repeated' = Repeated
    BY <1>1, CallKept
  <1>3. ASSUME Envelope(request.params), name \in DOMAIN definitions
        PROVE  /\ ValidateArguments(definitions[name], arguments) = "valid"
                     => Conforms[definitions[name]][arguments]
               /\ ValidateArguments(definitions[name], arguments) = "invalid"
                     => ~Conforms[definitions[name]][arguments]
               /\ ValidateArguments(definitions[name], arguments) = "raises"
                     => Hollow[definitions[name]] \/ Huge[arguments]
    <2>1. arguments \in Values
      BY <1>1, <1>3, RequestIs
    <2>2. definitions[name] \in Accepted
      BY <1>3 DEF ToolsInv
    <2> HIDE DEF name, arguments
    <2> QED
      BY <2>1, <2>2, ValidatorIsExact DEF ValidateArguments
  <1>4. EndedInv' /\ ended' = NotEnded
    BY <1>1 DEF EndedInv
  <1>5. ASSUME NEW code, Refuse(code), UNCHANGED context,
               answer' = EncodeError(request.id, code) => Refusal'
        PROVE  HostToolsInv'
    <2>1. EncodeError(request.id, code) # None
      BY ErrorFields
    <2>2. {request.id} \subseteq Repeated'
      BY <1>1, <1>2, CallRepeats
    <2>3. Answer(EncodeError(request.id, code), {request.id})
      BY <1>5 DEF Refuse
    <2> QED
      BY <1>1, <1>4, <1>5, <2>1, <2>2, <2>3, AnswerInv
  <1>6. CASE request.method # "tool/execute" /\ Refuse(-32601) /\ UNCHANGED context
    <2>1. answer' = EncodeError(request.id, -32601) => Refusal'
      BY <1>1, <1>6 DEF Refusal
    <2> QED
      BY <1>5, <1>6, <2>1
  <1>7. CASE /\ request.method = "tool/execute" /\ ~Envelope(request.params)
             /\ Refuse(-32602) /\ UNCHANGED context
    <2>1. answer' = EncodeError(request.id, -32602) => Refusal'
      BY <1>1, <1>7 DEF Refusal
    <2> QED
      BY <1>5, <1>7, <2>1
  <1>8. CASE /\ IsExecute /\ UNCHANGED context
             /\ \/ name \notin DOMAIN definitions /\ Finish("tool_not_found", Null, {})
                \/ /\ name \in DOMAIN definitions
                   /\ ValidateArguments(definitions[name], arguments) = "invalid"
                   /\ Finish("invalid_arguments", Null, {})
    <2>1. PICK code \in Codes : Failure(code) /\ Finish(code, Null, {})
      <3>1. CASE name \notin DOMAIN definitions /\ Finish("tool_not_found", Null, {})
        <4>1. sent # None
          BY <1>1 DEF LineInv
        <4>2. Announced(name) = {}
          BY <3>1, <4>1 DEF SentInv
        <4> QED
          BY <1>1, <3>1, <4>2 DEF Failure, Codes
      <3>2. CASE /\ name \in DOMAIN definitions
                 /\ ValidateArguments(definitions[name], arguments) = "invalid"
                 /\ Finish("invalid_arguments", Null, {})
        BY <1>1, <1>3, <1>8, <3>2 DEF Failure, Codes, IsExecute
      <3> QED
        BY <1>8, <3>1, <3>2
    <2> DEFINE response == EncodeResult(request.id, Wire(code, Null))
               repeated == {request.id, Param("callId"), Param("name")}
    <2>2. Answer(response, repeated)
      <3>1. repeated \cup {} = repeated
        OBVIOUS
      <3> QED
        BY <2>1, <3>1 DEF Finish
    <2>3. answer' = response => Outcome'
      BY <1>1, <1>2, <1>8, <2>1 DEF Outcome
    <2>4. response # None
      BY ResultFields
    <2>5. repeated \subseteq Repeated'
      BY <1>1, <1>2, <1>8, CallRepeats
    <2> HIDE DEF response, repeated
    <2> QED
      BY <1>1, <1>4, <1>8, <2>2, <2>3, <2>4, <2>5, AnswerInv
  <1>9. CASE /\ IsExecute /\ UNCHANGED context /\ name \in DOMAIN definitions
             /\ ValidateArguments(definitions[name], arguments) = "raises"
             /\ Refuse(-32603)
    <2>1. Hollow[definitions[name]] \/ Huge[arguments]
      BY <1>3, <1>9 DEF IsExecute
    <2>2. answer' = EncodeError(request.id, -32603) => Refusal'
      BY <1>1, <1>2, <1>9, <2>1 DEF Refusal
    <2> QED
      BY <1>5, <1>9, <2>2
  <1>10. CASE /\ IsExecute /\ name \in DOMAIN definitions
              /\ ValidateArguments(definitions[name], arguments) = "valid"
              /\ task' = "body" /\ context' = Param("sessionId") /\ answer' = answer /\ kernel' = kernel
    <2>1. Allowed
      BY <1>3, <1>10 DEF Allowed, IsExecute
    <2>2. context' # None
      BY <1>1, <1>10, RequestIs DEF IsExecute
    <2>3. TaskInv'
      BY <1>1, <1>2, <1>4, <1>10, <2>1, <2>2 DEF TaskInv
    <2> QED
      BY <1>1, <1>10, <2>3, TaskStep
  <1> QED
    BY <1>6, <1>7, <1>8, <1>9, <1>10 DEF Handle, IsExecute

(* The kinds of ends are different. *)
LEMMA EndsDiffer ==
    /\ \A output : Returned(output).body = "returned" /\ Returned(output).output = output
    /\ \A text : Raised(text).body = "raised" /\ Raised(text).text = text
    /\ NotEnded.body = "not ended" /\ TimedOut.body = "timed out"
  BY DEF Returned, Raised, NotEnded, TimedOut

LEMMA BodyEndsInv ==
    ASSUME HostToolsInv, BodyEnds PROVE HostToolsInv'
  <1> USE DEF HostToolsInv
  <1>1. /\ task = "body" /\ context' = context /\ context # None /\ IsExecute /\ Allowed
        /\ definitions' = definitions /\ sent' = sent /\ line' = line /\ request' = request
    BY DEF BodyEnds, BodyReturns, BodyRaises, BodyTimesOut, Finish, Refuse, Answer, TaskInv
  <1>2. /\ \A key : Param(key)' = Param(key)
        /\ \A code, output : Wire(code, output)' = Wire(code, output)
        /\ IsExecute' /\ Allowed'
    BY <1>1, CallKept
  <1>3. /\ {request.id, Param("callId"), Param("name")} \subseteq Repeated'
        /\ \A output : ended' = Returned(output) => output \in Repeated'
        /\ \A text : ended' = Raised(text) => text \in Repeated'
    <2>1. Envelope(request.params) <=> IsEnvelope(request.params)
      BY <1>1, RequestIs
    <2>2. ({request.id} \cup {Param("callId"), Param("name")}) \subseteq Repeated'
      BY <1>1, <1>2, <2>1 DEF Repeated, IsExecute
    <2>3. /\ ended'.body = "returned" => ended'.output \in Repeated'
          /\ ended'.body = "raised" => ended'.text \in Repeated'
      BY DEF Repeated
    <2> QED
      BY <2>2, <2>3, EndsDiffer
  <1>4. ASSUME NEW code, NEW output, NEW said, Finish(code, output, said),
               said \subseteq Repeated', EndedInv',
               answer' = EncodeResult(request.id, Wire(code, output)) => Outcome'
        PROVE  HostToolsInv'
    <2> DEFINE response == EncodeResult(request.id, Wire(code, output))
               repeated == {request.id, Param("callId"), Param("name")} \cup said
    <2>1. Answer(response, repeated)
      BY <1>4 DEF Finish
    <2>2. response # None
      BY ResultFields
    <2>3. repeated \subseteq Repeated'
      BY <1>3, <1>4
    <2> HIDE DEF response, repeated
    <2>4. answer' = response => Outcome'
      BY <1>4 DEF response
    <2> QED
      BY <1>1, <1>4, <2>1, <2>2, <2>3, <2>4, AnswerInv
  <1>5. ASSUME NEW output \in Outputs, ended' = Returned(output), IsJson[output],
               Finish("success", output, {output})
        PROVE  HostToolsInv'
    <2>1. answer' = EncodeResult(request.id, Wire("success", output)) => Outcome'
      BY <1>1, <1>2, <1>5 DEF Outcome
    <2>2. EndedInv' /\ {output} \subseteq Repeated'
      BY <1>3, <1>5 DEF EndedInv
    <2> QED
      BY <1>4, <1>5, <2>1, <2>2
  <1>6. ASSUME NEW code \in Codes, NEW said, Finish(code, Null, said), said \subseteq Repeated',
               EndedInv', Failure(code)'
        PROVE  HostToolsInv'
    <2>1. answer' = EncodeResult(request.id, Wire(code, Null)) => Outcome'
      BY <1>1, <1>2, <1>6 DEF Outcome
    <2> QED
      BY <1>4, <1>6, <2>1
  <1>7. ASSUME NEW output \in Outputs, ended' = Returned(output), ~IsJson[output],
               Finish("invalid_result", Null, {})
        PROVE  HostToolsInv'
    <2>1. EndedInv' /\ Failure("invalid_result")'
      BY <1>2, <1>7, EndsDiffer DEF EndedInv, Failure
    <2> QED
      BY <1>6, <1>7, <2>1 DEF Codes
  <1>8. ASSUME NEW output \in Outputs, ended' = Returned(output), Depth[output] > MaxNesting,
               Refuse(-32603)
        PROVE  HostToolsInv'
    <2>1. Answer(EncodeError(request.id, -32603), {request.id})
      BY <1>8 DEF Refuse
    <2>2. EncodeError(request.id, -32603) # None
      BY ErrorFields
    <2>3. {request.id} \subseteq Repeated' /\ EndedInv'
      BY <1>3, <1>8 DEF EndedInv
    <2>4. answer' = EncodeError(request.id, -32603) => Refusal'
      <3>1. ended'.body = "returned" /\ ended'.output = output
        BY <1>8 DEF Returned
      <3>2. Depth[ended'.output] > MaxNesting
        BY <1>8, <3>1
      <3> QED
        BY <1>1, <1>2, <3>1, <3>2 DEF Refusal
    <2> QED
      BY <1>1, <2>1, <2>2, <2>3, <2>4, AnswerInv
  <1>9. ASSUME NEW text \in Texts, BodyRaises(text)
        PROVE  HostToolsInv'
    <2>1. EndedInv' /\ Failure("execution_error")' /\ {text} \subseteq Repeated'
      BY <1>2, <1>3, <1>9, EndsDiffer DEF EndedInv, Failure, BodyRaises
    <2> QED
      BY <1>6, <1>9, <2>1 DEF Codes, BodyRaises
  <1>10. ASSUME BodyTimesOut
         PROVE  HostToolsInv'
    <2>1. EndedInv' /\ Failure("timeout")'
      BY <1>2, <1>10 DEF EndedInv, Failure, BodyTimesOut
    <2> QED
      BY <1>6, <1>10, <2>1 DEF Codes, BodyTimesOut
  <1>11. ASSUME NEW output \in Outputs, BodyReturns(output) PROVE HostToolsInv'
    BY <1>5, <1>7, <1>8, <1>11 DEF BodyReturns
  <1> QED
    BY <1>9, <1>10, <1>11 DEF BodyEnds

LEMMA HostToolsInvariance == HostToolsSpec => []HostToolsInv
  <1>1. HostToolsInv /\ [HostToolsNext]_hostVars => HostToolsInv'
    <2> SUFFICES ASSUME HostToolsInv, [HostToolsNext]_hostVars PROVE HostToolsInv'
      OBVIOUS
    <2>1. CASE UNCHANGED hostVars
      <3>1. /\ definitions' = definitions /\ sent' = sent /\ kernel' = kernel /\ line' = line
            /\ request' = request /\ task' = task /\ context' = context /\ ended' = ended
            /\ answer' = answer
        BY <2>1 DEF hostVars
      <3>2. ToolsInv' /\ LineInv'
        BY <3>1 DEF HostToolsInv, ToolsInv, LineInv
      <3>3. SentInv'
        <4>1. \A n : Announced(n)' = Announced(n)
          BY <3>1 DEF Announced
        <4> QED
          BY <3>1, <4>1 DEF HostToolsInv, SentInv
      <3>4. TaskInv'
        BY <3>1, TaskKept DEF HostToolsInv
      <3> QED
        BY <3>2, <3>3, <3>4 DEF HostToolsInv
    <2> QED
      BY <2>1, RegisterInv, StartInv, ReceiveInv, HandleInv, BodyEndsInv DEF HostToolsNext
  <1> QED
    BY <1>1, HostToolsInitInv, PTL DEF HostToolsSpec

(* Nothing that the child writes takes a variable out of its type, and a   *)
(* tool that is registered has a schema of an object that was accepted.    *)
THEOREM HostToolsTypeCorrectness == HostToolsSpec => []HostToolsTypeOK
  <1>1. HostToolsInv => HostToolsTypeOK
    <2> SUFFICES ASSUME HostToolsInv PROVE HostToolsTypeOK
      OBVIOUS
    <2> USE DEF HostToolsInv
    <2>1. task # "none" => request # None
      BY RequestIs
    <2>2. context # None => context.is = "string" /\ context.str \notin Blanks
      <3>1. context # None => task # "none"
        BY DEF TaskInv
      <3> QED
        BY <3>1, RequestIs DEF TaskInv, IsExecute
    <2>3. ended.body # "not ended" => context # None
      BY EndsDiffer DEF TaskInv
    <2> QED
      BY <2>1, <2>2, <2>3 DEF HostToolsTypeOK, ToolsInv, SentInv, LineInv, TaskInv
  <1> QED
    BY <1>1, HostToolsInvariance, PTL

(* decode_message and the reader: whatever values the child may write, the *)
(* connection ends at a line that is no message of JSON-RPC 2.0, that the  *)
(* client does not support or that it cannot read, and otherwise only when *)
(* a task fails at its answer.  Each request that is taken gets a task,    *)
(* and the client is ready only after an answer to initialize with the     *)
(* version that it asked for.                                              *)
THEOREM HostMessagesAreSorted == HostToolsSpec => []MessagesAreSorted
  <1>1. HostToolsInv => MessagesAreSorted
    <2> SUFFICES ASSUME HostToolsInv, line # None PROVE MessagesAreSorted
      BY DEF MessagesAreSorted
    <2> USE DEF HostToolsInv
    <2>1. line \in Lines
      BY DEF LineInv
    <2>2. Taken(line) <=> line \notin Unreadable /\ Supported(line)
      BY DEF Taken, Supported
    <2>3. kernel = "broken" <=> ~Taken(line) \/ task = "failed"
      BY <2>1, <2>2, DecodeSorts DEF LineInv, Understood, Malformed
    <2>4. task # "none" <=> Taken(line) /\ IsCall(line) /\ Has(line, "id")
      BY <2>1, <2>2, DecodeSorts DEF LineInv, Understood, Malformed
    <2>5. ASSUME kernel = "ready"
          PROVE  /\ IsReply(line) /\ Get(line, "id", Null) = Get(sent, "id", Null)
                 /\ Get(Get(line, "result", Null), "protocolVersion", Null)
                       = Get(Decode(sent).params, "protocolVersion", Null)
      <3>1. /\ Decode(line).message = "result" /\ Decode(line).id = Integer(1)
            /\ Compatible(Decode(line).result)
        BY <2>5 DEF LineInv, Understood, Malformed
      <3>2. /\ IsReply(line) /\ Get(line, "id", Null) = Integer(1)
            /\ Compatible(Get(line, "result", Null))
        BY <2>1, <3>1, DecodeSorts
      <3>3. /\ Get(sent, "id", Null) = Integer(1)
            /\ Get(Decode(sent).params, "protocolVersion", Null) = Integer(1)
        BY <2>5 DEF SentInv
      <3> QED
        BY <3>2, <3>3 DEF Compatible
    <2> QED
      BY <2>3, <2>4, <2>5 DEF MessagesAreSorted
  <1> QED
    BY <1>1, HostToolsInvariance, PTL

(* "invalid arguments produce `invalid_arguments' results without calling  *)
(* the tool body": for every schema and every arguments, the body of a     *)
(* tool runs only for what its schema allows, the one that the child was   *)
(* told if it was told of the tool, and it gets the session of the request.*)
THEOREM HostOnlyConformingCallsRun == HostToolsSpec => []OnlyConformingCallsRun
  <1>1. HostToolsInv => OnlyConformingCallsRun
    <2> SUFFICES ASSUME HostToolsInv, task = "body" PROVE OnlyConformingCallsRun
      BY DEF OnlyConformingCallsRun
    <2> USE DEF HostToolsInv
    <2>1. /\ Param("name").str \in DOMAIN definitions
          /\ Conforms[definitions[Param("name").str]][Param("arguments")]
          /\ context = Param("sessionId")
      BY DEF TaskInv, Allowed
    <2>2. sent # None
      BY DEF LineInv
    <2>3. \A schema \in Announced(Param("name").str) : schema = definitions[Param("name").str]
      BY <2>2 DEF SentInv
    <2> QED
      BY <2>1, <2>3 DEF OnlyConformingCallsRun
  <1> QED
    BY <1>1, HostToolsInvariance, PTL

(* _handle_server_request, handle() and execute(): a request is answered   *)
(* unless a string that its answer repeats cannot be encoded, the child    *)
(* can read each answer as a response to its request, and the code or the  *)
(* result says what was the matter with the request, or how the body       *)
(* ended, for every schema, arguments and output.                          *)
THEOREM HostAnswersAreExact == HostToolsSpec => []AnswersAreExact
  <1>1. HostToolsInv => AnswersAreExact
    <2> SUFFICES ASSUME HostToolsInv, task = "answered" PROVE AnswersAreExact
      BY DEF AnswersAreExact, HostToolsInv, TaskInv
    <2> USE DEF HostToolsInv
    <2> DEFINE back == Decode(answer)
               name == Param("name").str
               Failed == Has(back.result, "error")
               With(code) == Failed /\ Get(Get(back.result, "error", Null), "code", Null) = Str(code)
    <2>1. /\ ValidId(request.id) /\ request.id = Get(line, "id", Null)
          /\ Envelope(request.params) <=> IsEnvelope(request.params)
          /\ Envelope(request.params) => Param("name") = Str(name)
      BY RequestIs
    <2>2. /\ \A code : Decode(EncodeError(request.id, code))
                       = [message |-> "error", id |-> request.id, code |-> code]
          /\ \A result : Decode(EncodeResult(request.id, result))
                         = [message |-> "result", id |-> request.id, result |-> result]
      BY <2>1, DecodeAnswers
    <2>3. CASE Refusal
      <3>1. PICK code \in {-32601, -32602, -32603} :
               /\ answer = EncodeError(request.id, code)
               /\ code = -32601 <=> request.method # "tool/execute"
               /\ code = -32602 <=> request.method = "tool/execute" /\ ~Envelope(request.params)
               /\ code = -32603 =>
                     \/ ended = NotEnded /\ (Hollow[definitions[name]] \/ Huge[Param("arguments")])
                     \/ ended.body = "returned" /\ Depth[ended.output] > MaxNesting
        BY <2>3 DEF Refusal, IsExecute
      <3>2. back = [message |-> "error", id |-> request.id, code |-> code]
        BY <2>2, <3>1
      <3>3. back.message = "error" /\ back.id = request.id /\ back.code = code
        BY <3>2
      <3> HIDE DEF back, name
      <3> QED
        BY <2>1, <3>1, <3>3 DEF AnswersAreExact, back, name
    <2>4. CASE Outcome
      <3>1. PICK code, output :
               /\ code \in Codes \cup {"success"}
               /\ IsExecute /\ answer = EncodeResult(request.id, Wire(code, output))
               /\ code = "success" => Allowed /\ ended = Returned(output) /\ IsJson[output]
               /\ code # "success" => Failure(code) /\ output = Null
        BY <2>4 DEF Outcome, Codes
      <3>2. back = [message |-> "result", id |-> request.id, result |-> Wire(code, output)]
        BY <2>2, <3>1
      <3>3. back.message = "result" /\ back.id = request.id /\ back.result = Wire(code, output)
        BY <3>2
      <3>4. /\ Get(back.result, "callId", Null) = Param("callId")
            /\ Get(back.result, "name", Null) = Str(name)
            /\ Get(back.result, "isError", Null) = Bool(code # "success")
            /\ Get(back.result, "output", Alien) = output
            /\ Failed <=> code # "success"
            /\ code # "success" =>
                  Get(Get(back.result, "error", Null), "code", Null) = Str(code)
        BY <2>1, <3>1, <3>3, WireFields DEF IsExecute
      <3>5. \A c : With(c) <=> code # "success" /\ code = c
        <4>1. \A c : Str(code) = Str(c) <=> code = c
          BY DEF Str
        <4> QED
          BY <3>4, <4>1
      <3>6. Get(back.result, "isError", Null) = Bool(Failed)
        <4>1. CASE code # "success"
          <5>1. Bool(code # "success") = Bool(TRUE) /\ Bool(Failed) = Bool(TRUE)
            BY <3>4, <4>1 DEF Bool, Has
          <5> QED
            BY <3>4, <5>1
        <4>2. CASE code = "success"
          <5>1. Bool(code # "success") = Bool(FALSE)
            BY <4>2 DEF Bool
          <5>2. Failed = FALSE
            BY <3>4, <4>2 DEF Has
          <5>3. Bool(Failed) = Bool(FALSE)
            BY <5>2, Zenon
          <5> QED
            BY <3>4, <5>1, <5>3
        <4> QED
          BY <4>1, <4>2
      <3>7. /\ With("tool_not_found") => Announced(name) = {}
            /\ name \notin DOMAIN definitions => With("tool_not_found")
            /\ With("invalid_arguments") => ~Conforms[definitions[name]][Param("arguments")]
            /\ ended # NotEnded => Conforms[definitions[name]][Param("arguments")]
        <4> HIDE DEF With, Failed, back
        <4> QED
          BY <3>1, <3>4, <3>5 DEF Failure, Allowed
      <3>8. /\ ~Failed => /\ ended = Returned(Get(back.result, "output", Alien))
                         /\ IsJson[ended.output]
            /\ With("invalid_result") => ended.body = "returned" /\ ~IsJson[ended.output]
            /\ With("execution_error") <=> ended.body = "raised"
            /\ With("timeout") <=> ended = TimedOut
        <4> HIDE DEF With, Failed, back
        <4>1. /\ code = "success" => ended.body = "returned" /\ ended.output = output /\ IsJson[output]
              /\ code = "invalid_result" => ended.body = "returned" /\ ~IsJson[ended.output]
              /\ code = "execution_error" <=> ended.body = "raised"
              /\ code = "timeout" <=> ended = TimedOut
          BY <3>1, EndsDiffer DEF Failure, Codes
        <4> QED
          BY <3>1, <3>4, <3>5, <4>1
      <3>9. request.method = "tool/execute" /\ IsEnvelope(request.params)
        BY <2>1, <3>1 DEF IsExecute
      <3> HIDE DEF With, Failed, back, name
      <3> QED
        BY <2>1, <3>1, <3>3, <3>4, <3>5, <3>6, <3>7, <3>8, <3>9
           DEF AnswersAreExact, With, Failed, back, name
    <2> QED
      BY <2>3, <2>4 DEF TaskInv
  <1> QED
    BY <1>1, HostToolsInvariance, PTL

=============================================================================

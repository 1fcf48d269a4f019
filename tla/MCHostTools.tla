----------------------------- MODULE MCHostTools -----------------------------
(***************************************************************************)
(* Schemas with every keyword, right and wrong, for one argument of a      *)
(* tool; calls with every kind of value for it; requests, responses and    *)
(* notifications with each of their parts right, wrong and missing.  "~"   *)
(* stands for a lone surrogate, 11 for an integer that no float can hold.  *)
(***************************************************************************)
EXTENDS HostTools

Typed(type, fields) == Obj(<< <<"type", Str(type)>> >> \o fields)
Rule(key, v) == << <<key, v>> >>

SomePatterns == [p \in {"^a", "b"} |-> IF p = "^a" THEN {"a", "ab"} ELSE {"b", "ab"}]

IntegerOnly == Typed("integer", <<>>)

Strings == {Typed("string", fields) : fields \in
    { <<>>, Rule("minLength", Integer(1)), Rule("minLength", Integer(2)) \o Rule("maxLength", Integer(1)),
      Rule("maxLength", Integer(1)) \o Rule("pattern", Str("b")), Rule("minLength", Bool(TRUE)),
      Rule("maxLength", Null), Rule("enum", Arr(<<Str("a"), Str("b")>>)),
      Rule("enum", Arr(<<Str("a"), Str("a")>>)), Rule("enum", Arr(<<>>)), Rule("enum", Null),
      Rule("maxLength", Integer(1)) \o Rule("enum", Null), Rule("enum", Arr(<<Integer(1)>>)),
      Rule("pattern", Str("^a")), Rule("pattern", Str("(")), Rule("pattern", Null),
      Rule("pattern", Integer(1)), Rule("minimum", Integer(1)), Rule("maxLength", Integer(11)),
      Rule("enum", Arr(<<Str("~")>>))}}

Numbers ==
    {Typed(type, fields) : type \in {"integer", "number"}, fields \in
        { <<>>, Rule("minimum", Integer(1)) \o Rule("maximum", Floating(2)),
          Rule("minimum", Integer(2)) \o Rule("maximum", Integer(1)), Rule("maximum", NaN),
          Rule("minimum", Null), Rule("maximum", Bool(TRUE)), Rule("minimum", Integer(-11)),
          Rule("minimum", Bool(TRUE)) \o Rule("maximum", Integer(11))}}

Lists ==
    {Typed("array", fields) : fields \in
        { <<>>, Rule("items", Null), Rule("items", IntegerOnly),
          Rule("items", IntegerOnly) \o Rule("minItems", Integer(1)),
          Rule("items", Typed("string", Rule("enum", Null))) \o Rule("maxItems", Integer(1)),
          Rule("items", IntegerOnly) \o Rule("minItems", Integer(2)) \o Rule("maxItems", Integer(1)),
          Rule("items", IntegerOnly) \o Rule("minItems", Null)}}

Nested ==
    {Typed("object", fields) : fields \in
        { <<>>, Rule("properties", Obj(Rule("y", IntegerOnly))),
          Rule("properties", Obj(Rule("y", IntegerOnly))) \o Rule("required", Arr(<<Str("y")>>))}}

Odd == {Integer(1), Obj(<<>>), Typed("boolean", <<>>), Typed("null", <<>>), Typed("date", <<>>),
        Obj(Rule("type", Arr(<<Str("string")>>))), Obj(Rule("type", Null))}

Root(rest) == Typed("object", Rule("properties", Obj(Rule("x", IntegerOnly))) \o rest)

Parameters ==
    {Typed("object", Rule("properties", Obj(Rule("x", schema))) \o Rule("required", Arr(<<Str("x")>>))) :
        schema \in Strings \cup Numbers \cup Lists \cup Nested \cup Odd}
    \cup {Root(rest) : rest \in
            { <<>>, Rule("additionalProperties", Bool(FALSE)), Rule("additionalProperties", Null),
              Rule("required", Arr(<<Str("x"), Str("x")>>)), Rule("required", Arr(<<Str("z")>>)),
              Rule("required", Obj(<<>>)), Rule("items", IntegerOnly)}}
    \cup {Typed("object", Rule("properties", Arr(<<>>))), IntegerOnly, Null}

First == {Definition("t", "a tool", p) : p \in Parameters}
Others == {Definition("t", "a tool", Root(<<>>)), Definition("u", "a tool", Root(<<>>)),
          Definition("U", "a tool", Root(<<>>)), Definition("u", " ", Root(<<>>))}

Items == {Null, Bool(TRUE), Integer(1), Integer(3), Integer(11), Integer(-11), Floating(1), NaN, Str(""), Str("a"), Str("b"),
           Str("ab"), Arr(<<>>), Arr(<<Integer(1)>>), Arr(<<Integer(1), Bool(TRUE)>>),
           Str("~"), Arr(<<Str("a")>>), Arr(<<Integer(11)>>), Arr(<<Str("a"), Integer(11)>>), Obj(<<>>),
           Obj(Rule("y", Integer(1))), Obj(Rule("y", Str("a"))), Obj(Rule("y", Integer(11)))}

ArgumentsOf == {Obj(Rule("x", v)) : v \in Items}
    \cup {Obj(<<>>), Obj(Rule("y", Null)), Obj(Rule("x", Integer(1)) \o Rule("y", Null))}

Message(fields) == Obj(Rule("jsonrpc", Str("2.0")) \o fields)
Execute(params) ==
    Message(Rule("id", Str("r")) \o Rule("method", Str("tool/execute")) \o Rule("params", params))
Call(session, call, name, arguments) ==
    Obj(Rule("sessionId", session) \o Rule("callId", call) \o Rule("name", name)
          \o Rule("arguments", arguments))

Calls ==
    {Call(Str("s"), Str("c"), Str("t"), a) : a \in ArgumentsOf}
    \cup {Call(session, call, name, Obj(Rule("x", Integer(1)))) :
            session \in {Str("s"), Str("~")}, call \in {Str("c"), Str("~")}, name \in {Str("t"), Str("~")}}
    \cup {Call(Str("s"), Str("c"), Str("u"), Obj(<<>>)), Call(Str(" "), Str("c"), Str("t"), Obj(<<>>)),
          Call(Str("s"), Integer(1), Str("t"), Obj(<<>>)), Call(Str("s"), Str("c"), Str(""), Obj(<<>>)),
          Call(Str("s"), Str("c"), Str("t"), Arr(<<>>)), Null, Arr(<<>>), Obj(<<>>),
          Obj(Call(Str("s"), Str("c"), Str("t"), Obj(<<>>)).fields \o Rule("workspace", Str("a")))}

Ids == {<<>>} \cup {Rule("id", v) : v \in {Integer(1), Integer(2), Str("r"), Str("~"), Null, Bool(TRUE),
                                             Floating(1), NaN}}
Methods == {Rule("method", v) : v \in {Str("tool/execute"), Str("other"), Str(""), Integer(1), Null}}

Result(version, info, capabilities) ==
    Obj(Rule("protocolVersion", version) \o Rule("serverInfo", info) \o Rule("capabilities", capabilities))
Info(name) == Obj(Rule("name", name) \o Rule("version", Str("a")))
Results == {Result(Integer(1), Info(Str("a")), Obj(<<>>)), Result(Integer(2), Info(Str("a")), Obj(<<>>)),
            Result(Bool(TRUE), Info(Str("a")), Obj(<<>>)), Result(Integer(1), Null, Obj(<<>>)),
            Result(Integer(1), Info(Str("")), Obj(<<>>)), Result(Integer(1), Info(Str("a")), Null), Null}
Errors == {Null, Obj(<<>>), Obj(Rule("code", Bool(TRUE)) \o Rule("message", Str("a"))),
           Obj(Rule("code", Integer(1)) \o Rule("message", Str("a")))}
Outcomes == {Rule("result", r) : r \in Results} \cup {Rule("error", e) : e \in Errors}
            \cup {<<>>, Rule("result", Null) \o Rule("error", Null)}

LongLines ==
    {Message(Rule("method", Str("long"))), Execute(Call(Str("long"), Str("c"), Str("t"), Obj(<<>>))),
     Message(Rule("id", Integer(1)) \o Rule("result", Result(Integer(1), Info(Str("long")), Obj(<<>>))))}

SomeLines ==
    {Execute(c) : c \in Calls}
    \cup {Message(id \o rest) : id \in Ids, rest \in Methods \cup Outcomes}
    \cup {Message(id \o Rule("method", Str("other")) \o rest) : id \in Ids,
            rest \in {Rule("params", Integer(1)), Rule("result", Null)}}
    \cup LongLines
    \cup {Obj(<<>>), Obj(Rule("jsonrpc", Str("a")) \o Rule("method", Str("other"))), Arr(<<>>), NotJson}

Deep(v) == Arr(<<Arr(<<Arr(<<v>>)>>)>>)
SomeOutputs == {Null, Integer(1), NaN, Alien, Obj(Rule("x", Arr(<<NaN>>))), Obj(Rule("x", Arr(<<Null>>))),
                Deep(Null), Deep(NaN), Str("~"), Obj(Rule("~", Null))}
SomeTexts == {Str("a"), Str("~")}

RECURSIVE WithParts(_), DepthOf(_)
WithParts(v) == {v} \cup UNION {WithParts(child) : child \in Children(v)}
DepthOf(v) == IF Children(v) = {} THEN 0 ELSE 1 + Max({DepthOf(child) : child \in Children(v)})

SomeValues == UNION {WithParts(v) : v \in SomeLines \cup SomeOutputs \cup SomeTexts \cup Parameters \cup {Root(<<>>)}}
              \ {NotJson}
SomeDepth == [v \in SomeValues |-> DepthOf(v)]

Names == {"t", "u"}
BlankStrings == {"", " "}
LoneSurrogates == {"~"}

=============================================================================

----------------------------- MODULE MCSqlWire -----------------------------
(***************************************************************************)
(* Instance of SqlWire for TLC: types nested up to two deep, a few values  *)
(* of each on either side of the bounds the code tells apart, type strings *)
(* one edit away from well-formed ones, and strings over the bytes at the  *)
(* edges of UTF-8's ranges.                                                *)
(***************************************************************************)
EXTENDS SqlWire

Scalars == {<<"BOOLEAN">>, <<"INTEGER">>, <<"BIGINT">>, <<"UBIGINT">>, <<"HUGEINT">>,
            <<"DOUBLE">>, <<"VARCHAR">>, <<"DECIMAL", 2, 1>>, <<"TIMESTAMP">>,
            <<"TIMESTAMP_S">>, <<"TIMESTAMP_MS">>, <<"TIMETZ">>, <<"BLOB">>, <<"INTERVAL">>, <<"EXTENSION">>,
            <<"ENUM", <<"a", "b">>>>}

AB(t, u) == <<"STRUCT", <<"a", "b">>, <<t, u>>>>

OneDeep == {<<"LIST", <<"BIGINT">>>>, <<"LIST", <<"VARCHAR">>>>, <<"LIST", <<"DECIMAL", 2, 1>>>>,
            <<"ARRAY", <<"INTEGER">>, 2>>, <<"MAP", <<"VARCHAR">>, <<"DOUBLE">>>>,
            AB(<<"VARCHAR">>, <<"DECIMAL", 2, 1>>),
            <<"UNION", <<"i", "s">>, <<<<"INTEGER">>, <<"VARCHAR">>>>>>,
            <<"STRUCT", <<"type", "value">>, <<<<"VARCHAR">>, <<"INTEGER">>>>>>}

TwoDeep == {<<"LIST", <<"LIST", <<"INTEGER">>>>>>, <<"ARRAY", AB(<<"BOOLEAN">>, <<"INTEGER">>), 2>>,
            <<"MAP", <<"VARCHAR">>, <<"LIST", <<"BOOLEAN">>>>>>,
            AB(<<"MAP", <<"INTEGER">>, <<"DOUBLE">>>>, <<"LIST", <<"BOOLEAN">>>>)}

MCTypes == Scalars \union OneDeep \union TwoDeep

RECURSIVE ValuesOf(_)
NotNull(t) == ValuesOf(t) \ {<<"null">>}
Ints(t, S) == {<<"int", n>> : n \in S \intersect IntegerRange(t)}
ValuesOf(t) ==
    {<<"null">>} \union
    CASE t[1] = "BOOLEAN" -> {<<"bool", TRUE>>, <<"bool", FALSE>>}
      [] t[1] \in IntegerTypes ->
            Ints(t[1], {-Int128 - 1, -Safe - 1, -Safe, 0, Safe, Safe + 1, 2 * Int64, 2 * Int64 + 1, Int128})
      [] t[1] = "DOUBLE" -> {<<"dbl", <<"int", 1>>>>, <<"dbl", <<"frac", "1.5">>>>,
                             <<"dbl", <<"frac", "NaN">>>>}
      [] t[1] = "VARCHAR" -> {<<"text", x>> : x \in {Name("type"), Name("value"), <<"int", 1>>}}
      [] t[1] = "DECIMAL" -> {<<"dec", n>> : n \in {-99, 0, 5}}
      [] t[1] \in {"TIMESTAMP", "TIMESTAMP_S", "TIMESTAMP_MS"} -> {<<"ts", n>> : n \in {-5, 0, 1, 7, 8}}
      [] t[1] = "TIMETZ" -> {<<"timetz", 12, off>> : off \in {0, 2 * Minute, -3 * Minute, Minute + 1}}
      [] t[1] = "BLOB" -> {<<"blob", <<"bytes", "ab">>>>}
      [] t[1] = "INTERVAL" -> {<<"interval", 1, 2, 3>>, <<"interval", 1, 2, Safe + 1>>}
      [] t[1] = "EXTENSION" -> {<<"text", Name("POINT")>>}
      [] t[1] = "ENUM" -> {<<"enum", "a">>, <<"enum", "b">>}
      [] t[1] = "LIST" ->
            {<<"list", s>> : s \in UNION {[1..n -> ValuesOf(t[2])] : n \in 0..2}}
      [] t[1] = "ARRAY" -> {<<"array", s>> : s \in [1..t[3] -> ValuesOf(t[2])]}
      [] t[1] = "MAP" ->
            {<<"map", <<>>>>} \union {<<"map", <<<<k, v>>>>>> : k \in NotNull(t[2]), v \in ValuesOf(t[3])}
              \union {<<"map", <<<<k, v>>, <<l, v>>>>>> :
                        <<k, l, v>> \in {x \in NotNull(t[2]) \X NotNull(t[2]) \X ValuesOf(t[3]) : x[1] # x[2]}}
      [] t[1] = "STRUCT" ->
            {<<"struct", <<v, u>>>> : v \in ValuesOf(t[3][1]), u \in ValuesOf(t[3][2])}
      [] t[1] = "UNION" ->
            {<<"union", t[2][i], v>> : i \in {1}, v \in NotNull(t[3][1])}
              \union {<<"union", t[2][i], v>> : i \in {2}, v \in NotNull(t[3][2])}

Columns(types) == UNION {{<<t, v>> : v \in ValuesOf(t)} : t \in types}

MCRows == {<<c>> : c \in Columns(MCTypes)}
            \union {<<c, d>> : c \in Columns({<<"BIGINT">>, <<"LIST", <<"BIGINT">>>>}),
                               d \in Columns({<<"VARCHAR">>})}

\* Printed types with a space wherever one may stand.
Spaced(s) == FlattenSeq([i \in DOMAIN s |-> <<<<"sp">>, s[i], <<"sp">>>>])

\* As long as is accepted, and one longer.
Padded(s) == {s \o [i \in 1..(MaxTypeStringLength - Len(s) + more) |-> <<"sp">>] : more \in {0, 1}}

Alphabet == {<<"w", "LIST">>, <<"w", "STRUCT">>, <<"w", "INTEGER">>, <<"w", "a">>, <<"n", 2>>,
             <<"<">>, <<">">>, <<"(">>, <<")">>, <<",">>, <<"sp">>}

Edits(s) ==
    {RemoveAt(s, i) : i \in DOMAIN s}
      \union {ReplaceAt(s, i, x) : i \in DOMAIN s, x \in Alphabet}
      \union {InsertAt(s, i, x) : i \in 1..(Len(s) + 1), x \in Alphabet}

Printed == {PrintType(t) : t \in MCTypes}

TooDeep == PrintType(<<"LIST", <<"MAP", <<"LIST", <<"INTEGER">>>>, <<"LIST", <<"LIST", <<"BOOLEAN">>>>>>>>>>)

MCTypeTexts == Printed \union {TooDeep} \union UNION {Padded(s) : s \in Printed}
                 \union {Spaced(s) : s \in Printed} \union UNION {Edits(s) : s \in Printed}

Edges == {31, 34, 92, 127, 128, 143, 144, 159, 160, 191, 193, 194, 224, 225, 237, 239}

MCByteStrings ==
    UNION {[1..n -> Edges] : n \in 0..3}
      \union {<<f>> \o s : f \in {239, 240, 243, 244, 245},
                           s \in [1..3 -> {127, 128, 143, 144, 191, 193}]}

=============================================================================

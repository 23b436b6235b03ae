----------------------------- MODULE SqlResult -----------------------------
(***************************************************************************)
(* SqlChunkEncoder: the schema, row, chunk, end and error records of an    *)
(* NDJSON stream and the one-shot answer, written through JsonWriter.      *)
(***************************************************************************)
EXTENDS SqlJson

\* Slip: every integer is a number.
EmitIntegerPlain(w, n) == PutInt(w, n)

\* IsJsonSafeInteger: numbers a double holds exactly stay numbers.
EmitInteger(w, n) ==
    IF n \in (-Safe)..Safe THEN PutInt(w, n) ELSE String(w, <<"int", n>>)

\* A point in time given in ticks of 1/unit seconds, the fraction in micros.
Instant(n, unit) == <<"instant", n \div unit, (n % unit) * (Micros \div unit)>>

TimestampSecToIso(n) == Instant(n, 1)

\* The offset is printed in hours and minutes, what is left of it is cut off.
TimeTzToString(time, offset) ==
    <<"timetz", time, IF offset < 0 THEN -((-offset) \div Minute) ELSE offset \div Minute>>

ScalarText(v, t) ==
    CASE v[1] = "text"   -> v[2]
      [] v[1] = "dec"    -> <<"dec", v[2], t[3]>>
      [] v[1] = "blob"   -> <<"base64", v[2]>>
      [] v[1] = "enum"   -> Name(v[2])
      [] v[1] = "timetz" -> TimeTzToString(v[2], v[3])
      [] v[1] = "ts" /\ t[1] = "TIMESTAMP"    -> Instant(v[2], Micros)
      [] v[1] = "ts" /\ t[1] = "TIMESTAMP_MS" -> Instant(v[2], Millis)
      [] v[1] = "ts" /\ t[1] = "TIMESTAMP_S"  -> TimestampSecToIso(v[2])

EmitInterval(w, v) ==
    EndObject(KeyString(KeyInt(KeyInt(BeginObject(w), "months", v[2]), "days", v[3]),
                        "micros", <<"int", v[4]>>))

RECURSIVE EmitValue(_, _, _)

EmitElements(w, values, types) ==
    FoldLeftDomain(LAMBDA acc, i : EmitValue(acc, values[i], types[i]), w, values)

Repeated(values, t) == [i \in DOMAIN values |-> t]

EmitArray(w, values, types) == EndArray(EmitElements(BeginArray(w), values, types))

EmitStruct(w, values, t) ==
    EndObject(FoldLeftDomain(LAMBDA acc, i : EmitValue(Key(acc, t[2][i]), values[i], t[3][i]),
                             BeginObject(w), values))

EmitPairs(w, pairs, t) ==
    EndArray(FoldLeft(LAMBDA acc, pair : EmitArray(acc, pair, <<t[2], t[3]>>),
                      BeginArray(w), pairs))

EmitUnion(w, v, t) ==
    LET i == CHOOSE j \in DOMAIN t[2] : t[2][j] = v[2]
    IN EndObject(EmitValue(Key(KeyString(BeginObject(w), "tag", Name(v[2])), "value"),
                           v[3], t[3][i]))

EmitValue(w, v, t) ==
    CASE v[1] = "null"           -> Null(w)
      [] v[1] = "bool"           -> Bool(w, v[2])
      [] v[1] = "int"            -> EmitInteger(w, v[2])
      [] v[1] = "dbl"            -> Double(w, v[2])
      [] v[1] = "interval"       -> EmitInterval(w, v)
      [] v[1] \in {"list", "array"} -> EmitArray(w, v[2], Repeated(v[2], t[2]))
      [] v[1] = "struct"         -> EmitStruct(w, v[2], t)
      [] v[1] = "map"            -> EmitPairs(w, v[2], t)
      [] v[1] = "union"          -> EmitUnion(w, v, t)
      [] OTHER                   -> String(w, ScalarText(v, t))

-----------------------------------------------------------------------------
RECURSIVE EmitColumnSchema(_, _, _)

\* The columns of named types, the members of a struct or union.
EmitColumns(w, names, types) ==
    EndArray(FoldLeftDomain(LAMBDA acc, i : EmitColumnSchema(acc, names[i], types[i]),
                            BeginArray(w), types))

\* A type nested in another has no name.
EmitNested(w, key, t) == EmitColumnSchema(Key(w, key), "", t)

EmitTypeMetadata(w, t) ==
    LET lossless == KeyBool(w, "lossless", TRUE)
    IN CASE t[1] = "DECIMAL" ->
                EndObject(KeyInt(KeyInt(BeginObject(Key(lossless, "decimal")),
                                        "width", t[2]), "scale", t[3]))
         [] t[1] = "LIST"   -> EmitNested(lossless, "child", t[2])
         [] t[1] = "ARRAY"  -> EmitNested(KeyInt(lossless, "arrayLength", t[3]), "child", t[2])
         [] t[1] = "STRUCT" -> EmitColumns(Key(lossless, "fields"), t[2], t[3])
         [] t[1] = "UNION"  -> EmitColumns(Key(lossless, "members"), t[2], t[3])
         [] t[1] = "MAP"    -> KeyString(EmitNested(EmitNested(lossless, "keyType", t[2]),
                                                    "valueType", t[3]),
                                         "encoding", Name("pairs"))
         [] t[1] = "ENUM"   -> EndArray(FoldLeft(LAMBDA acc, label : String(acc, Name(label)),
                                                 BeginArray(Key(lossless, "values")), t[2]))
         [] t[1] = "EXTENSION" -> KeyString(KeyBool(w, "lossless", FALSE),
                                            "encoding", Name("varchar-cast"))
         [] OTHER -> lossless

EmitColumnSchema(w, name, t) ==
    LET named == IF name = "" THEN BeginObject(w)
                 ELSE KeyString(BeginObject(w), "name", Name(name))
    IN EndObject(EmitTypeMetadata(KeyString(named, "duckdbType", <<"type of", t>>), t))

-----------------------------------------------------------------------------
(***************************************************************************)
(* Records.  rows is a sequence of rows, a row a sequence of values.       *)
(***************************************************************************)
WithSession(w, session) ==
    IF session = <<>> THEN w ELSE KeyString(w, "sessionId", session)

EmitSchema(session, names, types) ==
    LET w == WithSession(KeyString(BeginObject(NewWriter), "type", Name("schema")), session)
    IN EndObject(EmitColumns(Key(w, "columns"), names, types))

EmitRows(w, rows, types) ==
    EndArray(FoldLeft(LAMBDA acc, row : EmitArray(acc, row, types), BeginArray(w), rows))

EmitRow(row, types) ==
    EndObject(EmitArray(Key(KeyString(BeginObject(NewWriter), "type", Name("row")), "values"),
                        row, types))

EmitChunk(rows, types) ==
    EndObject(EmitRows(Key(KeyString(BeginObject(NewWriter), "type", Name("chunk")), "rows"),
                       rows, types))

EmitEnd(rowCount, truncated) ==
    LET w == KeyInt(KeyInt(KeyString(BeginObject(NewWriter), "type", Name("end")),
                           "rowCount", rowCount), "timeMs", 0)
    IN EndObject(IF truncated THEN KeyBool(w, "truncated", TRUE) ELSE w)

EmitError(code) ==
    EndObject(KeyString(KeyString(KeyString(BeginObject(NewWriter), "type", Name("error")),
                                  "code", code), "message", Name("message")))

EmitOneShot(session, names, types, rows) ==
    LET head == WithSession(KeyString(KeyBool(BeginObject(NewWriter), "ok", TRUE),
                                      "kind", Name("select")), session)
        data == EmitRows(Key(EmitColumns(Key(head, "columns"), names, types), "data"),
                         rows, types)
    IN EndObject(KeyInt(KeyInt(data, "rowCount", Len(rows)), "timeMs", 0))

EmitOneShotWrite(session, affected) ==
    LET head == WithSession(KeyString(KeyBool(BeginObject(NewWriter), "ok", TRUE),
                                      "kind", Name("write")), session)
    IN EndObject(KeyInt(KeyInt(head, "rowCount", affected), "timeMs", 0))

=============================================================================

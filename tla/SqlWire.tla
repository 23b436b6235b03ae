------------------------------ MODULE SqlWire ------------------------------
(***************************************************************************)
(* Values through POST /sql: the encoder writes a row, a client sends the  *)
(* values it read back as parameters, bare (Mode A) or in wrappers that    *)
(* name their types (Mode B), and the decoder reads them.  Beside it, the  *)
(* two halves a value does not reach: type strings somebody wrote, and the *)
(* bytes of strings.                                                       *)
(***************************************************************************)
EXTENDS SqlParams, SqlResult

CONSTANTS
    Rows,        \* sequences of <<type, value>>
    Types,       \* types a wrapper may name
    TypeTexts,   \* type strings, well-formed or not
    ByteStrings  \* strings as bytes

VARIABLES
    task, \* what is under way: a row, a type string or the bytes of a string
    wire, \* what was written
    sent, \* how the client sent it back
    got   \* what was read

vars == <<task, wire, sent, got>>

Nothing == <<"nothing">>

RowTypes  == [i \in DOMAIN task.row |-> task.row[i][1]]
RowValues == [i \in DOMAIN task.row |-> task.row[i][2]]

Init ==
    /\ task \in [kind : {"row"}, row : Rows]
                  \union [kind : {"type"}, text : TypeTexts]
                  \union [kind : {"bytes"}, bytes : ByteStrings]
    /\ wire = <<>> /\ sent = Nothing /\ got = Failed

-----------------------------------------------------------------------------
(***************************************************************************)
(* The client.                                                             *)
(***************************************************************************)
Str(n) == <<"str", Name(n)>>

RECURSIVE PrintType(_)

Joined(pieces) ==
    FoldLeftDomain(LAMBDA acc, i : IF i = 1 THEN pieces[i] ELSE acc \o <<<<",">>>> \o pieces[i],
                   <<>>, pieces)

\* The documented form of a type string.
PrintType(t) ==
    LET Args(open, pieces, close) == <<<<"w", t[1]>>, open>> \o Joined(pieces) \o <<close>>
    IN CASE t[1] = "LIST"    -> Args(<<"<">>, <<PrintType(t[2])>>, <<">">>)
         [] t[1] = "ARRAY"   -> Args(<<"<">>, <<PrintType(t[2]), <<<<"n", t[3]>>>>>>, <<">">>)
         [] t[1] = "MAP"     -> Args(<<"<">>, <<PrintType(t[2]), PrintType(t[3])>>, <<">">>)
         [] t[1] = "DECIMAL" -> Args(<<"(">>, <<<<<<"n", t[2]>>>>, <<<<"n", t[3]>>>>>>, <<")">>)
         [] t[1] \in {"STRUCT", "UNION"} ->
                Args(<<"(">>, [i \in DOMAIN t[2] |->
                                <<<<"w", t[2][i]>>, <<"sp">>>> \o PrintType(t[3][i])], <<")">>)
         [] OTHER            -> <<<<"w", t[1]>>>>

\* The text of the i-th value, and its wrapper in either order of keys, with or
\* without a key of the client's own.
Bare(i) == EmitValue(NewWriter, RowValues[i], RowTypes[i]).buf

Wrapped(i, form) ==
    LET type  == <<Str("type"), <<":">>, <<"str", <<"type string", PrintType(RowTypes[i])>>>>>>
        value == <<Str("value"), <<":">>>> \o Bare(i)
        own   == <<Str("note"), <<":">>, <<"{">>, Str("n"), <<":">>, <<"num", <<"int", 1>>>>, <<"}">>>>
    IN <<<<"{">>>> \o Joined(CASE form = "type first"  -> <<type, value>>
                               [] form = "value first" -> <<value, <<<<"ws">>>> \o type>>
                               [] form = "more keys"   -> <<own, type, value>>) \o <<<<"}">>>>

WrapperForms == {"type first", "value first", "more keys"}

\* The body around the params array, its keys in either order.
Body(params, paramsFirst) ==
    LET sql == <<Str("sql"), <<":">>, Str("statement")>>
        par == <<Str("params"), <<":">>, <<"ws">>>> \o params
        own == <<Str("note"), <<":">>, <<"[">>, Str("sql"), <<"]">>>>
    IN <<<<"ws">>, <<"{">>>> \o Joined(IF paramsFirst THEN <<par, own, sql>> ELSE <<sql, par>>)
         \o <<<<"}">>>>

Array(pieces) == <<<<"[">>>> \o Joined(pieces) \o <<<<"]">>>>

\* The server reads the body, prepares the statement and binds.
Bind(body, expected) ==
    LET req == ParseRequest(body)
    IN IF req.ok THEN Decode(req.params, expected) ELSE Failed

-----------------------------------------------------------------------------
Names == [i \in DOMAIN task.row |-> "c"]
Session == Name("session")

\* The answer to a query that yields the row, as records.
Records(shape) ==
    LET schema == EmitSchema(Session, Names, RowTypes).buf
        end    == EmitEnd(1, shape = "chunk").buf
    IN CASE shape = "row"   -> <<schema, EmitRow(RowValues, RowTypes).buf, end>>
         [] shape = "chunk" -> <<schema, EmitChunk(<<RowValues, RowValues>>, RowTypes).buf, end>>
         [] shape = "one-shot" -> <<EmitOneShot(<<>>, Names, RowTypes, <<RowValues>>).buf>>
         [] shape = "write" -> <<EmitOneShotWrite(Session, 1).buf>>
         [] shape = "error" -> <<schema, EmitError(Name("TIMEOUT")).buf>>

Shapes == {"row", "chunk", "one-shot", "write", "error"}

Answers ==
    /\ task.kind = "row" /\ wire = <<>>
    /\ \E shape \in Shapes : wire' = Records(shape)
    /\ UNCHANGED <<task, sent, got>>

\* The statement may expect one parameter fewer or more than it gets, or any
\* type in the place of the first.
Expectations ==
    {RowTypes, Front(RowTypes), Append(RowTypes, <<"BOOLEAN">>)}
      \union {[RowTypes EXCEPT ![1] = t] : t \in Types}

SendsBare ==
    /\ task.kind = "row" /\ wire = Records("row") /\ sent = Nothing
    /\ \E paramsFirst \in BOOLEAN, expected \in Expectations :
        /\ got' = Bind(Body(Array([i \in DOMAIN task.row |-> Bare(i)]), paramsFirst), expected)
        /\ sent' = <<"bare", expected>>
    /\ UNCHANGED <<task, wire>>

SendsWrapped ==
    /\ task.kind = "row" /\ wire = Records("row") /\ sent = Nothing
    /\ \E form \in WrapperForms :
        /\ got' = Bind(Body(Array([i \in DOMAIN task.row |-> Wrapped(i, form)]), TRUE),
                       [i \in DOMAIN task.row |-> <<"ANY">>])
        /\ sent' = <<"wrapped", form>>
    /\ UNCHANGED <<task, wire>>

ReadsType ==
    /\ task.kind = "type" /\ sent = Nothing
    /\ got' = ParseLogicalType(task.text, 0)
    /\ sent' = <<"type">>
    /\ UNCHANGED <<task, wire>>

WritesBytes ==
    /\ task.kind = "bytes" /\ wire = <<>>
    /\ wire' = WriteEscapedString(task.bytes)
    /\ UNCHANGED <<task, sent, got>>

ReadsBytes ==
    /\ task.kind = "bytes" /\ wire # <<>> /\ sent = Nothing
    /\ got' = ParseBytes(wire, 2, <<>>)
    /\ sent' = <<"bytes">>
    /\ UNCHANGED <<task, wire>>

Next == Answers \/ SendsBare \/ SendsWrapped \/ ReadsType \/ WritesBytes \/ ReadsBytes

Spec == Init /\ [][Next]_vars

-----------------------------------------------------------------------------
(***************************************************************************)
(* Properties.                                                             *)
(***************************************************************************)
\* The JSON text of a value by definition: what JsonWriter's calls add up to.
RECURSIVE Json(_, _)
Json(v, t) ==
    LET Each(values, types) == Array([i \in DOMAIN values |-> Json(values[i], types[i])])
    IN CASE v[1] \in {"list", "array"} -> Each(v[2], Repeated(v[2], t[2]))
         [] v[1] = "map"    -> Array([i \in DOMAIN v[2] |-> Each(v[2][i], <<t[2], t[3]>>)])
         [] v[1] = "struct" -> <<<<"{">>>> \o
                Joined([i \in DOMAIN v[2] |->
                         <<Str(t[2][i]), <<":">>>> \o Json(v[2][i], t[3][i])]) \o <<<<"}">>>>
         [] OTHER           -> EmitValue(NewWriter, v, t).buf

\* The keys and raw values of an object a client reads.
RECURSIVE MembersFrom(_, _)
MembersFrom(txt, p) ==
    LET raw == ParseRawValue(txt, p + 2)
    IN IF At(txt, p)[1] # "str" THEN {}
       ELSE {<<txt[p][2][2], raw.val>>} \union MembersFrom(txt, raw.pos + 1)

Member(txt, key) == (CHOOSE m \in MembersFrom(txt, 2) : m[1] = key)[2]
HasMember(txt, key) == \E m \in MembersFrom(txt, 2) : m[1] = key

\* The objects of an array.
RECURSIVE ObjectsFrom(_, _)
ObjectsFrom(txt, p) ==
    IF At(txt, p) # <<"{">> THEN <<>>
    ELSE LET raw == ParseRawValue(txt, p)
         IN <<raw.val>> \o ObjectsFrom(txt, raw.pos + 1)

Number(raw) == raw[1][2][2]

Labels(raw) ==
    LET strings == SelectSeq(raw, LAMBDA token : token[1] = "str")
    IN [i \in DOMAIN strings |-> strings[i][2][2]]

\* The type a client puts together from a column record: duckdbType is asked
\* for scalars only.
RECURSIVE Described(_)
Described(col) ==
    LET Parts(key) == ObjectsFrom(Member(col, key), 2)
        PartNames(key) == [i \in DOMAIN Parts(key) |-> Member(Parts(key)[i], "name")[1][2][2]]
        PartTypes(key) == [i \in DOMAIN Parts(key) |-> Described(Parts(key)[i])]
    IN CASE HasMember(col, "arrayLength") ->
                <<"ARRAY", Described(Member(col, "child")), Number(Member(col, "arrayLength"))>>
         [] HasMember(col, "child") /\ ~HasMember(col, "arrayLength") ->
                <<"LIST", Described(Member(col, "child"))>>
         [] HasMember(col, "keyType") ->
                <<"MAP", Described(Member(col, "keyType")), Described(Member(col, "valueType"))>>
         [] HasMember(col, "values")  -> <<"ENUM", Labels(Member(col, "values"))>>
         [] HasMember(col, "fields")  -> <<"STRUCT", PartNames("fields"), PartTypes("fields")>>
         [] HasMember(col, "members") -> <<"UNION", PartNames("members"), PartTypes("members")>>
         [] HasMember(col, "decimal") ->
                LET d == Member(col, "decimal")
                IN <<"DECIMAL", Number(Member(d, "width")), Number(Member(d, "scale"))>>
         [] OTHER -> Member(col, "duckdbType")[1][2][2]

\* Every record of the answer is one JSON object to its last byte, and the rows
\* in it are the values, commas and brackets in place at every depth
\* (JsonWriter's frames and first_in_frame work together); and the schema's
\* metadata is enough to take nested values apart.
RecordsDescribeTheResult ==
    task.kind = "row" =>
        /\ \A i \in DOMAIN wire :
             /\ ParseRawValue(wire[i], 1) = Went(Len(wire[i]) + 1, wire[i])
             /\ LET row == Array([k \in DOMAIN task.row |-> Json(RowValues[k], RowTypes[k])])
                IN /\ HasMember(wire[i], "values") => Member(wire[i], "values") = row
                   /\ HasMember(wire[i], "data") => Member(wire[i], "data") = Array(<<row>>)
                   /\ HasMember(wire[i], "rows") => Member(wire[i], "rows") = Array(<<row, row>>)
        /\ wire # <<>> /\ HasMember(wire[1], "columns") =>
             [i \in DOMAIN task.row |-> Described(ObjectsFrom(Member(wire[1], "columns"), 2)[i])]
                = RowTypes

RECURSIVE AllTypes(_)
AllTypes(t) ==
    {t} \union CASE t[1] \in {"LIST", "ARRAY"}    -> AllTypes(t[2])
                 [] t[1] = "MAP"                  -> AllTypes(t[2]) \union AllTypes(t[3])
                 [] t[1] \in {"STRUCT", "UNION"}  -> UNION {AllTypes(t[3][i]) : i \in DOMAIN t[3]}
                 [] OTHER                         -> {}

\* An object with the strings "type" and "value" in it is taken for a wrapper.
TakenForWrapped(i) ==
    /\ "STRUCT" \in {t[1] : t \in AllTypes(RowTypes[i])}
    /\ {Str("type"), Str("value")} \subseteq ToSet(Bare(i))

\* What the decoder has no way to read back: types whose encoding it does not
\* know, offsets that lost their seconds, and what it takes for a wrapper.
Undecodable(i) ==
    LET heads == {t[1] : t \in AllTypes(RowTypes[i])}
    IN \/ heads \intersect {"BLOB", "INTERVAL", "UNION", "EXTENSION"} # {}
       \/ RowTypes[i][1] = "TIMETZ" /\ RowValues[i][1] = "timetz" /\ RowValues[i][3] % Minute # 0
       \/ TakenForWrapped(i)

Decodable == \A i \in DOMAIN task.row : ~Undecodable(i)

\* A client that sends back the values it read binds the same values: bare, if
\* the statement expects their types, and none if it expects fewer or more; in
\* wrappers, whatever the order of their keys and whatever else is in them,
\* where the type string says what they are.  (No type string names the labels
\* of an ENUM.)
ValuesReadBack ==
    /\ sent[1] = "bare" /\ sent[2] = RowTypes /\ Decodable => got = Some(RowValues)
    /\ sent[1] = "bare" /\ Len(sent[2]) \notin {0, Len(RowTypes)} => ~got.ok
    /\ sent[1] = "wrapped" /\ Decodable /\ (\A i \in DOMAIN task.row : RowTypes[i][1] # "ENUM")
         => got = Some(RowValues)

\* What a client makes of text if its numbers are IEEE doubles: beyond Safe,
\* every other integer is lost.
AsDoubles(txt) ==
    [i \in DOMAIN txt |->
        IF txt[i][1] = "num" /\ txt[i][2][1] = "int" /\ txt[i][2][2] \notin (-Safe - 1)..(Safe + 1)
        THEN <<"num", <<"int", 2 * (txt[i][2][2] \div 2)>>>> ELSE txt[i]]

\* Two values of one type never look the same to a client whose numbers are
\* doubles, seconds of a TIMETZ offset apart.
ValuesTellApart ==
    task.kind = "row" /\ sent = Nothing /\ wire = Records("row") =>
        \A other \in {row \in Rows : [i \in DOMAIN row |-> row[i][1]] = RowTypes} :
            AsDoubles(EmitRow([i \in DOMAIN other |-> other[i][2]], RowTypes).buf) = AsDoubles(wire[2])
            => \A i \in DOMAIN other : RowTypes[i][1] # "TIMETZ" => other[i] = task.row[i]

RECURSIVE WithoutTrailingCommas(_)
WithoutTrailingCommas(s) ==
    LET trailing == {i \in 1..(Len(s) - 1) : s[i] = <<",">> /\ s[i + 1] \in Closers}
    IN IF trailing = {} THEN s ELSE WithoutTrailingCommas(RemoveAt(s, Min(trailing)))

RECURSIVE Nesting(_)
Nesting(t) ==
    CASE t[1] \in {"LIST", "ARRAY"} -> 1 + Nesting(t[2])
      [] t[1] = "MAP"               -> 1 + Max({Nesting(t[2]), Nesting(t[3])})
      [] t[1] = "STRUCT"            -> 1 + Max({Nesting(t[3][i]) : i \in DOMAIN t[3]})
      [] OTHER                      -> 0

\* Numbers are read by stoul, which does not look at what follows them.
LooseNumbers(s) ==
    \/ <<"w", "DECIMAL">> \in ToSet(s)
    \/ \E i \in 1..(Len(s) - 1) : s[i][1] = "n" /\ s[i + 1] \notin Closers \union {<<",">>}

\* A type string up to the longest that is accepted is understood as the type it
\* spells, spaces wherever they may stand, and what is understood was spelled
\* out: no bracket or comma is lost.
TypeStringsMeanWhatTheySay ==
    sent[1] = "type" =>
        /\ \A t \in {u \in Types : \A part \in AllTypes(u) : part[1] \notin {"UNION", "ENUM", "EXTENSION"}} :
                Normalised(task.text) = PrintType(t) /\ Len(task.text) <= MaxTypeStringLength
                  => got = Some(t)
        /\ got.ok /\ ~LooseNumbers(Normalised(task.text))
             => WithoutTrailingCommas(Normalised(task.text)) = PrintType(got.val)
        /\ got.ok => /\ Nesting(got.val) <= MaxTypeNesting
                     /\ Len(task.text) <= MaxTypeStringLength

\* The one way to write a code point, of those that are no surrogate.
IsScalar(s) ==
    LET Bits(i) == s[i] % 64
        cp == CASE Len(s) = 1 -> s[1]
                [] Len(s) = 2 -> 64 * (s[1] % 32) + Bits(2)
                [] Len(s) = 3 -> 4096 * (s[1] % 16) + 64 * Bits(2) + Bits(3)
                [] Len(s) = 4 -> 262144 * (s[1] % 8) + 4096 * Bits(2) + 64 * Bits(3) + Bits(4)
    IN cp \in 0..1114111 /\ cp \notin 55296..57343 /\ EncodeUtf8(cp) = s

RECURSIVE Sanitised(_)
Sanitised(s) ==
    LET scalar == {n \in 1..4 : n <= Len(s) /\ IsScalar(SubSeq(s, 1, n))}
        n == IF scalar = {} THEN 1 ELSE Min(scalar)
    IN IF s = <<>> THEN <<>>
       ELSE (IF scalar = {} THEN Replacement ELSE SubSeq(s, 1, n)) \o Sanitised(SubSeq(s, n + 1, Len(s)))

\* A string the writer escapes reads back with every byte that is no part of
\* well-formed UTF-8 replaced, and nothing else changed.
StringsReadBack ==
    sent[1] = "bytes" => got = Went(Len(wire) + 1, Sanitised(task.bytes))

\* What kind of value the other types have.
Kinds == [BOOLEAN |-> "bool", DOUBLE |-> "dbl", VARCHAR |-> "text", TIMESTAMP |-> "ts",
          TIMESTAMP_S |-> "ts", TIMESTAMP_MS |-> "ts", TIMETZ |-> "timetz", BLOB |-> "blob",
          INTERVAL |-> "interval"]

\* A value of type t, all the way down.
RECURSIVE HasType(_, _)
HasType(v, t) ==
    LET Each(values, types) ==
            Len(values) = Len(types) /\ \A i \in DOMAIN types : HasType(values[i], types[i])
    IN CASE v[1] = "null"   -> TRUE
         [] t[1] \in IntegerTypes -> v[1] = "int" /\ v[2] \in IntegerRange(t[1])
         [] t[1] = "DECIMAL" -> v[1] = "dec" /\ v[2] \in DecimalRange(t[2])
         [] t[1] = "LIST"   -> v[1] = "list" /\ Each(v[2], Repeated(v[2], t[2]))
         [] t[1] = "ARRAY"  -> v[1] = "array" /\ Each(v[2], [i \in 1..t[3] |-> t[2]])
         [] t[1] = "MAP"    -> /\ v[1] = "map" /\ AreMapPairs(v[2])
                               /\ \A i \in DOMAIN v[2] : Each(v[2][i], <<t[2], t[3]>>)
         [] t[1] = "STRUCT" -> v[1] = "struct" /\ Each(v[2], t[3])
         [] t[1] = "UNION"  -> v[1] = "union"
         [] t[1] = "ENUM"   -> v[1] = "enum" /\ v[2] \in ToSet(t[2])
         [] OTHER           -> v[1] = Kinds[t[1]]

\* Whatever a client sends where a value of some type is expected, a value it
\* read of another type included, what is bound has the type expected.
TypeOK ==
    /\ got.ok \in BOOLEAN
    /\ sent[1] \in {"nothing", "bare", "wrapped", "type", "bytes"}
    /\ sent[1] = "bare" /\ got.ok /\ sent[2] # <<>> =>
         \A i \in DOMAIN sent[2] : ~TakenForWrapped(i) => HasType(got.val[i], sent[2][i])

=============================================================================

----------------------------- MODULE SqlParams -----------------------------
(***************************************************************************)
(* SqlParamDecoder: the body of POST /sql, the type strings of Mode B and  *)
(* the parameters, each decoded against the type the statement expects     *)
(* (Mode A) or the type its wrapper names (Mode B).                        *)
(*                                                                         *)
(* A parser takes a text and a position and returns where it stopped; a    *)
(* type string is a sequence of tokens <<"w", word>>, <<"n", number>>,     *)
(* brackets, "," and "sp".                                                 *)
(***************************************************************************)
EXTENDS SqlJson, TLC

CONSTANTS
    MaxTypeNesting,      \* kMaxTypeNesting
    MaxTypeStringLength  \* kMaxTypeStringLength, in tokens

ASSUME ParamsAssumption == MaxTypeNesting \in Nat /\ MaxTypeStringLength \in Nat

\* StringUtil::Lower, on the field names that occur.
Lower(n) == IF n = "A" THEN "a" ELSE n

\* What F makes of r, if r is there.
Then(r, F(_)) == IF r.ok THEN F(r) ELSE Failed

AllOf(results) ==
    IF \A i \in DOMAIN results : results[i].ok
    THEN Some([i \in DOMAIN results |-> results[i].val]) ELSE Failed

-----------------------------------------------------------------------------
(***************************************************************************)
(* Type strings.                                                           *)
(***************************************************************************)
Openers  == {<<"<">>, <<"(">>}
Closers  == {<<">">>, <<")">>}
Specials == Openers \union Closers \union {<<",">>}
IsSpace(token) == token = <<"sp">>

\* Spaces beside brackets and commas go, runs of others become one.
Normalised(s) ==
    LET Solid(i) == i \in 1..Len(s) /\ ~IsSpace(s[i])
        Kept(i) ==
            \/ Solid(i)
            \/ /\ Solid(i - 1) /\ s[i - 1] \notin Specials
               /\ \E j \in (i + 1)..Len(s) :
                    /\ Solid(j) /\ s[j] \notin Specials
                    /\ \A k \in (i + 1)..(j - 1) : IsSpace(s[k])
    IN FoldLeftDomain(LAMBDA acc, i : IF Kept(i) THEN Append(acc, s[i]) ELSE acc, <<>>, s)

Trimmed(s) ==
    LET solid == {i \in 1..Len(s) : ~IsSpace(s[i])}
    IN IF solid = {} THEN <<>> ELSE SubSeq(s, Min(solid), Max(solid))

Balance(s, from, to, opening, closing) ==
    Cardinality({i \in from..to : s[i] \in opening})
      - Cardinality({i \in from..to : s[i] \in closing})

\* Slip: the first bracket that closes, whatever is still open.
FindFirstBracket(s, start, close) ==
    LET closing == {i \in start..Len(s) : s[i] = close}
    IN IF closing = {} THEN 0 ELSE Min(closing)

\* The bracket that closes the one at start, counting both kinds; 0 if none.
FindMatchingBracket(s, start, close) ==
    LET closing == {i \in start..Len(s) :
                        s[i] = close /\ Balance(s, start, i, Openers, Closers) = 0}
    IN IF closing = {} THEN 0 ELSE Min(closing)

\* The pieces of s between the positions in cuts; an empty last one is dropped.
Pieces(s, cuts) ==
    LET ends == cuts \union (IF s = <<>> \/ Len(s) \in cuts THEN {} ELSE {Len(s) + 1})
        Start(e) == Max({0} \union {c \in cuts : c < e}) + 1
    IN [k \in 1..Cardinality(ends) |->
            LET e == CHOOSE x \in ends : Cardinality({y \in ends : y <= x}) = k
            IN Trimmed(SubSeq(s, Start(e), e - 1))]

\* Slip: commas inside parentheses split too.
SplitAngleCommas(s) ==
    Pieces(s, {i \in 1..Len(s) : /\ s[i] = <<",">>
                                 /\ Balance(s, 1, i, {<<"<">>}, {<<">">>}) = 0})

SplitTopLevelCommas(s) ==
    Pieces(s, {i \in 1..Len(s) : /\ s[i] = <<",">>
                                 /\ Balance(s, 1, i, {<<"<">>}, {<<">">>}) = 0
                                 /\ Balance(s, 1, i, {<<"(">>}, {<<")">>}) = 0})

SimpleNames == [INTEGER |-> "INTEGER", INT |-> "INTEGER", BIGINT |-> "BIGINT",
                UBIGINT |-> "UBIGINT", HUGEINT |-> "HUGEINT", BOOLEAN |-> "BOOLEAN",
                DOUBLE |-> "DOUBLE", VARCHAR |-> "VARCHAR", STRING |-> "VARCHAR",
                TIMESTAMP |-> "TIMESTAMP", TIMESTAMP_S |-> "TIMESTAMP_S",
                TIMESTAMP_MS |-> "TIMESTAMP_MS", TIMETZ |-> "TIMETZ",
                INTERVAL |-> "INTERVAL", BLOB |-> "BLOB"]

\* DECIMAL(width,scale): what follows the bracket is not looked at, and both
\* numbers are cut to uint8_t.
ParseDecimal(s) ==
    LET commas == {i \in 3..Len(s) : s[i] = <<",">>}
        comma  == Min(commas)
        closes == {i \in (comma + 1)..Len(s) : s[i] = <<")">>}
        width  == s[3][2] % 256
        scale  == s[comma + 1][2] % 256
    IN IF commas = {} THEN Failed
       ELSE IF closes = {} \/ s[3][1] # "n" \/ s[comma + 1][1] # "n"
               \/ width > MaxDecimalWidth
       THEN Failed
       ELSE Some(<<"DECIMAL", width, scale>>)

ParseSimpleLogicalType(s) ==
    IF Len(s) >= 2 /\ SubSeq(s, 1, 2) = <<<<"w", "DECIMAL">>, <<"(">>>>
    THEN IF Len(s) = 2 THEN Failed ELSE ParseDecimal(s)
    ELSE IF Len(s) = 1 /\ s[1][1] = "w" /\ s[1][2] \in DOMAIN SimpleNames
    THEN Some(<<SimpleNames[s[1][2]]>>) ELSE Failed

HasHead(s, word, open) ==
    Len(s) >= 2 /\ SubSeq(s, 1, 2) = <<<<"w", word>>, open>>

\* The text between the brackets of LIST<...> and its like: nothing may follow
\* the closing one.
BracketedArgs(s, close) ==
    IF FindMatchingBracket(s, 2, close) = Len(s) THEN Some(SubSeq(s, 3, Len(s) - 1))
    ELSE Failed

RECURSIVE ParseLogicalType(_, _)

\* The types of the texts, if each is one.
ParseEach(texts, depth) ==
    AllOf([i \in DOMAIN texts |-> ParseLogicalType(texts[i], depth)])

\* A field is a name, a space and a type.
ParseStruct(fields, depth) ==
    IF /\ fields # <<>>
       /\ \A i \in DOMAIN fields :
            Len(fields[i]) > 2 /\ IsSpace(fields[i][2]) /\ fields[i][1][1] = "w"
    THEN Then(ParseEach([i \in DOMAIN fields |-> SubSeq(fields[i], 3, Len(fields[i]))], depth),
              LAMBDA types : Some(<<"STRUCT", [i \in DOMAIN fields |-> fields[i][1][2]], types.val>>))
    ELSE Failed

ParseArray(parts, depth) ==
    IF Len(parts) = 2 /\ parts[2] # <<>> /\ parts[2][1][1] = "n" /\ parts[2][1][2] > 0
    THEN Then(ParseLogicalType(parts[1], depth),
              LAMBDA child : Some(<<"ARRAY", child.val, parts[2][1][2]>>))
    ELSE Failed

ParseMap(parts, depth) ==
    IF Len(parts) = 2
    THEN Then(ParseEach(parts, depth), LAMBDA both : Some(<<"MAP">> \o both.val)) ELSE Failed

ParseNormalised(s, depth) ==
    CASE HasHead(s, "LIST", <<"<">>) ->
            Then(BracketedArgs(s, <<">">>), LAMBDA args :
            Then(ParseLogicalType(args.val, depth + 1), LAMBDA child :
                 Some(<<"LIST", child.val>>)))
      [] HasHead(s, "ARRAY", <<"<">>) ->
            Then(BracketedArgs(s, <<">">>),
                 LAMBDA args : ParseArray(SplitTopLevelCommas(args.val), depth + 1))
      [] HasHead(s, "MAP", <<"<">>) ->
            Then(BracketedArgs(s, <<">">>),
                 LAMBDA args : ParseMap(SplitTopLevelCommas(args.val), depth + 1))
      [] HasHead(s, "STRUCT", <<"(">>) ->
            Then(BracketedArgs(s, <<")">>),
                 LAMBDA args : ParseStruct(SplitTopLevelCommas(args.val), depth + 1))
      [] HasHead(s, "UNION", <<"(">>) -> Failed
      [] OTHER -> ParseSimpleLogicalType(s)

ParseLogicalType(input, depth) ==
    IF depth > MaxTypeNesting \/ Len(input) > MaxTypeStringLength
    THEN Failed ELSE ParseNormalised(Normalised(input), depth)

-----------------------------------------------------------------------------
(***************************************************************************)
(* JSON text.                                                              *)
(***************************************************************************)
At(txt, p) == IF p <= Len(txt) THEN txt[p] ELSE <<"eof">>

Went(p, v) == [ok |-> TRUE, pos |-> p, val |-> v]

SkipWhitespace(txt, p) ==
    Min({q \in p..(Len(txt) + 1) : At(txt, q) # <<"ws">>})

ConsumeChar(txt, p, char) ==
    LET q == SkipWhitespace(txt, p) IN IF At(txt, q) = <<char>> THEN Went(q + 1, char) ELSE Failed

\* A comma, save before the first element or member.
ConsumeComma(txt, p, first) == IF first THEN Went(p, ",") ELSE ConsumeChar(txt, p, ",")

ParseString(txt, p) ==
    LET q == SkipWhitespace(txt, p)
    IN IF At(txt, q)[1] = "str" THEN Went(q + 1, txt[q][2]) ELSE Failed

\* A key and its colon.
ParseKey(txt, p) ==
    Then(ParseString(txt, p), LAMBDA key :
    Then(ConsumeChar(txt, key.pos, ":"), LAMBDA colon : Went(colon.pos, key.val)))

Count(txt, from, to, token) == Cardinality({i \in from..to : txt[i] = token})

\* Where the object or array that opens at q ends: only brackets of its own
\* kind are counted.
ContainerEnd(txt, q) ==
    LET close == IF txt[q] = <<"{">> THEN <<"}">> ELSE <<"]">>
        ends  == {r \in q..Len(txt) :
                    Count(txt, q, r, txt[q]) = Count(txt, q, r, close)}
    IN IF ends = {} THEN 0 ELSE Min(ends)

LiteralEnd(txt, q) ==
    Min({r \in q..(Len(txt) + 1) :
            At(txt, r) \in {<<",">>, <<"]">>, <<"}">>, <<"ws">>, <<"eof">>}}) - 1

\* The extent of one value; what a literal is made of is not looked at.
ParseRawValue(txt, p) ==
    LET q == SkipWhitespace(txt, p)
        e == CASE At(txt, q)[1] = "str"                -> q
               [] At(txt, q) \in {<<"{">>, <<"[">>}    -> ContainerEnd(txt, q)
               [] OTHER                                -> LiteralEnd(txt, q)
    IN IF At(txt, q) = <<"eof">> \/ e < q THEN Failed ELSE Went(e + 1, SubSeq(txt, q, e))

-----------------------------------------------------------------------------
(***************************************************************************)
(* Values.                                                                 *)
(***************************************************************************)
Untyped == {"ANY", "INVALID"}

\* "garbled" stands for digits with a sign or point astray, as 1-2: stoll
\* reads what comes first, a cast refuses it.
CoerceJsonNumber(x, t) ==
    IF t[1] \notin Untyped \union {"SQLNULL"}
    THEN IF t[1] \in IntegerTypes \union {"DOUBLE", "DECIMAL"} THEN CastText(x, t) ELSE Failed
    ELSE IF x[1] = "frac" THEN Some(<<"dbl", x>>)
    ELSE IF x[2] \in IntegerRange("BIGINT") THEN Some(<<"int", x[2]>>)
    ELSE Failed

CoerceJsonString(x, t) == CastText(x, t)

CoerceBoolean(b, t) ==
    IF t[1] \in Untyped \union {"BOOLEAN"} THEN Some(<<"bool", b>>) ELSE CastBoolean(b, t)

\* Is the object at p taken for a Mode B wrapper?  The raw text is searched,
\* not the object's keys.
LooksWrapped(txt, p) ==
    LET raw == ParseRawValue(txt, p)
    IN /\ raw.ok
       /\ {<<"str", Name("type")>>, <<"str", Name("value")>>} \subseteq ToSet(raw.val)

RECURSIVE DecodeOne(_, _, _)

\* One [key, value] pair of a MAP.
DecodePair(txt, p, t) ==
    Then(ConsumeChar(txt, p, "["), LAMBDA open :
    Then(DecodeOne(txt, open.pos, t[2]), LAMBDA key :
    Then(ConsumeChar(txt, key.pos, ","), LAMBDA comma :
    Then(DecodeOne(txt, comma.pos, t[3]), LAMBDA value :
    Then(ConsumeChar(txt, value.pos, "]"), LAMBDA close :
         Went(close.pos, <<key.val, value.val>>))))))

DecodeElement(txt, p, t) ==
    IF t[1] = "PAIR" THEN DecodePair(txt, p, t) ELSE DecodeOne(txt, p, t)

\* The elements of an array from p on, element i against types[i]; one that
\* has no type is one too many.
RECURSIVE DecodeElements(_, _, _, _)
DecodeElements(txt, p, types, acc) ==
    LET q == SkipWhitespace(txt, p)
        i == Len(acc) + 1
    IN IF At(txt, q) = <<"]">> THEN Went(q + 1, acc)
       ELSE IF i \notin DOMAIN types THEN Failed
       ELSE Then(ConsumeComma(txt, q, i = 1), LAMBDA comma :
            Then(DecodeElement(txt, comma.pos, types[i]), LAMBDA one :
                 DecodeElements(txt, one.pos, types, Append(acc, one.val))))

\* As many elements of type t as the text has.
AnyNumber(txt, t) == [i \in 1..(Len(txt) + 1) |-> t]

\* The elements of a LIST, ARRAY or MAP of type t.
DecodeItems(txt, p, t) ==
    DecodeElements(txt, p, AnyNumber(txt, IF t[1] = "MAP" THEN <<"PAIR", t[2], t[3]>> ELSE t[2]), <<>>)

\* Slip: the length of an ARRAY is not checked.
DecodeArrayAnyLength(txt, p, t) ==
    Then(DecodeItems(txt, p + 1, t), LAMBDA all :
         Went(all.pos, <<[LIST |-> "list", MAP |-> "map", ARRAY |-> "array"][t[1]], all.val>>))

DecodeArray(txt, p, t) ==
    Then(DecodeItems(txt, p + 1, t), LAMBDA all :
         IF \/ t[1] = "MAP" /\ ~AreMapPairs(all.val)
            \/ t[1] = "ARRAY" /\ Len(all.val) # t[3]
         THEN Failed
         ELSE Went(all.pos, <<[LIST |-> "list", MAP |-> "map", ARRAY |-> "array"][t[1]], all.val>>))

\* The fields of t a key may mean: names match without regard to case.
Matches(key, t) ==
    {i \in DOMAIN t[2] : \/ key = Name(t[2][i])
                         \/ key[1] = "word" /\ Lower(key[2]) = Lower(t[2][i])}

\* The fields of an object from p on: a second value for a field and a name
\* the type lacks are refused.
RECURSIVE DecodeFields(_, _, _, _)
DecodeFields(txt, p, t, fields) ==
    LET q == SkipWhitespace(txt, p)
        Field(i, colon) ==
            IF i \in DOMAIN fields THEN Failed
            ELSE Then(DecodeOne(txt, colon, t[3][i]), LAMBDA one :
                      DecodeFields(txt, one.pos, t, fields @@ (i :> one.val)))
    IN IF At(txt, q) = <<"}">> THEN Went(q + 1, fields)
       ELSE Then(ConsumeComma(txt, q, DOMAIN fields = {}), LAMBDA comma :
            Then(ParseKey(txt, comma.pos), LAMBDA key :
                 IF Matches(key.val, t) = {} THEN Failed
                 ELSE Field(Min(Matches(key.val, t)), key.pos)))

\* A field that is not there is NULL.
DecodeStruct(txt, p, t) ==
    IF t[1] # "STRUCT" THEN Failed
    ELSE Then(DecodeFields(txt, p + 1, t, << >>), LAMBDA fields :
              Went(fields.pos,
                   <<"struct", [i \in DOMAIN t[2] |->
                                  IF i \in DOMAIN fields.val THEN fields.val[i] ELSE <<"null">>]>>))

\* The type and the raw value of a wrapper from p on; other keys are skipped.
RECURSIVE WrapperKeys(_, _, _)
WrapperKeys(txt, p, found) ==
    LET q == SkipWhitespace(txt, p)
        Value(key, colon) ==
            IF key = Name("type") THEN ParseString(txt, colon) ELSE ParseRawValue(txt, colon)
    IN IF At(txt, q) = <<"}">> THEN [found EXCEPT !.pos = q + 1]
       ELSE Then(ConsumeComma(txt, q, found.first), LAMBDA comma :
            Then(ParseKey(txt, comma.pos), LAMBDA key :
            Then(Value(key.val, key.pos), LAMBDA value :
                 WrapperKeys(txt, value.pos,
                     [found EXCEPT !.first = FALSE,
                        !.type  = IF key.val = Name("type") THEN Some(value.val) ELSE @,
                        !.value = IF key.val = Name("value") THEN Some(value.val) ELSE @]))))

\* What follows the first value inside the raw value is not looked at.
DecodeTypedWrapper(txt, p) ==
    Then(WrapperKeys(txt, p + 1, [ok |-> TRUE, pos |-> 0, first |-> TRUE,
                                  type |-> Failed, value |-> Failed]), LAMBDA found :
         IF ~found.value.ok \/ ~found.type.ok THEN Failed
         ELSE IF found.type.val[1] # "type string" THEN Failed
         ELSE Then(ParseLogicalType(found.type.val[2], 0), LAMBDA type :
              Then(DecodeOne(found.value.val, 1, type.val), LAMBDA inner :
                   Went(found.pos, inner.val))))

\* A value that is one token, c.
DecodeScalar(c, t) ==
    CASE c = <<"lit", "null">> -> Some(<<"null">>)
      [] c \in {<<"lit", "true">>, <<"lit", "false">>} -> CoerceBoolean(c[2] = "true", t)
      [] c[1] = "str" -> CoerceJsonString(c[2], t)
      [] c[1] = "num" -> CoerceJsonNumber(c[2], t)
      [] OTHER        -> Failed

DecodeOne(txt, p, t) ==
    LET q == SkipWhitespace(txt, p)
        c == At(txt, q)
    IN CASE c = <<"{">> -> IF LooksWrapped(txt, q) THEN DecodeTypedWrapper(txt, q)
                           ELSE DecodeStruct(txt, q, t)
         [] c = <<"[">> -> IF t[1] \in {"LIST", "ARRAY", "MAP"} THEN DecodeArray(txt, q, t)
                           ELSE Failed
         [] OTHER       -> Then(DecodeScalar(c, t), LAMBDA v : Went(q + 1, v.val))

-----------------------------------------------------------------------------
\* The params array against the types the statement expects; a statement with
\* none takes any number, untyped.
Decode(txt, expected) ==
    LET first == SkipWhitespace(txt, 1)
        types == IF expected = <<>> THEN AnyNumber(txt, <<"ANY">>) ELSE expected
    IN IF SelectSeq(txt, LAMBDA x : x # <<"ws">>) \in {<<>>, <<<<"[">>, <<"]">>>>}
       THEN IF expected = <<>> THEN Some(<<>>) ELSE Failed
       ELSE IF At(txt, first) # <<"[">> THEN Failed
       ELSE Then(DecodeElements(txt, first + 1, types, <<>>), LAMBDA all :
                 IF expected # <<>> /\ Len(all.val) # Len(expected) THEN Failed
                 ELSE Some(all.val))

\* The keys of the body; the last of several equal ones counts, and what
\* follows the closing brace is not looked at.
RECURSIVE RequestKeys(_, _, _)
RequestKeys(txt, p, req) ==
    LET q == SkipWhitespace(txt, p)
        Value(key, colon) ==
            IF key \in {Name("sql"), Name("sessionId")} THEN ParseString(txt, colon)
            ELSE ParseRawValue(txt, colon)
    IN IF At(txt, q) = <<"}">> THEN req
       ELSE Then(ConsumeComma(txt, q, req.first), LAMBDA comma :
            Then(ParseKey(txt, comma.pos), LAMBDA key :
            Then(Value(key.val, key.pos), LAMBDA value :
                 RequestKeys(txt, value.pos,
                     [req EXCEPT !.first = FALSE,
                        !.sql       = IF key.val = Name("sql") THEN value.val ELSE @,
                        !.sessionId = IF key.val = Name("sessionId") THEN value.val ELSE @,
                        !.params    = IF key.val = Name("params") THEN value.val ELSE @]))))

ParseRequest(body) ==
    LET p == SkipWhitespace(body, 1)
    IN IF At(body, p) # <<"{">> THEN Failed
       ELSE Then(RequestKeys(body, p + 1, [ok |-> TRUE, first |-> TRUE, sql |-> <<"none">>,
                                           sessionId |-> <<"none">>, params |-> <<>>]),
                 LAMBDA req : IF req.sql = <<"none">> THEN Failed ELSE req)

-----------------------------------------------------------------------------
(***************************************************************************)
(* The bytes of a string.                                                  *)
(***************************************************************************)
HexValue(c) ==
    CASE c \in 48..57  -> c - 48
      [] c \in 97..102 -> c - 87
      [] c \in 65..70  -> c - 55
      [] OTHER         -> -1

EncodeUtf8(cp) ==
    LET Continuation(k) == 128 + ((cp \div k) % 64)
    IN CASE cp < 128                 -> <<cp>>
         [] cp >= 128 /\ cp < 2048   -> <<192 + (cp \div 64), Continuation(1)>>
         [] cp >= 2048 /\ cp < 65536 -> <<224 + (cp \div 4096), Continuation(64), Continuation(1)>>
         [] cp >= 65536              -> <<240 + (cp \div 262144), Continuation(4096),
                                          Continuation(64), Continuation(1)>>

Escapable == {34, 92, 47, 98, 102, 110, 114, 116}

Unescaped(c) ==
    IF \E e \in ShortEscapes : e[2] = c THEN (CHOOSE e \in ShortEscapes : e[2] = c)[1] ELSE c

\* The string whose opening quote is before byte i, up to its closing quote.
RECURSIVE ParseBytes(_, _, _)
ParseBytes(s, i, acc) ==
    LET esc == s[i + 1]
        hex == [k \in 1..4 |-> HexValue(s[i + 1 + k])]
        cp  == 4096 * hex[1] + 256 * hex[2] + 16 * hex[3] + hex[4]
    IN IF i > Len(s) THEN Failed
       ELSE IF s[i] = 34 THEN Went(i + 1, acc)
       ELSE IF s[i] # 92 THEN ParseBytes(s, i + 1, Append(acc, s[i]))
       ELSE IF i + 1 > Len(s) THEN Failed
       ELSE IF esc \in Escapable THEN ParseBytes(s, i + 2, Append(acc, Unescaped(esc)))
       ELSE IF esc # 117 \/ i + 5 > Len(s) THEN Failed
       ELSE IF -1 \in {hex[k] : k \in 1..4} THEN Failed
       ELSE ParseBytes(s, i + 6, acc \o EncodeUtf8(cp))

=============================================================================

------------------------------ MODULE SqlJson ------------------------------
(***************************************************************************)
(* JsonWriter: the encoder writes JSON call by call, the writer puts the   *)
(* commas in.  JSON text is a sequence of tokens: punctuation, "ws",       *)
(* <<"str", text>>, <<"num", text>>, <<"lit", word>> and <<"junk">>.       *)
(* Inside a string the writer works byte by byte (WriteEscapedString), and *)
(* so do the operators at the end of the module.                           *)
(***************************************************************************)
EXTENDS SqlValues

Name(n) == <<"word", n>>

NewWriter == [buf |-> <<>>, frames |-> <<>>, first |-> TRUE]

Write(w, tokens) == [w EXCEPT !.buf = @ \o tokens]

\* A comma before every value of an array but the first; the value of a pair
\* ends it.
BeforeValue(w) ==
    IF w.frames = <<>> THEN w
    ELSE IF Last(w.frames) = "array"
    THEN [Write(w, IF w.first THEN <<>> ELSE <<<<",">>>>) EXCEPT !.first = FALSE]
    ELSE IF Last(w.frames) = "value"
    THEN [w EXCEPT !.frames = Append(Front(@), "key"), !.first = FALSE]
    ELSE w

BeforeKey(w) ==
    IF w.frames # <<>> /\ Last(w.frames) = "key"
    THEN [Write(w, IF w.first THEN <<>> ELSE <<<<",">>>>) EXCEPT !.first = FALSE]
    ELSE w

BeginFrame(w, bracket, frame) ==
    [Write(BeforeValue(w), <<bracket>>) EXCEPT !.frames = Append(@, frame), !.first = TRUE]

\* Slip: a container that ends leaves first_in_frame set.
EndFrameFirst(w, bracket) ==
    IF w.frames = <<>> THEN w
    ELSE [Write(w, <<bracket>>) EXCEPT !.frames = Front(@)]

EndFrame(w, bracket) ==
    IF w.frames = <<>> THEN w
    ELSE [Write(w, <<bracket>>) EXCEPT !.frames = Front(@), !.first = FALSE]

BeginObject(w) == BeginFrame(w, <<"{">>, "key")
EndObject(w)   == EndFrame(w, <<"}">>)
BeginArray(w)  == BeginFrame(w, <<"[">>, "array")
EndArray(w)    == EndFrame(w, <<"]">>)

Key(w, n) ==
    [Write(BeforeKey(w), <<<<"str", Name(n)>>, <<":">>>>)
        EXCEPT !.frames = Append(Front(@), "value")]

Put(w, token)       == Write(BeforeValue(w), <<token>>)
Null(w)             == Put(w, <<"lit", "null">>)
Bool(w, b)          == Put(w, <<"lit", IF b THEN "true" ELSE "false">>)
PutInt(w, n)        == Put(w, <<"num", <<"int", n>>>>)
String(w, x)        == Put(w, <<"str", x>>)

\* NaN and the infinities have no JSON number.
Double(w, x) ==
    Put(w, <<IF x \in {<<"frac", "NaN">>, <<"frac", "Infinity">>, <<"frac", "-Infinity">>}
             THEN "str" ELSE "num", x>>)

KeyBool(w, n, b)   == Bool(Key(w, n), b)
KeyInt(w, n, i)    == PutInt(Key(w, n), i)
KeyString(w, n, x) == String(Key(w, n), x)

-----------------------------------------------------------------------------
(***************************************************************************)
(* The bytes of a string.                                                  *)
(***************************************************************************)
\* Slip: overlong forms and surrogates are let through.
ValidateUtf8Overlong(s, i) ==
    LET Continues(k) == i + k <= Len(s) /\ s[i + k] \in 128..191
        b == s[i]
    IN CASE b < 128 -> 1
         [] b \in 192..223 /\ Continues(1) -> 2
         [] b \in 224..239 /\ Continues(1) /\ Continues(2) -> 3
         [] b \in 240..244 /\ Continues(1) /\ Continues(2) /\ Continues(3) -> 4
         [] OTHER -> 0

\* Bytes consumed by the UTF-8 sequence at s[i], 0 if there is none.
ValidateUtf8(s, i) ==
    LET Continues(k) == i + k <= Len(s) /\ s[i + k] \in 128..191
        b == s[i]
    IN CASE b < 128 -> 1
         [] b \in 192..223 /\ Continues(1) /\ b >= 194 -> 2
         [] b \in 224..239 /\ Continues(1) /\ Continues(2)
                           /\ ~(b = 224 /\ s[i + 1] < 160)
                           /\ ~(b = 237 /\ s[i + 1] >= 160) -> 3
         [] b \in 240..244 /\ Continues(1) /\ Continues(2) /\ Continues(3)
                           /\ ~(b = 240 /\ s[i + 1] < 144)
                           /\ ~(b = 244 /\ s[i + 1] >= 144) -> 4
         [] OTHER -> 0

Replacement == <<239, 191, 189>>

\* The escapes that have a letter, as the byte and the letter after the
\* backslash.
ShortEscapes == {<<34, 34>>, <<92, 92>>, <<8, 98>>, <<12, 102>>, <<10, 110>>, <<13, 114>>, <<9, 116>>}

HexDigit(n) == IF n < 10 THEN 48 + n ELSE 97 + n - 10

EscapedByte(b) ==
    IF \E e \in ShortEscapes : e[1] = b
    THEN <<92, (CHOOSE e \in ShortEscapes : e[1] = b)[2]>>
    ELSE IF b < 32
    THEN <<92, 117, 48, 48, HexDigit(b \div 16), HexDigit(b % 16)>>
    ELSE <<b>>

RECURSIVE Escaped(_, _)
Escaped(s, i) ==
    IF i > Len(s) THEN <<>>
    ELSE LET n == ValidateUtf8(s, i)
         IN IF s[i] < 128 THEN EscapedByte(s[i]) \o Escaped(s, i + 1)
            ELSE IF n = 0 THEN Replacement \o Escaped(s, i + 1)
            ELSE SubSeq(s, i, i + n - 1) \o Escaped(s, i + n)

WriteEscapedString(s) == <<34>> \o Escaped(s, 1) \o <<34>>

=============================================================================

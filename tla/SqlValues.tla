----------------------------- MODULE SqlValues -----------------------------
(***************************************************************************)
(* DuckDB's logical types and values as POST /sql carries them, and        *)
(* DuckDB's own casts, of which the codec's code calls DefaultCastAs.      *)
(*                                                                         *)
(* A type is a tuple headed by its LogicalTypeId.  A value and a piece of  *)
(* text are tuples headed by their kind: what a text says (an integer, a   *)
(* point in time, base64 of some bytes) is kept, its characters are not.   *)
(* Integer widths are scaled down, in the order the encoder tells apart:   *)
(* what fits INTEGER, what an IEEE double holds exactly, what fits 64 and  *)
(* what fits 128 bits.                                                     *)
(***************************************************************************)
EXTENDS Integers, Sequences, SequencesExt, FiniteSets

CONSTANTS
    Int32, Safe, Int64, Int128, \* the largest INTEGER, exact double, BIGINT, HUGEINT
    Micros, Millis,             \* ticks of TIMESTAMP and TIMESTAMP_MS in a second
    Minute                      \* seconds in a minute of a TIMETZ offset

ASSUME ValuesAssumption ==
    /\ 0 < Int32 /\ Int32 < Safe /\ Safe < Int64 /\ Int64 < Int128
    /\ Millis > 1 /\ Micros % Millis = 0 /\ Minute > 1

Failed == [ok |-> FALSE]
Some(v) == [ok |-> TRUE, val |-> v]

IntegerTypes == {"INTEGER", "BIGINT", "UBIGINT", "HUGEINT"}

IntegerRange(id) ==
    CASE id = "INTEGER" -> (-Int32 - 1)..Int32
      [] id = "BIGINT"  -> (-Int64 - 1)..Int64
      [] id = "UBIGINT" -> 0..(2 * Int64 + 1)
      [] id = "HUGEINT" -> (-Int128 - 1)..Int128

DecimalRange(width) == (1 - 10 ^ width)..(10 ^ width - 1)

(***************************************************************************)
(* VARCHAR to t.  A text of another kind than t's does not cast.           *)
(***************************************************************************)
CastText(x, t) ==
    CASE t[1] \in {"VARCHAR", "ANY"} ->
            Some(<<"text", x>>)
      [] t[1] \in IntegerTypes ->
            IF x[1] = "int" /\ x[2] \in IntegerRange(t[1])
            THEN Some(<<"int", x[2]>>) ELSE Failed
      [] t[1] = "DOUBLE" ->
            IF x[1] \in {"frac", "int"} THEN Some(<<"dbl", x>>) ELSE Failed
      [] t[1] = "DECIMAL" ->
            IF x[1] = "dec" /\ x[3] = t[3] /\ x[2] \in DecimalRange(t[2])
            THEN Some(<<"dec", x[2]>>) ELSE Failed
      [] t[1] \in {"TIMESTAMP", "TIMESTAMP_S", "TIMESTAMP_MS"} ->
            IF x[1] # "instant" THEN Failed
            ELSE Some(<<"ts", CASE t[1] = "TIMESTAMP"    -> x[2] * Micros + x[3]
                                [] t[1] = "TIMESTAMP_S"  -> x[2]
                                [] t[1] = "TIMESTAMP_MS" -> x[2] * Millis + x[3] \div (Micros \div Millis)>>)
      [] t[1] = "TIMETZ" ->
            IF x[1] = "timetz" THEN Some(<<"timetz", x[2], x[3] * Minute>>) ELSE Failed
      [] t[1] = "BLOB" ->
            Some(<<"blob", <<"characters of", x>>>>)
      [] t[1] = "ENUM" ->
            IF x[1] = "word" /\ x[2] \in ToSet(t[2]) THEN Some(<<"enum", x[2]>>) ELSE Failed
      [] t[1] = "BOOLEAN" ->
            IF x[1] = "bool" THEN Some(x) ELSE Failed
      [] OTHER -> Failed

\* BOOLEAN to t.
CastBoolean(b, t) ==
    CASE t[1] \in IntegerTypes -> Some(<<"int", IF b THEN 1 ELSE 0>>)
      [] t[1] = "VARCHAR"      -> Some(<<"text", <<"bool", b>>>>)
      [] t[1] = "DOUBLE"       -> Some(<<"dbl", <<"int", IF b THEN 1 ELSE 0>>>>)
      [] OTHER                 -> Failed

\* Value::MAP refuses a NULL key and a key that comes twice.
AreMapPairs(pairs) ==
    /\ \A i \in DOMAIN pairs : pairs[i][1] # <<"null">>
    /\ \A i, j \in DOMAIN pairs : pairs[i][1] = pairs[j][1] => i = j

\* LogicalType::DECIMAL refuses a width no physical type holds.
MaxDecimalWidth == 38

=============================================================================

------------------------------ MODULE SqlValues -----------------------------
(* The runtime values of the query engine (values.go): their order, SQL      *)
(* equality, the keys that group them, maps, and their form on the wire.  A  *)
(* value is a tagged tuple; integers have IntBits bits.                      *)
EXTENDS Keys

CONSTANTS IntBits,
          SecondMicros    \* 1e6

MaxInt == 2^(IntBits - 1) - 1
MinInt == -(2^(IntBits - 1))
Ints == MinInt..MaxInt

Null == <<"null">>
isNull(v) == v[1] = "null"
NaN == <<"float", "nan", 0>>
isNaNValue(v) == v = NaN

cmpInt(a, b) == IF a < b THEN -1 ELSE IF a > b THEN 1 ELSE 0

\* Mutant: comparisons with NaN are all false, so it equals everything.
cmpFloatPlain(a, b) == IF NaN \in {a, b} THEN 0 ELSE cmpInt(a[3], b[3])

\* NaN comes first and equals itself.
cmpFloat(a, b) ==
  CASE a = NaN /\ b = NaN -> 0
    [] a = NaN -> -1
    [] b = NaN -> 1
    [] OTHER -> cmpInt(a[3], b[3])

\* An integer beside a float is converted to one, here without the rounding that
\* integers of more than 53 bits undergo.
float(v) == IF v[1] = "int" THEN <<"float", "n", v[2]>> ELSE v

cmpBytes(a, b) == IF less(a, b) THEN -1 ELSE IF less(b, a) THEN 1 ELSE 0

\* The keys and values of a map in turn.
entries(m) == FlattenSeq([i \in DOMAIN m[2] |-> <<m[2][i], m[3][i]>>])

RECURSIVE compareValues(_, _)

compareEach(x, y) ==
  LET apart == {i \in DOMAIN x \cap DOMAIN y : compareValues(x[i], y[i]) # 0}
      first == CHOOSE i \in apart : \A j \in apart : i <= j
  IN IF apart = {} THEN cmpInt(Len(x), Len(y)) ELSE compareValues(x[first], y[first])

compareValues(a, b) ==
  IF isNull(a) \/ isNull(b)
  THEN cmpInt(IF isNull(a) THEN 0 ELSE 1, IF isNull(b) THEN 0 ELSE 1)
  ELSE CASE "float" \in {a[1], b[1]} -> cmpFloat(float(a), float(b))
         [] a[1] \in {"bool", "int"} -> cmpInt(a[2], b[2])
         [] a[1] = "bytes" -> cmpBytes(a[2], b[2])
         [] a[1] = "array" -> compareEach(a[2], b[2])
         [] a[1] = "map" -> compareEach(entries(a), entries(b))

-----------------------------------------------------------------------------
(* Three-valued equality: "T", "F" or "N".                                   *)

RECURSIVE sqlEquals(_, _)

\* One difference decides; a NULL without one leaves the answer open.
equalEach(x, y) ==
  IF Len(x) # Len(y) THEN "F"
  ELSE LET answers == {sqlEquals(x[i], y[i]) : i \in DOMAIN x}
       IN IF "F" \in answers THEN "F" ELSE IF "N" \in answers THEN "N" ELSE "T"

sqlEquals(a, b) ==
  CASE isNull(a) \/ isNull(b) -> "N"
    [] "float" \in {a[1], b[1]} -> IF NaN \notin {a, b} /\ float(a)[3] = float(b)[3] THEN "T" ELSE "F"
    [] a[1] = "array" -> equalEach(a[2], b[2])
    [] a[1] = "map" -> IF compareEach(a[2], b[2]) # 0 THEN "F" ELSE equalEach(a[3], b[3])
    [] OTHER -> IF compareValues(a, b) = 0 THEN "T" ELSE "F"

-----------------------------------------------------------------------------
(* The key of a value in GROUP BY, DISTINCT and DISTINCT aggregates.  Tags   *)
(* are bytes like any other.                                                 *)

RECURSIVE valueKey(_)

keyOfBytes(b) == <<4, Len(b)>> \o b

\* NaNs are one value, and so are the two zeros.
keyOfFloat(v) == IF v = NaN THEN <<3, 0, 0>> ELSE <<3, 1, v[3]>>

keysOf(seq) == FlattenSeq([i \in DOMAIN seq |-> valueKey(seq[i])])

valueKey(v) ==
  CASE isNull(v) -> <<0>>
    [] v[1] = "bool" -> <<1, v[2]>>
    [] v[1] = "int" -> <<2, v[2]>>
    [] v[1] = "float" -> keyOfFloat(v)
    [] v[1] = "bytes" -> keyOfBytes(v[2])
    [] v[1] = "array" -> <<5, Len(v[2])>> \o keysOf(v[2])
    [] v[1] = "map" -> <<6, Len(v[2])>> \o keysOf(entries(v))

\* The key of a row: one buffer for all its values.
rowKeyOf(vals) == keysOf(vals)

-----------------------------------------------------------------------------
(* Maps *)

sortPairs(pairs) == stableSort(pairs, LAMBDA p, q : compareValues(p[1], q[1]) < 0)

\* Of equal keys the last value wins.
newMap(pairs) ==
  LET put(out, p) == IF out # <<>> /\ compareValues(p[1], Last(out)[1]) = 0
                     THEN [out EXCEPT ![Len(out)][2] = p[2]] ELSE Append(out, p)
      kept == FoldLeft(put, <<>>, sortPairs(pairs))
  IN <<"map", [i \in DOMAIN kept |-> kept[i][1]], [i \in DOMAIN kept |-> kept[i][2]]>>

\* The binary search: the first key that is not below k.
lookup(m, k) ==
  LET from == {i \in DOMAIN m[2] : compareValues(m[2][i], k) >= 0}
      at == CHOOSE i \in from : \A j \in from : i <= j
  IN IF from # {} /\ compareValues(m[2][at], k) = 0 THEN m[3][at] ELSE Null

-----------------------------------------------------------------------------
(* The wire.  A type is a tagged tuple as well; a wire value without a kind  *)
(* is NULL.                                                                  *)

\* Go's division.
truncDiv(a, b) == IF a >= 0 THEN a \div b ELSE -((-a) \div b)

floorDiv(a, b) ==
  LET q == truncDiv(a, b) IN IF a # q * b /\ (a < 0) # (b < 0) THEN q - 1 ELSE q
floorMod(a, b) == a - floorDiv(a, b) * b

Refused == <<"refused">>
isRefused(v) == v[1] = "refused"

RECURSIVE toProtoValue(_, _), fromProtoValue(_, _)

toProtoValue(v, t) ==
  CASE isNull(v) -> <<"none">>
    [] t[1] = "timestamp" -> <<"timestamp", floorDiv(v[2], SecondMicros), floorMod(v[2], SecondMicros) * 1000>>
    [] t[1] = "array" -> <<"array", [i \in DOMAIN v[2] |-> toProtoValue(v[2][i], t[2])]>>
    [] t[1] = "struct" -> <<"array", [i \in DOMAIN v[2] |-> toProtoValue(v[2][i], t[2][i])]>>
    [] t[1] = "map" -> <<"array", [i \in DOMAIN v[2] |->
                          <<"array", <<toProtoValue(v[2][i], t[2]), toProtoValue(v[3][i], t[3])>>>>]>>
    [] OTHER -> v

\* Any element refused refuses the whole.
collected(vals, v) == IF \E i \in DOMAIN vals : isRefused(vals[i]) THEN Refused ELSE v

pairsFrom(wire, t) ==
  [i \in DOMAIN wire |->
     IF wire[i][1] # "array" THEN <<Refused, Refused>>
     ELSE IF Len(wire[i][2]) # 2 THEN <<Refused, Refused>>
     ELSE LET k == fromProtoValue(wire[i][2][1], t[2])
          IN <<IF isNull(k) THEN Refused ELSE k, fromProtoValue(wire[i][2][2], t[3])>>]

fromProtoValue(pv, t) ==
  CASE pv[1] = "none" -> Null
    [] t[1] \in {"int", "bytes", "bool", "float"} -> IF pv[1] = t[1] THEN pv ELSE Refused
    [] t[1] = "timestamp" ->
         IF pv[1] = "timestamp" THEN <<"int", pv[2] * SecondMicros + truncDiv(pv[3], 1000)>> ELSE Refused
    [] pv[1] # "array" -> Refused
    [] t[1] = "array" ->
         LET vals == [i \in DOMAIN pv[2] |-> fromProtoValue(pv[2][i], t[2])]
         IN collected(vals, <<"array", vals>>)
    [] t[1] = "struct" ->
         IF Len(pv[2]) # Len(t[2]) THEN Refused
         ELSE LET vals == [i \in DOMAIN pv[2] |-> fromProtoValue(pv[2][i], t[2][i])]
              IN collected(vals, <<"array", vals>>)
    [] t[1] = "map" ->
         LET pairs == pairsFrom(pv[2], t)
         IN IF \E i \in DOMAIN pairs : isRefused(pairs[i][1]) \/ isRefused(pairs[i][2])
            THEN Refused ELSE newMap(pairs)
=============================================================================

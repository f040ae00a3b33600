------------------------------ MODULE KeyCodec ------------------------------
(* Structured row keys (keycodec.go): fields, ordered integers, and the      *)
(* three ways to join fields.  A field type is [kind, esc]: kind is bytes    *)
(* (and STRING, up to UTF-8), int (8 bytes big-endian) or ordered            *)
(* (OrderedCode; TIMESTAMP is an integer here); esc is the byte that escapes *)
(* NULL, -1 for none.                                                        *)
EXTENDS SqlValues

\* A number in n bytes, most significant first, and back.
toBytes(x, n) == [i \in 1..n |-> (x \div 2^(ByteBits * (n - i))) % 2^ByteBits]
toNumber(b) == FoldLeft(LAMBDA x, c : x * 2^ByteBits + c, 0, b)

IntBytes == IntBits \div ByteBits
allBytesEqual(b, c) == \A i \in DOMAIN b : b[i] = c
flipped(b) == [i \in DOMAIN b |-> TopByte - b[i]]

-----------------------------------------------------------------------------
(* Ordered integers: n ones and a zero, then the number, in n bytes; a       *)
(* negative number is the complement of the encoding of its complement.      *)

payloadBits(n) == (ByteBits - 1) * n - 1
orderedLen(x) == CHOOSE n \in 1..IntBits : x < 2^payloadBits(n) /\ (n = 1 \/ x >= 2^payloadBits(n - 1))
MaxOrderedLen == orderedLen(MaxInt)

appendOrderedInt64(v) ==
  LET x == IF v < 0 THEN -v - 1 ELSE v
      n == orderedLen(x)
      enc == toBytes((2^n - 1) * 2^(ByteBits * n - n) + x, n)
  IN IF v < 0 THEN flipped(enc) ELSE enc

bitOf(b, i) == (b[1 + (i \div ByteBits)] \div 2^(ByteBits - 1 - (i % ByteBits))) % 2

NoInt == [v |-> 0, n |-> 0]      \* an error; n is the bytes consumed

canonical(v, n) == Len(appendOrderedInt64(v)) = n

decodeOrderedInt64(b) ==
  IF b = <<>> THEN NoInt
  ELSE LET neg == b[1] < 2^(ByteBits - 1)
           e == IF neg THEN flipped(b) ELSE b
           zeros == {i \in 0..(ByteBits * Len(b) - 1) : bitOf(e, i) = 0}
           n == CHOOSE i \in zeros : \A j \in zeros : i <= j
       IN IF zeros = {} THEN NoInt
          ELSE IF n > MaxOrderedLen \/ Len(b) < n THEN NoInt
          ELSE LET x == toNumber(SubSeq(e, 1, n)) % 2^(ByteBits * n - n)
                   v == IF neg THEN -x - 1 ELSE x
               IN IF x > MaxInt THEN NoInt
                  ELSE IF canonical(v, n) THEN [v |-> v, n |-> n] ELSE NoInt

-----------------------------------------------------------------------------
(* Fields *)

\* Mutant: only the empty value is escaped.
escapedWhenEmpty(b, esc) == IF b = <<>> THEN <<esc>> ELSE b

\* A value of escape bytes only gets one more, so that NULL is the empty one.
escaped(b, esc) == IF allBytesEqual(b, esc) THEN Append(b, esc) ELSE b

encodeKeyField(t, v) ==
  CASE isNull(v) -> IF t.kind = "bytes" /\ t.esc >= 0 THEN <<"ok", <<>>>> ELSE Refused
    [] t.kind = "bytes" -> <<"ok", IF t.esc >= 0 THEN escaped(v[2], t.esc) ELSE v[2]>>
    [] t.kind = "int" -> <<"ok", toBytes(v[2] % 2^IntBits, IntBytes)>>
    [] t.kind = "ordered" -> <<"ok", appendOrderedInt64(v[2])>>

signed(x) == IF x > MaxInt THEN x - 2^IntBits ELSE x

decodeKeyField(t, b) ==
  CASE t.kind = "bytes" ->
         IF t.esc >= 0 /\ b = <<>> THEN Null
         ELSE IF t.esc >= 0 /\ allBytesEqual(b, t.esc) THEN <<"bytes", Front(b)>>
         ELSE <<"bytes", b>>
    [] t.kind = "int" -> IF Len(b) # IntBytes THEN Refused ELSE <<"int", signed(toNumber(b))>>
    [] t.kind = "ordered" ->
         LET d == decodeOrderedInt64(b)
         IN IF d.n = 0 \/ d.n # Len(b) THEN Refused ELSE <<"int", d.v>>

-----------------------------------------------------------------------------
(* Joining fields in order: 00 01 between fields, 00 00 for an empty one,    *)
(* 00 FF for a zero byte, and no empty fields at the end.                    *)

escapeZero(b) ==
  FlattenSeq([i \in DOMAIN b |-> IF b[i] = 0 THEN <<0, TopByte>> ELSE <<b[i]>>])

segment(b) == IF b = <<>> THEN <<0, 0>> ELSE escapeZero(b)

orderedCodeJoin(encs) ==
  LET full == {i \in DOMAIN encs : encs[i] # <<>>}
      last == CHOOSE i \in full : \A j \in full : j <= i
      part(i) == (IF i > 1 THEN <<0, 1>> ELSE <<>>) \o segment(encs[i])
  IN IF full = {} THEN <<0, 0>> ELSE FlattenSeq([i \in 1..last |-> part(i)])

\* The loop of orderedCodeSplit: the segments from key[i] on, or refused.
RECURSIVE splitFrom(_, _, _, _)
splitFrom(key, i, segs, cur) ==
  LET pairAt(j, c) == j < Len(key) /\ key[j] = 0 /\ key[j + 1] = c
  IN CASE i > Len(key) -> <<"ok", Append(segs, cur)>>
       [] i <= Len(key) /\ key[i] # 0 -> splitFrom(key, i + 1, segs, Append(cur, key[i]))
       [] pairAt(i, TopByte) -> splitFrom(key, i + 2, segs, Append(cur, 0))
       [] pairAt(i, 1) -> splitFrom(key, i + 2, Append(segs, cur), <<>>)
       [] pairAt(i, 0) /\ cur = <<>> /\ (i + 2 > Len(key) \/ pairAt(i + 2, 1)) ->
            splitFrom(key, i + 2, segs, cur)
       [] OTHER -> Refused

padded(segs, n) == segs \o [i \in 1..(n - Len(segs)) |-> <<>>]

orderedCodeSplit(key, n) ==
  LET s == splitFrom(key, 1, <<>>, <<>>)
  IN CASE key = <<>> -> <<"ok", padded(<<>>, n)>>
       [] isRefused(s) -> Refused
       [] Len(s[2]) > n -> Refused
       [] OTHER -> <<"ok", padded(s[2], n)>>

-----------------------------------------------------------------------------
(* Keys.  A schema is [enc, delim, fields].                                  *)

occurs(d, b, i) == IsPrefix(d, SubSeq(b, i, Len(b)))
holdsDelimiter(b, d) == \E i \in 1..Len(b) : occurs(d, b, i)

\* A field of variable length may not hold the delimiter.
delimitersApart(schema, encs) ==
  \A i \in DOMAIN encs : schema.fields[i].kind = "bytes" => ~holdsDelimiter(encs[i], schema.delim)

joined(encs, d) == FlattenSeq([i \in DOMAIN encs |-> IF i = 1 THEN encs[i] ELSE d \o encs[i]])

encodeKey(schema, vals) ==
  LET fs == [i \in DOMAIN vals |-> encodeKeyField(schema.fields[i], vals[i])]
      encs == [i \in DOMAIN fs |-> fs[i][2]]
  IN CASE \E i \in DOMAIN fs : isRefused(fs[i]) -> Refused
       [] schema.enc = "singleton" -> <<"ok", encs[1]>>
       [] schema.enc = "delimited" ->
            IF delimitersApart(schema, encs) THEN <<"ok", joined(encs, schema.delim)>> ELSE Refused
       [] OTHER -> <<"ok", orderedCodeJoin(encs)>>

\* The fields of the key of a materialized view.
keyFieldProto(t) == [kind |-> IF t = "bytes" THEN "bytes" ELSE "ordered", esc |-> -1]
keySchemaForView(types) ==
  [enc |-> "ordered", delim |-> <<>>, fields |-> [i \in DOMAIN types |-> keyFieldProto(types[i])]]

\* How many bytes the next field of a delimited key takes, -1 for an error.
fieldLen(schema, i, rest) ==
  LET t == schema.fields[i]
      at == {j \in 1..Len(rest) : occurs(schema.delim, rest, j)}
  IN CASE t.kind = "int" -> IF Len(rest) < IntBytes THEN -1 ELSE IntBytes
       [] t.kind = "ordered" -> IF decodeOrderedInt64(rest).n = 0 THEN -1 ELSE decodeOrderedInt64(rest).n
       [] i = Len(schema.fields) -> IF at # {} THEN -1 ELSE Len(rest)
       [] OTHER -> IF at = {} THEN -1 ELSE (CHOOSE j \in at : \A k \in at : j <= k) - 1

RECURSIVE delimitedFrom(_, _, _)
delimitedFrom(schema, i, rest) ==
  IF i > Len(schema.fields) THEN IF rest = <<>> THEN <<>> ELSE <<Refused>>
  ELSE LET d == IF i = 1 THEN <<>> ELSE schema.delim
           body == SubSeq(rest, Len(d) + 1, Len(rest))
           n == fieldLen(schema, i, body)
       IN IF ~IsPrefix(d, rest) THEN <<Refused>>
          ELSE IF n < 0 THEN <<Refused>>
          ELSE <<decodeKeyField(schema.fields[i], SubSeq(body, 1, n))>> \o
               delimitedFrom(schema, i + 1, SubSeq(body, n + 1, Len(body)))

decodeKey(schema, key) ==
  LET segs == orderedCodeSplit(key, Len(schema.fields))
      vals == CASE schema.enc = "singleton" -> <<decodeKeyField(schema.fields[1], key)>>
                [] schema.enc = "delimited" -> delimitedFrom(schema, 1, key)
                [] isRefused(segs) -> <<Refused>>
                [] OTHER -> [i \in DOMAIN schema.fields |-> decodeKeyField(schema.fields[i], segs[2][i])]
  IN IF \E i \in DOMAIN vals : isRefused(vals[i]) THEN Refused ELSE <<"ok", vals>>

-----------------------------------------------------------------------------
(* Cells of a materialized view (cellcodec.go): a NULL has no cell.          *)

encodeCell(t, v) ==
  CASE isNull(v) -> Refused
    [] t = "bool" -> <<"ok", <<v[2]>>>>
    [] t = "int" -> <<"ok", toBytes(v[2] % 2^IntBits, IntBytes)>>
    [] t = "bytes" -> <<"ok", v[2]>>

decodeCell(t, b) ==
  CASE t = "bool" -> IF Len(b) # 1 THEN Refused ELSE <<"bool", IF b[1] # 0 THEN 1 ELSE 0>>
    [] t = "int" -> IF Len(b) # IntBytes THEN Refused ELSE <<"int", signed(toNumber(b))>>
    [] t = "bytes" -> <<"bytes", b>>
=============================================================================

------------------------------ MODULE SqlLogic ------------------------------
(* Operators of the query engine (ops.go): integer arithmetic, three-valued  *)
(* logic ("T", "F", "N", and "E" for an evaluation that failed), IN,         *)
(* BETWEEN and LIKE.                                                         *)
EXTENDS SqlValues

Overflow == MaxInt + 1
wrap(x) == ((x - MinInt) % 2^IntBits) + MinInt
negative(x) == x < 0

addInt64(a, b) ==
  LET c == wrap(a + b)
  IN IF negative(a) # negative(c) /\ negative(b) # negative(c) THEN Overflow ELSE c

subInt64(a, b) ==
  LET c == wrap(a - b)
  IN IF negative(a) # negative(b) /\ negative(a) # negative(c) THEN Overflow ELSE c

\* c / b, which wraps for the least integer divided by -1.
quotient(c, b) == wrap(IF b > 0 THEN truncDiv(c, b) ELSE -truncDiv(c, -b))

\* Mutant: the least integer times -1 is let through.
mulUnchecked(a, b) ==
  LET c == wrap(a * b) IN IF b # 0 /\ quotient(c, b) # a THEN Overflow ELSE c

mulInt64(a, b) ==
  LET c == wrap(a * b)
  IN IF a = 0 \/ b = 0 THEN 0
     ELSE IF quotient(c, b) # a \/ (a = -1 /\ b = MinInt) \/ (b = -1 /\ a = MinInt) THEN Overflow
     ELSE c

-----------------------------------------------------------------------------
evalAnd(l, r) ==
  CASE l \in {"E", "F"} -> l
    [] r \in {"E", "F"} -> r
    [] OTHER -> IF "N" \in {l, r} THEN "N" ELSE "T"

evalOr(l, r) ==
  CASE l \in {"E", "T"} -> l
    [] r \in {"E", "T"} -> r
    [] OTHER -> IF "N" \in {l, r} THEN "N" ELSE "F"

\* NOT and the negated forms of the operators below.
negated(v) == CASE v = "T" -> "F" [] v = "F" -> "T" [] OTHER -> v

\* A comparison: strict in NULL, and false on NaN.
compared(op, a, b) ==
  LET c == compareValues(a, b)
      holds == CASE op = "lt" -> c < 0 [] op = "le" -> c <= 0 [] op = "gt" -> c > 0 [] op = "ge" -> c >= 0
  IN CASE isNull(a) \/ isNull(b) -> "N"
       [] op = "eq" -> sqlEquals(a, b)
       [] isNaNValue(a) \/ isNaNValue(b) -> "F"
       [] OTHER -> IF holds THEN "T" ELSE "F"

inResult(x, vals) ==
  CASE isNull(x) -> "N"
    [] \E i \in DOMAIN vals : sqlEquals(x, vals[i]) = "T" -> "T"
    [] \E i \in DOMAIN vals : sqlEquals(x, vals[i]) = "N" -> "N"
    [] OTHER -> "F"

\* x IN UNNEST(array): over no array or an empty one it is false, NULL x or not.
inUnnest(x, array) == IF isNull(array) \/ array = <<"array", <<>>>> THEN "F" ELSE inResult(x, array[2])

between(x, lo, hi) ==
  LET ge == compared("le", lo, x)
      le == compared("le", x, hi)
  IN CASE ge = "F" \/ le = "F" -> "F"
       [] ge = "N" \/ le = "N" -> "N"
       [] OTHER -> "T"

-----------------------------------------------------------------------------
(* LIKE.  Three bytes have a meaning in a pattern.                           *)

Percent == 2
Underscore == 3
Backslash == 4

token(kind, r) == [kind |-> kind, r |-> r]
BadPattern == <<token("bad", 0)>>

\* compileLike; runs of % are one.
RECURSIVE compileFrom(_, _, _)
compileFrom(pat, i, toks) ==
  CASE i > Len(pat) -> toks
    [] pat[i] = Backslash ->
         IF i = Len(pat) THEN BadPattern
         ELSE compileFrom(pat, i + 2, Append(toks, token("l", pat[i + 1])))
    [] pat[i] = Percent ->
         compileFrom(pat, i + 1, IF toks # <<>> /\ Last(toks).kind = "%" THEN toks
                                 ELSE Append(toks, token("%", 0)))
    [] pat[i] = Underscore -> compileFrom(pat, i + 1, Append(toks, token("_", 0)))
    [] OTHER -> compileFrom(pat, i + 1, Append(toks, token("l", pat[i])))

compileLike(pat) == compileFrom(pat, 1, <<>>)

\* Back to the last %, which takes one byte more.
backtrack(s) == [s EXCEPT !.pi = s.starP + 1, !.starS = @ + 1, !.si = s.starS + 1]

\* The loop of match; indices are from 0 as in the code.
RECURSIVE matchFrom(_, _, _)
matchFrom(toks, str, s) ==
  LET more == s.pi < Len(toks)
      t == toks[s.pi + 1]
  IN CASE s.si >= Len(str) -> \A i \in (s.pi + 1)..Len(toks) : toks[i].kind = "%"
       [] s.si < Len(str) /\ more /\ t.kind = "%" ->
            matchFrom(toks, str, [s EXCEPT !.starP = s.pi, !.starS = s.si, !.pi = @ + 1])
       [] s.si < Len(str) /\ more /\ (t.kind = "_" \/ (t.kind = "l" /\ t.r = str[s.si + 1])) ->
            matchFrom(toks, str, [s EXCEPT !.si = @ + 1, !.pi = @ + 1])
       [] OTHER -> s.starP >= 0 /\ matchFrom(toks, str, backtrack(s))

match(toks, str) == matchFrom(toks, str, [si |-> 0, pi |-> 0, starP |-> -1, starS |-> 0])

like(str, pat) ==
  LET toks == compileLike(pat)
  IN IF toks = BadPattern THEN "E" ELSE IF match(toks, str) THEN "T" ELSE "F"

\* The literal start of a pattern, and whether it is all of it.
RECURSIVE likePrefixFrom(_, _, _)
likePrefixFrom(pat, i, prefix) ==
  CASE i > Len(pat) -> [prefix |-> prefix, exact |-> TRUE]
    [] pat[i] = Backslash /\ i < Len(pat) -> likePrefixFrom(pat, i + 2, Append(prefix, pat[i + 1]))
    [] pat[i] \in {Percent, Underscore, Backslash} -> [prefix |-> prefix, exact |-> FALSE]
    [] OTHER -> likePrefixFrom(pat, i + 1, Append(prefix, pat[i]))

likePrefix(pat) == likePrefixFrom(pat, 1, <<>>)

-----------------------------------------------------------------------------
(* What LIKE means: the string is cut into one part for each token.          *)

RECURSIVE likeMeans(_, _)
likeMeans(toks, str) ==
  IF toks = <<>> THEN str = <<>>
  ELSE CASE Head(toks).kind = "%" ->
              \E n \in 0..Len(str) : likeMeans(Tail(toks), SubSeq(str, n + 1, Len(str)))
         [] Head(toks).kind = "_" -> str # <<>> /\ likeMeans(Tail(toks), Tail(str))
         [] OTHER -> str # <<>> /\ Head(str) = Head(toks).r /\ likeMeans(Tail(toks), Tail(str))
=============================================================================

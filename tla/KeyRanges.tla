------------------------------ MODULE KeyRanges ------------------------------
(* Byte strings, their order and the ranges of keys that requests name       *)
(* (storage.go, data_read.go, validation.go, table_admin.go, pushdown.go).   *)
(* A byte has ByteBits bits, so that a small model has few bytes; 0 and      *)
(* TopByte stand for 0x00 and 0xff.  An empty end is no end.                 *)
EXTENDS Integers, Sequences

CONSTANT ByteBits

TopByte == 2^ByteBits - 1
Byte == 0..TopByte

ASSUME ByteAssumption == ByteBits \in Nat \ {0} /\ TopByte \in Nat \ {0}

\* bytes.Compare(a, b) < 0: at the first place where they differ a has ended
\* or has the smaller byte.
less(a, b) ==
  \E i \in 1..Len(b) :
    /\ \A j \in 1..(i - 1) : j <= Len(a) /\ a[j] = b[j]
    /\ i > Len(a) \/ a[i] < b[i]

keySuccessor(k) == Append(k, 0)

\* The least key past every key with prefix p: the last byte that is not the
\* top one is incremented and what follows it dropped; none is <<>>.
prefixSuccessor(p) ==
  LET below == {i \in DOMAIN p : p[i] < TopByte}
      last == CHOOSE i \in below : \A j \in below : j <= i
  IN IF below = {} THEN <<>> ELSE Append(SubSeq(p, 1, last - 1), p[last] + 1)

contains(rng, k) == ~less(k, rng.start) /\ (rng.end = <<>> \/ less(k, rng.end))
empty(rng) == rng.end # <<>> /\ ~less(rng.start, rng.end)

\* A bound of a row range is missing, closed or open; a missing one is empty.
RowRange ==
  {rr \in [sk : {"none", "closed", "open"}, s : Seq(Byte),
           ek : {"none", "closed", "open"}, e : Seq(Byte)] :
     (rr.sk = "none" => rr.s = <<>>) /\ (rr.ek = "none" => rr.e = <<>>)}

rowRangeToKeyRange(rr) ==
  [start |-> IF rr.sk = "open" THEN keySuccessor(rr.s) ELSE rr.s,
   end   |-> IF rr.ek = "closed" THEN keySuccessor(rr.e) ELSE rr.e]

\* keysOutOfRange for the bounds that are set; an empty key counts as unset.
validateRowRanges(ranges) ==
  \A rr \in ranges : rr.s # <<>> /\ rr.e # <<>> => ~less(rr.e, rr.s)

prefixRange(p) == [start |-> p, end |-> prefixSuccessor(p)]

-----------------------------------------------------------------------------
(* What the ranges are for *)

\* The keys a row range is about, from its bounds alone; an open end that is
\* empty is no end.
inBounds(rr, k) ==
  /\ rr.sk = "closed" => ~less(k, rr.s)
  /\ rr.sk = "open" => less(rr.s, k)
  /\ rr.ek = "closed" => ~less(rr.e, k)
  /\ rr.ek = "open" /\ rr.e # <<>> => less(k, rr.e)

\* The half-open range a row range is turned into holds exactly the keys within
\* its bounds, whichever of them are open, closed or missing; an empty range,
\* and one that is refused as reversed, holds no key.
RangeMeans(rr, k) ==
  LET rng == rowRangeToKeyRange(rr)
  IN /\ (contains(rng, k) <=> inBounds(rr, k))
     /\ empty(rng) => ~contains(rng, k)
     /\ ~validateRowRanges({rr}) => ~contains(rng, k)

HasPrefix(k, p) == Len(p) <= Len(k) /\ \A i \in 1..Len(p) : k[i] = p[i]

\* The range of a row key prefix holds exactly the keys with that prefix, also
\* when the prefix ends in bytes that cannot be incremented.
PrefixMeans(p, k) == contains(prefixRange(p), k) <=> HasPrefix(k, p)
=============================================================================

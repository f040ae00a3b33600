------------------------------- MODULE Sketch -------------------------------
(* HyperLogLog++ sketches (hll.go) over hashes of HashBits bits: exact while *)
(* sparse, 2^p registers once dense.                                         *)
EXTENDS Integers, Sequences, FiniteSets, SequencesExt

CONSTANT HashBits    \* 64

bitLen(x) == CHOOSE n \in 0..(2 * HashBits) : x < 2^n /\ (n = 0 \/ x >= 2^(n - 1))
larger(a, b) == IF a > b THEN a ELSE b

newHLLPrecision(p) == [p |-> p, dense |-> FALSE, sparse |-> {}, regs |-> <<>>]
sparseLimit(p) == 2^p \div 8

\* The register of a hash, from 0, and the value it asks for: the position of
\* the first one after the p bits of the index.
indexOf(p, x) == x \div 2^(HashBits - p)
rhoOf(p, x) == HashBits - bitLen((x % 2^(HashBits - p)) * 2^p + 2^(p - 1)) + 1

setRegister(h, x) == [h EXCEPT !.regs[indexOf(h.p, x) + 1] = larger(@, rhoOf(h.p, x))]

densify(h) ==
  LET empty == [p |-> h.p, dense |-> TRUE, sparse |-> {}, regs |-> [i \in 1..(2^h.p) |-> 0]]
  IN FoldSet(LAMBDA x, d : setRegister(d, x), empty, h.sparse)

densifyFull(h) == IF Cardinality(h.sparse) > sparseLimit(h.p) THEN densify(h) ELSE h

addHash(h, x) ==
  IF h.dense THEN setRegister(h, x) ELSE densifyFull([h EXCEPT !.sparse = @ \union {x}])

\* The value of register j at d bits less: the dropped bits come first.
rhoDowngraded(d, j, r) ==
  LET dropped == j % 2^d IN IF dropped # 0 THEN d - bitLen(dropped) + 1 ELSE d + r

downgradeRegs(h, p) ==
  LET d == h.p - p
      from(i) == {j \in 0..(2^h.p - 1) : j \div 2^d = i /\ h.regs[j + 1] # 0}
  IN [i \in 1..(2^p) |-> FoldSet(larger, 0, {rhoDowngraded(d, j, h.regs[j + 1]) : j \in from(i - 1)})]

downgrade(h, p) ==
  CASE p >= h.p -> h
    [] ~h.dense -> densifyFull([h EXCEPT !.p = p])
    [] OTHER -> [h EXCEPT !.p = p, !.regs = downgradeRegs(h, p)]

Merge(h, o) ==
  LET low == IF h.p < o.p THEN h.p ELSE o.p
      a == downgrade(h, low)
      b == downgrade(o, low)
      dense == IF a.dense THEN a ELSE densify(a)
  IN IF b.dense THEN [dense EXCEPT !.regs = [i \in DOMAIN b.regs |-> larger(dense.regs[i], b.regs[i])]]
     ELSE FoldSet(LAMBDA x, t : addHash(t, x), a, b.sparse)

-----------------------------------------------------------------------------
(* The encoding: the precision, the representation, and the sorted hashes as *)
(* differences or the registers.                                             *)

Encode(h) ==
  LET hs == SetToSortSeq(h.sparse, <)
      deltas == [i \in DOMAIN hs |-> IF i = 1 THEN hs[1] ELSE hs[i] - hs[i - 1]]
  IN IF h.dense THEN <<h.p, 1>> \o h.regs ELSE <<h.p, 0, Len(hs)>> \o deltas

Undecodable == newHLLPrecision(0)

DecodeHLL(b) ==
  LET p == b[1]
      rest == SubSeq(b, 4, Len(b))
      regs == SubSeq(b, 3, Len(b))
      hash(i) == FoldLeft(LAMBDA x, y : x + y, 0, SubSeq(rest, 1, i))
  IN CASE Len(b) < 2 -> Undecodable
       [] b[2] = 0 ->
            IF Len(b) < 3 \/ b[3] > 2^p \/ Len(rest) # b[3] THEN Undecodable
            ELSE densifyFull([newHLLPrecision(p) EXCEPT !.sparse = {hash(i) : i \in 1..b[3]}])
       [] OTHER ->
            IF Len(regs) # 2^p \/ (\E i \in DOMAIN regs : regs[i] > HashBits - p + 1) THEN Undecodable
            ELSE [p |-> p, dense |-> TRUE, sparse |-> {}, regs |-> regs]

-----------------------------------------------------------------------------
\* The sketch of a set of hashes: what adding them one by one should give.
sketchOf(p, hashes) ==
  IF Cardinality(hashes) <= sparseLimit(p) THEN [newHLLPrecision(p) EXCEPT !.sparse = hashes]
  ELSE [p |-> p, dense |-> TRUE, sparse |-> {},
        regs |-> [i \in 1..(2^p) |->
                    FoldSet(larger, 0, {rhoOf(p, x) : x \in {y \in hashes : indexOf(p, y) = i - 1}})]]
=============================================================================

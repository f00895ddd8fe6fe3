----------------------------- MODULE PoolSequences -----------------------------
(***************************************************************************)
(* Facts about a pool of idle connections kept as a sequence, which is     *)
(* pushed and popped at its end; both pools' proofs cite them.             *)
(***************************************************************************)
EXTENDS Integers, Sequences, TLAPS

Elems(q) == {q[i] : i \in 1 .. Len(q)}
Distinct(q) == \A i, j \in 1 .. Len(q) : q[i] = q[j] => i = j

\* Pushing adds the element, and keeps a sequence without duplicates so.
LEMMA PushElems ==
  ASSUME NEW S, NEW q \in Seq(S), NEW x \in S
  PROVE  /\ Append(q, x) \in Seq(S) /\ Len(Append(q, x)) = Len(q) + 1
         /\ Elems(Append(q, x)) = Elems(q) \cup {x}
         /\ Distinct(q) /\ x \notin Elems(q) => Distinct(Append(q, x))
<1>1. /\ Len(Append(q, x)) = Len(q) + 1
      /\ \A i \in 1 .. Len(q) : Append(q, x)[i] = q[i]
      /\ Append(q, x)[Len(q) + 1] = x
      /\ Len(q) \in Nat
  OBVIOUS
<1>2. Elems(Append(q, x)) = Elems(q) \cup {x}
  BY <1>1 DEF Elems
<1>3. ASSUME Distinct(q), x \notin Elems(q) PROVE Distinct(Append(q, x))
  BY <1>1, <1>3 DEF Elems, Distinct
<1> QED
  BY <1>1, <1>2, <1>3

\* Taking k elements off the end splits the pool.
Kept(q, k) == SubSeq(q, 1, Len(q) - k)
Cut(q, k) == {q[i] : i \in Len(q) - k + 1 .. Len(q)}

\* The two parts have what the whole had, and nothing in common.
LEMMA CutElems ==
  ASSUME NEW S, NEW q \in Seq(S), NEW k \in 0 .. Len(q)
  PROVE  /\ Kept(q, k) \in Seq(S) /\ Len(Kept(q, k)) = Len(q) - k
         /\ Cut(q, k) \subseteq S /\ Elems(q) = Elems(Kept(q, k)) \cup Cut(q, k)
         /\ Distinct(q) => Distinct(Kept(q, k)) /\ Elems(Kept(q, k)) \cap Cut(q, k) = {}
<1> DEFINE r == Kept(q, k)
<1>0. Len(q) \in Nat /\ k \in Nat /\ k <= Len(q)
  OBVIOUS
<1>1. \A i \in 1 .. Len(q) : q[i] \in S
  OBVIOUS
<1>2. r \in Seq(S) /\ Len(r) = Len(q) - k /\ \A i \in 1 .. Len(q) - k : r[i] = q[i]
  BY <1>0, <1>1 DEF Kept
<1> HIDE DEF r
<1>3. Cut(q, k) \subseteq S
  BY <1>0, <1>1 DEF Cut
<1>4. Elems(q) = Elems(r) \cup Cut(q, k)
  BY <1>0, <1>2 DEF Elems, Cut
<1>5. ASSUME Distinct(q) PROVE Distinct(r) /\ Elems(r) \cap Cut(q, k) = {}
  BY <1>0, <1>2, <1>5 DEF Elems, Distinct, Cut
<1> QED
  BY <1>2, <1>3, <1>4, <1>5 DEF r

=============================================================================

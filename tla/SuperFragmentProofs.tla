------------------------ MODULE SuperFragmentProofs ------------------------
(***************************************************************************)
(* That the RU gets super-fragments in sequence, with no number missing    *)
(* but behind number zero, and whole, their blocks numbered from 0 with    *)
(* the right count, until a number comes back among the blocks held or a   *)
(* failure or Reset cuts an event off; and that there is a block to send   *)
(* whenever sending is due: for every range of event numbers, every        *)
(* threshold of the memory pool and every readout.                         *)
(***************************************************************************)
EXTENDS SuperFragment, SequenceTheorems, FiniteSetTheorems, WellFoundedInduction,
        TLAPS

L1A == 0..MaxL1A

\* What ensureContiguousEventNumber brings about between neighbours.
Joins(block, next) == block.event = 0 \/ Follows(block.event, next.event)

Chained(blocks) ==
  \A i \in 1..Len(blocks) - 1 : Joins(blocks[i], blocks[i + 1])

\* Two sequences of blocks of the same events, numbered differently perhaps.
SameEvents(blocks, others) ==
  /\ Len(blocks) = Len(others)
  /\ \A i \in 1..Len(blocks) : blocks[i].event = others[i].event

\* A function on 1..m is a sequence.
LEMMA SeqOfFunction ==
  ASSUME NEW T, NEW m \in Nat, NEW f \in [1..m -> T]
  PROVE  f \in Seq(T) /\ Len(f) = m
BY SeqDef, LenProperties

\* finalizeSuperFragment numbers blocks; it neither adds, drops nor moves any.
LEMMA FinalizeLemma ==
  ASSUME NEW blocks \in Seq(SuperFragmentBlock), NEW number \in L1A
  PROVE  /\ Finalize(blocks, number) \in Seq(SuperFragmentBlock)
         /\ SameEvents(Finalize(blocks, number), blocks)
<1> DEFINE ofEvent == {i \in 1..Len(blocks) : blocks[i].event = number}
           entry(i) == IF i \in ofEvent
                       THEN [event    |-> number,
                             blockNb  |-> Cardinality({j \in ofEvent : j < i}),
                             nbBlocks |-> Cardinality(ofEvent)]
                       ELSE blocks[i]
           f == [i \in 1..Len(blocks) |-> entry(i)]
<1>1. Finalize(blocks, number) = f
  BY DEF Finalize
<1>2. Len(blocks) \in Nat /\ \A i \in 1..Len(blocks) : blocks[i] \in SuperFragmentBlock
  BY LenProperties, ElementOfSeq
<1>3. \A s \in SUBSET (1..Len(blocks)) : Cardinality(s) \in Nat
  <2>1. IsFiniteSet(1..Len(blocks))
    BY <1>2, FS_Interval
  <2>2. \A s \in SUBSET (1..Len(blocks)) : IsFiniteSet(s)
    BY <2>1, FS_Subset
  <2> QED
    BY <2>2, FS_CardinalityType
<1>4. ASSUME NEW i \in 1..Len(blocks)
      PROVE  entry(i) \in SuperFragmentBlock /\ entry(i).event = blocks[i].event
  <2>1. Cardinality({j \in ofEvent : j < i}) \in Nat
    <3>1. {j \in ofEvent : j < i} \in SUBSET (1..Len(blocks))
      OBVIOUS
    <3> QED
      BY <1>3, <3>1
  <2>2. Cardinality(ofEvent) \in Nat
    <3>1. ofEvent \in SUBSET (1..Len(blocks))
      OBVIOUS
    <3> QED
      BY <1>3, <3>1
  <2>3. CASE i \in ofEvent
    <3>1. /\ entry(i).event = number /\ blocks[i].event = number
          /\ entry(i) = [event    |-> number,
                         blockNb  |-> Cardinality({j \in ofEvent : j < i}),
                         nbBlocks |-> Cardinality(ofEvent)]
      BY <2>3
    <3> HIDE DEF entry, ofEvent
    <3> QED
      BY <2>1, <2>2, <3>1 DEF SuperFragmentBlock, L1A
  <2>4. CASE i \notin ofEvent
    BY <1>2, <2>4
  <2> QED
    BY <2>3, <2>4
<1> HIDE DEF entry
<1>5. f \in [1..Len(blocks) -> SuperFragmentBlock]
  BY <1>4
<1>6. f \in Seq(SuperFragmentBlock) /\ Len(f) = Len(blocks)
  BY <1>2, <1>5, SeqOfFunction
<1>7. \A i \in 1..Len(blocks) : f[i].event = blocks[i].event
  BY <1>4
<1> QED
  BY <1>1, <1>6, <1>7 DEF SameEvents

\* ensureContiguousEventNumber fills every gap, across the wrap-around too, unless
\* the previous number is zero.
LEMMA MissingLemma ==
  ASSUME NEW previous \in L1A, NEW number \in L1A
  PROVE  LET missing == MissingEvents(previous, number)
         IN  /\ missing \in Seq(L1A)
             /\ \A i \in 1..Len(missing) - 1 : Follows(missing[i], missing[i + 1])
             /\ missing # <<>> => /\ Follows(previous, missing[1])
                                  /\ Follows(missing[Len(missing)], number)
             /\ missing = <<>> => previous = 0 \/ Follows(previous, number)
<1> DEFINE missing == MissingEvents(previous, number)
<1>0. MaxL1A \in Nat \ {0} /\ previous \in Nat /\ number \in Nat
      /\ previous <= MaxL1A /\ number <= MaxL1A
  BY SuperFragmentAssumption DEF L1A
<1>1. CASE previous = 0
  <2>1. missing = <<>>
    BY <1>0, <1>1 DEF MissingEvents
  <2> HIDE DEF missing
  <2>2. missing \in Seq(L1A) /\ Len(missing) = 0
    BY <2>1
  <2> QED
    BY <1>1, <2>1, <2>2 DEF missing
<1>2. CASE previous # 0 /\ previous < number
  <2> DEFINE n == number - previous - 1
             f == [i \in 1..n |-> previous + i]
  <2>1. missing = f
    BY <1>0, <1>2 DEF MissingEvents
  <2>2. n \in Nat
    BY <1>0, <1>2
  <2>3. f \in [1..n -> L1A]
    BY <1>0, <1>2 DEF L1A
  <2>4. f \in Seq(L1A) /\ Len(f) = n
    <3> HIDE DEF f, n
    <3> QED
      BY <2>2, <2>3, SeqOfFunction
  <2>5. \A i \in 1..n - 1 : Follows(f[i], f[i + 1])
    BY <1>0, <1>2 DEF Follows
  <2>6. n # 0 => Follows(previous, f[1]) /\ Follows(f[n], number)
    BY <1>0, <1>2, <2>2 DEF Follows
  <2>7. n = 0 => Follows(previous, number)
    BY <1>0, <1>2 DEF Follows
  <2> HIDE DEF f, n, missing
  <2>8. f = <<>> <=> n = 0
    BY <2>4, EmptySeq
  <2>9. f # <<>> => Follows(previous, f[1]) /\ Follows(f[Len(f)], number)
    BY <2>4, <2>6, <2>8
  <2> QED
    BY <2>1, <2>4, <2>5, <2>7, <2>8, <2>9 DEF missing
<1>3. CASE previous # 0 /\ previous > number
  <2> DEFINE m == MaxL1A - previous
             f == [i \in 1..m |-> previous + i]
             g == [i \in 1..number |-> i - 1]
             s == f \o g
  <2>1. missing = s
    <3>1. /\ previous \notin {0, number}
          /\ ~(0 < previous /\ previous < number)
          /\ previous > number
      BY <1>0, <1>3
    <3> QED
      BY ONLY <3>1, Zenon DEF MissingEvents
  <2>2. m \in Nat /\ f \in [1..m -> L1A] /\ g \in [1..number -> L1A]
    BY <1>0, <1>3 DEF L1A
  <2>3. f \in Seq(L1A) /\ Len(f) = m
    <3> HIDE DEF f, m
    <3> QED
      BY <2>2, SeqOfFunction
  <2>4. g \in Seq(L1A) /\ Len(g) = number
    <3> HIDE DEF g, m
    <3> QED
      BY <1>0, <2>2, SeqOfFunction
  <2>5. /\ s \in Seq(L1A) /\ Len(s) = m + number
        /\ \A i \in 1..m + number : s[i] = IF i <= m THEN f[i] ELSE g[i - m]
    <3> HIDE DEF f, g, m
    <3> QED
      BY <2>3, <2>4, ConcatProperties
  <2>6. \A i \in 1..m + number : s[i] = IF i <= m THEN previous + i ELSE i - m - 1
    <3> TAKE i \in 1..m + number
    <3>1. CASE i <= m
      <4>1. i \in 1..m
        BY <1>0, <2>2, <3>1
      <4> QED
        BY <2>5, <3>1, <4>1
    <3>2. CASE ~(i <= m)
      <4>1. i - m \in 1..number
        BY <1>0, <2>2, <3>2
      <4> QED
        BY <2>5, <3>2, <4>1
    <3> QED
      BY <3>1, <3>2
  <2> HIDE DEF s, f, g
  <2>7. \A i \in 1..m + number - 1 : Follows(s[i], s[i + 1])
    <3> TAKE i \in 1..m + number - 1
    <3>1. i \in 1..m + number /\ i + 1 \in 1..m + number
      BY <1>0, <2>2
    <3>2. /\ s[i] = IF i <= m THEN previous + i ELSE i - m - 1
          /\ s[i + 1] = IF i + 1 <= m THEN previous + i + 1 ELSE i - m
      BY <1>0, <2>2, <2>6, <3>1
    <3> QED
      BY <1>0, <1>3, <3>1, <3>2 DEF Follows
  <2>8. m + number # 0 => Follows(previous, s[1]) /\ Follows(s[m + number], number)
    <3> SUFFICES ASSUME m + number # 0
                 PROVE  Follows(previous, s[1]) /\ Follows(s[m + number], number)
      OBVIOUS
    <3>1. 1 \in 1..m + number /\ m + number \in 1..m + number
      BY <1>0, <2>2
    <3>2. /\ s[1] = IF 1 <= m THEN previous + 1 ELSE 1 - m - 1
          /\ s[m + number] = IF m + number <= m THEN previous + (m + number)
                                                ELSE (m + number) - m - 1
      BY <2>6, <3>1
    <3> QED
      BY <1>0, <1>3, <3>2 DEF Follows
  <2>9. m + number = 0 => Follows(previous, number)
    BY <1>0, <1>3 DEF Follows
  <2>10. s = <<>> <=> m + number = 0
    BY <2>5, EmptySeq
  <2>11. s # <<>> => Follows(previous, s[1]) /\ Follows(s[Len(s)], number)
    BY <2>5, <2>8, <2>10
  <2>12. \A i \in 1..Len(s) - 1 : Follows(s[i], s[i + 1])
    <3>1. Len(s) = m + number
      BY <2>5
    <3> SUFFICES ASSUME NEW i \in 1..Len(s) - 1
                 PROVE  Follows(s[i], s[i + 1])
      OBVIOUS
    <3>2. m + number \in Nat
      BY <1>0, <2>2
    <3>3. i \in 1..m + number - 1
      BY <1>0, <3>1, <3>2
    <3> QED
      BY <2>7, <3>3
  <2>13. s \in Seq(L1A)
    BY <2>5
  <2> HIDE DEF m, missing
  <2> QED
    BY <2>1, <2>9, <2>10, <2>11, <2>12, <2>13 DEF missing
<1>4. CASE previous # 0 /\ previous = number
  <2>1. missing = <<>>
    BY <1>0, <1>4 DEF MissingEvents
  <2> QED
    BY <1>4, <2>1 DEF Follows
<1> QED
  BY <1>0, <1>1, <1>2, <1>3, <1>4

\* Only the event numbers of the blocks make a chain.
LEMMA SameEventsChained ==
  ASSUME NEW blocks \in Seq(SuperFragmentBlock),
         NEW others \in Seq(SuperFragmentBlock),
         SameEvents(blocks, others), Chained(others)
  PROVE  Chained(blocks)
<1> SUFFICES ASSUME NEW i \in 1..Len(blocks) - 1
             PROVE  Joins(blocks[i], blocks[i + 1])
  BY DEF Chained
<1>1. Len(blocks) \in Nat /\ Len(others) = Len(blocks)
  BY LenProperties DEF SameEvents
<1>2. i \in 1..Len(blocks) /\ i + 1 \in 1..Len(blocks) /\ i \in 1..Len(others) - 1
  BY <1>1
<1>3. /\ blocks[i].event = others[i].event
      /\ blocks[i + 1].event = others[i + 1].event
  BY <1>2 DEF SameEvents
<1>4. Joins(others[i], others[i + 1])
  BY <1>2 DEF Chained
<1> QED
  BY <1>3, <1>4 DEF Joins

\* Two chains that join make a chain.
LEMMA ConcatChained ==
  ASSUME NEW s \in Seq(SuperFragmentBlock), NEW t \in Seq(SuperFragmentBlock),
         Chained(s), Chained(t),
         s # <<>> /\ t # <<>> => Joins(s[Len(s)], t[1])
  PROVE  Chained(s \o t)
<1> SUFFICES ASSUME NEW i \in 1..Len(s \o t) - 1
             PROVE  Joins((s \o t)[i], (s \o t)[i + 1])
  BY DEF Chained
<1>1. /\ Len(s) \in Nat /\ Len(t) \in Nat /\ Len(s \o t) = Len(s) + Len(t)
      /\ \A j \in 1..Len(s) + Len(t) :
           (s \o t)[j] = IF j <= Len(s) THEN s[j] ELSE t[j - Len(s)]
  BY LenProperties, ConcatProperties
<1>2. i \in 1..Len(s) + Len(t) /\ i + 1 \in 1..Len(s) + Len(t)
  BY <1>1
<1>3. CASE i < Len(s)
  <2>1. (s \o t)[i] = s[i] /\ (s \o t)[i + 1] = s[i + 1] /\ i \in 1..Len(s) - 1
    BY <1>1, <1>2, <1>3
  <2> QED
    BY <2>1 DEF Chained
<1>4. CASE i = Len(s)
  <2>1. (s \o t)[i] = s[Len(s)] /\ (s \o t)[i + 1] = t[(i + 1) - Len(s)]
    BY <1>1, <1>2, <1>4
  <2>2. (i + 1) - Len(s) = 1 /\ Len(s) # 0 /\ Len(t) # 0
    BY <1>1, <1>2, <1>4
  <2>3. s # <<>> /\ t # <<>>
    BY <2>2, EmptySeq
  <2> QED
    BY <2>1, <2>2, <2>3
<1>5. CASE i > Len(s)
  <2>1. /\ (s \o t)[i] = t[i - Len(s)]
        /\ (s \o t)[i + 1] = t[(i + 1) - Len(s)]
    BY <1>1, <1>2, <1>5
  <2>2. (i + 1) - Len(s) = (i - Len(s)) + 1 /\ i - Len(s) \in 1..Len(t) - 1
    BY <1>1, <1>2, <1>5
  <2> QED
    BY <2>1, <2>2 DEF Chained
<1> QED
  BY <1>1, <1>2, <1>3, <1>4, <1>5

\* The prefix of a chain is a chain.
LEMMA PrefixChained ==
  ASSUME NEW s \in Seq(SuperFragmentBlock), NEW t \in Seq(SuperFragmentBlock),
         Chained(s \o t)
  PROVE  Chained(s)
<1> SUFFICES ASSUME NEW i \in 1..Len(s) - 1
             PROVE  Joins(s[i], s[i + 1])
  BY DEF Chained
<1>1. /\ Len(s) \in Nat /\ Len(t) \in Nat /\ Len(s \o t) = Len(s) + Len(t)
      /\ \A j \in 1..Len(s) + Len(t) :
           (s \o t)[j] = IF j <= Len(s) THEN s[j] ELSE t[j - Len(s)]
  BY LenProperties, ConcatProperties
<1>2. i \in 1..Len(s \o t) - 1
  BY <1>1
<1>3. (s \o t)[i] = s[i] /\ (s \o t)[i + 1] = s[i + 1]
  BY <1>1
<1> QED
  BY <1>2, <1>3 DEF Chained

\* Numbering the blocks held changes neither the chain nor the last event.
LEMMA SameEventsConcat ==
  ASSUME NEW s \in Seq(SuperFragmentBlock), NEW t \in Seq(SuperFragmentBlock),
         NEW u \in Seq(SuperFragmentBlock), SameEvents(u, t)
  PROVE  SameEvents(s \o u, s \o t)
<1>1. /\ Len(s) \in Nat /\ Len(t) \in Nat /\ Len(u) = Len(t)
      /\ Len(s \o t) = Len(s) + Len(t) /\ Len(s \o u) = Len(s) + Len(t)
      /\ \A j \in 1..Len(s) + Len(t) :
           (s \o t)[j] = IF j <= Len(s) THEN s[j] ELSE t[j - Len(s)]
      /\ \A j \in 1..Len(s) + Len(t) :
           (s \o u)[j] = IF j <= Len(s) THEN s[j] ELSE u[j - Len(s)]
  <2>1. Len(s) \in Nat /\ Len(t) \in Nat /\ Len(u) = Len(t)
    BY LenProperties DEF SameEvents
  <2>2. /\ Len(s \o t) = Len(s) + Len(t)
        /\ \A j \in 1..Len(s) + Len(t) :
             (s \o t)[j] = IF j <= Len(s) THEN s[j] ELSE t[j - Len(s)]
    BY ConcatProperties
  <2>3. /\ Len(s \o u) = Len(s) + Len(u)
        /\ \A j \in 1..Len(s) + Len(u) :
             (s \o u)[j] = IF j <= Len(s) THEN s[j] ELSE u[j - Len(s)]
    BY ConcatProperties
  <2> QED
    BY <2>1, <2>2, <2>3
<1>2. ASSUME NEW j \in 1..Len(s) + Len(t)
      PROVE  (s \o u)[j].event = (s \o t)[j].event
  <2>1. CASE j <= Len(s)
    BY <1>1, <2>1
  <2>2. CASE ~(j <= Len(s))
    <3>1. j - Len(s) \in 1..Len(u)
      BY <1>1, <2>2
    <3>2. u[j - Len(s)].event = t[j - Len(s)].event
      BY <3>1 DEF SameEvents
    <3> QED
      BY <1>1, <2>2, <3>2
  <2> QED
    BY <2>1, <2>2
<1> QED
  BY <1>1, <1>2 DEF SameEvents

\* The blocks of the skipped numbers, and then perhaps a block of the number read,
\* continue a chain that ends with the previous number.
LEMMA FillLemma ==
  ASSUME NEW s \in Seq(SuperFragmentBlock), Chained(s),
         NEW previous \in L1A, NEW number \in L1A,
         s # <<>> => s[Len(s)].event = previous
  PROVE  LET missing == MissingEvents(previous, number)
             empty   == [i \in 1..Len(missing) |-> EmptyBlock(missing[i])]
         IN  /\ empty \in Seq(SuperFragmentBlock)
             /\ Chained((s \o empty) \o <<DataBlock(number)>>)
<1> DEFINE missing == MissingEvents(previous, number)
           empty   == [i \in 1..Len(missing) |-> EmptyBlock(missing[i])]
           last    == <<DataBlock(number)>>
<1>1. /\ missing \in Seq(L1A)
      /\ \A i \in 1..Len(missing) - 1 : Follows(missing[i], missing[i + 1])
      /\ missing # <<>> => /\ Follows(previous, missing[1])
                           /\ Follows(missing[Len(missing)], number)
      /\ missing = <<>> => previous = 0 \/ Follows(previous, number)
  BY MissingLemma
<1> HIDE DEF missing
<1>2. Len(missing) \in Nat /\ \A i \in 1..Len(missing) : missing[i] \in L1A
  BY <1>1, LenProperties, ElementOfSeq
<1>3. \A n \in L1A : /\ EmptyBlock(n) \in SuperFragmentBlock
                     /\ EmptyBlock(n).event = n
                     /\ DataBlock(n) \in SuperFragmentBlock
                     /\ DataBlock(n).event = n
  BY DEF EmptyBlock, DataBlock, SuperFragmentBlock, L1A
<1>4. empty \in Seq(SuperFragmentBlock) /\ Len(empty) = Len(missing)
  <2>1. empty \in [1..Len(missing) -> SuperFragmentBlock]
    BY <1>2, <1>3
  <2> HIDE DEF empty
  <2> QED
    BY <1>2, <2>1, SeqOfFunction
<1>5. \A i \in 1..Len(missing) : empty[i].event = missing[i]
  BY <1>2, <1>3
<1>6. /\ last \in Seq(SuperFragmentBlock) /\ Len(last) = 1
      /\ last[1].event = number /\ last # <<>>
  BY <1>3
<1> HIDE DEF empty, last
<1>7. Chained(empty)
  <2>1. ASSUME NEW i \in 1..Len(empty) - 1
        PROVE  Joins(empty[i], empty[i + 1])
    <3>1. i \in 1..Len(missing) /\ i + 1 \in 1..Len(missing)
          /\ i \in 1..Len(missing) - 1
      BY <1>2, <1>4
    <3>2. empty[i].event = missing[i] /\ empty[i + 1].event = missing[i + 1]
      BY <1>5, <3>1
    <3>3. Follows(missing[i], missing[i + 1])
      BY <1>1, <3>1
    <3> QED
      BY <3>2, <3>3 DEF Joins
  <2> QED
    BY <2>1 DEF Chained
<1>8. Chained(last)
  BY <1>6 DEF Chained
<1>9. CASE missing = <<>>
  <2>1. empty = <<>>
    BY <1>4, <1>9, EmptySeq
  <2>2. s \o empty = s
    BY <2>1, ConcatEmptySeq
  <2>3. s # <<>> => Joins(s[Len(s)], last[1])
    BY <1>1, <1>6, <1>9 DEF Joins
  <2>4. Chained(s \o last)
    BY <1>6, <1>8, <2>3, ConcatChained
  <2> QED
    BY <1>4, <2>2, <2>4 DEF last, empty, missing
<1>10. CASE missing # <<>>
  <2>1. Len(missing) # 0 /\ empty # <<>>
    BY <1>1, <1>4, <1>10, EmptySeq
  <2>2. 1 \in 1..Len(missing) /\ Len(missing) \in 1..Len(missing)
    BY <1>2, <2>1
  <2>3. s # <<>> => Joins(s[Len(s)], empty[1])
    BY <1>1, <1>5, <1>10, <2>2 DEF Joins
  <2>4. Chained(s \o empty)
    BY <1>4, <1>7, <2>3, ConcatChained
  <2> DEFINE t == s \o empty
  <2>5. /\ t \in Seq(SuperFragmentBlock) /\ t # <<>>
        /\ Len(t) = Len(s) + Len(empty)
        /\ t[Len(t)] = empty[Len(missing)]
    <3>1. /\ t \in Seq(SuperFragmentBlock) /\ Len(t) = Len(s) + Len(empty)
          /\ \A j \in 1..Len(s) + Len(empty) :
               t[j] = IF j <= Len(s) THEN s[j] ELSE empty[j - Len(s)]
      BY <1>4, ConcatProperties
    <3>2. Len(s) \in Nat
      BY LenProperties
    <3> HIDE DEF t
    <3>3. Len(t) \in 1..Len(s) + Len(empty) /\ ~(Len(t) <= Len(s))
          /\ Len(t) - Len(s) = Len(missing) /\ Len(t) # 0
      BY <1>2, <1>4, <2>1, <3>1, <3>2
    <3>4. t[Len(t)] = empty[Len(missing)]
      BY <3>1, <3>3
    <3>5. t # <<>>
      BY <3>1, <3>3, EmptySeq
    <3> QED
      BY <3>1, <3>4, <3>5
  <2>6. Joins(t[Len(t)], last[1])
    <3>1. empty[Len(missing)].event = missing[Len(missing)]
      BY <1>5, <2>2
    <3>2. Follows(missing[Len(missing)], number)
      BY <1>1, <1>10
    <3> QED
      BY <1>6, <2>5, <3>1, <3>2 DEF Joins
  <2> HIDE DEF t
  <2>7. Chained(t \o last)
    BY <1>6, <1>8, <2>4, <2>5, <2>6, ConcatChained DEF t
  <2> QED
    BY <1>4, <2>7 DEF t, last, empty, missing
<1> QED
  BY <1>9, <1>10
-----------------------------------------------------------------------------
\* What the RU has got since the last haltAction and what it is to get.
Whole == sent \o superFragBlocks

\* Blocks are held while sending is due or inside an event, and nowhere else: what
\* configureAction takes over is a whole super-fragment, or it is an event cut off.
HeldInside ==
  /\ blocksArePendingTransmission => ~insideEvent
  /\ insideEvent /\ Whole # <<>> /\ ~dropped => superFragBlocks # <<>>

\* The last block belongs to the event being read, which is the previous one when
\* the next header comes.
LastIsCurrent ==
  ~dropped /\ ~torn /\ Whole # <<>> =>
    /\ Whole[Len(Whole)].event = eventNumber
    /\ ~insideEvent => previousEventNumber = eventNumber

InSequence == dropped \/ torn \/ Chained(Whole)

IInv == /\ TypeOK
        /\ HeldInside
        /\ PendingBlocksExistUnlessDropped
        /\ InSequence
        /\ LastIsCurrent

LEMMA InitLemma == Init => IInv
<1> SUFFICES ASSUME Init PROVE IInv
  OBVIOUS
<1>1. TypeOK
  <2>1. superFragBlocks \in Seq(SuperFragmentBlock) /\ sent \in Seq(SuperFragmentBlock)
    BY DEF Init
  <2>2. /\ eventNumber \in 0..MaxL1A /\ previousEventNumber \in 0..MaxL1A
        /\ l1a \in 0..MaxL1A
    BY SuperFragmentAssumption DEF Init
  <2> QED
    BY <2>1, <2>2 DEF Init, TypeOK
<1>2. Whole = <<>>
  BY DEF Init, Whole
<1>3. Chained(Whole)
  BY <1>2 DEF Chained
<1> QED
  BY <1>1, <1>2, <1>3
     DEF Init, IInv, HeldInside, PendingBlocksExistUnlessDropped, InSequence,
         LastIsCurrent

\* The number of a block read is one the hardware can send.
LEMMA NextNumberIsL1A ==
  ASSUME l1a \in L1A, NEW gap \in 0..MaxGap
  PROVE  (l1a + gap) % (MaxL1A + 1) \in L1A
<1>1. MaxL1A \in Nat \ {0} /\ MaxGap \in 0..MaxL1A /\ l1a \in 0..MaxL1A
  BY SuperFragmentAssumption DEF L1A
<1>2. l1a + gap \in Nat /\ MaxL1A + 1 \in Nat \ {0}
  BY <1>1
<1>3. \A x \in Nat, n \in Nat \ {0} : x % n \in 0..n - 1
  OBVIOUS
<1>4. (l1a + gap) % (MaxL1A + 1) \in 0..(MaxL1A + 1) - 1
  BY <1>2, <1>3
<1>5. (MaxL1A + 1) - 1 = MaxL1A
  BY <1>1
<1> QED
  BY <1>4, <1>5 DEF L1A

\* Sending moves a block from what is held to what the RU has.
LEMMA SendKeepsWhole ==
  ASSUME superFragBlocks \in Seq(SuperFragmentBlock), sent \in Seq(SuperFragmentBlock),
         SendNextPendingBlock
  PROVE  Whole' = Whole
<1> DEFINE h == <<Head(superFragBlocks)>>
           t == Tail(superFragBlocks)
<1>1. /\ superFragBlocks # <<>>
      /\ sent' = Append(sent, Head(superFragBlocks))
      /\ superFragBlocks' = Tail(superFragBlocks)
  BY DEF SendNextPendingBlock
<1>2. /\ Head(superFragBlocks) \in SuperFragmentBlock
      /\ t \in Seq(SuperFragmentBlock) /\ h \in Seq(SuperFragmentBlock)
  BY <1>1, HeadTailProperties
<1>3. superFragBlocks = h \o t
  <2>1. /\ h \o t \in Seq(SuperFragmentBlock)
        /\ Len(h \o t) = Len(h) + Len(t)
        /\ \A i \in 1..Len(h) + Len(t) :
             (h \o t)[i] = IF i <= Len(h) THEN h[i] ELSE t[i - Len(h)]
    BY <1>2, ConcatProperties
  <2>2. /\ Len(t) = Len(superFragBlocks) - 1 /\ Len(superFragBlocks) \in Nat
        /\ \A i \in 1..Len(t) : t[i] = superFragBlocks[i + 1]
        /\ Len(h) = 1 /\ h[1] = superFragBlocks[1]
    BY <1>1, HeadTailProperties, LenProperties
  <2> HIDE DEF h, t
  <2>3. ASSUME NEW i \in 1..Len(superFragBlocks)
        PROVE  superFragBlocks[i] = (h \o t)[i]
    <3>1. i \in 1..Len(h) + Len(t)
      BY <2>2
    <3>2. CASE i = 1
      BY <2>1, <2>2, <3>1, <3>2
    <3>3. CASE i # 1
      <4>1. i - 1 \in 1..Len(t) /\ (i - 1) + 1 = i /\ ~(i <= 1)
        BY <2>2, <3>3
      <4> QED
        BY <2>1, <2>2, <3>1, <4>1
    <3> QED
      BY <3>2, <3>3
  <2>4. Len(superFragBlocks) = Len(h \o t)
    BY <2>1, <2>2
  <2> QED
    BY <2>1, <2>3, <2>4, SeqEqual
<1>4. sent' = sent \o h
  BY <1>1, <1>2, AppendIsConcat
<1>5. (sent \o h) \o t = sent \o (h \o t)
  BY <1>2, ConcatAssociative
<1> QED
  BY <1>1, <1>3, <1>4, <1>5 DEF Whole
\* One pass that reads a block keeps everything.
LEMMA ReadLemma ==
  ASSUME IInv, NEW header \in BOOLEAN, NEW trailer \in BOOLEAN, NEW number \in L1A,
         ReadBlock(header, trailer, number)
  PROVE  IInv'
<1> DEFINE unfinished == insideEvent /\ header
           closed   == IF unfinished THEN Finalize(superFragBlocks, eventNumber)
                                     ELSE superFragBlocks
           previous == IF unfinished THEN eventNumber ELSE previousEventNumber
           current  == IF header THEN number ELSE eventNumber
           missing  == IF header THEN MissingEvents(previous, number) ELSE <<>>
           empty    == [i \in 1..Len(missing) |-> EmptyBlock(missing[i])]
           filled   == closed \o empty
           drop     == InUse(filled) > HighThreshold
           extended == IF drop THEN filled ELSE Append(filled, DataBlock(current))
<1>1. /\ fsm = "Enabled" /\ fsm' = "Enabled"
      /\ nReads' = nReads + 1
      /\ l1a' = IF header THEN number ELSE l1a
      /\ heldByRU' = heldByRU /\ sent' = sent /\ nRuns' = nRuns /\ torn' = torn
      /\ eventNumber' = current
  BY DEF ReadBlock
<1>2. /\ dropped' = (dropped \/ drop)
      /\ insideEvent' = ~trailer
      /\ blocksArePendingTransmission' = trailer
  BY DEF ReadBlock
<1>3. superFragBlocks' = IF trailer THEN Finalize(extended, current) ELSE extended
  BY DEF ReadBlock
<1>4. previousEventNumber' = IF trailer THEN current
                             ELSE IF missing # <<>> THEN Last(missing)
                             ELSE previous
  BY DEF ReadBlock
<1>5. nEventsRead' = nEventsRead + Len(missing) + (IF unfinished THEN 1 ELSE 0)
                                                + (IF trailer THEN 1 ELSE 0)
  BY DEF ReadBlock
<1>6. /\ superFragBlocks \in Seq(SuperFragmentBlock)
      /\ sent \in Seq(SuperFragmentBlock)
      /\ eventNumber \in L1A /\ previousEventNumber \in L1A /\ l1a \in L1A
      /\ nEventsRead \in Nat /\ nReads \in Nat /\ nRuns \in Nat /\ heldByRU \in Nat
  BY DEF IInv, TypeOK, L1A
<1>7. insideEvent \in BOOLEAN /\ dropped \in BOOLEAN /\ torn \in BOOLEAN
  BY DEF IInv, TypeOK
<1>8. /\ closed \in Seq(SuperFragmentBlock)
      /\ SameEvents(closed, superFragBlocks)
  <2>1. SameEvents(superFragBlocks, superFragBlocks)
    BY DEF SameEvents
  <2> QED
    BY <1>6, <2>1, FinalizeLemma
<1>9. previous \in L1A /\ current \in L1A
  BY <1>6
<1> HIDE DEF closed, previous, current, unfinished
<1>10. missing \in Seq(L1A)
  <2>1. MissingEvents(previous, number) \in Seq(L1A)
    BY <1>9, MissingLemma
  <2> QED
    BY <2>1
<1>11. DataBlock(current) \in SuperFragmentBlock
       /\ DataBlock(current).event = current
  BY <1>9 DEF DataBlock, SuperFragmentBlock, L1A
<1>12. empty \in Seq(SuperFragmentBlock)
  <2>1. \A i \in 1..Len(missing) : missing[i] \in L1A
    BY <1>10, ElementOfSeq
  <2>2. Len(missing) \in Nat
    BY <1>10, LenProperties
  <2> HIDE DEF missing
  <2>3. empty \in [1..Len(missing) -> SuperFragmentBlock]
    BY <2>1 DEF EmptyBlock, SuperFragmentBlock, L1A
  <2> HIDE DEF empty
  <2> QED
    BY <2>2, <2>3, SeqOfFunction
<1> HIDE DEF empty
<1>13. filled \in Seq(SuperFragmentBlock)
  BY <1>8, <1>12, ConcatProperties
<1> HIDE DEF filled, drop
<1>14. extended \in Seq(SuperFragmentBlock)
  BY <1>11, <1>13, AppendProperties
<1> HIDE DEF extended
<1>15. /\ superFragBlocks' \in Seq(SuperFragmentBlock)
       /\ SameEvents(superFragBlocks', extended)
  <2>1. SameEvents(extended, extended)
    BY DEF SameEvents
  <2> QED
    BY <1>3, <1>9, <1>14, <2>1, FinalizeLemma
<1>16. TypeOK'
  <2>1. Len(missing) \in Nat
    BY <1>10, LenProperties
  <2>2. missing # <<>> => Last(missing) \in L1A
    <3> HIDE DEF missing
    <3>1. missing # <<>> => Len(missing) \in 1..Len(missing)
      BY <1>10, <2>1, EmptySeq
    <3> QED
      BY <1>10, <3>1, ElementOfSeq DEF Last
  <2> HIDE DEF missing
  <2>3. nEventsRead' \in Nat
    BY <1>5, <1>6, <2>1
  <2>4. previousEventNumber' \in L1A
    BY <1>4, <1>9, <2>2
  <2>5. l1a' \in L1A /\ eventNumber' \in L1A
    BY <1>1, <1>6, <1>9
  <2>6. nReads' \in Nat /\ nRuns' \in Nat /\ heldByRU' \in Nat
        /\ fsm' \in {"Halted", "Ready", "Enabled", "Failed", "Crashed"}
        /\ sent' \in Seq(SuperFragmentBlock) /\ torn' \in BOOLEAN
    BY <1>1, <1>6, <1>7
  <2>7. drop \in BOOLEAN
    BY DEF drop
  <2>8. /\ dropped' \in BOOLEAN /\ insideEvent' \in BOOLEAN
        /\ blocksArePendingTransmission' \in BOOLEAN
    BY <1>2, <1>7, <2>7
  <2>9. recurred' \in BOOLEAN
    <3>1. recurred' = (recurred \/ ~Together(superFragBlocks', eventNumber'))
      BY DEF ReadBlock
    <3> QED
      BY <3>1, Zenon
  <2> QED
    BY <1>15, <2>3, <2>4, <2>5, <2>6, <2>8, <2>9 DEF TypeOK, L1A
<1>18. ~drop => extended = Append(filled, DataBlock(current))
  BY DEF extended
<1>19. ~drop => superFragBlocks' # <<>>
  <2> SUFFICES ASSUME ~drop PROVE superFragBlocks' # <<>>
    OBVIOUS
  <2>1. Len(extended) = Len(filled) + 1 /\ Len(filled) \in Nat
    BY <1>11, <1>13, <1>18, AppendProperties, LenProperties
  <2>2. Len(superFragBlocks') = Len(extended)
    BY <1>15 DEF SameEvents
  <2>3. Len(superFragBlocks') # 0
    BY <2>1, <2>2
  <2> QED
    BY <1>15, <2>3, EmptySeq
<1>17. PendingBlocksExistUnlessDropped' /\ HeldInside'
  BY <1>2, <1>19 DEF PendingBlocksExistUnlessDropped, HeldInside
<1>20. ASSUME ~dropped', ~torn'
       PROVE  /\ Chained(Whole')
              /\ Whole'[Len(Whole')].event = current
  <2>1. ~dropped /\ ~drop /\ ~torn
    BY <1>1, <1>2, <1>20
  <2> DEFINE s == sent \o closed
             W == (s \o empty) \o <<DataBlock(current)>>
  <2>2. /\ s \in Seq(SuperFragmentBlock)
        /\ SameEvents(s, Whole)
    BY <1>6, <1>8, ConcatProperties, SameEventsConcat DEF Whole
  <2>3. Whole \in Seq(SuperFragmentBlock) /\ Chained(Whole)
    BY <1>6, <2>1, ConcatProperties DEF Whole, IInv, InSequence
  <2>4. Chained(s)
    BY <2>2, <2>3, SameEventsChained
  <2>5. s # <<>> => /\ s[Len(s)].event = eventNumber
                    /\ ~insideEvent => previousEventNumber = eventNumber
    <3> SUFFICES ASSUME s # <<>>
                 PROVE  /\ s[Len(s)].event = eventNumber
                        /\ ~insideEvent => previousEventNumber = eventNumber
      OBVIOUS
    <3>1. Len(s) = Len(Whole) /\ Len(s) \in Nat /\ Len(s) # 0
      BY <2>2, EmptySeq, LenProperties DEF SameEvents
    <3>2. Len(s) \in 1..Len(s)
      BY <3>1
    <3>3. s[Len(s)].event = Whole[Len(Whole)].event
      BY <2>2, <3>1, <3>2 DEF SameEvents
    <3>4. Whole # <<>>
      BY <2>3, <3>1, EmptySeq
    <3> QED
      BY <1>1, <2>1, <3>3, <3>4 DEF IInv, LastIsCurrent
  <2>6. s # <<>> => s[Len(s)].event = (IF header THEN previous ELSE eventNumber)
    BY <1>7, <2>5 DEF previous, unfinished
  <2> HIDE DEF s
  <2>7. Chained(W)
    <3>1. CASE header
      <4>1. current = number /\ missing = MissingEvents(previous, number)
        BY <3>1 DEF current
      <4>2. s # <<>> => s[Len(s)].event = previous
        BY <2>6, <3>1
      <4>3. empty = [i \in 1..Len(MissingEvents(previous, number)) |->
                       EmptyBlock(MissingEvents(previous, number)[i])]
        BY <4>1 DEF empty
      <4> QED
        BY <1>9, <2>2, <2>4, <4>1, <4>2, <4>3, FillLemma
    <3>2. CASE ~header
      <4>1. current = eventNumber /\ missing = <<>>
        BY <3>2 DEF current
      <4>2. Len(missing) = 0
        BY <4>1
      <4>3. empty = <<>>
        BY <4>2 DEF empty
      <4>4. s \o empty = s
        BY <2>2, <4>3, ConcatEmptySeq
      <4>5. /\ <<DataBlock(current)>> \in Seq(SuperFragmentBlock)
            /\ Chained(<<DataBlock(current)>>)
            /\ <<DataBlock(current)>>[1] = DataBlock(current)
        BY <1>11 DEF Chained
      <4>6. s # <<>> => s[Len(s)].event = current
        BY <2>6, <3>2, <4>1
      <4>7. s # <<>> => Joins(s[Len(s)], DataBlock(current))
        BY <1>11, <4>6 DEF Joins, Follows
      <4>8. Chained(s \o <<DataBlock(current)>>)
        BY <2>2, <2>4, <4>5, <4>7, ConcatChained
      <4> QED
        BY <4>4, <4>8
    <3> QED
      BY <3>1, <3>2
  <2>8. extended = filled \o <<DataBlock(current)>>
    BY <1>11, <1>13, <1>18, <2>1, AppendIsConcat
  <2>9. W = sent \o extended
    <3>1. <<DataBlock(current)>> \in Seq(SuperFragmentBlock)
      BY <1>11
    <3>2. s \o empty = sent \o filled
      BY <1>6, <1>8, <1>12, ConcatAssociative DEF s, filled
    <3>3. (sent \o filled) \o <<DataBlock(current)>> = sent \o extended
      BY <1>6, <1>13, <2>8, <3>1, ConcatAssociative
    <3> QED
      BY <3>2, <3>3
  <2>10. /\ Whole' \in Seq(SuperFragmentBlock)
         /\ W \in Seq(SuperFragmentBlock)
         /\ SameEvents(Whole', W)
    <3>1. SameEvents(sent \o superFragBlocks', sent \o extended)
      BY <1>6, <1>14, <1>15, SameEventsConcat
    <3>2. Whole' = sent \o superFragBlocks'
      BY <1>1 DEF Whole
    <3>3. /\ sent \o superFragBlocks' \in Seq(SuperFragmentBlock)
          /\ sent \o extended \in Seq(SuperFragmentBlock)
      BY <1>6, <1>14, <1>15, ConcatProperties
    <3> HIDE DEF W
    <3> QED
      BY <2>9, <3>1, <3>2, <3>3
  <2>11. Len(W) \in 1..Len(W) /\ W[Len(W)] = DataBlock(current)
    <3>1. /\ sent \o filled \in Seq(SuperFragmentBlock)
          /\ W = (sent \o filled) \o <<DataBlock(current)>>
      BY <1>6, <1>8, <1>12, <1>13, ConcatAssociative, ConcatProperties DEF s, filled
    <3> DEFINE t == sent \o filled
    <3>2. W = Append(t, DataBlock(current))
      BY <1>11, <3>1, AppendIsConcat
    <3>3. t \in Seq(SuperFragmentBlock) /\ Len(t) \in Nat
      BY <3>1, LenProperties
    <3> HIDE DEF t, W
    <3>4. Len(W) = Len(t) + 1 /\ W[Len(t) + 1] = DataBlock(current)
      BY <1>11, <3>2, <3>3, AppendProperties
    <3> QED
      BY <3>3, <3>4
  <2> HIDE DEF W
  <2>12. Chained(Whole')
    BY <2>7, <2>10, SameEventsChained
  <2>13. Whole'[Len(Whole')].event = current
    BY <1>11, <2>10, <2>11 DEF SameEvents
  <2> QED
    BY <2>12, <2>13
<1>21. InSequence'
  BY <1>16, <1>20 DEF InSequence, TypeOK
<1>22. LastIsCurrent'
  BY <1>1, <1>2, <1>4, <1>20 DEF LastIsCurrent
<1> QED
  BY <1>16, <1>17, <1>21, <1>22 DEF IInv

\* Every step keeps the invariant.
LEMMA NextLemma == IInv /\ [Next]_vars => IInv'
<1> SUFFICES ASSUME IInv, [Next]_vars PROVE IInv'
  OBVIOUS
<1> USE DEF readerVars, history, buffers
<1>0. /\ superFragBlocks \in Seq(SuperFragmentBlock)
      /\ sent \in Seq(SuperFragmentBlock)
      /\ l1a \in 0..MaxL1A /\ nRuns \in Nat /\ heldByRU \in Nat
      /\ MaxL1A \in Nat \ {0} /\ MaxGap \in 0..MaxL1A
      /\ 0 \in 0..MaxL1A /\ 1 \in 0..MaxL1A /\ FirstL1A \subseteq 0..MaxL1A
  BY SuperFragmentAssumption DEF IInv, TypeOK
<1>00. insideEvent \in BOOLEAN /\ dropped \in BOOLEAN /\ torn \in BOOLEAN
       /\ blocksArePendingTransmission \in BOOLEAN
  BY DEF IInv, TypeOK
<1>1. CASE Configure
  <2>1. /\ sent' = sent /\ superFragBlocks' = superFragBlocks
        /\ blocksArePendingTransmission' = blocksArePendingTransmission
        /\ eventNumber' = eventNumber /\ previousEventNumber' = previousEventNumber
        /\ insideEvent' = FALSE /\ dropped' = dropped
        /\ torn' = (torn \/ (superFragBlocks # <<>> /\ ~blocksArePendingTransmission))
    BY <1>1 DEF Configure
  <2>2. Whole' = Whole
    BY <2>1 DEF Whole
  <2>3. TypeOK'
    <3>1. l1a' \in 0..MaxL1A /\ nRuns' \in Nat
      BY <1>0, <1>1 DEF Configure
    <3>2. torn' \in BOOLEAN
      BY <2>1, Zenon
    <3> QED
      BY <1>1, <3>1, <3>2 DEF Configure, IInv, TypeOK
  <2>4. PendingBlocksExistUnlessDropped' /\ HeldInside'
    BY <2>1 DEF IInv, PendingBlocksExistUnlessDropped, HeldInside
  <2>5. InSequence'
    BY <2>1, <2>2 DEF IInv, InSequence, Chained
  <2>6. LastIsCurrent'
    <3> SUFFICES ASSUME ~dropped, ~torn', Whole # <<>>
                 PROVE  /\ Whole[Len(Whole)].event = eventNumber
                        /\ previousEventNumber = eventNumber
      BY <2>1, <2>2 DEF LastIsCurrent
    <3>1. ~torn /\ (superFragBlocks = <<>> \/ blocksArePendingTransmission)
      BY <2>1
    <3>2. ~insideEvent
      BY <3>1 DEF IInv, HeldInside
    <3> QED
      BY <3>1, <3>2 DEF IInv, LastIsCurrent
  <2> QED
    BY <2>3, <2>4, <2>5, <2>6 DEF IInv
<1>2. CASE Enable
  <2>1. TypeOK'
    BY <1>2 DEF Enable, IInv, TypeOK
  <2>2. Whole' = Whole
    BY <1>2 DEF Enable, Whole
  <2> QED
    BY <1>2, <2>1, <2>2
       DEF Enable, IInv, HeldInside, PendingBlocksExistUnlessDropped, InSequence,
           LastIsCurrent, Chained
<1>3. CASE Halt
  <2>1. TypeOK'
    <3>1. /\ superFragBlocks' \in Seq(SuperFragmentBlock)
          /\ sent' \in Seq(SuperFragmentBlock)
          /\ eventNumber' \in 0..MaxL1A /\ previousEventNumber' \in 0..MaxL1A
      BY <1>0, <1>3 DEF Halt
    <3> QED
      BY <1>3, <3>1 DEF Halt, IInv, TypeOK
  <2>2. Whole' = <<>> /\ Chained(Whole')
    BY <1>3 DEF Halt, Whole, Chained
  <2> QED
    BY <1>3, <2>1, <2>2
       DEF Halt, IInv, HeldInside, PendingBlocksExistUnlessDropped, InSequence,
           LastIsCurrent
<1>4. CASE Read
  <2>1. PICK header \in BOOLEAN, trailer \in BOOLEAN, gap \in 0..MaxGap :
          ReadBlock(header, trailer, (l1a + gap) % (MaxL1A + 1))
    BY <1>4 DEF Read
  <2>2. (l1a + gap) % (MaxL1A + 1) \in L1A
    BY <1>0, NextNumberIsL1A DEF L1A
  <2> QED
    BY <2>1, <2>2, ReadLemma
<1>5. CASE SendNextPendingBlock
  <2>1. /\ superFragBlocks # <<>> /\ fsm = "Enabled"
        /\ sent' = Append(sent, Head(superFragBlocks))
        /\ superFragBlocks' = Tail(superFragBlocks)
        /\ heldByRU' = heldByRU + 1
    BY <1>5 DEF SendNextPendingBlock
  <2>2. blocksArePendingTransmission' = (superFragBlocks' # <<>>)
    BY <1>5 DEF SendNextPendingBlock
  <2>3. /\ Head(superFragBlocks) \in SuperFragmentBlock
        /\ Tail(superFragBlocks) \in Seq(SuperFragmentBlock)
    BY <1>0, <2>1, HeadTailProperties
  <2>4. TypeOK'
    <3>1. sent' \in Seq(SuperFragmentBlock)
      BY <1>0, <2>1, <2>3, AppendProperties
    <3>2. heldByRU' \in Nat
      BY <1>0, <2>1
    <3>3. blocksArePendingTransmission' \in BOOLEAN
      BY <2>2
    <3> QED
      BY <1>5, <2>1, <2>3, <3>1, <3>2, <3>3
         DEF SendNextPendingBlock, IInv, TypeOK
  <2>5. Whole' = Whole
    BY <1>0, <1>5, SendKeepsWhole
  <2>6. InSequence' /\ LastIsCurrent'
    BY <1>5, <2>5
       DEF SendNextPendingBlock, IInv, InSequence, LastIsCurrent, Chained
  <2>7. HeldInside'
    BY <1>5 DEF SendNextPendingBlock, IInv, HeldInside
  <2> QED
    BY <2>2, <2>4, <2>6, <2>7 DEF IInv, PendingBlocksExistUnlessDropped
<1>6. CASE SendFromEmptyDeque
  <2>1. TypeOK'
    BY <1>6 DEF SendFromEmptyDeque, IInv, TypeOK
  <2>2. Whole' = Whole
    BY <1>6 DEF SendFromEmptyDeque, Whole
  <2> QED
    BY <1>6, <2>1, <2>2
       DEF SendFromEmptyDeque, IInv, HeldInside, PendingBlocksExistUnlessDropped,
           InSequence, LastIsCurrent, Chained
<1>7. CASE ReleaseByRU
  <2>1. TypeOK'
    <3>1. heldByRU' \in Nat
      BY <1>0, <1>7 DEF ReleaseByRU
    <3> QED
      BY <1>7, <3>1 DEF ReleaseByRU, IInv, TypeOK
  <2>2. Whole' = Whole
    BY <1>7 DEF ReleaseByRU, Whole
  <2> QED
    BY <1>7, <2>1, <2>2
       DEF ReleaseByRU, IInv, HeldInside, PendingBlocksExistUnlessDropped, InSequence,
           LastIsCurrent, Chained
<1>9. CASE Fail \/ Reset
  <2>1. fsm' \in {"Halted", "Failed"} /\ UNCHANGED <<buffers, readerVars, history>>
    BY <1>9 DEF Fail, Reset
  <2>2. TypeOK'
    BY <2>1 DEF IInv, TypeOK
  <2>3. Whole' = Whole
    BY <2>1 DEF Whole
  <2> QED
    BY <2>1, <2>2, <2>3
       DEF IInv, HeldInside, PendingBlocksExistUnlessDropped, InSequence,
           LastIsCurrent, Chained
<1>8. CASE UNCHANGED vars
  <2>1. TypeOK'
    BY <1>8 DEF vars, IInv, TypeOK, SuperFragmentBlock
  <2>2. Whole' = Whole
    BY <1>8 DEF vars, Whole
  <2> QED
    BY <1>8, <2>1, <2>2
       DEF vars, IInv, HeldInside, PendingBlocksExistUnlessDropped, InSequence,
           LastIsCurrent, Chained
<1> QED
  BY <1>1, <1>2, <1>3, <1>4, <1>5, <1>6, <1>7, <1>8, <1>9 DEF Next

LEMMA Invariant == Spec => []IInv
BY InitLemma, NextLemma, PTL DEF Spec

\* What readout, transmission, failures and commands make of the super-fragments always
\* has the type the code's declarations give it; numbers never exceed MaxL1A.
THEOREM Types == Spec => []TypeOK
<1>1. IInv => TypeOK
  BY DEF IInv
<1> QED
  BY <1>1, Invariant, PTL

\* sendNextPendingBlock finds a block to send, unless the pool's threshold made the
\* readout drop one, for every threshold and every readout, also in a run that took flag
\* and blocks over from one that failed or was reset.
THEOREM PendingBlocksAreThere == Spec => []PendingBlocksExistUnlessDropped
<1>1. IInv => PendingBlocksExistUnlessDropped
  BY DEF IInv
<1> QED
  BY <1>1, Invariant, PTL

\* ensureContiguousEventNumber does its work for every range of event numbers: what
\* the RU gets is in sequence, across the wrap-around, events without trailers, failures
\* and Reset, but behind number zero and where a failure or Reset cut an event off.
THEOREM NumbersAreContiguous == Spec => []ContiguousButForZero
<1>1. IInv => ContiguousButForZero
  <2> SUFFICES ASSUME IInv, ~dropped, ~torn, NEW i \in 1..Len(sent) - 1
               PROVE  \/ sent[i].event = 0
                      \/ Follows(sent[i].event, sent[i + 1].event)
    BY DEF ContiguousButForZero
  <2>1. /\ superFragBlocks \in Seq(SuperFragmentBlock)
        /\ sent \in Seq(SuperFragmentBlock)
    BY DEF IInv, TypeOK
  <2>2. Chained(sent)
    BY <2>1, PrefixChained DEF IInv, InSequence, Whole
  <2> QED
    BY <2>2 DEF Chained, Joins
<1> QED
  BY <1>1, Invariant, PTL
-----------------------------------------------------------------------------
\* What SentWhole says of the blocks sent, of any blocks.
Numbered(blocks) ==
  \A i \in 1..Len(blocks) :
    /\ blocks[i].blockNb < blocks[i].nbBlocks
    /\ i = 1 => blocks[i].blockNb = 0
    /\ i > 1 => IF blocks[i].blockNb = 0
                THEN blocks[i - 1].blockNb = blocks[i - 1].nbBlocks - 1
                ELSE blocks[i] = [blocks[i - 1] EXCEPT !.blockNb = @ + 1]

\* The last block is the last of its super-fragment.
Complete(blocks) ==
  blocks # <<>> => blocks[Len(blocks)].blockNb = blocks[Len(blocks)].nbBlocks - 1

WholeFragments(blocks) == Numbered(blocks) /\ Complete(blocks)

\* The positions of an event's blocks.
PositionsOf(blocks, number) == {i \in 1..Len(blocks) : blocks[i].event = number}

LEMMA EmptyIsWhole == WholeFragments(<<>>)
BY DEF WholeFragments, Numbered, Complete

\* Whole super-fragments behind whole super-fragments are whole super-fragments.
LEMMA ConcatWhole ==
  ASSUME NEW s \in Seq(SuperFragmentBlock), NEW t \in Seq(SuperFragmentBlock),
         WholeFragments(s), WholeFragments(t)
  PROVE  WholeFragments(s \o t)
<1> DEFINE u == s \o t
<1>1. /\ Len(s) \in Nat /\ Len(t) \in Nat /\ Len(u) = Len(s) + Len(t)
      /\ u \in Seq(SuperFragmentBlock)
      /\ \A j \in 1..Len(s) + Len(t) : u[j] = IF j <= Len(s) THEN s[j] ELSE t[j - Len(s)]
  BY LenProperties, ConcatProperties
<1> HIDE DEF u
<1>2. ASSUME NEW i \in 1..Len(u)
      PROVE  /\ u[i].blockNb < u[i].nbBlocks
             /\ i = 1 => u[i].blockNb = 0
             /\ i > 1 => IF u[i].blockNb = 0
                         THEN u[i - 1].blockNb = u[i - 1].nbBlocks - 1
                         ELSE u[i] = [u[i - 1] EXCEPT !.blockNb = @ + 1]
  <2>1. CASE i <= Len(s)
    <3>1. i \in 1..Len(s) /\ u[i] = s[i] /\ (i > 1 => u[i - 1] = s[i - 1])
      BY <1>1, <2>1
    <3> QED
      BY <3>1 DEF WholeFragments, Numbered
  <2>2. CASE i = Len(s) + 1
    <3>1. u[i] = t[1] /\ 1 \in 1..Len(t) /\ (i > 1 => u[i - 1] = s[Len(s)])
          /\ (i > 1 => Len(s) # 0)
      BY <1>1, <2>2
    <3>2. t[1].blockNb = 0 /\ t[1].blockNb < t[1].nbBlocks
      BY <3>1 DEF WholeFragments, Numbered
    <3>3. i > 1 => s[Len(s)].blockNb = s[Len(s)].nbBlocks - 1
      BY <3>1, EmptySeq DEF WholeFragments, Complete
    <3> QED
      BY <3>1, <3>2, <3>3
  <2>3. CASE i > Len(s) + 1
    <3>1. i - Len(s) \in 1..Len(t) /\ i - Len(s) > 1 /\ i - Len(s) # 1 /\ i # 1
      BY <1>1, <2>3
    <3>2. u[i] = t[i - Len(s)]
      BY <1>1, <2>3
    <3>3. u[i - 1] = t[(i - Len(s)) - 1]
      <4>1. /\ i - 1 \in 1..Len(s) + Len(t) /\ ~(i - 1 <= Len(s))
            /\ (i - 1) - Len(s) = (i - Len(s)) - 1
        BY <1>1, <2>3
      <4> QED
        BY <1>1, <4>1
    <3> QED
      BY <3>1, <3>2, <3>3 DEF WholeFragments, Numbered
  <2> QED
    BY <1>1, <2>1, <2>2, <2>3
<1>3. Numbered(u)
  BY <1>2 DEF Numbered
<1>4. Complete(u)
  <2> SUFFICES ASSUME u # <<>> PROVE u[Len(u)].blockNb = u[Len(u)].nbBlocks - 1
    BY DEF Complete
  <2>1. Len(u) # 0
    BY <1>1, EmptySeq
  <2>2. CASE Len(t) = 0
    <3>1. u[Len(u)] = s[Len(s)] /\ Len(s) # 0
      BY <1>1, <2>1, <2>2
    <3> QED
      BY <3>1, EmptySeq DEF WholeFragments, Complete
  <2>3. CASE Len(t) # 0
    <3>1. u[Len(u)] = t[Len(t)]
      BY <1>1, <2>1, <2>3
    <3> QED
      BY <2>3, <3>1, EmptySeq DEF WholeFragments, Complete
  <2> QED
    BY <2>2, <2>3
<1> QED
  BY <1>3, <1>4 DEF WholeFragments, u

\* What is sent of blocks that are numbered is numbered.
LEMMA PrefixNumbered ==
  ASSUME NEW s \in Seq(SuperFragmentBlock), NEW t \in Seq(SuperFragmentBlock),
         Numbered(s \o t)
  PROVE  Numbered(s)
<1> DEFINE u == s \o t
<1>1. /\ Len(s) \in Nat /\ Len(t) \in Nat /\ Len(u) = Len(s) + Len(t)
      /\ \A j \in 1..Len(s) + Len(t) : u[j] = IF j <= Len(s) THEN s[j] ELSE t[j - Len(s)]
      /\ Numbered(u)
  BY LenProperties, ConcatProperties
<1> HIDE DEF u
<1>2. ASSUME NEW i \in 1..Len(s)
      PROVE  i \in 1..Len(u) /\ u[i] = s[i] /\ (i > 1 => u[i - 1] = s[i - 1])
  BY <1>1
<1> QED
  BY <1>1, <1>2 DEF Numbered

\* An empty super-fragment is numbered when it is made.
LEMMA EmptyBlocksWhole ==
  ASSUME NEW missing \in Seq(L1A)
  PROVE  LET empty == [i \in 1..Len(missing) |-> EmptyBlock(missing[i])]
         IN  empty \in Seq(SuperFragmentBlock) /\ WholeFragments(empty)
<1> DEFINE empty == [i \in 1..Len(missing) |-> EmptyBlock(missing[i])]
<1>1. Len(missing) \in Nat /\ \A i \in 1..Len(missing) : missing[i] \in L1A
  BY LenProperties, ElementOfSeq
<1>2. empty \in [1..Len(missing) -> SuperFragmentBlock]
  BY <1>1 DEF EmptyBlock, SuperFragmentBlock, L1A
<1>3. \A i \in 1..Len(missing) : empty[i].blockNb = 0 /\ empty[i].nbBlocks = 1
  BY <1>1 DEF EmptyBlock
<1> HIDE DEF empty
<1>4. empty \in Seq(SuperFragmentBlock) /\ Len(empty) = Len(missing)
  BY <1>1, <1>2, SeqOfFunction
<1>5. Numbered(empty)
  <2> SUFFICES ASSUME NEW i \in 1..Len(empty)
               PROVE  /\ empty[i].blockNb = 0 /\ empty[i].nbBlocks = 1
                      /\ i > 1 => empty[i - 1].blockNb = 0 /\ empty[i - 1].nbBlocks = 1
    BY DEF Numbered
  <2>1. i \in 1..Len(missing) /\ (i > 1 => i - 1 \in 1..Len(missing))
    BY <1>1, <1>4
  <2> QED
    BY <1>3, <2>1
<1>6. Complete(empty)
  <2>1. empty # <<>> => Len(empty) \in 1..Len(missing)
    BY <1>1, <1>4, EmptySeq
  <2> QED
    BY <1>3, <2>1 DEF Complete
<1> QED
  BY <1>4, <1>5, <1>6 DEF WholeFragments, empty

\* finalizeSuperFragment writes over the numbers of the event's blocks, so what they
\* were makes no difference.
LEMMA FinalizeAgrees ==
  ASSUME NEW s \in Seq(SuperFragmentBlock), NEW t \in Seq(SuperFragmentBlock),
         NEW number \in L1A, SameEvents(s, t),
         \A i \in 1..Len(s) : s[i].event # number => s[i] = t[i]
  PROVE  Finalize(s, number) = Finalize(t, number)
<1>1. Len(s) = Len(t)
  BY DEF SameEvents
<1>2. {i \in 1..Len(s) : s[i].event = number} = {i \in 1..Len(t) : t[i].event = number}
  BY <1>1 DEF SameEvents
<1> DEFINE P == {i \in 1..Len(s) : s[i].event = number}
           b(i) == [event    |-> number,
                    blockNb  |-> Cardinality({j \in P : j < i}),
                    nbBlocks |-> Cardinality(P)]
<1>3. /\ Finalize(s, number) = [i \in 1..Len(s) |-> IF i \in P THEN b(i) ELSE s[i]]
      /\ Finalize(t, number) = [i \in 1..Len(s) |-> IF i \in P THEN b(i) ELSE t[i]]
  BY <1>1, <1>2 DEF Finalize
<1>4. \A i \in 1..Len(s) : i \notin P => s[i] = t[i]
  OBVIOUS
<1> HIDE DEF P, b
<1> QED
  BY <1>3, <1>4
\* A set of numbers has a least one, and a greatest one when it is bounded.
LEMMA LeastNumber ==
  ASSUME NEW P \in SUBSET Nat, P # {}
  PROVE  \E p \in P : \A i \in P : p <= i
<1> DEFINE lt == OpToRel(<, Nat)
<1>1. \A p, i \in Nat : <<i, p>> \in lt <=> i < p
  BY DEF OpToRel
<1>2. IsWellFoundedOn(lt, Nat)
  BY NatLessThanWellFounded
<1> HIDE DEF lt
<1>3. PICK p \in P : \A i \in P : ~(<<i, p>> \in lt)
  BY <1>2, WFMin
<1>4. ASSUME NEW i \in P
      PROVE  p <= i
  <2>1. p \in Nat /\ i \in Nat /\ ~(i < p)
    BY <1>1, <1>3
  <2> QED
    BY <2>1
<1> QED
  BY <1>4

LEMMA GreatestNumber ==
  ASSUME NEW n \in Nat, NEW P \in SUBSET (0..n), P # {}
  PROVE  \E q \in P : \A i \in P : i <= q
<1> DEFINE Q == {n - i : i \in P}
<1>1. Q \in SUBSET Nat /\ Q # {}
  <2>1. \A i \in P : n - i \in Nat
    OBVIOUS
  <2>2. PICK i \in P : TRUE
    OBVIOUS
  <2>3. n - i \in Q
    OBVIOUS
  <2> QED
    BY <2>1, <2>3
<1>2. PICK r \in Q : \A k \in Q : r <= k
  <2> HIDE DEF Q
  <2> QED
    BY <1>1, LeastNumber
<1>3. PICK q \in P : r = n - q
  OBVIOUS
<1>4. ASSUME NEW i \in P
      PROVE  i <= q
  <2>1. n - i \in Q /\ i \in 0..n /\ q \in 0..n
    OBVIOUS
  <2>2. n - q <= n - i
    BY <1>2, <1>3, <2>1
  <2> QED
    BY <2>1, <2>2
<1> QED
  BY <1>4

\* The positions of an event whose blocks lie together are an interval.
LEMMA TogetherIsInterval ==
  ASSUME NEW blocks \in Seq(SuperFragmentBlock), NEW number,
         Together(blocks, number),
         NEW m \in 1..Len(blocks), blocks[m].event = number
  PROVE  \E p, q \in 1..Len(blocks) :
           p <= q /\ PositionsOf(blocks, number) = p..q
<1> DEFINE P == {i \in 1..Len(blocks) : blocks[i].event = number}
<1>1. Len(blocks) \in Nat /\ m \in P /\ P # {}
  BY LenProperties
<1>2. P \in SUBSET Nat /\ P \in SUBSET (0..Len(blocks))
  BY <1>1
<1>3. PICK p \in P : \A i \in P : p <= i
  <2> HIDE DEF P
  <2> QED
    BY <1>1, <1>2, LeastNumber
<1>4. PICK q \in P : \A i \in P : i <= q
  <2> HIDE DEF P
  <2> QED
    BY <1>1, <1>2, GreatestNumber
<1>5. p \in 1..Len(blocks) /\ q \in 1..Len(blocks) /\ p <= q
  BY <1>3
<1>6. \A i \in P : i \in p..q
  BY <1>1, <1>3, <1>4
<1>7. ASSUME NEW k \in p..q
      PROVE  k \in P
  <2>1. k \in 1..Len(blocks)
    BY <1>1, <1>5
  <2>2. CASE k = p \/ k = q
    BY <2>2
  <2>3. CASE k # p /\ k # q
    <3>1. p < k /\ k < q
      BY <1>1, <1>5, <2>3
    <3>2. blocks[p].event = number /\ blocks[q].event = number
      OBVIOUS
    <3> QED
      BY <1>5, <2>1, <3>1, <3>2 DEF Together
  <2> QED
    BY <2>2, <2>3
<1>8. P = p..q
  BY <1>6, <1>7
<1> QED
  BY <1>5, <1>8 DEF PositionsOf

\* Numbering the blocks of an event that lie together keeps super-fragments whole:
\* finalizeSuperFragment may be applied to whole super-fragments, with a new block of
\* the event behind them or not.
LEMMA FinalizeWhole ==
  ASSUME NEW whole \in Seq(SuperFragmentBlock), WholeFragments(whole),
         NEW number \in L1A, NEW blocks \in Seq(SuperFragmentBlock),
         blocks = whole \/ blocks = Append(whole, DataBlock(number)),
         Together(blocks, number)
  PROVE  WholeFragments(Finalize(blocks, number))
<1> DEFINE n == Len(blocks)
           P == {i \in 1..n : blocks[i].event = number}
           R == Finalize(blocks, number)
<1>1. n \in Nat /\ Len(whole) \in Nat
  BY LenProperties
<1>2. /\ n = Len(whole) /\ blocks = whole
      \/ /\ n = Len(whole) + 1 /\ blocks[n] = DataBlock(number) /\ n \in P
  <2>1. CASE blocks = whole
    BY <2>1
  <2>2. CASE blocks = Append(whole, DataBlock(number))
    <3>1. DataBlock(number) \in SuperFragmentBlock /\ DataBlock(number).event = number
      BY DEF DataBlock, SuperFragmentBlock, L1A
    <3>2. n = Len(whole) + 1 /\ blocks[Len(whole) + 1] = DataBlock(number)
      BY <2>2, <3>1, AppendProperties
    <3> QED
      BY <1>1, <3>1, <3>2
  <2> QED
    BY <2>1, <2>2
<1>3. \A i \in 1..n : i <= Len(whole) => blocks[i] = whole[i]
  <2>1. CASE blocks = whole
    BY <2>1
  <2>2. CASE blocks = Append(whole, DataBlock(number))
    <3>1. DataBlock(number) \in SuperFragmentBlock
      BY DEF DataBlock, SuperFragmentBlock, L1A
    <3>2. \A i \in 1..Len(whole) : blocks[i] = whole[i]
      BY <2>2, <3>1, AppendProperties
    <3> QED
      BY <1>1, <3>2
  <2> QED
    BY <2>1, <2>2
<1>4. R \in Seq(SuperFragmentBlock) /\ Len(R) = n
  BY FinalizeLemma DEF SameEvents
<1>5. R = [i \in 1..n |-> IF i \in P
                          THEN [event    |-> number,
                                blockNb  |-> Cardinality({j \in P : j < i}),
                                nbBlocks |-> Cardinality(P)]
                          ELSE blocks[i]]
  BY DEF Finalize
<1> HIDE DEF R
<1>6. CASE P = {}
  <2>1. blocks = whole /\ n = Len(whole)
    BY <1>2, <1>6
  <2>2. \A i \in 1..n : R[i] = blocks[i]
    BY <1>5, <1>6
  <2>3. R = blocks
    <3> HIDE DEF P
    <3> QED
      BY <1>4, <2>2, SeqEqual
  <2> QED
    BY <2>1, <2>3 DEF R
<1>7. CASE P # {}
  <2>1. PICK m \in 1..n : blocks[m].event = number
    BY <1>7
  <2>2. PICK p \in 1..n, q \in 1..n : p <= q /\ P = p..q
    <3>1. m \in 1..Len(blocks) /\ blocks[m].event = number
      BY <2>1
    <3>2. \E p, q \in 1..Len(blocks) : p <= q /\ PositionsOf(blocks, number) = p..q
      BY <3>1, TogetherIsInterval
    <3> QED
      BY <3>2 DEF PositionsOf
  <2>3. Cardinality(P) = q - p + 1
    <3>1. p \in Int /\ q \in Int /\ ~(p > q)
      BY <1>1, <2>2
    <3>2. Cardinality(p..q) = q - p + 1
      BY <3>1, FS_Interval
    <3>3. P = p..q
      BY <2>2
    <3> HIDE DEF P
    <3> QED
      BY ONLY <3>2, <3>3, Zenon
  <2>4. ASSUME NEW i \in p..q
        PROVE  Cardinality({j \in P : j < i}) = i - p
    <3>1. {j \in P : j < i} = p..(i - 1)
      BY <1>1, <2>2
    <3>2. p \in Int /\ i - 1 \in Int
      BY <1>1, <2>2
    <3>3. Cardinality(p..(i - 1)) = IF p > i - 1 THEN 0 ELSE (i - 1) - p + 1
      BY <3>2, FS_Interval
    <3>4. (i - 1) - p + 1 = i - p /\ (p > i - 1 => i - p = 0)
      BY <1>1, <2>2
    <3> HIDE DEF P
    <3> QED
      BY <3>1, <3>3, <3>4
  <2>5. \A i \in p..q : /\ i \in 1..n
                        /\ R[i] = [event    |-> number,
                                   blockNb  |-> i - p,
                                   nbBlocks |-> q - p + 1]
    <3> SUFFICES ASSUME NEW i \in p..q
                 PROVE  /\ i \in 1..n
                        /\ R[i] = [event    |-> number,
                                   blockNb  |-> i - p,
                                   nbBlocks |-> q - p + 1]
      OBVIOUS
    <3>1. i \in 1..n /\ i \in P
      BY <1>1, <2>2
    <3>2. R[i] = [event    |-> number,
                  blockNb  |-> Cardinality({j \in P : j < i}),
                  nbBlocks |-> Cardinality(P)]
      <4> HIDE DEF P
      <4> QED
        BY <1>5, <3>1
    <3> QED
      BY <2>3, <2>4, <3>1, <3>2
  <2>6. \A i \in 1..n : i \notin p..q => R[i] = blocks[i]
    <3> HIDE DEF P
    <3> QED
      BY <1>5, <2>2
  <2>7. \A i \in 1..n : i \notin p..q => /\ i <= Len(whole)
                                        /\ blocks[i] = whole[i]
                                        /\ blocks[i].event # number
    BY <1>1, <1>2, <1>3, <2>2
  <2>8. \A i \in p..q : i <= Len(whole) => whole[i].event = number
    BY <1>1, <1>3, <2>2
  <2> HIDE DEF P, n
  <2>9. ASSUME NEW i \in 1..Len(R)
        PROVE  /\ R[i].blockNb < R[i].nbBlocks
               /\ i = 1 => R[i].blockNb = 0
               /\ i > 1 => IF R[i].blockNb = 0
                           THEN R[i - 1].blockNb = R[i - 1].nbBlocks - 1
                           ELSE R[i] = [R[i - 1] EXCEPT !.blockNb = @ + 1]
    <3>1. CASE i < p \/ i > q + 1
      <4>1. /\ i \in 1..n /\ i \notin p..q
            /\ i > 1 => i - 1 \in 1..n /\ i - 1 \notin p..q
        BY <1>1, <1>4, <2>2, <3>1
      <4>2. /\ R[i] = whole[i] /\ i \in 1..Len(whole)
            /\ i > 1 => R[i - 1] = whole[i - 1]
        BY <1>1, <2>6, <2>7, <4>1
      <4> QED
        BY <4>2 DEF WholeFragments, Numbered
    <3>2. CASE i = p
      <4>1. R[i].blockNb = 0 /\ R[i].nbBlocks = q - p + 1 /\ 0 < q - p + 1
        <5>1. i \in p..q /\ i - p = 0 /\ 0 < q - p + 1
          BY <1>1, <2>2, <3>2
        <5>2. R[i] = [event |-> number, blockNb |-> i - p, nbBlocks |-> q - p + 1]
          BY <2>5, <5>1
        <5> QED
          BY <5>1, <5>2
      <4>2. ASSUME i > 1
            PROVE  R[i - 1].blockNb = R[i - 1].nbBlocks - 1
        <5>1. i - 1 \in 1..n /\ i - 1 \notin p..q
          BY <1>1, <2>2, <3>2, <4>2
        <5>2. /\ R[i - 1] = whole[i - 1] /\ whole[i - 1].event # number
              /\ i - 1 \in 1..Len(whole)
          BY <1>1, <2>6, <2>7, <5>1
        <5>3. CASE i <= Len(whole)
          <6>1. whole[i].event = number /\ i \in 1..Len(whole)
            BY <1>1, <2>2, <2>8, <3>2, <5>3
          <6>2. whole[i] # [whole[i - 1] EXCEPT !.blockNb = @ + 1]
            <7>1. whole[i - 1] \in SuperFragmentBlock
              BY <5>2, ElementOfSeq
            <7>2. [whole[i - 1] EXCEPT !.blockNb = @ + 1].event = whole[i - 1].event
              BY <7>1 DEF SuperFragmentBlock
            <7> QED
              BY <5>2, <6>1, <7>2
          <6>3. whole[i - 1].blockNb = whole[i - 1].nbBlocks - 1
            BY <4>2, <6>1, <6>2 DEF WholeFragments, Numbered
          <6> QED
            BY <5>2, <6>3
        <5>4. CASE i > Len(whole)
          <6>1. i - 1 = Len(whole) /\ Len(whole) # 0
            BY <1>1, <1>4, <5>2, <5>4
          <6> QED
            BY <5>2, <6>1, EmptySeq DEF WholeFragments, Complete
        <5> QED
          BY <1>1, <1>4, <5>3, <5>4
      <4> QED
        BY <4>1, <4>2
    <3>3. CASE i > p /\ i <= q
      <4>1. i \in p..q /\ i - 1 \in p..q
        BY <1>1, <2>2, <3>3
      <4>2. /\ R[i] = [event |-> number, blockNb |-> i - p, nbBlocks |-> q - p + 1]
            /\ R[i - 1] = [event |-> number, blockNb |-> i - 1 - p,
                           nbBlocks |-> q - p + 1]
        BY <2>5, <4>1
      <4>3. /\ (i - 1 - p) + 1 = i - p /\ i - p # 0 /\ i - p < q - p + 1
            /\ i # 1
        BY <1>1, <2>2, <3>3
      <4>4. R[i] = [R[i - 1] EXCEPT !.blockNb = @ + 1]
        BY <4>2, <4>3
      <4> QED
        BY <4>2, <4>3, <4>4
    <3>4. CASE i = q + 1
      <4>1. i \in 1..n /\ i \notin p..q /\ i - 1 \in p..q /\ i - 1 = q /\ i > 1
        BY <1>1, <1>4, <2>2, <3>4
      <4>2. /\ R[i] = whole[i] /\ i \in 1..Len(whole) /\ whole[i].event # number
        BY <1>1, <2>6, <2>7, <4>1
      <4>3. whole[i - 1].event = number /\ i - 1 \in 1..Len(whole)
        BY <1>1, <2>8, <4>1, <4>2
      <4>4. whole[i] # [whole[i - 1] EXCEPT !.blockNb = @ + 1]
        <5>1. whole[i - 1] \in SuperFragmentBlock
          BY <4>3, ElementOfSeq
        <5>2. [whole[i - 1] EXCEPT !.blockNb = @ + 1].event = whole[i - 1].event
          BY <5>1 DEF SuperFragmentBlock
        <5> QED
          BY <4>2, <4>3, <5>2
      <4>5. whole[i].blockNb = 0 /\ whole[i].blockNb < whole[i].nbBlocks
        BY <4>1, <4>2, <4>4 DEF WholeFragments, Numbered
      <4>6. R[i - 1].blockNb = R[i - 1].nbBlocks - 1
        <5>1. R[q] = [event |-> number, blockNb |-> q - p, nbBlocks |-> q - p + 1]
          BY <2>5, <4>1
        <5> QED
          BY <1>1, <2>2, <4>1, <5>1
      <4> QED
        BY <4>1, <4>2, <4>5, <4>6
    <3> QED
      BY <1>1, <1>4, <2>2, <3>1, <3>2, <3>3, <3>4
  <2>10. Complete(R)
    <3>1. n \in 1..n /\ Len(R) = n
      BY <1>1, <1>4, <2>2
    <3>2. CASE n \in p..q
      <4>1. R[n] = [event |-> number, blockNb |-> n - p, nbBlocks |-> q - p + 1]
        BY <2>5, <3>2
      <4>2. n = q /\ n - p = (q - p + 1) - 1
        BY <1>1, <2>2, <3>2
      <4>3. R[n].blockNb = R[n].nbBlocks - 1
        BY <4>1, <4>2
      <4> QED
        BY <3>1, <4>3 DEF Complete
    <3>3. CASE n \notin p..q
      <4>1. R[n] = whole[n] /\ n = Len(whole) /\ Len(whole) # 0
        BY <1>1, <1>2, <2>2, <2>6, <2>7, <3>1, <3>3
      <4> QED
        BY <3>1, <4>1, EmptySeq DEF WholeFragments, Complete
    <3> QED
      BY <3>2, <3>3
  <2>11. Numbered(R)
    BY <2>9 DEF Numbered
  <2> QED
    BY <2>10, <2>11 DEF WholeFragments, R
<1> QED
  BY <1>6, <1>7
-----------------------------------------------------------------------------
\* Between two reads, the RU has got whole super-fragments, and what is held would be
\* whole ones if the event being read ended here.
FragmentsSoFar ==
  /\ Numbered(sent)
  /\ blocksArePendingTransmission => WholeFragments(Whole)
  /\ ~blocksArePendingTransmission =>
       /\ WholeFragments(sent)
       /\ WholeFragments(Finalize(superFragBlocks, eventNumber))
       /\ superFragBlocks # <<>> => insideEvent

WholeSoFar == recurred \/ torn \/ FragmentsSoFar

\* The same events lie together whatever the numbers of their blocks.
LEMMA SameEventsTogether ==
  ASSUME NEW s \in Seq(SuperFragmentBlock), NEW t \in Seq(SuperFragmentBlock),
         NEW number, SameEvents(s, t), Together(s, number)
  PROVE  Together(t, number)
<1>1. Len(s) = Len(t) /\ \A i \in 1..Len(t) : s[i].event = t[i].event
  BY DEF SameEvents
<1> QED
  BY <1>1 DEF Together

\* One pass that reads a block, which may end a super-fragment or begin one.
LEMMA ReadWhole ==
  ASSUME IInv, FragmentsSoFar, NEW header \in BOOLEAN, NEW trailer \in BOOLEAN,
         NEW number \in L1A, ReadBlock(header, trailer, number), ~recurred'
  PROVE  FragmentsSoFar'
<1> DEFINE unfinished == insideEvent /\ header
           closed   == IF unfinished THEN Finalize(superFragBlocks, eventNumber)
                                     ELSE superFragBlocks
           previous == IF unfinished THEN eventNumber ELSE previousEventNumber
           current  == IF header THEN number ELSE eventNumber
           missing  == IF header THEN MissingEvents(previous, number) ELSE <<>>
           empty    == [i \in 1..Len(missing) |-> EmptyBlock(missing[i])]
           filled   == closed \o empty
           drop     == InUse(filled) > HighThreshold
           extended == IF drop THEN filled ELSE Append(filled, DataBlock(current))
           finished == Finalize(superFragBlocks, eventNumber)
           whole    == IF header THEN filled ELSE finished
           blocks   == IF drop THEN whole ELSE Append(whole, DataBlock(current))
<1>1. /\ fsm = "Enabled" /\ fsm' = "Enabled" /\ ~blocksArePendingTransmission
      /\ sent' = sent /\ eventNumber' = current
      /\ insideEvent' = ~trailer
      /\ blocksArePendingTransmission' = trailer
  BY DEF ReadBlock
<1>2. superFragBlocks' = IF trailer THEN Finalize(extended, current) ELSE extended
  BY DEF ReadBlock
<1>3. /\ superFragBlocks \in Seq(SuperFragmentBlock)
      /\ sent \in Seq(SuperFragmentBlock)
      /\ eventNumber \in L1A /\ previousEventNumber \in L1A
      /\ insideEvent \in BOOLEAN
  BY DEF IInv, TypeOK, L1A
<1>4. /\ Numbered(sent) /\ WholeFragments(sent) /\ WholeFragments(finished)
      /\ superFragBlocks # <<>> => insideEvent
  BY <1>1 DEF FragmentsSoFar
<1>5. finished \in Seq(SuperFragmentBlock) /\ SameEvents(finished, superFragBlocks)
  BY <1>3, FinalizeLemma
<1>6. closed \in Seq(SuperFragmentBlock)
  BY <1>3, <1>5
<1>7. previous \in L1A /\ current \in L1A
  BY <1>3
<1>8. DataBlock(current) \in SuperFragmentBlock /\ DataBlock(current).event = current
  BY <1>7 DEF DataBlock, SuperFragmentBlock, L1A
<1>9. header => WholeFragments(closed)
  <2>1. CASE unfinished
    BY <1>4, <2>1
  <2>2. CASE header /\ ~unfinished
    <3>1. superFragBlocks = <<>>
      BY <1>4, <2>2
    <3> QED
      BY <2>2, <3>1, EmptyIsWhole
  <2> QED
    BY <2>1, <2>2
<1>10. ~header => closed = superFragBlocks /\ current = eventNumber
  OBVIOUS
<1> HIDE DEF closed, previous, current, unfinished, finished
<1>11. missing \in Seq(L1A) /\ (~header => missing = <<>>)
  <2>1. MissingEvents(previous, number) \in Seq(L1A)
    BY <1>7, MissingLemma
  <2> QED
    BY <2>1
<1> HIDE DEF missing
<1>12. empty \in Seq(SuperFragmentBlock) /\ WholeFragments(empty)
  BY <1>11, EmptyBlocksWhole
<1>13. ~header => empty = <<>>
  <2> SUFFICES ASSUME ~header PROVE empty = <<>>
    OBVIOUS
  <2>1. Len(missing) = 0
    BY <1>11
  <2> QED
    BY <2>1
<1> HIDE DEF empty
<1>14. filled \in Seq(SuperFragmentBlock) /\ (header => WholeFragments(filled))
  BY <1>6, <1>9, <1>12, ConcatWhole, ConcatProperties
<1>15. ~header => filled = superFragBlocks
  BY <1>3, <1>10, <1>13, ConcatEmptySeq
<1> HIDE DEF filled, drop
<1>16. whole \in Seq(SuperFragmentBlock) /\ WholeFragments(whole)
  BY <1>4, <1>5, <1>14
<1>17. Len(whole) = Len(filled) /\ SameEvents(whole, filled)
  <2>1. SameEvents(filled, filled)
    BY DEF SameEvents
  <2> QED
    BY <1>5, <1>15, <2>1 DEF SameEvents
<1>18. \A i \in 1..Len(whole) : whole[i].event # current => whole[i] = filled[i]
  <2>1. CASE header
    BY <2>1
  <2>2. CASE ~header
    <3>1. /\ whole = finished /\ filled = superFragBlocks /\ current = eventNumber
          /\ Len(finished) = Len(superFragBlocks)
      BY <1>5, <1>10, <1>15, <2>2 DEF SameEvents
    <3>2. ASSUME NEW i \in 1..Len(superFragBlocks), superFragBlocks[i].event # eventNumber
          PROVE  finished[i] = superFragBlocks[i]
      BY <3>2 DEF finished, Finalize
    <3>3. \A i \in 1..Len(superFragBlocks) : finished[i].event = superFragBlocks[i].event
      BY <1>5, <3>1 DEF SameEvents
    <3> QED
      BY <3>1, <3>2, <3>3
  <2> QED
    BY <2>1, <2>2
<1> HIDE DEF whole
<1>19. extended \in Seq(SuperFragmentBlock) /\ blocks \in Seq(SuperFragmentBlock)
  BY <1>8, <1>14, <1>16, AppendProperties
<1>20. /\ SameEvents(blocks, extended)
       /\ \A i \in 1..Len(blocks) : blocks[i].event # current => blocks[i] = extended[i]
  <2>1. CASE drop
    BY <1>17, <1>18, <2>1
  <2>2. CASE ~drop
    <3>1. blocks = Append(whole, DataBlock(current))
          /\ extended = Append(filled, DataBlock(current))
      BY <2>2
    <3>2. /\ Len(blocks) = Len(whole) + 1
          /\ \A i \in 1..Len(whole) : blocks[i] = whole[i]
          /\ blocks[Len(whole) + 1] = DataBlock(current)
      BY <1>8, <1>16, <3>1, AppendProperties
    <3>3. /\ Len(extended) = Len(whole) + 1
          /\ \A i \in 1..Len(whole) : extended[i] = filled[i]
          /\ extended[Len(whole) + 1] = DataBlock(current)
      BY <1>8, <1>14, <1>17, <3>1, AppendProperties
    <3>4. Len(whole) \in Nat /\ \A i \in 1..Len(whole) : whole[i].event = filled[i].event
      BY <1>16, <1>17, LenProperties DEF SameEvents
    <3> HIDE DEF blocks, extended
    <3>5. \A i \in 1..Len(blocks) : i \in 1..Len(whole) \/ i = Len(whole) + 1
      BY <3>2, <3>4
    <3>6. SameEvents(blocks, extended)
      BY <3>2, <3>3, <3>4, <3>5 DEF SameEvents
    <3>7. \A i \in 1..Len(blocks) : blocks[i].event # current => blocks[i] = extended[i]
      BY <1>18, <3>2, <3>3, <3>5
    <3> QED
      BY <3>6, <3>7
  <2> QED
    BY <2>1, <2>2
<1>21. Finalize(extended, current) = Finalize(blocks, current)
  BY <1>7, <1>19, <1>20, FinalizeAgrees
<1>22. Together(blocks, current)
  <2>1. Together(superFragBlocks', current)
    <3>1. recurred' = (recurred \/ ~Together(superFragBlocks', current))
      BY Zenon DEF ReadBlock, current
    <3> QED
      BY <3>1
  <2>2. superFragBlocks' \in Seq(SuperFragmentBlock) /\ SameEvents(superFragBlocks', extended)
    <3>1. SameEvents(extended, extended)
      BY DEF SameEvents
    <3> HIDE DEF extended
    <3> QED
      BY <1>2, <1>7, <1>19, <3>1, FinalizeLemma
  <2>3. SameEvents(superFragBlocks', blocks)
    <3> HIDE DEF blocks, extended
    <3> QED
      BY <1>20, <2>2 DEF SameEvents
  <2> HIDE DEF blocks, extended
  <2> QED
    BY <1>19, <2>1, <2>2, <2>3, SameEventsTogether
<1>23. blocks = whole \/ blocks = Append(whole, DataBlock(current))
  OBVIOUS
<1> HIDE DEF blocks, extended
<1> DEFINE R == Finalize(extended, current)
<1>24. R \in Seq(SuperFragmentBlock) /\ WholeFragments(R)
  BY <1>7, <1>16, <1>19, <1>21, <1>22, <1>23, FinalizeWhole, FinalizeLemma
<1>25. CASE trailer
  <2>1. superFragBlocks' = R /\ blocksArePendingTransmission'
    BY <1>1, <1>2, <1>25
  <2>2. Whole' = sent \o R
    BY <1>1, <2>1 DEF Whole
  <2> HIDE DEF R
  <2>3. WholeFragments(sent \o R)
    BY <1>3, <1>4, <1>24, ConcatWhole
  <2>4. WholeFragments(Whole)' /\ Numbered(sent)'
    BY <1>1, <1>4, <2>2, <2>3 DEF WholeFragments, Numbered, Complete
  <2> QED
    BY <2>1, <2>4 DEF FragmentsSoFar
<1>26. CASE ~trailer
  <2>1. superFragBlocks' = extended /\ ~blocksArePendingTransmission' /\ insideEvent'
    BY <1>1, <1>2, <1>26
  <2>2. Finalize(superFragBlocks, eventNumber)' = R
    BY <1>1, <2>1 DEF Finalize
  <2> HIDE DEF R
  <2>3. WholeFragments(Finalize(superFragBlocks, eventNumber))'
    BY <1>24, <2>2 DEF WholeFragments, Numbered, Complete
  <2>4. WholeFragments(sent)' /\ Numbered(sent)'
    BY <1>1, <1>4 DEF WholeFragments, Numbered, Complete
  <2> QED
    BY <2>1, <2>3, <2>4 DEF FragmentsSoFar
<1> QED
  BY <1>25, <1>26

LEMMA InitWhole == Init => WholeSoFar
<1> SUFFICES ASSUME Init PROVE FragmentsSoFar
  BY DEF WholeSoFar
<1>1. sent = <<>> /\ superFragBlocks = <<>> /\ ~blocksArePendingTransmission
  BY DEF Init
<1>2. Finalize(superFragBlocks, eventNumber) = <<>>
  BY <1>1 DEF Finalize
<1> QED
  BY <1>1, <1>2, EmptyIsWhole DEF FragmentsSoFar, WholeFragments

\* What is sent and held is as whole as before if neither it nor the event number changes.
LEMMA FragmentsStay ==
  ASSUME sent' = sent, superFragBlocks' = superFragBlocks, eventNumber' = eventNumber
  PROVE  /\ Numbered(sent)' = Numbered(sent)
         /\ WholeFragments(Whole)' = WholeFragments(Whole)
         /\ WholeFragments(sent)' = WholeFragments(sent)
         /\ WholeFragments(Finalize(superFragBlocks, eventNumber))'
              = WholeFragments(Finalize(superFragBlocks, eventNumber))
<1>1. Whole' = Whole
  BY DEF Whole
<1>2. Finalize(superFragBlocks, eventNumber)' = Finalize(superFragBlocks, eventNumber)
  BY DEF Finalize
<1>3. Numbered(sent)' = Numbered(sent)
  BY Zenon DEF Numbered
<1>4. WholeFragments(sent)' = WholeFragments(sent)
  BY <1>3, Zenon DEF WholeFragments, Complete
<1>5. WholeFragments(Whole)' = WholeFragments(Whole)
  BY <1>1, Zenon DEF WholeFragments, Numbered, Complete
<1>6. WholeFragments(Finalize(superFragBlocks, eventNumber))'
        = WholeFragments(Finalize(superFragBlocks, eventNumber))
  BY <1>2, Zenon DEF WholeFragments, Numbered, Complete
<1> QED
  BY <1>3, <1>4, <1>5, <1>6

\* Every step leaves whole super-fragments and what makes one, unless it brings back a
\* number or begins a run with an event cut off.
LEMMA NextWhole ==
  ASSUME IInv, WholeSoFar, [Next]_vars
  PROVE  WholeSoFar'
<1> SUFFICES ASSUME ~recurred', ~torn' PROVE FragmentsSoFar'
  BY DEF WholeSoFar
<1> USE DEF readerVars, history, buffers
<1>0. /\ superFragBlocks \in Seq(SuperFragmentBlock)
      /\ sent \in Seq(SuperFragmentBlock)
      /\ l1a \in 0..MaxL1A /\ blocksArePendingTransmission \in BOOLEAN
      /\ MaxL1A \in Nat \ {0} /\ MaxGap \in 0..MaxL1A
  BY SuperFragmentAssumption DEF IInv, TypeOK
<1>00. recurred' = recurred /\ torn' = torn => FragmentsSoFar
  BY DEF WholeSoFar
<1>1. ASSUME /\ recurred' = recurred /\ torn' = torn
             /\ sent' = sent /\ superFragBlocks' = superFragBlocks
             /\ blocksArePendingTransmission' = blocksArePendingTransmission
             /\ eventNumber' = eventNumber /\ insideEvent' = insideEvent
      PROVE  FragmentsSoFar'
  <2>1. /\ Numbered(sent)' = Numbered(sent)
        /\ WholeFragments(Whole)' = WholeFragments(Whole)
        /\ WholeFragments(sent)' = WholeFragments(sent)
        /\ WholeFragments(Finalize(superFragBlocks, eventNumber))'
             = WholeFragments(Finalize(superFragBlocks, eventNumber))
    BY ONLY <1>1, FragmentsStay
  <2> QED
    BY <1>00, <1>1, <2>1 DEF FragmentsSoFar
<1>2. CASE Configure
  <2>1. /\ sent' = sent /\ superFragBlocks' = superFragBlocks
        /\ blocksArePendingTransmission' = blocksArePendingTransmission
        /\ eventNumber' = eventNumber /\ recurred' = recurred
        /\ torn' = (torn \/ (superFragBlocks # <<>> /\ ~blocksArePendingTransmission))
    BY <1>2 DEF Configure
  <2>2. /\ ~torn /\ ~recurred
        /\ superFragBlocks = <<>> \/ blocksArePendingTransmission
    BY <2>1
  <2>3. FragmentsSoFar
    BY <2>2 DEF WholeSoFar
  <2>4. /\ Numbered(sent)' = Numbered(sent)
        /\ WholeFragments(Whole)' = WholeFragments(Whole)
        /\ WholeFragments(sent)' = WholeFragments(sent)
        /\ WholeFragments(Finalize(superFragBlocks, eventNumber))'
             = WholeFragments(Finalize(superFragBlocks, eventNumber))
    BY ONLY <2>1, FragmentsStay
  <2> QED
    BY <2>1, <2>2, <2>3, <2>4 DEF FragmentsSoFar
<1>3. CASE Enable
  BY <1>1, <1>3 DEF Enable
<1>4. CASE Halt
  <2>1. sent' = <<>> /\ superFragBlocks' = <<>> /\ ~blocksArePendingTransmission'
    BY <1>4 DEF Halt
  <2>2. Finalize(superFragBlocks, eventNumber)' = <<>>
    BY <2>1 DEF Finalize
  <2>3. Numbered(<<>>) /\ WholeFragments(<<>>)
    BY EmptyIsWhole DEF WholeFragments
  <2>4. /\ Numbered(sent)' /\ WholeFragments(sent)'
        /\ WholeFragments(Finalize(superFragBlocks, eventNumber))'
    BY <2>1, <2>2, <2>3 DEF WholeFragments, Numbered, Complete
  <2> QED
    BY <2>1, <2>4 DEF FragmentsSoFar
<1>5. CASE Read
  <2>1. PICK header \in BOOLEAN, trailer \in BOOLEAN, gap \in 0..MaxGap :
          ReadBlock(header, trailer, (l1a + gap) % (MaxL1A + 1))
    BY <1>5 DEF Read
  <2>2. (l1a + gap) % (MaxL1A + 1) \in L1A
    BY <1>0, NextNumberIsL1A DEF L1A
  <2> QED
    <3>1. ~recurred /\ ~torn
      BY <2>1 DEF ReadBlock
    <3>2. FragmentsSoFar
      BY <3>1 DEF WholeSoFar
    <3> QED
      BY <2>1, <2>2, <3>2, ReadWhole
<1>6. CASE SendNextPendingBlock
  <2>1. /\ fsm = "Enabled" /\ fsm' = "Enabled" /\ blocksArePendingTransmission
        /\ superFragBlocks # <<>>
        /\ sent' = Append(sent, Head(superFragBlocks))
        /\ superFragBlocks' = Tail(superFragBlocks)
        /\ recurred' = recurred /\ torn' = torn
    BY <1>6 DEF SendNextPendingBlock
  <2>2. blocksArePendingTransmission' = (superFragBlocks' # <<>>)
    BY <1>6 DEF SendNextPendingBlock
  <2>3. /\ superFragBlocks' \in Seq(SuperFragmentBlock)
        /\ sent' \in Seq(SuperFragmentBlock)
    BY <1>0, <2>1, HeadTailProperties, AppendProperties
  <2>4. Whole' = Whole /\ Whole' = sent' \o superFragBlocks'
    BY <1>0, <1>6, SendKeepsWhole DEF Whole
  <2>5. WholeFragments(Whole)
    BY <1>00, <2>1 DEF FragmentsSoFar
  <2>6. WholeFragments(sent' \o superFragBlocks')
    BY <2>4, <2>5
  <2>7. Numbered(sent')
    BY <2>3, <2>6, PrefixNumbered DEF WholeFragments
  <2>8. CASE superFragBlocks' = <<>>
    <3>1. sent' = sent' \o superFragBlocks' /\ ~blocksArePendingTransmission'
      BY <2>2, <2>3, <2>8, ConcatEmptySeq
    <3>2. WholeFragments(sent')
      BY <2>6, <3>1
    <3>3. Finalize(superFragBlocks, eventNumber)' = <<>>
      BY <2>8 DEF Finalize
    <3>4. /\ Numbered(sent)' /\ WholeFragments(sent)'
          /\ WholeFragments(Finalize(superFragBlocks, eventNumber))'
      BY <2>7, <3>2, <3>3, EmptyIsWhole DEF WholeFragments, Numbered, Complete
    <3> QED
      BY <2>8, <3>1, <3>4 DEF FragmentsSoFar
  <2>9. CASE superFragBlocks' # <<>>
    <3>1. Numbered(sent)' /\ WholeFragments(Whole)'
      BY <2>4, <2>6, <2>7 DEF WholeFragments, Numbered, Complete
    <3>2. blocksArePendingTransmission'
      BY <2>2, <2>9
    <3> QED
      BY <3>1, <3>2 DEF FragmentsSoFar
  <2> QED
    BY <2>8, <2>9
<1>7. CASE SendFromEmptyDeque
  BY <1>1, <1>7 DEF SendFromEmptyDeque
<1>8. CASE ReleaseByRU
  BY <1>1, <1>8 DEF ReleaseByRU
<1>9. CASE Fail \/ Reset
  BY <1>1, <1>9 DEF Fail, Reset
<1>10. CASE UNCHANGED vars
  BY <1>1, <1>10 DEF vars
<1> QED
  BY <1>2, <1>3, <1>4, <1>5, <1>6, <1>7, <1>8, <1>9, <1>10 DEF Next

\* The RU gets whole super-fragments, numbered from 0 and with the right count, for every
\* range of event numbers, every threshold of the pool and every readout, over failures,
\* Reset and the runs behind them, until a number comes back among the blocks that
\* finalizeSuperFragment is to number or an event is cut off.
THEOREM SuperFragmentsAreWhole == Spec => []SentWhole
<1>1. IInv /\ WholeSoFar /\ [Next]_vars => WholeSoFar'
  BY NextWhole
<1>2. WholeSoFar => SentWhole
  BY DEF WholeSoFar, FragmentsSoFar, Numbered, SentWhole
<1>3. Spec => []IInv
  BY Invariant
<1>4. Spec => Init /\ [][Next]_vars
  BY DEF Spec
<1> QED
  BY <1>1, <1>2, <1>3, <1>4, InitWhole, PTL
=============================================================================

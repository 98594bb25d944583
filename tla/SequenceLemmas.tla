---------------------------- MODULE SequenceLemmas ----------------------------
(***************************************************************************)
(* What the proofs need to know of sequences: what a push at the end and a *)
(* pop off the front do to the set of the elements, and what an insertion  *)
(* and a removal anywhere do to each index.                                *)
(***************************************************************************)
EXTENDS Sequences, SequencesExt, SequenceTheorems, FiniteSetTheorems, TLAPS

(* The empty list: no element, and none twice.                             *)
LEMMA EmptySet == ToSet(<<>>) = {} /\ IsInjective(<<>>)
BY DEF ToSet, IsInjective

(* A list without elements is the empty one.                               *)
LEMMA EmptyIff ==
    ASSUME NEW S, NEW s \in Seq(S)
    PROVE  /\ ToSet(s) \subseteq S
           /\ s = <<>> <=> ToSet(s) = {}
<1>1. Len(s) \in Nat /\ DOMAIN s = 1 .. Len(s) /\ \A i \in 1 .. Len(s) : s[i] \in S
  BY LenProperties, ElementOfSeq
<1>2. s # <<>> => 1 \in DOMAIN s
  BY <1>1, EmptySeq
<1> QED
  BY <1>1, <1>2, EmptySet DEF ToSet

(* A new element at the end: one more in the set, and still each once.     *)
LEMMA AppendSet ==
    ASSUME NEW S, NEW s \in Seq(S), NEW e \in S
    PROVE  /\ ToSet(Append(s, e)) = ToSet(s) \cup {e}
           /\ IsInjective(s) /\ e \notin ToSet(s) => IsInjective(Append(s, e))
<1>1. /\ Append(s, e) \in Seq(S) /\ Len(Append(s, e)) = Len(s) + 1
      /\ \A i \in 1 .. Len(s) : Append(s, e)[i] = s[i]
      /\ Append(s, e)[Len(s) + 1] = e
  BY AppendProperties
<1>2. DOMAIN s = 1 .. Len(s) /\ DOMAIN Append(s, e) = 1 .. Len(s) + 1 /\ Len(s) \in Nat
  BY <1>1, LenProperties
<1>3. ASSUME NEW i \in 1 .. Len(s) + 1 PROVE i \in 1 .. Len(s) \/ i = Len(s) + 1
  BY <1>2
<1> QED
  BY <1>1, <1>2, <1>3 DEF ToSet, IsInjective

(* The front removed: the rest does not hold it, if each was there once.   *)
LEMMA TailSet ==
    ASSUME NEW S, NEW s \in Seq(S), s # <<>>
    PROVE  /\ Tail(s) \in Seq(S) /\ Head(s) \in S
           /\ ToSet(s) = ToSet(Tail(s)) \cup {Head(s)}
           /\ IsInjective(s) => IsInjective(Tail(s)) /\ Head(s) \notin ToSet(Tail(s))
<1>1. /\ Head(s) \in S /\ Tail(s) \in Seq(S) /\ Head(s) = s[1]
      /\ Len(s) \in Nat \ {0} /\ Len(Tail(s)) = Len(s) - 1
      /\ \A i \in 1 .. Len(s) - 1 : Tail(s)[i] = s[i + 1]
  BY HeadTailProperties, EmptySeq, LenProperties
<1>2. DOMAIN s = 1 .. Len(s) /\ DOMAIN Tail(s) = 1 .. Len(s) - 1
  BY <1>1, LenProperties
<1>3. \A i \in 1 .. Len(s) : i = 1 \/ (i - 1 \in 1 .. Len(s) - 1 /\ s[i] = Tail(s)[i - 1])
  BY <1>1
<1>4. \A i \in 1 .. Len(s) - 1 : i + 1 \in 1 .. Len(s) /\ i + 1 # 1 /\ Tail(s)[i] = s[i + 1]
  BY <1>1
<1>5. ToSet(s) = ToSet(Tail(s)) \cup {Head(s)}
  <2>1. ASSUME NEW x \in ToSet(s) PROVE x \in ToSet(Tail(s)) \cup {Head(s)}
    <3>1. PICK i \in 1 .. Len(s) : x = s[i]
      BY <1>2, <2>1 DEF ToSet
    <3>2. CASE i = 1
      BY <1>1, <3>1, <3>2
    <3>3. CASE i - 1 \in 1 .. Len(s) - 1 /\ s[i] = Tail(s)[i - 1]
      BY <1>2, <3>1, <3>3 DEF ToSet
    <3> QED
      BY <1>3, <3>2, <3>3
  <2>2. ASSUME NEW x \in ToSet(Tail(s)) \cup {Head(s)} PROVE x \in ToSet(s)
    BY <1>1, <1>2, <1>4, <2>2 DEF ToSet
  <2> QED
    BY <2>1, <2>2
<1>6. ASSUME IsInjective(s) PROVE IsInjective(Tail(s)) /\ Head(s) \notin ToSet(Tail(s))
  <2>1. ASSUME NEW i \in 1 .. Len(s) - 1, NEW j \in 1 .. Len(s) - 1, Tail(s)[i] = Tail(s)[j]
        PROVE  i = j
    BY <1>1, <1>2, <1>4, <1>6, <2>1 DEF IsInjective
  <2>2. ASSUME NEW i \in 1 .. Len(s) - 1 PROVE Tail(s)[i] # Head(s)
    <3>1. 1 \in DOMAIN s /\ i + 1 \in DOMAIN s /\ i + 1 # 1
      BY <1>1, <1>2, <1>4
    <3> QED
      BY <1>1, <1>4, <1>6, <3>1 DEF IsInjective
  <2> QED
    BY <1>2, <2>1, <2>2 DEF ToSet, IsInjective
<1> QED
  BY <1>1, <1>5, <1>6

(* The same, by index.                                                     *)
LEMMA AppendAt ==
    ASSUME NEW S, NEW s \in Seq(S), NEW e \in S
    PROVE  /\ Append(s, e) \in Seq(S) /\ Len(s) \in Nat /\ DOMAIN s = 1 .. Len(s)
           /\ Len(Append(s, e)) = Len(s) + 1 /\ DOMAIN Append(s, e) = 1 .. Len(s) + 1
           /\ \A i \in DOMAIN s : Append(s, e)[i] = s[i]
           /\ Append(s, e)[Len(s) + 1] = e
BY AppendProperties, LenProperties

(* And for the pop.                                                        *)
LEMMA TailAt ==
    ASSUME NEW S, NEW s \in Seq(S), s # <<>>
    PROVE  /\ Head(s) = s[1] /\ Len(s) \in Nat \ {0} /\ DOMAIN s = 1 .. Len(s)
           /\ Len(Tail(s)) = Len(s) - 1 /\ DOMAIN Tail(s) = 1 .. Len(s) - 1
           /\ \A i \in DOMAIN Tail(s) : i + 1 \in DOMAIN s /\ Tail(s)[i] = s[i + 1]
<1>1. /\ Tail(s) \in Seq(S) /\ Head(s) = s[1]
      /\ Len(s) \in Nat \ {0} /\ Len(Tail(s)) = Len(s) - 1
      /\ \A i \in 1 .. Len(s) - 1 : Tail(s)[i] = s[i + 1]
  BY HeadTailProperties, EmptySeq, LenProperties
<1>2. DOMAIN s = 1 .. Len(s) /\ DOMAIN Tail(s) = 1 .. Len(s) - 1
  BY <1>1, LenProperties
<1> QED
  BY <1>1, <1>2

-----------------------------------------------------------------------------
(* Insertion and removal at an index.                                      *)

(* Behind the i-th element comes a new one.                                *)
LEMMA Inserted ==
    ASSUME NEW S, NEW s \in Seq(S), NEW i \in 0 .. Len(s), NEW n \in S
    PROVE  /\ InsertAt(s, i + 1, n) \in Seq(S) /\ Len(s) \in Nat
           /\ Len(InsertAt(s, i + 1, n)) = Len(s) + 1
           /\ \A k \in 1 .. Len(s) + 1 : InsertAt(s, i + 1, n)[k] =
                 IF k <= i THEN s[k] ELSE IF k = i + 1 THEN n ELSE s[k - 1]
<1> DEFINE a == SubSeq(s, 1, (i + 1) - 1)
           b == SubSeq(s, i + 1, Len(s))
           ab == a \o <<n>>
<1>1. /\ Len(s) \in Nat /\ i \in Nat /\ i <= Len(s) /\ (i + 1) - 1 = i
      /\ \A k \in 1 .. Len(s) : s[k] \in S
  BY LenProperties, ElementOfSeq
<1>2. a \in Seq(S) /\ Len(a) = i /\ \A k \in 1 .. i : a[k] = s[k]
  <2>1. \A k \in 1 .. i : s[k] \in S
    BY <1>1
  <2>2. /\ SubSeq(s, 1, i) \in Seq(S)
        /\ Len(SubSeq(s, 1, i)) = IF 1 <= i THEN i - 1 + 1 ELSE 0
        /\ \A k \in 1 .. i - 1 + 1 : SubSeq(s, 1, i)[k] = s[1 + k - 1]
    BY <1>1, <2>1, SubSeqProperties
  <2>3. \A k \in 1 .. i : 1 + k - 1 = k /\ k \in 1 .. i - 1 + 1
    BY <1>1
  <2>4. (IF 1 <= i THEN i - 1 + 1 ELSE 0) = i
    BY <1>1
  <2> QED
    BY <1>1, <2>2, <2>3, <2>4
<1>3. b \in Seq(S) /\ Len(b) = Len(s) - i /\ \A k \in 1 .. Len(s) - i : b[k] = s[i + k]
  <2>1. \A k \in i + 1 .. Len(s) : s[k] \in S
    BY <1>1
  <2>2. /\ b \in Seq(S)
        /\ Len(b) = IF i + 1 <= Len(s) THEN Len(s) - (i + 1) + 1 ELSE 0
        /\ \A k \in 1 .. Len(s) - (i + 1) + 1 : b[k] = s[i + 1 + k - 1]
    BY <1>1, <2>1, SubSeqProperties
  <2>3. \A k \in 1 .. Len(s) - i : i + 1 + k - 1 = i + k /\ k \in 1 .. Len(s) - (i + 1) + 1
    BY <1>1
  <2>4. (IF i + 1 <= Len(s) THEN Len(s) - (i + 1) + 1 ELSE 0) = Len(s) - i
    BY <1>1
  <2> HIDE DEF b
  <2> QED
    BY <2>2, <2>3, <2>4
<1>4. InsertAt(s, i + 1, n) = ab \o b
  BY DEF InsertAt
<1> HIDE DEF a, b
<1>5. <<n>> \in Seq(S) /\ Len(<<n>>) = 1 /\ <<n>>[1] = n
  OBVIOUS
<1>6. ab \in Seq(S) /\ Len(ab) = i + 1 /\ \A k \in 1 .. i + 1 : ab[k] = IF k <= i THEN s[k] ELSE n
  <2>1. /\ ab \in Seq(S) /\ Len(ab) = i + 1
        /\ \A k \in 1 .. i + 1 : ab[k] = IF k <= i THEN a[k] ELSE <<n>>[k - i]
    BY <1>2, <1>5, ConcatProperties
  <2>2. \A k \in 1 .. i + 1 : k <= i \/ k - i = 1
    BY <1>1
  <2>3. \A k \in 1 .. i + 1 : k <= i => k \in 1 .. i
    BY <1>1
  <2> HIDE DEF ab
  <2> QED
    BY <1>2, <1>5, <2>1, <2>2, <2>3
<1> HIDE DEF ab
<1>7. /\ ab \o b \in Seq(S) /\ Len(ab \o b) = Len(ab) + Len(b)
      /\ \A k \in 1 .. Len(ab) + Len(b) :
            (ab \o b)[k] = IF k <= Len(ab) THEN ab[k] ELSE b[k - Len(ab)]
  BY <1>3, <1>6, ConcatProperties
<1>8. Len(ab) + Len(b) = Len(s) + 1 /\ Len(ab) = i + 1
  BY <1>1, <1>3, <1>6
<1>9. ASSUME NEW k \in 1 .. Len(s) + 1
      PROVE  (ab \o b)[k] = IF k <= i THEN s[k] ELSE IF k = i + 1 THEN n ELSE s[k - 1]
  <2>1. CASE k <= i + 1
    <3>1. k \in 1 .. i + 1 /\ (k <= i \/ k = i + 1)
      BY <1>1, <2>1
    <3> QED
      BY <1>1, <1>6, <1>7, <1>8, <2>1, <3>1
  <2>2. CASE ~(k <= i + 1)
    <3>1. k - (i + 1) \in 1 .. Len(s) - i /\ i + (k - (i + 1)) = k - 1 /\ ~(k <= i) /\ k # i + 1
      BY <1>1, <2>2
    <3>2. b[k - (i + 1)] = s[k - 1]
      BY <1>3, <3>1
    <3> QED
      BY <1>7, <1>8, <2>2, <3>1, <3>2
  <2> QED
    BY <2>1, <2>2
<1> QED
  BY <1>1, <1>4, <1>7, <1>8, <1>9

(* Without the i-th element the others close up.                           *)
LEMMA Removed ==
    ASSUME NEW S, NEW s \in Seq(S), NEW i \in 1 .. Len(s)
    PROVE  /\ RemoveAt(s, i) \in Seq(S) /\ Len(s) \in Nat
           /\ Len(RemoveAt(s, i)) = Len(s) - 1
           /\ \A k \in 1 .. Len(s) - 1 : RemoveAt(s, i)[k] = IF k < i THEN s[k] ELSE s[k + 1]
<1> DEFINE a == SubSeq(s, 1, i - 1)
           b == SubSeq(s, i + 1, Len(s))
<1>1. /\ Len(s) \in Nat /\ i \in Nat /\ 1 <= i /\ i <= Len(s) /\ i - 1 \in Nat
      /\ \A k \in 1 .. Len(s) : s[k] \in S
  BY LenProperties, ElementOfSeq
<1>2. a \in Seq(S) /\ Len(a) = i - 1 /\ \A k \in 1 .. i - 1 : a[k] = s[k]
  <2>1. \A k \in 1 .. i - 1 : s[k] \in S
    BY <1>1
  <2>2. /\ a \in Seq(S)
        /\ Len(a) = IF 1 <= i - 1 THEN (i - 1) - 1 + 1 ELSE 0
        /\ \A k \in 1 .. (i - 1) - 1 + 1 : a[k] = s[1 + k - 1]
    BY <1>1, <2>1, SubSeqProperties
  <2>3. \A k \in 1 .. i - 1 : 1 + k - 1 = k /\ k \in 1 .. (i - 1) - 1 + 1
    BY <1>1
  <2>4. (IF 1 <= i - 1 THEN (i - 1) - 1 + 1 ELSE 0) = i - 1
    BY <1>1
  <2> HIDE DEF a
  <2> QED
    BY <1>1, <2>2, <2>3, <2>4
<1>3. b \in Seq(S) /\ Len(b) = Len(s) - i /\ \A k \in 1 .. Len(s) - i : b[k] = s[i + k]
  <2>1. \A k \in i + 1 .. Len(s) : s[k] \in S
    BY <1>1
  <2>2. /\ b \in Seq(S)
        /\ Len(b) = IF i + 1 <= Len(s) THEN Len(s) - (i + 1) + 1 ELSE 0
        /\ \A k \in 1 .. Len(s) - (i + 1) + 1 : b[k] = s[i + 1 + k - 1]
    BY <1>1, <2>1, SubSeqProperties
  <2>3. \A k \in 1 .. Len(s) - i : i + 1 + k - 1 = i + k /\ k \in 1 .. Len(s) - (i + 1) + 1
    BY <1>1
  <2>4. (IF i + 1 <= Len(s) THEN Len(s) - (i + 1) + 1 ELSE 0) = Len(s) - i
    BY <1>1
  <2> HIDE DEF b
  <2> QED
    BY <2>2, <2>3, <2>4
<1>4. RemoveAt(s, i) = a \o b
  BY DEF RemoveAt
<1> HIDE DEF a, b
<1>5. /\ a \o b \in Seq(S) /\ Len(a \o b) = Len(a) + Len(b)
      /\ \A k \in 1 .. Len(a) + Len(b) :
            (a \o b)[k] = IF k <= Len(a) THEN a[k] ELSE b[k - Len(a)]
  BY <1>2, <1>3, ConcatProperties
<1>6. Len(a) + Len(b) = Len(s) - 1 /\ Len(a) = i - 1
  BY <1>1, <1>2, <1>3
<1>7. ASSUME NEW k \in 1 .. Len(s) - 1
      PROVE  (a \o b)[k] = IF k < i THEN s[k] ELSE s[k + 1]
  <2>1. CASE k < i
    <3>1. k \in 1 .. i - 1 /\ k <= i - 1
      BY <1>1, <2>1
    <3> QED
      BY <1>2, <1>5, <1>6, <2>1, <3>1
  <2>2. CASE ~(k < i)
    <3>1. k - (i - 1) \in 1 .. Len(s) - i /\ i + (k - (i - 1)) = k + 1 /\ ~(k <= i - 1)
      BY <1>1, <2>2
    <3>2. b[k - (i - 1)] = s[k + 1]
      BY <1>3, <3>1
    <3> QED
      BY <1>5, <1>6, <2>2, <3>1, <3>2
  <2> QED
    BY <2>1, <2>2
<1> QED
  BY <1>1, <1>4, <1>5, <1>6, <1>7

(* What is done at an end is one of the two.                               *)
LEMMA AtTheEnds ==
    ASSUME NEW S, NEW s \in Seq(S), NEW n \in S
    PROVE  /\ <<n>> \o s = InsertAt(s, 0 + 1, n)
           /\ Append(s, n) = InsertAt(s, Len(s) + 1, n)
           /\ s # <<>> => /\ Len(s) \in 1 .. Len(s) /\ 1 \in 1 .. Len(s)
                          /\ Tail(s) = RemoveAt(s, 1)
                          /\ Front(s) = RemoveAt(s, Len(s))
<1>1. Len(s) \in Nat /\ \A k \in 1 .. Len(s) : s[k] \in S
  BY LenProperties, ElementOfSeq
<1>2. <<n>> \o s = InsertAt(s, 0 + 1, n)
  <2> DEFINE t == InsertAt(s, 0 + 1, n)
  <2>1. /\ t \in Seq(S) /\ Len(t) = Len(s) + 1
        /\ \A k \in 1 .. Len(s) + 1 :
              t[k] = IF k <= 0 THEN s[k] ELSE IF k = 0 + 1 THEN n ELSE s[k - 1]
    BY <1>1, Inserted
  <2>2. <<n>> \in Seq(S) /\ Len(<<n>>) = 1 /\ <<n>>[1] = n
    OBVIOUS
  <2>3. /\ <<n>> \o s \in Seq(S) /\ Len(<<n>> \o s) = 1 + Len(s)
        /\ \A k \in 1 .. 1 + Len(s) : (<<n>> \o s)[k] = IF k <= 1 THEN <<n>>[k] ELSE s[k - 1]
    BY <2>2, ConcatProperties
  <2> HIDE DEF t
  <2>4. \A k \in 1 .. 1 + Len(s) : (<<n>> \o s)[k] = t[k]
    BY <1>1, <2>1, <2>2, <2>3
  <2> QED
    BY <1>1, <2>1, <2>3, <2>4, SeqEqual DEF t
<1>3. Append(s, n) = InsertAt(s, Len(s) + 1, n)
  <2> DEFINE t == InsertAt(s, Len(s) + 1, n)
  <2>0. ASSUME NEW i \in 0 .. Len(s), i = Len(s)
        PROVE  /\ InsertAt(s, i + 1, n) \in Seq(S) /\ Len(InsertAt(s, i + 1, n)) = Len(s) + 1
               /\ \A k \in 1 .. Len(s) + 1 : InsertAt(s, i + 1, n)[k] =
                     IF k <= i THEN s[k] ELSE IF k = i + 1 THEN n ELSE s[k - 1]
    BY Inserted
  <2>1. /\ t \in Seq(S) /\ Len(t) = Len(s) + 1
        /\ \A k \in 1 .. Len(s) + 1 :
              t[k] = IF k <= Len(s) THEN s[k] ELSE IF k = Len(s) + 1 THEN n ELSE s[k - 1]
    <3>1. Len(s) \in 0 .. Len(s)
      BY <1>1
    <3> QED
      BY <2>0, <3>1
  <2>2. /\ Append(s, n) \in Seq(S) /\ Len(Append(s, n)) = Len(s) + 1
        /\ \A k \in 1 .. Len(s) : Append(s, n)[k] = s[k]
        /\ Append(s, n)[Len(s) + 1] = n
    BY AppendProperties
  <2> HIDE DEF t
  <2>3. \A k \in 1 .. Len(s) + 1 : Append(s, n)[k] = t[k]
    BY <1>1, <2>1, <2>2
  <2> QED
    BY <2>1, <2>2, <2>3, SeqEqual DEF t
<1>4. ASSUME s # <<>>
      PROVE  /\ Len(s) \in 1 .. Len(s) /\ 1 \in 1 .. Len(s)
             /\ Tail(s) = RemoveAt(s, 1) /\ Front(s) = RemoveAt(s, Len(s))
  <2>1. Len(s) \in Nat \ {0} /\ 1 \in 1 .. Len(s) /\ Len(s) \in 1 .. Len(s) /\ Len(s) - 1 \in Nat
    BY <1>1, <1>4, EmptySeq
  <2>2. Tail(s) = RemoveAt(s, 1)
    <3> DEFINE t == RemoveAt(s, 1)
    <3>1. /\ t \in Seq(S) /\ Len(t) = Len(s) - 1
          /\ \A k \in 1 .. Len(s) - 1 : t[k] = IF k < 1 THEN s[k] ELSE s[k + 1]
      BY <2>1, Removed
    <3>2. /\ Tail(s) \in Seq(S) /\ Len(Tail(s)) = Len(s) - 1
          /\ \A k \in 1 .. Len(s) - 1 : Tail(s)[k] = s[k + 1]
      BY <1>4, HeadTailProperties
    <3> HIDE DEF t
    <3>3. \A k \in 1 .. Len(s) - 1 : Tail(s)[k] = t[k]
      BY <2>1, <3>1, <3>2
    <3> QED
      BY <3>1, <3>2, <3>3, SeqEqual DEF t
  <2>3. Front(s) = RemoveAt(s, Len(s))
    <3> DEFINE t == RemoveAt(s, Len(s))
    <3>1. /\ t \in Seq(S) /\ Len(t) = Len(s) - 1
          /\ \A k \in 1 .. Len(s) - 1 : t[k] = IF k < Len(s) THEN s[k] ELSE s[k + 1]
      BY <2>1, Removed
    <3>2. \A k \in 1 .. Len(s) - 1 : s[k] \in S
      BY <1>1
    <3> DEFINE f == SubSeq(s, 1, Len(s) - 1)
    <3>3. /\ f \in Seq(S)
          /\ Len(f) = IF 1 <= Len(s) - 1 THEN (Len(s) - 1) - 1 + 1 ELSE 0
          /\ \A k \in 1 .. (Len(s) - 1) - 1 + 1 : f[k] = s[1 + k - 1]
      BY <2>1, <3>2, SubSeqProperties
    <3>0. Front(s) = f
      BY DEF Front
    <3> HIDE DEF t, f
    <3>4. (Len(s) - 1) - 1 + 1 = Len(s) - 1 /\ Len(f) = Len(s) - 1
      <4>1. \A m \in Nat : m - 1 + 1 = m /\ (IF 1 <= m THEN m - 1 + 1 ELSE 0) = m
        OBVIOUS
      <4>2. (Len(s) - 1) - 1 + 1 = Len(s) - 1 /\ (IF 1 <= Len(s) - 1 THEN (Len(s) - 1) - 1 + 1 ELSE 0) = Len(s) - 1
        BY <2>1, <4>1
      <4>3. Len(f) = IF 1 <= Len(s) - 1 THEN (Len(s) - 1) - 1 + 1 ELSE 0
        BY <3>3
      <4> QED
        BY <4>2, <4>3, Zenon
    <3>5. \A k \in 1 .. Len(s) - 1 : f[k] = t[k]
      <4>1. \A k \in 1 .. Len(s) - 1 : 1 + k - 1 = k /\ k < Len(s)
        BY <2>1
      <4> QED
        BY <3>1, <3>3, <3>4, <4>1
    <3> QED
      BY <3>0, <3>1, <3>3, <3>4, <3>5, SeqEqual DEF t
  <2> QED
    BY <2>1, <2>2, <2>3
<1> QED
  BY <1>2, <1>3, <1>4

(* Both leave every element where it is once only.                         *)
LEMMA InsertedOnce ==
    ASSUME NEW S, NEW s \in Seq(S), IsInjective(s), NEW i \in 0 .. Len(s), NEW n \in S, n \notin ToSet(s)
    PROVE  IsInjective(InsertAt(s, i + 1, n))
<1> DEFINE t == InsertAt(s, i + 1, n)
<1>1. /\ t \in Seq(S) /\ Len(s) \in Nat /\ Len(t) = Len(s) + 1 /\ DOMAIN t = 1 .. Len(s) + 1
      /\ \A k \in 1 .. Len(s) + 1 : t[k] = IF k <= i THEN s[k] ELSE IF k = i + 1 THEN n ELSE s[k - 1]
  BY Inserted, LenProperties
<1>2. DOMAIN s = 1 .. Len(s)
  BY LenProperties
<1>3. \A k \in 1 .. Len(s) : s[k] # n
  BY <1>2 DEF ToSet
<1>4. \A k, l \in 1 .. Len(s) : s[k] = s[l] => k = l
  BY <1>2 DEF IsInjective
<1> HIDE DEF t
<1>5. ASSUME NEW k \in 1 .. Len(s) + 1, NEW l \in 1 .. Len(s) + 1, t[k] = t[l] PROVE k = l
  <2>1. i \in Nat
    OBVIOUS
  <2>2. \A x \in 1 .. Len(s) + 1 :
           /\ x <= i => x \in 1 .. Len(s) /\ t[x] = s[x]
           /\ x = i + 1 => t[x] = n
           /\ ~(x <= i) /\ x # i + 1 => x - 1 \in 1 .. Len(s) /\ t[x] = s[x - 1]
    BY <1>1, <2>1
  <2>3. CASE k <= i /\ l <= i
    BY <1>4, <1>5, <2>2, <2>3
  <2>4. CASE k = i + 1 \/ l = i + 1
    BY <1>3, <1>5, <2>2, <2>4
  <2>5. CASE k <= i /\ ~(l <= i) /\ l # i + 1
    <3>1. k = l - 1
      BY <1>4, <1>5, <2>2, <2>5
    <3> QED
      BY <2>1, <2>5, <3>1
  <2>6. CASE l <= i /\ ~(k <= i) /\ k # i + 1
    <3>1. l = k - 1
      BY <1>4, <1>5, <2>2, <2>6
    <3> QED
      BY <2>1, <2>6, <3>1
  <2>7. CASE ~(k <= i) /\ k # i + 1 /\ ~(l <= i) /\ l # i + 1
    <3>1. k - 1 = l - 1
      BY <1>4, <1>5, <2>2, <2>7
    <3> QED
      BY <3>1
  <2> QED
    BY <2>3, <2>4, <2>5, <2>6, <2>7
<1> QED
  BY <1>1, <1>5 DEF t, IsInjective

(* And a removal too.                                                      *)
LEMMA RemovedOnce ==
    ASSUME NEW S, NEW s \in Seq(S), IsInjective(s), NEW i \in 1 .. Len(s)
    PROVE  IsInjective(RemoveAt(s, i))
<1> DEFINE t == RemoveAt(s, i)
<1>1. /\ t \in Seq(S) /\ Len(s) \in Nat /\ Len(t) = Len(s) - 1 /\ DOMAIN t = 1 .. Len(s) - 1
      /\ \A k \in 1 .. Len(s) - 1 : t[k] = IF k < i THEN s[k] ELSE s[k + 1]
  BY Removed, LenProperties
<1>2. \A k, l \in 1 .. Len(s) : s[k] = s[l] => k = l
  BY LenProperties DEF IsInjective
<1> HIDE DEF t
<1>3. ASSUME NEW k \in 1 .. Len(s) - 1, NEW l \in 1 .. Len(s) - 1, t[k] = t[l] PROVE k = l
  <2>1. \A x \in 1 .. Len(s) - 1 :
           /\ x \in 1 .. Len(s) /\ x + 1 \in 1 .. Len(s)
           /\ x < i => t[x] = s[x]
           /\ ~(x < i) => t[x] = s[x + 1]
    BY <1>1
  <2>2. CASE k < i /\ l < i
    BY <1>2, <1>3, <2>1, <2>2
  <2>3. CASE k < i /\ ~(l < i)
    <3>1. k = l + 1
      BY <1>2, <1>3, <2>1, <2>3
    <3> QED
      BY <2>3, <3>1
  <2>4. CASE l < i /\ ~(k < i)
    <3>1. l = k + 1
      BY <1>2, <1>3, <2>1, <2>4
    <3> QED
      BY <2>4, <3>1
  <2>5. CASE ~(k < i) /\ ~(l < i)
    <3>1. k + 1 = l + 1
      BY <1>2, <1>3, <2>1, <2>5
    <3> QED
      BY <3>1
  <2> QED
    BY <2>2, <2>3, <2>4, <2>5
<1> QED
  BY <1>1, <1>3 DEF t, IsInjective

-----------------------------------------------------------------------------
(* Lengths.                                                                *)

(* As many as their last.                                                  *)
LEMMA UpTo == ASSUME NEW n \in Nat PROVE Cardinality(1 .. n) = n
<1>1. 1 \in Int /\ n \in Int /\ (IF 1 > n THEN 0 ELSE n - 1 + 1) = n
  OBVIOUS
<1> QED
  BY <1>1, FS_Interval

(* What is on a list once, and not all of a finite set, leaves room for    *)
(* one more where there are as many places as elements.                    *)
LEMMA RoomForOne ==
    ASSUME NEW S, IsFiniteSet(S), NEW s \in Seq(S), IsInjective(s), NEW x \in S, x \notin ToSet(s)
    PROVE  Len(s) < Cardinality(S)
<1>1. Len(s) \in Nat /\ DOMAIN s = 1 .. Len(s) /\ s \in [1 .. Len(s) -> S]
  BY LenProperties, SeqDef
<1>2. s \in [1 .. Len(s) -> S \ {x}]
  BY <1>1 DEF ToSet
<1>3. s \in Injection(1 .. Len(s), S \ {x})
  BY <1>1, <1>2 DEF Injection, IsInjective
<1>4. /\ IsFiniteSet(S \ {x}) /\ Cardinality(S) \in Nat
      /\ Cardinality(S \ {x}) = Cardinality(S) - 1
  BY FS_RemoveElement, FS_CardinalityType
<1>5. Cardinality(1 .. Len(s)) <= Cardinality(S \ {x})
  BY <1>3, <1>4, FS_Injection
<1>6. Cardinality(1 .. Len(s)) = Len(s)
  BY <1>1, UpTo
<1> QED
  BY <1>1, <1>4, <1>5, <1>6

-----------------------------------------------------------------------------
(* Induction over the numbers, for a set of them.                          *)
LEMMA NaturalsInductive ==
    ASSUME NEW S \in SUBSET Nat, 0 \in S, \A n \in S : n + 1 \in S
    PROVE  S = Nat
<1> SUFFICES ASSUME Nat \ S # {} PROVE FALSE
  OBVIOUS
<1> DEFINE R == OpToRel(<, Nat)
<1>1. IsWellFoundedOn(R, Nat)
  BY NatLessThanWellFounded, Zenon
<1>2. \A i, j \in Nat : i < j => <<i, j>> \in R
  BY DEF OpToRel
<1> HIDE DEF R
<1>3. PICK x \in Nat \ S : \A y \in Nat \ S : <<y, x>> \notin R
  BY <1>1, WFMin
<1>4. \A y \in Nat \ S : ~(y < x)
  BY <1>2, <1>3
<1>5. x # 0 /\ x - 1 \in Nat /\ x - 1 < x /\ (x - 1) + 1 = x
  BY <1>3
<1>6. x - 1 \in S
  BY <1>4, <1>5
<1> QED
  BY <1>3, <1>5, <1>6

=============================================================================

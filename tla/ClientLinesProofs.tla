------------------------- MODULE ClientLinesProofs -------------------------
(***************************************************************************)
(* The two accounts ClientSession has of the lines of a stream agree: what *)
(* the FrameReader (FrameReader::next of src/src/main.rs) cuts out of it   *)
(* byte by byte are the frames of its lines, in order, for every stream,   *)
(* every limit and every way the stream grows.                             *)
(***************************************************************************)
EXTENDS ClientSessionProofs, FiniteSetTheorems, SequenceTheorems

(* How many lines have ended by place i, what of the next one lies before  *)
(* it, and what a FrameReader keeps of that.                               *)
Rank(b, i)    == Cardinality({n \in Newlines(b) : n <= i})
Partial(b, i) == SubSeq(b, EndOf(b, Rank(b, i)) + 1, i)
Cut(piece, max) ==
  IF Len(piece) > max THEN [frame |-> SubSeq(piece, 1, max), discarding |-> TRUE]
                      ELSE [frame |-> piece, discarding |-> FALSE]

(* After i bytes of a stream a reader r has given n frames: those of the   *)
(* lines that have ended, and at the end of the stream the last piece's.   *)
Tracks(b, ended, i, r, n, max) ==
  \/ n = Rank(b, i) /\ r = Cut(Partial(b, i), max)
  \/ ended /\ i = Len(b) /\ Partial(b, i) # <<>> /\ n = Rank(b, i) + 1 /\ r = NewReader

-----------------------------------------------------------------------------
(* Counting newlines.                                                      *)

LEMMA LeastNumber ==
  ASSUME NEW S, S \subseteq Nat, S # {}
  PROVE  \E x \in S : \A y \in S : x <= y
<1> DEFINE R == OpToRel(<, Nat)
<1>1. PICK x \in S : \A y \in S : ~ (<<y, x>> \in R)
  BY NatLessThanWellFounded, WFMin
<1>2. \A y \in S : ~ (y < x)
  BY <1>1 DEF OpToRel
<1> QED
  BY <1>2

LEMMA NewlinesFinite ==
  ASSUME NEW b \in Seq(Bytes)
  PROVE  /\ Newlines(b) \subseteq 1 .. Len(b) /\ Newlines(b) \subseteq Nat \ {0}
         /\ Len(b) \in Nat /\ IsFiniteSet(Newlines(b)) /\ Cardinality(Newlines(b)) \in Nat
<1>1. Len(b) \in Nat /\ DOMAIN b = 1 .. Len(b)
  OBVIOUS
<1>2. Newlines(b) \subseteq 1 .. Len(b)
  BY <1>1 DEF Newlines
<1>3. Newlines(b) \subseteq Nat \ {0}
  BY <1>1, <1>2
<1>4. IsFiniteSet(Newlines(b))
  <2>1. IsFiniteSet(1 .. Len(b))
    BY <1>1, FS_Interval
  <2> QED
    BY <1>2, <2>1, FS_Subset
<1> QED
  BY <1>1, <1>2, <1>3, <1>4, FS_CardinalityType

LEMMA RankType ==
  ASSUME NEW b \in Seq(Bytes), NEW i \in Nat
  PROVE  /\ IsFiniteSet({n \in Newlines(b) : n <= i})
         /\ Rank(b, i) \in Nat /\ Rank(b, i) <= Cardinality(Newlines(b))
<1> DEFINE S == {n \in Newlines(b) : n <= i}
<1>1. S \in SUBSET Newlines(b)
  OBVIOUS
<1>2. IsFiniteSet(Newlines(b))
  BY NewlinesFinite
<1> HIDE DEF S
<1>3. IsFiniteSet(S) /\ Cardinality(S) <= Cardinality(Newlines(b)) /\ Cardinality(S) \in Nat
  BY <1>1, <1>2, FS_Subset, FS_CardinalityType
<1> QED
  BY <1>3 DEF Rank, S

LEMMA RankIn ==
  ASSUME NEW b \in Seq(Bytes), NEW i \in 0 .. Len(b)
  PROVE  i \in Nat /\ Rank(b, i) \in 0 .. Cardinality(Newlines(b)) /\ Rank(b, i) \in Nat
<1>1. i \in Nat /\ Cardinality(Newlines(b)) \in Nat
  BY NewlinesFinite
<1>2. Rank(b, i) \in Nat /\ Rank(b, i) <= Cardinality(Newlines(b))
  BY <1>1, RankType
<1> QED
  BY <1>1, <1>2

LEMMA RankStep ==
  ASSUME NEW b \in Seq(Bytes), NEW i \in Nat
  PROVE  Rank(b, i + 1) = IF i + 1 \in Newlines(b) THEN Rank(b, i) + 1 ELSE Rank(b, i)
<1> DEFINE S == {n \in Newlines(b) : n <= i}
           T == {n \in Newlines(b) : n <= i + 1}
<1>1. Newlines(b) \subseteq Nat /\ IsFiniteSet(S)
  BY NewlinesFinite, RankType
<1>2. CASE i + 1 \in Newlines(b)
  <2>1. T = S \cup {i + 1} /\ i + 1 \notin S
    BY <1>1, <1>2
  <2> HIDE DEF S, T
  <2>2. Cardinality(T) = Cardinality(S) + 1
    BY <1>1, <2>1, FS_AddElement
  <2> QED
    BY <1>2, <2>2 DEF Rank, S, T
<1>3. CASE i + 1 \notin Newlines(b)
  <2>1. T = S
    BY <1>1, <1>3
  <2> QED
    BY <1>3, <2>1 DEF Rank
<1> QED
  BY <1>2, <1>3

LEMMA RankMono ==
  ASSUME NEW b \in Seq(Bytes), NEW i \in Nat, NEW j \in Nat, i <= j
  PROVE  Rank(b, i) <= Rank(b, j)
<1> DEFINE S == {n \in Newlines(b) : n <= i}
           T == {n \in Newlines(b) : n <= j}
<1>1. Newlines(b) \subseteq Nat /\ IsFiniteSet(T)
  BY NewlinesFinite, RankType
<1>2. S \in SUBSET T
  BY <1>1
<1> HIDE DEF S, T
<1>3. Cardinality(S) <= Cardinality(T)
  BY <1>1, <1>2, FS_Subset
<1> QED
  BY <1>3 DEF Rank, S, T

LEMMA RankEnds ==
  ASSUME NEW b \in Seq(Bytes)
  PROVE  Rank(b, 0) = 0 /\ Rank(b, Len(b)) = Cardinality(Newlines(b))
<1>1. Newlines(b) \subseteq 1 .. Len(b)
  BY NewlinesFinite
<1>2. {n \in Newlines(b) : n <= 0} = {}
  BY <1>1
<1>3. {n \in Newlines(b) : n <= Len(b)} = Newlines(b)
  BY <1>1
<1> QED
  BY <1>2, <1>3, FS_EmptySet DEF Rank

(* A newline counts itself.                                                *)
LEMMA RankStrict ==
  ASSUME NEW b \in Seq(Bytes), NEW i \in Nat, NEW j \in Newlines(b), i < j
  PROVE  Rank(b, i) < Rank(b, j)
<1>1. j \in Nat /\ j - 1 \in Nat /\ i <= j - 1 /\ (j - 1) + 1 = j
  <2>1. j \in Nat \ {0}
    BY NewlinesFinite
  <2> QED
    BY <2>1
<1>2. Rank(b, j) = Rank(b, j - 1) + 1
  BY <1>1, RankStep
<1>3. Rank(b, i) <= Rank(b, j - 1)
  BY <1>1, RankMono
<1>4. Rank(b, i) \in Nat /\ Rank(b, j - 1) \in Nat
  BY <1>1, RankType
<1> QED
  BY <1>2, <1>3, <1>4

(* The newline of rank k is the end of the k-th line.                      *)
LEMMA EndIs ==
  ASSUME NEW b \in Seq(Bytes), NEW e \in Newlines(b)
  PROVE  EndOf(b, Rank(b, e)) = e /\ Rank(b, e) # 0
<1> DEFINE k == Rank(b, e)
           f == CHOOSE n \in Newlines(b) : Rank(b, n) = k
<1>1. Newlines(b) \subseteq Nat \ {0} /\ \A n \in Newlines(b) : Rank(b, n) \in Nat
  BY NewlinesFinite, RankType
<1>2. k # 0
  <2>1. Rank(b, 0) < Rank(b, e)
    BY <1>1, RankStrict
  <2> QED
    BY <1>1, <2>1, RankEnds
<1>3. f \in Newlines(b) /\ Rank(b, f) = k
  OBVIOUS
<1>4. EndOf(b, k) = f
  BY <1>2 DEF EndOf, Rank
<1> HIDE DEF f
<1>5. f = e
  <2>1. f \in Nat /\ e \in Nat /\ k \in Nat
    BY <1>1, <1>3
  <2>2. ~(f < e)
    BY <1>3, <2>1, RankStrict
  <2>3. ~(e < f)
    BY <1>3, <2>1, RankStrict
  <2> QED
    BY <2>1, <2>2, <2>3
<1> QED
  BY <1>2, <1>4, <1>5

(* Every line that has ended has an end.                                   *)
LEMMA EndExists ==
  ASSUME NEW b \in Seq(Bytes), NEW k \in 1 .. Cardinality(Newlines(b))
  PROVE  EndOf(b, k) \in Newlines(b) /\ Rank(b, EndOf(b, k)) = k
<1> DEFINE S == {i \in 0 .. Len(b) : Rank(b, i) >= k}
<1>1. /\ \A i \in Nat : Rank(b, i) \in Nat
      /\ Rank(b, 0) = 0 /\ Rank(b, Len(b)) >= k /\ Len(b) \in Nat
  <2>1. \A i \in Nat : Rank(b, i) \in Nat
    BY RankType
  <2>2. Cardinality(Newlines(b)) \in Nat /\ Len(b) \in Nat
    BY NewlinesFinite
  <2> QED
    BY <2>1, <2>2, RankEnds
<1>2. S \subseteq Nat /\ S # {}
  <2>1. Len(b) \in S
    BY <1>1
  <2> QED
    BY <2>1
<1>3. PICK x \in S : \A y \in S : x <= y
  BY <1>2, LeastNumber
<1>4. x \in 1 .. Len(b) /\ Rank(b, x) >= k
  BY <1>1, <1>3
<1>5. Rank(b, x - 1) < k
  <2>1. x - 1 \in 0 .. Len(b) /\ x - 1 \notin S
    BY <1>3, <1>4
  <2> QED
    BY <2>1, <1>1
<1>6. Rank(b, x) = IF x \in Newlines(b) THEN Rank(b, x - 1) + 1 ELSE Rank(b, x - 1)
  <2>1. x - 1 \in Nat /\ (x - 1) + 1 = x
    BY <1>4
  <2> QED
    BY <2>1, RankStep
<1>7. x \in Newlines(b) /\ Rank(b, x) = k
  <2>1. Rank(b, x) \in Nat /\ Rank(b, x - 1) \in Nat
    <3>1. x \in Nat /\ x - 1 \in Nat
      BY <1>4
    <3> QED
      BY <1>1, <3>1
  <2> QED
    BY <2>1, <1>4, <1>5, <1>6
<1> QED
  BY <1>7, EndIs

LEMMA EndType ==
  ASSUME NEW b \in Seq(Bytes), NEW k \in 0 .. Cardinality(Newlines(b))
  PROVE  /\ EndOf(b, k) \in 0 .. Len(b) /\ Rank(b, EndOf(b, k)) = k
         /\ k # 0 => EndOf(b, k) \in Newlines(b)
<1>1. CASE k = 0
  <2>1. EndOf(b, k) = 0
    BY <1>1 DEF EndOf
  <2> QED
    BY <1>1, <2>1, RankEnds, NewlinesFinite
<1>2. CASE k # 0
  <2>1. k \in 1 .. Cardinality(Newlines(b))
    BY <1>2, NewlinesFinite
  <2>2. EndOf(b, k) \in Newlines(b) /\ Rank(b, EndOf(b, k)) = k
    BY <2>1, EndExists
  <2> QED
    BY <2>2, NewlinesFinite
<1> QED
  BY <1>1, <1>2

-----------------------------------------------------------------------------
(* The piece of a line that lies before a place.                           *)

LEMMA LastEnd ==
  ASSUME NEW b \in Seq(Bytes), NEW i \in 0 .. Len(b)
  PROVE  /\ EndOf(b, Rank(b, i)) \in 0 .. i
         /\ \A j \in EndOf(b, Rank(b, i)) + 1 .. i : b[j] # Newline
<1> DEFINE k == Rank(b, i)
           e == EndOf(b, k)
<1>1. i \in Nat /\ Len(b) \in Nat /\ k \in 0 .. Cardinality(Newlines(b))
  BY RankIn, NewlinesFinite
<1>2. e \in 0 .. Len(b) /\ Rank(b, e) = k /\ (k # 0 => e \in Newlines(b))
  BY <1>1, EndType
<1>3. k = 0 => e = 0
  BY DEF EndOf
<1>4. k \in Nat
  BY <1>1
<1> HIDE DEF e
<1>5. e <= i
  <2> SUFFICES ASSUME i < e PROVE FALSE
    BY <1>1, <1>2
  <2>1. e \in Newlines(b)
    BY <1>1, <1>2, <1>3
  <2>2. k < Rank(b, e)
    BY <1>1, <2>1, RankStrict
  <2> QED
    BY <1>2, <1>4, <2>2
<1>6. ASSUME NEW j \in e + 1 .. i, b[j] = Newline PROVE FALSE
  <2>1. j \in Nat /\ e \in Nat /\ e < j /\ j <= i /\ j \in 1 .. Len(b)
    BY <1>1, <1>2
  <2>2. j \in Newlines(b)
    BY <1>6, <2>1 DEF Newlines
  <2>3. Rank(b, e) < Rank(b, j) /\ Rank(b, j) <= k /\ Rank(b, j) \in Nat
    BY <1>1, <2>1, <2>2, RankStrict, RankMono, RankType
  <2> QED
    BY <1>2, <1>4, <2>3
<1> QED
  BY <1>1, <1>2, <1>5, <1>6 DEF e

LEMMA PartialType ==
  ASSUME NEW b \in Seq(Bytes), NEW i \in 0 .. Len(b)
  PROVE  /\ Partial(b, i) \in Seq(Bytes) /\ Len(Partial(b, i)) = i - EndOf(b, Rank(b, i))
         /\ \A j \in 1 .. Len(Partial(b, i)) :
              /\ Partial(b, i)[j] = b[EndOf(b, Rank(b, i)) + j]
              /\ Partial(b, i)[j] # Newline
<1> DEFINE e == EndOf(b, Rank(b, i))
<1>1. e \in 0 .. i /\ i \in Nat /\ \A j \in e + 1 .. i : b[j] # Newline
  BY LastEnd
<1> HIDE DEF e
<1>2. \A j \in e + 1 .. i : b[j] \in Bytes
  BY <1>1
<1>3. /\ SubSeq(b, e + 1, i) \in Seq(Bytes)
      /\ Len(SubSeq(b, e + 1, i)) = i - e
      /\ \A j \in 1 .. i - e : SubSeq(b, e + 1, i)[j] = b[e + j]
  <2>1. /\ SubSeq(b, e + 1, i) \in Seq(Bytes)
        /\ Len(SubSeq(b, e + 1, i)) = IF e + 1 <= i THEN i - (e + 1) + 1 ELSE 0
        /\ \A j \in 1 .. i - (e + 1) + 1 : SubSeq(b, e + 1, i)[j] = b[(e + 1) + j - 1]
    BY <1>1, <1>2, SubSeqProperties
  <2> QED
    BY <1>1, <2>1
<1>4. Partial(b, i) = SubSeq(b, e + 1, i)
  BY DEF Partial, e
<1>5. \A j \in 1 .. i - e : e + j \in e + 1 .. i
  BY <1>1
<1> QED
  BY <1>1, <1>3, <1>4, <1>5 DEF e

LEMMA PartialStep ==
  ASSUME NEW b \in Seq(Bytes), NEW i \in 0 .. Len(b), i < Len(b)
  PROVE  /\ b[i + 1] # Newline =>
              /\ Rank(b, i + 1) = Rank(b, i)
              /\ Partial(b, i + 1) = Append(Partial(b, i), b[i + 1])
         /\ b[i + 1] = Newline =>
              /\ Rank(b, i + 1) = Rank(b, i) + 1 /\ Partial(b, i + 1) = <<>>
              /\ EndOf(b, Rank(b, i + 1)) = i + 1
<1> DEFINE e == EndOf(b, Rank(b, i))
<1>1. i \in Nat /\ i + 1 \in 1 .. Len(b) /\ i + 1 \in 0 .. Len(b) /\ b[i + 1] \in Bytes
      /\ (i + 1 \in Newlines(b) <=> b[i + 1] = Newline)
  BY DEF Newlines
<1>2. e \in 0 .. i
  BY LastEnd
<1>3. CASE b[i + 1] # Newline
  <2>1. Rank(b, i + 1) = Rank(b, i)
    BY <1>1, <1>3, RankStep
  <2> DEFINE s == Partial(b, i)
             t == Partial(b, i + 1)
             c == b[i + 1]
  <2>2. /\ s \in Seq(Bytes) /\ Len(s) = i - e /\ \A j \in 1 .. Len(s) : s[j] = b[e + j]
    BY PartialType
  <2>3. /\ t \in Seq(Bytes) /\ Len(t) = (i + 1) - e /\ \A j \in 1 .. Len(t) : t[j] = b[e + j]
    BY <1>1, <2>1, PartialType
  <2> HIDE DEF s, t, c, e
  <2>4. Append(s, c) \in Seq(Bytes) /\ Len(Append(s, c)) = (i + 1) - e
    BY <1>1, <1>2, <2>2 DEF c
  <2>5. \A j \in 1 .. (i + 1) - e : t[j] = Append(s, c)[j]
    BY <1>1, <1>2, <2>2, <2>3 DEF c
  <2>6. t = Append(s, c)
    BY <2>3, <2>4, <2>5, SeqEqual
  <2> QED
    BY <1>3, <2>1, <2>6 DEF s, t, c
<1>4. CASE b[i + 1] = Newline
  <2>1. Rank(b, i + 1) = Rank(b, i) + 1
    BY <1>1, <1>4, RankStep
  <2>2. EndOf(b, Rank(b, i + 1)) = i + 1
    BY <1>1, <1>4, EndIs
  <2>3. Partial(b, i + 1) = <<>>
    <3>1. SubSeq(b, (i + 1) + 1, i + 1) = <<>>
      BY <1>1, SubSeqEmpty
    <3> QED
      BY <2>2, <3>1 DEF Partial
  <2> QED
    BY <1>4, <2>1, <2>2, <2>3
<1> QED
  BY <1>3, <1>4

-----------------------------------------------------------------------------
(* The lines of a stream.                                                  *)

Whole(b, k) == SubSeq(b, EndOf(b, k - 1) + 1, EndOf(b, k))

LEMMA WholeType ==
  ASSUME NEW b \in Seq(Bytes), NEW k \in 1 .. Cardinality(Newlines(b))
  PROVE  /\ EndOf(b, k) \in 1 .. Len(b) /\ EndOf(b, k - 1) \in 0 .. EndOf(b, k) - 1
         /\ Whole(b, k) \in Seq(Bytes)
         /\ Len(Whole(b, k)) = EndOf(b, k) - EndOf(b, k - 1)
         /\ \A j \in 1 .. Len(Whole(b, k)) : Whole(b, k)[j] = b[EndOf(b, k - 1) + j]
<1> DEFINE e == EndOf(b, k)
           d == EndOf(b, k - 1)
<1>1. k - 1 \in 0 .. Cardinality(Newlines(b)) /\ k \in 0 .. Cardinality(Newlines(b))
      /\ k # 0 /\ Len(b) \in Nat
  BY NewlinesFinite
<1>2. /\ e \in 0 .. Len(b) /\ Rank(b, e) = k /\ e \in Newlines(b)
      /\ d \in 0 .. Len(b) /\ Rank(b, d) = k - 1
  BY <1>1, EndType
<1>3. e # 0
  BY <1>2, NewlinesFinite
<1> HIDE DEF e, d
<1>4. d < e
  <2>1. e <= d => k <= k - 1
    BY <1>1, <1>2, RankMono
  <2> QED
    BY <1>1, <1>2, <2>1
<1>5. /\ SubSeq(b, d + 1, e) \in Seq(Bytes)
      /\ Len(SubSeq(b, d + 1, e)) = e - d
      /\ \A j \in 1 .. e - d : SubSeq(b, d + 1, e)[j] = b[d + j]
  <2>1. \A j \in d + 1 .. e : b[j] \in Bytes
    BY <1>1, <1>2
  <2>2. /\ SubSeq(b, d + 1, e) \in Seq(Bytes)
        /\ Len(SubSeq(b, d + 1, e)) = IF d + 1 <= e THEN e - (d + 1) + 1 ELSE 0
        /\ \A j \in 1 .. e - (d + 1) + 1 : SubSeq(b, d + 1, e)[j] = b[(d + 1) + j - 1]
    BY <1>1, <1>2, <2>1, SubSeqProperties
  <2> QED
    BY <1>1, <1>2, <1>4, <2>2
<1> QED
  BY <1>1, <1>2, <1>3, <1>4, <1>5 DEF Whole, e, d

(* The lines that have ended, and at the end of the stream the last piece. *)
LEMMA LinesAre ==
  ASSUME NEW b \in Seq(Bytes), NEW ended \in BOOLEAN
  PROVE  LET n == Cardinality(Newlines(b))
             m == IF ended /\ Partial(b, Len(b)) # <<>> THEN n + 1 ELSE n
         IN  /\ DOMAIN Lines(b, ended) = 1 .. m /\ Len(Lines(b, ended)) = m /\ m \in Nat
             /\ \A k \in 1 .. n : Lines(b, ended)[k] = Whole(b, k)
             /\ m = n + 1 => Lines(b, ended)[m] = Partial(b, Len(b))
             /\ \A k \in 1 .. m : Lines(b, ended)[k] \in Seq(Bytes)
<1> DEFINE n == Cardinality(Newlines(b))
           whole == [k \in 1 .. n |-> Whole(b, k)]
           rest == Partial(b, Len(b))
<1>1. n \in Nat /\ Len(b) \in 0 .. Len(b)
  BY NewlinesFinite
<1>2. Lines(b, ended) = IF ended /\ rest # <<>> THEN Append(whole, rest) ELSE whole
  <2>1. rest = SubSeq(b, EndOf(b, n) + 1, Len(b))
    BY RankEnds DEF Partial
  <2> QED
    BY <2>1 DEF Lines, Whole
<1>3. rest \in Seq(Bytes)
  BY <1>1, PartialType
<1>4. \A k \in 1 .. n : Whole(b, k) \in Seq(Bytes)
  BY WholeType
<1> HIDE DEF rest, n
<1>5. whole \in Seq(Seq(Bytes)) /\ Len(whole) = n /\ DOMAIN whole = 1 .. n
      /\ \A k \in 1 .. n : whole[k] = Whole(b, k)
  BY <1>1, <1>4
<1> HIDE DEF whole
<1>6. /\ Append(whole, rest) \in Seq(Seq(Bytes)) /\ Len(Append(whole, rest)) = n + 1
      /\ DOMAIN Append(whole, rest) = 1 .. n + 1
      /\ \A k \in 1 .. n : Append(whole, rest)[k] = Whole(b, k)
      /\ Append(whole, rest)[n + 1] = rest
  BY <1>1, <1>3, <1>5
<1>7. CASE ended /\ rest # <<>>
  <2>1. \A k \in 1 .. n + 1 : Append(whole, rest)[k] \in Seq(Bytes)
    BY <1>1, <1>6
  <2> QED
    BY <1>1, <1>2, <1>6, <1>7, <2>1 DEF rest, n
<1>8. CASE ~(ended /\ rest # <<>>)
  <2>1. n # n + 1
    BY <1>1
  <2> QED
    BY <1>1, <1>2, <1>4, <1>5, <1>8, <2>1 DEF rest, n
<1> QED
  BY <1>7, <1>8

(* The newline that comes next ends the next line.                         *)
LEMMA NextLine ==
  ASSUME NEW b \in Seq(Bytes), NEW ended \in BOOLEAN, NEW i \in 0 .. Len(b), i < Len(b),
         b[i + 1] = Newline
  PROVE  /\ Rank(b, i) + 1 \in 1 .. Cardinality(Newlines(b))
         /\ Lines(b, ended)[Rank(b, i) + 1] = Append(Partial(b, i), Newline)
<1> DEFINE k == Rank(b, i) + 1
           e == EndOf(b, Rank(b, i))
<1>1. i \in Nat /\ i + 1 \in Nat /\ i + 1 \in 1 .. Len(b) /\ Rank(b, i) \in Nat
  <2>1. i \in Nat /\ i + 1 \in Nat /\ i + 1 \in 1 .. Len(b)
    OBVIOUS
  <2>2. Rank(b, i) \in Nat
    BY RankIn
  <2> QED
    BY <2>1, <2>2
<1>2. Rank(b, i + 1) = k /\ EndOf(b, k) = i + 1
  BY PartialStep
<1>3. k \in 1 .. Cardinality(Newlines(b))
  <2>1. Rank(b, i + 1) <= Cardinality(Newlines(b)) /\ Cardinality(Newlines(b)) \in Nat
    BY <1>1, RankType, NewlinesFinite
  <2> QED
    BY <1>1, <1>2, <2>1
<1>4. Lines(b, ended)[k] = Whole(b, k)
  BY <1>3, LinesAre
<1>5. k - 1 = Rank(b, i)
  BY <1>1
<1> DEFINE s == Partial(b, i)
           t == Whole(b, k)
<1>6. e \in 0 .. i
  BY LastEnd
<1>7. s \in Seq(Bytes) /\ Len(s) = i - e /\ \A j \in 1 .. Len(s) : s[j] = b[e + j]
  BY PartialType
<1>8. t \in Seq(Bytes) /\ Len(t) = (i + 1) - e /\ \A j \in 1 .. Len(t) : t[j] = b[e + j]
  BY <1>2, <1>3, <1>5, WholeType
<1>9. Newline \in Bytes
  BY DEF Bytes
<1> HIDE DEF s, t, e, k
<1>10. Append(s, Newline) \in Seq(Bytes) /\ Len(Append(s, Newline)) = (i + 1) - e
  BY <1>1, <1>6, <1>7, <1>9
<1>11. \A j \in 1 .. (i + 1) - e : t[j] = Append(s, Newline)[j]
  BY <1>1, <1>6, <1>7, <1>8
<1>12. t = Append(s, Newline)
  BY <1>8, <1>10, <1>11, SeqEqual
<1> QED
  BY <1>3, <1>4, <1>12 DEF s, t, k

(* What has ended stays as it is when more is written.                     *)
LEMMA WholeStays ==
  ASSUME NEW b \in Seq(Bytes), NEW c \in Seq(Bytes), IsPrefixOf(b, c)
  PROVE  /\ Cardinality(Newlines(b)) <= Cardinality(Newlines(c))
         /\ \A i \in 0 .. Len(b) : Rank(c, i) = Rank(b, i)
         /\ \A k \in 0 .. Cardinality(Newlines(b)) : EndOf(c, k) = EndOf(b, k)
         /\ \A i \in 0 .. Len(b) : Partial(c, i) = Partial(b, i)
         /\ \A k \in 1 .. Cardinality(Newlines(b)) : Whole(c, k) = Whole(b, k)
<1>1. Len(b) \in Nat /\ Len(c) \in Nat /\ Len(b) <= Len(c)
      /\ \A i \in 1 .. Len(b) : c[i] = b[i]
  BY DEF IsPrefixOf
<1>2. ASSUME NEW i \in 0 .. Len(b) PROVE Rank(c, i) = Rank(b, i)
  <2>1. {n \in Newlines(c) : n <= i} = {n \in Newlines(b) : n <= i}
    BY <1>1 DEF Newlines
  <2> QED
    BY <2>1 DEF Rank
<1>3. Cardinality(Newlines(b)) <= Cardinality(Newlines(c)) /\ Cardinality(Newlines(b)) \in Nat
  <2>1. Rank(c, Len(b)) = Rank(b, Len(b))
    BY <1>1, <1>2
  <2>2. Rank(c, Len(b)) <= Cardinality(Newlines(c))
    BY <1>1, RankType
  <2> QED
    BY <2>1, <2>2, RankEnds, NewlinesFinite
<1>4. ASSUME NEW k \in 0 .. Cardinality(Newlines(b)) PROVE EndOf(c, k) = EndOf(b, k)
  <2>1. CASE k = 0
    BY <2>1 DEF EndOf
  <2>2. CASE k # 0
    <3> DEFINE e == EndOf(b, k)
    <3>1. e \in 0 .. Len(b) /\ Rank(b, e) = k /\ e \in Newlines(b)
      BY <2>2, EndType
    <3> HIDE DEF e
    <3>2. Rank(c, e) = k
      BY <1>2, <3>1
    <3>3. e \in Newlines(c)
      BY <1>1, <3>1 DEF Newlines
    <3> QED
      BY <3>2, <3>3, EndIs DEF e
  <2> QED
    BY <2>1, <2>2
<1>5. ASSUME NEW d \in Nat, NEW e \in 0 .. Len(b)
      PROVE  SubSeq(c, d + 1, e) = SubSeq(b, d + 1, e)
  <2>1. CASE e < d + 1
    <3>1. SubSeq(c, d + 1, e) = <<>> /\ SubSeq(b, d + 1, e) = <<>>
      BY <1>1, <2>1, SubSeqEmpty
    <3> QED
      BY <3>1
  <2>2. CASE d + 1 <= e
    <3> DEFINE s == SubSeq(b, d + 1, e)
               t == SubSeq(c, d + 1, e)
    <3>1. /\ \A i \in d + 1 .. e : b[i] \in Bytes /\ c[i] \in Bytes /\ c[i] = b[i]
          /\ e \in Int /\ d + 1 \in Int /\ \A j \in 1 .. e - (d + 1) + 1 : (d + 1) + j - 1 \in d + 1 .. e
      BY <1>1, <2>2
    <3>2. /\ s \in Seq(Bytes) /\ Len(s) = e - (d + 1) + 1
          /\ \A j \in 1 .. e - (d + 1) + 1 : s[j] = b[(d + 1) + j - 1]
      BY <2>2, <3>1, SubSeqProperties
    <3>3. /\ t \in Seq(Bytes) /\ Len(t) = e - (d + 1) + 1
          /\ \A j \in 1 .. e - (d + 1) + 1 : t[j] = c[(d + 1) + j - 1]
      BY <2>2, <3>1, SubSeqProperties
    <3> HIDE DEF s, t
    <3>4. \A j \in 1 .. Len(t) : t[j] = s[j]
      BY <3>1, <3>2, <3>3
    <3>5. t = s
      BY <3>2, <3>3, <3>4, SeqEqual
    <3> QED
      BY <3>5 DEF s, t
  <2> QED
    BY <1>1, <2>1, <2>2
<1>6. ASSUME NEW i \in 0 .. Len(b) PROVE Partial(c, i) = Partial(b, i)
  <2> DEFINE k == Rank(b, i)
  <2>2. k \in 0 .. Cardinality(Newlines(b))
    BY RankIn
  <2>3. EndOf(c, k) = EndOf(b, k) /\ EndOf(b, k) \in 0 .. Len(b) /\ Rank(c, i) = k
    BY <1>2, <1>4, <2>2, EndType
  <2> HIDE DEF k
  <2>4. EndOf(b, k) \in Nat
    BY <2>3
  <2> QED
    BY <1>5, <2>3, <2>4 DEF Partial, k
<1>7. ASSUME NEW k \in 1 .. Cardinality(Newlines(b)) PROVE Whole(c, k) = Whole(b, k)
  <2>1. k \in 0 .. Cardinality(Newlines(b)) /\ k - 1 \in 0 .. Cardinality(Newlines(b))
    BY <1>3
  <2>2. EndOf(c, k) = EndOf(b, k) /\ EndOf(c, k - 1) = EndOf(b, k - 1)
    BY <1>4, <2>1
  <2>3. EndOf(b, k) \in 0 .. Len(b) /\ EndOf(b, k - 1) \in 0 .. Len(b)
    BY <2>1, EndType
  <2>4. EndOf(b, k - 1) \in Nat
    BY <2>3
  <2> QED
    BY <1>5, <2>2, <2>3, <2>4 DEF Whole
<1> QED
  BY <1>2, <1>3, <1>4, <1>6, <1>7

(* The lines of a stream that goes on are the first lines of what it       *)
(* becomes, at its end too.                                                *)
LEMMA LinesStay ==
  ASSUME NEW b \in Seq(Bytes), NEW c \in Seq(Bytes), IsPrefixOf(b, c), NEW ended \in BOOLEAN
  PROVE  IsPrefixOf(Lines(b, FALSE), Lines(c, ended))
<1> DEFINE n == Cardinality(Newlines(b))
<1>1. /\ n \in Nat /\ Len(Lines(b, FALSE)) = n /\ DOMAIN Lines(b, FALSE) = 1 .. n
      /\ \A k \in 1 .. n : Lines(b, FALSE)[k] = Whole(b, k)
  BY LinesAre
<1>2. Cardinality(Newlines(c)) \in Nat /\ n <= Cardinality(Newlines(c))
      /\ \A k \in 1 .. n : Whole(c, k) = Whole(b, k)
  BY WholeStays, NewlinesFinite
<1>3. /\ Len(Lines(c, ended)) \in Nat /\ Len(Lines(c, ended)) >= Cardinality(Newlines(c))
      /\ \A k \in 1 .. Cardinality(Newlines(c)) : Lines(c, ended)[k] = Whole(c, k)
  BY <1>2, LinesAre
<1> HIDE DEF n
<1>4. \A k \in 1 .. n : k \in 1 .. Cardinality(Newlines(c))
  BY <1>1, <1>2
<1>5. n <= Len(Lines(c, ended))
  BY <1>1, <1>2, <1>3
<1>6. \A k \in 1 .. n : Lines(b, FALSE)[k] = Lines(c, ended)[k]
  BY <1>1, <1>2, <1>3, <1>4
<1> QED
  BY <1>1, <1>5, <1>6 DEF IsPrefixOf

-----------------------------------------------------------------------------
(* A FrameReader and the piece it has read of a line.                      *)

LEMMA CutType ==
  ASSUME NEW piece \in Seq(Bytes), NEW max \in Nat
  PROVE  /\ Cut(piece, max) \in Reader /\ Cut(piece, max).frame \in Seq(Bytes)
         /\ Len(Cut(piece, max).frame) = IF Len(piece) > max THEN max ELSE Len(piece)
         /\ Len(piece) > max =>
              /\ Cut(piece, max) = [frame |-> SubSeq(piece, 1, max), discarding |-> TRUE]
              /\ Cut(piece, max).frame = SubSeq(piece, 1, max) /\ Cut(piece, max).discarding
         /\ Len(piece) <= max =>
              /\ Cut(piece, max) = [frame |-> piece, discarding |-> FALSE]
              /\ Cut(piece, max).frame = piece /\ ~Cut(piece, max).discarding
<1>1. Len(piece) \in Nat
  OBVIOUS
<1>2. CASE Len(piece) > max
  <2>1. \A i \in 1 .. max : piece[i] \in Bytes
    BY <1>1, <1>2
  <2>2. /\ SubSeq(piece, 1, max) \in Seq(Bytes)
        /\ Len(SubSeq(piece, 1, max)) = IF 1 <= max THEN max - 1 + 1 ELSE 0
    BY <2>1, SubSeqProperties
  <2>3. Cut(piece, max) = [frame |-> SubSeq(piece, 1, max), discarding |-> TRUE]
    BY <1>2 DEF Cut
  <2> QED
    BY <1>1, <1>2, <2>2, <2>3 DEF Reader
<1>3. CASE ~(Len(piece) > max)
  <2>1. Cut(piece, max) = [frame |-> piece, discarding |-> FALSE]
    BY <1>3 DEF Cut
  <2> QED
    BY <1>1, <1>3, <2>1 DEF Reader
<1> QED
  BY <1>2, <1>3

LEMMA CutEmpty ==
  ASSUME NEW max \in Nat PROVE Cut(<<>>, max) = NewReader
<1>1. ~(Len(<<>>) > max)
  OBVIOUS
<1> QED
  BY <1>1 DEF Cut, NewReader

(* What is over the limit is the same whatever comes after it.             *)
LEMMA SameStart ==
  ASSUME NEW piece \in Seq(Bytes), NEW c \in Bytes, NEW max \in Nat, Len(piece) >= max
  PROVE  SubSeq(Append(piece, c), 1, max) = Cut(piece, max).frame
<1> DEFINE line == Append(piece, c)
           s == SubSeq(line, 1, max)
           t == Cut(piece, max).frame
<1>1. /\ line \in Seq(Bytes) /\ Len(line) = Len(piece) + 1 /\ Len(piece) \in Nat
      /\ \A i \in 1 .. Len(piece) : line[i] = piece[i]
  OBVIOUS
<1> HIDE DEF line
<1>2. /\ s \in Seq(Bytes) /\ Len(s) = max /\ \A i \in 1 .. max : s[i] = piece[i]
  <2>1. \A i \in 1 .. max : line[i] \in Bytes
    BY <1>1
  <2>2. /\ s \in Seq(Bytes) /\ Len(s) = (IF 1 <= max THEN max - 1 + 1 ELSE 0)
        /\ \A i \in 1 .. max - 1 + 1 : s[i] = line[1 + i - 1]
    BY <2>1, SubSeqProperties
  <2> QED
    BY <1>1, <2>2
<1>3. t \in Seq(Bytes) /\ Len(t) = max
  BY <1>1, CutType
<1>4. \A i \in 1 .. max : t[i] = piece[i]
  <2>1. CASE Len(piece) > max
    <3>1. t = SubSeq(piece, 1, max)
      BY <2>1, CutType
    <3>2. \A i \in 1 .. max : piece[i] \in Bytes
      BY <1>1
    <3>3. \A i \in 1 .. max - 1 + 1 : SubSeq(piece, 1, max)[i] = piece[1 + i - 1]
      BY <3>2, SubSeqProperties
    <3> QED
      BY <3>1, <3>3
  <2>2. CASE Len(piece) <= max
    BY <2>2, CutType
  <2> QED
    BY <1>1, <2>1, <2>2
<1> HIDE DEF s, t
<1>5. s = t
  BY <1>2, <1>3, <1>4, SeqEqual
<1> QED
  BY <1>5 DEF s, t, line

LEMMA ReaderExcept ==
  ASSUME NEW r \in Reader, NEW s \in Seq(Bytes)
  PROVE  /\ [r EXCEPT !.discarding = TRUE] = [frame |-> r.frame, discarding |-> TRUE]
         /\ [r EXCEPT !.frame = s] = [frame |-> s, discarding |-> r.discarding]
<1> DEFINE q == [r EXCEPT !.discarding = TRUE]
           t == [r EXCEPT !.frame = s]
<1>1. q \in Reader /\ q.frame = r.frame /\ q.discarding = TRUE
  BY DEF Reader
<1>2. t \in Reader /\ t.frame = s /\ t.discarding = r.discarding
  BY DEF Reader
<1> HIDE DEF q, t
<1>3. q = [frame |-> r.frame, discarding |-> TRUE]
  BY <1>1 DEF Reader
<1>4. t = [frame |-> s, discarding |-> r.discarding]
  BY <1>2 DEF Reader
<1> QED
  BY <1>3, <1>4 DEF q, t

(* A byte inside a line.                                                   *)
LEMMA TakeInside ==
  ASSUME NEW piece \in Seq(Bytes), NEW c \in Bytes, NEW max \in Nat, c # Newline
  PROVE  Take(Cut(piece, max), c, max) = Keep(Cut(Append(piece, c), max))
<1> DEFINE r == Cut(piece, max)
           line == Append(piece, c)
<1>1. /\ Len(piece) \in Nat /\ line \in Seq(Bytes) /\ Len(line) = Len(piece) + 1
  OBVIOUS
<1>2. CASE Len(piece) >= max
  <2>1. r.discarding \/ Len(r.frame) >= max
    BY <1>1, <1>2, CutType
  <2>2. Take(r, c, max) = Keep([r EXCEPT !.discarding = TRUE])
    BY <2>1 DEF Take
  <2>3. SubSeq(line, 1, max) = r.frame
    BY <1>2, SameStart
  <2>4. Cut(line, max) = [frame |-> SubSeq(line, 1, max), discarding |-> TRUE]
    <3>1. Len(line) > max
      BY <1>1, <1>2
    <3> QED
      BY <3>1 DEF Cut
  <2>5. [r EXCEPT !.discarding = TRUE] = [frame |-> r.frame, discarding |-> TRUE]
    BY CutType, ReaderExcept
  <2> QED
    BY <2>2, <2>3, <2>4, <2>5
<1>3. CASE Len(piece) < max
  <2>1. r = [frame |-> piece, discarding |-> FALSE]
    <3>1. ~(Len(piece) > max)
      BY <1>1, <1>3
    <3> QED
      BY <3>1 DEF Cut
  <2> HIDE DEF r
  <2>2. ~(r.discarding \/ Len(r.frame) >= max) /\ r.frame = piece
    BY <1>1, <1>3, <2>1
  <2>3. Take(r, c, max) = Keep([r EXCEPT !.frame = line])
    BY <2>2 DEF Take
  <2>4. [r EXCEPT !.frame = line] = [frame |-> line, discarding |-> FALSE]
    <3>1. r \in Reader
      BY CutType DEF r
    <3>2. r.discarding = FALSE
      BY <2>1
    <3> HIDE DEF line
    <3> QED
      BY <1>1, <3>1, <3>2, ReaderExcept
  <2>5. Cut(line, max) = [frame |-> line, discarding |-> FALSE]
    <3>1. ~(Len(line) > max)
      BY <1>1, <1>3
    <3> QED
      BY <3>1 DEF Cut
  <2> QED
    BY <2>3, <2>4, <2>5 DEF r
<1> QED
  BY <1>1, <1>2, <1>3

(* The newline: the frame is that of the line, and the reader is new.      *)
LEMMA TakeNewline ==
  ASSUME NEW piece \in Seq(Bytes), NEW max \in Nat
  PROVE  /\ Take(Cut(piece, max), Newline, max).reader = NewReader
         /\ Take(Cut(piece, max), Newline, max).frame = FrameOf(Append(piece, Newline), max)
<1> DEFINE r == Cut(piece, max)
           line == Append(piece, Newline)
<1>1. /\ Newline \in Bytes /\ Len(piece) \in Nat
      /\ line \in Seq(Bytes) /\ Len(line) = Len(piece) + 1 /\ line[Len(line)] = Newline
  BY DEF Bytes
<1>2. CASE Len(piece) >= max
  <2>1. r.discarding \/ Len(r.frame) >= max
    BY <1>1, <1>2, CutType
  <2>2. Take(r, Newline, max) = Yield("oversized", r.frame)
    BY <2>1 DEF Take
  <2>3. SubSeq(line, 1, max) = r.frame
    BY <1>1, <1>2, SameStart
  <2> HIDE DEF line, r
  <2>4. FrameOf(line, max) = [kind |-> "oversized", bytes |-> SubSeq(line, 1, max)]
    BY <1>1, <1>2 DEF FrameOf
  <2>5. /\ Take(r, Newline, max).reader = NewReader
        /\ Take(r, Newline, max).frame = FrameOf(line, max)
    BY <2>2, <2>3, <2>4 DEF Yield
  <2> QED
    BY <2>5 DEF r, line
<1>3. CASE Len(piece) < max
  <2>1. r.frame = piece /\ ~r.discarding
    <3>1. Len(piece) <= max
      BY <1>1, <1>3
    <3> QED
      BY <3>1, CutType
  <2> DEFINE kind == IF IsUtf8(line) THEN "complete" ELSE "invalid"
  <2>2. Take(r, Newline, max) = Yield(kind, line)
    BY <1>1, <1>3, <2>1 DEF Take
  <2> HIDE DEF line, r
  <2>3. FrameOf(line, max) = [kind |-> kind, bytes |-> line]
    BY <1>1, <1>3 DEF FrameOf
  <2>4. /\ Take(r, Newline, max).reader = NewReader
        /\ Take(r, Newline, max).frame = FrameOf(line, max)
    BY <2>2, <2>3 DEF Yield
  <2> QED
    BY <2>4 DEF r, line
<1> QED
  BY <1>1, <1>2, <1>3

(* The end of the stream: the frame of the last piece, or the end.         *)
LEMMA AtEndCut ==
  ASSUME NEW piece \in Seq(Bytes), NEW max \in Nat,
         \A i \in 1 .. Len(piece) : piece[i] # Newline
  PROVE  /\ AtEnd(Cut(piece, max)).reader = NewReader
         /\ piece = <<>> => AtEnd(Cut(piece, max)).frame.kind = "end"
         /\ piece # <<>> => AtEnd(Cut(piece, max)).frame = FrameOf(piece, max)
<1> DEFINE r == Cut(piece, max)
<1>1. Len(piece) \in Nat /\ (piece = <<>> <=> Len(piece) = 0)
  OBVIOUS
<1>2. AtEnd(r).reader = NewReader
  BY DEF AtEnd, Yield
<1>3. CASE Len(piece) > max
  <2>1. r.discarding /\ r.frame = SubSeq(piece, 1, max)
    BY <1>3, CutType
  <2>2. AtEnd(r).frame = [kind |-> "oversized", bytes |-> SubSeq(piece, 1, max)]
    BY <2>1 DEF AtEnd, Yield
  <2>3. FrameOf(piece, max) = [kind |-> "oversized", bytes |-> SubSeq(piece, 1, max)]
    BY <1>3 DEF FrameOf
  <2> QED
    BY <1>1, <1>2, <1>3, <2>2, <2>3
<1>4. CASE ~(Len(piece) > max)
  <2>1. ~r.discarding /\ r.frame = piece
    <3>1. Len(piece) <= max
      BY <1>1, <1>4
    <3> QED
      BY <3>1, CutType
  <2> HIDE DEF r
  <2>2. CASE piece = <<>>
    BY <1>2, <2>1, <2>2 DEF AtEnd, Yield, r
  <2>3. CASE piece # <<>>
    <3> DEFINE kind == IF IsUtf8(piece) THEN "incomplete" ELSE "cutoff"
    <3>1. AtEnd(r).frame = [kind |-> kind, bytes |-> piece]
      BY <2>1, <2>3 DEF AtEnd, Yield
    <3>2. piece[Len(piece)] # Newline
      BY <1>1, <2>3
    <3>3. FrameOf(piece, max) = [kind |-> kind, bytes |-> piece]
      BY <1>4, <3>2 DEF FrameOf
    <3> QED
      BY <1>2, <2>3, <3>1, <3>3 DEF r
  <2> QED
    BY <2>2, <2>3
<1> QED
  BY <1>3, <1>4

-----------------------------------------------------------------------------
(* A FrameReader on a stream.                                              *)

LEMMA FrameOfType ==
  ASSUME NEW line \in Seq(Bytes), NEW max \in Nat
  PROVE  FrameOf(line, max) \in Frame /\ FrameOf(line, max) # None
<1>1. (IF Len(line) > max THEN SubSeq(line, 1, max) ELSE line) \in Seq(Bytes)
  <2>1. Len(line) > max => SubSeq(line, 1, max) \in Seq(Bytes)
    BY CutType
  <2> QED
    BY <2>1
<1>2. FrameOf(line, max).kind \in FrameKinds
  BY DEF FrameOf, FrameKinds
<1>3. FrameOf(line, max) \in Frame
  BY <1>1, <1>2 DEF FrameOf, Frame, FrameKinds
<1> QED
  BY <1>3, NoneIsNoCode

(* Before it reads, a reader has the first place of the stream.            *)
LEMMA TracksStart ==
  ASSUME NEW b \in Seq(Bytes), NEW ended \in BOOLEAN, NEW max \in Nat
  PROVE  Tracks(b, ended, 0, NewReader, 0, max)
<1>1. Rank(b, 0) = 0 /\ EndOf(b, 0) = 0
  BY RankEnds DEF EndOf
<1>2. Partial(b, 0) = <<>>
  <2>1. SubSeq(b, 0 + 1, 0) = <<>>
    BY SubSeqEmpty
  <2> QED
    BY <1>1, <2>1 DEF Partial
<1> QED
  BY <1>1, <1>2, CutEmpty DEF Tracks

(* What next makes of the next byte: the frame of the next line, whole, if *)
(* the byte ends it, and nothing otherwise.                                *)
THEOREM TracksTake ==
  ASSUME NEW b \in Seq(Bytes), NEW ended \in BOOLEAN, NEW max \in Nat,
         NEW i \in 0 .. Len(b), i < Len(b), NEW r, NEW n, Tracks(b, ended, i, r, n, max)
  PROVE  LET next == Take(r, b[i + 1], max)
         IN  /\ next.frame = None => Tracks(b, ended, i + 1, next.reader, n, max)
             /\ next.frame # None =>
                  /\ Tracks(b, ended, i + 1, next.reader, n + 1, max)
                  /\ n + 1 = Rank(b, i + 1) /\ Partial(b, i + 1) = <<>>
                  /\ n + 1 \in 1 .. Cardinality(Newlines(b))
                  /\ next.frame = FrameOf(Lines(b, ended)[n + 1], max)
                  /\ next.frame.kind \in {"oversized", "complete", "invalid"}
<1> DEFINE piece == Partial(b, i)
           c == b[i + 1]
           next == Take(r, c, max)
<1>1. n = Rank(b, i) /\ r = Cut(piece, max)
  BY DEF Tracks
<1>2. piece \in Seq(Bytes) /\ c \in Bytes
  <2>1. piece \in Seq(Bytes)
    BY PartialType
  <2> QED
    BY <2>1
<1>3. CASE c # Newline
  <2>1. Rank(b, i + 1) = n /\ Partial(b, i + 1) = Append(piece, c)
    BY <1>1, <1>3, PartialStep
  <2> HIDE DEF piece, c
  <2>2. Take(Cut(piece, max), c, max) = Keep(Cut(Append(piece, c), max))
    BY <1>2, <1>3, TakeInside
  <2>3. next.frame = None /\ next.reader = Cut(Append(piece, c), max)
    BY <1>1, <2>2 DEF Keep
  <2> QED
    BY <2>1, <2>3 DEF Tracks, c
<1>4. CASE c = Newline
  <2>1. Rank(b, i + 1) = n + 1 /\ Partial(b, i + 1) = <<>>
    BY <1>1, <1>4, PartialStep
  <2>2. n + 1 \in 1 .. Cardinality(Newlines(b)) /\ Lines(b, ended)[n + 1] = Append(piece, Newline)
    BY <1>1, <1>4, NextLine
  <2> HIDE DEF piece
  <2>3. next.reader = NewReader /\ next.frame = FrameOf(Append(piece, Newline), max)
    BY <1>1, <1>2, <1>4, TakeNewline
  <2>4. /\ FrameOf(Append(piece, Newline), max) # None
        /\ FrameOf(Append(piece, Newline), max).kind \in {"oversized", "complete", "invalid"}
    <3> DEFINE line == Append(piece, Newline)
    <3>1. line \in Seq(Bytes) /\ line[Len(line)] = Newline
      BY <1>2 DEF Bytes
    <3> HIDE DEF line
    <3>2. FrameOf(line, max).kind \in {"oversized", "complete", "invalid"}
      BY <3>1 DEF FrameOf
    <3> QED
      BY <3>1, <3>2, FrameOfType DEF line
  <2>5. Tracks(b, ended, i + 1, NewReader, n + 1, max)
    BY <2>1, CutEmpty DEF Tracks
  <2> HIDE DEF next
  <2> QED
    BY <2>1, <2>2, <2>3, <2>4, <2>5 DEF next, c
<1> QED
  BY <1>3, <1>4

(* What next makes of the end of the stream: the frame of the last piece,  *)
(* once, or the end.                                                       *)
THEOREM TracksEnd ==
  ASSUME NEW b \in Seq(Bytes), NEW max \in Nat, NEW r, NEW n,
         Tracks(b, TRUE, Len(b), r, n, max)
  PROVE  LET next == AtEnd(r)
         IN  /\ next.frame.kind = "end" => n = Len(Lines(b, TRUE))
             /\ next.frame.kind # "end" =>
                  /\ Tracks(b, TRUE, Len(b), next.reader, n + 1, max)
                  /\ n + 1 = Len(Lines(b, TRUE)) /\ n + 1 \in DOMAIN Lines(b, TRUE)
                  /\ next.frame = FrameOf(Lines(b, TRUE)[n + 1], max)
<1> DEFINE piece == Partial(b, Len(b))
           k == Cardinality(Newlines(b))
           next == AtEnd(r)
<1>1. Len(b) \in 0 .. Len(b) /\ k \in Nat /\ Rank(b, Len(b)) = k
  BY NewlinesFinite, RankEnds
<1>2. piece \in Seq(Bytes) /\ \A j \in 1 .. Len(piece) : piece[j] # Newline
  BY <1>1, PartialType
<1>3. /\ piece = <<>> => Len(Lines(b, TRUE)) = k
      /\ piece # <<>> => /\ Len(Lines(b, TRUE)) = k + 1 /\ DOMAIN Lines(b, TRUE) = 1 .. k + 1
                         /\ Lines(b, TRUE)[k + 1] = piece
  BY LinesAre
<1> HIDE DEF piece, k
<1>4. \/ n = k /\ r = Cut(piece, max)
      \/ piece # <<>> /\ n = k + 1 /\ r = NewReader
  BY <1>1 DEF Tracks, piece
<1>5. CASE n = k /\ r = Cut(piece, max)
  <2>1. next.reader = NewReader
    BY DEF AtEnd, Yield
  <2>2. CASE piece = <<>>
    <3>1. next.frame.kind = "end"
      BY <1>2, <1>5, <2>2, AtEndCut
    <3> QED
      BY <1>3, <1>5, <2>2, <3>1
  <2>3. CASE piece # <<>>
    <3>1. next.frame = FrameOf(piece, max)
      BY <1>2, <1>5, <2>3, AtEndCut
    <3>2. next.frame.kind # "end"
      BY <3>1 DEF FrameOf
    <3>3. k + 1 \in 1 .. k + 1
      BY <1>1
    <3>4. Tracks(b, TRUE, Len(b), NewReader, k + 1, max)
      BY <1>1, <2>3 DEF Tracks, piece
    <3> HIDE DEF next
    <3> QED
      BY <1>3, <1>5, <2>1, <2>3, <3>1, <3>2, <3>3, <3>4 DEF next
  <2> QED
    BY <2>2, <2>3
<1>6. CASE piece # <<>> /\ n = k + 1 /\ r = NewReader
  <2>1. next.frame.kind = "end"
    BY <1>6 DEF AtEnd, Yield, NewReader
  <2> QED
    BY <1>3, <1>6, <2>1
<1> QED
  BY <1>4, <1>5, <1>6

LEMMA TracksGrow ==
  ASSUME NEW b \in Seq(Bytes), NEW c \in Seq(Bytes), IsPrefixOf(b, c), NEW ended \in BOOLEAN,
         NEW i \in 0 .. Len(b), NEW r, NEW n, NEW max \in Nat, Tracks(b, FALSE, i, r, n, max)
  PROVE  Tracks(c, ended, i, r, n, max)
<1>1. n = Rank(b, i) /\ r = Cut(Partial(b, i), max)
  BY DEF Tracks
<1>2. Rank(c, i) = Rank(b, i) /\ Partial(c, i) = Partial(b, i)
  BY WholeStays
<1> QED
  BY <1>1, <1>2 DEF Tracks

-----------------------------------------------------------------------------
(* Prefixes, frames and answers.                                           *)

LEMMA PrefixTransitive ==
  ASSUME NEW S, NEW s \in Seq(S), NEW t \in Seq(S), NEW u \in Seq(S),
         IsPrefixOf(s, t), IsPrefixOf(t, u)
  PROVE  IsPrefixOf(s, u)
<1>1. Len(s) \in Nat /\ Len(t) \in Nat /\ Len(u) \in Nat
      /\ DOMAIN s = 1 .. Len(s) /\ DOMAIN t = 1 .. Len(t)
  OBVIOUS
<1>2. /\ Len(s) <= Len(t) /\ \A i \in 1 .. Len(s) : s[i] = t[i]
      /\ Len(t) <= Len(u) /\ \A i \in 1 .. Len(t) : t[i] = u[i]
  BY <1>1 DEF IsPrefixOf
<1>3. \A i \in 1 .. Len(s) : i \in 1 .. Len(t)
  BY <1>1, <1>2
<1> QED
  BY <1>1, <1>2, <1>3 DEF IsPrefixOf

LEMMA PrefixRefl ==
  ASSUME NEW S, NEW s \in Seq(S) PROVE IsPrefixOf(s, s)
  BY DEF IsPrefixOf

LEMMA PrefixEmpty ==
  ASSUME NEW S, NEW t \in Seq(S) PROVE IsPrefixOf(<<>>, t)
  BY DEF IsPrefixOf

LEMMA PrefixGrows ==
  ASSUME NEW S, NEW s \in Seq(S), NEW t \in Seq(S), IsPrefixOf(s, t), Len(s) < Len(t)
  PROVE  IsPrefixOf(Append(s, t[Len(s) + 1]), t)
<1> DEFINE x == t[Len(s) + 1]
           u == Append(s, x)
<1>1. Len(s) \in Nat /\ Len(t) \in Nat /\ \A i \in 1 .. Len(s) : s[i] = t[i]
  BY DEF IsPrefixOf
<1>2. x \in S
  BY <1>1
<1>3. Len(u) = Len(s) + 1 /\ DOMAIN u = 1 .. Len(s) + 1
      /\ \A i \in 1 .. Len(s) : u[i] = s[i]
  BY <1>2
<1>e. u[Len(s) + 1] = t[Len(s) + 1]
  BY <1>1, <1>2
<1> HIDE DEF u, x
<1>4. ASSUME NEW i \in 1 .. Len(s) + 1 PROVE u[i] = t[i]
  <2>1. CASE i = Len(s) + 1
    <3>1. i = Len(s) + 1
      BY <2>1
    <3> QED
      BY ONLY <1>e, <3>1
  <2>2. CASE i # Len(s) + 1
    <3>1. i \in 1 .. Len(s)
      BY <1>1, <2>2
    <3> QED
      BY <1>1, <1>3, <3>1
  <2> QED
    BY <2>1, <2>2
<1>5. Len(u) <= Len(t)
  BY <1>1, <1>3
<1>6. IsPrefixOf(u, t)
  BY <1>3, <1>4, <1>5 DEF IsPrefixOf
<1> QED
  BY <1>6 DEF u, x

LEMMA ConcatGrows ==
  ASSUME NEW S, NEW s \in Seq(S), NEW t \in Seq(S)
  PROVE  s \o t \in Seq(S) /\ IsPrefixOf(s, s \o t)
  BY DEF IsPrefixOf

LEMMA AppendGrows ==
  ASSUME NEW S, NEW s \in Seq(S), NEW x \in S
  PROVE  Append(s, x) \in Seq(S) /\ IsPrefixOf(s, Append(s, x))
  BY DEF IsPrefixOf

LEMMA FramesType ==
  ASSUME NEW b \in Seq(Bytes), NEW ended \in BOOLEAN, NEW max \in Nat
  PROVE  /\ FramesAt(b, ended, max) \in Seq(Frame)
         /\ Len(FramesAt(b, ended, max)) = Len(Lines(b, ended))
         /\ DOMAIN FramesAt(b, ended, max) = DOMAIN Lines(b, ended)
         /\ DOMAIN Lines(b, ended) = 1 .. Len(Lines(b, ended))
         /\ Len(Lines(b, ended)) \in Nat
         /\ \A k \in DOMAIN Lines(b, ended) :
              /\ FramesAt(b, ended, max)[k] = FrameOf(Lines(b, ended)[k], max)
              /\ Lines(b, ended)[k] \in Seq(Bytes)
<1> DEFINE lines == Lines(b, ended)
           m == Len(lines)
           f == [k \in DOMAIN lines |-> FrameOf(lines[k], max)]
<1>1. m \in Nat /\ DOMAIN lines = 1 .. m /\ \A k \in 1 .. m : lines[k] \in Seq(Bytes)
  BY LinesAre
<1>2. FramesAt(b, ended, max) = f
  BY DEF FramesAt
<1> HIDE DEF lines, m
<1>3. \A k \in 1 .. m : FrameOf(lines[k], max) \in Frame
  BY <1>1, FrameOfType
<1>4. f \in Seq(Frame) /\ Len(f) = m
  BY <1>1, <1>3
<1> QED
  BY <1>1, <1>2, <1>4 DEF lines, m

(* A stream that goes on keeps the frames it has.                          *)
LEMMA FramesStay ==
  ASSUME NEW b \in Seq(Bytes), NEW c \in Seq(Bytes), IsPrefixOf(b, c), NEW ended \in BOOLEAN,
         NEW max \in Nat
  PROVE  IsPrefixOf(FramesAt(b, FALSE, max), FramesAt(c, ended, max))
<1> DEFINE f == FramesAt(b, FALSE, max)
           g == FramesAt(c, ended, max)
           s == Lines(b, FALSE)
           t == Lines(c, ended)
<1>1. /\ f \in Seq(Frame) /\ Len(f) = Len(s) /\ DOMAIN f = DOMAIN s
      /\ \A k \in DOMAIN s : f[k] = FrameOf(s[k], max)
  BY FramesType
<1>2. /\ g \in Seq(Frame) /\ Len(g) = Len(t) /\ DOMAIN t = 1 .. Len(t) /\ Len(t) \in Nat
      /\ \A k \in DOMAIN t : g[k] = FrameOf(t[k], max)
  BY FramesType
<1>3. IsPrefixOf(s, t) /\ DOMAIN s = 1 .. Len(s) /\ Len(s) \in Nat
  BY LinesStay, FramesType
<1> HIDE DEF f, g, s, t
<1>4. Len(s) <= Len(t) /\ \A k \in DOMAIN s : s[k] = t[k] /\ k \in DOMAIN t
  BY <1>2, <1>3 DEF IsPrefixOf
<1>5. IsPrefixOf(f, g)
  BY <1>1, <1>2, <1>4 DEF IsPrefixOf
<1> QED
  BY <1>5 DEF f, g

(* The session is open once a handshake was complete.                      *)
Opens(frames, n) ==
  \E j \in 1 .. n : Respond(frames[j], FALSE).kind = "handshake.response"

LEMMA AnswersType ==
  ASSUME NEW frames \in Seq(Frame)
  PROVE  /\ AnswersTo(frames) \in Seq(Answer) /\ Len(AnswersTo(frames)) = Len(frames)
         /\ \A k \in DOMAIN frames :
              AnswersTo(frames)[k] = Respond(frames[k], Opens(frames, k - 1))
<1> DEFINE m == Len(frames)
           a == [k \in DOMAIN frames |-> Respond(frames[k], Opens(frames, k - 1))]
<1>1. m \in Nat /\ DOMAIN frames = 1 .. m /\ \A k \in 1 .. m : frames[k] \in Frame
  OBVIOUS
<1>2. AnswersTo(frames) = a
  BY DEF AnswersTo, Opens
<1>3. \A k \in 1 .. m : Opens(frames, k - 1) \in BOOLEAN
  BY DEF Opens
<1>4. \A k \in 1 .. m : Respond(frames[k], Opens(frames, k - 1)) \in Answer
  BY <1>1, <1>3, RespondType
<1> HIDE DEF m
<1>5. a \in Seq(Answer) /\ Len(a) = m
  BY <1>1, <1>4
<1> QED
  BY <1>2, <1>5 DEF m

LEMMA OpensNext ==
  ASSUME NEW frames, NEW n \in Nat
  PROVE  Opens(frames, n + 1) <=>
           Opens(frames, n) \/ Respond(frames[n + 1], FALSE).kind = "handshake.response"
<1>1. 1 .. n + 1 = 1 .. n \cup {n + 1}
  OBVIOUS
<1> QED
  BY <1>1 DEF Opens

LEMMA OpensStays ==
  ASSUME NEW f \in Seq(Frame), NEW g \in Seq(Frame), IsPrefixOf(f, g), NEW n \in 0 .. Len(f)
  PROVE  Opens(f, n) <=> Opens(g, n)
<1>1. \A j \in 1 .. n : f[j] = g[j]
  BY DEF IsPrefixOf
<1> QED
  BY <1>1 DEF Opens

LEMMA AnswersStay ==
  ASSUME NEW f \in Seq(Frame), NEW g \in Seq(Frame), IsPrefixOf(f, g)
  PROVE  IsPrefixOf(AnswersTo(f), AnswersTo(g))
<1>1. /\ Len(f) \in Nat /\ Len(g) \in Nat /\ Len(f) <= Len(g)
      /\ DOMAIN f = 1 .. Len(f) /\ DOMAIN g = 1 .. Len(g)
      /\ \A k \in 1 .. Len(f) : f[k] = g[k] /\ k \in 1 .. Len(g) /\ k - 1 \in 0 .. Len(f)
  BY DEF IsPrefixOf
<1>2. \A k \in 1 .. Len(f) : AnswersTo(f)[k] = Respond(f[k], Opens(f, k - 1))
  BY <1>1, AnswersType
<1>3. \A k \in 1 .. Len(f) : AnswersTo(g)[k] = Respond(g[k], Opens(g, k - 1))
  BY <1>1, AnswersType
<1>4. ASSUME NEW k \in 1 .. Len(f) PROVE Opens(f, k - 1) = Opens(g, k - 1)
  <2>1. Opens(f, k - 1) <=> Opens(g, k - 1)
    BY <1>1, OpensStays
  <2> QED
    BY <2>1 DEF Opens
<1>5. \A k \in 1 .. Len(f) : AnswersTo(f)[k] = AnswersTo(g)[k]
  BY <1>1, <1>2, <1>3, <1>4
<1>6. /\ AnswersTo(f) \in Seq(Answer) /\ AnswersTo(g) \in Seq(Answer)
      /\ Len(AnswersTo(f)) = Len(f) /\ Len(AnswersTo(g)) = Len(g)
  BY AnswersType
<1>7. DOMAIN AnswersTo(f) = 1 .. Len(f) /\ Len(AnswersTo(f)) <= Len(AnswersTo(g))
  BY <1>1, <1>6
<1> QED
  BY <1>5, <1>7 DEF IsPrefixOf

-----------------------------------------------------------------------------
(* A stream that goes on by a line.                                        *)

(* No line is empty.                                                       *)
LEMMA LinesFilled ==
  ASSUME NEW b \in Seq(Bytes), NEW ended \in BOOLEAN, NEW k \in DOMAIN Lines(b, ended)
  PROVE  Lines(b, ended)[k] \in Seq(Bytes) /\ Lines(b, ended)[k] # <<>>
<1> DEFINE n == Cardinality(Newlines(b))
           m == IF ended /\ Partial(b, Len(b)) # <<>> THEN n + 1 ELSE n
<1>1. /\ DOMAIN Lines(b, ended) = 1 .. m /\ \A j \in 1 .. n : Lines(b, ended)[j] = Whole(b, j)
      /\ m = n + 1 => Lines(b, ended)[m] = Partial(b, Len(b))
      /\ \A j \in 1 .. m : Lines(b, ended)[j] \in Seq(Bytes)
  BY LinesAre
<1>2. n \in Nat /\ k \in 1 .. m /\ m \in {n, n + 1}
      /\ (m = n + 1 => Partial(b, Len(b)) # <<>>)
  BY <1>1, NewlinesFinite
<1>3. CASE k \in 1 .. n
  <2>1. Len(Whole(b, k)) = EndOf(b, k) - EndOf(b, k - 1) /\ EndOf(b, k) \in 1 .. Len(b)
        /\ EndOf(b, k - 1) \in 0 .. EndOf(b, k) - 1
    BY <1>3, WholeType
  <2>2. Len(b) \in Nat
    BY NewlinesFinite
  <2>3. Len(Whole(b, k)) # 0
    BY <2>1, <2>2
  <2>4. Whole(b, k) # <<>>
    BY <2>3
  <2> QED
    BY <1>1, <1>2, <1>3, <2>4
<1> HIDE DEF m, n
<1>4. CASE k \notin 1 .. n
  <2>1. k = n + 1 /\ m = n + 1
    BY <1>2, <1>4
  <2> QED
    BY <1>1, <1>2, <2>1
<1> QED
  BY <1>3, <1>4

(* A line whose frame is complete ends with its only newline.              *)
LEMMA CompleteLine ==
  ASSUME NEW b \in Seq(Bytes), NEW ended \in BOOLEAN, NEW k \in DOMAIN Lines(b, ended),
         NEW max \in Nat, FrameOf(Lines(b, ended)[k], max).kind = "complete"
  PROVE  /\ FrameOf(Lines(b, ended)[k], max).bytes = Lines(b, ended)[k]
         /\ \E piece \in Seq(Bytes) :
              /\ Lines(b, ended)[k] = Append(piece, Newline)
              /\ \A j \in 1 .. Len(piece) : piece[j] # Newline
<1> DEFINE n == Cardinality(Newlines(b))
           m == IF ended /\ Partial(b, Len(b)) # <<>> THEN n + 1 ELSE n
           line == Lines(b, ended)[k]
<1>1. /\ DOMAIN Lines(b, ended) = 1 .. m /\ \A j \in 1 .. n : Lines(b, ended)[j] = Whole(b, j)
      /\ m = n + 1 => Lines(b, ended)[m] = Partial(b, Len(b))
  BY LinesAre
<1>2. n \in Nat /\ Len(b) \in Nat /\ k \in 1 .. m /\ m \in {n, n + 1}
  BY <1>1, NewlinesFinite
<1>3. line \in Seq(Bytes) /\ line # <<>> /\ Len(line) \in Nat
  BY LinesFilled
<1> HIDE DEF m, n
<1>4. ~(Len(line) > max) /\ line[Len(line)] = Newline
  BY DEF FrameOf
<1>5. CASE k \in 1 .. n
  <2> DEFINE e == EndOf(b, k)
             i == e - 1
  <2>1. e \in Newlines(b) /\ Rank(b, e) = k /\ e \in 1 .. Len(b)
    BY <1>5, EndExists, WholeType DEF n
  <2>2. b[e] = Newline
    BY <2>1 DEF Newlines
  <2> HIDE DEF e
  <2>3. i \in 0 .. Len(b) /\ i < Len(b) /\ i + 1 = e
    BY <1>2, <2>1
  <2> HIDE DEF i
  <2>4. Rank(b, e) = Rank(b, i) + 1
    BY <2>2, <2>3, PartialStep
  <2>5. line = Append(Partial(b, i), Newline)
    <3>1. Lines(b, ended)[Rank(b, i) + 1] = Append(Partial(b, i), Newline)
      BY <2>2, <2>3, NextLine
    <3> QED
      BY <2>1, <2>4, <3>1
  <2>6. Partial(b, i) \in Seq(Bytes) /\ \A j \in 1 .. Len(Partial(b, i)) : Partial(b, i)[j] # Newline
    BY <2>3, PartialType
  <2> QED
    BY <1>4, <2>5, <2>6 DEF FrameOf
<1>6. CASE k \notin 1 .. n
  <2>1. k = n + 1 /\ m = n + 1
    BY <1>2, <1>6
  <2>2. line = Partial(b, Len(b))
    BY <1>1, <2>1
  <2>3. Len(b) \in 0 .. Len(b)
    BY <1>2
  <2>4. \A j \in 1 .. Len(line) : line[j] # Newline
    BY <2>2, <2>3, PartialType
  <2>5. Len(line) \in 1 .. Len(line)
    BY <1>3
  <2> QED
    BY <1>4, <2>4, <2>5
<1> QED
  BY <1>5, <1>6

LEMMA ConcatParts ==
  ASSUME NEW S, NEW s \in Seq(S), NEW t \in Seq(S)
  PROVE  /\ s \o t \in Seq(S) /\ Len(s \o t) = Len(s) + Len(t)
         /\ \A i \in 1 .. Len(s) : (s \o t)[i] = s[i]
         /\ \A i \in Len(s) + 1 .. Len(s) + Len(t) : (s \o t)[i] = t[i - Len(s)]
<1>1. Len(s) \in Nat /\ Len(t) \in Nat
  OBVIOUS
<1>2. /\ \A i \in 1 .. Len(s) : i \in 1 .. Len(s) + Len(t) /\ i <= Len(s)
      /\ \A i \in Len(s) + 1 .. Len(s) + Len(t) :
           i \in 1 .. Len(s) + Len(t) /\ ~(i <= Len(s))
  BY <1>1
<1> QED
  BY <1>2, ConcatProperties

Regroups(s, t, u) == (s \o t) \o u = s \o (t \o u)

LEMMA RegroupBytes ==
  ASSUME NEW s \in Seq(Bytes), NEW t \in Seq(Bytes), NEW u \in Seq(Bytes)
  PROVE  Regroups(s, t, u)
<1>1. (s \o t) \o u = s \o (t \o u)
  BY ConcatAssociative
<1> QED
  BY <1>1 DEF Regroups

LEMMA ConcatAppend ==
  ASSUME NEW s \in Seq(Bytes), NEW t \in Seq(Bytes)
  PROVE  s \o Append(t, Newline) = Append(s \o t, Newline)
<1>1. Newline \in Bytes
  BY DEF Bytes
<1> QED
  BY <1>1

LEMMA SplitAt ==
  ASSUME NEW s \in Seq(Bytes), NEW n \in 1 .. Len(s)
  PROVE  /\ SubSeq(s, n + 1, Len(s)) \in Seq(Bytes)
         /\ Len(SubSeq(s, n + 1, Len(s))) = Len(s) - n
         /\ SubSeq(s, 1, n) \o SubSeq(s, n + 1, Len(s)) = s
  OBVIOUS

LEMMA FrontType ==
  ASSUME NEW S, NEW s \in Seq(S), NEW n \in 0 .. Len(s)
  PROVE  /\ SubSeq(s, 1, n) \in Seq(S) /\ Len(SubSeq(s, 1, n)) = n
         /\ \A j \in 1 .. n : SubSeq(s, 1, n)[j] = s[j]
  OBVIOUS

LEMMA BackType ==
  ASSUME NEW S, NEW s \in Seq(S), NEW n \in 0 .. Len(s)
  PROVE  /\ SubSeq(s, n + 1, Len(s)) \in Seq(S) /\ Len(SubSeq(s, n + 1, Len(s))) = Len(s) - n
         /\ \A j \in 1 .. Len(s) - n : SubSeq(s, n + 1, Len(s))[j] = s[n + j]
<1> DEFINE m == Len(s)
           back == SubSeq(s, n + 1, m)
<1>1. m \in Nat /\ n \in 0 .. m
  OBVIOUS
<1>2. \A j \in n + 1 .. m : s[j] \in S
  <2>1. \A j \in n + 1 .. m : j \in 1 .. m
    BY <1>1
  <2> QED
    BY <2>1
<1>3. back \in Seq(S)
  BY <1>2
<1>4. Len(back) = m - n
  BY <1>1
<1>5. \A j \in 1 .. m - n : back[j] = s[n + j]
  BY <1>1
<1> QED
  BY <1>3, <1>4, <1>5

(* A piece without a newline is added to the line that is not complete.    *)
LEMMA WriteInside ==
  ASSUME NEW b \in Seq(Bytes), NEW x \in Seq(Bytes), \A j \in 1 .. Len(x) : x[j] # Newline
  PROVE  LET c == b \o x
         IN  /\ c \in Seq(Bytes) /\ Rank(c, Len(c)) = Rank(b, Len(b))
             /\ Partial(c, Len(c)) = Partial(b, Len(b)) \o x
<1> DEFINE c == b \o x
           n == Rank(b, Len(b))
           e == EndOf(b, n)
<1>1. c \in Seq(Bytes) /\ IsPrefixOf(b, c) /\ Len(c) = Len(b) + Len(x)
      /\ Len(b) \in Nat /\ Len(x) \in Nat /\ Len(c) \in Nat
  BY ConcatGrows
<1>2. /\ \A i \in 1 .. Len(b) : c[i] = b[i]
      /\ \A i \in Len(b) + 1 .. Len(b) + Len(x) : c[i] = x[i - Len(b)]
      /\ DOMAIN c = 1 .. Len(b) + Len(x) /\ DOMAIN b = 1 .. Len(b)
  OBVIOUS
<1> HIDE DEF c
<1>3. Newlines(c) = Newlines(b)
  <2>1. ASSUME NEW i \in Len(b) + 1 .. Len(b) + Len(x) PROVE c[i] # Newline
    <3>1. i - Len(b) \in 1 .. Len(x)
      BY <1>1
    <3> QED
      BY <1>2, <3>1
  <2>2. \A i \in 1 .. Len(b) + Len(x) : i \in 1 .. Len(b) \/ i \in Len(b) + 1 .. Len(b) + Len(x)
    BY <1>1
  <2>3. \A i \in 1 .. Len(b) : i \in 1 .. Len(b) + Len(x)
    BY <1>1
  <2> QED
    BY <1>2, <2>1, <2>2, <2>3 DEF Newlines
<1>4. Rank(c, Len(c)) = n /\ n = Cardinality(Newlines(b)) /\ n \in Nat
  BY <1>1, <1>3, RankEnds, NewlinesFinite
<1>5. EndOf(c, n) = e
  <2>1. n \in 0 .. Cardinality(Newlines(b))
    BY <1>4
  <2> QED
    BY <1>1, <2>1, WholeStays
<1>6. e \in 0 .. Len(b)
  <2>1. Len(b) \in 0 .. Len(b)
    BY <1>1
  <2> QED
    BY <2>1, LastEnd
<1>7. Partial(b, Len(b)) = SubSeq(b, e + 1, Len(b)) /\ Partial(c, Len(c)) = SubSeq(c, e + 1, Len(c))
  BY <1>4, <1>5 DEF Partial
<1> HIDE DEF e, n
<1>8. SubSeq(c, e + 1, Len(c)) = SubSeq(b, e + 1, Len(b)) \o x
  <2> DEFINE p == SubSeq(b, e + 1, Len(b))
             q == SubSeq(c, e + 1, Len(c))
             u == p \o x
  <2>1. p \in Seq(Bytes) /\ Len(p) = Len(b) - e /\ \A i \in 1 .. Len(b) - e : p[i] = b[e + i]
    BY <1>6, BackType
  <2>2. q \in Seq(Bytes) /\ Len(q) = Len(b) + Len(x) - e
        /\ \A i \in 1 .. Len(b) + Len(x) - e : q[i] = c[e + i]
    <3>1. e \in 0 .. Len(c) /\ Len(c) = Len(b) + Len(x) /\ c \in Seq(Bytes)
      BY <1>1, <1>6
    <3>2. q \in Seq(Bytes) /\ Len(q) = Len(c) - e /\ \A i \in 1 .. Len(c) - e : q[i] = c[e + i]
      BY <3>1, BackType
    <3> QED
      BY <3>1, <3>2
  <2> HIDE DEF p, q
  <2>3. /\ u \in Seq(Bytes) /\ Len(u) = Len(p) + Len(x)
        /\ \A i \in 1 .. Len(p) : u[i] = p[i]
        /\ \A i \in Len(p) + 1 .. Len(p) + Len(x) : u[i] = x[i - Len(p)]
    BY <2>1, ConcatParts
  <2> HIDE DEF u
  <2>4. Len(q) = Len(u)
    BY <1>1, <1>6, <2>1, <2>2, <2>3
  <2>5. ASSUME NEW i \in 1 .. Len(q) PROVE q[i] = u[i]
    <3>1. q[i] = c[e + i]
      BY <2>2
    <3>2. CASE i <= Len(p)
      <4>1. i \in 1 .. Len(p) /\ i \in 1 .. Len(b) - e /\ e + i \in 1 .. Len(b)
        BY <1>1, <1>6, <2>1, <2>2, <3>2
      <4> QED
        BY <1>2, <2>1, <2>3, <3>1, <4>1
    <3>3. CASE ~(i <= Len(p))
      <4> DEFINE k == e + i
      <4>1. /\ i \in Len(p) + 1 .. Len(p) + Len(x)
            /\ k \in Len(b) + 1 .. Len(b) + Len(x) /\ k - Len(b) = i - Len(p)
        BY <1>1, <1>6, <2>1, <2>2, <3>3
      <4>2. q[i] = c[k]
        BY <3>1
      <4> HIDE DEF k
      <4>3. c[k] = x[k - Len(b)]
        BY <1>2, <4>1
      <4>4. u[i] = x[i - Len(p)]
        BY <2>3, <4>1
      <4> QED
        BY ONLY <4>1, <4>2, <4>3, <4>4
    <3> QED
      BY <3>2, <3>3
  <2>6. q = u
    BY <2>2, <2>3, <2>4, <2>5, SeqEqual
  <2> QED
    BY <2>6 DEF p, q, u
<1> QED
  BY <1>1, <1>4, <1>7, <1>8 DEF c, n

(* A newline ends it.                                                      *)
LEMMA WriteNewline ==
  ASSUME NEW b \in Seq(Bytes), NEW ended \in BOOLEAN
  PROVE  LET c == Append(b, Newline)
         IN  /\ c \in Seq(Bytes) /\ Rank(c, Len(c)) = Rank(b, Len(b)) + 1
             /\ Partial(c, Len(c)) = <<>>
             /\ Lines(c, ended)[Rank(b, Len(b)) + 1] = Append(Partial(b, Len(b)), Newline)
<1> DEFINE c == Append(b, Newline)
           i == Len(b)
<1>1. Newline \in Bytes
  BY DEF Bytes
<1>2. c \in Seq(Bytes) /\ IsPrefixOf(b, c) /\ Len(c) = i + 1 /\ i \in Nat /\ c[i + 1] = Newline
  BY <1>1, AppendGrows
<1> HIDE DEF c
<1>3. i \in 0 .. Len(b) /\ i \in 0 .. Len(c) /\ i < Len(c)
  BY <1>2
<1>4. Rank(c, i) = Rank(b, i) /\ Partial(c, i) = Partial(b, i)
  BY <1>2, <1>3, WholeStays
<1>5. Rank(c, i + 1) = Rank(c, i) + 1 /\ Partial(c, i + 1) = <<>>
  BY <1>2, <1>3, PartialStep
<1>6. Lines(c, ended)[Rank(c, i) + 1] = Append(Partial(c, i), Newline)
  BY <1>2, <1>3, NextLine
<1> QED
  BY <1>2, <1>4, <1>5, <1>6 DEF c

(* A line with its only newline at its end, and what a write of n bytes of *)
(* s, the rest of it, makes of the stream b: the stream c, with t left.    *)
OneLine(line) ==
  \E piece \in Seq(Bytes) :
    line = Append(piece, Newline) /\ \A j \in 1 .. Len(piece) : piece[j] # Newline

Writes(line, b, s, n, c, t) ==
  /\ OneLine(line) /\ Partial(b, Len(b)) \o s = line
  /\ n \in 1 .. Len(s) /\ c = b \o SubSeq(s, 1, n) /\ t = SubSeq(s, n + 1, Len(s))

Written(line, b, c, t) ==
  /\ c \in Seq(Bytes) /\ IsPrefixOf(b, c)
  /\ t # <<>> => /\ Rank(c, Len(c)) = Rank(b, Len(b))
                 /\ Partial(c, Len(c)) \o t = line
  /\ t = <<>> => /\ Rank(c, Len(c)) = Rank(b, Len(b)) + 1
                 /\ Partial(c, Len(c)) = <<>>
                 /\ Lines(c, FALSE)[Rank(b, Len(b)) + 1] = line

(* A line is written in pieces of any length.                              *)
LEMMA WritePiece ==
  ASSUME NEW b \in Seq(Bytes), NEW s \in Seq(Bytes), NEW n, NEW whole, NEW c, NEW t,
         Writes(whole, b, s, n, c, t)
  PROVE  Written(whole, b, c, t) /\ (n = Len(s) <=> t = <<>>)
<1>0. PICK piece \in Seq(Bytes) :
        whole = Append(piece, Newline) /\ \A j \in 1 .. Len(piece) : piece[j] # Newline
  BY DEF Writes, OneLine
<1> DEFINE p == Partial(b, Len(b))
           line == Append(piece, Newline)
<1>1. p \in Seq(Bytes) /\ Len(p) \in Nat /\ Len(s) \in Nat /\ Len(piece) \in Nat
      /\ Newline \in Bytes
  <2>1. Len(b) \in 0 .. Len(b)
    BY NewlinesFinite
  <2>2. p \in Seq(Bytes)
    BY <2>1, PartialType
  <2> QED
    BY <2>2 DEF Bytes
<1>2. p \o s = line
  BY <1>0 DEF Writes
<1>n. n \in 1 .. Len(s)
  BY DEF Writes
<1> HIDE DEF p
<1>3. Len(p) + Len(s) = Len(piece) + 1
  <2>1. Len(p \o s) = Len(p) + Len(s)
    BY <1>1
  <2>2. Len(line) = Len(piece) + 1
    BY <1>1
  <2> QED
    BY <1>2, <2>1, <2>2
<1>4. \A j \in 1 .. Len(s) : s[j] = line[Len(p) + j]
  <2>1. \A j \in 1 .. Len(s) : (p \o s)[Len(p) + j] = s[j]
    BY <1>1
  <2> QED
    BY <1>2, <2>1
<1>5. \A j \in 1 .. Len(s) - 1 : s[j] # Newline
  <2> SUFFICES ASSUME NEW j \in 1 .. Len(s) - 1 PROVE s[j] # Newline
    OBVIOUS
  <2>1. j \in 1 .. Len(s) /\ Len(p) + j \in 1 .. Len(piece)
    BY <1>1, <1>3
  <2>2. line[Len(p) + j] = piece[Len(p) + j]
    BY <1>1, <2>1
  <2> QED
    BY <1>0, <1>4, <2>1, <2>2
<1>6. s[Len(s)] = Newline
  <2>1. Len(s) \in 1 .. Len(s) /\ Len(p) + Len(s) = Len(piece) + 1
    BY <1>1, <1>3, <1>n
  <2>2. line[Len(piece) + 1] = Newline
    BY <1>1
  <2> QED
    BY <1>4, <2>1, <2>2
<1> DEFINE x == SubSeq(s, 1, n)
<1>t. c = b \o x /\ t = SubSeq(s, n + 1, Len(s))
  BY DEF Writes
<1>7. x \in Seq(Bytes) /\ Len(x) = n /\ n \in Nat /\ \A j \in 1 .. n : x[j] = s[j]
  BY <1>1, <1>n, FrontType
<1>8. c \in Seq(Bytes) /\ IsPrefixOf(b, c)
  BY <1>7, <1>t, ConcatGrows
<1>9. ASSUME n # Len(s)
      PROVE  /\ Rank(c, Len(c)) = Rank(b, Len(b)) /\ t # <<>>
             /\ Partial(c, Len(c)) \o t = line
  <2>1. \A j \in 1 .. Len(x) : x[j] # Newline
    <3>1. \A j \in 1 .. n : j \in 1 .. Len(s) - 1
      BY <1>1, <1>9, <1>n
    <3> QED
      BY <1>5, <1>7, <3>1
  <2>2. Rank(c, Len(c)) = Rank(b, Len(b)) /\ Partial(c, Len(c)) = p \o x
    <3>1. Rank(b \o x, Len(b \o x)) = Rank(b, Len(b)) /\ Partial(b \o x, Len(b \o x)) = p \o x
      BY <1>7, <2>1, WriteInside DEF p
    <3> QED
      BY <1>t, <3>1
  <2>3. t \in Seq(Bytes) /\ Len(t) = Len(s) - n /\ x \o t = s
    BY <1>t, <1>n, SplitAt
  <2> HIDE DEF x, line
  <2>4. t # <<>>
    <3>1. Len(s) - n # 0
      BY <1>1, <1>7, <1>9, <1>n
    <3>2. Len(t) # 0
      BY <2>3, <3>1
    <3> QED
      BY <3>2
  <2>5. (p \o x) \o t = p \o (x \o t)
    <3>1. p \in Seq(Bytes) /\ x \in Seq(Bytes) /\ t \in Seq(Bytes)
      BY <1>1, <1>7, <2>3
    <3>2. Regroups(p, x, t)
      BY <3>1, RegroupBytes
    <3> QED
      BY <3>2 DEF Regroups
  <2> QED
    BY <1>2, <2>2, <2>3, <2>4, <2>5
<1>10. ASSUME n = Len(s)
       PROVE  /\ Rank(c, Len(c)) = Rank(b, Len(b)) + 1 /\ Partial(c, Len(c)) = <<>>
              /\ Lines(c, FALSE)[Rank(b, Len(b)) + 1] = line
  <2> DEFINE y == SubSeq(s, 1, Len(s) - 1)
             a == b \o y
  <2>1. Len(s) - 1 \in Nat /\ y \in Seq(Bytes) /\ Len(y) = Len(s) - 1
        /\ \A j \in 1 .. Len(s) - 1 : y[j] = s[j]
    <3>1. Len(s) - 1 \in 0 .. Len(s) /\ Len(s) - 1 \in Nat
      BY <1>1, <1>n
    <3> QED
      BY <3>1, FrontType
  <2>2. s = Append(y, Newline) /\ x = s
    <3>1. s = Append(y, s[Len(s)])
      BY <1>1, <1>n
    <3> QED
      BY <1>1, <1>6, <1>10, <3>1
  <2>3. \A j \in 1 .. Len(y) : y[j] # Newline
    BY <1>5, <2>1
  <2>4. a \in Seq(Bytes) /\ Rank(a, Len(a)) = Rank(b, Len(b)) /\ Partial(a, Len(a)) = p \o y
    BY <2>1, <2>3, WriteInside DEF p
  <2>5. c = Append(a, Newline)
    <3> HIDE DEF y
    <3>1. b \o Append(y, Newline) = Append(b \o y, Newline)
      BY <1>1, <2>1, ConcatAppend
    <3> QED
      BY <1>t, <2>2, <3>1
  <2>6. line = Append(p \o y, Newline)
    <3> HIDE DEF y, line
    <3>1. p \o Append(y, Newline) = Append(p \o y, Newline)
      BY <1>1, <2>1, ConcatAppend
    <3> QED
      BY <1>2, <2>2, <3>1
  <2> HIDE DEF a, y, line
  <2>7. /\ Rank(c, Len(c)) = Rank(a, Len(a)) + 1 /\ Partial(c, Len(c)) = <<>>
        /\ Lines(c, FALSE)[Rank(a, Len(a)) + 1] = Append(Partial(a, Len(a)), Newline)
    BY <2>4, <2>5, WriteNewline
  <2> QED
    BY <2>4, <2>6, <2>7
<1>11. n = Len(s) <=> t = <<>>
  <2>1. Len(t) = Len(s) - n /\ t \in Seq(Bytes)
    BY <1>n, <1>t, SplitAt
  <2>2. ASSUME n = Len(s) PROVE t = <<>>
    BY <1>1, <1>t, <2>2
  <2> QED
    BY <1>9, <2>2
<1>12. CASE n = Len(s)
  BY <1>0, <1>8, <1>10, <1>11, <1>12 DEF Written
<1>13. CASE n # Len(s)
  BY <1>0, <1>8, <1>9, <1>11, <1>13 DEF Written
<1> QED
  BY <1>11, <1>12, <1>13
=============================================================================

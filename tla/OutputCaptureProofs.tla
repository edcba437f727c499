------------------------ MODULE OutputCaptureProofs ------------------------
(***************************************************************************)
(* The execution row never outgrows its limit and accounts for what it      *)
(* drops, and a completed command was read to its end: for every slice      *)
(* size, limit and window, and whatever bytes the host writes.              *)
(***************************************************************************)
EXTENDS OutputCapture, Integers, WellFoundedInduction, SequenceTheorems, TLAPS

Characters == {"plain", "wide", "replacement"}
-----------------------------------------------------------------------------
(* Induction over 0 .. n as a fact about sets, and greatest elements.       *)

LEMMA SetInduction ==
    ASSUME NEW S, 0 \in S, \A n \in Nat : n \in S => n + 1 \in S
    PROVE  Nat \subseteq S
<1> DEFINE T == Nat \ S
           R == OpToRel(<, Nat)
<1> SUFFICES ASSUME T # {}
             PROVE  FALSE
    OBVIOUS
<1>1. IsWellFoundedOn(R, Nat)
    BY NatLessThanWellFounded
<1>2. T \subseteq Nat
    OBVIOUS
<1>3. \E x \in T : \A y \in T : ~ (<<y, x>> \in R)
  <2> HIDE DEF T, R
  <2> QED BY <1>1, <1>2, WFMin
<1>4. PICK x \in T : \A y \in T : ~(<<y, x>> \in R)
    BY <1>3
<1>5. x \in Nat /\ x # 0 /\ x - 1 \in Nat /\ x - 1 + 1 = x
    OBVIOUS
<1>6. x - 1 \in T
    BY <1>5
<1>7. <<x - 1, x>> \in R
    BY <1>5 DEF OpToRel
<1> QED BY <1>4, <1>6, <1>7

LEMMA RangeInduction ==
    ASSUME NEW m \in Nat, NEW S,
           0 \in S, \A n \in 0 .. m : n \in S /\ n < m => n + 1 \in S
    PROVE  0 .. m \subseteq S
<1> DEFINE T == {n \in Nat : n <= m => n \in S}
<1>1. 0 \in T
    OBVIOUS
<1>2. ASSUME NEW n \in Nat, n \in T
      PROVE  n + 1 \in T
    BY <1>2
<1>3. Nat \subseteq T
  <2> HIDE DEF T
  <2> QED BY <1>1, <1>2, SetInduction
<1> QED BY <1>3

LEMMA GreatestExists ==
    ASSUME NEW m \in Nat, NEW S \in SUBSET (0 .. m), S # {}
    PROVE  \E x \in S : \A y \in S : x >= y
<1> DEFINE Has(k) == \A T \in SUBSET (0 .. k) :
                        T # {} => \E x \in T : \A y \in T : x >= y
           K == {k \in Nat : Has(k)}
<1>1. 0 \in K
  <2> SUFFICES ASSUME NEW T \in SUBSET (0 .. 0), T # {}
               PROVE  \E x \in T : \A y \in T : x >= y
      OBVIOUS
  <2>1. \A y \in T : y = 0
      OBVIOUS
  <2>2. 0 \in T
      BY <2>1
  <2> QED BY <2>1, <2>2
<1>2. ASSUME NEW k \in Nat, k \in K
      PROVE  k + 1 \in K
  <2> SUFFICES ASSUME NEW T \in SUBSET (0 .. k + 1), T # {}
               PROVE  \E x \in T : \A y \in T : x >= y
      OBVIOUS
  <2>1. CASE k + 1 \in T
      BY <2>1
  <2>2. CASE k + 1 \notin T
    <3>1. T \in SUBSET (0 .. k)
        BY <2>2
    <3> QED BY <1>2, <3>1
  <2> QED BY <2>1, <2>2
<1>3. Nat \subseteq K
  <2> HIDE DEF K
  <2> QED BY <1>1, <1>2, SetInduction
<1> QED BY <1>3

LEMMA MaxOfSubset ==
    ASSUME NEW m \in Nat, NEW S \in SUBSET (0 .. m), S # {}
    PROVE  Max(S) \in S /\ \A y \in S : Max(S) >= y
BY GreatestExists DEF Max

LEMMA MinMaxOfTwo ==
    ASSUME NEW a \in Nat, NEW b \in Nat
    PROVE  /\ Max({a, b}) = IF a >= b THEN a ELSE b
           /\ Min({a, b}) = IF a <= b THEN a ELSE b
BY DEF Max, Min
-----------------------------------------------------------------------------
(* The size of a text.                                                      *)

\* f holds the size of every prefix of the text up to n.
Sizes(f, text, n) ==
    f = [k \in 0 .. n |-> IF k = 0 THEN 0 ELSE f[k - 1] + Width(text[k])]

LEMMA SizeIsTheLastSum ==
    ASSUME NEW text
    PROVE  Size(text) = (CHOOSE f : Sizes(f, text, Len(text)))[Len(text)]
BY DEF Size, Sizes

LEMMA CharacterWidth ==
    ASSUME NEW text \in Seq(Characters), NEW i \in 1 .. Len(text)
    PROVE  /\ text[i] \in Characters
           /\ Width(text[i]) \in Nat
           /\ Width(text[i]) <= Width("replacement")
<1>1. text[i] \in Characters
    BY LenProperties
<1>2. Width("plain") = 1 /\ Width("wide") = 2 /\ Width("replacement") = 3
    BY DEF Width
<1> QED BY <1>1, <1>2 DEF Characters

LEMMA SizesExist ==
    ASSUME NEW text \in Seq(Characters)
    PROVE  \E f : Sizes(f, text, Len(text))
<1> DEFINE m == Len(text)
           K == {n \in 0 .. m : \E f : Sizes(f, text, n)}
<1>1. m \in Nat
    BY LenProperties
<1> HIDE DEF m
<1>2. 0 \in K
  <2>1. Sizes([k \in 0 .. 0 |-> 0], text, 0)
      BY DEF Sizes
  <2> QED BY <1>1, <2>1
<1>3. ASSUME NEW n \in 0 .. m, n \in K, n < m
      PROVE  n + 1 \in K
  <2>1. PICK f : Sizes(f, text, n)
      BY <1>3
  <2> DEFINE g == [k \in 0 .. n + 1 |->
                      IF k = n + 1 THEN f[n] + Width(text[n + 1]) ELSE f[k]]
  <2>2. \A k \in 0 .. n : g[k] = f[k]
      BY <1>1
  <2>3. g[n + 1] = f[n] + Width(text[n + 1])
      BY <1>1
  <2>4. \A k \in 0 .. n :
           f[k] = IF k = 0 THEN 0 ELSE f[k - 1] + Width(text[k])
      BY <2>1 DEF Sizes
  <2>5. \A k \in 0 .. n + 1 :
           g[k] = IF k = 0 THEN 0 ELSE g[k - 1] + Width(text[k])
    <3> SUFFICES ASSUME NEW k \in 0 .. n + 1
                 PROVE  g[k] = IF k = 0 THEN 0 ELSE g[k - 1] + Width(text[k])
        OBVIOUS
    <3> HIDE DEF g
    <3>1. CASE k = n + 1
        BY <1>1, <2>2, <2>3, <3>1
    <3>2. CASE k # n + 1
      <4>1. k \in 0 .. n /\ (k # 0 => k - 1 \in 0 .. n)
          BY <1>1, <3>2
      <4> QED BY <2>2, <2>4, <4>1
    <3> QED BY <3>1, <3>2
  <2>6. g = [k \in 0 .. n + 1 |-> g[k]]
      OBVIOUS
  <2> HIDE DEF g
  <2>7. Sizes(g, text, n + 1)
      BY <2>5, <2>6 DEF Sizes
  <2> QED BY <1>1, <1>3, <2>7
<1>4. 0 .. m \subseteq K
  <2> HIDE DEF K
  <2> QED BY <1>1, <1>2, <1>3, RangeInduction
<1> QED BY <1>1, <1>4 DEF m

LEMMA SizesAgree ==
    ASSUME NEW text \in Seq(Characters), NEW n \in 0 .. Len(text),
           NEW f, Sizes(f, text, Len(text)),
           NEW g, Sizes(g, SubSeq(text, 1, n), n)
    PROVE  \A k \in 0 .. n : g[k] = f[k] /\ f[k] \in Nat
<1> DEFINE p == SubSeq(text, 1, n)
           K == {k \in 0 .. n : g[k] = f[k] /\ f[k] \in Nat}
<1>1. Len(text) \in Nat /\ n \in Nat
    BY LenProperties
<1>2. \A i \in 1 .. n : p[i] = text[i]
  <2>1. \A i \in 1 .. n : text[i] \in Characters
      BY <1>1, CharacterWidth
  <2>2. \A i \in 1 .. n - 1 + 1 : p[i] = text[1 + i - 1]
      BY <1>1, <2>1, SubSeqProperties
  <2>3. n - 1 + 1 = n
      BY <1>1
  <2> QED BY <1>1, <2>2, <2>3
<1> HIDE DEF p
<1>3. \A k \in 0 .. n : g[k] = IF k = 0 THEN 0 ELSE g[k - 1] + Width(p[k])
  <2>1. Sizes(g, p, n)
      BY DEF p
  <2> QED BY <1>1, <2>1 DEF Sizes
<1>4. \A k \in 0 .. n : f[k] = IF k = 0 THEN 0 ELSE f[k - 1] + Width(text[k])
  <2>1. \A k \in 0 .. Len(text) :
           f[k] = IF k = 0 THEN 0 ELSE f[k - 1] + Width(text[k])
      BY DEF Sizes
  <2>2. \A k \in 0 .. n : k \in 0 .. Len(text)
      BY <1>1
  <2> QED BY <2>1, <2>2
<1>5. 0 \in K
    BY <1>1, <1>3, <1>4
<1>6. ASSUME NEW k \in 0 .. n, k \in K, k < n
      PROVE  k + 1 \in K
  <2>1. k + 1 \in 1 .. n /\ k + 1 \in 0 .. n /\ k + 1 - 1 = k /\ k + 1 # 0
      BY <1>1, <1>6
  <2>2. Width(text[k + 1]) \in Nat
      BY <1>1, <2>1, CharacterWidth
  <2>3. /\ f[k + 1] = f[k] + Width(text[k + 1])
        /\ g[k + 1] = g[k] + Width(p[k + 1])
        /\ p[k + 1] = text[k + 1]
      BY <1>2, <1>3, <1>4, <2>1
  <2> QED BY <1>6, <2>1, <2>2, <2>3
<1>7. 0 .. n \subseteq K
  <2> HIDE DEF K
  <2> QED BY <1>1, <1>5, <1>6, RangeInduction
<1> QED BY <1>7

\* The size of a prefix, for all prefixes of a text at once.
LEMMA SizeOfPrefixes ==
    ASSUME NEW text \in Seq(Characters)
    PROVE  \E f : /\ f[0] = 0
                  /\ \A k \in 1 .. Len(text) : f[k] = f[k - 1] + Width(text[k])
                  /\ \A k \in 0 .. Len(text) :
                        f[k] \in Nat /\ Size(SubSeq(text, 1, k)) = f[k]
<1>1. PICK f : Sizes(f, text, Len(text))
    BY SizesExist
<1>2. Len(text) \in Nat
    BY LenProperties
<1>3. \A k \in 0 .. Len(text) :
         f[k] = IF k = 0 THEN 0 ELSE f[k - 1] + Width(text[k])
    BY <1>1 DEF Sizes
<1>4. ASSUME NEW k \in 0 .. Len(text)
      PROVE  f[k] \in Nat /\ Size(SubSeq(text, 1, k)) = f[k]
  <2> DEFINE p == SubSeq(text, 1, k)
             g == CHOOSE h : Sizes(h, p, Len(p))
  <2>1. p \in Seq(Characters) /\ Len(p) = k
    <3>1. \A i \in 1 .. k : text[i] \in Characters
        BY <1>2, CharacterWidth
    <3>2. p \in Seq(Characters) /\ Len(p) = IF 1 <= k THEN k - 1 + 1 ELSE 0
        BY <1>2, <3>1, SubSeqProperties
    <3> QED BY <1>2, <3>2
  <2>2. Size(p) = g[k]
      BY <2>1, SizeIsTheLastSum
  <2> HIDE DEF p
  <2>3. Sizes(g, p, Len(p))
      BY <2>1, SizesExist
  <2> HIDE DEF g
  <2>4. Sizes(g, SubSeq(text, 1, k), k)
      BY <2>1, <2>3 DEF p
  <2>5. g[k] = f[k] /\ f[k] \in Nat
      BY <1>1, <1>2, <2>4, SizesAgree
  <2> QED BY <2>2, <2>5 DEF p
<1> QED BY <1>2, <1>3, <1>4
-----------------------------------------------------------------------------
(* What the store keeps of a text.                                          *)

\* _truncate_to_bytes: what is kept fits, and what is cut off starts with a
\* character that does not.
LEMMA FittingKeeps ==
    ASSUME NEW text \in Seq(Characters), NEW room \in Nat
    PROVE  /\ Size(Fitting(text, room)) \in Nat
           /\ Size(Fitting(text, room)) <= room
           /\ Fitting(text, room) # text
                 => room - Size(Fitting(text, room)) < Width("replacement")
<1> DEFINE N == {n \in 0 .. Len(text) : Size(SubSeq(text, 1, n)) <= room}
           m == Max(N)
<1>1. Len(text) \in Nat
    BY LenProperties
<1>2. PICK f : /\ f[0] = 0
               /\ \A k \in 1 .. Len(text) : f[k] = f[k - 1] + Width(text[k])
               /\ \A k \in 0 .. Len(text) :
                     f[k] \in Nat /\ Size(SubSeq(text, 1, k)) = f[k]
    BY SizeOfPrefixes
<1>3. N = {n \in 0 .. Len(text) : f[n] <= room}
    BY <1>2
<1>4. Fitting(text, room) = SubSeq(text, 1, m)
    BY DEF Fitting
<1> HIDE DEF N
<1>5. 0 \in N
    BY <1>1, <1>2, <1>3
<1>6. m \in N /\ \A y \in N : m >= y
    BY <1>1, <1>3, <1>5, MaxOfSubset
<1> HIDE DEF m
<1>7. m \in 0 .. Len(text) /\ f[m] <= room /\ f[m] \in Nat
    BY <1>2, <1>3, <1>6
<1>8. Size(SubSeq(text, 1, m)) = f[m]
    BY <1>2, <1>7
<1>9. ASSUME SubSeq(text, 1, m) # text
      PROVE  room - f[m] < Width("replacement")
  <2>1. m # Len(text)
      BY <1>9, SubSeqFull
  <2>2. /\ m + 1 \in 1 .. Len(text) /\ m + 1 \in 0 .. Len(text)
        /\ m + 1 - 1 = m
      BY <1>1, <1>7, <2>1
  <2>3. f[m + 1] = f[m] + Width(text[m + 1]) /\ f[m + 1] \in Nat
    <3>1. PICK next \in 1 .. Len(text) : next = m + 1
        BY <2>2
    <3>2. next - 1 = m /\ next \in 0 .. Len(text)
        BY <1>1, <1>7, <3>1
    <3>3. f[next] = f[next - 1] + Width(text[next]) /\ f[next] \in Nat
        BY <1>2, <3>2
    <3> QED BY <3>1, <3>2, <3>3
  <2>4. ~(f[m + 1] <= room)
      BY <1>1, <1>3, <1>6, <1>7, <2>2
  <2>5. /\ Width(text[m + 1]) \in Nat
        /\ Width(text[m + 1]) <= Width("replacement")
        /\ Width("replacement") = 3
      BY <2>2, CharacterWidth DEF Width
  <2> QED BY <1>7, <2>3, <2>4, <2>5
<1> QED BY <1>4, <1>7, <1>8, <1>9

\* The text a slice is decoded to.
Texts(f, slice, n) ==
    f = [k \in 0 .. n |-> IF k = 0 THEN <<>> ELSE f[k - 1] \o Character(slice, k)]

LEMMA DecodedIsTheLastText ==
    ASSUME NEW slice
    PROVE  Decoded(slice) = (CHOOSE f : Texts(f, slice, Len(slice)))[Len(slice)]
BY DEF Decoded, Texts

LEMMA CharacterType ==
    ASSUME NEW slice \in Seq(Bytes), NEW i \in 1 .. Len(slice)
    PROVE  Character(slice, i) \in Seq(Characters)
<1>1. slice[i] \in Bytes
    BY LenProperties
<1>2. /\ <<"plain">> \in Seq(Characters) /\ <<"wide">> \in Seq(Characters)
      /\ <<"replacement">> \in Seq(Characters) /\ <<>> \in Seq(Characters)
    BY EmptySeq DEF Characters
<1> QED BY <1>1, <1>2 DEF Character, Bytes

LEMMA TextsExist ==
    ASSUME NEW slice \in Seq(Bytes)
    PROVE  \E f : Texts(f, slice, Len(slice))
<1> DEFINE m == Len(slice)
           K == {n \in 0 .. m : \E f : Texts(f, slice, n)}
<1>1. m \in Nat
    BY LenProperties
<1> HIDE DEF m
<1>2. 0 \in K
  <2>1. Texts([k \in 0 .. 0 |-> <<>>], slice, 0)
      BY DEF Texts
  <2> QED BY <1>1, <2>1
<1>3. ASSUME NEW n \in 0 .. m, n \in K, n < m
      PROVE  n + 1 \in K
  <2>1. PICK f : Texts(f, slice, n)
      BY <1>3
  <2> DEFINE next == f[n] \o Character(slice, n + 1)
             g == [k \in 0 .. n + 1 |-> IF k = n + 1 THEN next ELSE f[k]]
  <2>2. \A k \in 0 .. n : g[k] = f[k]
      BY <1>1
  <2>3. g[n + 1] = next
      BY <1>1
  <2>4. \A k \in 0 .. n :
           f[k] = IF k = 0 THEN <<>> ELSE f[k - 1] \o Character(slice, k)
      BY <2>1 DEF Texts
  <2>5. \A k \in 0 .. n + 1 :
           g[k] = IF k = 0 THEN <<>> ELSE g[k - 1] \o Character(slice, k)
    <3> SUFFICES ASSUME NEW k \in 0 .. n + 1
                 PROVE  g[k] = IF k = 0 THEN <<>> ELSE g[k - 1] \o Character(slice, k)
        OBVIOUS
    <3> HIDE DEF g
    <3>1. CASE k = n + 1
      <4>1. k - 1 = n /\ k # 0 /\ g[k - 1] = f[n]
          BY <1>1, <2>2, <3>1
      <4> QED BY <2>3, <3>1, <4>1
    <3>2. CASE k # n + 1
      <4>1. k \in 0 .. n /\ (k # 0 => k - 1 \in 0 .. n)
          BY <1>1, <3>2
      <4> QED BY <2>2, <2>4, <4>1
    <3> QED BY <3>1, <3>2
  <2>6. g = [k \in 0 .. n + 1 |-> g[k]]
      OBVIOUS
  <2> HIDE DEF g
  <2>7. Texts(g, slice, n + 1)
      BY <2>5, <2>6 DEF Texts
  <2> QED BY <1>1, <1>3, <2>7
<1>4. 0 .. m \subseteq K
  <2> HIDE DEF K
  <2> QED BY <1>1, <1>2, <1>3, RangeInduction
<1> QED BY <1>1, <1>4 DEF m

\* Whatever the slice cuts, it is decoded to characters.
LEMMA DecodedType ==
    ASSUME NEW slice \in Seq(Bytes)
    PROVE  Decoded(slice) \in Seq(Characters)
<1> DEFINE m == Len(slice)
           f == CHOOSE h : Texts(h, slice, m)
           K == {k \in 0 .. m : f[k] \in Seq(Characters)}
<1>1. m \in Nat
    BY LenProperties
<1>2. Texts(f, slice, m)
    BY TextsExist
<1>3. Decoded(slice) = f[m]
    BY DecodedIsTheLastText
<1> HIDE DEF f
<1>4. \A k \in 0 .. m :
         f[k] = IF k = 0 THEN <<>> ELSE f[k - 1] \o Character(slice, k)
    BY <1>2 DEF Texts
<1>5. 0 \in K
  <2>1. 0 \in 0 .. m
      BY <1>1
  <2>2. f[0] = <<>>
      BY <1>4, <2>1
  <2>3. <<>> \in Seq(Characters)
      BY EmptySeq
  <2> QED BY <2>1, <2>2, <2>3
<1>6. ASSUME NEW k \in 0 .. m, k \in K, k < m
      PROVE  k + 1 \in K
  <2>1. k + 1 \in 1 .. m /\ k + 1 \in 0 .. m /\ k + 1 - 1 = k /\ k + 1 # 0
      BY <1>1, <1>6
  <2>2. f[k + 1] = f[k] \o Character(slice, k + 1)
    <3>1. PICK next \in 0 .. m : next = k + 1
        BY <2>1
    <3>2. next - 1 = k /\ next # 0
        BY <1>1, <3>1
    <3>3. f[next] = f[next - 1] \o Character(slice, next)
      <4> HIDE DEF m
      <4> QED BY <1>4, <3>2
    <3> QED BY <3>1, <3>2, <3>3
  <2>3. Character(slice, k + 1) \in Seq(Characters)
      BY <2>1, CharacterType
  <2>4. f[k + 1] \in Seq(Characters)
      BY <1>6, <2>2, <2>3, ConcatProperties
  <2> QED BY <2>1, <2>4
<1>7. 0 .. m \subseteq K
  <2> HIDE DEF K
  <2> QED BY <1>1, <1>5, <1>6, RangeInduction
<1> QED BY <1>1, <1>3, <1>7
-----------------------------------------------------------------------------
(* The type invariant.                                                      *)

USE CaptureAssumption

\* What a read takes out of the channel and what it leaves there.
LEMMA ReadTakes ==
    ASSUME TypeOK, NEW bytes, bytes = Min({SliceBytes, Len(channel)})
    PROVE  /\ bytes \in 0 .. Len(channel)
           /\ SubSeq(channel, 1, bytes) \in Seq(Bytes)
           /\ SubSeq(channel, bytes + 1, Len(channel)) \in Seq(Bytes)
           /\ Len(SubSeq(channel, bytes + 1, Len(channel))) = Len(channel) - bytes
           /\ Max({owed, bytes}) - bytes \in 0 .. Len(channel) - bytes
           /\ owed = 0 => Max({owed, bytes}) - bytes = 0
<1>1. channel \in Seq(Bytes) /\ owed \in 0 .. Len(channel)
    BY DEF TypeOK
<1>2. Len(channel) \in Nat /\ \A i \in 1 .. Len(channel) : channel[i] \in Bytes
    BY <1>1, LenProperties
<1>3. bytes \in 0 .. Len(channel)
  <2>1. SliceBytes \in Nat
      OBVIOUS
  <2>2. bytes = IF SliceBytes <= Len(channel) THEN SliceBytes ELSE Len(channel)
      BY <1>2, <2>1, MinMaxOfTwo
  <2> QED BY <1>2, <2>1, <2>2
<1>4. Max({owed, bytes}) = IF owed >= bytes THEN owed ELSE bytes
  <2>1. owed \in Nat /\ bytes \in Nat
      BY <1>1, <1>2, <1>3
  <2> QED BY <2>1, MinMaxOfTwo
<1>5. /\ Max({owed, bytes}) - bytes \in 0 .. Len(channel) - bytes
      /\ owed = 0 => Max({owed, bytes}) - bytes = 0
    BY <1>1, <1>2, <1>3, <1>4
<1>6. SubSeq(channel, 1, bytes) \in Seq(Bytes)
  <2>1. \A i \in 1 .. bytes : channel[i] \in Bytes
      BY <1>2, <1>3
  <2>2. bytes \in Int
      BY <1>2, <1>3
  <2> QED BY <2>1, <2>2, SubSeqProperties
<1>7. /\ SubSeq(channel, bytes + 1, Len(channel)) \in Seq(Bytes)
      /\ Len(SubSeq(channel, bytes + 1, Len(channel))) = Len(channel) - bytes
  <2> DEFINE first == bytes + 1
             last == Len(channel)
  <2>1. first \in Int /\ last \in Int /\ last - first + 1 = last - bytes
      BY <1>2, <1>3
  <2>2. \A i \in first .. last : channel[i] \in Bytes
      BY <1>2, <1>3
  <2>3. first <= last \/ last - bytes = 0
      BY <1>2, <1>3
  <2> HIDE DEF first, last
  <2>4. /\ SubSeq(channel, first, last) \in Seq(Bytes)
        /\ Len(SubSeq(channel, first, last)) =
              IF first <= last THEN last - first + 1 ELSE 0
      BY <2>1, <2>2, SubSeqProperties
  <2>5. Len(SubSeq(channel, first, last)) = last - bytes
      BY <2>1, <2>3, <2>4
  <2> QED BY <2>4, <2>5 DEF first, last
<1> QED BY <1>3, <1>5, <1>6, <1>7
\* What is stored of a chunk fits, and is less than the chunk only if a
\* character of it would not fit.
LEMMA StoreFits ==
    ASSUME TypeOK, stored <= Limit, NEW text \in Seq(Characters), Store(text)
    PROVE  /\ stored' \in Nat
           /\ truncated' \in BOOLEAN
           /\ dropped' \in BOOLEAN
           /\ stored <= stored'
           /\ stored' <= Limit
           /\ truncated' = (truncated \/ Fitting(text, Limit - stored) # text)
           /\ dropped' = (dropped \/ Fitting(text, Limit - stored) # text)
           /\ Fitting(text, Limit - stored) # text
                 => Limit - stored' < Width("replacement")
<1>1. stored \in Nat /\ Limit \in Nat /\ Width("replacement") = 3
    BY DEF TypeOK, Width
<1>2. Limit - stored \in Nat
    BY <1>1
<1>3. PICK room \in Nat : room = Limit - stored
    BY <1>2
<1>4. PICK size : size = Size(Fitting(text, room))
    OBVIOUS
<1>5. /\ size \in Nat
      /\ size <= room
      /\ Fitting(text, room) # text => room - size < Width("replacement")
    BY <1>4, FittingKeeps
<1>6. /\ stored' = stored + size
      /\ truncated' = (truncated \/ Fitting(text, room) # text)
      /\ dropped' = (dropped \/ Fitting(text, room) # text)
    BY <1>3, <1>4 DEF Store
<1>7. truncated' \in BOOLEAN /\ dropped' \in BOOLEAN
    BY <1>6, Zenon DEF TypeOK
<1>8. stored' \in Nat /\ stored <= stored' /\ stored' <= Limit
    BY <1>1, <1>3, <1>5, <1>6
<1>9. Fitting(text, room) # text => Limit - stored' < Width("replacement")
    BY <1>1, <1>3, <1>5, <1>6
<1> QED BY <1>3, <1>6, <1>7, <1>8, <1>9

LEMMA TypeInit == Init => TypeOK /\ stored <= Limit
<1> SUFFICES ASSUME Init
             PROVE  TypeOK /\ stored <= Limit
    OBVIOUS
<1>1. channel \in Seq(Bytes) /\ Len(channel) = 0
    BY EmptySeq DEF Init
<1>2. owed \in 0 .. Len(channel) /\ stored \in Nat /\ stored <= Limit
    BY <1>1 DEF Init
<1> QED BY <1>1, <1>2 DEF Init, TypeOK, NoResult

LEMMA TypeStep ==
    ASSUME TypeOK, stored <= Limit, [Next]_vars
    PROVE  TypeOK' /\ stored' <= Limit
<1> USE DEF TypeOK
<1>1. CASE Write
  <2>1. PICK byte \in Bytes : channel' = Append(channel, byte)
      BY <1>1 DEF Write
  <2>2. channel' \in Seq(Bytes) /\ Len(channel') = Len(channel) + 1
      BY <2>1, AppendProperties
  <2>3. Len(channel) \in Nat
      BY LenProperties
  <2>4. owed' \in 0 .. Len(channel')
      BY <1>1, <2>2, <2>3 DEF Write
  <2> QED BY <1>1, <2>2, <2>4 DEF Write, row
<1>2. CASE FallSilent
    BY <1>2 DEF FallSilent, row
<1>3. CASE Exit
    BY <1>3 DEF Exit, row
<1>4. CASE DeadlinePasses
    BY <1>4 DEF DeadlinePasses, remote, row
<1>5. CASE Connect
    BY <1>5 DEF Connect, EndWith, Failure, NoResult, row
<1>6. CASE Read
  <2>1. PICK bytes : bytes = Min({SliceBytes, Len(channel)})
      OBVIOUS
  <2>2. /\ SubSeq(channel, 1, bytes) \in Seq(Bytes)
        /\ channel' \in Seq(Bytes)
        /\ owed' \in 0 .. Len(channel')
    <3>1. /\ channel' = SubSeq(channel, bytes + 1, Len(channel))
          /\ owed' = Max({owed, bytes}) - bytes
        BY <1>6, <2>1 DEF Read
    <3> QED BY <2>1, <3>1, ReadTakes
  <2>3. CASE Store(Decoded(SubSeq(channel, 1, bytes))) /\ UNCHANGED <<pc, result>>
    <3>1. Decoded(SubSeq(channel, 1, bytes)) \in Seq(Characters)
        BY <2>2, DecodedType
    <3>2. PICK text \in Seq(Characters) : Store(text)
        BY <2>3, <3>1
    <3>3. /\ stored' \in Nat /\ stored' <= Limit
          /\ truncated' \in BOOLEAN /\ dropped' \in BOOLEAN
        BY <3>2, StoreFits
    <3> QED BY <1>6, <2>2, <2>3, <3>3 DEF Read
  <2>4. CASE EndWith(Failure) /\ UNCHANGED row
      BY <1>6, <2>2, <2>4 DEF Read, EndWith, Failure, NoResult, row
  <2> QED BY <1>6, <2>1, <2>3, <2>4 DEF Read
<1>7. CASE SeeExit
    BY <1>7 DEF SeeExit, remote, row
<1>8. CASE Drained
    BY <1>8 DEF Drained, EndWith, NoResult, remote, row
<1>9. CASE TimeOutOrSleep
    BY <1>9 DEF TimeOutOrSleep, EndWith, NoResult, remote, row
<1>10. CASE Complete
  <2>1. status' \in {"running", "completed", "failed", "timed_out"}
      BY <1>10 DEF Complete
  <2> QED BY <1>10, <2>1 DEF Complete, remote, row
<1>11. CASE UNCHANGED vars
    BY <1>11 DEF vars
<1> QED BY <1>1, <1>2, <1>3, <1>4, <1>5, <1>6, <1>7, <1>8, <1>9, <1>10, <1>11
        DEF Next, Runner

\* The types, and with them the limit: what is stored is a number of bytes only
\* because what is left of the limit is one.
THEOREM OutputCaptureTypeCorrect == Spec => []TypeOK
<1>1. Init => TypeOK /\ stored <= Limit
    BY TypeInit
<1>2. (TypeOK /\ stored <= Limit) /\ [Next]_vars => (TypeOK /\ stored <= Limit)'
    BY TypeStep
<1> QED BY <1>1, <1>2, PTL DEF Spec
-----------------------------------------------------------------------------
(* The row.                                                                 *)

LEMMA RowInit == Init => RowIsAccountable
BY DEF Init, RowIsAccountable

LEMMA RowStep ==
    ASSUME TypeOK, RowIsAccountable, [Next]_vars
    PROVE  RowIsAccountable'
<1>1. CASE UNCHANGED row
    BY <1>1 DEF row, RowIsAccountable
<1>2. CASE Read
  <2>1. PICK bytes : bytes = Min({SliceBytes, Len(channel)})
      OBVIOUS
  <2>2. CASE Store(Decoded(SubSeq(channel, 1, bytes)))
    <3>1. Decoded(SubSeq(channel, 1, bytes)) \in Seq(Characters)
        BY <2>1, ReadTakes, DecodedType
    <3>2. PICK text \in Seq(Characters) : Store(text)
        BY <2>2, <3>1
    <3>3. PICK cut \in BOOLEAN : cut = (Fitting(text, Limit - stored) # text)
        OBVIOUS
    <3>4. /\ stored' \in Nat /\ stored <= stored' /\ stored' <= Limit
          /\ truncated' = (truncated \/ cut)
          /\ dropped' = (dropped \/ cut)
          /\ cut => Limit - stored' < Width("replacement")
        BY <3>2, <3>3, StoreFits DEF RowIsAccountable
    <3>5. dropped' => truncated'
        BY <3>4, Zenon DEF RowIsAccountable
    <3>6. truncated' => cut \/ truncated
        BY <3>4, Zenon
    <3>7. truncated => Limit - stored' < Width("replacement")
      <4>1. Width("replacement") = 3
          BY DEF Width
      <4> QED BY <3>4, <4>1 DEF RowIsAccountable, TypeOK
    <3>8. truncated' => Limit - stored' < Width("replacement")
        BY <3>4, <3>6, <3>7, Zenon
    <3> QED BY <3>4, <3>5, <3>8 DEF RowIsAccountable
  <2>3. CASE UNCHANGED row
      BY <2>3 DEF row, RowIsAccountable
  <2> QED BY <1>2, <2>1, <2>2, <2>3 DEF Read
<1> QED BY <1>1, <1>2 DEF Next, Runner, Write, FallSilent, Exit, DeadlinePasses,
        Connect, SeeExit, Drained, TimeOutOrSleep, Complete, vars, row

\* Whatever the slices cut and the replacement characters add, the row stays
\* within its limit, nothing that was read is missing without the flag, and
\* the flag is set only when less than a replacement character fits.
THEOREM RowIsAccountableCorrect == Spec => []RowIsAccountable
<1>1. Spec => []TypeOK
    BY OutputCaptureTypeCorrect
<1>2. TypeOK /\ RowIsAccountable /\ [Next]_vars => RowIsAccountable'
    BY RowStep
<1> QED BY <1>1, <1>2, RowInit, PTL DEF Spec
-----------------------------------------------------------------------------
(* The result and the status.                                               *)

\* An exit code the channel knows belongs to a host that has ended so.
ExitIsOfTheHost ==
    /\ exitCode \in {"ok", "bad"} => host = "exited"
    /\ exitCode = "-1" => host = "lost"
    /\ pc = "connect" => host = "off"

\* A result with an exit code is made of an emptied channel, and a status of
\* such a result.
ResultIsOfTheEnd ==
    /\ pc = "drainLast" => exitCode # "none"
    /\ pc \notin {"result", "done"} => result = NoResult
    /\ result.exit # "none" => result.exit = exitCode /\ owed = 0
    /\ status # "running" => pc = "done"
    /\ status = "completed" => result.exit = "ok"

ResultInv == ExitIsOfTheHost /\ ResultIsOfTheEnd

LEMMA ResultInit == Init => ResultInv
BY DEF Init, ResultInv, ExitIsOfTheHost, ResultIsOfTheEnd, NoResult

LEMMA ExitStep ==
    ASSUME TypeOK, ResultInv, [Next]_vars
    PROVE  ExitIsOfTheHost'
<1> USE DEF ResultInv, ExitIsOfTheHost
<1>1. CASE Connect
    BY <1>1 DEF Connect, EndWith
<1>2. CASE Exit
    BY <1>2 DEF Exit
<1> QED BY <1>1, <1>2 DEF Next, Runner, Write, FallSilent, DeadlinePasses, Read,
        SeeExit, Drained, TimeOutOrSleep, Complete, EndWith, vars, remote, row

LEMMA ResultStep ==
    ASSUME TypeOK, ResultInv, [Next]_vars
    PROVE  ResultIsOfTheEnd'
<1> USE DEF ResultInv, ExitIsOfTheHost, ResultIsOfTheEnd
<1>1. CASE Write
    BY <1>1 DEF Write, TypeOK
<1>2. CASE FallSilent \/ DeadlinePasses \/ UNCHANGED vars
    BY <1>2 DEF FallSilent, DeadlinePasses, vars, remote, row
<1>3. CASE Exit
    BY <1>3 DEF Exit, TypeOK
<1>4. CASE Connect
    BY <1>4 DEF Connect, EndWith, Failure, NoResult
<1>5. CASE Read
  <2>1. result.exit = "none" /\ result'.exit = "none" /\ status = "running"
      BY <1>5 DEF Read, EndWith, Failure, NoResult, TypeOK
  <2> QED BY <1>5, <2>1 DEF Read, EndWith, TypeOK
<1>6. CASE SeeExit
    BY <1>6 DEF SeeExit, remote
<1>7. CASE Drained
  <2>1. owed = 0
    <3>1. Len(channel) = 0
        BY <1>7, EmptySeq DEF Drained
    <3> QED BY <3>1 DEF TypeOK
  <2> QED BY <1>7, <2>1 DEF Drained, EndWith, NoResult, remote, TypeOK
<1>8. CASE TimeOutOrSleep
    BY <1>8 DEF TimeOutOrSleep, EndWith, NoResult, remote, TypeOK
<1>9. CASE Complete
    BY <1>9 DEF Complete, remote, TypeOK
<1> QED BY <1>1, <1>2, <1>3, <1>4, <1>5, <1>6, <1>7, <1>8, <1>9 DEF Next, Runner

\* A command is recorded as completed only if its host has exited with 0 and
\* all it had written by then was read, however writing, reading and exiting
\* interleave.
THEOREM CompletedIsWholeCorrect == Spec => []CompletedIsWhole
<1>1. Spec => []TypeOK
    BY OutputCaptureTypeCorrect
<1>2. TypeOK /\ ResultInv /\ [Next]_vars => ResultInv'
    BY ExitStep, ResultStep DEF ResultInv
<1>3. ResultInv => CompletedIsWhole
    BY DEF ResultInv, ExitIsOfTheHost, ResultIsOfTheEnd, CompletedIsWhole
<1> QED BY <1>1, <1>2, <1>3, ResultInit, PTL DEF Spec
=============================================================================

-------------------------- MODULE RequestCodec_proofs --------------------------
(***************************************************************************)
(* For every sequence of messages, however long and whatever is in them,   *)
(* the blob marshalRequests makes of it reads as exactly these messages.   *)
(*                                                                         *)
(* The blob is the last value of Written; its entries are found again in   *)
(* the order they were written because what is written is never changed by *)
(* what follows (WrittenGrows).  Induction is over the set of numbers for  *)
(* which a fact holds.                                                     *)
(***************************************************************************)
EXTENDS RequestCodec, SequenceTheorems, WellFoundedInduction, TLAPS

\* Induction over the natural numbers, the property being a set.
LEMMA SetInduction ==
    ASSUME NEW S \in SUBSET Nat, 0 \in S, \A n \in S : n + 1 \in S
    PROVE  S = Nat
<1>. SUFFICES ASSUME S # Nat PROVE FALSE
  OBVIOUS
<1>. DEFINE T == Nat \ S
            R == {p \in Nat \X Nat : p[1] < p[2]}
<1>1. IsWellFoundedOn(R, Nat)
  <2>1. OpToRel(<, Nat) = R
    BY Zenon DEF OpToRel
  <2>. QED
    BY <2>1, NatLessThanWellFounded
<1>2. T \subseteq Nat /\ T # {}
  OBVIOUS
<1>3. PICK x \in T : \A y \in T : <<y, x>> \notin R
  <2>. HIDE DEF T, R
  <2>. QED
    BY <1>1, <1>2, WFMin
<1>4. x \in Nat /\ x # 0 /\ x - 1 \in Nat /\ <<x - 1, x>> \in R
  OBVIOUS
<1>. QED
  BY <1>3, <1>4

-----------------------------------------------------------------------------
\* The buffer is empty at first and grows by one entry at a time.
LEMMA WrittenRecursion ==
    ASSUME NEW ms \in Seq(Messages)
    PROVE  Written(ms) = [n \in 0..Len(ms) |->
               IF n = 0 THEN <<>> ELSE Written(ms)[n - 1] \o Prefix(Len(ms[n])) \o ms[n]]
<1>. DEFINE IsBuf(f, m) == f = [n \in 0..m |->
                IF n = 0 THEN <<>> ELSE f[n - 1] \o Prefix(Len(ms[n])) \o ms[n]]
            S == {m \in Nat : \E f : IsBuf(f, m)}
<1>1. 0 \in S
  <2>. DEFINE f == [n \in 0..0 |-> <<>>]
  <2>1. f = [n \in 0..0 |-> IF n = 0 THEN <<>> ELSE f[n - 1] \o Prefix(Len(ms[n])) \o ms[n]]
    OBVIOUS
  <2>. QED
    BY <2>1
<1>2. ASSUME NEW m \in S PROVE m + 1 \in S
  <2>1. PICK f : IsBuf(f, m)
    BY <1>2
  <2>. DEFINE g == [n \in 0..(m + 1) |->
                IF n = m + 1 THEN f[m] \o Prefix(Len(ms[m + 1])) \o ms[m + 1] ELSE f[n]]
  <2>2. ASSUME NEW n \in 0..(m + 1)
        PROVE  g[n] = IF n = 0 THEN <<>> ELSE g[n - 1] \o Prefix(Len(ms[n])) \o ms[n]
    <3>1. CASE n = m + 1
      BY <3>1, g[m] = f[m]
    <3>2. CASE n # m + 1
      <4>1. n \in 0..m /\ g[n] = f[n] /\ (n # 0 => n - 1 \in 0..m /\ g[n - 1] = f[n - 1])
        BY <3>2
      <4>. HIDE DEF g
      <4>. QED
        BY <2>1, <4>1
    <3>. QED
      BY <3>1, <3>2
  <2>3. g = [n \in 0..(m + 1) |-> g[n]]
    OBVIOUS
  <2>4. IsBuf(g, m + 1)
    <3>. DEFINE h == [n \in 0..(m + 1) |->
                  IF n = 0 THEN <<>> ELSE g[n - 1] \o Prefix(Len(ms[n])) \o ms[n]]
    <3>. HIDE DEF g
    <3>1. \A n \in 0..(m + 1) : h[n] = g[n]
      BY <2>2
    <3>2. h = [n \in 0..(m + 1) |-> h[n]]
      OBVIOUS
    <3>. HIDE DEF h
    <3>3. h = g
      BY <2>3, <3>1, <3>2
    <3>. QED
      BY <3>3 DEF h
  <2>5. m + 1 \in Nat
    OBVIOUS
  <2>. HIDE DEF g, IsBuf
  <2>. QED
    BY <2>4, <2>5
<1>3. Len(ms) \in S
  <2>. HIDE DEF S
  <2>1. S = Nat
    <3>1. S \subseteq Nat
      BY DEF S
    <3>. QED
      BY <1>1, <1>2, <3>1, SetInduction
  <2>. QED
    BY <2>1
<1>4. \E f : IsBuf(f, Len(ms))
  BY <1>3
<1>5. Written(ms) = CHOOSE f : IsBuf(f, Len(ms))
  BY DEF Written
<1>. QED
  BY <1>4, <1>5

\* The messages' lengths fit, so a prefix tells the length it was made of.
LEMMA PrefixTells ==
    ASSUME NEW m \in Messages
    PROVE  /\ Prefix(Len(m)) \in Seq(Byte)
           /\ Len(Prefix(Len(m))) = 4
           /\ LET p == Prefix(Len(m))
              IN  ((p[1] * 256 + p[2]) * 256 + p[3]) * 256 + p[4] = Len(m)
           /\ Len(m) \in Nat
<1>1. ASSUME NEW n \in Nat, n \div 16777216 < 256
      PROVE  /\ Prefix(n) \in Seq(Byte)
             /\ Len(Prefix(n)) = 4
             /\ ((Prefix(n)[1] * 256 + Prefix(n)[2]) * 256 + Prefix(n)[3]) * 256 + Prefix(n)[4] = n
  <2>1. n = (n \div 256) * 256 + (n % 256) /\ n % 256 \in Byte
    BY SMT DEF Byte
  <2>2. n \div 256 = (n \div 65536) * 256 + ((n \div 256) % 256) /\ (n \div 256) % 256 \in Byte
    BY SMT DEF Byte
  <2>3. n \div 65536 = (n \div 16777216) * 256 + ((n \div 65536) % 256) /\ (n \div 65536) % 256 \in Byte
    BY SMT DEF Byte
  <2>4. (n \div 16777216) % 256 = n \div 16777216 /\ (n \div 16777216) % 256 \in Byte
    BY <1>1, SMT DEF Byte
  <2>. QED
    BY <2>1, <2>2, <2>3, <2>4, SMT DEF Prefix
<1>2. Len(m) \in Nat /\ Len(m) \div 16777216 < 256
  BY SMT DEF Messages
<1>. QED
  BY <1>1, <1>2, SMT

\* What the buffer becomes when one more message is written.
LEMMA WrittenStep ==
    ASSUME NEW ms \in Seq(Messages)
    PROVE  /\ Written(ms)[0] = <<>>
           /\ \A n \in 1..Len(ms) :
                /\ ms[n] \in Messages
                /\ Written(ms)[n] = Written(ms)[n - 1] \o Prefix(Len(ms[n])) \o ms[n]
<1>. DEFINE w == Written(ms)
<1>1. w = [n \in 0..Len(ms) |-> IF n = 0 THEN <<>> ELSE w[n - 1] \o Prefix(Len(ms[n])) \o ms[n]]
  BY WrittenRecursion
<1>2. 0 \in 0..Len(ms) /\ \A n \in 1..Len(ms) : n \in 0..Len(ms) /\ n # 0
  OBVIOUS
<1>. HIDE DEF w
<1>. QED
  BY <1>1, <1>2 DEF w

\* The buffer holds bytes only.
LEMMA WrittenType ==
    ASSUME NEW ms \in Seq(Messages)
    PROVE  \A n \in 0..Len(ms) : Written(ms)[n] \in Seq(Byte)
<1>. DEFINE S == {n \in Nat : n \in 0..Len(ms) => Written(ms)[n] \in Seq(Byte)}
<1>1. 0 \in S
  <2>1. Written(ms)[0] = <<>>
    BY WrittenStep
  <2>2. <<>> \in Seq(Byte)
    OBVIOUS
  <2>. QED
    BY <2>1, <2>2
<1>2. ASSUME NEW n \in S PROVE n + 1 \in S
  <2>. SUFFICES ASSUME n + 1 \in 0..Len(ms) PROVE Written(ms)[n + 1] \in Seq(Byte)
    OBVIOUS
  <2>1. n \in Nat /\ n \in 0..Len(ms) /\ n + 1 \in 1..Len(ms) /\ (n + 1) - 1 = n
    OBVIOUS
  <2>2. Written(ms)[n] \in Seq(Byte)
    BY <2>1
  <2>. HIDE DEF S
  <2>3. ms[n + 1] \in Messages /\ Written(ms)[n + 1] = Written(ms)[n] \o Prefix(Len(ms[n + 1])) \o ms[n + 1]
    BY <2>1, WrittenStep
  <2>4. ms[n + 1] \in Seq(Byte) /\ Prefix(Len(ms[n + 1])) \in Seq(Byte)
    BY <2>3, PrefixTells DEF Messages
  <2>. QED
    BY <2>2, <2>3, <2>4
<1>3. S = Nat
  <2>1. S \subseteq Nat
    OBVIOUS
  <2>. HIDE DEF S
  <2>. QED
    BY <1>1, <1>2, <2>1, SetInduction
<1>. QED
  BY <1>3

\* A blob is a sequence of bytes.
LEMMA MarshalType ==
    ASSUME NEW ms \in Seq(Messages)
    PROVE  Marshal(ms) \in Seq(Byte)
BY WrittenType DEF Marshal

\* Where the elements of two sequences are after one is put behind the other.
LEMMA ConcatPlaces ==
    ASSUME NEW a \in Seq(Byte), NEW b \in Seq(Byte)
    PROVE  /\ a \o b \in Seq(Byte)
           /\ Len(a) \in Nat /\ Len(b) \in Nat
           /\ Len(a \o b) = Len(a) + Len(b)
           /\ \A i \in 1..Len(a) : (a \o b)[i] = a[i]
           /\ \A i \in 1..Len(b) : (a \o b)[Len(a) + i] = b[i]
<1>1. /\ a \o b \in Seq(Byte)
      /\ Len(a \o b) = Len(a) + Len(b)
      /\ \A i \in 1 .. Len(a) + Len(b) : (a \o b)[i] = IF i <= Len(a) THEN a[i] ELSE b[i - Len(a)]
  BY ConcatProperties
<1>2. Len(a) \in Nat /\ Len(b) \in Nat
  OBVIOUS
<1>. DEFINE m == Len(a)
            n == Len(b)
            d == a \o b
<1>3. /\ \A i \in 1 .. m + n : d[i] = IF i <= m THEN a[i] ELSE b[i - m]
      /\ m \in Nat /\ n \in Nat
  BY <1>1, <1>2
<1>. HIDE DEF m, n, d
<1>4. ASSUME NEW i \in 1..m PROVE d[i] = a[i]
  <2>1. i \in 1 .. m + n /\ i <= m
    BY <1>3
  <2>. QED
    BY <1>3, <2>1
<1>5. ASSUME NEW i \in 1..n PROVE d[m + i] = b[i]
  <2>1. m + i \in 1 .. m + n /\ ~(m + i <= m) /\ (m + i) - m = i
    BY <1>3
  <2>. QED
    BY <1>3, <2>1
<1>. QED
  BY <1>1, <1>2, <1>4, <1>5 DEF m, n, d

\* Where the parts of one entry are in the buffer it was written to.
LEMMA EntryPlaces ==
    ASSUME NEW ms \in Seq(Messages), NEW n \in 1..Len(ms)
    PROVE  LET old == Written(ms)[n - 1]
               new == Written(ms)[n]
           IN  /\ Len(old) \in Nat
               /\ Len(new) = Len(old) + 4 + Len(ms[n])
               /\ \A i \in 1..Len(old) : new[i] = old[i]
               /\ \A i \in 1..4 : new[Len(old) + i] = Prefix(Len(ms[n]))[i]
               /\ \A i \in 1..Len(ms[n]) : new[Len(old) + 4 + i] = ms[n][i]
<1>2. n - 1 \in 0..Len(ms)
  OBVIOUS
<1>3. Written(ms)[n - 1] \in Seq(Byte)
  BY <1>2, WrittenType
<1>4. /\ ms[n] \in Messages
      /\ Written(ms)[n] = Written(ms)[n - 1] \o Prefix(Len(ms[n])) \o ms[n]
  BY WrittenStep
<1>. DEFINE a == Written(ms)[n - 1]
            b == Prefix(Len(ms[n]))
            c == ms[n]
<1>5. c \in Seq(Byte) /\ b \in Seq(Byte) /\ Len(b) = 4
  BY <1>4, PrefixTells DEF Messages
<1>6. /\ Len(a) \in Nat
      /\ Len(Written(ms)[n]) = Len(a) + 4 + Len(c)
      /\ \A i \in 1..Len(a) : Written(ms)[n][i] = a[i]
      /\ \A i \in 1..4 : Written(ms)[n][Len(a) + i] = b[i]
      /\ \A i \in 1..Len(c) : Written(ms)[n][Len(a) + 4 + i] = c[i]
  <2>. DEFINE d == a \o b
              new == Written(ms)[n]
  <2>1. a \in Seq(Byte) /\ new = d \o c
    BY <1>3, <1>4
  <2>. HIDE DEF a, b, c, new
  <2>2. /\ d \in Seq(Byte) /\ Len(a) \in Nat
        /\ Len(d) = Len(a) + 4
        /\ \A i \in 1..Len(a) : d[i] = a[i]
        /\ \A i \in 1..4 : d[Len(a) + i] = b[i]
    <3>1. /\ d \in Seq(Byte)
          /\ Len(a) \in Nat /\ Len(d) = Len(a) + Len(b)
          /\ \A i \in 1..Len(a) : d[i] = a[i]
          /\ \A i \in 1..Len(b) : d[Len(a) + i] = b[i]
      <4>1. a \in Seq(Byte) /\ b \in Seq(Byte)
        BY <1>5, <2>1
      <4>. HIDE DEF d
      <4>2. d = a \o b
        BY DEF d
      <4>. QED
        BY <4>1, <4>2, ConcatPlaces
    <3>. QED
      BY <1>5, <3>1
  <2>. HIDE DEF d
  <2>3. /\ Len(c) \in Nat /\ Len(new) = Len(d) + Len(c)
        /\ \A i \in 1..Len(d) : new[i] = d[i]
        /\ \A i \in 1..Len(c) : new[Len(d) + i] = c[i]
    <3>1. c \in Seq(Byte) /\ d \in Seq(Byte)
      BY <1>5, <2>2
    <3>. QED
      BY <2>1, <3>1, ConcatPlaces
  <2>4. /\ \A i \in 1..Len(a) : i \in 1..Len(d)
        /\ \A i \in 1..4 : Len(a) + i \in 1..Len(d)
    BY <2>2
  <2>. QED
    BY <2>2, <2>3, <2>4 DEF new
<1>. QED
  BY <1>6

\* What is in the buffer stays where it is.
LEMMA WrittenGrows ==
    ASSUME NEW ms \in Seq(Messages), NEW j \in 0..Len(ms)
    PROVE  \A k \in j..Len(ms) :
               /\ Len(Written(ms)[j]) <= Len(Written(ms)[k])
               /\ \A i \in 1..Len(Written(ms)[j]) : Written(ms)[k][i] = Written(ms)[j][i]
<1>. DEFINE w == Written(ms)
            Kept(k) == Len(w[j]) <= Len(w[k]) /\ \A i \in 1..Len(w[j]) : w[k][i] = w[j][i]
            S == {d \in Nat : j + d <= Len(ms) => Kept(j + d)}
<1>1. \A k \in 0..Len(ms) : Len(w[k]) \in Nat
  BY WrittenType
<1>. HIDE DEF w
<1>2. 0 \in S
  BY <1>1
<1>3. ASSUME NEW d \in S PROVE d + 1 \in S
  <2>. SUFFICES ASSUME j + d + 1 <= Len(ms) PROVE Kept(j + d + 1)
    OBVIOUS
  <2>1. d \in Nat /\ j + d \in 0..Len(ms) /\ j + d + 1 \in 1..Len(ms) /\ (j + d + 1) - 1 = j + d
    OBVIOUS
  <2>2. Kept(j + d)
    BY <2>1
  <2>. HIDE DEF S
  <2>. DEFINE n == j + d + 1
  <2>3. /\ Len(w[n - 1]) \in Nat
        /\ Len(ms[n]) \in Nat
        /\ Len(w[n]) = Len(w[n - 1]) + 4 + Len(ms[n])
        /\ \A i \in 1..Len(w[n - 1]) : w[n][i] = w[n - 1][i]
    <3>1. n \in 1..Len(ms)
      BY <2>1
    <3>. HIDE DEF n
    <3>2. ms[n] \in Messages
      BY <3>1
    <3>3. Len(ms[n]) \in Nat
      BY <3>2, PrefixTells
    <3>. QED
      BY <3>1, <3>3, EntryPlaces DEF w
  <2>4. Len(w[j]) \in Nat /\ Kept(n - 1)
    BY <1>1, <2>1, <2>2
  <2>. HIDE DEF n
  <2>. DEFINE first == Len(w[j])
              old == Len(w[n - 1])
              new == Len(w[n])
              more == Len(ms[n])
  <2>5. /\ first \in Nat /\ old \in Nat /\ more \in Nat
        /\ new = old + 4 + more /\ first <= old
    BY <2>3, <2>4
  <2>6. first <= new /\ \A i \in 1..first : i \in 1..old
    <3>. HIDE DEF first, old, new, more
    <3>. QED
      BY <2>5
  <2>7. \A i \in 1..first : w[n][i] = w[j][i]
    BY <2>3, <2>4, <2>6
  <2>8. Kept(n)
    BY <2>6, <2>7
  <2>. QED
    BY <2>8 DEF n
<1>4. S = Nat
  <2>1. S \subseteq Nat
    OBVIOUS
  <2>. HIDE DEF S
  <2>. QED
    BY <1>2, <1>3, <2>1, SetInduction
<1>5. ASSUME NEW k \in j..Len(ms) PROVE Kept(k)
  <2>1. k - j \in Nat /\ j + (k - j) = k /\ k <= Len(ms)
    OBVIOUS
  <2>2. j + (k - j) <= Len(ms) => Kept(j + (k - j))
    <3>. HIDE DEF Kept
    <3>. QED
      BY <1>4, <2>1
  <2>. QED
    BY <2>1, <2>2
<1>. QED
  BY <1>5 DEF w

-----------------------------------------------------------------------------
\* The reader's positions go up entry by entry.
LEMMA EndsRecursion ==
    ASSUME NEW blob, NEW N \in Nat
    PROVE  /\ Ends(blob, N)[0] = 0
           /\ \A k \in 1..N : Ends(blob, N)[k] = Ends(blob, N)[k - 1] + 4 + NumberAt(blob, Ends(blob, N)[k - 1])
<1>. DEFINE Next(p) == p + 4 + NumberAt(blob, p)
            IsEnd(f, m) == f = [k \in 0..m |-> IF k = 0 THEN 0 ELSE f[k - 1] + 4 + NumberAt(blob, f[k - 1])]
            S == {m \in Nat : \E f : IsEnd(f, m)}
<1>1. 0 \in S
  <2>. DEFINE f == [k \in 0..0 |-> 0]
  <2>1. f = [k \in 0..0 |-> IF k = 0 THEN 0 ELSE f[k - 1] + 4 + NumberAt(blob, f[k - 1])]
    OBVIOUS
  <2>. QED
    BY <2>1
<1>2. ASSUME NEW m \in S PROVE m + 1 \in S
  <2>1. PICK f : IsEnd(f, m)
    BY <1>2
  <2>. DEFINE g == [k \in 0..(m + 1) |-> IF k = m + 1 THEN f[m] + 4 + NumberAt(blob, f[m]) ELSE f[k]]
  <2>2. ASSUME NEW k \in 0..(m + 1)
        PROVE  g[k] = IF k = 0 THEN 0 ELSE g[k - 1] + 4 + NumberAt(blob, g[k - 1])
    <3>1. CASE k = m + 1
      BY <3>1, g[m] = f[m]
    <3>2. CASE k # m + 1
      <4>1. k \in 0..m /\ g[k] = f[k] /\ (k # 0 => k - 1 \in 0..m /\ g[k - 1] = f[k - 1])
        BY <3>2
      <4>. HIDE DEF g
      <4>. QED
        BY <2>1, <4>1
    <3>. QED
      BY <3>1, <3>2
  <2>3. g = [k \in 0..(m + 1) |-> g[k]]
    OBVIOUS
  <2>4. IsEnd(g, m + 1)
    <3>. DEFINE h == [k \in 0..(m + 1) |-> IF k = 0 THEN 0 ELSE g[k - 1] + 4 + NumberAt(blob, g[k - 1])]
    <3>. HIDE DEF g
    <3>1. \A k \in 0..(m + 1) : h[k] = g[k]
      BY <2>2
    <3>2. h = [k \in 0..(m + 1) |-> h[k]]
      OBVIOUS
    <3>. HIDE DEF h
    <3>3. h = g
      BY <2>3, <3>1, <3>2
    <3>. QED
      BY <3>3 DEF h
  <2>5. m + 1 \in Nat
    OBVIOUS
  <2>. HIDE DEF g, IsEnd
  <2>. QED
    BY <2>4, <2>5
<1>3. N \in S
  <2>1. S \subseteq Nat
    BY DEF S
  <2>. HIDE DEF S
  <2>2. S = Nat
    BY <1>1, <1>2, <2>1, SetInduction
  <2>. QED
    BY <2>2
<1>4. \E f : IsEnd(f, N)
  BY <1>3
<1>5. Ends(blob, N) = CHOOSE f : IsEnd(f, N)
  BY DEF Ends
<1>6. IsEnd(Ends(blob, N), N)
  <2>. HIDE DEF IsEnd
  <2>. QED
    BY <1>4, <1>5
<1>. DEFINE e == Ends(blob, N)
<1>7. e = [k \in 0..N |-> IF k = 0 THEN 0 ELSE e[k - 1] + 4 + NumberAt(blob, e[k - 1])]
  BY <1>6
<1>8. 0 \in 0..N /\ \A k \in 1..N : k \in 0..N /\ k # 0
  OBVIOUS
<1>. HIDE DEF e
<1>. QED
  BY <1>7, <1>8 DEF e

\* For all messages, the blob made of them reads as these messages: a length
\* prefix is never mistaken, whatever bytes the messages have, and an empty
\* message is found again as one.
THEOREM BlobReadsAsWritten ==
    ASSUME NEW ms \in Seq(Messages)
    PROVE  ReadsAs(Marshal(ms), ms)
<1>. DEFINE N == Len(ms)
            w == Written(ms)
            blob == Marshal(ms)
            end == Ends(blob, N)
            S == {k \in Nat : k <= N => end[k] = Len(w[k])}
<1>1. N \in Nat /\ blob = w[N]
  BY DEF Marshal
<1>2. \A k \in 0..N : w[k] \in Seq(Byte)
  BY WrittenType
<1>3. Len(w[0]) = 0 /\ end[0] = 0
  <2>1. Written(ms)[0] = <<>> /\ Len(<<>>) = 0
    BY WrittenStep
  <2>2. Ends(blob, N)[0] = 0
    <3>. HIDE DEF N, blob
    <3>. QED
      BY <1>1, EndsRecursion
  <2>. QED
    BY <2>1, <2>2
<1>4. ASSUME NEW k \in 1..N
      PROVE  /\ Len(w[k - 1]) \in Nat /\ Len(ms[k]) \in Nat
             /\ ms[k] \in Seq(Byte)
             /\ Len(w[k]) = Len(w[k - 1]) + 4 + Len(ms[k])
             /\ Len(w[k]) <= Len(blob)
             /\ NumberAt(blob, Len(w[k - 1])) = Len(ms[k])
             /\ \A i \in 1..Len(ms[k]) : blob[Len(w[k - 1]) + 4 + i] = ms[k][i]
  <2>1. ms[k] \in Messages
    OBVIOUS
  <2>2. /\ Len(ms[k]) \in Nat
        /\ LET p == Prefix(Len(ms[k]))
           IN  ((p[1] * 256 + p[2]) * 256 + p[3]) * 256 + p[4] = Len(ms[k])
    BY <2>1, PrefixTells
  <2>3. /\ Len(w[k - 1]) \in Nat
        /\ Len(w[k]) = Len(w[k - 1]) + 4 + Len(ms[k])
        /\ \A i \in 1..4 : w[k][Len(w[k - 1]) + i] = Prefix(Len(ms[k]))[i]
        /\ \A i \in 1..Len(ms[k]) : w[k][Len(w[k - 1]) + 4 + i] = ms[k][i]
    BY EntryPlaces
  <2>4. Len(w[k]) <= Len(blob) /\ \A i \in 1..Len(w[k]) : blob[i] = w[k][i]
    <3>1. k \in 0..Len(ms) /\ N \in k..Len(ms)
      BY <1>1
    <3>. QED
      BY <1>1, <3>1, WrittenGrows
  <2>5. Len(blob) \in Nat
    BY <1>1, <1>2
  <2>. DEFINE at == Len(w[k - 1])
  <2>. HIDE DEF N, w, blob, end, S, at
  <2>. DEFINE more == Len(ms[k])
              new == Len(w[k])
              all == Len(blob)
  <2>10. /\ more \in Nat /\ at \in Nat /\ all \in Nat
         /\ new = at + 4 + more /\ new <= all
    BY <2>2, <2>3, <2>4, <2>5 DEF at
  <2>11. /\ \A i \in 1..4 : at + i \in 1..new
         /\ \A i \in 1..more : at + 4 + i \in 1..new
         /\ at + 4 <= all
    <3>. HIDE DEF more, new, all
    <3>. QED
      BY <2>10
  <2>6. \A i \in 1..4 : blob[Len(w[k - 1]) + i] = Prefix(Len(ms[k]))[i]
    BY <2>11, <2>3, <2>4 DEF at
  <2>7. \A i \in 1..Len(ms[k]) : blob[Len(w[k - 1]) + 4 + i] = ms[k][i]
    BY <2>11, <2>3, <2>4 DEF at
  <2>8. Len(w[k - 1]) + 4 <= Len(blob)
    BY <2>11 DEF at
  <2>9. NumberAt(blob, Len(w[k - 1])) = Len(ms[k])
    BY <2>2, <2>3, <2>5, <2>6, <2>8 DEF NumberAt
  <2>12. ms[k] \in Seq(Byte)
    BY <2>1 DEF Messages
  <2>. QED
    BY <2>2, <2>3, <2>4, <2>7, <2>9, <2>12
<1>5. \A k \in 1..N : end[k] = end[k - 1] + 4 + NumberAt(blob, end[k - 1])
  BY <1>1, EndsRecursion
<1>6. blob \in Seq(Byte)
  BY <1>1, <1>2
<1>. HIDE DEF N, w, blob, end
<1>7. S = Nat
  <2>1. 0 \in S
    BY <1>3
  <2>2. ASSUME NEW k \in S PROVE k + 1 \in S
    <3>. SUFFICES ASSUME k + 1 <= N PROVE end[k + 1] = Len(w[k + 1])
      OBVIOUS
    <3>1. k \in Nat /\ k <= N /\ k + 1 \in 1..N /\ (k + 1) - 1 = k
      BY <1>1
    <3>2. end[k] = Len(w[k])
      BY <3>1
    <3>. HIDE DEF S
    <3>. DEFINE n == k + 1
    <3>3. n \in 1..N /\ end[n - 1] = Len(w[n - 1])
      BY <3>1, <3>2
    <3>. HIDE DEF n
    <3>4. /\ end[n] = Len(w[n - 1]) + 4 + NumberAt(blob, Len(w[n - 1]))
          /\ NumberAt(blob, Len(w[n - 1])) = Len(ms[n])
          /\ Len(w[n]) = Len(w[n - 1]) + 4 + Len(ms[n])
      BY <1>4, <1>5, <3>3
    <3>. QED
      BY <3>4 DEF n
  <2>3. S \subseteq Nat
    OBVIOUS
  <2>. HIDE DEF S
  <2>. QED
    BY <2>1, <2>2, <2>3, SetInduction
<1>8. \A k \in 0..N : end[k] = Len(w[k])
  BY <1>1, <1>7
<1>. HIDE DEF S
<1>9. end[N] = Len(blob)
  BY <1>1, <1>8
<1>10. ASSUME NEW k \in 1..N PROVE SubSeq(blob, end[k - 1] + 5, end[k]) = ms[k]
  <2>. DEFINE a == Len(w[k - 1])
              m == ms[k]
  <2>1. end[k - 1] = a /\ end[k] = a + 4 + Len(m)
    <3>1. k - 1 \in 0..N /\ k \in 0..N
      BY <1>1
    <3>2. end[k] = Len(w[k]) /\ Len(w[k]) = Len(w[k - 1]) + 4 + Len(ms[k])
      BY <1>4, <1>8, <3>1
    <3>. QED
      BY <1>8, <3>1, <3>2
  <2>2. /\ a \in Nat /\ Len(m) \in Nat /\ m \in Seq(Byte)
        /\ a + 4 + Len(m) <= Len(blob)
        /\ \A i \in 1..Len(m) : blob[a + 4 + i] = m[i]
    BY <1>4
  <2>. HIDE DEF a, m
  <2>3. SubSeq(blob, a + 5, a + 4 + Len(m)) = m
    <3>. DEFINE t == SubSeq(blob, a + 5, a + 4 + Len(m))
    <3>1. t \in Seq(Byte) /\ Len(t) = Len(m) /\ \A i \in 1..Len(m) : t[i] = blob[a + 4 + i]
      BY <1>6, <2>2
    <3>. HIDE DEF t
    <3>2. t = m
      BY <2>2, <3>1
    <3>. QED
      BY <3>2 DEF t
  <2>. QED
    BY <2>1, <2>3 DEF m
<1>. QED
  BY <1>9, <1>10 DEF ReadsAs, N, blob, end
=============================================================================

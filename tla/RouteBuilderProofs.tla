------------------------- MODULE RouteBuilderProofs -------------------------
(***************************************************************************)
(* What the route program reads of a route, for every set of venues and    *)
(* mints, every binding and every number of legs.                          *)
(***************************************************************************)
EXTENDS RouteBuilder, SequenceTheorems, TLAPS

IsSeq(s) == s \in Seq(Range(s))

-----------------------------------------------------------------------------
(* Sequences, whatever their elements are. *)

LEMMA SeqFacts ==
    ASSUME NEW s, IsSeq(s)
    PROVE  /\ Len(s) \in Nat /\ DOMAIN s = 1 .. Len(s)
           /\ \A i \in 1 .. Len(s) : s[i] \in Range(s)
           /\ \A x \in Range(s) : \E i \in 1 .. Len(s) : s[i] = x
BY LenProperties DEF IsSeq, Range

LEMMA SeqOf ==
    ASSUME NEW S, NEW s \in Seq(S)
    PROVE  IsSeq(s)
<1>1. s \in [1 .. Len(s) -> S] /\ Len(s) \in Nat
  BY LenProperties
<1>2. s \in [1 .. Len(s) -> Range(s)]
  BY <1>1 DEF Range
<1> QED
  BY <1>1, <1>2, SeqDef DEF IsSeq

\* A function on an initial segment of the numbers.
LEMMA SegmentSeq ==
    ASSUME NEW n \in Nat, NEW s, DOMAIN s = 1 .. n, s = [i \in 1 .. n |-> s[i]]
    PROVE  IsSeq(s) /\ Len(s) = n
<1>1. s \in [1 .. n -> Range(s)]
  BY DEF Range
<1>2. s \in Seq(Range(s))
  BY <1>1, SeqDef
<1>3. Len(s) \in Nat /\ DOMAIN s = 1 .. Len(s)
  BY <1>2, LenProperties
<1>4. 1 .. n = 1 .. Len(s)
  BY <1>3
<1>5. n = Len(s)
  BY <1>3, <1>4
<1> QED
  BY <1>2, <1>5 DEF IsSeq

LEMMA ConcatFacts ==
    ASSUME NEW s, NEW t, IsSeq(s), IsSeq(t)
    PROVE  /\ IsSeq(s \o t) /\ Len(s \o t) = Len(s) + Len(t)
           /\ \A i \in 1 .. Len(s) : (s \o t)[i] = s[i]
           /\ \A i \in 1 .. Len(t) : (s \o t)[Len(s) + i] = t[i]
<1> DEFINE S == Range(s) \cup Range(t)
<1>1. s \in Seq(S) /\ t \in Seq(S)
  BY SeqMonotonic DEF IsSeq
<1> HIDE DEF S
<1>2. /\ s \o t \in Seq(S) /\ Len(s \o t) = Len(s) + Len(t)
      /\ \A i \in 1 .. Len(s) + Len(t) : (s \o t)[i] = IF i <= Len(s) THEN s[i] ELSE t[i - Len(s)]
  BY <1>1, ConcatProperties
<1>3. IsSeq(s \o t)
  BY <1>2, SeqOf
<1> QED
  BY <1>1, <1>2, <1>3, LenProperties

LEMMA AppendFacts ==
    ASSUME NEW s, NEW x, IsSeq(s)
    PROVE  /\ IsSeq(Append(s, x)) /\ Len(Append(s, x)) = Len(s) + 1
           /\ \A i \in 1 .. Len(s) : Append(s, x)[i] = s[i]
           /\ Append(s, x)[Len(s) + 1] = x
<1> DEFINE S == Range(s) \cup {x}
<1>1. s \in Seq(S) /\ x \in S
  BY SeqMonotonic DEF IsSeq
<1> HIDE DEF S
<1>2. /\ Append(s, x) \in Seq(S) /\ Len(Append(s, x)) = Len(s) + 1
      /\ \A i \in 1 .. Len(s) : Append(s, x)[i] = s[i]
      /\ Append(s, x)[Len(s) + 1] = x
  BY <1>1, AppendProperties
<1> QED
  BY <1>2, SeqOf

LEMMA EmptyFacts == IsSeq(<<>>) /\ Len(<<>>) = 0
BY EmptySeq, SeqOf

LEMMA EmptyOnly == ASSUME NEW s, IsSeq(s) PROVE s = <<>> <=> Len(s) = 0
BY EmptySeq DEF IsSeq

-----------------------------------------------------------------------------
(* Numbers as bytes. *)

LEMMA DivMod ==
    ASSUME NEW n \in Nat, NEW b \in Nat, b > 0
    PROVE  /\ n = (n \div b) * b + (n % b)
           /\ n \div b \in Nat /\ n % b \in Nat /\ n % b < b
<1>1. n = (n \div b) * b + (n % b)
  BY SMTT(30)
<1>2. n \div b \in Nat /\ n % b \in 0 .. b - 1
  BY SMTT(30)
<1> QED
  BY <1>1, <1>2

LEMMA Commutes == ASSUME NEW x \in Int, NEW y \in Int PROVE x * y = y * x
OBVIOUS

LEMMA DivLess ==
    ASSUME NEW n \in Nat, NEW b \in Nat, b > 0, NEW y \in Nat, n < y * b
    PROVE  n \div b < y
<1> DEFINE q == n \div b
<1>1. q \in Nat /\ q * b <= n
  BY DivMod
<1> HIDE DEF q
<1>2. q * b < y * b
  <2> DEFINE l == q * b
             r == y * b
  <2>1. l \in Nat /\ r \in Nat /\ l <= n /\ n < r
    BY <1>1
  <2> HIDE DEF l, r
  <2>2. l < r
    BY <2>1
  <2> QED
    BY <2>2 DEF l, r
<1>3. ASSUME q >= y PROVE FALSE
  <2>1. q * b >= y * b
    BY <1>1, <1>3
  <2> DEFINE l == q * b
             r == y * b
  <2>2. l \in Nat /\ r \in Nat
    BY <1>1
  <2>3. l < r /\ l >= r
    BY <1>2, <2>1
  <2> HIDE DEF l, r
  <2> QED
    BY <2>2, <2>3
<1> QED
  BY <1>1, <1>3 DEF q

\* One digit and the rest.
LEMMA Digit ==
    ASSUME NEW n \in Nat
    PROVE  /\ (n % ByteMod) + ByteMod * (n \div ByteMod) = n
           /\ n \div ByteMod \in Nat /\ n % ByteMod \in Nat
<1>1. ByteMod \in Nat /\ ByteMod > 0
  BY RouteAssumption
<1> DEFINE q == n \div ByteMod
           r == n % ByteMod
<1>2. n = q * ByteMod + r /\ q \in Nat /\ r \in Nat
  BY <1>1, DivMod
<1> HIDE DEF q, r
<1>3. q * ByteMod = ByteMod * q
  BY <1>1, <1>2, Commutes
<1> DEFINE p == q * ByteMod
<1>4. p \in Nat /\ n = p + r /\ p = ByteMod * q
  BY <1>1, <1>2, <1>3
<1> HIDE DEF p
<1>5. r + ByteMod * q = n
  BY <1>2, <1>4
<1> QED
  BY <1>2, <1>5 DEF q, r

LEMMA LastDigit ==
    ASSUME NEW n \in Nat, n < ByteMod
    PROVE  n % ByteMod = n
BY RouteAssumption

\* A number of 32 bits is read back from wherever its bytes are.
LEMMA ReadsU32 ==
    ASSUME NEW n \in Nat, n < Word, NEW b, NEW i \in Nat,
           \A j \in 0 .. 3 : b[i + j] = U32Bytes(n)[j + 1]
    PROVE  U32At(b, i) = n
<1> DEFINE p == n \div ByteMod
           q == p \div ByteMod
           r == q \div ByteMod
<1>1. ByteMod \in Nat /\ ByteMod > 0 /\ Word = ByteMod * ByteMod * ByteMod * ByteMod
  BY RouteAssumption DEF Word
<1>2. U32Bytes(n) = <<n % ByteMod, p % ByteMod, q % ByteMod, r % ByteMod>>
  BY DEF U32Bytes
<1>3. p \in Nat /\ (n % ByteMod) + ByteMod * p = n
  BY Digit
<1>4. p < ByteMod * ByteMod * ByteMod
  BY <1>1, DivLess
<1> HIDE DEF p
<1>5. q \in Nat /\ (p % ByteMod) + ByteMod * q = p
  BY <1>3, Digit
<1>6. q < ByteMod * ByteMod
  BY <1>1, <1>3, <1>4, DivLess
<1> HIDE DEF q
<1>7. r \in Nat /\ (q % ByteMod) + ByteMod * r = q
  BY <1>5, Digit
<1>8. r < ByteMod
  BY <1>1, <1>5, <1>6, DivLess
<1> HIDE DEF r
<1>9. r % ByteMod = r
  BY <1>7, <1>8, LastDigit
<1>10. b[i] = n % ByteMod /\ b[i + 1] = p % ByteMod /\ b[i + 2] = q % ByteMod /\ b[i + 3] = r
  <2>1. b[i + 0] = U32Bytes(n)[1] /\ b[i + 1] = U32Bytes(n)[2] /\ b[i + 2] = U32Bytes(n)[3]
        /\ b[i + 3] = U32Bytes(n)[4]
    OBVIOUS
  <2> QED
    BY <1>2, <1>9, <2>1
<1>11. U32At(b, i) = (n % ByteMod) + ByteMod * ((p % ByteMod) + ByteMod * ((q % ByteMod) + ByteMod * r))
  BY <1>10 DEF U32At
<1> QED
  BY <1>3, <1>5, <1>7, <1>11, Zenon

LEMMA WordIsPositive == Word \in Nat /\ Word > 0
<1>1. ByteMod \in Nat /\ ByteMod > 0
  BY RouteAssumption
<1>2. \A x, y \in Nat : x > 0 /\ y > 0 => x * y \in Nat /\ x * y > 0
  OBVIOUS
<1> QED
  BY <1>1, <1>2 DEF Word

LEMMA WordBytes ==
    ASSUME NEW n \in Nat
    PROVE  IsSeq(U32Bytes(n)) /\ Len(U32Bytes(n)) = 4
<1>1. \A x, y, z, w : <<x, y, z, w>> \in Seq({x, y, z, w}) /\ Len(<<x, y, z, w>>) = 4
  OBVIOUS
<1> QED
  BY <1>1, SeqOf DEF U32Bytes

LEMMA TwoWords ==
    ASSUME NEW s, NEW t, IsSeq(s), IsSeq(t), Len(s) = 4, Len(t) = 4
    PROVE  \A j \in 1 .. 4 : (s \o t)[j] = s[j] /\ (s \o t)[4 + j] = t[j]
<1>1. /\ \A j \in 1 .. Len(s) : (s \o t)[j] = s[j]
      /\ \A j \in 1 .. Len(t) : (s \o t)[Len(s) + j] = t[j]
  <2>1. IsSeq(s) /\ IsSeq(t)
    OBVIOUS
  <2> QED
    BY ONLY <2>1, ConcatFacts
<1> QED
  BY <1>1

\* So is one of 64.
LEMMA ReadsU64 ==
    ASSUME NEW n \in Nat, n \div Word < Word, NEW b, NEW i \in Nat,
           \A j \in 0 .. 7 : b[i + j] = U64Bytes(n)[j + 1]
    PROVE  U64At(b, i) = n
<1> DEFINE low == n % Word
           high == n \div Word
<1>1. Word \in Nat /\ Word > 0
  BY WordIsPositive
<1>2. n = high * Word + low /\ high \in Nat /\ low \in Nat /\ low < Word /\ high < Word
  <2>1. n = high * Word + low /\ high \in Nat /\ low \in Nat /\ low < Word
    BY <1>1, DivMod
  <2>2. high < Word
    OBVIOUS
  <2> QED
    BY <2>1, <2>2, Zenon
<1> HIDE DEF low, high
<1>3. U64Bytes(n) = U32Bytes(low) \o U32Bytes(high)
  BY DEF U64Bytes, low, high
<1>4. \A m \in Nat : IsSeq(U32Bytes(m)) /\ Len(U32Bytes(m)) = 4
  BY WordBytes
<1>5. /\ \A j \in 1 .. 4 : U64Bytes(n)[j] = U32Bytes(low)[j]
      /\ \A j \in 1 .. 4 : U64Bytes(n)[4 + j] = U32Bytes(high)[j]
  <2>1. \A j \in 1 .. 4 : /\ (U32Bytes(low) \o U32Bytes(high))[j] = U32Bytes(low)[j]
                          /\ (U32Bytes(low) \o U32Bytes(high))[4 + j] = U32Bytes(high)[j]
    <3>1. /\ IsSeq(U32Bytes(low)) /\ IsSeq(U32Bytes(high))
          /\ Len(U32Bytes(low)) = 4 /\ Len(U32Bytes(high)) = 4
      BY <1>2, <1>4
    <3> QED
      BY ONLY <3>1, TwoWords
  <2> QED
    BY <1>3, <2>1, Zenon
<1>6. \A j \in 0 .. 3 : b[i + j] = U32Bytes(low)[j + 1]
  <2> SUFFICES ASSUME NEW j \in 0 .. 3 PROVE b[i + j] = U32Bytes(low)[j + 1]
    OBVIOUS
  <2>1. b[i + j] = U64Bytes(n)[j + 1] /\ j + 1 \in 1 .. 4
    OBVIOUS
  <2> QED
    BY <1>5, <2>1
<1>7. \A j \in 0 .. 3 : b[(i + 4) + j] = U32Bytes(high)[j + 1]
  <2> SUFFICES ASSUME NEW j \in 0 .. 3 PROVE b[(i + 4) + j] = U32Bytes(high)[j + 1]
    OBVIOUS
  <2>1. b[i + (4 + j)] = U64Bytes(n)[(4 + j) + 1] /\ j + 1 \in 1 .. 4 /\ 4 + j \in 0 .. 7
    OBVIOUS
  <2>2. i + (4 + j) = (i + 4) + j /\ (4 + j) + 1 = 4 + (j + 1)
    OBVIOUS
  <2> QED
    BY <1>5, <2>1, <2>2
<1>8. U32At(b, i) = low /\ U32At(b, i + 4) = high
  BY <1>2, <1>6, <1>7, ReadsU32
<1>9. U64At(b, i) = low + Word * high
  BY <1>8 DEF U64At
<1>10. Word * high = high * Word
  BY <1>1, <1>2, Commutes
<1> DEFINE p == high * Word
<1>11. p \in Nat /\ n = p + low /\ U64At(b, i) = low + p
  BY <1>1, <1>2, <1>9, <1>10
<1> HIDE DEF p
<1> QED
  BY <1>2, <1>11

-----------------------------------------------------------------------------
(* The arguments of a route, from the client to the program. *)

LEMMA OneFacts == ASSUME NEW x PROVE IsSeq(<<x>>) /\ Len(<<x>>) = 1 /\ <<x>>[1] = x
<1>1. <<x>> \in Seq({x}) /\ Len(<<x>>) = 1 /\ <<x>>[1] = x
  OBVIOUS
<1> QED
  BY <1>1, SeqOf

LEMMA LongBytes ==
    ASSUME NEW n \in Nat
    PROVE  IsSeq(U64Bytes(n)) /\ Len(U64Bytes(n)) = 8
<1>1. n % Word \in Nat /\ n \div Word \in Nat
  BY WordIsPositive, DivMod
<1> DEFINE f == U32Bytes(n % Word)
           g == U32Bytes(n \div Word)
<1>2. IsSeq(f) /\ Len(f) = 4 /\ IsSeq(g) /\ Len(g) = 4
  BY <1>1, WordBytes
<1>4. U64Bytes(n) = f \o g
  BY DEF U64Bytes
<1> HIDE DEF f, g
<1>3. IsSeq(f \o g) /\ Len(f \o g) = Len(f) + Len(g)
  <2>1. IsSeq(f) /\ IsSeq(g)
    BY <1>2
  <2> QED
    BY ONLY <2>1, ConcatFacts
<1>5. Len(f \o g) = 8
  BY <1>2, <1>3
<1> QED
  BY ONLY <1>3, <1>4, <1>5, Zenon

\* The fixed part: discriminator, amount, mints, and the number of legs.
Header(amount, mints, count) ==
    <<Discriminator>> \o U64Bytes(amount) \o <<mints>> \o U32Bytes(count)

LEMMA HeaderFacts ==
    ASSUME NEW amount \in Nat, NEW mints, NEW count \in Nat
    PROVE  LET h == Header(amount, mints, count)
           IN  /\ IsSeq(h) /\ Len(h) = 14
               /\ h[1] = Discriminator /\ h[10] = mints
               /\ \A j \in 0 .. 7 : h[2 + j] = U64Bytes(amount)[j + 1]
               /\ \A j \in 0 .. 3 : h[11 + j] = U32Bytes(count)[j + 1]
<1> DEFINE d == <<Discriminator>>
           a == U64Bytes(amount)
           m == <<mints>>
           c == U32Bytes(count)
           da == d \o a
           dam == da \o m
           h == dam \o c
<1>1. /\ IsSeq(d) /\ Len(d) = 1 /\ d[1] = Discriminator /\ IsSeq(m) /\ Len(m) = 1 /\ m[1] = mints
      /\ IsSeq(a) /\ Len(a) = 8 /\ IsSeq(c) /\ Len(c) = 4
  BY OneFacts, LongBytes, WordBytes
<1> HIDE DEF d, a, m, c
<1>2. /\ IsSeq(da) /\ Len(da) = 1 + 8
      /\ \A j \in 1 .. 1 : da[j] = d[j]
      /\ \A j \in 1 .. 8 : da[1 + j] = a[j]
  <2>1. IsSeq(d) /\ IsSeq(a)
    BY <1>1
  <2>2. /\ IsSeq(da) /\ Len(da) = Len(d) + Len(a)
        /\ \A j \in 1 .. Len(d) : da[j] = d[j]
        /\ \A j \in 1 .. Len(a) : da[Len(d) + j] = a[j]
    BY ONLY <2>1, ConcatFacts DEF da
  <2> HIDE DEF da
  <2> QED
    BY ONLY <1>1, <2>2
<1> HIDE DEF da
<1>3. /\ IsSeq(dam) /\ Len(dam) = 9 + 1
      /\ \A j \in 1 .. 9 : dam[j] = da[j]
      /\ \A j \in 1 .. 1 : dam[9 + j] = m[j]
  <2>1. IsSeq(da) /\ IsSeq(m)
    BY <1>1, <1>2
  <2>2. /\ IsSeq(dam) /\ Len(dam) = Len(da) + Len(m)
        /\ \A j \in 1 .. Len(da) : dam[j] = da[j]
        /\ \A j \in 1 .. Len(m) : dam[Len(da) + j] = m[j]
    BY ONLY <2>1, ConcatFacts DEF dam
  <2> HIDE DEF dam
  <2> QED
    BY ONLY <1>1, <1>2, <2>2
<1> HIDE DEF dam
<1>4. /\ IsSeq(h) /\ Len(h) = 10 + 4
      /\ \A j \in 1 .. 10 : h[j] = dam[j]
      /\ \A j \in 1 .. 4 : h[10 + j] = c[j]
  <2>1. IsSeq(dam) /\ IsSeq(c)
    BY <1>1, <1>3
  <2>2. /\ IsSeq(h) /\ Len(h) = Len(dam) + Len(c)
        /\ \A j \in 1 .. Len(dam) : h[j] = dam[j]
        /\ \A j \in 1 .. Len(c) : h[Len(dam) + j] = c[j]
    BY ONLY <2>1, ConcatFacts DEF h
  <2> HIDE DEF h
  <2> QED
    BY ONLY <1>1, <1>3, <2>2
<1> HIDE DEF h
<1>5. h[1] = Discriminator
  BY <1>1, <1>2, <1>3, <1>4
<1>6. h[10] = mints
  BY <1>1, <1>3, <1>4
<1>7. ASSUME NEW j \in 0 .. 7 PROVE h[2 + j] = a[j + 1]
  <2>1. j + 1 \in 1 .. 8 /\ 2 + j \in 1 .. 9 /\ 2 + j \in 1 .. 10 /\ 1 + (j + 1) = 2 + j
    OBVIOUS
  <2>2. da[1 + (j + 1)] = a[j + 1] /\ dam[2 + j] = da[2 + j] /\ h[2 + j] = dam[2 + j]
    BY <1>2, <1>3, <1>4, <2>1
  <2> QED
    BY <2>1, <2>2
<1>8. ASSUME NEW j \in 0 .. 3 PROVE h[11 + j] = c[j + 1]
  <2>1. j + 1 \in 1 .. 4 /\ 10 + (j + 1) = 11 + j
    OBVIOUS
  <2> QED
    BY <1>4, <2>1
<1>9. h = Header(amount, mints, count)
  BY DEF Header, h, dam, da, d, a, m, c
<1>10. /\ IsSeq(h) /\ Len(h) = 14
       /\ \A j \in 0 .. 7 : h[2 + j] = U64Bytes(amount)[j + 1]
       /\ \A j \in 0 .. 3 : h[11 + j] = U32Bytes(count)[j + 1]
  BY <1>4, <1>7, <1>8 DEF a, c
<1> QED
  BY <1>5, <1>6, <1>9, <1>10

\* A leg on the wire.
WireSpec(s) ==
    /\ s = [sellBase |-> s.sellBase, from |-> s.from, to |-> s.to, weight |-> s.weight, n |-> s.n]
    /\ s.sellBase \in BOOLEAN /\ s.weight \in Nat /\ s.weight < Word

LEMMA SpecBytesFacts ==
    ASSUME NEW s, WireSpec(s)
    PROVE  LET b == SpecBytes(s)
           IN  /\ b[1] = QuayTag /\ b[2] = (IF s.sellBase THEN 1 ELSE 0)
               /\ b[3] = s.from /\ b[4] = s.to /\ b[9] = s.n
               /\ \A j \in 0 .. 3 : b[5 + j] = U32Bytes(s.weight)[j + 1]
<1> DEFINE f == <<QuayTag, IF s.sellBase THEN 1 ELSE 0, s.from, s.to>>
           w == U32Bytes(s.weight)
           l == <<s.n>>
           fw == f \o w
           b == fw \o l
<1>1. \A x, y, z, u : <<x, y, z, u>> \in Seq({x, y, z, u}) /\ Len(<<x, y, z, u>>) = 4
  OBVIOUS
<1>2. /\ IsSeq(f) /\ Len(f) = 4 /\ IsSeq(w) /\ Len(w) = 4 /\ IsSeq(l) /\ Len(l) = 1 /\ l[1] = s.n
  BY <1>1, SeqOf, OneFacts, WordBytes DEF WireSpec
<1>3. f[1] = QuayTag /\ f[2] = (IF s.sellBase THEN 1 ELSE 0) /\ f[3] = s.from /\ f[4] = s.to
  OBVIOUS
<1> HIDE DEF f, w, l
<1>4. /\ IsSeq(fw) /\ Len(fw) = 4 + 4
      /\ \A j \in 1 .. 4 : fw[j] = f[j]
      /\ \A j \in 1 .. 4 : fw[4 + j] = w[j]
  <2>1. IsSeq(f) /\ IsSeq(w)
    BY <1>2
  <2>2. /\ IsSeq(fw) /\ Len(fw) = Len(f) + Len(w)
        /\ \A j \in 1 .. Len(f) : fw[j] = f[j]
        /\ \A j \in 1 .. Len(w) : fw[Len(f) + j] = w[j]
    BY ONLY <2>1, ConcatFacts DEF fw
  <2> HIDE DEF fw
  <2> QED
    BY ONLY <1>2, <2>2
<1> HIDE DEF fw
<1>5. /\ \A j \in 1 .. 8 : b[j] = fw[j]
      /\ \A j \in 1 .. 1 : b[8 + j] = l[j]
  <2>1. IsSeq(fw) /\ IsSeq(l)
    BY <1>2, <1>4
  <2>2. /\ IsSeq(b) /\ Len(b) = Len(fw) + Len(l)
        /\ \A j \in 1 .. Len(fw) : b[j] = fw[j]
        /\ \A j \in 1 .. Len(l) : b[Len(fw) + j] = l[j]
    BY ONLY <2>1, ConcatFacts DEF b
  <2> HIDE DEF b
  <2> QED
    BY ONLY <1>2, <1>4, <2>2
<1> HIDE DEF b
<1>6. ASSUME NEW j \in 0 .. 3 PROVE b[5 + j] = w[j + 1]
  <2>1. j + 1 \in 1 .. 4 /\ 4 + (j + 1) = 5 + j /\ 5 + j \in 1 .. 8
    OBVIOUS
  <2>2. fw[4 + (j + 1)] = w[j + 1] /\ b[5 + j] = fw[5 + j]
    BY <1>4, <1>5, <2>1
  <2> QED
    BY <2>1, <2>2
<1>7. b[9] = s.n
  BY <1>2, <1>5
<1>8. b[1] = f[1] /\ b[2] = f[2] /\ b[3] = f[3] /\ b[4] = f[4]
  BY <1>4, <1>5
<1> QED
  BY <1>3, <1>6, <1>7, <1>8 DEF SpecBytes, b, fw, w, f, l

LEMMA Nine ==
    ASSUME NEW i \in Nat, i > 0, NEW j \in 0 .. 8
    PROVE  LET k == SpecSize * (i - 1) + j + 1
           IN  /\ k \in Nat /\ k >= 1
               /\ (k - 1) \div SpecSize + 1 = i /\ ((k - 1) % SpecSize) + 1 = j + 1
               /\ \A l \in Nat : i <= l => k <= SpecSize * l
BY SMTT(30) DEF SpecSize

\* Where everything is in the data.
LEMMA DataFacts ==
    ASSUME NEW amount \in Nat, amount \div Word < Word, NEW mints,
           NEW specs, IsSeq(specs), Len(specs) < Word
    PROVE  LET data == Encode(amount, mints, specs)
           IN  /\ Len(data) = HeaderSize + SpecSize * Len(specs)
               /\ data[1] = Discriminator /\ data[10] = mints
               /\ U64At(data, 2) = amount /\ SpecCount(data) = Len(specs)
               /\ \A i \in 1 .. Len(specs) : \A j \in 0 .. 8 :
                     data[Start(i) + j] = SpecBytes(specs[i])[j + 1]
<1> DEFINE h == Header(amount, mints, Len(specs))
           n == SpecSize * Len(specs)
           body == [k \in 1 .. n |->
                      SpecBytes(specs[(k - 1) \div SpecSize + 1])[((k - 1) % SpecSize) + 1]]
           data == h \o body
<1>1. Len(specs) \in Nat /\ n \in Nat
  BY SeqFacts DEF SpecSize
<1>2. /\ IsSeq(h) /\ Len(h) = 14
      /\ h[1] = Discriminator /\ h[10] = mints
      /\ \A j \in 0 .. 7 : h[2 + j] = U64Bytes(amount)[j + 1]
      /\ \A j \in 0 .. 3 : h[11 + j] = U32Bytes(Len(specs))[j + 1]
  BY <1>1, HeaderFacts
<1>3. IsSeq(body) /\ Len(body) = n
  <2> HIDE DEF n
  <2> QED
    BY <1>1, SegmentSeq
<1>4. ASSUME NEW i \in 1 .. Len(specs), NEW j \in 0 .. 8
      PROVE  LET k == SpecSize * (i - 1) + j + 1
             IN  k \in 1 .. n /\ body[k] = SpecBytes(specs[i])[j + 1]
  <2> DEFINE k == SpecSize * (i - 1) + j + 1
  <2>1. /\ k \in Nat /\ k >= 1
        /\ (k - 1) \div SpecSize + 1 = i /\ ((k - 1) % SpecSize) + 1 = j + 1
        /\ \A l \in Nat : i <= l => k <= SpecSize * l
    <3>1. i \in Nat /\ i > 0
      BY <1>1
    <3> QED
      BY ONLY <3>1, j \in 0 .. 8, Nine
  <2>5. k <= n
    BY <1>1, <2>1
  <2> HIDE DEF k, n
  <2>2. k \in 1 .. n
    BY <1>1, <2>1, <2>5
  <2>3. body[k] = SpecBytes(specs[(k - 1) \div SpecSize + 1])[((k - 1) % SpecSize) + 1]
    BY <2>2
  <2>4. body[k] = SpecBytes(specs[i])[j + 1]
    BY <2>1, <2>3, Zenon
  <2> QED
    BY <2>2, <2>4 DEF k
<1>5. Encode(amount, mints, specs) = data
  BY DEF Encode, Header
<1> HIDE DEF h, body, n
<1>6. /\ Len(data) = Len(h) + Len(body)
      /\ \A i \in 1 .. Len(h) : data[i] = h[i]
      /\ \A i \in 1 .. Len(body) : data[Len(h) + i] = body[i]
  <2>1. IsSeq(h) /\ IsSeq(body)
    BY <1>2, <1>3
  <2> QED
    BY ONLY <2>1, ConcatFacts DEF data
<1> HIDE DEF data
<1>7. /\ Len(data) = 14 + n
      /\ \A i \in 1 .. 14 : data[i] = h[i]
      /\ \A i \in 1 .. n : data[14 + i] = body[i]
  BY ONLY <1>2, <1>3, <1>6
<1>8. data[1] = Discriminator /\ data[10] = mints
  BY <1>2, <1>7
<1>9. \A j \in 0 .. 7 : data[2 + j] = U64Bytes(amount)[j + 1]
  <2> SUFFICES ASSUME NEW j \in 0 .. 7 PROVE data[2 + j] = U64Bytes(amount)[j + 1]
    OBVIOUS
  <2>1. 2 + j \in 1 .. 14
    OBVIOUS
  <2> QED
    BY <1>2, <1>7, <2>1
<1>10. \A j \in 0 .. 3 : data[11 + j] = U32Bytes(Len(specs))[j + 1]
  <2> SUFFICES ASSUME NEW j \in 0 .. 3 PROVE data[11 + j] = U32Bytes(Len(specs))[j + 1]
    OBVIOUS
  <2>1. 11 + j \in 1 .. 14
    OBVIOUS
  <2> QED
    BY <1>2, <1>7, <2>1
<1>11. U64At(data, 2) = amount
  BY <1>9, ReadsU64
<1>12. SpecCount(data) = Len(specs)
  BY <1>1, <1>10, ReadsU32 DEF SpecCount
<1>13. \A i \in 1 .. Len(specs) : \A j \in 0 .. 8 :
         data[Start(i) + j] = SpecBytes(specs[i])[j + 1]
  <2> SUFFICES ASSUME NEW i \in 1 .. Len(specs), NEW j \in 0 .. 8
               PROVE  data[Start(i) + j] = SpecBytes(specs[i])[j + 1]
    OBVIOUS
  <2> DEFINE k == SpecSize * (i - 1) + j + 1
  <2>1. k \in 1 .. n /\ body[k] = SpecBytes(specs[i])[j + 1]
    BY <1>4
  <2>2. Start(i) + j = 14 + k
    BY <1>1 DEF Start, HeaderSize, SpecSize
  <2> HIDE DEF k
  <2>3. data[14 + k] = body[k]
    BY <1>7, <2>1
  <2> QED
    BY <2>1, <2>2, <2>3
<1>14. Len(data) = HeaderSize + SpecSize * Len(specs)
  BY <1>7 DEF HeaderSize, n
<1> QED
  BY <1>5, <1>8, <1>11, <1>12, <1>13, <1>14

\* Two sets of types agree: what encode_swap_route_v3_data writes, Anchor's
\* deserialization of swap_route_v3's arguments reads back, field by field, for
\* every amount of 64 bits, every weight of 32, and every number of legs.
THEOREM RoundTrip ==
    ASSUME NEW amount \in Nat, amount \div Word < Word, NEW mints,
           NEW specs, IsSeq(specs), Len(specs) < Word,
           \A i \in 1 .. Len(specs) : WireSpec(specs[i])
    PROVE  LET data == Encode(amount, mints, specs)
           IN  /\ Decodes(data)
               /\ Decode(data) = [amount |-> amount, mints |-> mints, swaps |-> specs]
<1> DEFINE data == Encode(amount, mints, specs)
<1>1. Len(specs) \in Nat /\ DOMAIN specs = 1 .. Len(specs) /\ specs = [i \in DOMAIN specs |-> specs[i]]
  <2>1. specs = [i \in 1 .. Len(specs) |-> specs[i]]
    BY SeqDef, LenProperties DEF IsSeq
  <2> QED
    BY <2>1, SeqFacts
<1>2. /\ Len(data) = HeaderSize + SpecSize * Len(specs)
      /\ data[1] = Discriminator /\ data[10] = mints
      /\ U64At(data, 2) = amount /\ SpecCount(data) = Len(specs)
      /\ \A i \in 1 .. Len(specs) : \A j \in 0 .. 8 :
            data[Start(i) + j] = SpecBytes(specs[i])[j + 1]
  BY DataFacts
<1> HIDE DEF data
<1>3. ASSUME NEW i \in 1 .. Len(specs)
      PROVE  /\ data[Start(i)] = QuayTag /\ data[Start(i) + 1] \in {0, 1}
             /\ SpecAt(data, Start(i)) = specs[i]
  <2> DEFINE s == specs[i]
             b == SpecBytes(s)
             p == Start(i)
  <2>1. p \in Nat
    BY <1>1 DEF Start, HeaderSize, SpecSize
  <2>2. WireSpec(s)
    OBVIOUS
  <2>3. \A j \in 0 .. 8 : data[p + j] = b[j + 1]
    BY <1>2
  <2> HIDE DEF s, p
  <2>4. /\ b[1] = QuayTag /\ b[2] = (IF s.sellBase THEN 1 ELSE 0)
        /\ b[3] = s.from /\ b[4] = s.to /\ b[9] = s.n
        /\ \A j \in 0 .. 3 : b[5 + j] = U32Bytes(s.weight)[j + 1]
    BY <2>2, SpecBytesFacts
  <2> HIDE DEF b
  <2>5. /\ data[p] = b[1] /\ data[p + 1] = b[2] /\ data[p + 2] = b[3] /\ data[p + 3] = b[4]
        /\ data[p + 8] = b[9]
    <3>1. /\ data[p + 0] = b[0 + 1] /\ data[p + 1] = b[1 + 1] /\ data[p + 2] = b[2 + 1]
          /\ data[p + 3] = b[3 + 1] /\ data[p + 8] = b[8 + 1]
      BY <2>3
    <3> QED
      BY <2>1, <3>1
  <2>6. \A j \in 0 .. 3 : data[(p + 4) + j] = U32Bytes(s.weight)[j + 1]
    <3> SUFFICES ASSUME NEW j \in 0 .. 3
                 PROVE  data[(p + 4) + j] = U32Bytes(s.weight)[j + 1]
      OBVIOUS
    <3>1. 4 + j \in 0 .. 8 /\ p + (4 + j) = (p + 4) + j /\ (4 + j) + 1 = 5 + j
      BY <2>1
    <3>2. data[p + (4 + j)] = b[(4 + j) + 1]
      BY <2>3, <3>1
    <3> QED
      BY <2>4, <3>1, <3>2
  <2>7. s.weight \in Nat /\ s.weight < Word /\ s.sellBase \in BOOLEAN
    BY <2>2 DEF WireSpec
  <2>8. U32At(data, p + 4) = s.weight
    <3> DEFINE q == p + 4
               w == s.weight
    <3>1. q \in Nat /\ w \in Nat /\ w < Word
      BY <2>1, <2>7
    <3>2. \A j \in 0 .. 3 : data[q + j] = U32Bytes(w)[j + 1]
      BY <2>6
    <3> HIDE DEF q, w
    <3>3. U32At(data, q) = w
      BY ONLY <3>1, <3>2, ReadsU32
    <3> QED
      BY <3>3 DEF q, w
  <2>9. (data[p + 1] = 1) = s.sellBase /\ data[p + 1] \in {0, 1}
    BY <2>4, <2>5, <2>7
  <2>10. s = [sellBase |-> s.sellBase, from |-> s.from, to |-> s.to, weight |-> s.weight, n |-> s.n]
    BY <2>2 DEF WireSpec
  <2>11. SpecAt(data, p) = s
    BY <2>4, <2>5, <2>8, <2>9, <2>10, Zenon DEF SpecAt
  <2> QED
    BY <2>4, <2>5, <2>9, <2>11 DEF s, p
<1>4. Decodes(data)
  BY <1>1, <1>2, <1>3 DEF Decodes, HeaderSize, SpecSize
<1>5. [i \in 1 .. SpecCount(data) |-> SpecAt(data, Start(i))] = specs
  <2>1. [i \in 1 .. Len(specs) |-> SpecAt(data, Start(i))] = [i \in 1 .. Len(specs) |-> specs[i]]
    BY <1>3
  <2> QED
    BY <1>1, <1>2, <2>1
<1>6. Decode(data) = [amount |-> amount, mints |-> mints, swaps |-> specs]
  BY <1>2, <1>5 DEF Decode
<1> QED
  BY <1>4, <1>6 DEF data

-----------------------------------------------------------------------------
(* The accounts of a leg. *)

LegKeys(l) == SwapKeys(l.venue, Infos(l.venue), l.in, l.out, l.binding)
CallKeys(k) == [j \in DOMAIN k |-> Meta(k[j], k[j] = Titan)]
LegAccounts(l) == Assemble(l.venue, CallKeys(LegKeys(l)))

LEMMA RangeConcat ==
    ASSUME NEW s, NEW t, IsSeq(s), IsSeq(t)
    PROVE  Range(s \o t) = Range(s) \cup Range(t)
<1> DEFINE r == s \o t
<1>1. /\ IsSeq(r) /\ Len(r) = Len(s) + Len(t)
      /\ \A i \in 1 .. Len(s) : r[i] = s[i]
      /\ \A i \in 1 .. Len(t) : r[Len(s) + i] = t[i]
  BY ConcatFacts
<1>2. /\ Len(s) \in Nat /\ DOMAIN s = 1 .. Len(s) /\ Len(t) \in Nat /\ DOMAIN t = 1 .. Len(t)
  BY SeqFacts
<1> HIDE DEF r
<1>3. DOMAIN r = 1 .. Len(r) /\ Len(r) \in Nat
  BY <1>1, SeqFacts
<1>4. ASSUME NEW x \in Range(r) PROVE x \in Range(s) \cup Range(t)
  <2>1. PICK i \in 1 .. Len(r) : r[i] = x
    BY <1>1, SeqFacts
  <2>2. CASE i <= Len(s)
    BY <1>1, <1>2, <2>1, <2>2 DEF Range
  <2>3. CASE i > Len(s)
    <3> DEFINE j == i - Len(s)
    <3>1. j \in 1 .. Len(t) /\ Len(s) + j = i
      BY <1>1, <1>2, <1>3, <2>1, <2>3
    <3> HIDE DEF j
    <3>2. t[j] = x
      BY <1>1, <2>1, <3>1
    <3> QED
      BY <1>2, <3>1, <3>2 DEF Range
  <2> QED
    BY <1>2, <1>3, <2>1, <2>2, <2>3
<1>5. ASSUME NEW x \in Range(s) PROVE x \in Range(r)
  <2>1. PICK i \in 1 .. Len(s) : s[i] = x
    BY SeqFacts
  <2>2. i \in DOMAIN r /\ r[i] = x
    BY <1>1, <1>2, <1>3, <2>1
  <2> QED
    BY <2>2 DEF Range
<1>6. ASSUME NEW x \in Range(t) PROVE x \in Range(r)
  <2>1. PICK i \in 1 .. Len(t) : t[i] = x
    BY SeqFacts
  <2>2. Len(s) + i \in DOMAIN r /\ r[Len(s) + i] = x
    BY <1>1, <1>2, <1>3, <2>1
  <2> QED
    BY <2>2 DEF Range
<1> QED
  BY <1>4, <1>5, <1>6 DEF r

LEMMA ProgramsFacts ==
    ASSUME NEW v
    PROVE  LET p == Programs(Infos(v))
           IN  /\ IsSeq(p) /\ Len(p) \in 1 .. 2
               /\ Range(p) = {TokenProgram(TokenInfo(BaseOf[v])), TokenProgram(TokenInfo(QuoteOf[v]))}
<1> DEFINE x == TokenProgram(TokenInfo(BaseOf[v]))
           y == TokenProgram(TokenInfo(QuoteOf[v]))
<1>1. Infos(v)[1] = TokenInfo(BaseOf[v]) /\ Infos(v)[2] = TokenInfo(QuoteOf[v])
  BY DEF Infos
<1>2. Programs(Infos(v)) = IF x = y THEN <<x>> ELSE <<x, y>>
  BY <1>1 DEF Programs
<1> HIDE DEF x, y
<1>3. <<x>> \in Seq({x}) /\ Len(<<x>>) = 1 /\ <<x, y>> \in Seq({x, y}) /\ Len(<<x, y>>) = 2
  OBVIOUS
<1>4. IsSeq(<<x>>) /\ IsSeq(<<x, y>>)
  BY <1>3, SeqOf
<1>5. Range(<<x>>) = {x} /\ Range(<<x, y>>) = {x, y}
  BY DEF Range
<1> QED
  BY <1>2, <1>3, <1>4, <1>5 DEF x, y

\* The accounts a swap has whatever it binds.
OwnKeys(v, in, out) ==
    <<Key("config", v), Key("strategy", v), Key("mm", v), Key("quotes", v),
      Vault(v, in), Vault(v, out), TakerAta(Infos(v), in), TakerAta(Infos(v), out), Titan,
      Key("mint", in), Key("mint", out), Instructions>>

LEMMA OwnKeysFacts ==
    ASSUME NEW v, NEW in, NEW out
    PROVE  LET k == OwnKeys(v, in, out)
           IN  /\ IsSeq(k) /\ Len(k) = 12
               /\ k[5] = Vault(v, in) /\ k[7] = TakerAta(Infos(v), in)
               /\ k[8] = TakerAta(Infos(v), out) /\ k[9] = Titan
               /\ Range(k) = {Key("config", v), Key("strategy", v), Key("mm", v), Key("quotes", v),
                              Vault(v, in), Vault(v, out), TakerAta(Infos(v), in),
                              TakerAta(Infos(v), out), Titan, Key("mint", in), Key("mint", out),
                              Instructions}
<1>1. ASSUME NEW a, NEW b, NEW c, NEW d, NEW e, NEW f, NEW g, NEW h, NEW i, NEW j, NEW k, NEW l
      PROVE  LET s == <<a, b, c, d, e, f, g, h, i, j, k, l>>
             IN  /\ s \in Seq({a, b, c, d, e, f, g, h, i, j, k, l}) /\ Len(s) = 12
                 /\ s[5] = e /\ s[7] = g /\ s[8] = h /\ s[9] = i
                 /\ Range(s) = {a, b, c, d, e, f, g, h, i, j, k, l}
  <2> DEFINE s == <<a, b, c, d, e, f, g, h, i, j, k, l>>
             S == {a, b, c, d, e, f, g, h, i, j, k, l}
  <2>1. s \in Seq(S) /\ Len(s) = 12 /\ s[5] = e /\ s[7] = g /\ s[8] = h /\ s[9] = i
    OBVIOUS
  <2>2. /\ s[1] = a /\ s[2] = b /\ s[3] = c /\ s[4] = d /\ s[5] = e /\ s[6] = f /\ s[7] = g
        /\ s[8] = h /\ s[9] = i /\ s[10] = j /\ s[11] = k /\ s[12] = l
    OBVIOUS
  <2>3. DOMAIN s = 1 .. 12
    OBVIOUS
  <2> HIDE DEF s
  <2>4. S \subseteq Range(s)
    BY <2>2, <2>3 DEF Range
  <2>5. Range(s) \subseteq S
    BY <2>2, <2>3 DEF Range
  <2> QED
    BY <2>1, <2>4, <2>5 DEF s
<1> DEFINE a == Key("config", v)
           b == Key("strategy", v)
           c == Key("mm", v)
           d == Key("quotes", v)
           e == Vault(v, in)
           f == Vault(v, out)
           g == TakerAta(Infos(v), in)
           h == TakerAta(Infos(v), out)
           j == Key("mint", in)
           k == Key("mint", out)
           l == Instructions
           s == <<a, b, c, d, e, f, g, h, Titan, j, k, l>>
<1>2. OwnKeys(v, in, out) = s
  BY DEF OwnKeys
<1> HIDE DEF a, b, c, d, e, f, g, h, j, k, l
<1>3. /\ s \in Seq({a, b, c, d, e, f, g, h, Titan, j, k, l}) /\ Len(s) = 12
      /\ s[5] = e /\ s[7] = g /\ s[8] = h /\ s[9] = Titan
      /\ Range(s) = {a, b, c, d, e, f, g, h, Titan, j, k, l}
  BY <1>1
<1> HIDE DEF s
<1>4. IsSeq(s)
  BY <1>3, SeqOf
<1> QED
  BY <1>2, <1>3, <1>4, Zenon DEF a, b, c, d, e, f, g, h, j, k, l

LEMMA KeysFacts ==
    ASSUME NEW v, NEW in, NEW out, NEW b \in Bindings
    PROVE  LET k == SwapKeys(v, Infos(v), in, out, b)
           IN  /\ IsSeq(k) /\ Len(k) \in Nat /\ Len(k) >= 12 /\ Len(k) + 1 < ByteMod
               /\ k[5] = Vault(v, in) /\ k[7] = TakerAta(Infos(v), in)
               /\ k[8] = TakerAta(Infos(v), out) /\ k[9] = Titan
               /\ Range(k) = Range(OwnKeys(v, in, out)) \cup Range(Programs(Infos(v))) \cup Range(b)
<1> DEFINE o == OwnKeys(v, in, out)
           p == Programs(Infos(v))
           op == o \o p
           k == op \o b
<1>1. k = SwapKeys(v, Infos(v), in, out, b)
  BY DEF OwnKeys, SwapKeys
<1>2. /\ IsSeq(o) /\ Len(o) = 12
      /\ o[5] = Vault(v, in) /\ o[7] = TakerAta(Infos(v), in)
      /\ o[8] = TakerAta(Infos(v), out) /\ o[9] = Titan
  BY OwnKeysFacts
<1>3. IsSeq(p) /\ Len(p) \in 1 .. 2
  BY ProgramsFacts
<1>4. IsSeq(b) /\ Len(b) \in Nat /\ 12 + 2 + Len(b) + 1 < ByteMod /\ ByteMod \in Nat
  BY LegAssumption, RouteAssumption, SeqFacts DEF IsSeq
<1> HIDE DEF o, p
<1>5. /\ IsSeq(op) /\ Len(op) = Len(o) + Len(p)
      /\ \A i \in 1 .. Len(o) : op[i] = o[i]
      /\ Range(op) = Range(o) \cup Range(p)
  <2>1. IsSeq(o) /\ IsSeq(p)
    BY <1>2, <1>3
  <2> QED
    BY ONLY <2>1, ConcatFacts, RangeConcat DEF op
<1> HIDE DEF op
<1>6. /\ IsSeq(k) /\ Len(k) = Len(op) + Len(b)
      /\ \A i \in 1 .. Len(op) : k[i] = op[i]
      /\ Range(k) = Range(op) \cup Range(b)
  <2>1. IsSeq(op) /\ IsSeq(b)
    BY <1>4, <1>5
  <2> QED
    BY ONLY <2>1, ConcatFacts, RangeConcat DEF k
<1> HIDE DEF k
<1>7. Len(k) \in Nat /\ Len(k) >= 12 /\ Len(k) + 1 < ByteMod
  <2>1. /\ Len(o) = 12 /\ Len(p) \in 1 .. 2 /\ Len(op) = Len(o) + Len(p) /\ Len(k) = Len(op) + Len(b)
        /\ Len(b) \in Nat /\ 12 + 2 + Len(b) + 1 < ByteMod /\ ByteMod \in Nat
    BY <1>2, <1>3, <1>4, <1>5, <1>6
  <2> DEFINE lp == Len(p)
             lb == Len(b)
  <2>2. /\ lp \in 1 .. 2 /\ lb \in Nat /\ Len(k) = 12 + lp + lb
        /\ 12 + 2 + lb + 1 < ByteMod /\ ByteMod \in Nat
    BY <2>1
  <2> HIDE DEF lp, lb
  <2> QED
    BY ONLY <2>2
<1>8. k[5] = o[5] /\ k[7] = o[7] /\ k[8] = o[8] /\ k[9] = o[9]
  <2>1. ASSUME NEW i \in 1 .. 12 PROVE k[i] = o[i]
    <3>1. i \in 1 .. Len(o) /\ i \in 1 .. Len(op)
      BY <1>2, <1>3, <1>5
    <3> QED
      BY ONLY <1>5, <1>6, <3>1
  <2> QED
    BY ONLY <2>1
<1>9. Range(k) = Range(o) \cup Range(p) \cup Range(b)
  BY <1>5, <1>6
<1> QED
  BY <1>1, <1>2, <1>6, <1>7, <1>8, <1>9 DEF o, p

\* assemble_leg_accounts takes every signature away and adds the program.
LEMMA AssembleFacts ==
    ASSUME NEW v, NEW k, IsSeq(k)
    PROVE  LET a == Assemble(v, CallKeys(k))
           IN  /\ IsSeq(a) /\ Len(a) = Len(k) + 1
               /\ \A j \in 1 .. Len(k) : a[j] = Meta(k[j], FALSE)
               /\ a[Len(k) + 1] = Meta(ProgramOf[v], FALSE)
<1> DEFINE n == Len(k)
           ms == CallKeys(k)
           f == [i \in DOMAIN ms |-> IF ms[i].key = Titan THEN Meta(Titan, FALSE) ELSE ms[i]]
           l == <<Meta(ProgramOf[v], FALSE)>>
           a == f \o l
<1>1. n \in Nat /\ DOMAIN k = 1 .. n
  BY SeqFacts
<1>2. a = Assemble(v, CallKeys(k))
  BY DEF Assemble
<1>3. DOMAIN ms = 1 .. n /\ \A j \in 1 .. n : ms[j] = Meta(k[j], k[j] = Titan)
  BY <1>1 DEF CallKeys
<1>4. \A x, y : Meta(x, y).key = x
  BY DEF Meta
<1>5. \A j \in 1 .. n : f[j] = Meta(k[j], FALSE)
  <2> SUFFICES ASSUME NEW j \in 1 .. n PROVE f[j] = Meta(k[j], FALSE)
    OBVIOUS
  <2>1. ms[j].key = k[j] /\ f[j] = IF ms[j].key = Titan THEN Meta(Titan, FALSE) ELSE ms[j]
    BY <1>3, <1>4
  <2>2. k[j] # Titan => Meta(k[j], k[j] = Titan) = Meta(k[j], FALSE)
    BY Zenon DEF Meta
  <2> QED
    BY <1>3, <2>1, <2>2
<1>6. DOMAIN f = 1 .. n /\ f = [i \in 1 .. n |-> f[i]]
  BY <1>3
<1>7. IsSeq(l) /\ Len(l) = 1 /\ l[1] = Meta(ProgramOf[v], FALSE)
  BY OneFacts
<1> HIDE DEF n, ms, f, l
<1>8. IsSeq(f) /\ Len(f) = n
  BY <1>1, <1>6, SegmentSeq
<1>9. /\ IsSeq(a) /\ Len(a) = Len(f) + Len(l)
      /\ \A i \in 1 .. Len(f) : a[i] = f[i]
      /\ \A i \in 1 .. Len(l) : a[Len(f) + i] = l[i]
  <2>1. IsSeq(f) /\ IsSeq(l)
    BY <1>7, <1>8
  <2> QED
    BY ONLY <2>1, ConcatFacts DEF a
<1> HIDE DEF a
<1>10. /\ Len(a) = n + 1 /\ \A j \in 1 .. n : a[j] = Meta(k[j], FALSE)
       /\ a[n + 1] = Meta(ProgramOf[v], FALSE)
  <2>1. Len(a) = n + 1
    BY ONLY <1>7, <1>8, <1>9
  <2>2. \A j \in 1 .. n : a[j] = Meta(k[j], FALSE)
    BY ONLY <1>5, <1>8, <1>9
  <2>3. a[n + 1] = Meta(ProgramOf[v], FALSE)
    <3>1. 1 \in 1 .. Len(l)
      BY <1>7
    <3>2. a[Len(f) + 1] = l[1]
      BY ONLY <1>9, <3>1
    <3> QED
      BY ONLY <1>7, <1>8, <3>2, Zenon
  <2> QED
    BY <2>1, <2>2, <2>3
<1> QED
  BY <1>2, <1>9, <1>10 DEF n

-----------------------------------------------------------------------------
(* What every state satisfies. *)

\* A venue's metadata is that of its mints once it is refreshed, it binds what a
\* strategy can bind, and a discovered one belongs to the program.
VenueInv ==
    /\ DOMAIN tokens = Venues /\ \A v \in Venues : tokens[v] \in {<<>>, Infos(v)}
    /\ DOMAIN ext = Venues /\ \A v \in Venues : ext[v] \in Bindings
    /\ \A p \in Pools(found) : p \in Venues /\ ProgramOf[p] = QuayProgram

\* The i-th leg was built for a trade of its venue, and counts its own accounts.
LegOK(l, i) ==
    /\ l.venue \in Venues /\ l.binding \in Bindings /\ Trades(l.venue, l.in, l.out)
    /\ l.in \in Range(RouteMints) /\ l.out \in Range(RouteMints)
    /\ l.spec = [sellBase |-> l.in = BaseOf[l.venue], from |-> SlotOf(l.in), to |-> SlotOf(l.out),
                 weight |-> Weights[i], n |-> Len(LegAccounts(l))]

LegsInv ==
    /\ IsSeq(legs) /\ Len(legs) <= MaxLegs
    /\ \A i \in 1 .. Len(legs) : LegOK(legs[i], i)

\* The list, which begins before the first leg does.
Whole == IF legs = <<>> THEN RouteAccounts ELSE list

\* The legs ls stand in the list w at the offsets o, one after the other.
PlacedIn(o, w, ls) ==
    /\ \A i \in 1 .. Len(ls) + 1 : o[i] \in Nat
    /\ o[1] = 2 * Len(RouteMints) /\ o[Len(ls) + 1] = Len(w)
    /\ \A i \in 1 .. Len(ls) :
          /\ o[i + 1] = o[i] + Len(LegAccounts(ls[i])) /\ o[i + 1] <= Len(w)
          /\ \A j \in 1 .. Len(LegAccounts(ls[i])) : w[o[i] + j] = LegAccounts(ls[i])[j]

\* The walk is at the offset of its next leg.
ListInv ==
    /\ legs = <<>> => list = <<>>
    /\ IsSeq(Whole) /\ Len(Whole) >= 2 * Len(RouteMints)
    /\ \A i \in 1 .. Len(Whole) : ~ Whole[i].signer
    /\ \A i \in 1 .. 2 * Len(RouteMints) : Whole[i] = RouteAccounts[i]
    /\ \E o : PlacedIn(o, Whole, legs) /\ (pc \in {"walk", "done"} => at = o[leg])

\* What the stages of a route know of it.
StageInv ==
    /\ pc \in {"build", "sent", "walk", "done"}
    /\ pc \in {"build", "sent"} => calls = <<>>
    /\ pc # "build" => legs # <<>>
    /\ pc = "sent" => sent = Encode(Amount, Len(RouteMints), Specs)
    /\ pc \in {"walk", "done"} =>
          /\ args = [amount |-> Amount, mints |-> Len(RouteMints), swaps |-> Specs]
          /\ leg \in 1 .. Len(legs) + 1
    /\ pc = "done" => leg = Len(legs) + 1

\* A call is that of a leg, with the accounts that the venue listed for it.
CallOK(c) ==
    /\ c.leg \in 1 .. Len(legs)
    /\ LET l == legs[c.leg] IN
       /\ c.program = QuayProgram
       /\ c.metas = CallKeys(LegKeys(l))
       /\ c.side = IF l.in = BaseOf[l.venue] THEN 0 ELSE 1
       /\ QuayProgram \in Range(LegKeys(l)) \cup {ProgramOf[l.venue]}

CallInv == IsSeq(calls) /\ \A i \in 1 .. Len(calls) : CallOK(calls[i])

RInv == VenueInv /\ LegsInv /\ ListInv /\ StageInv /\ CallInv

-----------------------------------------------------------------------------
(* The route's own accounts. *)

LEMMA RouteAccountsFacts ==
    /\ IsSeq(RouteAccounts) /\ Len(RouteMints) \in Nat /\ Len(RouteAccounts) = 2 * Len(RouteMints)
    /\ \A i \in 1 .. Len(RouteAccounts) : ~ RouteAccounts[i].signer
    /\ \A i \in 1 .. Len(RouteMints) :
          RouteAccounts[i] = Meta(Ata(RouteMints[i], OwnerOf[RouteMints[i]]), FALSE)
<1> DEFINE n == Len(RouteMints)
           f == [i \in DOMAIN RouteMints |-> Ata(RouteMints[i], OwnerOf[RouteMints[i]])]
           g == [i \in DOMAIN RouteMints |-> Key("mint", RouteMints[i])]
           k == f \o g
<1>1. n \in Nat /\ DOMAIN RouteMints = 1 .. n
  BY RouteAssumption, SeqFacts DEF IsSeq
<1>2. DOMAIN f = 1 .. n /\ f = [i \in 1 .. n |-> f[i]] /\ DOMAIN g = 1 .. n /\ g = [i \in 1 .. n |-> g[i]]
  BY <1>1
<1>3. \A i \in 1 .. n : f[i] = Ata(RouteMints[i], OwnerOf[RouteMints[i]])
  BY <1>1
<1>4. RouteAccounts = Unsigned(k)
  BY DEF RouteAccounts
<1> HIDE DEF n, f, g
<1>5. IsSeq(f) /\ Len(f) = n /\ IsSeq(g) /\ Len(g) = n
  BY <1>1, <1>2, SegmentSeq
<1>6. /\ IsSeq(k) /\ Len(k) = Len(f) + Len(g)
      /\ \A i \in 1 .. Len(f) : k[i] = f[i]
  <2>1. IsSeq(f) /\ IsSeq(g)
    BY <1>5
  <2> QED
    BY ONLY <2>1, ConcatFacts DEF k
<1> HIDE DEF k
<1>7. Len(k) = 2 * n /\ \A i \in 1 .. n : k[i] = f[i]
  BY ONLY <1>1, <1>5, <1>6
<1>8. DOMAIN k = 1 .. 2 * n /\ 2 * n \in Nat
  BY <1>1, <1>6, <1>7, SeqFacts
<1> DEFINE u == Unsigned(k)
           m == 2 * n
<1>9. DOMAIN u = 1 .. m /\ u = [i \in 1 .. m |-> u[i]] /\ \A i \in 1 .. m : u[i] = Meta(k[i], FALSE)
  BY <1>8 DEF Unsigned
<1>10. m \in Nat
  BY <1>8
<1> HIDE DEF u
<1>11. IsSeq(u) /\ Len(u) = m
  <2> HIDE DEF m
  <2> QED
    BY <1>9, <1>10, SegmentSeq
<1>12. \A i \in 1 .. m : ~ u[i].signer
  BY <1>9 DEF Meta
<1>13. \A i \in 1 .. n : u[i] = Meta(Ata(RouteMints[i], OwnerOf[RouteMints[i]]), FALSE)
  <2> SUFFICES ASSUME NEW i \in 1 .. n
               PROVE  u[i] = Meta(Ata(RouteMints[i], OwnerOf[RouteMints[i]]), FALSE)
    OBVIOUS
  <2>1. i \in 1 .. m
    BY <1>1
  <2>2. u[i] = Meta(k[i], FALSE) /\ k[i] = f[i]
    BY <1>7, <1>9, <2>1
  <2> QED
    BY <1>3, <2>2
<1> QED
  BY <1>1, <1>4, <1>11, <1>12, <1>13 DEF u, m, n

\* One leg more at the end.
LEMMA PlaceOneMore ==
    ASSUME NEW o, NEW w, NEW ls, NEW l, IsSeq(w), IsSeq(ls), IsSeq(LegAccounts(l)),
           PlacedIn(o, w, ls)
    PROVE  \E p : PlacedIn(p, w \o LegAccounts(l), Append(ls, l))
<1> DEFINE n == Len(ls)
           a == LegAccounts(l)
           r == w \o a
           t == Append(ls, l)
           p == [i \in 1 .. n + 2 |-> IF i = n + 2 THEN Len(w) + Len(a) ELSE o[i]]
<1>1. n \in Nat /\ Len(w) \in Nat /\ Len(a) \in Nat
  BY SeqFacts
<1>2. /\ Len(t) = n + 1 /\ \A i \in 1 .. n : t[i] = ls[i]
      /\ t[n + 1] = l
  BY AppendFacts
<1>3. /\ Len(r) = Len(w) + Len(a) /\ \A i \in 1 .. Len(w) : r[i] = w[i]
      /\ \A i \in 1 .. Len(a) : r[Len(w) + i] = a[i]
  <2>1. IsSeq(w) /\ IsSeq(a)
    OBVIOUS
  <2> HIDE DEF a
  <2> QED
    BY ONLY <2>1, ConcatFacts DEF r
<1> HIDE DEF r, t
<1>4. /\ \A i \in 1 .. n + 1 : o[i] \in Nat
      /\ o[1] = 2 * Len(RouteMints) /\ o[n + 1] = Len(w)
      /\ \A i \in 1 .. n :
          /\ o[i + 1] = o[i] + Len(LegAccounts(ls[i])) /\ o[i + 1] <= Len(w)
          /\ \A j \in 1 .. Len(LegAccounts(ls[i])) : w[o[i] + j] = LegAccounts(ls[i])[j]
  BY DEF PlacedIn
<1>5. (\A i \in 1 .. n + 1 : p[i] = o[i]) /\ p[n + 2] = Len(w) + Len(a)
  BY <1>1
<1> HIDE DEF p
<1>6. /\ \A i \in 1 .. Len(t) + 1 : p[i] \in Nat
      /\ p[1] = 2 * Len(RouteMints) /\ p[Len(t) + 1] = Len(r)
  <2>1. \A i \in 1 .. n + 2 : p[i] \in Nat
    <3> SUFFICES ASSUME NEW i \in 1 .. n + 2 PROVE p[i] \in Nat
      OBVIOUS
    <3>1. CASE i = n + 2
      BY <1>1, <1>5, <3>1
    <3>2. CASE i \in 1 .. n + 1
      BY <1>4, <1>5, <3>2
    <3> QED
      BY <1>1, <3>1, <3>2
  <2>2. 1 \in 1 .. n + 1 /\ Len(t) + 1 = n + 2
    BY <1>1, <1>2
  <2> QED
    BY <1>3, <1>4, <1>5, <2>1, <2>2
<1>7. ASSUME NEW i \in 1 .. Len(t)
      PROVE  LET b == LegAccounts(t[i])
             IN  /\ p[i + 1] = p[i] + Len(b) /\ p[i + 1] <= Len(r)
                 /\ \A j \in 1 .. Len(b) : r[p[i] + j] = b[j]
  <2>1. CASE i = n + 1
    <3>1. t[i] = l /\ p[i] = Len(w) /\ p[i + 1] = Len(w) + Len(a)
      <4>1. i \in 1 .. n + 1 /\ i + 1 = n + 2
        BY <1>1, <2>1
      <4> QED
        BY <1>2, <1>4, <1>5, <2>1, <4>1
    <3> HIDE DEF a
    <3>2. p[i + 1] = p[i] + Len(a) /\ p[i + 1] <= Len(r)
      BY <1>1, <1>3, <3>1
    <3>3. \A j \in 1 .. Len(a) : r[p[i] + j] = a[j]
      BY <1>3, <3>1
    <3>4. LegAccounts(t[i]) = a
      BY <3>1 DEF a
    <3> QED
      BY <3>2, <3>3, <3>4
  <2>2. CASE i \in 1 .. n
    <3> DEFINE b == LegAccounts(ls[i])
    <3>1. t[i] = ls[i]
      BY <1>2, <2>2
    <3>2. i \in 1 .. n + 1 /\ i + 1 \in 1 .. n + 1
      BY <1>1, <2>2
    <3>3. p[i] = o[i] /\ p[i + 1] = o[i + 1] /\ o[i] \in Nat /\ o[i + 1] \in Nat
      BY <1>4, <1>5, <3>2
    <3>4. /\ o[i + 1] = o[i] + Len(b) /\ o[i + 1] <= Len(w)
          /\ \A j \in 1 .. Len(b) : w[o[i] + j] = b[j]
      BY <1>4, <2>2
    <3> HIDE DEF a, b
    <3>5. p[i + 1] = p[i] + Len(b) /\ p[i + 1] <= Len(r)
      BY <1>1, <1>3, <3>3, <3>4
    <3>6. ASSUME NEW j \in 1 .. Len(b) PROVE r[p[i] + j] = b[j]
      <4> DEFINE x == Len(b)
      <4>1. x \in Int /\ j \in 1 .. x /\ o[i + 1] = o[i] + x
        BY <3>3, <3>4
      <4> HIDE DEF x
      <4>2. o[i] + j \in 1 .. Len(w)
        BY <1>1, <3>3, <3>4, <4>1
      <4> QED
        BY <1>3, <3>3, <3>4, <4>2
    <3> QED
      BY <3>1, <3>5, <3>6 DEF b
  <2> QED
    BY <1>1, <1>2, <2>1, <2>2
<1>8. PlacedIn(p, r, t)
  BY <1>6, <1>7 DEF PlacedIn
<1> QED
  BY <1>8 DEF r, t

-----------------------------------------------------------------------------
(* The steps. *)

LEMMA LegFacts ==
    ASSUME NEW l, NEW i, LegOK(l, i)
    PROVE  LET k == LegKeys(l)
               a == LegAccounts(l)
           IN  /\ IsSeq(k) /\ Len(k) \in Nat /\ Len(k) >= 12 /\ Len(k) + 1 < ByteMod
               /\ k[5] = Vault(l.venue, l.in) /\ k[7] = TakerAta(Infos(l.venue), l.in)
               /\ k[8] = TakerAta(Infos(l.venue), l.out) /\ k[9] = Titan
               /\ IsSeq(a) /\ Len(a) = Len(k) + 1
               /\ \A j \in 1 .. Len(k) : a[j] = Meta(k[j], FALSE)
               /\ a[Len(k) + 1] = Meta(ProgramOf[l.venue], FALSE)
<1> DEFINE k == LegKeys(l)
<1>1. l.binding \in Bindings
  BY DEF LegOK
<1>2. /\ IsSeq(k) /\ Len(k) \in Nat /\ Len(k) >= 12 /\ Len(k) + 1 < ByteMod
      /\ k[5] = Vault(l.venue, l.in) /\ k[7] = TakerAta(Infos(l.venue), l.in)
      /\ k[8] = TakerAta(Infos(l.venue), l.out) /\ k[9] = Titan
  BY <1>1, KeysFacts DEF LegKeys
<1> HIDE DEF k
<1> DEFINE a == Assemble(l.venue, CallKeys(k))
<1>3. /\ IsSeq(a) /\ Len(a) = Len(k) + 1
      /\ \A j \in 1 .. Len(k) : a[j] = Meta(k[j], FALSE)
      /\ a[Len(k) + 1] = Meta(ProgramOf[l.venue], FALSE)
  BY <1>2, AssembleFacts
<1>4. LegAccounts(l) = a
  BY DEF LegAccounts, k
<1> HIDE DEF a
<1> QED
  BY <1>2, <1>3, <1>4 DEF k

LEMMA InitInv == Init => RInv
<1> SUFFICES ASSUME Init PROVE RInv
  OBVIOUS
<1> USE DEF Init
<1>1. VenueInv
  BY DEF VenueInv, Pools
<1>2. LegsInv
  BY EmptyFacts, RouteAssumption DEF LegsInv
<1>3. ListInv
  <2>1. Whole = RouteAccounts
    BY DEF Whole
  <2>2. /\ IsSeq(RouteAccounts) /\ Len(RouteMints) \in Nat
        /\ Len(RouteAccounts) = 2 * Len(RouteMints)
        /\ \A i \in 1 .. Len(RouteAccounts) : ~ RouteAccounts[i].signer
    BY RouteAccountsFacts
  <2>3. PlacedIn([i \in {1} |-> 2 * Len(RouteMints)], RouteAccounts, <<>>)
    BY <2>2, EmptyFacts DEF PlacedIn
  <2> QED
    BY <2>1, <2>2, <2>3 DEF ListInv
<1>4. StageInv
  BY DEF StageInv
<1>5. CallInv
  BY EmptyFacts DEF CallInv
<1> QED
  BY <1>1, <1>2, <1>3, <1>4, <1>5 DEF RInv

\* What no step of a router's caches touches.
LEMMA RouteKept ==
    ASSUME LegsInv, ListInv, StageInv, CallInv, UNCHANGED routeVars
    PROVE  LegsInv' /\ ListInv' /\ StageInv' /\ CallInv'
<1>1. LegsInv'
  BY DEF routeVars, LegsInv, LegOK
<1>2. ListInv'
  BY DEF routeVars, ListInv, Whole, PlacedIn
<1>3. StageInv'
  BY DEF routeVars, StageInv, Specs
<1>4. CallInv'
  BY DEF routeVars, CallInv, CallOK
<1> QED
  BY <1>1, <1>2, <1>3, <1>4

LEMMA VenueKept == ASSUME VenueInv, UNCHANGED venueVars PROVE VenueInv'
BY DEF venueVars, VenueInv

LEMMA DiscoverStep ==
    ASSUME VenueInv, NEW tx \in Transactions, NEW b \in Bindings, Discover(tx, b)
    PROVE  VenueInv'
<1> DEFINE new == {c \in PoolCreations(tx) : c.pool \in Venues} \ found
<1>1. /\ found' = found \cup new
      /\ tokens' = [v \in Venues |-> IF v \in Pools(new) THEN <<>> ELSE tokens[v]]
      /\ ext' = [v \in Venues |-> IF v \in Pools(new) THEN b ELSE ext[v]]
  BY DEF Discover
<1>2. ASSUME NEW p \in Pools(found') PROVE p \in Venues /\ ProgramOf[p] = QuayProgram
  <2>1. PICK c \in found' : p = c.pool
    BY DEF Pools
  <2>2. CASE c \in found
    BY <2>1, <2>2 DEF VenueInv, Pools
  <2>3. CASE c \in new
    <3>1. c \in PoolCreations(tx) /\ c.pool \in Venues
      BY <2>3
    <3>2. PICK ix \in tx : /\ Creates(ix) /\ Len(ix.accounts) >= 7
                           /\ c = [pool |-> ix.accounts[1],
                                   mints |-> {ix.accounts[6], ix.accounts[7]}]
      BY <3>1 DEF PoolCreations
    <3>3. c.pool = ix.accounts[1]
      BY <3>2
    <3> QED
      BY <2>1, <3>1, <3>2, <3>3, CreationAssumption DEF Creates
  <2> QED
    BY <1>1, <2>1, <2>2, <2>3
<1>3. DOMAIN tokens' = Venues /\ \A v \in Venues : tokens'[v] \in {<<>>, Infos(v)}
  BY <1>1 DEF VenueInv
<1>4. DOMAIN ext' = Venues /\ \A v \in Venues : ext'[v] \in Bindings
  BY <1>1 DEF VenueInv
<1> QED
  BY <1>2, <1>3, <1>4 DEF VenueInv

LEMMA RefreshStep ==
    ASSUME VenueInv, NEW v \in Venues, NEW b \in Bindings, Refresh(v, b)
    PROVE  VenueInv'
BY DEF VenueInv, Refresh

LEMMA BuildStep ==
    ASSUME VenueInv, LegsInv, ListInv, StageInv, CallInv,
           NEW v \in Venues, NEW in \in Range(RouteMints), NEW out \in Range(RouteMints),
           BuildLeg(v, in, out)
    PROVE  LegsInv' /\ ListInv' /\ StageInv' /\ CallInv'
<1> DEFINE accounts == Assemble(v, SwapMetas(v, in, out))
           n == Len(legs)
           l == [venue |-> v, in |-> in, out |-> out, binding |-> ext[v],
                 spec |-> [sellBase |-> SellBase(v, in), from |-> SlotOf(in),
                           to |-> SlotOf(out), weight |-> Weights[n + 1],
                           n |-> Count(accounts)]]
<1>1. /\ pc = "build" /\ n < MaxLegs /\ Trades(v, in, out) /\ tokens[v] # <<>>
      /\ legs' = Append(legs, l) /\ list' = Whole \o accounts
      /\ UNCHANGED <<venueVars, sent, args, pc, at, leg, calls>>
  BY DEF BuildLeg, Whole
<1>2. tokens[v] = Infos(v) /\ ext[v] \in Bindings
  BY <1>1 DEF VenueInv
<1>3. LegKeys(l) = SwapKeys(v, Infos(v), in, out, ext[v])
  BY DEF LegKeys
<1>4. LegAccounts(l) = accounts
  BY <1>2, <1>3 DEF LegAccounts, SwapMetas, CallKeys
<1>5. /\ IsSeq(LegKeys(l)) /\ Len(LegKeys(l)) \in Nat /\ Len(LegKeys(l)) + 1 < ByteMod
  BY <1>2, <1>3, KeysFacts
<1>6. /\ IsSeq(LegAccounts(l)) /\ Len(LegAccounts(l)) = Len(LegKeys(l)) + 1
      /\ \A j \in 1 .. Len(LegKeys(l)) : LegAccounts(l)[j] = Meta(LegKeys(l)[j], FALSE)
      /\ LegAccounts(l)[Len(LegKeys(l)) + 1] = Meta(ProgramOf[v], FALSE)
  <2> DEFINE k == LegKeys(l)
  <2>1. LegAccounts(l) = Assemble(v, CallKeys(k))
    BY DEF LegAccounts
  <2>2. IsSeq(k)
    BY <1>5
  <2> HIDE DEF k
  <2>3. LET a == Assemble(v, CallKeys(k))
        IN  /\ IsSeq(a) /\ Len(a) = Len(k) + 1
            /\ \A j \in 1 .. Len(k) : a[j] = Meta(k[j], FALSE)
            /\ a[Len(k) + 1] = Meta(ProgramOf[v], FALSE)
    BY <2>2, AssembleFacts
  <2> QED
    BY <2>1, <2>3, Zenon DEF k
<1>7. Count(accounts) = Len(LegAccounts(l))
  <2>1. accounts = LegAccounts(l)
    BY <1>4
  <2> DEFINE c == Len(LegAccounts(l))
  <2>2. c \in Nat /\ c < ByteMod
    BY <1>5, <1>6
  <2> HIDE DEF c
  <2>3. c % ByteMod = c
    BY <2>2, LastDigit
  <2> QED
    BY <2>1, <2>3 DEF Count, c
<1>8. SellBase(v, in) = (in = BaseOf[v])
  BY <1>2 DEF SellBase, Infos, TokenInfo
<1>9. LegOK(l, n + 1)
  BY <1>1, <1>2, <1>7, <1>8 DEF LegOK
<1> HIDE DEF l, accounts
<1>10. LegsInv'
  <2>1. IsSeq(legs) /\ n <= MaxLegs /\ n \in Nat /\ MaxLegs \in Nat
    BY SeqFacts, RouteAssumption DEF LegsInv
  <2>2. /\ IsSeq(legs') /\ Len(legs') = n + 1 /\ \A i \in 1 .. n : legs'[i] = legs[i]
        /\ legs'[n + 1] = l
    BY <1>1, <2>1, AppendFacts
  <2>3. ASSUME NEW i \in 1 .. Len(legs') PROVE LegOK(legs'[i], i)
    <3>1. CASE i = n + 1
      BY <1>9, <2>2, <3>1
    <3>2. CASE i \in 1 .. n
      BY <2>2, <3>2 DEF LegsInv
    <3> QED
      BY <2>1, <2>2, <3>1, <3>2
  <2>4. Len(legs') <= MaxLegs
    BY <1>1, <2>1, <2>2
  <2> QED
    BY <2>2, <2>3, <2>4 DEF LegsInv, LegOK
<1>11. ListInv'
  <2>1. legs' # <<>>
    <3>1. IsSeq(legs)
      BY DEF LegsInv
    <3>2. Len(legs') = n + 1 /\ n \in Nat
      BY <1>1, <3>1, AppendFacts, SeqFacts
    <3> QED
      BY <3>2, EmptyFacts
  <2>2. Whole' = list' /\ list' = Whole \o LegAccounts(l)
    BY <1>1, <1>4, <2>1 DEF Whole
  <2> DEFINE w == Whole
             a == LegAccounts(l)
             r == w \o a
  <2>3. /\ IsSeq(w) /\ Len(w) >= 2 * Len(RouteMints) /\ Len(w) \in Nat /\ Len(RouteMints) \in Nat
        /\ \A i \in 1 .. Len(w) : ~ w[i].signer
        /\ \A i \in 1 .. 2 * Len(RouteMints) : w[i] = RouteAccounts[i]
    BY SeqFacts, RouteAccountsFacts DEF ListInv
  <2>4. IsSeq(a) /\ Len(a) \in Nat /\ \A j \in 1 .. Len(a) : ~ a[j].signer
    <3>1. \A x : ~ Meta(x, FALSE).signer
      BY DEF Meta
    <3>2. ASSUME NEW j \in 1 .. Len(a) PROVE ~ a[j].signer
      <4>1. CASE j \in 1 .. Len(LegKeys(l))
        BY <1>6, <3>1, <4>1
      <4>2. CASE j = Len(LegKeys(l)) + 1
        BY <1>6, <3>1, <4>2
      <4> QED
        BY <1>5, <1>6, <4>1, <4>2
    <3> QED
      BY <1>5, <1>6, <3>2
  <2>5. \E o : PlacedIn(o, r, Append(legs, l))
    <3>1. PICK o : PlacedIn(o, w, legs)
      BY DEF ListInv
    <3>2. IsSeq(legs)
      BY DEF LegsInv
    <3> QED
      BY <2>3, <2>4, <3>1, <3>2, PlaceOneMore
  <2> HIDE DEF w, a
  <2>6. /\ IsSeq(r) /\ Len(r) = Len(w) + Len(a)
        /\ \A i \in 1 .. Len(w) : r[i] = w[i]
        /\ \A i \in 1 .. Len(a) : r[Len(w) + i] = a[i]
    <3>1. IsSeq(w) /\ IsSeq(a)
      BY <2>3, <2>4
    <3> QED
      BY ONLY <3>1, ConcatFacts DEF r
  <2> HIDE DEF r
  <2>7. ASSUME NEW i \in 1 .. Len(r) PROVE ~ r[i].signer
    <3>1. CASE i \in 1 .. Len(w)
      BY <2>3, <2>6, <3>1
    <3>2. CASE i > Len(w)
      <4> DEFINE j == i - Len(w)
      <4>1. j \in 1 .. Len(a) /\ Len(w) + j = i
        BY <2>3, <2>4, <2>6, <3>2
      <4> HIDE DEF j
      <4> QED
        BY <2>4, <2>6, <4>1
    <3> QED
      BY <2>3, <2>4, <2>6, <3>1, <3>2
  <2>8. \A i \in 1 .. 2 * Len(RouteMints) : r[i] = RouteAccounts[i]
    BY <2>3, <2>6
  <2>9. Len(r) >= 2 * Len(RouteMints)
    BY <2>3, <2>4, <2>6
  <2>10. Whole' = r /\ legs' = Append(legs, l) /\ pc' = "build"
    BY <1>1, <2>2 DEF r, w, a
  <2>11. \E o : PlacedIn(o, Whole', legs')
    BY <2>5, <2>10
  <2>12. IsSeq(Whole') /\ Len(Whole') >= 2 * Len(RouteMints)
    BY <2>6, <2>9, <2>10
  <2>13. \A i \in 1 .. Len(Whole') : ~ Whole'[i].signer
    BY <2>7, <2>10
  <2>14. \A i \in 1 .. 2 * Len(RouteMints) : Whole'[i] = RouteAccounts[i]
    BY <2>8, <2>10
  <2>15. ~ pc' \in {"walk", "done"}
    BY <2>10
  <2> QED
    BY <2>1, <2>11, <2>12, <2>13, <2>14, <2>15 DEF ListInv
<1>12. StageInv'
  BY <1>1 DEF StageInv
<1>13. CallInv'
  <2>1. calls' = <<>>
    BY <1>1 DEF StageInv
  <2> QED
    BY <2>1, EmptyFacts DEF CallInv
<1> QED
  BY <1>10, <1>11, <1>12, <1>13

LEMMA SubmitStep ==
    ASSUME LegsInv, ListInv, StageInv, CallInv, Submit
    PROVE  LegsInv' /\ ListInv' /\ StageInv' /\ CallInv'
<1>1. /\ legs # <<>> /\ sent' = Encode(Amount, Len(RouteMints), Specs) /\ pc' = "sent"
      /\ pc = "build" /\ UNCHANGED <<venueVars, legs, list, args, at, leg, calls>>
  BY DEF Submit
<1>2. LegsInv'
  BY <1>1 DEF LegsInv, LegOK
<1>3. ListInv'
  BY <1>1 DEF ListInv, Whole, PlacedIn
<1>4. Specs' = Specs
  BY <1>1 DEF Specs
<1>5. StageInv'
  BY <1>1, <1>4 DEF StageInv
<1>6. CallInv'
  BY <1>1 DEF CallInv, CallOK
<1> QED
  BY <1>2, <1>3, <1>5, <1>6

LEMMA SpecsFacts ==
    ASSUME LegsInv
    PROVE  /\ IsSeq(Specs) /\ Len(Specs) = Len(legs) /\ Len(Specs) < Word /\ Len(legs) \in Nat
           /\ \A i \in 1 .. Len(legs) : Specs[i] = legs[i].spec /\ WireSpec(Specs[i])
<1>1. Len(legs) \in Nat /\ DOMAIN legs = 1 .. Len(legs) /\ Len(legs) <= MaxLegs
  BY SeqFacts DEF LegsInv
<1>2. DOMAIN Specs = 1 .. Len(legs) /\ Specs = [i \in 1 .. Len(legs) |-> Specs[i]]
  BY <1>1 DEF Specs
<1>3. IsSeq(Specs) /\ Len(Specs) = Len(legs)
  BY <1>1, <1>2, SegmentSeq
<1>4. Len(Specs) < Word
  BY <1>1, <1>3, RouteAssumption, WordIsPositive
<1>5. ASSUME NEW i \in 1 .. Len(legs) PROVE Specs[i] = legs[i].spec /\ WireSpec(Specs[i])
  <2>1. Specs[i] = legs[i].spec
    BY <1>1 DEF Specs
  <2>2. LegOK(legs[i], i)
    BY DEF LegsInv
  <2>3. Weights[i] \in Nat /\ Weights[i] < Word
    BY <1>1, RouteAssumption
  <2> QED
    BY <2>1, <2>2, <2>3 DEF LegOK, WireSpec
<1> QED
  BY <1>1, <1>3, <1>4, <1>5

LEMMA ReceiveStep ==
    ASSUME LegsInv, ListInv, StageInv, CallInv, Receive
    PROVE  LegsInv' /\ ListInv' /\ StageInv' /\ CallInv'
<1>1. /\ args' = Decode(sent) /\ pc' = "walk" /\ at' = 2 * args'.mints /\ leg' = 1
      /\ pc = "sent" /\ UNCHANGED <<venueVars, legs, list, calls>>
  BY DEF Receive
<1>2. /\ IsSeq(Specs) /\ Len(Specs) < Word /\ Len(legs) \in Nat /\ Len(Specs) = Len(legs)
      /\ \A i \in 1 .. Len(Specs) : WireSpec(Specs[i])
  BY SpecsFacts
<1>3. sent = Encode(Amount, Len(RouteMints), Specs)
  BY <1>1 DEF StageInv
<1>4. Amount \in Nat /\ Amount \div Word < Word
  BY RouteAssumption
<1>5. Decode(Encode(Amount, Len(RouteMints), Specs))
        = [amount |-> Amount, mints |-> Len(RouteMints), swaps |-> Specs]
  BY ONLY <1>2, <1>4, RoundTrip
<1>6. args' = [amount |-> Amount, mints |-> Len(RouteMints), swaps |-> Specs]
  BY <1>1, <1>3, <1>5
<1>7. at' = 2 * Len(RouteMints)
  BY <1>1, <1>6
<1>8. LegsInv'
  BY <1>1 DEF LegsInv, LegOK
<1>9. ListInv'
  <2>1. Whole' = Whole
    BY <1>1 DEF Whole
  <2>2. PICK o : PlacedIn(o, Whole, legs)
    BY DEF ListInv
  <2>3. at' = o[leg']
    BY <1>1, <1>7, <2>2 DEF PlacedIn
  <2>4. PlacedIn(o, Whole', legs')
    BY <1>1, <2>1, <2>2
  <2>5. \E u : PlacedIn(u, Whole', legs') /\ (pc' \in {"walk", "done"} => at' = u[leg'])
    BY <2>3, <2>4
  <2> QED
    BY <1>1, <2>1, <2>5 DEF ListInv
<1>10. Specs' = Specs
  BY <1>1 DEF Specs
<1>11. StageInv'
  BY <1>1, <1>2, <1>6, <1>10 DEF StageInv
<1>12. CallInv'
  BY <1>1 DEF CallInv, CallOK
<1> QED
  BY <1>8, <1>9, <1>11, <1>12

LEMMA SliceFacts ==
    ASSUME NEW s, IsSeq(s), NEW i \in Nat, NEW n \in Nat, n > 0, i + n <= Len(s)
    PROVE  LET t == SubSeq(s, i + 1, i + n)
           IN  /\ IsSeq(t) /\ Len(t) = n
               /\ \A j \in 1 .. n : t[j] = s[i + j]
<1> DEFINE t == SubSeq(s, i + 1, i + n)
           S == Range(s)
<1>1. \A j \in i + 1 .. i + n : s[j] \in S
  <2>1. Len(s) \in Nat /\ \A j \in 1 .. Len(s) : s[j] \in S
    BY SeqFacts
  <2> QED
    BY <2>1
<1>2. i + 1 \in Int /\ i + n \in Int
  OBVIOUS
<1> HIDE DEF S
<1>3. /\ t \in Seq(S)
      /\ Len(t) = IF i + 1 <= i + n THEN (i + n) - (i + 1) + 1 ELSE 0
      /\ \A j \in 1 .. (i + n) - (i + 1) + 1 : t[j] = s[(i + 1) + j - 1]
  BY ONLY <1>1, <1>2, SubSeqProperties DEF t
<1> HIDE DEF t
<1>4. Len(t) = n
  BY <1>3
<1>5. \A j \in 1 .. n : t[j] = s[i + j]
  <2> SUFFICES ASSUME NEW j \in 1 .. n PROVE t[j] = s[i + j]
    OBVIOUS
  <2>1. j \in 1 .. (i + n) - (i + 1) + 1 /\ (i + 1) + j - 1 = i + j
    OBVIOUS
  <2> QED
    BY <1>3, <2>1
<1>6. IsSeq(t)
  BY <1>3, SeqOf
<1> QED
  BY <1>4, <1>5, <1>6 DEF t

\* What the walk stands before: the next leg's accounts, all of them.
LEMMA WalkFacts ==
    ASSUME LegsInv, ListInv, StageInv, pc = "walk", leg <= Len(args.swaps)
    PROVE  LET l == legs[leg]
           IN  /\ leg \in 1 .. Len(legs) /\ LegOK(l, leg) /\ Swap = l.spec /\ Walking
               /\ \E o : PlacedIn(o, Whole, legs) /\ at + Swap.n = o[leg + 1]
               /\ IsSeq(Slice) /\ Len(Slice) = Len(LegAccounts(l))
               /\ \A j \in 1 .. Len(Slice) : Slice[j] = LegAccounts(l)[j]
<1> DEFINE l == legs[leg]
           a == LegAccounts(l)
           n == Len(a)
<1>1. /\ Len(legs) \in Nat /\ Len(Specs) = Len(legs)
      /\ \A i \in 1 .. Len(legs) : Specs[i] = legs[i].spec
  BY SpecsFacts
<1>2. args.swaps = Specs /\ leg \in 1 .. Len(legs) + 1 /\ legs # <<>>
  BY DEF StageInv
<1>3. leg \in 1 .. Len(legs)
  BY <1>1, <1>2
<1>4. LegOK(l, leg) /\ Swap = l.spec
  BY <1>1, <1>2, <1>3 DEF LegsInv, Swap
<1>5. Swap.n = n /\ n \in Nat /\ n > 0
  <2>1. Swap.n = n
    BY <1>4 DEF LegOK
  <2>2. Len(LegKeys(l)) \in Nat /\ n = Len(LegKeys(l)) + 1
    BY <1>4, LegFacts
  <2> QED
    BY <2>1, <2>2
<1>6. Whole = list /\ IsSeq(list) /\ Len(list) \in Nat
  <2>1. Whole = list
    BY <1>2 DEF Whole
  <2> QED
    BY <2>1, SeqFacts DEF ListInv
<1>7. PICK o : PlacedIn(o, Whole, legs) /\ at = o[leg]
  BY DEF ListInv
<1>8. /\ o[leg] \in Nat /\ o[leg + 1] = o[leg] + n /\ o[leg + 1] <= Len(list)
      /\ \A j \in 1 .. n : list[o[leg] + j] = a[j]
  <2>1. leg \in 1 .. Len(legs) + 1
    BY <1>1, <1>3
  <2>2. PlacedIn(o, list, legs)
    BY <1>6, <1>7
  <2> QED
    BY <1>3, <2>1, <2>2 DEF PlacedIn
<1> HIDE DEF n, a, l
<1>9. Walking
  BY <1>1, <1>2, <1>3, <1>5, <1>7, <1>8 DEF Walking
<1>10. at \in Nat /\ at + n <= Len(list) /\ at + n = o[leg + 1]
  BY <1>5, <1>7, <1>8
<1>11. /\ IsSeq(Slice) /\ Len(Slice) = n
       /\ \A j \in 1 .. n : Slice[j] = list[at + j]
  <2>1. Slice = SubSeq(list, at + 1, at + n)
    BY <1>5 DEF Slice
  <2>2. LET t == SubSeq(list, at + 1, at + n)
        IN  /\ IsSeq(t) /\ Len(t) = n
            /\ \A j \in 1 .. n : t[j] = list[at + j]
    BY ONLY <1>5, <1>6, <1>10, SliceFacts
  <2> QED
    BY <2>1, <2>2, Zenon
<1>12. \A j \in 1 .. Len(Slice) : Slice[j] = a[j]
  BY <1>7, <1>8, <1>11
<1>13. at + Swap.n = o[leg + 1]
  BY <1>5, <1>10
<1> QED
  BY <1>3, <1>4, <1>5, <1>7, <1>9, <1>11, <1>12, <1>13 DEF l, a, n

\* A leg is behind the walk, called or not.
LEMMA PassLeg ==
    ASSUME LegsInv, ListInv, StageInv, Walking, at' = at + Swap.n, leg' = leg + 1,
           UNCHANGED <<venueVars, legs, list, sent, args, pc>>
    PROVE  LegsInv' /\ ListInv' /\ StageInv'
<1>1. pc = "walk" /\ leg <= Len(args.swaps)
  BY DEF Walking
<1>2. /\ leg \in 1 .. Len(legs)
      /\ \E o : PlacedIn(o, Whole, legs) /\ at + Swap.n = o[leg + 1]
  BY <1>1, WalkFacts
<1>3. LegsInv'
  BY DEF LegsInv, LegOK
<1>4. ListInv'
  <2>1. Whole' = Whole
    BY DEF Whole
  <2>2. PICK o : PlacedIn(o, Whole, legs) /\ at + Swap.n = o[leg + 1]
    BY <1>2
  <2>3. PlacedIn(o, Whole', legs') /\ at' = o[leg']
    BY <2>1, <2>2
  <2>4. \E u : PlacedIn(u, Whole', legs') /\ (pc' \in {"walk", "done"} => at' = u[leg'])
    BY <2>3
  <2> QED
    BY <2>1, <2>4 DEF ListInv
<1>5. Specs' = Specs
  BY DEF Specs
<1>6. Len(legs) \in Nat /\ leg' \in 1 .. Len(legs) + 1
  BY <1>2, SpecsFacts
<1>7. StageInv'
  BY <1>1, <1>5, <1>6 DEF StageInv
<1> QED
  BY <1>3, <1>4, <1>7

LEMMA SkipStep ==
    ASSUME LegsInv, ListInv, StageInv, CallInv, Skip
    PROVE  LegsInv' /\ ListInv' /\ StageInv' /\ CallInv'
<1>1. LegsInv' /\ ListInv' /\ StageInv'
  BY PassLeg DEF Skip
<1>2. CallInv'
  BY DEF Skip, CallInv, CallOK
<1> QED
  BY <1>1, <1>2

LEMMA CallStep ==
    ASSUME LegsInv, ListInv, StageInv, CallInv, Call
    PROVE  LegsInv' /\ ListInv' /\ StageInv' /\ CallInv'
<1> DEFINE l == legs[leg]
           k == LegKeys(l)
           a == LegAccounts(l)
           c == QuaySwap(Swap.sellBase, CallMetas(Slice))
<1>1. /\ Walking /\ Callable /\ calls' = Append(calls, c)
      /\ at' = at + Swap.n /\ leg' = leg + 1
      /\ UNCHANGED <<venueVars, legs, list, sent, args, pc>>
  BY DEF Call
<1>2. pc = "walk" /\ leg <= Len(args.swaps)
  BY <1>1 DEF Walking
<1>3. LegsInv' /\ ListInv' /\ StageInv'
  BY <1>1, PassLeg
<1>4. /\ leg \in 1 .. Len(legs) /\ LegOK(l, leg) /\ Swap = l.spec
      /\ IsSeq(Slice) /\ Len(Slice) = Len(a)
      /\ \A j \in 1 .. Len(Slice) : Slice[j] = a[j]
  BY <1>2, WalkFacts
<1>5. /\ IsSeq(k) /\ Len(k) \in Nat /\ Len(a) = Len(k) + 1
      /\ \A j \in 1 .. Len(k) : a[j] = Meta(k[j], FALSE)
      /\ a[Len(k) + 1] = Meta(ProgramOf[l.venue], FALSE)
  BY <1>4, LegFacts
<1>6. DOMAIN k = 1 .. Len(k)
  BY <1>5, SeqFacts
<1>7. Swap.sellBase = (l.in = BaseOf[l.venue])
  BY <1>4 DEF LegOK
<1> HIDE DEF l, k, a
<1> DEFINE s == Slice
           n == Len(k)
<1>8. n \in Nat /\ Len(s) = n + 1 /\ \A j \in 1 .. n + 1 : s[j] = a[j]
  BY <1>4, <1>5
<1>9. /\ \A j \in 1 .. n : a[j] = Meta(k[j], FALSE)
      /\ a[n + 1] = Meta(ProgramOf[l.venue], FALSE)
  BY <1>5
<1> HIDE DEF s, n
<1>10. 1 .. n \subseteq 1 .. n + 1 /\ n + 1 \in 1 .. n + 1
  BY <1>8
<1>11. Len(s) = n + 1 /\ s[n + 1] = Meta(ProgramOf[l.venue], FALSE)
  <2>1. n + 1 \in 1 .. n + 1
    BY <1>10
  <2>2. s[n + 1] = a[n + 1]
    BY ONLY <1>8, <2>1
  <2>3. a[n + 1] = Meta(ProgramOf[l.venue], FALSE)
    BY <1>9
  <2>4. Len(s) = n + 1
    BY <1>8
  <2> QED
    BY ONLY <2>2, <2>3, <2>4
<1>12. \A j \in 1 .. n : s[j] = Meta(k[j], FALSE)
  <2> SUFFICES ASSUME NEW j \in 1 .. n PROVE s[j] = Meta(k[j], FALSE)
    OBVIOUS
  <2>1. s[j] = a[j]
    BY <1>8, <1>10
  <2>2. a[j] = Meta(k[j], FALSE)
    BY <1>9
  <2> QED
    BY ONLY <2>1, <2>2, Zenon
<1>13. CallMetas(s) = CallKeys(k)
  <2>1. \A j \in 1 .. n :
          Meta(s[j].key, s[j].key = Titan \/ s[j].signer) = Meta(k[j], k[j] = Titan)
    <3> SUFFICES ASSUME NEW j \in 1 .. n
                 PROVE  Meta(s[j].key, s[j].key = Titan \/ s[j].signer) = Meta(k[j], k[j] = Titan)
      OBVIOUS
    <3>1. s[j] = Meta(k[j], FALSE)
      BY <1>12
    <3>2. \A x, y : Meta(x, y).key = x /\ Meta(x, y).signer = y
      BY DEF Meta
    <3>3. s[j].key = k[j] /\ s[j].signer = FALSE
      <4>1. Meta(k[j], FALSE).key = k[j] /\ Meta(k[j], FALSE).signer = FALSE
        BY <3>2
      <4> QED
        BY <3>1, <4>1, Zenon
    <3>4. (s[j].key = Titan \/ s[j].signer) = (k[j] = Titan)
      BY <3>3
    <3> QED
      BY <3>3, <3>4, Zenon
  <2>2. 1 .. Len(s) - 1 = 1 .. n
    BY <1>11, <1>8
  <2>3. CallMetas(s) = [j \in 1 .. n |-> Meta(s[j].key, s[j].key = Titan \/ s[j].signer)]
    BY <2>2, Zenon DEF CallMetas
  <2>4. CallKeys(k) = [j \in 1 .. n |-> Meta(k[j], k[j] = Titan)]
    BY <1>6 DEF CallKeys, n
  <2> QED
    BY ONLY <2>1, <2>3, <2>4
<1>14. QuayProgram \in Range(k) \cup {ProgramOf[l.venue]}
  <2>1. DOMAIN s = 1 .. n + 1
    BY <1>4, <1>11, SeqFacts DEF s
  <2>2. PICK j \in 1 .. n + 1 : s[j].key = QuayProgram
    <3>1. \E j \in DOMAIN KeysOf(s) : KeysOf(s)[j] = QuayProgram
      BY <1>1 DEF Callable, Range, s
    <3>2. DOMAIN KeysOf(s) = 1 .. n + 1 /\ \A j \in 1 .. n + 1 : KeysOf(s)[j] = s[j].key
      BY <2>1 DEF KeysOf
    <3> QED
      BY <3>1, <3>2
  <2>3. \A x, y : Meta(x, y).key = x
    BY DEF Meta
  <2>4. CASE j \in 1 .. n
    <3>1. s[j] = Meta(k[j], FALSE)
      BY <1>12, <2>4
    <3>2. k[j] = QuayProgram
      BY <2>2, <2>3, <3>1, Zenon
    <3> QED
      BY <1>6, <2>4, <3>2 DEF Range, n
  <2>5. CASE j = n + 1
    BY <1>11, <2>2, <2>3, <2>5, Zenon
  <2> QED
    BY <1>8, <2>2, <2>4, <2>5
<1>15. /\ c.leg = leg /\ c.program = QuayProgram /\ c.metas = CallKeys(k)
       /\ c.side = IF l.in = BaseOf[l.venue] THEN 0 ELSE 1
  BY <1>7, <1>13 DEF QuaySwap, s
<1> HIDE DEF c
<1>16. CallOK(c)
  BY <1>4, <1>14, <1>15 DEF CallOK, l, k
<1>17. CallInv'
  <2>1. IsSeq(calls) /\ Len(calls) \in Nat
    BY SeqFacts DEF CallInv
  <2>2. /\ IsSeq(calls') /\ Len(calls') = Len(calls) + 1
        /\ \A i \in 1 .. Len(calls) : calls'[i] = calls[i]
        /\ calls'[Len(calls) + 1] = c
    BY <1>1, <2>1, AppendFacts
  <2>3. ASSUME NEW i \in 1 .. Len(calls') PROVE CallOK(calls'[i])
    <3>1. CASE i = Len(calls) + 1
      BY <1>16, <2>2, <3>1
    <3>2. CASE i \in 1 .. Len(calls)
      BY <2>2, <3>2 DEF CallInv
    <3> QED
      BY <2>1, <2>2, <3>1, <3>2
  <2>4. legs' = legs
    BY <1>1
  <2> QED
    BY <2>2, <2>3, <2>4 DEF CallInv, CallOK
<1> QED
  BY <1>3, <1>17

LEMMA FinishStep ==
    ASSUME LegsInv, ListInv, StageInv, CallInv, Finish
    PROVE  LegsInv' /\ ListInv' /\ StageInv' /\ CallInv'
<1>1. /\ pc = "walk" /\ leg > Len(args.swaps) /\ pc' = "done"
      /\ UNCHANGED <<venueVars, legs, list, sent, args, at, leg, calls>>
  BY DEF Finish
<1>2. LegsInv'
  BY <1>1 DEF LegsInv, LegOK
<1>3. ListInv'
  BY <1>1 DEF ListInv, Whole, PlacedIn
<1>4. Specs' = Specs
  BY <1>1 DEF Specs
<1>5. leg = Len(legs) + 1
  <2>1. args.swaps = Specs /\ leg \in 1 .. Len(legs) + 1
    BY <1>1 DEF StageInv
  <2> QED
    BY <1>1, <2>1, SpecsFacts
<1>6. StageInv'
  BY <1>1, <1>4, <1>5 DEF StageInv
<1>7. CallInv'
  BY <1>1 DEF CallInv, CallOK
<1> QED
  BY <1>2, <1>3, <1>6, <1>7

LEMMA NextRouteStep ==
    ASSUME NextRoute
    PROVE  LegsInv' /\ ListInv' /\ StageInv' /\ CallInv'
<1>1. legs' = <<>> /\ list' = <<>> /\ pc' = "build" /\ calls' = <<>>
  BY DEF NextRoute
<1>2. LegsInv'
  BY <1>1, EmptyFacts, RouteAssumption DEF LegsInv
<1>3. ListInv'
  <2>1. Whole' = RouteAccounts
    BY <1>1 DEF Whole
  <2>2. /\ IsSeq(RouteAccounts) /\ Len(RouteMints) \in Nat
        /\ Len(RouteAccounts) = 2 * Len(RouteMints)
        /\ \A i \in 1 .. Len(RouteAccounts) : ~ RouteAccounts[i].signer
    BY RouteAccountsFacts
  <2>3. PlacedIn([i \in {1} |-> 2 * Len(RouteMints)], RouteAccounts, <<>>)
    BY <2>2, EmptyFacts DEF PlacedIn
  <2> QED
    BY <1>1, <2>1, <2>2, <2>3 DEF ListInv
<1>4. StageInv'
  BY <1>1 DEF StageInv
<1>5. CallInv'
  BY <1>1, EmptyFacts DEF CallInv
<1> QED
  BY <1>2, <1>3, <1>4, <1>5

LEMMA NextInv == RInv /\ [Next]_vars => RInv'
<1> SUFFICES ASSUME RInv, [Next]_vars PROVE RInv'
  OBVIOUS
<1> USE DEF RInv
<1>1. ASSUME NEW tx \in Transactions, NEW b \in Bindings, Discover(tx, b) PROVE RInv'
  <2>1. UNCHANGED routeVars
    BY <1>1 DEF Discover
  <2> QED
    BY <1>1, <2>1, DiscoverStep, RouteKept
<1>2. ASSUME NEW v \in Venues, NEW b \in Bindings, Refresh(v, b) PROVE RInv'
  <2>1. UNCHANGED routeVars
    BY <1>2 DEF Refresh, routeVars
  <2> QED
    BY <1>2, <2>1, RefreshStep, RouteKept
<1>3. ASSUME NEW v \in Venues, NEW in \in Range(RouteMints), NEW out \in Range(RouteMints),
             BuildLeg(v, in, out)
      PROVE  RInv'
  <2>1. UNCHANGED venueVars
    BY <1>3 DEF BuildLeg
  <2> QED
    BY <1>3, <2>1, BuildStep, VenueKept
<1>4. CASE Submit
  BY <1>4, SubmitStep, VenueKept DEF Submit
<1>5. CASE Receive
  BY <1>5, ReceiveStep, VenueKept DEF Receive
<1>6. CASE Call
  BY <1>6, CallStep, VenueKept DEF Call
<1>7. CASE Skip
  BY <1>7, SkipStep, VenueKept DEF Skip
<1>8. CASE Finish
  BY <1>8, FinishStep, VenueKept DEF Finish
<1>9. CASE NextRoute
  BY <1>9, NextRouteStep, VenueKept DEF NextRoute
<1>10. CASE UNCHANGED vars
  <2>1. UNCHANGED venueVars /\ UNCHANGED routeVars
    BY <1>10 DEF vars
  <2> QED
    BY <2>1, VenueKept, RouteKept
<1> QED
  BY <1>1, <1>2, <1>3, <1>4, <1>5, <1>6, <1>7, <1>8, <1>9, <1>10 DEF Next

LEMMA RouteInvariant == Spec => []RInv
BY InitInv, NextInv, PTL DEF Spec

-----------------------------------------------------------------------------
(* What follows. *)

LEMMA CallFacts ==
    ASSUME LegsInv, CallInv, NEW i \in DOMAIN calls
    PROVE  LET c == calls[i]
               l == legs[c.leg]
               k == LegKeys(l)
           IN  /\ c.leg \in 1 .. Len(legs) /\ LegOK(l, c.leg)
               /\ IsSeq(k) /\ Len(k) \in Nat /\ Len(k) >= 12 /\ DOMAIN k = 1 .. Len(k)
               /\ k[5] = Vault(l.venue, l.in) /\ k[7] = TakerAta(Infos(l.venue), l.in)
               /\ k[8] = TakerAta(Infos(l.venue), l.out) /\ k[9] = Titan
               /\ DOMAIN c.metas = 1 .. Len(k)
               /\ \A j \in 1 .. Len(k) : c.metas[j] = Meta(k[j], k[j] = Titan)
               /\ c.side = IF l.in = BaseOf[l.venue] THEN 0 ELSE 1
               /\ c.program = QuayProgram
               /\ QuayProgram \in Range(k) \cup {ProgramOf[l.venue]}
<1> DEFINE c == calls[i]
           l == legs[c.leg]
           k == LegKeys(l)
<1>1. CallOK(c)
  BY SeqFacts DEF CallInv
<1>2. /\ c.leg \in 1 .. Len(legs) /\ c.program = QuayProgram /\ c.metas = CallKeys(k)
      /\ c.side = IF l.in = BaseOf[l.venue] THEN 0 ELSE 1
      /\ QuayProgram \in Range(k) \cup {ProgramOf[l.venue]}
  BY <1>1 DEF CallOK
<1>3. LegOK(l, c.leg)
  BY <1>2 DEF LegsInv
<1> HIDE DEF c, l
<1>4. /\ IsSeq(k) /\ Len(k) \in Nat /\ Len(k) >= 12
      /\ k[5] = Vault(l.venue, l.in) /\ k[7] = TakerAta(Infos(l.venue), l.in)
      /\ k[8] = TakerAta(Infos(l.venue), l.out) /\ k[9] = Titan
  BY <1>3, LegFacts
<1> HIDE DEF k
<1>5. DOMAIN k = 1 .. Len(k)
  BY <1>4, SeqFacts
<1>6. DOMAIN c.metas = 1 .. Len(k) /\ \A j \in 1 .. Len(k) : c.metas[j] = Meta(k[j], k[j] = Titan)
  BY <1>2, <1>5 DEF CallKeys
<1> QED
  BY <1>2, <1>3, <1>4, <1>5, <1>6 DEF k, l, c

\* Whatever the routes, the legs skipped and the venues rebound meanwhile, no
\* account of a route's list asks for a signature of the transaction, and in
\* every call the program signs for TitanPDA and for nobody else.
THEOREM TitanSignsAlone == Spec => []OnlyTitanSigns
<1>1. RInv => OnlyTitanSigns
  <2> SUFFICES ASSUME RInv PROVE OnlyTitanSigns
    OBVIOUS
  <2> USE DEF RInv
  <2>1. ASSUME NEW i \in DOMAIN list PROVE ~ list[i].signer
    <3>1. CASE legs = <<>>
      <4>1. list = <<>>
        BY <3>1 DEF ListInv
      <4> QED
        BY <4>1
    <3>2. CASE legs # <<>>
      <4>1. Whole = list
        BY <3>2 DEF Whole
      <4>2. IsSeq(list) /\ \A j \in 1 .. Len(list) : ~ list[j].signer
        BY <4>1 DEF ListInv
      <4> QED
        BY <4>2, SeqFacts
    <3> QED
      BY <3>1, <3>2
  <2>2. ASSUME NEW i \in DOMAIN calls
        PROVE  {m \in Range(calls[i].metas) : m.signer} = {Meta(Titan, TRUE)}
    <3> DEFINE ms == calls[i].metas
               k == LegKeys(legs[calls[i].leg])
    <3>1. /\ Len(k) \in Nat /\ Len(k) >= 12 /\ k[9] = Titan /\ DOMAIN ms = 1 .. Len(k)
          /\ \A j \in 1 .. Len(k) : ms[j] = Meta(k[j], k[j] = Titan)
      BY CallFacts
    <3> HIDE DEF ms, k
    <3>2. \A x, y : Meta(x, y).signer = y
      BY DEF Meta
    <3>3. ASSUME NEW m \in Range(ms), m.signer PROVE m = Meta(Titan, TRUE)
      <4>1. PICK j \in 1 .. Len(k) : m = Meta(k[j], k[j] = Titan)
        BY <3>1 DEF Range
      <4>2. k[j] = Titan
        <5>1. Meta(k[j], k[j] = Titan).signer = (k[j] = Titan)
          BY DEF Meta
        <5> QED
          BY <3>3, <4>1, <5>1
      <4> QED
        BY <4>1, <4>2
    <3>4. Meta(Titan, TRUE) \in Range(ms) /\ Meta(Titan, TRUE).signer
      <4>1. 9 \in DOMAIN ms /\ ms[9] = Meta(k[9], k[9] = Titan)
        BY <3>1
      <4>2. Meta(k[9], k[9] = Titan) = Meta(Titan, TRUE)
        BY <3>1
      <4> QED
        BY <4>1, <4>2, Zenon DEF Range, Meta
    <3>5. {m \in Range(ms) : m.signer} = {Meta(Titan, TRUE)}
      BY <3>3, <3>4
    <3> QED
      BY <3>5 DEF ms
  <2> QED
    BY <2>1, <2>2 DEF OnlyTitanSigns
<1> QED
  BY <1>1, RouteInvariant, PTL

\* The side byte of every call says what the order of its accounts says, for
\* every venue: build_swap_leg and build_swap_ix derive them separately.
THEOREM SidesAgree == Spec => []SideAgrees
<1>1. RInv => SideAgrees
  <2> SUFFICES ASSUME RInv, NEW i \in DOMAIN calls
               PROVE  LET v == legs[calls[i].leg].venue
                      IN  calls[i].side = 0 <=> calls[i].metas[5].key = Vault(v, BaseOf[v])
    BY DEF SideAgrees
  <2> USE DEF RInv
  <2> DEFINE c == calls[i]
             l == legs[c.leg]
             k == LegKeys(l)
  <2>1. /\ Len(k) \in Nat /\ Len(k) >= 12 /\ k[5] = Vault(l.venue, l.in)
        /\ \A j \in 1 .. Len(k) : c.metas[j] = Meta(k[j], k[j] = Titan)
        /\ c.side = IF l.in = BaseOf[l.venue] THEN 0 ELSE 1
    BY CallFacts
  <2> HIDE DEF c, l, k
  <2>2. c.metas[5].key = Vault(l.venue, l.in)
    <3>1. c.metas[5] = Meta(k[5], k[5] = Titan)
      BY <2>1
    <3> QED
      BY <2>1, <3>1 DEF Meta
  <2>3. Vault(l.venue, l.in) = Vault(l.venue, BaseOf[l.venue]) <=> l.in = BaseOf[l.venue]
    BY DEF Vault
  <2>4. c.side = 0 <=> c.metas[5].key = Vault(l.venue, BaseOf[l.venue])
    BY <2>1, <2>2, <2>3
  <2> QED
    BY <2>4 DEF l, c
<1> QED
  BY <1>1, RouteInvariant, PTL

\* The program walks over the route that was built: what it decoded is what
\* encode_swap_route_v3_data was given, from the first leg to the last.
THEOREM RouteIsRead == Spec => []ProgramReadsRoute
<1>1. RInv => ProgramReadsRoute
  BY DEF RInv, StageInv, ProgramReadsRoute
<1> QED
  BY <1>1, RouteInvariant, PTL

\* The counts of the legs add up to the list, for any number of legs of any
\* lengths, called or skipped: a walk that is over has passed every account.
THEOREM ListIsConsumed == Spec => []ListConsumed
<1>1. RInv => ListConsumed
  <2> SUFFICES ASSUME RInv, pc = "done" PROVE at = Len(list)
    BY DEF ListConsumed
  <2> USE DEF RInv
  <2>1. leg = Len(legs) + 1 /\ legs # <<>>
    BY DEF StageInv
  <2>2. Whole = list
    BY <2>1 DEF Whole
  <2>3. PICK o : PlacedIn(o, Whole, legs) /\ at = o[leg]
    BY DEF ListInv
  <2> QED
    BY <2>1, <2>2, <2>3 DEF PlacedIn
<1> QED
  BY <1>1, RouteInvariant, PTL

\* Both token programs' accounts are told apart the same way on both sides.
LEMMA TakerAtaIsOwners ==
    ASSUME NEW v, NEW m \in {BaseOf[v], QuoteOf[v]}, m \in Range(RouteMints)
    PROVE  TakerAta(Infos(v), m) = Ata(m, OwnerOf[m])
<1>1. OwnerOf[m] \in {Token, Token2022}
  BY RouteAssumption DEF Range, Slots
<1>2. TokenProgram(TokenInfo(m)) = OwnerOf[m]
  BY <1>1 DEF TokenProgram, TokenInfo
<1>3. Infos(v)[1] = TokenInfo(BaseOf[v]) /\ Infos(v)[2] = TokenInfo(QuoteOf[v])
  BY DEF Infos
<1>4. \A x : TokenInfo(x).pubkey = x
  BY DEF TokenInfo
<1>5. Infos(v)[IF Infos(v)[1].pubkey = m THEN 1 ELSE 2] = TokenInfo(m)
  BY <1>3, <1>4
<1> QED
  BY <1>2, <1>5 DEF TakerAta

LEMMA SlotFacts ==
    ASSUME NEW m \in Range(RouteMints)
    PROVE  SlotOf(m) + 1 \in 1 .. Len(RouteMints) /\ RouteMints[SlotOf(m) + 1] = m
<1> DEFINE i == CHOOSE i \in Slots : RouteMints[i] = m
<1>1. i \in Slots /\ RouteMints[i] = m
  BY DEF Range, Slots
<1> HIDE DEF i
<1>2. Slots = 1 .. Len(RouteMints) /\ Len(RouteMints) \in Nat
  BY RouteAssumption, SeqFacts DEF Slots, IsSeq
<1>3. SlotOf(m) = i - 1
  BY DEF SlotOf, i
<1>4. SlotOf(m) + 1 = i
  BY <1>1, <1>2, <1>3
<1> QED
  BY <1>1, <1>2, <1>4

\* A slot of the list is TitanPDA's account for the mint.
LEMMA SlotAccount ==
    ASSUME ListInv, legs # <<>>, NEW m \in Range(RouteMints)
    PROVE  list[SlotOf(m) + 1].key = Ata(m, OwnerOf[m])
<1> DEFINE i == SlotOf(m) + 1
<1>1. i \in 1 .. Len(RouteMints) /\ RouteMints[i] = m
  BY SlotFacts
<1> HIDE DEF i
<1>2. /\ Len(RouteMints) \in Nat
      /\ RouteAccounts[i] = Meta(Ata(RouteMints[i], OwnerOf[RouteMints[i]]), FALSE)
  BY <1>1, RouteAccountsFacts
<1>3. i \in 1 .. 2 * Len(RouteMints)
  BY <1>1, <1>2
<1>4. list[i] = RouteAccounts[i]
  BY <1>3 DEF ListInv, Whole
<1> QED
  BY <1>1, <1>2, <1>4 DEF i, Meta

\* A leg moves tokens between the accounts whose balances the program reads for
\* it: the client's associated accounts, derived from TokenInfo, and the
\* program's, from the owner of the mint, are the same ones in every call.
THEOREM LegsMoveSlots == Spec => []LegsUseSlots
<1>1. RInv => LegsUseSlots
  <2> SUFFICES ASSUME RInv, NEW i \in DOMAIN calls
               PROVE  LET swap == args.swaps[calls[i].leg]
                      IN  /\ calls[i].metas[7].key = list[swap.from + 1].key
                          /\ calls[i].metas[8].key = list[swap.to + 1].key
    BY DEF LegsUseSlots
  <2> USE DEF RInv
  <2> DEFINE c == calls[i]
             l == legs[c.leg]
             k == LegKeys(l)
             swap == args.swaps[c.leg]
  <2>1. /\ c.leg \in 1 .. Len(legs) /\ LegOK(l, c.leg)
        /\ Len(k) \in Nat /\ Len(k) >= 12
        /\ k[7] = TakerAta(Infos(l.venue), l.in) /\ k[8] = TakerAta(Infos(l.venue), l.out)
        /\ \A j \in 1 .. Len(k) : c.metas[j] = Meta(k[j], k[j] = Titan)
    BY CallFacts
  <2>2. pc \in {"walk", "done"}
    <3>1. calls # <<>>
      OBVIOUS
    <3> QED
      BY <3>1 DEF StageInv
  <2>3. legs # <<>> /\ args.swaps = Specs
    BY <2>2 DEF StageInv
  <2>4. swap = l.spec
    BY <2>1, <2>3, SpecsFacts
  <2> HIDE DEF swap, k, l, c
  <2>5. /\ swap.from = SlotOf(l.in) /\ swap.to = SlotOf(l.out)
        /\ l.in \in Range(RouteMints) /\ l.out \in Range(RouteMints)
        /\ l.in \in {BaseOf[l.venue], QuoteOf[l.venue]}
        /\ l.out \in {BaseOf[l.venue], QuoteOf[l.venue]}
    BY <2>1, <2>4 DEF LegOK, Trades
  <2>6. /\ k[7] = Ata(l.in, OwnerOf[l.in])
        /\ k[8] = Ata(l.out, OwnerOf[l.out])
    BY <2>1, <2>5, TakerAtaIsOwners
  <2>7. /\ list[SlotOf(l.in) + 1].key = Ata(l.in, OwnerOf[l.in])
        /\ list[SlotOf(l.out) + 1].key = Ata(l.out, OwnerOf[l.out])
    BY <2>3, <2>5, SlotAccount
  <2>8. c.metas[7].key = k[7] /\ c.metas[8].key = k[8]
    <3>1. c.metas[7] = Meta(k[7], k[7] = Titan) /\ c.metas[8] = Meta(k[8], k[8] = Titan)
      BY <2>1
    <3> QED
      BY <3>1 DEF Meta
  <2>9. c.metas[7].key = list[swap.from + 1].key /\ c.metas[8].key = list[swap.to + 1].key
    BY <2>5, <2>6, <2>7, <2>8
  <2> QED
    BY <2>9 DEF swap, c
<1> QED
  BY <1>1, RouteInvariant, PTL

\* No strategy binds the program itself as an account of its swaps.
NoProgramBound == \A b \in Bindings : QuayProgram \notin Range(b)

\* Each call has the accounts that the venue's own instruction listed when the
\* leg was built; and unless a strategy binds the program as an account, a venue
\* of another deployment is never called.
THEOREM CallsAreTheVenues ==
    ASSUME NoProgramBound
    PROVE  Spec => []OwnAccounts
<1>1. RInv => OwnAccounts
  <2> SUFFICES ASSUME RInv, NEW i \in DOMAIN calls
               PROVE  LET l == legs[calls[i].leg]
                      IN  /\ KeysOf(calls[i].metas)
                               = SwapKeys(l.venue, Infos(l.venue), l.in, l.out, l.binding)
                          /\ calls[i].program = ProgramOf[l.venue]
    BY DEF OwnAccounts
  <2> USE DEF RInv
  <2> DEFINE c == calls[i]
             l == legs[c.leg]
             k == LegKeys(l)
  <2>1. /\ LegOK(l, c.leg) /\ IsSeq(k) /\ DOMAIN k = 1 .. Len(k)
        /\ DOMAIN c.metas = 1 .. Len(k)
        /\ \A j \in 1 .. Len(k) : c.metas[j] = Meta(k[j], k[j] = Titan)
        /\ c.program = QuayProgram
        /\ QuayProgram \in Range(k) \cup {ProgramOf[l.venue]}
    BY CallFacts
  <2>2. QuayProgram \notin Range(k)
    <3> DEFINE v == l.venue
               own == OwnKeys(v, l.in, l.out)
               ps == Programs(Infos(v))
    <3>1. v \in Venues /\ l.binding \in Bindings /\ l.in \in {BaseOf[v], QuoteOf[v]}
          /\ l.out \in {BaseOf[v], QuoteOf[v]}
      BY <2>1 DEF LegOK, Trades
    <3> HIDE DEF l
    <3>2. Range(k) = Range(own) \cup Range(ps) \cup Range(l.binding)
      BY <3>1, KeysFacts DEF LegKeys
    <3> HIDE DEF k
    <3>3. SwapKeys(v, Infos(v), l.in, l.out, <<>>) = own \o ps \o <<>>
      BY DEF SwapKeys, OwnKeys
    <3>4. Range(own) \cup Range(ps) \subseteq Range(own \o ps \o <<>>)
      <4>1. IsSeq(own) /\ IsSeq(ps)
        BY OwnKeysFacts, ProgramsFacts
      <4> HIDE DEF own, ps
      <4>2. IsSeq(own \o ps) /\ Range(own \o ps) = Range(own) \cup Range(ps)
        BY ONLY <4>1, ConcatFacts, RangeConcat
      <4>3. Range((own \o ps) \o <<>>) = Range(own \o ps) \cup Range(<<>>)
        BY ONLY <4>2, EmptyFacts, RangeConcat
      <4> QED
        BY <4>2, <4>3
    <3>5. QuayProgram \notin Range(SwapKeys(v, Infos(v), l.in, l.out, <<>>))
      BY <3>1, AddressAssumption
    <3>6. QuayProgram \notin Range(l.binding)
      BY <3>1 DEF NoProgramBound
    <3> HIDE DEF own, ps
    <3> QED
      BY <3>2, <3>3, <3>4, <3>5, <3>6
  <2>3. KeysOf(c.metas) = k
    <3> HIDE DEF k, c
    <3>1. \A j \in 1 .. Len(k) : c.metas[j].key = k[j]
      <4> SUFFICES ASSUME NEW j \in 1 .. Len(k) PROVE c.metas[j].key = k[j]
        OBVIOUS
      <4>1. c.metas[j] = Meta(k[j], k[j] = Titan)
        BY <2>1
      <4>2. Meta(k[j], k[j] = Titan).key = k[j]
        BY DEF Meta
      <4> QED
        BY <4>1, <4>2, Zenon
    <3>2. KeysOf(c.metas) = [j \in 1 .. Len(k) |-> c.metas[j].key]
      BY <2>1 DEF KeysOf
    <3>3. k = [j \in 1 .. Len(k) |-> k[j]]
      BY <2>1, SeqDef, LenProperties DEF IsSeq
    <3> QED
      BY ONLY <3>1, <3>2, <3>3
  <2>4. c.program = ProgramOf[l.venue]
    BY <2>1, <2>2
  <2> HIDE DEF c, k
  <2> QED
    BY <2>3, <2>4 DEF LegKeys, k, c
<1> QED
  BY <1>1, RouteInvariant, PTL

\* A route over discovered venues never stops on its way: from wherever the walk
\* is, the next leg's accounts are there and the program is among them.
THEOREM DiscoveredAreCallable == Spec => []DiscoveredCallable
<1>1. RInv => DiscoveredCallable
  <2> SUFFICES ASSUME RInv, pc = "walk", \A i \in DOMAIN legs : legs[i].venue \in Pools(found),
                      leg <= Len(args.swaps)
               PROVE  Walking /\ Callable
    BY DEF DiscoveredCallable
  <2> USE DEF RInv
  <2> DEFINE l == legs[leg]
             a == LegAccounts(l)
             k == LegKeys(l)
             s == Slice
  <2>1. /\ leg \in 1 .. Len(legs) /\ LegOK(l, leg) /\ Walking
        /\ IsSeq(s) /\ Len(s) = Len(a)
        /\ \A j \in 1 .. Len(s) : s[j] = a[j]
    BY WalkFacts
  <2>2. ProgramOf[l.venue] = QuayProgram
    <3>1. leg \in DOMAIN legs
      BY <2>1, SeqFacts DEF LegsInv
    <3> QED
      BY <3>1 DEF VenueInv
  <2>3. Len(k) \in Nat /\ Len(a) = Len(k) + 1 /\ a[Len(k) + 1] = Meta(ProgramOf[l.venue], FALSE)
    BY <2>1, LegFacts
  <2> HIDE DEF l, a, k, s
  <2> DEFINE n == Len(a)
  <2>4. n \in 1 .. Len(s) /\ DOMAIN s = 1 .. Len(s)
    BY <2>1, <2>3, SeqFacts
  <2>5. s[n].key = QuayProgram
    BY <2>1, <2>2, <2>3, <2>4 DEF Meta
  <2>6. n \in DOMAIN KeysOf(s) /\ KeysOf(s)[n] = QuayProgram
    BY <2>4, <2>5 DEF KeysOf
  <2>7. Callable
    BY <2>6, Zenon DEF Callable, Range, s
  <2> QED
    BY <2>1, <2>7
<1> QED
  BY <1>1, RouteInvariant, PTL

\* TitanPDA and its accounts are none of a venue's own, nor of those it binds.
TakerApart ==
    \A v \in Venues : \A b \in Bindings :
        \A t \in {Titan, TakerAta(Infos(v), BaseOf[v]), TakerAta(Infos(v), QuoteOf[v])} :
            t \notin Fixed(v) \cup Range(b) \cup Dependencies

\* "Everything except the taker and its two ATAs": however a strategy is rebound,
\* the lookup table made of a venue covers the swaps built from it.
THEOREM TablesCoverSwaps ==
    ASSUME TakerApart
    PROVE  Spec => []TableCovers
<1>1. RInv => TableCovers
  <2> SUFFICES ASSUME RInv, NEW v \in Known
               PROVE  LET infos == Infos(v)
                          keys == Range(SwapKeys(v, infos, BaseOf[v], QuoteOf[v], ext[v]))
                      IN  keys \ LookupKeys(v) =
                            {Titan, TakerAta(infos, BaseOf[v]), TakerAta(infos, QuoteOf[v])}
    BY DEF TableCovers
  <2> USE DEF RInv
  <2> DEFINE infos == Infos(v)
             x == BaseOf[v]
             y == QuoteOf[v]
             b == ext[v]
             own == Range(OwnKeys(v, x, y))
             ps == Range(Programs(infos))
             keys == Range(SwapKeys(v, infos, x, y, b))
             takers == {Titan, TakerAta(infos, x), TakerAta(infos, y)}
  <2>1. v \in Venues /\ b \in Bindings
    BY LegAssumption DEF Known, VenueInv
  <2>2. keys = own \cup ps \cup Range(b)
    BY <2>1, KeysFacts
  <2>3. own = {Key("config", v), Key("strategy", v), Key("mm", v), Key("quotes", v),
               Vault(v, x), Vault(v, y), TakerAta(infos, x), TakerAta(infos, y), Titan,
               Key("mint", x), Key("mint", y), Instructions}
    BY OwnKeysFacts
  <2>4. ps \subseteq Dependencies
    BY ProgramsFacts DEF TokenProgram, Dependencies
  <2>5. LookupKeys(v) = Fixed(v) \cup Range(b) \cup Dependencies
    BY DEF LookupKeys
  <2>6. own \subseteq Fixed(v) \cup takers
    BY <2>3 DEF Fixed
  <2>7. takers \subseteq own
    BY <2>3
  <2>8. \A t \in takers : t \notin Fixed(v) \cup Range(b) \cup Dependencies
    BY <2>1 DEF TakerApart
  <2> HIDE DEF own, ps, takers, keys, b
  <2>9. keys \ LookupKeys(v) = takers
    BY <2>2, <2>4, <2>5, <2>6, <2>7, <2>8
  <2> QED
    BY <2>9 DEF keys, takers, b
<1> QED
  BY <1>1, RouteInvariant, PTL
=============================================================================

----------------------------- MODULE SeedToolProofs -----------------------------
(***************************************************************************)
(* Proofs about the seed tool, for every set of dictionaries: words decode  *)
(* to the key they were made from, messages have their size, and a device   *)
(* with a prefix holds one whole dictionary.                                *)
(***************************************************************************)
EXTENDS SeedTool, SequenceTheorems, TLAPS

(* Words and keys.                                                          *)

\* Division with remainder is unique, and exists.
LEMMA DivUnique ==
    ASSUME NEW n \in Nat \ {0}, NEW q \in Nat, NEW r \in 0 .. n - 1
    PROVE  (n * q + r) \div n = q /\ (n * q + r) % n = r
  OBVIOUS

LEMMA DivMod ==
    ASSUME NEW n \in Nat \ {0}, NEW v \in Nat
    PROVE  /\ v \div n \in Nat /\ v % n \in 0 .. n - 1
           /\ v = n * (v \div n) + (v % n)
  OBVIOUS

LEMMA RemainderIs ==
    ASSUME NEW n \in Nat \ {0}, NEW q \in Nat, NEW r \in 0 .. n - 1, NEW v \in Int,
           v = n * q + r
    PROVE  v \div n = q /\ v % n = r
  BY DivUnique

\* Taking an offset back.
LEMMA ModBack ==
    ASSUME NEW n \in Nat \ {0}, NEW q \in Nat, NEW a \in 0 .. n - 1
    PROVE  (n - a + ((q + a) % n)) % n = q % n
<1>1. PICK k \in Nat, r \in 0 .. n - 1 : q = n * k + r
  BY DivMod
<1>2. q % n = r
  BY <1>1, RemainderIs
<1>3. CASE r + a < n
  <2>1. PICK s \in 0 .. n - 1, v \in Int : s = r + a /\ v = q + a /\ v = n * k + s
    BY <1>1, <1>3
  <2>2. v = n * k + s
    BY <2>1
  <2>5. v % n = s
    BY <2>2, RemainderIs
  <2>3. n - a + (r + a) = n * 1 + r
    BY <1>1
  <2>4. (n - a + (r + a)) % n = r
    BY <2>3, RemainderIs
  <2> QED
    BY <2>1, <2>5, <2>4, <1>2
<1>4. CASE r + a >= n
  <2>1. PICK s \in 0 .. n - 1, v \in Int :
            s = r + a - n /\ v = q + a /\ v = n * k + n + s
    BY <1>1, <1>4
  <2>2. PICK j \in Nat : j = k + 1 /\ v = n * j + s
    BY <2>1
  <2>3. v % n = s
    BY <2>2, RemainderIs
  <2>4. n - a + (r + a - n) = n * 0 + r
    BY <1>1
  <2>5. (n - a + (r + a - n)) % n = r
    BY <2>4, RemainderIs
  <2> QED
    BY <2>1, <2>3, <2>5, <1>2
<1> QED
  BY <1>3, <1>4

LEMMA RemainderRange ==
    ASSUME NEW n \in Nat \ {0}, NEW q \in Nat, NEW a \in 0 .. n - 1
    PROVE  (q + a) % n \in 0 .. n - 1
<1>1. q + a \in Nat
  OBVIOUS
<1> QED
  BY <1>1, DivMod

\* The halves give the quotient and the remainder of the value itself.
LEMMA HalvesDivide ==
    ASSUME NEW n \in Nat \ {0}, NEW H \in Nat, NEW h \in Nat, NEW l \in Nat
    PROVE  /\ (h \div n) * H + (((h % n) * H + l) \div n) = (l + H * h) \div n
           /\ ((h % n) * H + l) % n = (l + H * h) % n
<1>1. PICK a \in Nat, b \in 0 .. n - 1 : h = n * a + b /\ h \div n = a /\ h % n = b
  BY DivMod
<1>2. PICK m \in Nat : m = b * H + l
  OBVIOUS
<1>3. PICK c \in Nat, d \in 0 .. n - 1 : m = n * c + d /\ m \div n = c /\ m % n = d
  BY DivMod
<1>4. PICK q \in Nat : q = a * H + c
  OBVIOUS
<1>5. l + H * h = n * (a * H) + m
  BY <1>1, <1>2
<1>6. n * q = n * (a * H) + n * c
  BY <1>4
<1>7. PICK v \in Nat : v = l + H * h
  OBVIOUS
<1>8. v = n * q + d
  BY <1>3, <1>5, <1>6, <1>7
<1>9. v \div n = q /\ v % n = d
  BY <1>8, RemainderIs
<1>10. m = (h % n) * H + l /\ a = h \div n
  BY <1>1, <1>2
<1> QED
  BY <1>3, <1>4, <1>7, <1>9, <1>10

LEMMA TwoBytes ==
    ASSUME NEW x \in 0 .. 255, NEW y \in 0 .. 255
    PROVE  x + 256 * y \in Nat /\ x + 256 * y < 256 * 256
<1>1. x + 256 * y < 256 * 256
  BY SMT
<1>2. x + 256 * y \in Nat
  BY SMT
<1> QED
  BY <1>1, <1>2, SMT

LEMMA GroupValue ==
    ASSUME NEW g \in Groups
    PROVE  /\ Half \in Nat
           /\ Low(g) \in Nat /\ Low(g) < Half
           /\ High(g) \in Nat /\ High(g) < Half
<1>1. g[1] \in 0 .. 255 /\ g[2] \in 0 .. 255 /\ g[3] \in 0 .. 255 /\ g[4] \in 0 .. 255
  BY DEF Groups, Bytes
<1>2. g[1] + 256 * g[2] \in Nat /\ g[1] + 256 * g[2] < 256 * 256
  BY <1>1, TwoBytes
<1>3. g[3] + 256 * g[4] \in Nat /\ g[3] + 256 * g[4] < 256 * 256
  BY <1>1, TwoBytes
<1>4. 256 * 256 \in Nat
  BY SMT
<1> QED
  BY <1>2, <1>3, <1>4 DEF Low, High, Half

\* The quotient and the remainder of the code, and a quotient below the square of n.
LEMMA ValueDivided ==
    ASSUME NEW g \in Groups, NEW n \in Nat \ {0}, n * n * n >= Half * Half
    PROVE  /\ Quotient(g, n) \in Nat /\ Remainder(g, n) \in 0 .. n - 1
           /\ Value(g) = n * Quotient(g, n) + Remainder(g, n)
           /\ Quotient(g, n) < n * n
<1>1. PICK H \in Nat, l \in Nat, h \in Nat :
        H = Half /\ l = Low(g) /\ h = High(g) /\ l < H /\ h < H
  BY GroupValue
<1>2. PICK v \in Nat : v = l + H * h
  OBVIOUS
<1>3. Quotient(g, n) = v \div n /\ Remainder(g, n) = v % n /\ Value(g) = v
  <2>1. /\ Quotient(g, n) = (h \div n) * H + (((h % n) * H + l) \div n)
        /\ Remainder(g, n) = ((h % n) * H + l) % n
        /\ Value(g) = l + H * h
    BY <1>1 DEF Quotient, Remainder, Value
  <2>2. /\ (h \div n) * H + (((h % n) * H + l) \div n) = (l + H * h) \div n
        /\ ((h % n) * H + l) % n = (l + H * h) % n
    BY HalvesDivide
  <2> QED
    BY <1>2, <2>1, <2>2
<1>4. PICK q \in Nat, r \in 0 .. n - 1 : q = v \div n /\ r = v % n /\ v = n * q + r
  BY DivMod
<1>5. v < n * (n * n)
  <2>1. h + 1 <= H
    BY <1>1
  <2>2. H * (h + 1) <= H * H
    BY <2>1
  <2>3. v < H * H
    BY <1>1, <1>2, <2>2
  <2> QED
    BY <2>3, <1>1
<1>6. q < n * n
  <2>1. SUFFICES ASSUME q >= n * n PROVE FALSE
    BY <1>4
  <2>2. n * q >= n * (n * n)
    BY <2>1
  <2> QED
    BY <2>2, <1>4, <1>5
<1> QED
  BY <1>3, <1>4, <1>6

\* What a wallet does with three words is the value of the four bytes: for every
\* group of bytes, and every list of n words with n * n * n not below 2^32.
THEOREM WordsDecode ==
    ASSUME NEW g \in Groups, NEW n \in Nat \ {0}, n * n * n >= Half * Half
    PROVE  LET w == WordsOf(g, n)
           IN  /\ \A k \in 1 .. 3 : w[k] \in 0 .. n - 1
               /\ w[1] + n * QuotientOf(w, n) = Value(g)
<1>1. PICK v \in Int, q \in Nat, r \in 0 .. n - 1 :
        /\ v = Value(g) /\ v = n * q + r /\ q < n * n
        /\ q = Quotient(g, n) /\ r = Remainder(g, n)
  <2>1. n * Quotient(g, n) + Remainder(g, n) \in Int
    BY ValueDivided
  <2> QED
    BY <2>1, ValueDivided
<1>2. PICK a \in Nat, b \in 0 .. n - 1 : q = n * a + b /\ q \div n = a /\ q % n = b
  BY DivMod
<1>3. a \in 0 .. n - 1
  <2>1. SUFFICES ASSUME a >= n PROVE FALSE
    BY <1>2
  <2>2. n * a >= n * n
    BY <2>1
  <2> QED
    BY <2>2, <1>1, <1>2
<1>4. PICK s \in 0 .. n - 1 : s = (q + r) % n
  BY RemainderRange
<1>5. PICK t \in 0 .. n - 1 : t = (a + s) % n
  BY RemainderRange
<1>6. WordsOf(g, n) = <<r, s, t>>
  BY <1>1, <1>2, <1>4, <1>5 DEF WordsOf, FirstWord, SecondWord, ThirdWord
<1>7. (n - r + s) % n = b
  BY <1>2, <1>4, ModBack
<1>8. (n - s + t) % n = a
  <2>1. (n - s + t) % n = a % n
    BY <1>5, ModBack
  <2>2. a = n * 0 + a
    BY <1>3
  <2> QED
    BY <2>1, <2>2, <1>3, RemainderIs
<1>9. QuotientOf(<<r, s, t>>, n) = q
  BY <1>2, <1>7, <1>8 DEF QuotientOf, Offset
<1> QED
  BY <1>1, <1>6, <1>9

LEMMA OffsetRange ==
    ASSUME NEW n \in Nat \ {0}, NEW a \in 0 .. n - 1, NEW b \in 0 .. n - 1
    PROVE  Offset(a, b, n) \in Nat
<1>1. n - a + b \in Nat
  OBVIOUS
<1> QED
  BY <1>1, DivMod DEF Offset

\* The words of a list of this length are enough for four bytes.
LongEnough(n) == n * n * n >= Half * Half

\* What a wallet reads back are the halves of the four bytes.
LEMMA HalvesBack ==
    ASSUME NEW g \in Groups, NEW n \in Nat \ {0}, LongEnough(n)
    PROVE  ReadBack(WordsOf(g, n), n) = <<Low(g), High(g)>>
<1> DEFINE w == WordsOf(g, n)
<1>1. PICK H \in Nat \ {0}, l \in Nat, h \in Nat :
        H = Half /\ l = Low(g) /\ h = High(g) /\ l < H /\ h < H
  BY GroupValue
<1>2. w[1] \in 0 .. n - 1 /\ w[2] \in 0 .. n - 1 /\ w[3] \in 0 .. n - 1
  BY WordsDecode DEF LongEnough
<1>3. PICK r \in 0 .. n - 1 : r = w[1]
  BY <1>2
<1>4. PICK q \in Nat : q = QuotientOf(w, n)
  <2>1. Offset(w[1], w[2], n) \in Nat
    BY <1>2, OffsetRange
  <2>2. Offset(w[2], w[3], n) \in Nat
    BY <1>2, OffsetRange
  <2> HIDE DEF w
  <2> QED
    BY <2>1, <2>2 DEF QuotientOf
<1>5. r + n * q = l + H * h
  BY <1>1, <1>3, <1>4, WordsDecode DEF Value, LongEnough
<1> HIDE DEF w
<1>6. PICK a \in Nat, b \in 0 .. H - 1 : q = H * a + b /\ q \div H = a /\ q % H = b
  BY DivMod
<1>7. PICK m \in Nat : m = n * b + r
  OBVIOUS
<1>8. PICK c \in Nat, d \in 0 .. H - 1 : m = H * c + d /\ m \div H = c /\ m % H = d
  BY DivMod
<1>9. PICK v \in Nat, e \in Nat : v = l + H * h /\ e = n * a + c
  OBVIOUS
<1>10. v = H * e + d
  <2>1. n * q = n * (H * a) + n * b
    BY <1>6
  <2>2. n * (H * a) = H * (n * a)
    OBVIOUS
  <2>3. H * e = H * (n * a) + H * c
    BY <1>9
  <2> QED
    BY <1>5, <1>7, <1>8, <1>9, <2>1, <2>2, <2>3
<1>11. v \div H = e /\ v % H = d
  BY <1>10, RemainderIs
<1>12. v \div H = h /\ v % H = l
  <2>1. H \in Nat \ {0} /\ h \in Nat /\ l \in 0 .. H - 1 /\ v \in Int /\ v = H * h + l
    BY <1>1, <1>9
  <2> QED
    BY <2>1, RemainderIs
<1>13. ReadBack(w, n) = <<d, n * a + c>>
  BY <1>1, <1>3, <1>4, <1>6, <1>7, <1>8 DEF ReadBack
<1> QED
  BY <1>1, <1>9, <1>11, <1>12, <1>13 DEF w

LEMMA ElementIs ==
    ASSUME NEW S, NEW s \in Seq(S), NEW k \in 1 .. Len(s)
    PROVE  s[k] \in S
  OBVIOUS

LEMMA OneMore ==
    ASSUME NEW S, NEW s \in Seq(S), NEW m \in Nat, Len(s) = m, NEW x \in S
    PROVE  /\ Append(s, x) \in Seq(S) /\ Len(Append(s, x)) = m + 1
           /\ Append(s, x)[m + 1] = x
           /\ \A k \in 1 .. m : Append(s, x)[k] = s[k]
<1>1. Append(s, x) \in Seq(S) /\ Len(Append(s, x)) = Len(s) + 1
  BY AppendProperties
<1>2. Append(s, x)[Len(s) + 1] = x
  BY AppendProperties
<1>3. \A k \in 1 .. Len(s) : Append(s, x)[k] = s[k]
  BY AppendProperties
<1> QED
  BY <1>1, <1>2, <1>3

\* The words w of a key of m groups, in their places.
Placed(key, w, n, m) ==
    /\ w \in Seq(0 .. n - 1) /\ Len(w) = 3 * m + 1
    /\ \A k \in 1 .. m : /\ w[3 * k - 2] = WordsOf(key[k], n)[1]
                         /\ w[3 * k - 1] = WordsOf(key[k], n)[2]
                         /\ w[3 * k] = WordsOf(key[k], n)[3]
    /\ \E k \in 1 .. 3 * m : w[3 * m + 1] = w[k]

\* The words of the k-th group are the k-th three, and one of them comes again at
\* the end.
LEMMA WordsPlaced ==
    ASSUME NEW key \in Seq(Groups), NEW m \in Nat, Len(key) = m, m >= 8,
           NEW crc \in Nat, NEW n \in Nat \ {0}, LongEnough(n)
    PROVE  Placed(key, spendkey_to_words(key, n, crc), n, m)
<1> DEFINE words == [k \in 1 .. 3 * Len(key) |->
                        WordsOf(key[((k - 1) \div 3) + 1], n)[((k - 1) % 3) + 1]]
           w == spendkey_to_words(key, n, crc)
           S == 0 .. n - 1
<1>1. ASSUME NEW k \in 1 .. 3 * m
      PROVE  ((k - 1) \div 3) + 1 \in 1 .. m /\ ((k - 1) % 3) + 1 \in 1 .. 3
  <2>1. PICK d \in Nat, r \in 0 .. 2 : k - 1 = 3 * d + r /\ d = (k - 1) \div 3 /\ r = (k - 1) % 3
    <3>1. k - 1 \in Nat /\ 3 \in Nat \ {0} /\ 3 - 1 = 2
      OBVIOUS
    <3> QED
      BY <3>1, DivMod
  <2>2. d + 1 \in 1 .. m /\ r + 1 \in 1 .. 3
    BY <2>1
  <2> QED
    BY <2>1, <2>2
<1>2. ASSUME NEW k \in 1 .. m, NEW j \in 1 .. 3 PROVE WordsOf(key[k], n)[j] \in S
  <2>1. key[k] \in Groups
    BY ElementIs
  <2> QED
    BY <2>1, WordsDecode DEF LongEnough
<1> HIDE DEF S
<1>3. ASSUME NEW k \in 1 .. 3 * m PROVE words[k] \in S
  <2>1. PICK d \in 1 .. m, j \in 1 .. 3 : d = ((k - 1) \div 3) + 1 /\ j = ((k - 1) % 3) + 1
    BY <1>1
  <2>2. words[k] = WordsOf(key[d], n)[j]
    BY <2>1
  <2> QED
    BY <1>2, <2>2
<1>4. words \in Seq(S) /\ Len(words) = 3 * m
  <2>1. words \in [1 .. 3 * m -> S]
    BY <1>3
  <2>2. 3 * m \in Nat
    OBVIOUS
  <2> HIDE DEF words
  <2> QED
    BY <2>1, <2>2
<1>5. PICK c \in 1 .. 3 * m : c = (crc % 24) + 1
  OBVIOUS
<1>6. w = Append(words, words[c])
  BY <1>5 DEF spendkey_to_words
<1>7. ASSUME NEW k \in 1 .. m, NEW j \in 1 .. 3
      PROVE  words[3 * (k - 1) + j] = WordsOf(key[k], n)[j]
  <2>1. PICK p \in 1 .. 3 * m : p = 3 * (k - 1) + j /\ p - 1 = 3 * (k - 1) + (j - 1)
    OBVIOUS
  <2>2. k - 1 \in Nat /\ j - 1 \in 0 .. 3 - 1 /\ p - 1 \in Int /\ 3 \in Nat \ {0}
    OBVIOUS
  <2>3. (p - 1) \div 3 = k - 1 /\ (p - 1) % 3 = j - 1
    BY <2>1, <2>2, RemainderIs
  <2>4. words[p] = WordsOf(key[((p - 1) \div 3) + 1], n)[((p - 1) % 3) + 1]
    OBVIOUS
  <2>5. (k - 1) + 1 = k /\ (j - 1) + 1 = j
    OBVIOUS
  <2> HIDE DEF words
  <2> QED
    BY <2>1, <2>3, <2>4, <2>5
<1> HIDE DEF words, w
<1>8. /\ w \in Seq(S) /\ Len(w) = 3 * m + 1 /\ w[3 * m + 1] = words[c]
      /\ \A k \in 1 .. 3 * m : w[k] = words[k]
  <2>1. PICK l \in Nat : l = 3 * m
    OBVIOUS
  <2>2. words \in Seq(S) /\ Len(words) = l /\ words[c] \in S
    BY <1>3, <1>4, <1>5, <2>1
  <2>3. /\ Append(words, words[c]) \in Seq(S) /\ Len(Append(words, words[c])) = l + 1
        /\ Append(words, words[c])[l + 1] = words[c]
        /\ \A k \in 1 .. l : Append(words, words[c])[k] = words[k]
    BY <2>2, OneMore
  <2> QED
    BY <1>6, <2>1, <2>3
<1>9. ASSUME NEW k \in 1 .. m
      PROVE  /\ w[3 * k - 2] = WordsOf(key[k], n)[1]
             /\ w[3 * k - 1] = WordsOf(key[k], n)[2]
             /\ w[3 * k] = WordsOf(key[k], n)[3]
  <2>1. /\ 3 * k - 2 \in 1 .. 3 * m /\ 3 * k - 1 \in 1 .. 3 * m /\ 3 * k \in 1 .. 3 * m
        /\ 3 * k - 2 = 3 * (k - 1) + 1 /\ 3 * k - 1 = 3 * (k - 1) + 2 /\ 3 * k = 3 * (k - 1) + 3
    OBVIOUS
  <2>2. /\ w[3 * k - 2] = words[3 * k - 2] /\ w[3 * k - 1] = words[3 * k - 1]
        /\ w[3 * k] = words[3 * k]
    BY <1>8, <2>1
  <2>3. /\ words[3 * (k - 1) + 1] = WordsOf(key[k], n)[1]
        /\ words[3 * (k - 1) + 2] = WordsOf(key[k], n)[2]
        /\ words[3 * (k - 1) + 3] = WordsOf(key[k], n)[3]
    <3>1. 1 \in 1 .. 3 /\ 2 \in 1 .. 3 /\ 3 \in 1 .. 3
      OBVIOUS
    <3> QED
      BY <1>7, <3>1
  <2> QED
    BY <2>1, <2>2, <2>3
<1>10. \E k \in 1 .. 3 * m : w[3 * m + 1] = w[k]
  BY <1>5, <1>8
<1>11. Placed(key, w, n, m)
  BY <1>8, <1>9, <1>10 DEF S, Placed
<1> QED
  BY <1>11 DEF w

\* The documented words of the example, group by group.
LEMMA ExampleGroups ==
    /\ WordsOf(ExampleKey[1], 1626) = <<1361, 734, 169>>
    /\ WordsOf(ExampleKey[2], 1626) = <<173, 301, 898>>
    /\ WordsOf(ExampleKey[3], 1626) = <<997, 359, 372>>
    /\ WordsOf(ExampleKey[4], 1626) = <<324, 520, 1498>>
    /\ WordsOf(ExampleKey[5], 1626) = <<1133, 232, 480>>
    /\ WordsOf(ExampleKey[6], 1626) = <<654, 716, 874>>
    /\ WordsOf(ExampleKey[7], 1626) = <<1525, 1478, 188>>
    /\ WordsOf(ExampleKey[8], 1626) = <<724, 277, 335>>
<1>1. WordsOf(ExampleKey[1], 1626) = <<1361, 734, 169>>
  <2>1. Low(ExampleKey[1]) = 2363 /\ High(ExampleKey[1]) = 42828
    BY DEF ExampleKey, Low, High
  <2>2. Remainder(ExampleKey[1], 1626) = 1361 /\ Quotient(ExampleKey[1], 1626) = 1726185
    BY <2>1 DEF Remainder, Quotient, Half
  <2> QED
    BY <2>2 DEF WordsOf, FirstWord, SecondWord, ThirdWord
<1>2. WordsOf(ExampleKey[2], 1626) = <<173, 301, 898>>
  <2>1. Low(ExampleKey[2]) = 36641 /\ High(ExampleKey[2]) = 24087
    BY DEF ExampleKey, Low, High
  <2>2. Remainder(ExampleKey[2], 1626) = 173 /\ Quotient(ExampleKey[2], 1626) = 970850
    BY <2>1 DEF Remainder, Quotient, Half
  <2> QED
    BY <2>2 DEF WordsOf, FirstWord, SecondWord, ThirdWord
<1>3. WordsOf(ExampleKey[3], 1626) = <<997, 359, 372>>
  <2>1. Low(ExampleKey[3]) = 64145 /\ High(ExampleKey[3]) = 548
    BY DEF ExampleKey, Low, High
  <2>2. Remainder(ExampleKey[3], 1626) = 997 /\ Quotient(ExampleKey[3], 1626) = 22126
    BY <2>1 DEF Remainder, Quotient, Half
  <2> QED
    BY <2>2 DEF WordsOf, FirstWord, SecondWord, ThirdWord
<1>4. WordsOf(ExampleKey[4], 1626) = <<324, 520, 1498>>
  <2>1. Low(ExampleKey[4]) = 44724 /\ High(ExampleKey[4]) = 39459
    BY DEF ExampleKey, Low, High
  <2>2. Remainder(ExampleKey[4], 1626) = 324 /\ Quotient(ExampleKey[4], 1626) = 1590424
    BY <2>1 DEF Remainder, Quotient, Half
  <2> QED
    BY <2>2 DEF WordsOf, FirstWord, SecondWord, ThirdWord
<1>5. WordsOf(ExampleKey[5], 1626) = <<1133, 232, 480>>
  <2>1. Low(ExampleKey[5]) = 59439 /\ High(ExampleKey[5]) = 10022
    BY DEF ExampleKey, Low, High
  <2>2. Remainder(ExampleKey[5], 1626) = 1133 /\ Quotient(ExampleKey[5], 1626) = 403973
    BY <2>1 DEF Remainder, Quotient, Half
  <2> QED
    BY <2>2 DEF WordsOf, FirstWord, SecondWord, ThirdWord
<1>6. WordsOf(ExampleKey[6], 1626) = <<654, 716, 874>>
  <2>1. Low(ExampleKey[6]) = 41874 /\ High(ExampleKey[6]) = 6375
    BY DEF ExampleKey, Low, High
  <2>2. Remainder(ExampleKey[6], 1626) = 654 /\ Quotient(ExampleKey[6], 1626) = 256970
    BY <2>1 DEF Remainder, Quotient, Half
  <2> QED
    BY <2>2 DEF WordsOf, FirstWord, SecondWord, ThirdWord
<1>7. WordsOf(ExampleKey[7], 1626) = <<1525, 1478, 188>>
  <2>1. Low(ExampleKey[7]) = 14931 /\ High(ExampleKey[7]) = 13594
    BY DEF ExampleKey, Low, High
  <2>2. Remainder(ExampleKey[7], 1626) = 1525 /\ Quotient(ExampleKey[7], 1626) = 547915
    BY <2>1 DEF Remainder, Quotient, Half
  <2> QED
    BY <2>2 DEF WordsOf, FirstWord, SecondWord, ThirdWord
<1>8. WordsOf(ExampleKey[8], 1626) = <<724, 277, 335>>
  <2>1. Low(ExampleKey[8]) = 7802 /\ High(ExampleKey[8]) = 2369
    BY DEF ExampleKey, Low, High
  <2>2. Remainder(ExampleKey[8], 1626) = 724 /\ Quotient(ExampleKey[8], 1626) = 95487
    BY <2>1 DEF Remainder, Quotient, Half
  <2> QED
    BY <2>2 DEF WordsOf, FirstWord, SecondWord, ThirdWord
<1> QED
  BY <1>1, <1>2, <1>3, <1>4, <1>5, <1>6, <1>7, <1>8
-----------------------------------------------------------------------------
(* The upload.                                                              *)

\* What the device has of a dictionary of which the first n words were sent.
UpTo(n) ==
    /\ \A p \in device.parts :
        /\ p.lang = lang /\ InPlace(p)
        /\ p.start \in Nat /\ p.cnt \in Nat /\ p.start + p.cnt <= n
    /\ Tile(device.parts, n)

UploadInv ==
    /\ stage \in {"erase", "load"} =>
        /\ lang \in DOMAIN monero_langs
        /\ monero_langs[lang].english_language_name \in Supported
    /\ stage = "load" =>
        /\ start + cnt = word /\ first = start /\ chunk <= 245
        /\ device.prefix = 0 /\ UpTo(start)
    /\ stage # "load" => word = 0 /\ start = 0 /\ cnt = 0 /\ chunk = 0 /\ first = 0

Inv == TypeOK /\ UploadInv /\ MessagesFit /\ DeviceShowsOneDictionary

LEMMA LanguageFacts ==
    ASSUME NEW l \in DOMAIN monero_langs
    PROVE  /\ monero_langs[l].words \in Seq(1 .. 127)
           /\ monero_langs[l].prefix_length \in Nat \ {0}
  BY LanguagesAssumption

LEMMA ChunkSize ==
    ASSUME NEW c \in Nat, NEW w \in 1 .. 127
    PROVE  /\ c + 1 + w \in Nat /\ 1 + w \in Nat /\ 1 + w <= 245
           /\ 1 + 8 + c + 1 + w <= 254 => c + 1 + w <= 245
<1>1. c + 1 + w \in Nat /\ 1 + w \in Nat
  BY SMT
<1>2. 1 + w <= 245
  BY SMT
<1>3. 1 + 8 + c + 1 + w <= 254 => c + 1 + w <= 245
  BY SMT
<1> QED
  BY <1>1, <1>2, <1>3

\* The chunk that is sent continues what the device has.
LEMMA Continues ==
    ASSUME Inv, stage = "load", NEW p2 \in Nat
    PROVE  LET d == Received(p2)
           IN  /\ \A p \in d.parts :
                    /\ p.lang = lang /\ InPlace(p)
                    /\ p.start \in Nat /\ p.cnt \in Nat /\ p.start + p.cnt <= word
               /\ Tile(d.parts, word)
               /\ d.prefix = p2
<1> DEFINE new == [lang |-> lang, start |-> start, cnt |-> cnt, first |-> first, next |-> word]
           old == device.parts
<1>1. /\ start \in Nat /\ cnt \in Nat /\ word \in Nat /\ start + cnt = word /\ first = start
      /\ device.prefix = 0 /\ UpTo(start)
  BY DEF Inv, TypeOK, UploadInv
<1>2. Received(p2).parts = old \cup {new} /\ Received(p2).prefix = p2
  BY <1>1 DEF Received
<1>3. new.lang = lang /\ InPlace(new) /\ new.start = start /\ new.cnt = cnt
  BY <1>1 DEF InPlace
<1>4. \A p \in old : /\ p.lang = lang /\ InPlace(p)
                     /\ p.start \in Nat /\ p.cnt \in Nat /\ p.start + p.cnt <= start
  BY <1>1 DEF UpTo
<1>5. /\ \A p, q \in old : p # q => p.start + p.cnt <= q.start \/ q.start + q.cnt <= p.start
      /\ {p.start : p \in old} \cup {start} = {0} \cup {p.start + p.cnt : p \in old}
  BY <1>1 DEF UpTo, Tile
<1> HIDE DEF new, old
<1>6. \A p \in old \cup {new} : p.start + p.cnt <= word
  BY <1>1, <1>3, <1>4
<1>7. \A p, q \in old \cup {new} :
        p # q => p.start + p.cnt <= q.start \/ q.start + q.cnt <= p.start
  BY <1>3, <1>4, <1>5
<1>8. {p.start : p \in old \cup {new}} \cup {word}
        = {0} \cup {p.start + p.cnt : p \in old \cup {new}}
  <2>1. {p.start : p \in old \cup {new}} = {p.start : p \in old} \cup {start}
    BY <1>3
  <2>2. {p.start + p.cnt : p \in old \cup {new}} = {p.start + p.cnt : p \in old} \cup {word}
    BY <1>1, <1>3
  <2> QED
    BY <2>1, <2>2, <1>5
<1>9. Tile(old \cup {new}, word)
  BY <1>7, <1>8 DEF Tile
<1> QED
  BY <1>1, <1>2, <1>3, <1>4, <1>6, <1>9

\* The last chunk completes the dictionary.
LEMMA Completes ==
    ASSUME Inv, stage = "load", word = Len(Words)
    PROVE  LET d == Received(monero_langs[lang].prefix_length)
           IN  /\ d.prefix \in Nat
               /\ \E l \in DOMAIN monero_langs :
                    /\ monero_langs[l].prefix_length = d.prefix
                    /\ \A p \in d.parts : p.lang = l /\ InPlace(p)
                    /\ Tile(d.parts, Len(monero_langs[l].words))
<1>1. lang \in DOMAIN monero_langs
  BY DEF Inv, UploadInv
<1>2. monero_langs[lang].prefix_length \in Nat
  BY <1>1, LanguageFacts
<1> QED
  BY <1>1, <1>2, Continues DEF Words

-----------------------------------------------------------------------------
LEMMA InitInv == Init => Inv
  BY DEF Init, Inv, TypeOK, Stages, UploadInv, MessagesFit, DeviceShowsOneDictionary,
         NoMessage, Erased

\* A run that ends leaves an invariant state if the device it leaves does.
LEMMA ExitKeeps ==
    ASSUME Inv, Exits, MessagesFit', (message \in [p2 : Nat, lc : Nat])',
           (device.prefix \in Nat)', DeviceShowsOneDictionary'
    PROVE  Inv'
  BY DEF Exits, Inv, TypeOK, Stages, UploadInv

\* A step that sends nothing and leaves the device alone.
LEMMA ShownKept ==
    ASSUME Inv, UNCHANGED device
    PROVE  DeviceShowsOneDictionary' /\ (device.prefix \in Nat)'
  BY DEF Inv, TypeOK, DeviceShowsOneDictionary

LEMMA StepInv == Inv /\ [Next]_vars => Inv'
<1> SUFFICES ASSUME Inv, [Next]_vars PROVE Inv'
  OBVIOUS
<1> USE DEF MessagesFit
<1>1. CASE Start
  <2>1. DeviceShowsOneDictionary' /\ (device.prefix \in Nat)'
    BY <1>1, ShownKept DEF Start
  <2>2. message' \in [p2 : Nat, lc : Nat] /\ MessagesFit'
    <3>1. message' = [p2 |-> 0, lc |-> 0]
      BY <1>1 DEF Start, NoMessage
    <3>2. 0 <= 254
      BY SMT
    <3>3. message'.lc = 0 /\ message' \in [p2 : Nat, lc : Nat]
      BY <3>1
    <3> QED
      BY <3>2, <3>3
  <2>3. /\ stage' \in {"online language", "offline language"}
        /\ lang' = lang /\ word' = word /\ start' = start /\ cnt' = cnt /\ chunk' = chunk
        /\ first' = first /\ stage = "none"
    BY <1>1 DEF Start, load
  <2>4. TypeOK'
    BY <2>1, <2>2, <2>3 DEF Inv, TypeOK, Stages
  <2>5. UploadInv'
    BY <2>3 DEF Inv, UploadInv
  <2> QED
    BY <2>1, <2>2, <2>4, <2>5 DEF Inv
<1>2. CASE retrieve_language
  <2>1. DeviceShowsOneDictionary' /\ (device.prefix \in Nat)'
    BY <1>2, ShownKept DEF retrieve_language
  <2>2. stage' \in {"open", "credentials"} /\ lang' \in DOMAIN monero_langs
    BY <1>2 DEF retrieve_language
  <2>3. 0 \notin DOMAIN monero_langs
    BY LanguagesAssumption
  <2> QED
    BY <1>2, <2>1, <2>2, <2>3 DEF retrieve_language, Inv, TypeOK, Stages, UploadInv, load
<1>3. CASE retrieve_credentials
  <2>1. DeviceShowsOneDictionary' /\ (device.prefix \in Nat)'
    BY <1>3, ShownKept DEF retrieve_credentials
  <2>2. CASE Exits
    BY <1>3, <2>1, <2>2, ExitKeeps DEF retrieve_credentials, Inv, TypeOK
  <2>3. CASE stage' = "convert" /\ UNCHANGED <<lang, load>>
    <3>1. /\ stage = "credentials" /\ message' = message /\ lang' = lang /\ word' = word
          /\ start' = start /\ cnt' = cnt /\ chunk' = chunk /\ first' = first
      BY <1>3, <2>3 DEF retrieve_credentials, load
    <3>2. lang # 0
      BY <3>1 DEF Inv, TypeOK
    <3>3. TypeOK'
      BY <2>1, <2>3, <3>1, <3>2 DEF Inv, TypeOK, Stages
    <3>4. UploadInv' /\ MessagesFit'
      BY <2>3, <3>1 DEF Inv, UploadInv
    <3> QED
      BY <2>1, <3>3, <3>4 DEF Inv
  <2> QED
    BY <1>3, <2>2, <2>3 DEF retrieve_credentials
<1>4. CASE get_offline_seed
  <2>1. DeviceShowsOneDictionary' /\ (device.prefix \in Nat)'
    BY <1>4, ShownKept DEF get_offline_seed
  <2> QED
    BY <1>4, <2>1, ExitKeeps DEF get_offline_seed, Inv, TypeOK
<1>5. CASE get_online_seed
  <2>1. DeviceShowsOneDictionary' /\ (device.prefix \in Nat)'
    BY <1>5, ShownKept DEF get_online_seed
  <2>2. CASE monero_langs[lang].english_language_name \in Supported
    BY <1>5, <2>1, <2>2 DEF get_online_seed, Inv, TypeOK, Stages, UploadInv, load
  <2>3. CASE monero_langs[lang].english_language_name \notin Supported
    BY <1>5, <2>1, <2>3, ExitKeeps DEF get_online_seed, Inv, TypeOK
  <2> QED
    BY <2>2, <2>3
<1>6. CASE erase
  <2>1. Erased.parts = {} /\ Erased.prefix = 0
    BY DEF Erased
  <2>2. (UpTo(start))'
    <3>1. start' = 0 /\ device'.parts = {}
      BY <1>6, <2>1 DEF erase, Inv, UploadInv, load
    <3> QED
      BY <3>1 DEF UpTo, Tile
  <2>3. DeviceShowsOneDictionary'
    BY <1>6, <2>1 DEF erase, DeviceShowsOneDictionary
  <2>4. (word <= Len(Words))'
    <3>1. Words \in Seq(1 .. 127)
      BY <1>6, LanguageFacts DEF erase, Inv, UploadInv, Words
    <3> QED
      BY <1>6, <3>1 DEF erase, Inv, UploadInv, load, Words
  <2> QED
    BY <1>6, <2>1, <2>2, <2>3, <2>4 DEF erase, Inv, TypeOK, Stages, UploadInv, load
<1>7. CASE add_word
  <2>1. Words \in Seq(1 .. 127) /\ word \in Nat /\ word + 1 \in 1 .. Len(Words)
    BY <1>7, LanguageFacts DEF add_word, Inv, TypeOK, UploadInv, Words
  <2>2. PICK w \in 1 .. 127 : w = Words[word + 1]
    BY <2>1, ElementIs
  <2>3. chunk' \in Nat /\ chunk' <= 245
    <3>1. chunk' = chunk + 1 + w /\ 1 + 8 + chunk + 1 + w <= 254
      BY <1>7, <2>2 DEF add_word, Fits
    <3>2. chunk \in Nat
      BY DEF Inv, TypeOK
    <3> QED
      BY <3>1, <3>2, ChunkSize
  <2>4. DeviceShowsOneDictionary' /\ (device.prefix \in Nat)'
    BY <1>7, ShownKept DEF add_word
  <2>5. UpTo(start) => (UpTo(start))'
    BY <1>7 DEF add_word, UpTo
  <2>6. (word <= Len(Words))'
    BY <1>7, <2>1 DEF add_word, Words
  <2> QED
    BY <1>7, <2>3, <2>4, <2>5, <2>6 DEF add_word, Inv, TypeOK, Stages, UploadInv
<1>8. CASE send_full_chunk
  <2>1. Words \in Seq(1 .. 127) /\ word \in Nat /\ word + 1 \in 1 .. Len(Words)
    BY <1>8, LanguageFacts DEF send_full_chunk, Inv, TypeOK, UploadInv, Words
  <2>2. PICK w \in 1 .. 127 : w = Words[word + 1]
    BY <2>1, ElementIs
  <2>3. chunk' \in Nat /\ chunk' <= 245
    <3>1. chunk' = 1 + w
      BY <1>8, <2>2 DEF send_full_chunk
    <3>2. chunk \in Nat
      BY DEF Inv, TypeOK
    <3> QED
      BY <3>1, <3>2, ChunkSize
  <2>4. device' = Received(0) /\ message' = [p2 |-> 0, lc |-> 1 + 8 + chunk]
    BY <1>8 DEF send_full_chunk, send_dict_chunk
  <2>5. start' = word /\ first' = word /\ cnt' = 1 /\ word' = word + 1 /\ lang' = lang
        /\ stage' = "load" /\ stage = "load"
    BY <1>8 DEF send_full_chunk, Inv, UploadInv
  <2>6. (UpTo(start))' /\ device'.prefix = 0
    BY <2>4, <2>5, Continues DEF UpTo
  <2>7. DeviceShowsOneDictionary'
    BY <2>6 DEF DeviceShowsOneDictionary
  <2>8. message' \in [p2 : Nat, lc : Nat] /\ message'.lc <= 254
    BY <2>4, <2>5 DEF Inv, TypeOK, UploadInv
  <2>9. (word <= Len(Words))'
    BY <2>1, <2>5 DEF Words
  <2> QED
    BY <2>1, <2>3, <2>5, <2>6, <2>7, <2>8, <2>9 DEF Inv, TypeOK, Stages, UploadInv
<1>9. CASE send_last_chunk
  <2>1. /\ device' = Received(monero_langs[lang].prefix_length)
        /\ message' = [p2 |-> monero_langs[lang].prefix_length, lc |-> 1 + 8 + chunk]
        /\ stage = "load" /\ word = Len(Words) /\ Exits
    BY <1>9 DEF send_last_chunk, send_dict_chunk
  <2>2. DeviceShowsOneDictionary' /\ (device.prefix \in Nat)'
    BY <2>1, Completes DEF DeviceShowsOneDictionary
  <2>3. message' \in [p2 : Nat, lc : Nat] /\ message'.lc <= 254
    BY <2>1, LanguageFacts DEF Inv, TypeOK, UploadInv
  <2> QED
    BY <2>1, <2>2, <2>3, ExitKeeps
<1>10. CASE Aborts
  <2>1. Exits /\ message' = message
    BY <1>10 DEF Aborts
  <2>2. CASE device' = device
    BY <2>1, <2>2, ShownKept, ExitKeeps DEF Inv, TypeOK
  <2>3. CASE device' = Erased
    BY <2>1, <2>3, ExitKeeps DEF Erased, DeviceShowsOneDictionary, Inv, TypeOK
  <2>4. CASE stage = "load" /\ device' = Received(0)
    <3>1. device'.prefix = 0
      BY <2>4, Continues
    <3>2. DeviceShowsOneDictionary' /\ (device.prefix \in Nat)'
      BY <3>1 DEF DeviceShowsOneDictionary
    <3> QED
      BY <2>1, <3>2, ExitKeeps DEF Inv, TypeOK
  <2>5. CASE /\ stage = "load" /\ word = Len(Words)
             /\ device' = Received(monero_langs[lang].prefix_length)
    <3>1. DeviceShowsOneDictionary' /\ (device.prefix \in Nat)'
      BY <2>5, Completes DEF DeviceShowsOneDictionary
    <3> QED
      BY <2>1, <3>1, ExitKeeps DEF Inv, TypeOK
  <2> QED
    BY <1>10, <2>2, <2>3, <2>4, <2>5 DEF Aborts
<1>11. CASE UNCHANGED vars
  <2>1. DeviceShowsOneDictionary'
    BY <1>11, ShownKept DEF vars
  <2> QED
    BY <1>11, <2>1 DEF vars, load, Inv, TypeOK, UploadInv, UpTo, Words
<1> QED
  BY <1>1, <1>2, <1>3, <1>4, <1>5, <1>6, <1>7, <1>8, <1>9, <1>10, <1>11 DEF Next

LEMMA SpecInv == Spec => []Inv
  BY InitInv, StepInv, PTL DEF Spec

\* Every variable stays of its kind.
THEOREM TypeCorrect == Spec => []TypeOK
<1>1. Inv => TypeOK
  BY DEF Inv
<1> QED
  BY <1>1, SpecInv, PTL

\* No message of the upload is longer than 254 bytes, whatever the dictionaries.
THEOREM MessagesAlwaysFit == Spec => []MessagesFit
<1>1. Inv => MessagesFit
  BY DEF Inv
<1> QED
  BY <1>1, SpecInv, PTL

\* A device that knows the length of the prefix holds one whole dictionary.
THEOREM DeviceHoldsOneDictionary == Spec => []DeviceShowsOneDictionary
<1>1. Inv => DeviceShowsOneDictionary
  BY DEF Inv
<1> QED
  BY <1>1, SpecInv, PTL

\* The words on the device are given up only for a language that can be loaded.
THEOREM OnlyLoadingErases == Spec => ErasesOnlyToLoad
<1>1. Inv /\ [Next]_vars
        => [device' # device /\ device'.parts = {} => monero_langs[lang].online]_vars
  <2> SUFFICES ASSUME Inv, Next, device' # device, device'.parts = {}
               PROVE  monero_langs[lang].online
    OBVIOUS
  <2>1. stage \in {"erase", "load"}
    BY DEF Next, Start, retrieve_language, retrieve_credentials, get_offline_seed,
           get_online_seed, erase, add_word, send_full_chunk, send_last_chunk, Aborts
  <2>2. /\ lang \in DOMAIN monero_langs
        /\ monero_langs[lang].english_language_name \in Supported
    BY <2>1 DEF Inv, UploadInv
  <2> QED
    BY <2>2, SupportedAssumption
<1> QED
  BY <1>1, SpecInv, PTL DEF Spec, ErasesOnlyToLoad

-----------------------------------------------------------------------------
(* The words printed.                                                       *)

LEMMA ListIsLongEnough == LongEnough(1626)
  BY DEF Half, LongEnough

\* The three words of the k-th group, and what a wallet finds in them.
Three(w, k) == <<w[3 * k - 2], w[3 * k - 1], w[3 * k]>>
GivesBack(key, w, n) ==
    /\ Len(w) = 3 * Len(key) + 1
    /\ \A k \in DOMAIN key : /\ Three(w, k) = WordsOf(key[k], n)
                             /\ ReadBack(Three(w, k), n) = <<Low(key[k]), High(key[k])>>
    /\ \E k \in 1 .. 3 * Len(key) : w[Len(w)] = w[k]

\* spendkey_to_words and a wallet that reads its words: whatever the key of at least
\* eight groups, the checksum and the list, if the cube of its length is not below
\* 2^32, the words are in the list, three for each group from which the group is
\* found again, and one of them once more.
THEOREM WordsGiveBack ==
    ASSUME NEW key \in Seq(Groups), Len(key) >= 8, NEW crc \in Nat, NEW n \in Nat \ {0},
           LongEnough(n)
    PROVE  LET w == spendkey_to_words(key, n, crc)
           IN  w \in Seq(0 .. n - 1) /\ GivesBack(key, w, n)
<1> DEFINE w == spendkey_to_words(key, n, crc)
           S == 0 .. n - 1
<1>1. PICK m \in Nat : m >= 8 /\ Len(key) = m
  OBVIOUS
<1>2. /\ w \in Seq(S) /\ Len(w) = 3 * m + 1
      /\ \A k \in 1 .. m : /\ w[3 * k - 2] = WordsOf(key[k], n)[1]
                           /\ w[3 * k - 1] = WordsOf(key[k], n)[2]
                           /\ w[3 * k] = WordsOf(key[k], n)[3]
      /\ \E k \in 1 .. 3 * m : w[3 * m + 1] = w[k]
  <2>1. Placed(key, spendkey_to_words(key, n, crc), n, m)
    BY <1>1, WordsPlaced
  <2> QED
    BY <2>1 DEF Placed
<1> HIDE DEF w, S
<1>3. ASSUME NEW k \in 1 .. m
      PROVE  /\ Three(w, k) = WordsOf(key[k], n)
             /\ ReadBack(Three(w, k), n) = <<Low(key[k]), High(key[k])>>
  <2>1. Three(w, k) = WordsOf(key[k], n)
    <3>1. Three(w, k) = <<WordsOf(key[k], n)[1], WordsOf(key[k], n)[2], WordsOf(key[k], n)[3]>>
      BY <1>2 DEF Three
    <3>2. WordsOf(key[k], n)
            = <<WordsOf(key[k], n)[1], WordsOf(key[k], n)[2], WordsOf(key[k], n)[3]>>
      BY DEF WordsOf
    <3> QED
      BY <3>1, <3>2
  <2>2. key[k] \in Groups
    BY <1>1, ElementIs
  <2>3. ReadBack(WordsOf(key[k], n), n) = <<Low(key[k]), High(key[k])>>
    BY <2>2, HalvesBack
  <2> QED
    BY <2>1, <2>3
<1>4. DOMAIN key = 1 .. m
  BY <1>1
<1>5. GivesBack(key, w, n)
  BY <1>1, <1>2, <1>3, <1>4 DEF GivesBack
<1> QED
  BY <1>2, <1>5 DEF w, S

-----------------------------------------------------------------------------
(* The example of the source.                                               *)

LEMMA FirstPart ==
    ASSUME NEW S, NEW s \in Seq(S), NEW l \in Nat, l <= Len(s)
    PROVE  /\ SubSeq(s, 1, l) \in Seq(S) /\ Len(SubSeq(s, 1, l)) = l
           /\ \A k \in 1 .. l : SubSeq(s, 1, l)[k] = s[k]
  OBVIOUS

LEMMA SameWords ==
    ASSUME NEW S, NEW s \in Seq(S), NEW T, NEW t \in Seq(T), NEW m \in Nat,
           Len(s) = m, Len(t) = m, \A k \in 1 .. m : s[k] = t[k]
    PROVE  s = t
  OBVIOUS

\* Two lists of words agree where they agree three by three.
LEMMA ThreeByThree ==
    ASSUME NEW v, NEW e, NEW j, v[1] = e[1], v[2] = e[2], v[3] = e[3],
           v[4] = e[4], v[5] = e[5], v[6] = e[6],
           v[7] = e[7], v[8] = e[8], v[9] = e[9],
           v[10] = e[10], v[11] = e[11], v[12] = e[12],
           v[13] = e[13], v[14] = e[14], v[15] = e[15],
           v[16] = e[16], v[17] = e[17], v[18] = e[18],
           v[19] = e[19], v[20] = e[20], v[21] = e[21],
           v[22] = e[22], v[23] = e[23], v[24] = e[24],
           \/ j = 1 \/ j = 2 \/ j = 3 \/ j = 4 \/ j = 5 \/ j = 6
           \/ j = 7 \/ j = 8 \/ j = 9 \/ j = 10 \/ j = 11 \/ j = 12
           \/ j = 13 \/ j = 14 \/ j = 15 \/ j = 16 \/ j = 17 \/ j = 18
           \/ j = 19 \/ j = 20 \/ j = 21 \/ j = 22 \/ j = 23 \/ j = 24
    PROVE  v[j] = e[j]
<1>1. CASE j = 1 \/ j = 2 \/ j = 3
  BY <1>1
<1>2. CASE j = 4 \/ j = 5 \/ j = 6
  BY <1>2
<1>3. CASE j = 7 \/ j = 8 \/ j = 9
  BY <1>3
<1>4. CASE j = 10 \/ j = 11 \/ j = 12
  BY <1>4
<1>5. CASE j = 13 \/ j = 14 \/ j = 15
  BY <1>5
<1>6. CASE j = 16 \/ j = 17 \/ j = 18
  BY <1>6
<1>7. CASE j = 19 \/ j = 20 \/ j = 21
  BY <1>7
<1>8. CASE j = 22 \/ j = 23 \/ j = 24
  BY <1>8
<1> QED
  BY <1>1, <1>2, <1>3, <1>4, <1>5, <1>6, <1>7, <1>8

\* The words agree with the documented ones when the groups do.
LEMMA ExampleWordsAt ==
    ASSUME NEW w, \A k \in DOMAIN ExampleKey : Three(w, k) = WordsOf(ExampleKey[k], 1626),
           NEW l \in Nat, l = 24, NEW j \in 1 .. l
    PROVE  w[j] = ExampleWords[j]
<1> DEFINE e == ExampleWords
<1>1. w[1] = e[1] /\ w[2] = e[2] /\ w[3] = e[3]
  <2>3. 1 \in DOMAIN ExampleKey
    BY DEF ExampleKey
  <2>1. Three(w, 1) = <<1361, 734, 169>>
    BY <2>3, ExampleGroups
  <2>2. e[1] = 1361 /\ e[2] = 734 /\ e[3] = 169
    BY DEF ExampleWords
  <2> QED
    BY <2>1, <2>2 DEF Three
<1>2. w[4] = e[4] /\ w[5] = e[5] /\ w[6] = e[6]
  <2>3. 2 \in DOMAIN ExampleKey
    BY DEF ExampleKey
  <2>1. Three(w, 2) = <<173, 301, 898>>
    BY <2>3, ExampleGroups
  <2>2. e[4] = 173 /\ e[5] = 301 /\ e[6] = 898
    BY DEF ExampleWords
  <2> QED
    BY <2>1, <2>2 DEF Three
<1>3. w[7] = e[7] /\ w[8] = e[8] /\ w[9] = e[9]
  <2>3. 3 \in DOMAIN ExampleKey
    BY DEF ExampleKey
  <2>1. Three(w, 3) = <<997, 359, 372>>
    BY <2>3, ExampleGroups
  <2>2. e[7] = 997 /\ e[8] = 359 /\ e[9] = 372
    BY DEF ExampleWords
  <2> QED
    BY <2>1, <2>2 DEF Three
<1>4. w[10] = e[10] /\ w[11] = e[11] /\ w[12] = e[12]
  <2>3. 4 \in DOMAIN ExampleKey
    BY DEF ExampleKey
  <2>1. Three(w, 4) = <<324, 520, 1498>>
    BY <2>3, ExampleGroups
  <2>2. e[10] = 324 /\ e[11] = 520 /\ e[12] = 1498
    BY DEF ExampleWords
  <2> QED
    BY <2>1, <2>2 DEF Three
<1>5. w[13] = e[13] /\ w[14] = e[14] /\ w[15] = e[15]
  <2>3. 5 \in DOMAIN ExampleKey
    BY DEF ExampleKey
  <2>1. Three(w, 5) = <<1133, 232, 480>>
    BY <2>3, ExampleGroups
  <2>2. e[13] = 1133 /\ e[14] = 232 /\ e[15] = 480
    BY DEF ExampleWords
  <2> QED
    BY <2>1, <2>2 DEF Three
<1>6. w[16] = e[16] /\ w[17] = e[17] /\ w[18] = e[18]
  <2>3. 6 \in DOMAIN ExampleKey
    BY DEF ExampleKey
  <2>1. Three(w, 6) = <<654, 716, 874>>
    BY <2>3, ExampleGroups
  <2>2. e[16] = 654 /\ e[17] = 716 /\ e[18] = 874
    BY DEF ExampleWords
  <2> QED
    BY <2>1, <2>2 DEF Three
<1>7. w[19] = e[19] /\ w[20] = e[20] /\ w[21] = e[21]
  <2>3. 7 \in DOMAIN ExampleKey
    BY DEF ExampleKey
  <2>1. Three(w, 7) = <<1525, 1478, 188>>
    BY <2>3, ExampleGroups
  <2>2. e[19] = 1525 /\ e[20] = 1478 /\ e[21] = 188
    BY DEF ExampleWords
  <2> QED
    BY <2>1, <2>2 DEF Three
<1>8. w[22] = e[22] /\ w[23] = e[23] /\ w[24] = e[24]
  <2>3. 8 \in DOMAIN ExampleKey
    BY DEF ExampleKey
  <2>1. Three(w, 8) = <<724, 277, 335>>
    BY <2>3, ExampleGroups
  <2>2. e[22] = 724 /\ e[23] = 277 /\ e[24] = 335
    BY DEF ExampleWords
  <2> QED
    BY <2>1, <2>2 DEF Three
<1>9. \/ j = 1 \/ j = 2 \/ j = 3 \/ j = 4 \/ j = 5 \/ j = 6
      \/ j = 7 \/ j = 8 \/ j = 9 \/ j = 10 \/ j = 11 \/ j = 12
      \/ j = 13 \/ j = 14 \/ j = 15 \/ j = 16 \/ j = 17 \/ j = 18
      \/ j = 19 \/ j = 20 \/ j = 21 \/ j = 22 \/ j = 23 \/ j = 24
  OBVIOUS
<1> HIDE DEF e
<1> QED
  BY <1>1, <1>2, <1>3, <1>4, <1>5, <1>6, <1>7, <1>8, <1>9, ThreeByThree DEF e

LEMMA ExampleIs ==
    ASSUME NEW S, NEW w \in Seq(S), NEW l \in Nat, l = 24, l <= Len(w),
           \A j \in 1 .. l : w[j] = ExampleWords[j]
    PROVE  SubSeq(w, 1, l) = ExampleWords
<1>1. ExampleWords \in Seq(Nat) /\ Len(ExampleWords) = l
  BY DEF ExampleWords
<1> DEFINE s == SubSeq(w, 1, l)
<1>3. s \in Seq(S) /\ Len(s) = l /\ \A k \in 1 .. l : s[k] = w[k]
  BY FirstPart
<1> HIDE DEF s
<1>4. \A k \in 1 .. l : s[k] = ExampleWords[k]
  BY <1>3
<1>5. s = ExampleWords
  BY <1>1, <1>3, <1>4, SameWords, Zenon
<1> QED
  BY <1>5 DEF s

\* What WordsGiveTheKeyBack says of what is printed.
Back(key, w) ==
    /\ Len(w) = 3 * Len(key) + 1
    /\ \A k \in DOMAIN key :
            ReadBack(<<w[3 * k - 2], w[3 * k - 1], w[3 * k]>>, 1626) = <<Low(key[k]), High(key[k])>>
    /\ \E k \in 1 .. 3 * Len(key) : w[Len(w)] = w[k]
    /\ key = ExampleKey => SubSeq(w, 1, 24) = ExampleWords

\* A wallet that reads the words printed finds the key again.
THEOREM WordsCorrect == Spec => []WordsGiveTheKeyBack
<1>1. Init => WordsGiveTheKeyBack
  BY DEF Init, WordsGiveTheKeyBack
<1>2. Inv /\ WordsGiveTheKeyBack /\ [Next]_vars => WordsGiveTheKeyBack'
  <2> SUFFICES ASSUME Inv, WordsGiveTheKeyBack, [Next]_vars PROVE WordsGiveTheKeyBack'
    OBVIOUS
  <2>1. CASE get_offline_seed
    <3>1. PICK key \in SpendKeys, crc \in Checksums, mnemonic \in {12, 18, 24} :
            printed' = [account |-> <<mnemonic, key, crc>>,
                        keys |-> convert_mnemonic(mnemonic),
                        words |-> spendkey_to_words(key, monero_langs[lang].size, crc)]
      BY <2>1 DEF get_offline_seed
    <3>2. lang \in DOMAIN monero_langs
      BY <2>1 DEF get_offline_seed, Inv, TypeOK
    <3>3. monero_langs[lang].size = 1626
      BY <3>2, LanguagesAssumption
    <3>4. /\ printed'.account[2] = key
          /\ printed'.words = spendkey_to_words(key, 1626, crc)
      BY <3>1, <3>3
    <3> DEFINE n == 1626
               w == spendkey_to_words(key, n, crc)
    <3>5. /\ key \in Seq(Groups) /\ Len(key) >= 8 /\ crc \in Nat /\ n \in Nat \ {0}
          /\ LongEnough(n)
      <4>1. key \in Seq(Groups) /\ Len(key) = 8 /\ crc \in Nat
        BY KeysAssumption
      <4> QED
        BY <4>1, ListIsLongEnough
    <3>6. Len(key) = 8 /\ n = 1626 /\ 24 \in Nat
      BY KeysAssumption
    <3> HIDE DEF n
    <3>7. w \in Seq(0 .. n - 1) /\ GivesBack(key, w, n)
      BY <3>5, WordsGiveBack
    <3> HIDE DEF w
    <3>8. ASSUME key = ExampleKey PROVE SubSeq(w, 1, 24) = ExampleWords
      <4>1. PICK l \in Nat : l = 24 /\ l <= Len(w)
        BY <3>6, <3>7 DEF GivesBack
      <4>2. \A k \in DOMAIN ExampleKey : Three(w, k) = WordsOf(ExampleKey[k], 1626)
        BY <3>6, <3>7, <3>8 DEF GivesBack
      <4>3. \A j \in 1 .. l : w[j] = ExampleWords[j]
        <5> TAKE j \in 1 .. l
        <5> QED
          BY <4>1, <4>2, ExampleWordsAt
      <4>4. SubSeq(w, 1, l) = ExampleWords
        BY <3>7, <4>1, <4>3, ExampleIs
      <4> QED
        BY <4>1, <4>4
    <3>9. Back(key, w)
      <4>1. Len(w) = 3 * Len(key) + 1 /\ \E k \in 1 .. 3 * Len(key) : w[Len(w)] = w[k]
        BY <3>7 DEF GivesBack
      <4>2. ASSUME NEW k \in DOMAIN key
            PROVE  ReadBack(<<w[3 * k - 2], w[3 * k - 1], w[3 * k]>>, 1626)
                    = <<Low(key[k]), High(key[k])>>
        <5>1. ReadBack(Three(w, k), n) = <<Low(key[k]), High(key[k])>>
          BY <3>7 DEF GivesBack
        <5> QED
          BY <3>6, <5>1 DEF Three
      <4> QED
        BY <3>8, <4>1, <4>2 DEF Back
    <3>10. printed'.account[2] = key /\ printed'.words = w
      BY <3>4, <3>6 DEF w
    <3>11. Back(printed'.account[2], printed'.words)
      BY <3>9, <3>10
    <3> QED
      BY <3>11, Zenon DEF Back, WordsGiveTheKeyBack
  <2>2. CASE Start
    BY <2>2 DEF Start, WordsGiveTheKeyBack
  <2>3. CASE ~get_offline_seed /\ ~Start
    <3>1. printed' = printed
      BY <2>3 DEF Next, retrieve_language, retrieve_credentials, get_online_seed, erase,
             add_word, send_full_chunk, send_last_chunk, Aborts, vars
    <3> QED
      BY <3>1 DEF WordsGiveTheKeyBack
  <2> QED
    BY <2>1, <2>2, <2>3
<1> QED
  BY <1>1, <1>2, SpecInv, PTL DEF Spec
=============================================================================

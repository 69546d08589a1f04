-------------------------------- MODULE SeedWords --------------------------------
(***************************************************************************)
(* Writing a key as words: spendkey_to_words of the seed tool.  Four bytes  *)
(* are three words; each word is an offset from the one before, so that no  *)
(* word of the list is more likely than another.  A word is its index.      *)
(***************************************************************************)
EXTENDS Integers, Sequences

Bytes == 0 .. 255
Groups == [1 .. 4 -> Bytes]

\* The four bytes as the code reads them, low byte first, in halves of 16 bits.
Half == 256 * 256
Low(g)  == g[1] + 256 * g[2]
High(g) == g[3] + 256 * g[4]
Value(g) == Low(g) + Half * High(g)

\* Value(g) % n and Value(g) \div n, by halves: the value itself is beyond the
\* integers TLC evaluates.
Remainder(g, n) == ((High(g) % n) * Half + Low(g)) % n
Quotient(g, n)  == (High(g) \div n) * Half + (((High(g) % n) * Half + Low(g)) \div n)

\* w1, w2, w3 of spendkey_to_words, for a list of n words.
FirstWord(g, n)  == Remainder(g, n)
SecondWord(g, n) == (Quotient(g, n) + FirstWord(g, n)) % n
\* Mutant: the third word is an offset from the first.
ThirdFromFirst(g, n) == (Quotient(g, n) \div n + FirstWord(g, n)) % n

ThirdWord(g, n)  == (Quotient(g, n) \div n + SecondWord(g, n)) % n
WordsOf(g, n) == <<FirstWord(g, n), SecondWord(g, n), ThirdWord(g, n)>>

\* All the words of a key of Len(key) groups, and the checksum word, which is one
\* of them: the code takes crc modulo 24, whatever the number of words.
spendkey_to_words(key, n, crc) ==
    LET words == [k \in 1 .. 3 * Len(key) |->
                    WordsOf(key[((k - 1) \div 3) + 1], n)[((k - 1) % 3) + 1]]
    IN  Append(words, words[(crc % 24) + 1])

-----------------------------------------------------------------------------
(* What a wallet does with the words: the reference.                        *)

\* The offset of a word from the one before it.
Offset(before, word, n) == (n - before + word) % n

\* The quotient and the remainder again, and from them the halves.
QuotientOf(w, n) == Offset(w[1], w[2], n) + n * Offset(w[2], w[3], n)
ReadBack(w, n) ==
    LET q == QuotientOf(w, n)
        low == n * (q % Half) + w[1]
    IN  <<low % Half, n * (q \div Half) + (low \div Half)>>
=============================================================================

----------------------------- MODULE SigningProofs -----------------------------
(* Theorems about Signing for every value of the constants: the bytes that are signed have *)
(* one reading only, and both clients build the same.                                      *)
EXTENDS Signing, SequenceTheorems, TLAPS

Bytes == Seq(Byte)

-----------------------------------------------------------------------------
(* Words *)

\* A number is its upper octets and its last one.
LEMMA Octet ==
    ASSUME NEW n \in Nat
    PROVE  /\ Shr(n) \in Nat /\ n % 256 \in Byte
           /\ n = 256 * Shr(n) + (n % 256)
<1>1. n \div 256 \in Nat /\ n % 256 \in 0..255 /\ n = 256 * (n \div 256) + (n % 256)
  BY SMT
<1> QED BY <1>1 DEF Shr, Byte

LEMMA OctetsDetermine ==
    ASSUME NEW m \in Nat, NEW n \in Nat, Shr(m) = Shr(n), m % 256 = n % 256
    PROVE  m = n
<1>1. m = 256 * Shr(m) + (m % 256) /\ n = 256 * Shr(n) + (n % 256)
  BY Octet
<1> QED BY <1>1

\* The eight octets of a word.
LEMMA WordOctets ==
    ASSUME NEW n \in Word
    PROVE  /\ u64(n) \in Bytes
           /\ Len(u64(n)) = 8
<1> DEFINE n1 == Shr(n)  n2 == Shr(n1)  n3 == Shr(n2)  n4 == Shr(n3)
           n5 == Shr(n4)  n6 == Shr(n5)  n7 == Shr(n6)
<1>1. n \in Nat
  BY DEF Word
<1>2. n1 \in Nat /\ n2 \in Nat /\ n3 \in Nat /\ n4 \in Nat
      /\ n5 \in Nat /\ n6 \in Nat /\ n7 \in Nat
  BY <1>1, Octet
<1>3. u64(n) = <<n7 % 256, n6 % 256, n5 % 256, n4 % 256, n3 % 256, n2 % 256, n1 % 256, n % 256>>
  BY DEF u64
<1> HIDE DEF n1, n2, n3, n4, n5, n6, n7
<1>4. /\ n7 % 256 \in Byte /\ n6 % 256 \in Byte /\ n5 % 256 \in Byte /\ n4 % 256 \in Byte
      /\ n3 % 256 \in Byte /\ n2 % 256 \in Byte /\ n1 % 256 \in Byte /\ n % 256 \in Byte
  <2>1. \A k \in Nat : k % 256 \in Byte
    BY Octet
  <2>2. n7 % 256 \in Byte /\ n6 % 256 \in Byte /\ n5 % 256 \in Byte /\ n4 % 256 \in Byte
    BY <1>2, <2>1
  <2>3. n3 % 256 \in Byte /\ n2 % 256 \in Byte /\ n1 % 256 \in Byte /\ n % 256 \in Byte
    BY <1>1, <1>2, <2>1
  <2> QED BY <2>2, <2>3
<1> QED BY <1>3, <1>4 DEF Bytes

\* A word is determined by its octets.
LEMMA WordDetermined ==
    ASSUME NEW m \in Word, NEW n \in Word, u64(m) = u64(n)
    PROVE  m = n
<1> DEFINE m1 == Shr(m)  m2 == Shr(m1)  m3 == Shr(m2)  m4 == Shr(m3)
           m5 == Shr(m4)  m6 == Shr(m5)  m7 == Shr(m6)
           n1 == Shr(n)  n2 == Shr(n1)  n3 == Shr(n2)  n4 == Shr(n3)
           n5 == Shr(n4)  n6 == Shr(n5)  n7 == Shr(n6)
<1>1. m \in Nat /\ n \in Nat /\ m7 < 256 /\ n7 < 256
  BY DEF Word
<1>2. /\ m1 \in Nat /\ m2 \in Nat /\ m3 \in Nat /\ m4 \in Nat
      /\ m5 \in Nat /\ m6 \in Nat /\ m7 \in Nat
      /\ n1 \in Nat /\ n2 \in Nat /\ n3 \in Nat /\ n4 \in Nat
      /\ n5 \in Nat /\ n6 \in Nat /\ n7 \in Nat
  <2>1. /\ m1 \in Nat /\ m2 \in Nat /\ m3 \in Nat /\ m4 \in Nat
        /\ m5 \in Nat /\ m6 \in Nat /\ m7 \in Nat
    BY <1>1, Octet
  <2>2. /\ n1 \in Nat /\ n2 \in Nat /\ n3 \in Nat /\ n4 \in Nat
        /\ n5 \in Nat /\ n6 \in Nat /\ n7 \in Nat
    BY <1>1, Octet
  <2> QED BY <2>1, <2>2
<1>3. <<m7 % 256, m6 % 256, m5 % 256, m4 % 256, m3 % 256, m2 % 256, m1 % 256, m % 256>> =
      <<n7 % 256, n6 % 256, n5 % 256, n4 % 256, n3 % 256, n2 % 256, n1 % 256, n % 256>>
  BY DEF u64
<1>4. m7 % 256 = n7 % 256 /\ m6 % 256 = n6 % 256 /\ m5 % 256 = n5 % 256 /\ m4 % 256 = n4 % 256
      /\ m3 % 256 = n3 % 256 /\ m2 % 256 = n2 % 256 /\ m1 % 256 = n1 % 256 /\ m % 256 = n % 256
  BY <1>3
<1>5. m7 = n7
  <2> HIDE DEF m7, n7
  <2> QED BY <1>1, <1>2, <1>4
<1>6. m6 = n6
  BY <1>2, <1>4, <1>5, OctetsDetermine
<1>7. m5 = n5
  BY <1>2, <1>4, <1>6, OctetsDetermine
<1>8. m4 = n4
  BY <1>2, <1>4, <1>7, OctetsDetermine
<1>9. m3 = n3
  BY <1>2, <1>4, <1>8, OctetsDetermine
<1>10. m2 = n2
  BY <1>2, <1>4, <1>9, OctetsDetermine
<1>11. m1 = n1
  BY <1>2, <1>4, <1>10, OctetsDetermine
<1> QED BY <1>1, <1>4, <1>11, OctetsDetermine

-----------------------------------------------------------------------------
(* Splitting bytes *)

LEMMA Concat ==
    ASSUME NEW a \in Bytes, NEW b \in Bytes
    PROVE  /\ a \o b \in Bytes
           /\ Len(a) \in Nat /\ Len(b) \in Nat
           /\ Len(a \o b) = Len(a) + Len(b)
           /\ \A i \in 1..(Len(a) + Len(b)) :
                (a \o b)[i] = IF i <= Len(a) THEN a[i] ELSE b[i - Len(a)]
BY ConcatProperties, LenProperties DEF Bytes

LEMMA Associative ==
    ASSUME NEW a \in Bytes, NEW b \in Bytes, NEW c \in Bytes
    PROVE  (a \o b) \o c = a \o (b \o c)
BY ConcatAssociative DEF Bytes

\* Where the first parts are equally long, equal bytes have equal parts.
LEMMA Split ==
    ASSUME NEW p \in Bytes, NEW q \in Bytes, NEW r \in Bytes, NEW s \in Bytes,
           Len(p) = Len(q), p \o r = q \o s
    PROVE  p = q /\ r = s
<1>1. Len(p) \in Nat /\ Len(q) \in Nat /\ Len(r) \in Nat /\ Len(s) \in Nat
  BY Concat
<1>2. /\ Len(p \o r) = Len(p) + Len(r) /\ Len(q \o s) = Len(q) + Len(s)
      /\ \A i \in 1..(Len(p) + Len(r)) :
           (p \o r)[i] = IF i <= Len(p) THEN p[i] ELSE r[i - Len(p)]
      /\ \A i \in 1..(Len(q) + Len(s)) :
           (q \o s)[i] = IF i <= Len(q) THEN q[i] ELSE s[i - Len(q)]
  BY Concat
<1>3. Len(r) = Len(s)
  BY <1>1, <1>2
<1>4. \A i \in 1..Len(p) : p[i] = q[i]
  <2> TAKE i \in 1..Len(p)
  <2>1. i \in 1..(Len(p) + Len(r)) /\ i <= Len(p)
    BY <1>1
  <2> QED BY <1>2, <1>3, <2>1
<1>5. \A i \in 1..Len(r) : r[i] = s[i]
  <2> TAKE i \in 1..Len(r)
  <2> DEFINE j == Len(p) + i
  <2>1. j \in 1..(Len(p) + Len(r)) /\ ~(j <= Len(p)) /\ j - Len(p) = i
    BY <1>1
  <2> HIDE DEF j
  <2> QED BY <1>2, <1>3, <2>1
<1>6. p = q
  BY <1>4, SeqEqual DEF Bytes
<1>7. r = s
  BY <1>3, <1>5, SeqEqual DEF Bytes
<1> QED BY <1>6, <1>7

\* One after the other; the solvers apply lemmas about it better than about \o.
Then(a, b) == a \o b

LEMMA ThenBytes ==
    ASSUME NEW a \in Bytes, NEW b \in Bytes
    PROVE  Then(a, b) \in Bytes
BY Concat DEF Then

LEMMA ThenLength ==
    ASSUME NEW a \in Bytes, NEW b \in Bytes
    PROVE  /\ Len(a) \in Nat /\ Len(b) \in Nat
           /\ Len(Then(a, b)) = Len(a) + Len(b)
BY Concat DEF Then

LEMMA ThenAssociative ==
    ASSUME NEW a \in Bytes, NEW b \in Bytes, NEW c \in Bytes
    PROVE  Then(Then(a, b), c) = Then(a, Then(b, c))
BY Associative DEF Then

LEMMA ThenSplit ==
    ASSUME NEW p \in Bytes, NEW q \in Bytes, NEW r \in Bytes, NEW s \in Bytes,
           Len(p) = Len(q), Then(p, r) = Then(q, s)
    PROVE  p = q /\ r = s
BY Split DEF Then

\* Bytes that begin with a word have one first word.
LEMMA WordSplit ==
    ASSUME NEW m \in Word, NEW n \in Word, NEW r \in Bytes, NEW s \in Bytes,
           Then(u64(m), r) = Then(u64(n), s)
    PROVE  m = n /\ r = s
<1>1. u64(m) \in Bytes /\ u64(n) \in Bytes /\ Len(u64(m)) = Len(u64(n))
  BY WordOctets
<1>2. u64(m) = u64(n) /\ r = s
  BY <1>1, ThenSplit
<1> QED BY <1>2, WordDetermined

\* What can have its length before it.
Framed == {b \in Bytes : Len(b) \in Word}

LEMMA FieldBytes ==
    ASSUME NEW a \in Framed
    PROVE  /\ u64(Len(a)) \in Bytes /\ a \in Bytes /\ Len(a) \in Word
           /\ field(a) \in Bytes
           /\ field(a) = Then(u64(Len(a)), a)
BY WordOctets, Concat DEF Framed, field, Then

\* Bytes that begin with a field have one first field: this is what the length is for.
LEMMA FieldSplit ==
    ASSUME NEW a \in Framed, NEW b \in Framed, NEW r \in Bytes, NEW s \in Bytes,
           Then(field(a), r) = Then(field(b), s)
    PROVE  a = b /\ r = s
<1>1. /\ Then(field(a), r) = Then(u64(Len(a)), Then(a, r))
      /\ Then(field(b), s) = Then(u64(Len(b)), Then(b, s))
  BY FieldBytes, ThenAssociative
<1>2. a \in Bytes /\ b \in Bytes /\ Len(a) \in Word /\ Len(b) \in Word
  BY FieldBytes
<1>3. Then(a, r) \in Bytes /\ Then(b, s) \in Bytes
  BY <1>2, ThenBytes
<1>4. Len(a) = Len(b) /\ Then(a, r) = Then(b, s)
  <2>1. PICK m \in Word, n \in Word : m = Len(a) /\ n = Len(b)
    BY <1>2
  <2>2. Then(u64(m), Then(a, r)) = Then(u64(n), Then(b, s))
    BY <1>1, <2>1
  <2>3. m = n /\ Then(a, r) = Then(b, s)
    BY <1>3, <2>2, WordSplit
  <2> QED BY <2>1, <2>3
<1> QED BY <1>2, <1>4, ThenSplit

LEMMA FieldDetermined ==
    ASSUME NEW a \in Framed, NEW b \in Framed, field(a) = field(b)
    PROVE  a = b
<1>1. Then(u64(Len(a)), a) = Then(u64(Len(b)), b)
  BY FieldBytes
<1>2. /\ u64(Len(a)) \in Bytes /\ u64(Len(b)) \in Bytes /\ a \in Bytes /\ b \in Bytes
      /\ Len(u64(Len(a))) = Len(u64(Len(b)))
  BY FieldBytes, WordOctets
<1> QED BY <1>1, <1>2, ThenSplit

NulFree(b) == \A i \in 1..Len(b) : b[i] # 0

\* Of bytes without NUL, a NUL and more bytes, the NUL is the first.
LEMMA NulSplit ==
    ASSUME NEW a \in Bytes, NEW b \in Bytes, NEW r \in Bytes, NEW s \in Bytes,
           NulFree(a), NulFree(b), Then(a, Then(Nul, r)) = Then(b, Then(Nul, s))
    PROVE  a = b /\ r = s
<1> USE DEF NulFree
<1> DEFINE R == Nul \o r
           S == Nul \o s
<1>1. Nul \in Bytes /\ Len(Nul) = 1
  BY DEF Bytes, Byte, Nul
<1>2. /\ R \in Bytes /\ S \in Bytes /\ Len(R) = 1 + Len(r) /\ Len(S) = 1 + Len(s)
      /\ R[1] = 0 /\ S[1] = 0
  <2>1. Len(r) \in Nat /\ Len(s) \in Nat
    BY Concat
  <2>2. /\ R \in Bytes /\ Len(R) = Len(Nul) + Len(r)
        /\ \A i \in 1..(Len(Nul) + Len(r)) :
             R[i] = IF i <= Len(Nul) THEN Nul[i] ELSE r[i - Len(Nul)]
    BY <1>1, Concat
  <2>3. /\ S \in Bytes /\ Len(S) = Len(Nul) + Len(s)
        /\ \A i \in 1..(Len(Nul) + Len(s)) :
             S[i] = IF i <= Len(Nul) THEN Nul[i] ELSE s[i - Len(Nul)]
    BY <1>1, Concat
  <2> HIDE DEF R, S
  <2>4. Nul[1] = 0
    BY DEF Nul
  <2> QED BY <1>1, <2>1, <2>2, <2>3, <2>4
<1> HIDE DEF R, S
<1>3. /\ Len(a) \in Nat /\ Len(b) \in Nat /\ Len(r) \in Nat /\ Len(s) \in Nat
  BY Concat
<1>4. /\ Len(a) + Len(R) = Len(b) + Len(S)
      /\ \A i \in 1..(Len(a) + Len(R)) :
           (IF i <= Len(a) THEN a[i] ELSE R[i - Len(a)]) =
           (IF i <= Len(b) THEN b[i] ELSE S[i - Len(b)])
  <2>1. a \o R = b \o S
    BY DEF R, S, Then
  <2>2. /\ Len(a \o R) = Len(a) + Len(R)
        /\ \A i \in 1..(Len(a) + Len(R)) :
             (a \o R)[i] = IF i <= Len(a) THEN a[i] ELSE R[i - Len(a)]
    BY <1>2, Concat
  <2>3. /\ Len(b \o S) = Len(b) + Len(S)
        /\ \A i \in 1..(Len(b) + Len(S)) :
             (b \o S)[i] = IF i <= Len(b) THEN b[i] ELSE S[i - Len(b)]
    BY <1>2, Concat
  <2> QED BY <2>1, <2>2, <2>3
<1>5. ~(Len(a) < Len(b))
  <2> SUFFICES ASSUME Len(a) < Len(b) PROVE FALSE
    OBVIOUS
  <2> DEFINE i == Len(a) + 1
  <2>1. /\ i \in 1..(Len(a) + Len(R)) /\ ~(i <= Len(a)) /\ i - Len(a) = 1
        /\ i <= Len(b) /\ i \in 1..Len(b)
    BY <1>2, <1>3
  <2> HIDE DEF i
  <2>2. R[1] = b[i]
    BY <1>4, <2>1
  <2> QED BY <1>2, <2>1, <2>2
<1>6. ~(Len(b) < Len(a))
  <2> SUFFICES ASSUME Len(b) < Len(a) PROVE FALSE
    OBVIOUS
  <2> DEFINE i == Len(b) + 1
  <2>1. /\ i \in 1..(Len(a) + Len(R)) /\ ~(i <= Len(b)) /\ i - Len(b) = 1
        /\ i <= Len(a) /\ i \in 1..Len(a)
    BY <1>2, <1>3
  <2> HIDE DEF i
  <2>2. a[i] = S[1]
    BY <1>4, <2>1
  <2> QED BY <1>2, <2>1, <2>2
<1>7. Len(a) = Len(b)
  BY <1>3, <1>5, <1>6
<1>8. a \o R = b \o S
  BY DEF R, S, Then
<1>9. a = b /\ R = S
  <2>1. R \in Bytes /\ S \in Bytes
    BY <1>2
  <2> QED BY <1>7, <1>8, <2>1, Split
<1>10. Nul \o r = Nul \o s
  BY <1>9 DEF R, S
<1>11. r = s
  BY <1>1, <1>10, Split
<1> QED BY <1>9, <1>11

-----------------------------------------------------------------------------
(* Envelopes *)

LEMMA FieldsFramed ==
    ASSUME NEW m \in Message
    PROVE  /\ m.sender \in Framed /\ m.receiver \in Framed /\ m.nonce \in Framed
           /\ m.text \in Framed /\ m.tag \in Framed /\ EnvelopeDomain \in Framed
           /\ m.counter \in Word
BY SigningAssumption DEF SigningAssumption, Message, ByteStrings, Framed, Bytes

LEMMA TwoIsWord == 2 \in Word
BY DEF Word, Shr

\* The envelope of m from its counter on.
Rest(m) ==
    Then(u64(m.counter), Then(field(m.nonce), Then(field(m.text), field(m.tag))))

LEMMA EnvelopeParts ==
    ASSUME NEW m \in Message
    PROVE  /\ envelope(m) = Then(field(EnvelopeDomain), Then(u64(2),
                                Then(field(m.sender), Then(field(m.receiver), Rest(m)))))
           /\ Then(field(m.text), field(m.tag)) \in Bytes
           /\ Then(field(m.nonce), Then(field(m.text), field(m.tag))) \in Bytes
           /\ Rest(m) \in Bytes
           /\ Then(field(m.receiver), Rest(m)) \in Bytes
           /\ Then(field(m.sender), Then(field(m.receiver), Rest(m))) \in Bytes
           /\ Then(u64(2), Then(field(m.sender), Then(field(m.receiver), Rest(m)))) \in Bytes
           /\ envelope(m) \in Bytes
<1>1. /\ field(EnvelopeDomain) \in Bytes /\ field(m.sender) \in Bytes
      /\ field(m.receiver) \in Bytes /\ field(m.nonce) \in Bytes
      /\ field(m.text) \in Bytes /\ field(m.tag) \in Bytes
      /\ u64(2) \in Bytes /\ u64(m.counter) \in Bytes
  BY FieldsFramed, FieldBytes, TwoIsWord, WordOctets
<1>2. envelope(m) = Then(field(EnvelopeDomain), Then(u64(2),
                       Then(field(m.sender), Then(field(m.receiver), Rest(m)))))
  BY DEF envelope, Rest, Then
<1>3. Then(field(m.text), field(m.tag)) \in Bytes
  BY <1>1, ThenBytes
<1>4. Then(field(m.nonce), Then(field(m.text), field(m.tag))) \in Bytes
  BY <1>1, <1>3, ThenBytes
<1>5. Rest(m) \in Bytes
  BY <1>1, <1>4, ThenBytes DEF Rest
<1>6. Then(field(m.receiver), Rest(m)) \in Bytes
  BY <1>1, <1>5, ThenBytes
<1>7. Then(field(m.sender), Then(field(m.receiver), Rest(m))) \in Bytes
  BY <1>1, <1>6, ThenBytes
<1>8. Then(u64(2), Then(field(m.sender), Then(field(m.receiver), Rest(m)))) \in Bytes
  BY <1>1, <1>7, ThenBytes
<1>9. envelope(m) \in Bytes
  BY <1>1, <1>2, <1>8, ThenBytes
<1> QED BY <1>2, <1>3, <1>4, <1>5, <1>6, <1>7, <1>8, <1>9

\* No two messages have the same envelope, whatever ids, ciphertexts and counters are.
THEOREM EnvelopeUnambiguous ==
    \A m, n \in Message : envelope(m) = envelope(n) => m = n
<1> SUFFICES ASSUME NEW m \in Message, NEW n \in Message, envelope(m) = envelope(n)
             PROVE  m = n
  OBVIOUS
<1>1. /\ m.sender \in Framed /\ m.receiver \in Framed /\ m.nonce \in Framed
      /\ m.text \in Framed /\ m.tag \in Framed /\ m.counter \in Word
      /\ n.sender \in Framed /\ n.receiver \in Framed /\ n.nonce \in Framed
      /\ n.text \in Framed /\ n.tag \in Framed /\ n.counter \in Word
      /\ EnvelopeDomain \in Framed
  BY FieldsFramed
<1>2. Then(u64(2), Then(field(m.sender), Then(field(m.receiver), Rest(m)))) =
      Then(u64(2), Then(field(n.sender), Then(field(n.receiver), Rest(n))))
  BY <1>1, EnvelopeParts, FieldSplit
<1>3. Then(field(m.sender), Then(field(m.receiver), Rest(m))) =
      Then(field(n.sender), Then(field(n.receiver), Rest(n)))
  BY <1>2, EnvelopeParts, TwoIsWord, WordSplit
<1>4. /\ m.sender = n.sender
      /\ Then(field(m.receiver), Rest(m)) = Then(field(n.receiver), Rest(n))
  BY <1>1, <1>3, EnvelopeParts, FieldSplit
<1>5. m.receiver = n.receiver /\ Rest(m) = Rest(n)
  BY <1>1, <1>4, EnvelopeParts, FieldSplit
<1>6. /\ m.counter = n.counter
      /\ Then(field(m.nonce), Then(field(m.text), field(m.tag))) =
         Then(field(n.nonce), Then(field(n.text), field(n.tag)))
  BY <1>1, <1>5, EnvelopeParts, WordSplit DEF Rest
<1>7. /\ m.nonce = n.nonce
      /\ Then(field(m.text), field(m.tag)) = Then(field(n.text), field(n.tag))
  BY <1>1, <1>6, EnvelopeParts, FieldSplit
<1>8. m.text = n.text /\ field(m.tag) = field(n.tag)
  BY <1>1, <1>7, FieldBytes, FieldSplit
<1>9. m.tag = n.tag
  BY <1>1, <1>8, FieldDetermined
<1> QED BY <1>4, <1>5, <1>6, <1>7, <1>8, <1>9 DEF Message

\* The shifts of append_u64's loop.
LEMMA Shifts ==
    ASSUME NEW n \in Nat
    PROVE  /\ Shifted(n, 0) = n
           /\ \A k \in 1..7 : Shifted(n, k) = Shr(Shifted(n, k - 1))
<1> DEFINE F(g) == [j \in 0..7 |-> IF j = 0 THEN n ELSE Shr(g[j - 1])]
           s == CHOOSE g : g = F(g)
           n1 == Shr(n)  n2 == Shr(n1)  n3 == Shr(n2)  n4 == Shr(n3)
           n5 == Shr(n4)  n6 == Shr(n5)  n7 == Shr(n6)
           w == [j \in 0..7 |-> IF j = 0 THEN n ELSE IF j = 1 THEN n1 ELSE IF j = 2 THEN n2
                               ELSE IF j = 3 THEN n3 ELSE IF j = 4 THEN n4
                               ELSE IF j = 5 THEN n5 ELSE IF j = 6 THEN n6 ELSE n7]
<1>1. w = F(w)
  <2>1. /\ w[0] = n /\ w[1] = n1 /\ w[2] = n2 /\ w[3] = n3
        /\ w[4] = n4 /\ w[5] = n5 /\ w[6] = n6 /\ w[7] = n7
    OBVIOUS
  <2>2. n1 = Shr(n) /\ n2 = Shr(n1) /\ n3 = Shr(n2) /\ n4 = Shr(n3)
        /\ n5 = Shr(n4) /\ n6 = Shr(n5) /\ n7 = Shr(n6)
    OBVIOUS
  <2> HIDE DEF n1, n2, n3, n4, n5, n6, n7
  <2>3. \A j \in 0..7 : w[j] = F(w)[j]
    <3> TAKE j \in 0..7
    <3>1. j = 0 \/ j = 1 \/ j = 2 \/ j = 3 \/ j = 4 \/ j = 5 \/ j = 6 \/ j = 7
      OBVIOUS
    <3> QED BY <2>1, <2>2, <3>1
  <2> QED BY <2>3
<1> HIDE DEF w
<1>2. s = F(s)
  BY <1>1
<1>3. \A k \in 0..7 : Shifted(n, k) = s[k]
  BY DEF Shifted
<1> HIDE DEF s
<1>4. \A k \in 0..7 : s[k] = IF k = 0 THEN n ELSE Shr(s[k - 1])
  BY <1>2
<1>5. \A k \in 1..7 : k \in 0..7 /\ k - 1 \in 0..7 /\ k # 0
  OBVIOUS
<1> QED BY <1>3, <1>4, <1>5

\* The octets of the loop are those of the browser's word.
LEMMA WordAppended ==
    ASSUME NEW out, NEW n \in Word
    PROVE  append_u64(out, n) = out \o u64(n)
<1> DEFINE n1 == Shr(n)  n2 == Shr(n1)  n3 == Shr(n2)  n4 == Shr(n3)
           n5 == Shr(n4)  n6 == Shr(n5)  n7 == Shr(n6)
           octets == [i \in 1..8 |-> Shifted(n, 8 - i) % 256]
<1>1. u64(n) = <<n7 % 256, n6 % 256, n5 % 256, n4 % 256, n3 % 256, n2 % 256, n1 % 256, n % 256>>
  BY DEF u64
<1>2. n \in Nat
  BY DEF Word
<1>3. /\ Shifted(n, 0) = n /\ Shifted(n, 1) = n1 /\ Shifted(n, 2) = n2 /\ Shifted(n, 3) = n3
      /\ Shifted(n, 4) = n4 /\ Shifted(n, 5) = n5 /\ Shifted(n, 6) = n6 /\ Shifted(n, 7) = n7
  <2>1. Shifted(n, 0) = n /\ Shifted(n, 1) = n1 /\ Shifted(n, 2) = n2 /\ Shifted(n, 3) = n3
    BY <1>2, Shifts
  <2>2. Shifted(n, 4) = n4 /\ Shifted(n, 5) = n5
    BY <1>2, <2>1, Shifts
  <2>3. Shifted(n, 6) = n6 /\ Shifted(n, 7) = n7
    BY <1>2, <2>2, Shifts
  <2> QED BY <2>1, <2>2, <2>3
<1> HIDE DEF n1, n2, n3, n4, n5, n6, n7
<1>4. octets = <<n7 % 256, n6 % 256, n5 % 256, n4 % 256, n3 % 256, n2 % 256, n1 % 256, n % 256>>
  BY <1>3
<1> QED BY <1>1, <1>4 DEF append_u64

\* Appending a field to a buffer.
LEMMA Appended ==
    ASSUME NEW out \in Bytes, NEW a \in Framed
    PROVE  append_bytes(out, a) = Then(out, field(a))
<1>1. append_bytes(out, a) = Then(Then(out, u64(Len(a))), a)
  BY FieldBytes, WordAppended DEF append_bytes, Then
<1>2. /\ u64(Len(a)) \in Bytes /\ a \in Bytes
      /\ field(a) = Then(u64(Len(a)), a)
  BY FieldBytes
<1> QED BY <1>1, <1>2, ThenAssociative

LEMMA AppendedFirst ==
    ASSUME NEW a \in Framed
    PROVE  append_bytes(<<>>, a) = field(a)
<1>1. u64(Len(a)) \in Bytes
  BY FieldBytes
<1>2. append_u64(<<>>, Len(a)) = u64(Len(a))
  BY <1>1, FieldBytes, WordAppended, ConcatEmptySeq DEF Bytes
<1> QED BY <1>2 DEF append_bytes, field

\* Both clients sign the same bytes.
THEOREM EnvelopesAgree ==
    \A m \in Message : signed_envelope(m) = envelope(m)
<1> SUFFICES ASSUME NEW m \in Message PROVE signed_envelope(m) = envelope(m)
  OBVIOUS
<1> DEFINE domain == append_bytes(<<>>, EnvelopeDomain)
           version == append_u64(domain, 2)
           sender == append_bytes(version, m.sender)
           receiver == append_bytes(sender, m.receiver)
           clock == append_u64(receiver, m.counter)
           nonce == append_bytes(clock, m.nonce)
           ciphertext == append_bytes(nonce, m.text)
<1> DEFINE afterNonce == Then(field(m.text), field(m.tag))
           afterClock == Then(field(m.nonce), afterNonce)
           afterReceiver == Then(u64(m.counter), afterClock)
           afterSender == Then(field(m.receiver), afterReceiver)
           afterVersion == Then(field(m.sender), afterSender)
<1>1. /\ field(m.sender) \in Bytes /\ field(m.receiver) \in Bytes /\ field(m.nonce) \in Bytes
      /\ field(m.text) \in Bytes /\ field(m.tag) \in Bytes /\ field(EnvelopeDomain) \in Bytes
      /\ u64(2) \in Bytes /\ u64(m.counter) \in Bytes
  BY FieldsFramed, FieldBytes, TwoIsWord, WordOctets
<1>2. /\ afterNonce \in Bytes /\ afterClock \in Bytes /\ afterReceiver \in Bytes
      /\ afterSender \in Bytes /\ afterVersion \in Bytes
  BY EnvelopeParts DEF Rest
<1>3. envelope(m) = Then(field(EnvelopeDomain), Then(u64(2), afterVersion))
  BY EnvelopeParts DEF Rest
<1>4. domain = field(EnvelopeDomain)
  BY FieldsFramed, AppendedFirst
<1>5. version = Then(domain, u64(2)) /\ version \in Bytes
  <2>1. version = domain \o u64(2)
    BY TwoIsWord, WordAppended
  <2> HIDE DEF domain, version
  <2> QED BY <1>1, <1>4, <2>1, ThenBytes DEF Then
<1> HIDE DEF domain, version
<1>6. sender = Then(version, field(m.sender)) /\ sender \in Bytes
  BY <1>1, <1>5, FieldsFramed, Appended, ThenBytes
<1> HIDE DEF sender
<1>7. receiver = Then(sender, field(m.receiver)) /\ receiver \in Bytes
  BY <1>1, <1>6, FieldsFramed, Appended, ThenBytes
<1> HIDE DEF receiver
<1>8. clock = Then(receiver, u64(m.counter)) /\ clock \in Bytes
  BY <1>1, <1>7, FieldsFramed, WordAppended, ThenBytes DEF Then
<1> HIDE DEF clock
<1>9. nonce = Then(clock, field(m.nonce)) /\ nonce \in Bytes
  BY <1>1, <1>8, FieldsFramed, Appended, ThenBytes
<1> HIDE DEF nonce
<1>10. ciphertext = Then(nonce, field(m.text)) /\ ciphertext \in Bytes
  BY <1>1, <1>9, FieldsFramed, Appended, ThenBytes
<1> HIDE DEF ciphertext
<1>11. signed_envelope(m) = Then(ciphertext, field(m.tag))
  <2>1. append_bytes(ciphertext, m.tag) = Then(ciphertext, field(m.tag))
    BY <1>10, FieldsFramed, Appended
  <2> QED BY <2>1 DEF signed_envelope, domain, version, sender, receiver, clock, nonce, ciphertext
<1>12. Then(ciphertext, field(m.tag)) = Then(nonce, afterNonce)
  BY <1>1, <1>9, <1>10, ThenAssociative
<1>13. Then(nonce, afterNonce) = Then(clock, afterClock)
  BY <1>1, <1>2, <1>8, <1>9, ThenAssociative
<1>14. Then(clock, afterClock) = Then(receiver, afterReceiver)
  BY <1>1, <1>2, <1>7, <1>8, ThenAssociative
<1>15. Then(receiver, afterReceiver) = Then(sender, afterSender)
  BY <1>1, <1>2, <1>6, <1>7, ThenAssociative
<1>16. Then(sender, afterSender) = Then(version, afterVersion)
  BY <1>1, <1>2, <1>5, <1>6, ThenAssociative
<1>17. Then(version, afterVersion) = Then(domain, Then(u64(2), afterVersion))
  BY <1>1, <1>2, <1>4, <1>5, ThenAssociative
<1> QED BY <1>3, <1>4, <1>11, <1>12, <1>13, <1>14, <1>15, <1>16, <1>17

-----------------------------------------------------------------------------
(* Shares *)

LEMMA NulByte == Nul \in Bytes /\ Len(Nul) = 1
BY DEF Bytes, Byte, Nul

LEMMA ShareBytes ==
    ASSUME NEW s \in ShareKey
    PROVE  /\ s.iid \in Bytes /\ s.type \in Bytes /\ s.key \in Bytes /\ ShareDomain \in Bytes
           /\ Len(s.key) = KeyLen /\ ShareDomain # <<>>
           /\ \A i \in 1..Len(s.type) : s.type[i] # 0
BY SigningAssumption DEF SigningAssumption, ShareKey, ByteStrings, Bytes

LEMMA PayloadParts ==
    ASSUME NEW s \in ShareKey
    PROVE  /\ sharePayload(s) = Then(ShareDomain, Then(s.type, Then(Nul,
                                    Then(s.iid, Then(Nul, s.key)))))
           /\ Then(Nul, s.key) \in Bytes /\ Len(Then(Nul, s.key)) = 1 + KeyLen
           /\ Then(s.iid, Then(Nul, s.key)) \in Bytes
           /\ Then(Nul, Then(s.iid, Then(Nul, s.key))) \in Bytes
           /\ Then(s.type, Then(Nul, Then(s.iid, Then(Nul, s.key)))) \in Bytes
           /\ sharePayload(s) \in Bytes
<1>1. sharePayload(s) = Then(ShareDomain, Then(s.type, Then(Nul,
                           Then(s.iid, Then(Nul, s.key)))))
  BY DEF sharePayload, Then
<1>2. Then(Nul, s.key) \in Bytes /\ Len(Then(Nul, s.key)) = 1 + KeyLen
  <2>1. Nul \in Bytes /\ s.key \in Bytes
    BY ShareBytes, NulByte
  <2>2. Len(Then(Nul, s.key)) = Len(Nul) + Len(s.key)
    BY <2>1, ThenLength
  <2> QED BY <2>1, <2>2, ThenBytes, ShareBytes, NulByte
<1>3. Then(s.iid, Then(Nul, s.key)) \in Bytes
  BY <1>2, ShareBytes, ThenBytes
<1>4. Then(Nul, Then(s.iid, Then(Nul, s.key))) \in Bytes
  BY <1>3, NulByte, ThenBytes
<1>5. Then(s.type, Then(Nul, Then(s.iid, Then(Nul, s.key)))) \in Bytes
  BY <1>4, ShareBytes, ThenBytes
<1>6. sharePayload(s) \in Bytes
  BY <1>1, <1>5, ShareBytes, ThenBytes
<1> QED BY <1>1, <1>2, <1>3, <1>4, <1>5, <1>6

\* Bytes that end in equally long parts have equal first parts.
LEMMA EndSplit ==
    ASSUME NEW p \in Bytes, NEW q \in Bytes, NEW r \in Bytes, NEW s \in Bytes,
           Len(r) = Len(s), Then(p, r) = Then(q, s)
    PROVE  p = q /\ r = s
<1>1. /\ Len(Then(p, r)) = Len(p) + Len(r) /\ Len(Then(q, s)) = Len(q) + Len(s)
      /\ Len(p) \in Nat /\ Len(q) \in Nat /\ Len(r) \in Nat
  BY Concat DEF Then
<1>2. Len(p) = Len(q)
  BY <1>1
<1> QED BY <1>2, ThenSplit

\* No two keys of shares have the same payload, though user ids may have NULs.
THEOREM PayloadUnambiguous ==
    \A s, t \in ShareKey : sharePayload(s) = sharePayload(t) => s = t
<1> SUFFICES ASSUME NEW s \in ShareKey, NEW t \in ShareKey, sharePayload(s) = sharePayload(t)
             PROVE  s = t
  OBVIOUS
<1> DEFINE X(k) == Then(k.iid, Then(Nul, k.key))
           Y(k) == Then(k.type, Then(Nul, X(k)))
<1>5. /\ ShareDomain \in Bytes /\ s.type \in Bytes /\ t.type \in Bytes
      /\ X(s) \in Bytes /\ X(t) \in Bytes /\ Y(s) \in Bytes /\ Y(t) \in Bytes
      /\ Then(ShareDomain, Y(s)) = Then(ShareDomain, Y(t))
  BY ShareBytes, PayloadParts
<1>1. Y(s) = Y(t)
  <2> HIDE DEF Y
  <2> QED BY <1>5, ThenSplit
<1>2. s.type = t.type /\ X(s) = X(t)
  <2>1. /\ \A i \in 1..Len(s.type) : s.type[i] # 0
        /\ \A i \in 1..Len(t.type) : t.type[i] # 0
    BY ShareBytes
  <2>2. Then(s.type, Then(Nul, X(s))) = Then(t.type, Then(Nul, X(t)))
    BY <1>1
  <2> HIDE DEF X
  <2> QED BY <1>5, <2>1, <2>2, NulSplit DEF NulFree
<1>3. s.iid = t.iid /\ Then(Nul, s.key) = Then(Nul, t.key)
  BY <1>2, ShareBytes, PayloadParts, EndSplit
<1>4. s.key = t.key
  BY <1>3, ShareBytes, NulByte, ThenSplit
<1> QED BY <1>2, <1>3, <1>4 DEF ShareKey

\* Both clients sign the same bytes.
THEOREM PayloadsAgree ==
    \A s \in ShareKey : signed_payload(s) = sharePayload(s)
<1> SUFFICES ASSUME NEW s \in ShareKey PROVE signed_payload(s) = sharePayload(s)
  OBVIOUS
<1> DEFINE dt == Then(ShareDomain, s.type)
           dtn == Then(dt, Nul)
           dtni == Then(dtn, s.iid)
           nk == Then(Nul, s.key)
           ink == Then(s.iid, nk)
           nink == Then(Nul, ink)
<1>1. signed_payload(s) = Then(Then(dtni, Nul), s.key)
  BY DEF signed_payload, Then
<1>2. /\ s.iid \in Bytes /\ s.type \in Bytes /\ s.key \in Bytes /\ ShareDomain \in Bytes
      /\ Nul \in Bytes
  BY ShareBytes, NulByte
<1>3. dt \in Bytes /\ nk \in Bytes
  BY <1>2, ThenBytes
<1>4. dtn \in Bytes /\ ink \in Bytes
  BY <1>2, <1>3, ThenBytes
<1>5. dtni \in Bytes /\ nink \in Bytes
  BY <1>2, <1>4, ThenBytes
<1>6. Then(Then(dtni, Nul), s.key) = Then(dtni, nk)
  BY <1>2, <1>5, ThenAssociative
<1>7. Then(dtni, nk) = Then(dtn, ink)
  BY <1>2, <1>3, <1>4, ThenAssociative
<1>8. Then(dtn, ink) = Then(dt, nink)
  BY <1>2, <1>3, <1>4, ThenAssociative
<1>9. Then(dt, nink) = Then(ShareDomain, Then(s.type, nink))
  BY <1>2, <1>5, ThenAssociative
<1>10. sharePayload(s) = Then(ShareDomain, Then(s.type, nink))
  BY PayloadParts
<1> QED BY <1>1, <1>6, <1>7, <1>8, <1>9, <1>10
-----------------------------------------------------------------------------
(* One key signs all three *)

\* What comes first in some bytes.
LEMMA ThenFirst ==
    ASSUME NEW a \in Bytes, NEW b \in Bytes, a # <<>>
    PROVE  Then(a, b)[1] = a[1]
<1>1. Len(a) \in Nat /\ Len(a) # 0 /\ Len(b) \in Nat
  BY Concat, EmptySeq DEF Bytes
<1>2. 1 \in 1..(Len(a) + Len(b)) /\ 1 <= Len(a)
  BY <1>1
<1> QED BY <1>2, Concat DEF Then

\* The length of a short field has a zero as its first octet.
LEMMA ShortFirst ==
    ASSUME NEW n \in Nat, n < 256
    PROVE  u64(n)[1] = 0
<1>1. 0 \div 256 = 0 /\ 0 % 256 = 0
  BY SMT
<1>2. Shr(n) = 0
  <2>1. Shr(n) \in Nat /\ n % 256 \in Byte /\ n = 256 * Shr(n) + (n % 256)
    BY Octet
  <2>2. n % 256 \in Nat
    BY <2>1 DEF Byte
  <2> QED BY <2>1, <2>2
<1>3. Shr(0) = 0
  BY <1>1 DEF Shr
<1>4. u64(n) = <<0 % 256, 0 % 256, 0 % 256, 0 % 256, 0 % 256, 0 % 256, 0 % 256, n % 256>>
  BY <1>2, <1>3 DEF u64
<1> QED BY <1>1, <1>4

LEMMA EnvelopeFirst ==
    ASSUME NEW m \in Message
    PROVE  envelope(m)[1] = 0
<1> DEFINE D == EnvelopeDomain
           rest == Then(u64(2), Then(field(m.sender), Then(field(m.receiver), Rest(m))))
<1>1. D \in Framed /\ Len(D) < 256 /\ rest \in Bytes /\ envelope(m) = Then(field(D), rest)
  BY FieldsFramed, EnvelopeParts, SigningAssumption DEF SigningAssumption
<1>2. /\ u64(Len(D)) \in Bytes /\ D \in Bytes /\ Len(D) \in Word
      /\ field(D) \in Bytes /\ field(D) = Then(u64(Len(D)), D)
  BY <1>1, FieldBytes
<1>3. Len(u64(Len(D))) = 8
  BY <1>2, WordOctets
<1>4. u64(Len(D)) # <<>>
  BY <1>3, EmptySeq
<1>5. Len(D) \in Nat
  BY <1>2 DEF Word
<1>6. field(D)[1] = 0
  BY <1>1, <1>2, <1>4, <1>5, ThenFirst, ShortFirst
<1>7. field(D) # <<>>
  <2>1. Len(field(D)) = Len(u64(Len(D))) + Len(D)
    BY <1>2, ThenLength
  <2>2. Len(field(D)) # 0
    BY <1>3, <1>5, <2>1
  <2> QED BY <2>2, EmptySeq
<1> HIDE DEF rest
<1> QED BY <1>1, <1>2, <1>6, <1>7, ThenFirst

LEMMA PayloadFirst ==
    ASSUME NEW s \in ShareKey
    PROVE  sharePayload(s)[1] \notin HexDigits \cup {0}
<1> DEFINE rest == Then(s.type, Then(Nul, Then(s.iid, Then(Nul, s.key))))
<1>1. /\ ShareDomain \in Bytes /\ ShareDomain # <<>> /\ rest \in Bytes
      /\ sharePayload(s) = Then(ShareDomain, rest)
  BY ShareBytes, PayloadParts
<1> HIDE DEF rest
<1>2. sharePayload(s)[1] = ShareDomain[1]
  BY <1>1, ThenFirst
<1> QED BY <1>2, SigningAssumption DEF SigningAssumption

LEMMA LoginFirst ==
    ASSUME NEW l \in Login
    PROVE  /\ l.challenge \in Bytes
           /\ l.challenge[1] \in HexDigits
<1>1. l.challenge \in Seq(HexDigits) /\ l.challenge # <<>>
  BY SigningAssumption DEF SigningAssumption, Login
<1>2. HexDigits \subseteq Byte
  BY DEF HexDigits, Byte
<1>3. l.challenge \in Bytes
  BY <1>1, <1>2, SeqMonotonic DEF Bytes
<1>4. 1 \in 1..Len(l.challenge)
  <2>1. Len(l.challenge) \in Nat \ {0}
    BY <1>1, EmptySeq
  <2> QED BY <2>1
<1> QED BY <1>1, <1>3, <1>4, ElementOfSeq

\* What is signed for each kind, whichever client signs it.
LEMMA EncodedAs ==
    ASSUME NEW c \in Clients
    PROVE  /\ \A m \in Message : Encoded(c, m) = envelope(m)
           /\ \A s \in ShareKey : Encoded(c, s) = sharePayload(s)
           /\ \A l \in Login : Encoded(c, l) = l.challenge
<1>1. ASSUME NEW m \in Message PROVE Encoded(c, m) = envelope(m)
  <2>1. m.kind = "message"
    BY DEF Message
  <2> QED BY <2>1, EnvelopesAgree DEF Encoded
<1>2. ASSUME NEW s \in ShareKey PROVE Encoded(c, s) = sharePayload(s)
  <2>1. s.kind = "key"
    BY DEF ShareKey
  <2> QED BY <2>1, PayloadsAgree DEF Encoded
<1>3. ASSUME NEW l \in Login PROVE Encoded(c, l) = l.challenge
  <2>1. l.kind = "login"
    BY DEF Login
  <2> QED BY <2>1 DEF Encoded
<1> QED BY <1>1, <1>2, <1>3

LEMMA EncodedBytes ==
    ASSUME NEW c \in Clients, NEW i \in Item
    PROVE  Encoded(c, i) \in Bytes
<1>1. CASE i \in Message
  BY <1>1, EncodedAs, EnvelopeParts
<1>2. CASE i \in ShareKey
  BY <1>2, EncodedAs, PayloadParts
<1>3. CASE i \in Login
  BY <1>3, EncodedAs, LoginFirst
<1> QED BY <1>1, <1>2, <1>3 DEF Item

\* Bytes that a key signs have one reading, among messages, shares and logins together.
THEOREM EncodingUnambiguous ==
    \A c, d \in Clients : \A i, j \in Item : Encoded(c, i) = Encoded(d, j) => i = j
<1> SUFFICES ASSUME NEW c \in Clients, NEW d \in Clients, NEW i \in Item, NEW j \in Item,
                    Encoded(c, i) = Encoded(d, j)
             PROVE  i = j
  OBVIOUS
<1>1. CASE i \in Message
  <2>1. Encoded(d, j)[1] = 0 /\ envelope(i) = Encoded(d, j)
    BY <1>1, EncodedAs, EnvelopeFirst
  <2>2. j \notin ShareKey
    BY <2>1, EncodedAs, PayloadFirst
  <2>3. j \notin Login
    BY <2>1, EncodedAs, LoginFirst DEF HexDigits
  <2>4. j \in Message
    BY <2>2, <2>3 DEF Item
  <2> QED BY <1>1, <2>1, <2>4, EncodedAs, EnvelopeUnambiguous
<1>2. CASE i \in ShareKey
  <2>1. Encoded(d, j)[1] \notin HexDigits \cup {0} /\ sharePayload(i) = Encoded(d, j)
    BY <1>2, EncodedAs, PayloadFirst
  <2>2. j \notin Message
    BY <2>1, EncodedAs, EnvelopeFirst
  <2>3. j \notin Login
    BY <2>1, EncodedAs, LoginFirst
  <2>4. j \in ShareKey
    BY <2>2, <2>3 DEF Item
  <2> QED BY <1>2, <2>1, <2>4, EncodedAs, PayloadUnambiguous
<1>3. CASE i \in Login
  <2>1. Encoded(d, j)[1] \in HexDigits /\ i.challenge = Encoded(d, j)
    BY <1>3, EncodedAs, LoginFirst
  <2>2. j \notin Message
    BY <2>1, EncodedAs, EnvelopeFirst DEF HexDigits
  <2>3. j \notin ShareKey
    BY <2>1, EncodedAs, PayloadFirst
  <2>4. j \in Login
    BY <2>2, <2>3 DEF Item
  <2>5. i.challenge = j.challenge
    BY <2>1, <2>4, EncodedAs
  <2> QED BY <1>3, <2>4, <2>5 DEF Login
<1> QED BY <1>1, <1>2, <1>3 DEF Item

-----------------------------------------------------------------------------
(* The invariant *)

\* Every signature is of the bytes of what its owner meant.
Faithful == \A s \in signatures : \E c \in Clients : s.bytes = Encoded(c, s.meant)

SigningInv == TypeOK /\ Faithful /\ AcceptedAsMeant

LEMMA SignedKeeps ==
    ASSUME SigningInv, NEW c \in Clients, NEW k \in Keys, NEW items \in SUBSET Item,
           Signed(c, k, items)
    PROVE  SigningInv'
<1> DEFINE new == {[by |-> k, bytes |-> Encoded(c, i), meant |-> i] : i \in items}
<1>1. signatures' = signatures \cup new /\ accepted' = accepted
  BY DEF Signed
<1>2. new \subseteq [by: Keys, bytes: Seq(Byte), meant: Item]
  BY EncodedBytes DEF Bytes
<1>3. \A s \in new : s.bytes = Encoded(c, s.meant)
  OBVIOUS
<1> HIDE DEF new
<1>4. TypeOK'
  BY <1>1, <1>2 DEF SigningInv, TypeOK
<1>5. Faithful'
  BY <1>1, <1>3 DEF SigningInv, Faithful
<1>6. AcceptedAsMeant'
  BY <1>1 DEF SigningInv, AcceptedAsMeant
<1> QED BY <1>4, <1>5, <1>6 DEF SigningInv

\* A signature that verifies was made for what is checked.
LEMMA VerifiesMeant ==
    ASSUME SigningInv, NEW c \in Clients, NEW k \in Keys, NEW i \in Item,
           Verifies(k, Encoded(c, i))
    PROVE  \E s \in signatures : s.by = k /\ s.meant = i
<1>1. PICK s \in signatures : s.by = k /\ s.bytes = Encoded(c, i)
  BY DEF Verifies
<1>2. PICK d \in Clients : s.bytes = Encoded(d, s.meant)
  BY DEF SigningInv, Faithful
<1>3. s.meant \in Item
  BY DEF SigningInv, TypeOK
<1>4. s.meant = i
  BY <1>1, <1>2, <1>3, EncodingUnambiguous
<1> QED BY <1>1, <1>4

LEMMA AcceptedKeeps ==
    ASSUME SigningInv, NEW k \in Keys, NEW items \in SUBSET Item, Accepted(k, items),
           \A i \in items : \E s \in signatures : s.by = k /\ s.meant = i
    PROVE  SigningInv'
<1> DEFINE new == {[by |-> k, item |-> i] : i \in items}
<1>1. accepted' = accepted \cup new /\ signatures' = signatures
  BY DEF Accepted
<1>2. new \subseteq [by: Keys, item: Item]
  OBVIOUS
<1>3. \A a \in new : \E s \in signatures : s.by = a.by /\ s.meant = a.item
  OBVIOUS
<1> HIDE DEF new
<1>4. TypeOK'
  BY <1>1, <1>2 DEF SigningInv, TypeOK
<1>5. Faithful'
  BY <1>1 DEF SigningInv, Faithful
<1>6. AcceptedAsMeant'
  BY <1>1, <1>3 DEF SigningInv, AcceptedAsMeant
<1> QED BY <1>4, <1>5, <1>6 DEF SigningInv

LEMMA ShareItems ==
    ASSUME NEW iid \in Iids, NEW k \in Keys, NEW x \in XKeys
    PROVE  Share(iid, k, x) \subseteq Item
BY DEF Share, Item, ShareKey

LEMMA NextSigning ==
    ASSUME SigningInv, [Next]_vars
    PROVE  SigningInv'
<1>1. ASSUME NEW c \in Clients, NEW k \in Keys, Step(c, k)
      PROVE  SigningInv'
  <2>1. ASSUME NEW m \in Message, SendMessage(c, k, m)
        PROVE  SigningInv'
    <3>1. {m} \in SUBSET Item
      BY DEF Item
    <3> QED BY <2>1, <3>1, SignedKeeps DEF SendMessage
  <2>2. ASSUME NEW m \in Message, LoadRow(c, k, m)
        PROVE  SigningInv'
    <3>1. {m} \in SUBSET Item /\ m \in Item
      BY DEF Item
    <3>2. \E s \in signatures : s.by = k /\ s.meant = m
      BY <2>2, <3>1, VerifiesMeant DEF LoadRow
    <3>3. Accepted(k, {m})
      BY <2>2 DEF LoadRow
    <3> QED BY <3>1, <3>2, <3>3, AcceptedKeeps
  <2>3. ASSUME NEW iid \in Iids, NEW x \in XKeys, CreateShare(c, k, iid, x)
        PROVE  SigningInv'
    <3>1. Share(iid, k, x) \in SUBSET Item
      BY ShareItems
    <3> QED BY <2>3, <3>1, SignedKeeps DEF CreateShare
  <2>4. ASSUME NEW iid \in Iids, NEW x \in XKeys, ImportShare(c, k, iid, x)
        PROVE  SigningInv'
    <3>1. Share(iid, k, x) \in SUBSET Item
      BY ShareItems
    <3>2. \A i \in Share(iid, k, x) : \E s \in signatures : s.by = k /\ s.meant = i
      BY <2>4, <3>1, VerifiesMeant DEF ImportShare
    <3>3. Accepted(k, Share(iid, k, x))
      BY <2>4 DEF ImportShare
    <3> QED BY <3>1, <3>2, <3>3, AcceptedKeeps
  <2>5. ASSUME NEW l \in Login, AnswerChallenge(c, k, l)
        PROVE  SigningInv'
    <3>1. {l} \in SUBSET Item
      BY DEF Item
    <3> QED BY <2>5, <3>1, SignedKeeps DEF AnswerChallenge
  <2> QED BY <1>1, <2>1, <2>2, <2>3, <2>4, <2>5 DEF Step
<1>2. ASSUME NEW k \in Keys, NEW l \in Login, ValidateChallenge(k, l)
      PROVE  SigningInv'
  <2>1. {l} \in SUBSET Item /\ l \in Item /\ "qt" \in Clients
    BY DEF Item, Clients
  <2>2. l.challenge = Encoded("qt", l)
    BY <2>1, EncodedAs
  <2>3. \E s \in signatures : s.by = k /\ s.meant = l
    BY <1>2, <2>1, <2>2, VerifiesMeant DEF ValidateChallenge
  <2>4. Accepted(k, {l})
    BY <1>2 DEF ValidateChallenge
  <2> QED BY <2>1, <2>3, <2>4, AcceptedKeeps
<1>3. CASE UNCHANGED vars
  BY <1>3 DEF vars, SigningInv, TypeOK, Faithful, AcceptedAsMeant
<1> QED BY <1>1, <1>2, <1>3 DEF Next

LEMMA SigningInvariant == Spec => []SigningInv
<1>1. Init => SigningInv
  BY DEF Init, SigningInv, TypeOK, Faithful, AcceptedAsMeant
<1> QED BY <1>1, NextSigning, PTL DEF Spec

\* Every variable keeps to its set: what is signed are bytes.
THEOREM SigningTypeCorrect == Spec => []TypeOK
BY SigningInvariant, PTL DEF SigningInv

\* What is taken to be signed was signed with these fields and as this kind, for any ids,
\* counters, ciphertexts and keys.
THEOREM AcceptedHolds == Spec => []AcceptedAsMeant
BY SigningInvariant, PTL DEF SigningInv

\* What one client signs the other verifies.
THEOREM EitherClientHolds == Spec => []EitherClientVerifies
<1>1. SigningInv => EitherClientVerifies
  <2> SUFFICES ASSUME SigningInv, NEW s \in signatures, NEW c \in Clients
               PROVE  Verifies(s.by, Encoded(c, s.meant))
    BY DEF EitherClientVerifies
  <2>1. PICK d \in Clients : s.bytes = Encoded(d, s.meant)
    BY DEF SigningInv, Faithful
  <2>2. s.meant \in Item
    BY DEF SigningInv, TypeOK
  <2>3. Encoded(c, s.meant) = Encoded(d, s.meant)
    BY <2>2, EncodedAs DEF Item
  <2> QED BY <2>1, <2>3 DEF Verifies
<1> QED BY <1>1, SigningInvariant, PTL
=============================================================================

------------------------------ MODULE WireProofs ------------------------------
(***************************************************************************)
(* For every size of a byte and of a block, all endpoints and all messages *)
(* that they may send: what the encodings put on the wire can be read back *)
(* and the receive loop stays in step with the stream.                     *)
(*                                                                         *)
(* First the fields, the padding and the cipher; then induction, by which  *)
(* the loops over the attributes are unrolled; then whole messages; last   *)
(* the stream and its inductive invariant.                                 *)
(***************************************************************************)
EXTENDS Wire, SequenceTheorems, WellFoundedInduction, TLAPS

\* A quotient and a remainder are determined by their sum and their bounds.
LEMMA Division ==
  ASSUME NEW n \in Nat, NEW d \in Nat \ {0}
  PROVE  n \div d \in Nat /\ n % d \in 0 .. d - 1 /\ n % d = n - d * (n \div d)
<1>1. n \div d \in Nat /\ n % d \in 0 .. d - 1
  BY Z3
<1>2. n % d = n - d * (n \div d)
  BY Z3
<1> QED  BY <1>1, <1>2

LEMMA RemainderIs ==
  \A n \in Int, q \in Int, d \in Nat \ {0} :
    \A r \in 0 .. d - 1 : n = d * q + r => n % d = r
BY Z3

\* A field of two bytes holds a number up to multiples of the word.
LEMMA WordBytes ==
  ASSUME NEW n \in Nat PROVE U16(n) \in Byte \X Byte /\ Num16(U16(n)) = n % Word
<1> DEFINE q == n \div Base
           r == n % Base
           s == q \div Base
           t == q % Base
<1>1. Base \in Nat \ {0} /\ Word \in Nat \ {0} /\ Word = Base * Base
  BY BaseAssumption DEF Word
<1>2. r \in 0 .. Base - 1 /\ q \in Nat /\ r = n - Base * q
  BY <1>1, Division
<1>3. t \in 0 .. Base - 1 /\ s \in Nat /\ t = q - Base * s
  BY <1>1, <1>2, Division
<1>4. Num16(U16(n)) = t * Base + r /\ U16(n) \in Byte \X Byte
  BY <1>2, <1>3 DEF Num16, U16, Byte
<1> HIDE DEF q, r, s, t
<1>5. n = Word * s + (t * Base + r)
  <2>1. Base * q = Base * (t + Base * s)
    BY <1>1, <1>2, <1>3
  <2>2. Base * (t + Base * s) = t * Base + Word * s
    BY <1>1, <1>3, Z3
  <2>3. Base * q \in Int /\ t * Base \in Int /\ Word * s \in Int
    BY <1>1, <1>2, <1>3
  <2> QED  BY <1>2, <2>1, <2>2, <2>3
<1>6. t * Base + r \in 0 .. Word - 1
  <2>1. t * Base <= (Base - 1) * Base /\ t * Base \in Nat
    BY <1>1, <1>3, Z3
  <2>2. (Base - 1) * Base = Word - Base
    BY <1>1, Z3
  <2> QED  BY <1>1, <1>2, <2>1, <2>2
<1>7. n % Word = t * Base + r
  <2>1. n \in Int /\ s \in Int
    BY <1>3
  <2> QED  BY <1>1, <1>5, <1>6, <2>1, RemainderIs, Zenon
<1> QED  BY <1>4, <1>7

\* A header field of 16 bits is read as it was written (message.go, v1 and v2).
THEOREM FieldRead == \A n \in 0 .. Word - 1 : Num16(U16(n)) = n
<1> SUFFICES ASSUME NEW n \in 0 .. Word - 1 PROVE Num16(U16(n)) = n
  OBVIOUS
<1>1. Word \in Nat \ {0} /\ n \in Nat
  BY BaseAssumption DEF Word
<1>2. n \in Int /\ 0 \in Int /\ n = Word * 0 + n
  BY <1>1
<1>3. n % Word = n
  BY <1>1, <1>2, RemainderIs
<1> QED  BY <1>1, <1>3, WordBytes

\* The length of an attribute is written with three added and read with three
\* taken away, in 16 bits: what wraps on the way out wraps back on the way in.
THEOREM LengthRead ==
  \A n \in 0 .. Word - 1 : (Num16(U16(n + 3)) - 3) % Word = n
<1> SUFFICES ASSUME NEW n \in 0 .. Word - 1 PROVE (Num16(U16(n + 3)) - 3) % Word = n
  OBVIOUS
<1>1. Word \in Nat \ {0} /\ Word > 3 /\ n \in Nat
  <2>1. Base * Base >= 4 * Base
    BY BaseAssumption, Z3
  <2> QED  BY <2>1, BaseAssumption DEF Word
<1>2. Num16(U16(n + 3)) = (n + 3) % Word
  BY <1>1, WordBytes
<1>3. CASE n + 3 < Word
  <2>1. n + 3 \in 0 .. Word - 1 /\ n + 3 = Word * 0 + (n + 3) /\ n = Word * 0 + n
    BY <1>1, <1>3
  <2>2. (n + 3) % Word = n + 3 /\ n % Word = n
    BY <1>1, <2>1, RemainderIs
  <2>3. (n + 3) - 3 = n
    BY <1>1
  <2> QED  BY <1>2, <2>2, <2>3
<1>4. CASE n + 3 >= Word
  <2> DEFINE m == (n + 3) - Word
  <2>1. m \in 0 .. Word - 1 /\ n + 3 = Word * 1 + m
    BY <1>1, <1>4
  <2>2. (n + 3) % Word = m
    BY <1>1, <2>1, RemainderIs
  <2>3. m - 3 \in Int /\ m - 3 = Word * (-1) + n /\ -1 \in Int
    BY <1>1
  <2>4. (m - 3) % Word = n
    BY <1>1, <2>3, RemainderIs
  <2>5. Num16(U16(n + 3)) = m
    BY <1>2, <2>2
  <2> HIDE DEF m
  <2> QED  BY <2>4, <2>5
<1> QED  BY <1>1, <1>3, <1>4

-----------------------------------------------------------------------------
\* PKCS7UnPadding undoes PKCS7Padding, and the padded text is whole blocks.
THEOREM PaddingUndone ==
  ASSUME NEW p \in Seq(Byte)
  PROVE  /\ PKCS7UnPadding(PKCS7Padding(p)) = [text |-> p]
         /\ PKCS7Padding(p) \in Seq(Byte)
         /\ Len(PKCS7Padding(p)) % Block = 0 /\ Len(PKCS7Padding(p)) >= Block
<1> DEFINE n == Block - (Len(p) % Block)
           c == PKCS7Padding(p)
<1>1. n \in 1 .. Block
  BY BlockAssumption
<1>2. c = p \o [i \in 1 .. n |-> n]
  BY DEF PKCS7Padding
<1>3. [i \in 1 .. n |-> n] \in Seq(Byte) /\ Len([i \in 1 .. n |-> n]) = n
  BY <1>1, BlockAssumption, BaseAssumption DEF Byte
<1> HIDE DEF n
<1>4. c \in Seq(Byte) /\ Len(c) = Len(p) + n /\ c[Len(c)] = n
  BY <1>1, <1>2, <1>3
<1>5. SubSeq(c, 1, Len(p)) = p
  <2>1. \A i \in 1 .. Len(p) : c[i] = p[i]
    BY <1>2, <1>3
  <2>2. SubSeq(c, 1, Len(p)) \in Seq(Byte) /\ Len(SubSeq(c, 1, Len(p))) = Len(p)
    BY <1>1, <1>4
  <2>3. \A i \in 1 .. Len(p) : SubSeq(c, 1, Len(p))[i] = p[i]
    BY <1>1, <1>4, <2>1
  <2> QED  BY <2>2, <2>3
<1>6. PKCS7UnPadding(c) = [text |-> p]
  <2>1. ~(c[Len(c)] > Len(c)) /\ Len(c) - c[Len(c)] = Len(p)
    BY <1>1, <1>4
  <2> QED  BY <1>5, <2>1 DEF PKCS7UnPadding
<1>7. Len(c) % Block = 0 /\ Len(c) >= Block
  <2>1. Block \in Nat \ {0} /\ Len(p) \in Nat
    BY BlockAssumption
  <2> DEFINE k == Len(p) \div Block
  <2>2. k \in Nat /\ Len(p) % Block = Len(p) - Block * k
    BY <2>1, Division
  <2> HIDE DEF k
  <2>3. Block * k \in Nat
    BY <2>1, <2>2
  <2>4. Len(c) = Block * k + Block
    BY <1>1, <1>4, <2>1, <2>2, <2>3 DEF n
  <2>5. Len(c) \in Int /\ Len(c) = Block * (k + 1) + 0
    BY <2>1, <2>2, <2>4
  <2>6. k + 1 \in Int /\ 0 \in 0 .. Block - 1
    BY <2>1, <2>2
  <2>7. Len(c) % Block = 0
    BY <2>1, <2>5, <2>6, RemainderIs, Zenon
  <2> QED  BY <2>1, <2>3, <2>4, <2>7
<1> QED  BY <1>4, <1>6, <1>7

\* What one end enciphers the other deciphers when it has the same secret.
LEMMA CipherUndone ==
  ASSUME NEW p \in Seq(Byte), NEW s
  PROVE  AesCBCDncrypt(AesCBCEncrypt(p, s), s) = {[text |-> p]}
<1> DEFINE c    == AesCBCEncrypt(p, s)
           pad  == PKCS7Padding(p)
           body == SubSeq(c, Block + 1, Len(c))
<1>1. /\ pad \in Seq(Byte) /\ Len(pad) >= Block /\ Len(pad) % Block = 0
      /\ PKCS7UnPadding(pad) = [text |-> p] /\ Block \in Nat \ {0} /\ Len(pad) \in Nat
  BY PaddingUndone, BlockAssumption
<1> HIDE DEF pad
<1>2. c = [i \in 1 .. Block |-> <<Random, 0>>] \o [i \in 1 .. Len(pad) |-> <<evpBytesToKey(s), pad[i]>>]
  <2>1. Tag(Random, [i \in 1 .. Block |-> 0]) = [i \in 1 .. Block |-> <<Random, 0>>]
    BY <1>1 DEF Tag
  <2> QED  BY <2>1 DEF Tag, AesCBCEncrypt, pad
<1> HIDE DEF c
<1>3. Len(c) = Block + Len(pad) /\ \A i \in 1 .. Len(pad) : c[Block + i] = <<evpBytesToKey(s), pad[i]>>
  BY <1>1, <1>2
<1>4. /\ body = [i \in 1 .. Len(pad) |-> <<evpBytesToKey(s), pad[i]>>]
      /\ Len(body) = Len(pad)
  <2> DEFINE Cell == {Random, evpBytesToKey(s)} \X Int
             iv   == [i \in 1 .. Block |-> <<Random, 0>>]
             d    == [i \in 1 .. Len(pad) |-> <<evpBytesToKey(s), pad[i]>>]
  <2>1. ASSUME NEW i \in 1 .. Len(pad) PROVE pad[i] \in Int
    BY <1>1, BaseAssumption DEF Byte
  <2>2. iv \in Seq(Cell) /\ Len(iv) = Block
    BY <1>1
  <2>3. d \in Seq(Cell) /\ Len(d) = Len(pad) /\ d = [i \in 1 .. Len(d) |-> d[i]]
    BY <1>1, <2>1
  <2>4. c = iv \o d
    BY <1>2
  <2> HIDE DEF iv, d, Cell
  <2>0. Block \in Nat /\ Len(d) \in Nat
    BY <1>1, <2>3
  <2>5. c \in Seq(Cell) /\ Len(c) = Block + Len(d)
    <3>1. iv \o d \in Seq(Cell)
      BY <2>2, <2>3
    <3>2. Len(iv \o d) = Len(iv) + Len(d)
      BY <2>2, <2>3
    <3> QED  BY <2>2, <2>4, <3>1, <3>2
  <2>8. ASSUME NEW i \in 1 .. Len(d) PROVE c[Block + i] = d[i]
    <3>1. Block + i \in 1 .. Block + Len(d) /\ Block + i > Block /\ Block + i - Block = i
      BY <1>1, <2>3
    <3> QED  BY <1>1, <2>2, <2>3, <2>4, <3>1
  <2>6. body \in Seq(Cell) /\ Len(body) = Len(d)
    BY <1>1, <2>3, <2>5
  <2>9. ASSUME NEW i \in 1 .. Len(d) PROVE body[i] = d[i]
    <3>1. body[i] = c[Block + 1 + i - 1] /\ Block + 1 + i - 1 = Block + i
      BY <2>0, <2>5
    <3> QED  BY <2>8, <3>1
  <2>7. body = d
    <3> HIDE DEF body
    <3> QED  BY <2>3, <2>6, <2>9, SeqEqual
  <2> QED  BY <2>3, <2>7 DEF d
<1> HIDE DEF body
<1>5. HasKey(body, evpBytesToKey(s))
  BY <1>1, <1>4 DEF HasKey
<1>6. Untag(body) = pad
  BY <1>1, <1>4 DEF Untag
<1>7. Texts(body, evpBytesToKey(s)) = {pad}
  BY <1>5, <1>6 DEF Texts
<1>8. AesCBCDncrypt(c, s) =
        IF Len(c) <= Block \/ Len(body) % Block # 0
        THEN {Error} ELSE {PKCS7UnPadding(x) : x \in Texts(body, evpBytesToKey(s))}
  BY DEF AesCBCDncrypt, body
<1>9. ~(Len(c) <= Block) /\ Len(body) % Block = 0
  BY <1>1, <1>3, <1>4
<1>10. {PKCS7UnPadding(x) : x \in {pad}} = {[text |-> p]}
  BY <1>1
<1> QED  BY <1>7, <1>8, <1>9, <1>10 DEF c

-----------------------------------------------------------------------------
\* Induction over the natural numbers, stated with sets.
LEMMA Minimal ==
  ASSUME NEW R, NEW S, NEW T, T \subseteq S, T # {}, IsWellFoundedOn(R, S)
  PROVE  \E n \in T : \A m \in T : ~(<<m, n>> \in R)
BY WFMin

LEMMA LeastBy ==
  ASSUME NEW R, IsWellFoundedOn(R, Nat), \A m, n \in Nat : m < n => <<m, n>> \in R,
         NEW T \in SUBSET Nat, T # {}
  PROVE  \E n \in T : \A m \in T : n <= m
<1>1. T \subseteq Nat
  OBVIOUS
<1>2. PICK n \in T : \A m \in T : ~(<<m, n>> \in R)
  BY <1>1, Minimal
<1>3. ASSUME NEW m \in T PROVE n <= m
  <2>1. m \in Nat /\ n \in Nat /\ ~(<<m, n>> \in R)
    BY <1>1, <1>2
  <2> QED  BY <2>1
<1> QED  BY <1>3

LEMMA NatOrdered ==
  \E R : IsWellFoundedOn(R, Nat) /\ \A m, n \in Nat : m < n => <<m, n>> \in R
<1>1. \A m, n \in Nat : m < n => <<m, n>> \in OpToRel(<, Nat)
  BY DEF OpToRel
<1>2. IsWellFoundedOn(OpToRel(<, Nat), Nat)
  BY NatLessThanWellFounded
<1> QED  BY <1>1, <1>2, Zenon

LEMMA Least ==
  ASSUME NEW T \in SUBSET Nat, T # {}
  PROVE  \E n \in T : \A m \in T : n <= m
BY NatOrdered, LeastBy

LEMMA Induction ==
  ASSUME NEW T \in SUBSET Nat, 0 \in T, \A n \in T : n + 1 \in T
  PROVE  T = Nat
<1> SUFFICES ASSUME Nat \ T # {} PROVE FALSE
  OBVIOUS
<1>1. PICK n \in Nat \ T : \A m \in Nat \ T : n <= m
  BY Least
<1>2. n # 0 /\ n - 1 \in Nat /\ n - 1 \notin Nat \ T
  BY <1>1
<1> QED  BY <1>2

\* The two parts of a concatenation.
LEMMA Glued ==
  ASSUME NEW S, NEW s \in Seq(S), NEW t \in Seq(S)
  PROVE  /\ s \o t \in Seq(S) /\ Len(s \o t) = Len(s) + Len(t)
         /\ \A i \in 1 .. Len(s) : (s \o t)[i] = s[i]
         /\ \A i \in 1 .. Len(t) : (s \o t)[Len(s) + i] = t[i]
         /\ SubSeq(s \o t, 1, Len(s)) = s
         /\ SubSeq(s \o t, Len(s) + 1, Len(s \o t)) = t
<1> DEFINE u == s \o t
<1>1. /\ u \in Seq(S) /\ Len(u) = Len(s) + Len(t)
      /\ \A i \in 1 .. Len(s) + Len(t) : u[i] = IF i <= Len(s) THEN s[i] ELSE t[i - Len(s)]
  BY ConcatProperties
<1>2. Len(s) \in Nat /\ Len(t) \in Nat
  OBVIOUS
<1> HIDE DEF u
<1>3. \A i \in 1 .. Len(s) : u[i] = s[i]
  BY <1>1, <1>2
<1>4. ASSUME NEW i \in 1 .. Len(t) PROVE u[Len(s) + i] = t[i]
  <2>1. Len(s) + i \in 1 .. Len(s) + Len(t) /\ ~(Len(s) + i <= Len(s)) /\ Len(s) + i - Len(s) = i
    BY <1>2
  <2> QED  BY <1>1, <2>1
<1>5. SubSeq(u, 1, Len(s)) = s
  <2>1. /\ SubSeq(u, 1, Len(s)) \in Seq(S) /\ Len(SubSeq(u, 1, Len(s))) = Len(s)
        /\ \A i \in 1 .. Len(s) : SubSeq(u, 1, Len(s))[i] = s[i]
    BY <1>1, <1>2, <1>3
  <2> QED  BY <2>1, SeqEqual
<1>6. SubSeq(u, Len(s) + 1, Len(u)) = t
  <2> DEFINE v == SubSeq(u, Len(s) + 1, Len(u))
  <2>1. v \in Seq(S) /\ Len(v) = Len(t)
    BY <1>1, <1>2
  <2>2. ASSUME NEW i \in 1 .. Len(t) PROVE v[i] = t[i]
    <3>1. v[i] = u[Len(s) + 1 + i - 1] /\ Len(s) + 1 + i - 1 = Len(s) + i
      BY <1>1, <1>2
    <3> QED  BY <1>4, <3>1
  <2> HIDE DEF v
  <2>3. v = t
    BY <2>1, <2>2, SeqEqual
  <2> QED  BY <2>3 DEF v
<1> QED  BY <1>1, <1>3, <1>4, <1>5, <1>6 DEF u

-----------------------------------------------------------------------------
\* The attributes of a message on their way.
Attribute == [type : Byte, length : 0 .. Word - 1, value : Seq(Byte)]

LEMMA WordIs == Word \in Nat /\ Word > 3 /\ Base \in Nat /\ Base > 3
<1>1. Base * Base >= 4 * Base
  BY BaseAssumption, Z3
<1> QED  BY <1>1, BaseAssumption DEF Word

LEMMA AttrBytesAre ==
  ASSUME NEW a \in Attribute
  PROVE  /\ AttrBytes(a) \in Seq(Byte) /\ Len(AttrBytes(a)) = 3 + Len(a.value)
         /\ AttrBytes(a)[1] = a.type
         /\ Num16(SubSeq(AttrBytes(a), 2, 3)) = Num16(U16(a.length + 3))
         /\ SubSeq(AttrBytes(a), 4, Len(AttrBytes(a))) = a.value
<1> DEFINE w == U16(a.length + 3)
           h == <<a.type>> \o w
<1>1. w \in Byte \X Byte
  <2>1. a.length + 3 \in Nat
    BY WordIs DEF Attribute
  <2> QED  BY <2>1, WordBytes
<1>2. w \in Seq(Byte) /\ Len(w) = 2 /\ <<a.type>> \in Seq(Byte) /\ Len(<<a.type>>) = 1
  <2> HIDE DEF w
  <2>1. PICK x \in Byte, y \in Byte : w = <<x, y>>
    BY <1>1
  <2>2. <<x, y>> \in Seq(Byte) /\ Len(<<x, y>>) = 2
    OBVIOUS
  <2>3. a.type \in Byte
    BY DEF Attribute
  <2> QED  BY <2>1, <2>2, <2>3
<1>3. a.value \in Seq(Byte)
  BY DEF Attribute
<1> HIDE DEF w
<1>4. h \in Seq(Byte) /\ Len(h) = 3 /\ h[1] = a.type /\ h[2] = w[1] /\ h[3] = w[2]
  <2>1. h \in Seq(Byte) /\ Len(h) = 1 + 2
    BY <1>2, Glued
  <2>2. \A i \in 1 .. 1 : h[i] = <<a.type>>[i]
    BY <1>2, Glued
  <2>3. \A i \in 1 .. 2 : h[1 + i] = w[i]
    BY <1>2, Glued
  <2> HIDE DEF h
  <2>4. h[1 + 1] = w[1] /\ h[1 + 2] = w[2]
    BY <2>3
  <2>5. h[1] = <<a.type>>[1]
    BY <2>2
  <2> QED  BY <2>1, <2>4, <2>5
<1> HIDE DEF h
<1>5. AttrBytes(a) = h \o a.value
  BY DEF AttrBytes, h, w
<1>6. /\ AttrBytes(a) \in Seq(Byte) /\ Len(AttrBytes(a)) = 3 + Len(a.value)
      /\ \A i \in 1 .. 3 : AttrBytes(a)[i] = h[i]
      /\ SubSeq(AttrBytes(a), 4, Len(AttrBytes(a))) = a.value
  <2> DEFINE v == a.value
  <2>0. v \in Seq(Byte) /\ AttrBytes(a) = h \o v
    BY <1>3, <1>5
  <2>3. h \in Seq(Byte) /\ v \in Seq(Byte)
    BY <1>4, <2>0
  <2> HIDE DEF v
  <2>1. h \o v \in Seq(Byte) /\ Len(h \o v) = Len(h) + Len(v)
    BY <2>3, Glued
  <2>4. \A i \in 1 .. Len(h) : (h \o v)[i] = h[i]
    BY <2>3, Glued
  <2>5. SubSeq(h \o v, Len(h) + 1, Len(h \o v)) = v
    BY <2>3, Glued
  <2>2. /\ AttrBytes(a) \in Seq(Byte) /\ Len(AttrBytes(a)) = 3 + Len(v)
        /\ \A i \in 1 .. 3 : AttrBytes(a)[i] = h[i]
        /\ SubSeq(AttrBytes(a), 3 + 1, Len(AttrBytes(a))) = v
    BY <1>4, <2>0, <2>1, <2>4, <2>5
  <2> QED  BY <2>2 DEF v
<1>7. /\ SubSeq(AttrBytes(a), 2, 3)[1] = AttrBytes(a)[2]
      /\ SubSeq(AttrBytes(a), 2, 3)[2] = AttrBytes(a)[3]
  BY <1>6, <1>3
<1>8. Num16(SubSeq(AttrBytes(a), 2, 3)) = Num16(w)
  BY <1>4, <1>6, <1>7 DEF Num16
<1> QED  BY <1>4, <1>6, <1>8 DEF w

\* f starts with a and goes on as g says, up to n.
Goes(f, S, a, n, g) ==
  f \in [0 .. n -> S] /\ f[0] = a /\ \A i \in 1 .. n : f[i] = g[<<i, f[i - 1]>>]

LEMMA Recursion ==
  ASSUME NEW S, NEW a \in S, NEW n \in Nat, NEW g \in [(1 .. n) \X S -> S]
  PROVE  \E f : Goes(f, S, a, n, g)
<1> DEFINE Good(k, f) == f[0] = a /\ \A i \in 1 .. k : f[i] = g[<<i, f[i - 1]>>]
           T == {k \in Nat : k <= n => \E f \in [0 .. k -> S] : Good(k, f)}
<1>1. 0 \in T
  <2>1. [i \in 0 .. 0 |-> a] \in [0 .. 0 -> S] /\ Good(0, [i \in 0 .. 0 |-> a])
    OBVIOUS
  <2> QED  BY <2>1
<1>2. ASSUME NEW k \in T PROVE k + 1 \in T
  <2> SUFFICES ASSUME k + 1 <= n PROVE \E f \in [0 .. k + 1 -> S] : Good(k + 1, f)
    OBVIOUS
  <2>1. PICK f \in [0 .. k -> S] : Good(k, f)
    OBVIOUS
  <2> DEFINE h == [i \in 0 .. k + 1 |-> IF i = k + 1 THEN g[<<k + 1, f[k]>>] ELSE f[i]]
  <2>2. k \in Nat /\ f[k] \in S /\ <<k + 1, f[k]>> \in (1 .. n) \X S
    OBVIOUS
  <2>3. h \in [0 .. k + 1 -> S]
    BY <2>2
  <2>4. h[0] = a
    BY <2>1, <2>2
  <2>5. ASSUME NEW i \in 1 .. k + 1 PROVE h[i] = g[<<i, h[i - 1]>>]
    <3>1. i - 1 \in 0 .. k /\ i - 1 \in 0 .. k + 1 /\ i - 1 # k + 1 /\ i \in 0 .. k + 1
      BY <2>2
    <3>2. h[i - 1] = f[i - 1]
      BY <3>1
    <3>3. CASE i = k + 1
      BY <2>2, <3>1, <3>2, <3>3
    <3>4. CASE i # k + 1
      <4>1. i \in 1 .. k /\ h[i] = f[i]
        BY <2>2, <3>1, <3>4
      <4> QED  BY <2>1, <3>2, <4>1
    <3> QED  BY <3>3, <3>4
  <2> QED  BY <2>3, <2>4, <2>5
<1> HIDE DEF T
<1>3. T = Nat
  <2>1. T \in SUBSET Nat
    BY DEF T
  <2> QED  BY <1>1, <1>2, <2>1, Induction
<1>4. n \in T
  BY <1>3
<1> QED  BY <1>4 DEF T, Goes

\* It is the only one: what agrees at the start and in each step agrees at the end.
LEMMA OneRun ==
  ASSUME NEW n \in Nat, NEW f, NEW c, f[0] = c[0],
         \A i \in 1 .. n : f[i - 1] = c[i - 1] => f[i] = c[i]
  PROVE  f[n] = c[n]
<1> DEFINE T == {k \in Nat : k <= n => f[k] = c[k]}
<1>1. 0 \in T
  OBVIOUS
<1>2. ASSUME NEW k \in T PROVE k + 1 \in T
  <2> SUFFICES ASSUME k + 1 <= n PROVE f[k + 1] = c[k + 1]
    OBVIOUS
  <2>1. k + 1 \in 1 .. n /\ k + 1 - 1 = k /\ f[k] = c[k]
    OBVIOUS
  <2> QED  BY <2>1
<1>3. T \in SUBSET Nat
  OBVIOUS
<1> HIDE DEF T
<1>4. n \in T
  BY <1>1, <1>2, <1>3, Induction
<1> QED  BY <1>4 DEF T

\* The loop of Marshall over the attributes.
LEMMA AttrsAre ==
  ASSUME NEW attrs \in Seq(Attribute)
  PROVE  \E f \in [0 .. Len(attrs) -> Seq(Byte)] :
           /\ f[0] = <<>>
           /\ \A i \in 1 .. Len(attrs) : f[i] = AttrBytes(attrs[Len(attrs) + 1 - i]) \o f[i - 1]
           /\ AttrsBytes(attrs) = f[Len(attrs)]
<1> DEFINE n == Len(attrs)
           S == Seq(Byte)
           B == [i \in 1 .. n |-> AttrBytes(attrs[n + 1 - i])]
           g == [p \in (1 .. n) \X S |-> B[p[1]] \o p[2]]
<1>1. n \in Nat /\ \A i \in 1 .. n : attrs[n + 1 - i] \in Attribute
  OBVIOUS
<1>2. \A i \in 1 .. n : B[i] \in S
  BY <1>1, AttrBytesAre
<1>3. g \in [(1 .. n) \X S -> S]
  <2> HIDE DEF B, n
  <2> SUFFICES ASSUME NEW i \in 1 .. n, NEW s \in S PROVE B[i] \o s \in S
    OBVIOUS
  <2>1. B[i] \in S
    BY <1>2
  <2> QED  BY <2>1
<1>4. <<>> \in S
  OBVIOUS
<1> HIDE DEF n, S, g
<1>5. PICK f \in [0 .. n -> S] : f[0] = <<>> /\ \A i \in 1 .. n : f[i] = g[<<i, f[i - 1]>>]
  <2>1. n \in Nat
    BY <1>1
  <2>2. \E f : Goes(f, S, <<>>, n, g)
    BY <1>3, <1>4, <2>1, Recursion
  <2> QED  BY <2>2 DEF Goes
<1>6. ASSUME NEW i \in 1 .. n PROVE f[i] = AttrBytes(attrs[n + 1 - i]) \o f[i - 1]
  <2>1. i - 1 \in 0 .. n /\ f[i - 1] \in S
    BY <1>1
  <2>2. g[<<i, f[i - 1]>>] = B[i] \o f[i - 1]
    BY <2>1 DEF g
  <2> QED  BY <1>5, <2>2
<1> HIDE DEF B
<1> DEFINE Loop(h) == h = [i \in 0 .. n |-> IF i = 0 THEN <<>> ELSE AttrBytes(attrs[n + 1 - i]) \o h[i - 1]]
           c == CHOOSE h : Loop(h)
<1>7. Loop(f)
  <2>1. ASSUME NEW i \in 0 .. n
        PROVE  f[i] = IF i = 0 THEN <<>> ELSE AttrBytes(attrs[n + 1 - i]) \o f[i - 1]
    <3>1. CASE i = 0
      BY <1>5, <3>1
    <3>2. CASE i # 0
      <4>1. i \in 1 .. n
        BY <1>1, <3>2
      <4> QED  BY <1>6, <3>2, <4>1
    <3> QED  BY <3>1, <3>2
  <2>2. f = [i \in 0 .. n |-> f[i]]
    BY <1>5
  <2> QED  BY <2>1, <2>2
<1>8. Loop(c)
  <2> HIDE DEF Loop
  <2> QED  BY <1>7, Zenon
<1>9. AttrsBytes(attrs) = c[n]
  BY DEF AttrsBytes, n
<1> HIDE DEF c
<1>10. c[0] = <<>>
  BY <1>1, <1>8
<1>11. ASSUME NEW i \in 1 .. n PROVE c[i] = AttrBytes(attrs[n + 1 - i]) \o c[i - 1]
  <2>1. i \in 0 .. n /\ i # 0
    BY <1>1
  <2> QED  BY <1>8, <2>1
<1> HIDE DEF Loop
<1>12. f[n] = c[n]
  <2>1. \A i \in 1 .. n : f[i - 1] = c[i - 1] => f[i] = c[i]
    BY <1>6, <1>11
  <2>2. n \in Nat /\ f[0] = c[0]
    BY <1>1, <1>5, <1>10
  <2> QED  BY <2>1, <2>2, OneRun
<1> QED  BY <1>5, <1>6, <1>9, <1>12 DEF n, S

\* One round of UnMarshall's loop takes one attribute and leaves the others.
LEMMA AttrRead ==
  ASSUME NEW a \in Attribute, a.length = Len(a.value), NEW r \in Seq(Byte), NEW map
  PROVE  ReadAttr([ok |-> TRUE, map |-> map, rest |-> AttrBytes(a) \o r]) =
           [ok |-> TRUE, rest |-> r,
            map |-> [t \in DOMAIN map \cup {a.type} |-> IF t = a.type THEN a.value ELSE map[t]]]
<1> DEFINE k == AttrBytes(a)
           b == k \o r
           v == a.value
           n == (Num16(SubSeq(b, 2, 3)) - 3) % Word
           acc == [ok |-> TRUE, map |-> map, rest |-> b]
<1>1. v \in Seq(Byte) /\ Len(v) \in 0 .. Word - 1 /\ a.length = Len(v)
  BY DEF Attribute
<1>2. /\ k \in Seq(Byte) /\ Len(k) = 3 + Len(v) /\ k[1] = a.type
      /\ Num16(SubSeq(k, 2, 3)) = Num16(U16(Len(v) + 3)) /\ SubSeq(k, 4, Len(k)) = v
  BY <1>1, AttrBytesAre
<1> HIDE DEF k, v
<1>3. b \in Seq(Byte) /\ Len(b) = Len(k) + Len(r)
  BY <1>2, Glued
<1>4. \A i \in 1 .. Len(k) : b[i] = k[i]
  BY <1>2, Glued
<1>5. SubSeq(b, Len(k) + 1, Len(b)) = r
  BY <1>2, Glued
<1>6. SubSeq(b, 1, Len(k)) = k
  BY <1>2, Glued
<1> HIDE DEF b
<1>7. Len(v) \in Nat /\ Len(r) \in Nat /\ Word \in Nat
  BY <1>1, WordIs
<1>8. b[1] = a.type
  BY <1>2, <1>4, <1>7
<1>9. n = Len(v)
  <2>1. SubSeq(b, 2, 3)[1] = b[2] /\ SubSeq(b, 2, 3)[2] = b[3]
    BY <1>2, <1>3, <1>7
  <2>2. SubSeq(k, 2, 3)[1] = k[2] /\ SubSeq(k, 2, 3)[2] = k[3]
    BY <1>2, <1>7
  <2>3. b[2] = k[2] /\ b[3] = k[3]
    BY <1>2, <1>4, <1>7
  <2>4. Num16(SubSeq(b, 2, 3)) = Num16(U16(Len(v) + 3))
    BY <1>2, <2>1, <2>2, <2>3 DEF Num16
  <2> QED  BY <1>1, <2>4, LengthRead
<1> HIDE DEF n
<1>10. SubSeq(b, 4, n + 3) = v
  <2>1. SubSeq(b, 4, Len(k)) \in Seq(Byte) /\ Len(SubSeq(b, 4, Len(k))) = Len(v)
    BY <1>2, <1>3, <1>7
  <2>2. ASSUME NEW i \in 1 .. Len(v) PROVE SubSeq(b, 4, Len(k))[i] = v[i]
    <3>1. SubSeq(b, 4, Len(k))[i] = b[i + 3]
      BY <1>2, <1>3, <1>7
    <3>2. SubSeq(k, 4, Len(k))[i] = k[i + 3]
      BY <1>2, <1>7
    <3>3. i + 3 \in 1 .. Len(k)
      BY <1>2, <1>7
    <3> QED  BY <1>2, <1>4, <3>1, <3>2, <3>3
  <2>3. SubSeq(b, 4, Len(k)) = v
    BY <1>1, <2>1, <2>2, SeqEqual
  <2>4. n + 3 = Len(k)
    BY <1>2, <1>7, <1>9
  <2> QED  BY <2>3, <2>4
<1>11. SubSeq(b, n + 4, Len(b)) = r
  <2>1. n + 4 = Len(k) + 1
    BY <1>2, <1>7, <1>9
  <2> QED  BY <1>5, <2>1
<1>12. ~(Len(b) < 3) /\ ~(Len(b) < n + 3)
  BY <1>2, <1>3, <1>7, <1>9
<1>13. ReadAttr(acc) = [ok |-> TRUE, rest |-> SubSeq(b, n + 4, Len(b)),
           map |-> [t \in DOMAIN map \cup {b[1]} |->
                      IF t = b[1] THEN SubSeq(b, 4, n + 3) ELSE map[t]]]
  BY <1>12 DEF ReadAttr, n
<1>14. ReadAttr(acc) = [ok |-> TRUE, rest |-> r,
           map |-> [t \in DOMAIN map \cup {a.type} |-> IF t = a.type THEN v ELSE map[t]]]
  BY <1>8, <1>10, <1>11, <1>13
<1> QED  BY <1>14 DEF b, k, v

\* A list of attributes as a message of this program carries it.
FitsAttrs(attrs) ==
  /\ attrs \in Seq(Attribute)
  /\ \A i \in DOMAIN attrs : attrs[i].length = Len(attrs[i].value)
  /\ \A i, j \in DOMAIN attrs : attrs[i].type = attrs[j].type => i = j

\* The loops of Marshall and UnMarshall over the attributes undo each other.
LEMMA AttrsRead ==
  ASSUME NEW m, FitsAttrs(m.attrs)
  PROVE  ReadAttrs(AttrsBytes(m.attrs), Len(m.attrs)) =
           [ok |-> TRUE, rest |-> <<>>,
            map |-> [t \in {m.attrs[j].type : j \in DOMAIN m.attrs} |-> Value(m, t)]]
<1> DEFINE attrs == m.attrs
           n == Len(attrs)
           Map(k) == [t \in {attrs[j].type : j \in 1 .. k} |-> Value(m, t)]
<1>1. /\ attrs \in Seq(Attribute) /\ n \in Nat /\ DOMAIN attrs = 1 .. n
      /\ \A i \in 1 .. n : attrs[i] \in Attribute /\ attrs[i].length = Len(attrs[i].value)
      /\ \A i, j \in 1 .. n : attrs[i].type = attrs[j].type => i = j
  BY DEF FitsAttrs
<1>2. \A i \in 1 .. n : Value(m, attrs[i].type) = attrs[i].value
  <2> SUFFICES ASSUME NEW i \in 1 .. n PROVE Value(m, attrs[i].type) = attrs[i].value
    OBVIOUS
  <2> DEFINE c == CHOOSE j \in DOMAIN attrs : attrs[j].type = attrs[i].type
  <2>1. c \in DOMAIN attrs /\ attrs[c].type = attrs[i].type
    <3>1. i \in DOMAIN attrs /\ attrs[i].type = attrs[i].type
      BY <1>1
    <3> QED  BY <3>1
  <2>2. Value(m, attrs[i].type) = attrs[c].value
    BY DEF Value
  <2> HIDE DEF c
  <2>3. c = i
    BY <1>1, <2>1
  <2> QED  BY <2>2, <2>3
<1> HIDE DEF attrs
<1>3. PICK f \in [0 .. n -> Seq(Byte)] :
        /\ f[0] = <<>>
        /\ \A i \in 1 .. n : f[i] = AttrBytes(attrs[n + 1 - i]) \o f[i - 1]
        /\ AttrsBytes(attrs) = f[n]
  BY <1>1, AttrsAre
<1> HIDE DEF n
<1> DEFINE w == [i \in 0 .. n |-> [ok |-> TRUE, map |-> Map(i), rest |-> f[n - i]]]
           first == [ok |-> TRUE, map |-> <<>>, rest |-> f[n]]
           Loop(h) == h = [i \in 0 .. n |-> IF i = 0 THEN first ELSE ReadAttr(h[i - 1])]
           c == CHOOSE h : Loop(h)
<1>4. w[0] = first
  <2>1. Map(0) = <<>>
    OBVIOUS
  <2>2. 0 \in 0 .. n /\ n - 0 = n
    BY <1>1
  <2> HIDE DEF Map
  <2>3. w[0] = [ok |-> TRUE, map |-> Map(0), rest |-> f[n - 0]]
    BY <2>2
  <2> QED  BY <2>1, <2>2, <2>3
<1>5. ASSUME NEW i \in 1 .. n PROVE w[i] = ReadAttr(w[i - 1])
  <2> DEFINE a == attrs[i]
             r == f[n - i]
  <2>1. a \in Attribute /\ a.length = Len(a.value) /\ r \in Seq(Byte)
    BY <1>1
  <2>2. f[n - (i - 1)] = AttrBytes(a) \o r
    <3>1. n + 1 - i \in 1 .. n /\ n + 1 - (n + 1 - i) = i /\ (n + 1 - i) - 1 = n - i
          /\ n - (i - 1) = n + 1 - i
      BY <1>1
    <3> QED  BY <1>3, <3>1
  <2>3. w[i - 1] = [ok |-> TRUE, map |-> Map(i - 1), rest |-> AttrBytes(a) \o r]
    <3>1. i - 1 \in 0 .. n
      BY <1>1
    <3> QED  BY <2>2, <3>1
  <2>4. Map(i) = [t \in DOMAIN Map(i - 1) \cup {a.type} |-> IF t = a.type THEN a.value ELSE Map(i - 1)[t]]
    <3>1. DOMAIN Map(i - 1) \cup {a.type} = {attrs[j].type : j \in 1 .. i}
      <4>1. \A j : j \in 1 .. i <=> j \in 1 .. i - 1 \/ j = i
        BY <1>1
      <4> QED  BY <4>1
    <3>2. ASSUME NEW t \in {attrs[j].type : j \in 1 .. i}
          PROVE  Value(m, t) = IF t = a.type THEN a.value ELSE Map(i - 1)[t]
      BY <1>2, <3>1
    <3> QED  BY <3>1, <3>2
  <2>5. w[i] = [ok |-> TRUE, map |-> Map(i), rest |-> r]
    BY <1>1
  <2> DEFINE M == Map(i - 1)
  <2> HIDE DEF a, r, w
  <2>6. ReadAttr([ok |-> TRUE, map |-> M, rest |-> AttrBytes(a) \o r]) =
          [ok |-> TRUE, rest |-> r,
           map |-> [t \in DOMAIN M \cup {a.type} |-> IF t = a.type THEN a.value ELSE M[t]]]
    <3> HIDE DEF M
    <3> QED  BY <2>1, AttrRead
  <2>7. [t \in DOMAIN M \cup {a.type} |-> IF t = a.type THEN a.value ELSE M[t]] = Map(i)
    BY <2>4
  <2> HIDE DEF Map, M
  <2>8. w[i - 1] = [ok |-> TRUE, map |-> M, rest |-> AttrBytes(a) \o r]
    BY <2>3 DEF M
  <2> QED  BY <2>5, <2>6, <2>7, <2>8
<1>6. Loop(w)
  <2> HIDE DEF first
  <2>1. ASSUME NEW i \in 0 .. n PROVE w[i] = IF i = 0 THEN first ELSE ReadAttr(w[i - 1])
    <3> HIDE DEF w
    <3>1. CASE i = 0
      BY <1>4, <3>1
    <3>2. CASE i # 0
      <4>1. i \in 1 .. n
        BY <1>1, <3>2
      <4> QED  BY <1>5, <3>2, <4>1
    <3> QED  BY <3>1, <3>2
  <2>2. w = [i \in 0 .. n |-> w[i]]
    OBVIOUS
  <2> HIDE DEF w
  <2> QED  BY <2>1, <2>2
<1>7. Loop(c)
  <2> HIDE DEF Loop
  <2> QED  BY <1>6, Zenon
<1>8. ReadAttrs(f[n], n) = c[n]
  BY DEF ReadAttrs
<1> HIDE DEF c
<1>9. c[0] = first
  <2> HIDE DEF first
  <2> QED  BY <1>1, <1>7
<1>10. ASSUME NEW i \in 1 .. n PROVE c[i] = ReadAttr(c[i - 1])
  <2>1. i \in 0 .. n /\ i # 0
    BY <1>1
  <2> QED  BY <1>7, <2>1
<1>11. w[n] = c[n]
  <2> HIDE DEF w, Loop
  <2>1. \A i \in 1 .. n : w[i - 1] = c[i - 1] => w[i] = c[i]
    BY <1>5, <1>10
  <2>2. w[0] = c[0]
    BY <1>4, <1>9
  <2> QED  BY <1>1, <2>1, <2>2, OneRun
<1>12. w[n] = [ok |-> TRUE, map |-> Map(n), rest |-> <<>>]
  <2>1. n \in 0 .. n /\ n - n = 0
    BY <1>1
  <2> HIDE DEF Map
  <2>2. w[n] = [ok |-> TRUE, map |-> Map(n), rest |-> f[n - n]]
    BY <2>1
  <2> QED  BY <1>3, <2>1, <2>2
<1>13. ReadAttrs(AttrsBytes(attrs), n) = [ok |-> TRUE, map |-> Map(n), rest |-> <<>>]
  <2> HIDE DEF w, Map
  <2> QED  BY <1>3, <1>8, <1>11, <1>12
<1> QED  BY <1>1, <1>13 DEF n, attrs

-----------------------------------------------------------------------------
\* A message on its way.

\* What the other end makes of m.
Decoded(m) ==
  [version |-> m.version, type |-> m.type, serialNo |-> m.serialNo,
   cID |-> m.cID, cliID |-> m.cliID,
   errorCode |-> IF m.version = VERSION_V2 THEN m.errorCode ELSE 0,
   attr |-> [t \in {m.attrs[j].type : j \in DOMAIN m.attrs} |-> Value(m, t)]]

\* The fields in front of the attributes.
Fields(m) ==
  <<m.version, m.type>> \o U16(m.serialNo) \o U16(m.cID) \o U16(m.cliID)
    \o (IF m.version = VERSION_V2 THEN <<m.errorCode>> ELSE <<>>)
    \o <<Len(m.attrs)>>

LEMMA TwoMore ==
  ASSUME NEW S, NEW h \in Seq(S), NEW p \in S \X S
  PROVE  /\ h \o p \in Seq(S) /\ Len(h \o p) = Len(h) + 2
         /\ \A i \in 1 .. Len(h) : (h \o p)[i] = h[i]
         /\ (h \o p)[Len(h) + 1] = p[1] /\ (h \o p)[Len(h) + 2] = p[2]
<1>1. PICK x \in S, y \in S : p = <<x, y>>
  OBVIOUS
<1>2. <<x, y>> \in Seq(S) /\ Len(<<x, y>>) = 2
  OBVIOUS
<1>3. p \in Seq(S) /\ Len(p) = 2
  BY <1>1, <1>2
<1>4. h \o p \in Seq(S) /\ Len(h \o p) = Len(h) + Len(p)
  BY <1>3, Glued
<1>5. \A i \in 1 .. Len(h) : (h \o p)[i] = h[i]
  BY <1>3, Glued
<1>6. \A i \in 1 .. Len(p) : (h \o p)[Len(h) + i] = p[i]
  BY <1>3, Glued
<1> QED  BY <1>3, <1>4, <1>5, <1>6

LEMMA OneMore ==
  ASSUME NEW S, NEW h \in Seq(S), NEW x \in S
  PROVE  /\ h \o <<x>> \in Seq(S) /\ Len(h \o <<x>>) = Len(h) + 1
         /\ \A i \in 1 .. Len(h) : (h \o <<x>>)[i] = h[i]
         /\ (h \o <<x>>)[Len(h) + 1] = x
<1> DEFINE p == <<x>>
<1>3. p \in Seq(S) /\ Len(p) = 1 /\ p[1] = x
  OBVIOUS
<1> HIDE DEF p
<1>4. h \o p \in Seq(S) /\ Len(h \o p) = Len(h) + Len(p)
  BY <1>3, Glued
<1>5. \A i \in 1 .. Len(h) : (h \o p)[i] = h[i]
  BY <1>3, Glued
<1>6. \A i \in 1 .. Len(p) : (h \o p)[Len(h) + i] = p[i]
  BY <1>3, Glued
<1> QED  BY <1>3, <1>4, <1>5, <1>6 DEF p

LEMMA FieldsAre ==
  ASSUME NEW m, m.version \in {VERSION_V1, VERSION_V2} \cap Byte, m.type \in Byte,
         m.errorCode \in Byte, Len(m.attrs) \in Byte,
         NEW s \in Byte \X Byte, s = U16(m.serialNo),
         NEW c \in Byte \X Byte, c = U16(m.cID),
         NEW l \in Byte \X Byte, l = U16(m.cliID),
         NEW k, k = HeaderLen(m.version)
  PROVE  /\ Fields(m) \in Seq(Byte) /\ Len(Fields(m)) = k /\ k \in {9, 10}
         /\ Fields(m)[1] = m.version /\ Fields(m)[2] = m.type
         /\ Fields(m)[3] = s[1] /\ Fields(m)[4] = s[2] /\ Fields(m)[5] = c[1] /\ Fields(m)[6] = c[2]
         /\ Fields(m)[7] = l[1] /\ Fields(m)[8] = l[2]
         /\ m.version = VERSION_V2 => Fields(m)[9] = m.errorCode
         /\ Fields(m)[k] = Len(m.attrs)
<1> DEFINE a == <<m.version, m.type>>
           f == a \o s
           g == f \o c
           h == g \o l
           q == h \o (IF m.version = VERSION_V2 THEN <<m.errorCode>> ELSE <<>>)
           x == q \o <<Len(m.attrs)>>
<1>1. a \in Seq(Byte) /\ Len(a) = 2 /\ a[1] = m.version /\ a[2] = m.type
  OBVIOUS
<1> HIDE DEF a
<1>2. /\ f \in Seq(Byte) /\ Len(f) = 2 + 2 /\ \A i \in 1 .. 2 : f[i] = a[i]
      /\ f[2 + 1] = s[1] /\ f[2 + 2] = s[2]
  <2>1. a \in Seq(Byte)
    BY <1>1
  <2>2. /\ f \in Seq(Byte) /\ Len(f) = Len(a) + 2 /\ \A i \in 1 .. Len(a) : f[i] = a[i]
        /\ f[Len(a) + 1] = s[1] /\ f[Len(a) + 2] = s[2]
    BY <2>1, TwoMore
  <2> HIDE DEF f
  <2> QED  BY <1>1, <2>2
<1> HIDE DEF f
<1>3. /\ g \in Seq(Byte) /\ Len(g) = 4 + 2 /\ \A i \in 1 .. 4 : g[i] = f[i]
      /\ g[4 + 1] = c[1] /\ g[4 + 2] = c[2]
  <2>1. f \in Seq(Byte)
    BY <1>2
  <2>2. /\ g \in Seq(Byte) /\ Len(g) = Len(f) + 2 /\ \A i \in 1 .. Len(f) : g[i] = f[i]
        /\ g[Len(f) + 1] = c[1] /\ g[Len(f) + 2] = c[2]
    BY <2>1, TwoMore
  <2> HIDE DEF g
  <2> QED  BY <1>2, <2>2
<1> HIDE DEF g
<1>4. /\ h \in Seq(Byte) /\ Len(h) = 6 + 2 /\ \A i \in 1 .. 6 : h[i] = g[i]
      /\ h[6 + 1] = l[1] /\ h[6 + 2] = l[2]
  <2>1. g \in Seq(Byte)
    BY <1>3
  <2>2. /\ h \in Seq(Byte) /\ Len(h) = Len(g) + 2 /\ \A i \in 1 .. Len(g) : h[i] = g[i]
        /\ h[Len(g) + 1] = l[1] /\ h[Len(g) + 2] = l[2]
    BY <2>1, TwoMore
  <2> HIDE DEF h
  <2> QED  BY <1>3, <2>2
<1> HIDE DEF h
<1>5. /\ h[1] = m.version /\ h[2] = m.type /\ h[3] = s[1] /\ h[4] = s[2]
      /\ h[5] = c[1] /\ h[6] = c[2] /\ h[7] = l[1] /\ h[8] = l[2] /\ Len(h) = 8
  BY <1>1, <1>2, <1>3, <1>4
<1>6. /\ q \in Seq(Byte) /\ Len(q) = k - 1 /\ k \in {9, 10} /\ \A i \in 1 .. 8 : q[i] = h[i]
      /\ m.version = VERSION_V2 => q[9] = m.errorCode
  <2>1. CASE m.version = VERSION_V2
    <3>1. q = h \o <<m.errorCode>>
      BY <2>1
    <3>2. /\ h \o <<m.errorCode>> \in Seq(Byte) /\ Len(h \o <<m.errorCode>>) = Len(h) + 1
          /\ \A i \in 1 .. Len(h) : (h \o <<m.errorCode>>)[i] = h[i]
          /\ (h \o <<m.errorCode>>)[Len(h) + 1] = m.errorCode
      BY <1>4, OneMore
    <3> HIDE DEF q
    <3>4. q \in Seq(Byte) /\ Len(q) = 8 + 1 /\ (\A i \in 1 .. 8 : q[i] = h[i]) /\ q[8 + 1] = m.errorCode
      BY <1>5, <3>1, <3>2
    <3>3. k = 10
      BY <2>1 DEF HeaderLen
    <3> QED  BY <3>3, <3>4
  <2>2. CASE m.version # VERSION_V2
    <3>1. q = h
      BY <1>4, <2>2
    <3>2. k = 9
      BY <2>2 DEF HeaderLen
    <3> HIDE DEF q
    <3> QED  BY <1>4, <1>5, <2>2, <3>1, <3>2
  <2> QED  BY <2>1, <2>2
<1> HIDE DEF q
<1>7. /\ x \in Seq(Byte) /\ Len(x) = (k - 1) + 1 /\ \A i \in 1 .. k - 1 : x[i] = q[i]
      /\ x[(k - 1) + 1] = Len(m.attrs)
  <2>1. q \in Seq(Byte) /\ Len(q) = k - 1
    BY <1>6
  <2>2. /\ x \in Seq(Byte) /\ Len(x) = Len(q) + 1 /\ \A i \in 1 .. Len(q) : x[i] = q[i]
        /\ x[Len(q) + 1] = Len(m.attrs)
    BY <2>1, OneMore
  <2> HIDE DEF x
  <2> QED  BY <2>1, <2>2
<1>8. Fields(m) = x
  BY DEF Fields, x, q, h, g, f, a
<1> HIDE DEF x
<1>9. x \in Seq(Byte) /\ Len(x) = k /\ k \in {9, 10} /\ x[k] = Len(m.attrs)
  BY <1>6, <1>7
<1>10. \A i \in 1 .. 8 : x[i] = h[i]
  BY <1>6, <1>7
<1>11. m.version = VERSION_V2 => x[9] = m.errorCode
  <2> SUFFICES ASSUME m.version = VERSION_V2 PROVE x[9] = m.errorCode
    OBVIOUS
  <2>1. k = 10
    BY DEF HeaderLen
  <2> QED  BY <1>6, <1>7, <2>1
<1>12. /\ x[1] = h[1] /\ x[2] = h[2] /\ x[3] = h[3] /\ x[4] = h[4]
       /\ x[5] = h[5] /\ x[6] = h[6] /\ x[7] = h[7] /\ x[8] = h[8]
  BY <1>10
<1> QED  BY <1>5, <1>8, <1>9, <1>11, <1>12

LEMMA PlainRead ==
  ASSUME NEW e \in Endpoints, NEW m, Fits(e, m)
  PROVE  /\ Plain(m) \in Seq(Byte)
         /\ Len(Plain(m)) = HeaderLen(e.version) + Len(AttrsBytes(m.attrs))
         /\ Parse(e.version, Plain(m)) = Decoded(m)
<1> DEFINE s == U16(m.serialNo)
           c == U16(m.cID)
           l == U16(m.cliID)
           n == Len(m.attrs)
           k == HeaderLen(e.version)
           x == Fields(m)
           r == AttrsBytes(m.attrs)
           b == Plain(m)
           v == e.version
<1>1. /\ m.version = v /\ v \in {VERSION_V1, VERSION_V2} /\ v \in Byte
      /\ m.type \in Byte /\ m.errorCode \in Byte /\ n \in Byte /\ n \in Nat
      /\ m.serialNo \in 0 .. Word - 1 /\ m.cID \in 0 .. Word - 1 /\ m.cliID \in 0 .. Word - 1
  BY EndpointsAssumption, BaseAssumption DEF Fits, Byte, VERSION_V1, VERSION_V2
<1>2. m.serialNo \in Nat /\ m.cID \in Nat /\ m.cliID \in Nat
  BY <1>1, WordIs
<1>3. FitsAttrs(m.attrs)
  BY DEF Fits, FitsAttrs, Attribute
<1>4. /\ s \in Byte \X Byte /\ Num16(s) = m.serialNo
      /\ c \in Byte \X Byte /\ Num16(c) = m.cID
      /\ l \in Byte \X Byte /\ Num16(l) = m.cliID
  BY <1>1, <1>2, WordBytes, FieldRead
<1>6. b = x \o r
  BY DEF Plain, Fields
<1>7. r \in Seq(Byte)
  <2>1. m.attrs \in Seq(Attribute)
    BY <1>3 DEF FitsAttrs
  <2>2. PICK f \in [0 .. Len(m.attrs) -> Seq(Byte)] : r = f[Len(m.attrs)]
    BY <2>1, AttrsAre
  <2> QED  BY <2>1, <2>2
<1>8. ReadAttrs(r, n) = [ok |-> TRUE, rest |-> <<>>,
            map |-> [t \in {m.attrs[j].type : j \in DOMAIN m.attrs} |-> Value(m, t)]]
  BY <1>3, AttrsRead
<1> HIDE DEF s, c, l, n, x, r, b, v
<1>9. /\ x \in Seq(Byte) /\ Len(x) = k /\ k \in {9, 10}
      /\ x[1] = v /\ x[2] = m.type /\ x[3] = s[1] /\ x[4] = s[2]
      /\ x[5] = c[1] /\ x[6] = c[2] /\ x[7] = l[1] /\ x[8] = l[2] /\ x[k] = n
      /\ v = VERSION_V2 => x[9] = m.errorCode
  <2> HIDE DEF k
  <2>1. k = HeaderLen(m.version)
    BY <1>1 DEF k, v
  <2>2. m.version \in {VERSION_V1, VERSION_V2} \cap Byte /\ Len(m.attrs) \in Byte
    BY <1>1 DEF n
  <2> QED  BY <1>1, <1>4, <2>1, <2>2, FieldsAre DEF x, s, c, l, n
<1> HIDE DEF k
<1>10. b \in Seq(Byte) /\ Len(b) = k + Len(r)
  BY <1>6, <1>7, <1>9, Glued
<1>11. \A i \in 1 .. k : b[i] = x[i]
  BY <1>6, <1>7, <1>9, Glued
<1>12. SubSeq(b, k + 1, Len(b)) = r
  BY <1>6, <1>7, <1>9, Glued
<1>13. /\ b[1] = v /\ b[2] = m.type /\ b[k] = n /\ (v = VERSION_V2 => b[9] = m.errorCode)
       /\ b[3] = s[1] /\ b[4] = s[2] /\ b[5] = c[1] /\ b[6] = c[2] /\ b[7] = l[1] /\ b[8] = l[2]
  BY <1>9, <1>11
<1>14. /\ Num16(SubSeq(b, 3, 4)) = m.serialNo
       /\ Num16(SubSeq(b, 5, 6)) = m.cID
       /\ Num16(SubSeq(b, 7, 8)) = m.cliID
  <2>1. Len(b) >= 9
    BY <1>7, <1>9, <1>10
  <2>2. SubSeq(b, 3, 4)[1] = b[3] /\ SubSeq(b, 3, 4)[2] = b[4]
    BY <1>10, <2>1
  <2>3. SubSeq(b, 5, 6)[1] = b[5] /\ SubSeq(b, 5, 6)[2] = b[6]
    BY <1>10, <2>1
  <2>4. SubSeq(b, 7, 8)[1] = b[7] /\ SubSeq(b, 7, 8)[2] = b[8]
    BY <1>10, <2>1
  <2> QED  BY <1>4, <1>13, <2>2, <2>3, <2>4 DEF Num16
<1>15. ~(Len(b) < k)
  BY <1>7, <1>9, <1>10
<1>16. Parse(v, b) = [version |-> v, type |-> m.type, serialNo |-> m.serialNo,
                      cID |-> m.cID, cliID |-> m.cliID,
                      errorCode |-> IF v = VERSION_V2 THEN m.errorCode ELSE 0,
                      attr |-> [t \in {m.attrs[j].type : j \in DOMAIN m.attrs} |-> Value(m, t)]]
  <2>1. k = HeaderLen(v)
    BY DEF k, v
  <2>2. ReadAttrs(SubSeq(b, k + 1, Len(b)), b[k]).ok /\ ReadAttrs(SubSeq(b, k + 1, Len(b)), b[k]).map
          = [t \in {m.attrs[j].type : j \in DOMAIN m.attrs} |-> Value(m, t)]
    <3>1. b[k] = n
      BY <1>13
    <3>2. ReadAttrs(SubSeq(b, k + 1, Len(b)), b[k]) = ReadAttrs(r, n)
      BY <1>12, <3>1, Zenon
    <3> QED  BY <1>8, <3>2
  <2>3. Parse(v, b) = [version |-> b[1], type |-> b[2], serialNo |-> Num16(SubSeq(b, 3, 4)),
                cID |-> Num16(SubSeq(b, 5, 6)), cliID |-> Num16(SubSeq(b, 7, 8)),
                errorCode |-> IF v = VERSION_V2 THEN b[9] ELSE 0,
                attr |-> ReadAttrs(SubSeq(b, k + 1, Len(b)), b[k]).map]
    BY <1>15, <2>1, <2>2 DEF Parse
  <2>4. (IF v = VERSION_V2 THEN b[9] ELSE 0) = IF v = VERSION_V2 THEN m.errorCode ELSE 0
    BY <1>13
  <2> QED  BY <1>13, <1>14, <2>2, <2>3, <2>4, Zenon
<1> QED  BY <1>1, <1>10, <1>16 DEF Decoded, b, k, r, v

-----------------------------------------------------------------------------
\* The cells in which it travels.
Keys == {Clear, Random} \cup {evpBytesToKey(e.secret) : e \in Endpoints}
Cell == Keys \X Byte

LEMMA Tagged ==
  ASSUME NEW k \in Keys, NEW b \in Seq(Byte)
  PROVE  /\ Tag(k, b) \in Seq(Cell) /\ Len(Tag(k, b)) = Len(b)
         /\ \A i \in 1 .. Len(b) : Tag(k, b)[i] = <<k, b[i]>>
         /\ HasKey(Tag(k, b), k) /\ Untag(Tag(k, b)) = b
<1> DEFINE c == Tag(k, b)
<1>1. c = [i \in 1 .. Len(b) |-> <<k, b[i]>>] /\ Len(b) \in Nat
  BY DEF Tag
<1>2. \A i \in 1 .. Len(b) : <<k, b[i]>> \in Cell
  BY DEF Cell
<1>3. c \in Seq(Cell) /\ Len(c) = Len(b)
  <2> HIDE DEF c
  <2>1. c \in [1 .. Len(b) -> Cell]
    BY <1>1, <1>2
  <2> QED  BY <1>1, <2>1
<1>4. \A i \in 1 .. Len(b) : c[i] = <<k, b[i]>>
  BY <1>1
<1> HIDE DEF c
<1>5. HasKey(c, k)
  BY <1>3, <1>4 DEF HasKey
<1>6. Untag(c) = b
  <2>1. Untag(c) = [i \in 1 .. Len(b) |-> c[i][2]]
    BY <1>3 DEF Untag
  <2>2. \A i \in 1 .. Len(b) : c[i][2] = b[i]
    BY <1>4
  <2>3. Untag(c) = [i \in 1 .. Len(b) |-> b[i]]
    BY <2>1, <2>2
  <2> QED  BY <2>3
<1> QED  BY <1>3, <1>4, <1>5, <1>6 DEF c

LEMMA KeysKnown ==
  /\ Clear \in Keys /\ Random \in Keys
  /\ \A e \in Endpoints : evpBytesToKey(e.secret) \in Keys
BY DEF Keys

\* An attribute has three bytes more than its value.
LEMMA AttrsLength ==
  ASSUME NEW attrs \in Seq(Attribute), \A i \in DOMAIN attrs : attrs[i].length = Len(attrs[i].value)
  PROVE  AttrsBytes(attrs) \in Seq(Byte) /\ Len(AttrsBytes(attrs)) <= Len(attrs) * (Word + 2)
<1> DEFINE n == Len(attrs)
           d == Word + 2
<1>1. n \in Nat /\ d \in Nat /\ DOMAIN attrs = 1 .. n
  BY WordIs
<1>2. PICK f \in [0 .. n -> Seq(Byte)] :
        /\ f[0] = <<>>
        /\ \A i \in 1 .. n : f[i] = AttrBytes(attrs[n + 1 - i]) \o f[i - 1]
        /\ AttrsBytes(attrs) = f[n]
  BY AttrsAre
<1>3. ASSUME NEW i \in 1 .. n PROVE Len(f[i]) <= d + Len(f[i - 1])
  <2> DEFINE j == n + 1 - i
             a == attrs[j]
             k == AttrBytes(a)
             r == f[i - 1]
  <2>1. j \in 1 .. n
    BY <1>1
  <2>2. a \in Attribute /\ a.length = Len(a.value) /\ a.length <= Word - 1 /\ Len(a.value) \in Nat
    <3>1. a \in Attribute
      BY <1>1, <2>1
    <3>2. a.length \in 0 .. Word - 1 /\ a.value \in Seq(Byte)
      BY <3>1 DEF Attribute
    <3> QED  BY <1>1, <2>1, <3>1, <3>2, WordIs
  <2>3. k \in Seq(Byte) /\ Len(k) = 3 + Len(a.value)
    BY <2>2, AttrBytesAre
  <2>4. r \in Seq(Byte)
    BY <1>1
  <2>5. f[i] = k \o r
    BY <1>2
  <2> HIDE DEF k, r, a
  <2>6. Len(f[i]) = Len(k) + Len(r)
    <3>1. k \in Seq(Byte) /\ r \in Seq(Byte)
      BY <2>3, <2>4
    <3>2. Len(k \o r) = Len(k) + Len(r)
      BY <3>1, Glued
    <3> QED  BY <2>5, <3>2
  <2> QED  BY <1>1, <2>2, <2>3, <2>4, <2>6, WordIs DEF r
<1> HIDE DEF n, d
<1> DEFINE T == {k \in Nat : k <= n => Len(f[k]) <= k * d}
<1>4. 0 \in T
  <2>1. Len(f[0]) = 0 /\ 0 * d = 0
    BY <1>1, <1>2
  <2> QED  BY <2>1
<1>5. ASSUME NEW k \in T PROVE k + 1 \in T
  <2> SUFFICES ASSUME k + 1 <= n PROVE Len(f[k + 1]) <= (k + 1) * d
    OBVIOUS
  <2>1. k \in Nat /\ k + 1 \in 1 .. n /\ k + 1 - 1 = k /\ Len(f[k]) <= k * d
    BY <1>1
  <2>2. Len(f[k + 1]) <= d + Len(f[k])
    BY <1>3, <2>1
  <2>3. (k + 1) * d = k * d + d /\ k * d \in Nat
    BY <1>1, <2>1, Z3
  <2>4. Len(f[k]) \in Nat /\ Len(f[k + 1]) \in Nat
    BY <1>1, <2>1
  <2> QED  BY <1>1, <2>1, <2>2, <2>3, <2>4
<1>6. T \in SUBSET Nat
  OBVIOUS
<1> HIDE DEF T
<1>7. n \in T
  BY <1>1, <1>4, <1>5, <1>6, Induction
<1> QED  BY <1>1, <1>2, <1>7 DEF T, n, d

LEMMA PlainLength ==
  ASSUME NEW e \in Endpoints, NEW m, Fits(e, m)
  PROVE  Plain(m) \in Seq(Byte) /\ Len(Plain(m)) + 2 * Block < Word * Word
<1> DEFINE n == Len(m.attrs)
           k == HeaderLen(e.version)
           r == AttrsBytes(m.attrs)
<1>1. /\ Plain(m) \in Seq(Byte) /\ Len(Plain(m)) = k + Len(r)
      /\ r \in Seq(Byte) /\ Len(r) <= n * (Word + 2) /\ n \in Byte
  <2>1. m.attrs \in Seq(Attribute) /\ n \in Byte
        /\ \A i \in DOMAIN m.attrs : m.attrs[i].length = Len(m.attrs[i].value)
    BY DEF Fits, Attribute
  <2> QED  BY <2>1, PlainRead, AttrsLength
<1>2. k \in {9, 10}
  BY DEF HeaderLen
<1> HIDE DEF n, k, r
<1>3. n \in Nat /\ n <= Base - 1 /\ Word = Base * Base /\ Base \in Nat /\ Base >= 4 /\ Len(r) \in Nat
  BY <1>1, BaseAssumption DEF Byte, Word
<1>4. Block \in Nat /\ Block <= Base - 1
  BY BlockAssumption, <1>3
<1>5. n * (Word + 2) <= (Base - 1) * (Word + 2)
  BY <1>3, WordIs, Z3
<1>6. (Base - 1) * (Word + 2) = Base * Word - Word + 2 * Base - 2
  BY <1>3, WordIs, Z3
<1>7. 4 * Base <= Word /\ Base * Word + 16 <= Word * Word
  <2>1. 4 * Base <= Word
    BY <1>3, Z3
  <2> DEFINE p == Base * Word
  <2>2. Word * Word = Base * p /\ p \in Nat /\ p >= 16
    <3>1. Word >= 4 /\ Word \in Nat
      BY WordIs
    <3>2. p >= 4 * Word /\ p \in Nat
      BY <1>3, <3>1, Z3
    <3>3. Word * Word = Base * p
      BY <1>3, <3>1, Z3
    <3>4. p >= 16
      BY <3>1, <3>2
    <3> QED  BY <3>2, <3>3, <3>4
  <2> HIDE DEF p
  <2>3. Base * p >= 4 * p
    BY <1>3, <2>2, Z3
  <2>4. Base * p >= p + 16
    BY <2>2, <2>3, <1>3
  <2> QED  BY <2>1, <2>2, <2>4 DEF p
<1> DEFINE x == Base * Word
           y == Word * Word
           z == n * (Word + 2)
<1>8. x \in Int /\ y \in Int /\ z \in Int /\ Word \in Int
  BY <1>3, WordIs
<1>9. /\ z <= x - Word + 2 * Base - 2 /\ x + 16 <= y /\ Len(r) <= z
  BY <1>1, <1>5, <1>6, <1>7
<1> HIDE DEF x, y, z
<1>10. Len(Plain(m)) + 2 * Block < y
  BY <1>1, <1>2, <1>3, <1>4, <1>7, <1>8, <1>9
<1> QED  BY <1>1, <1>10 DEF y

LEMMA Marshalled ==
  ASSUME NEW e \in Endpoints, NEW m, Fits(e, m)
  PROVE  /\ Marshall(e, m) \in Seq(Cell)
         /\ Len(Marshall(e, m)) \in 0 .. Word * Word - 1
<1> DEFINE b == Plain(m)
           c == Marshall(e, m)
<1>1. b \in Seq(Byte) /\ Len(b) \in Nat /\ Len(b) + 2 * Block < Word * Word
  BY PlainLength
<1>2. Block \in Nat /\ Block > 0 /\ Word * Word \in Nat
  BY BlockAssumption, WordIs
<1> HIDE DEF b
<1>3. CASE e.version = VERSION_V1
  <2>1. c = Tag(Clear, b)
    BY <1>3 DEF Marshall, b
  <2>2. c \in Seq(Cell) /\ Len(c) = Len(b)
    BY <1>1, <2>1, Tagged, KeysKnown
  <2> QED  BY <1>1, <1>2, <2>2
<1>4. CASE e.version # VERSION_V1
  <2> DEFINE iv   == [i \in 1 .. Block |-> 0]
             p    == PKCS7Padding(b)
             n    == Block - (Len(b) % Block)
             u    == Tag(Random, iv)
             w    == Tag(evpBytesToKey(e.secret), p)
  <2>1. c = u \o w
    BY <1>4 DEF Marshall, AesCBCEncrypt, b
  <2>2. iv \in Seq(Byte) /\ Len(iv) = Block
    BY <1>2, BaseAssumption DEF Byte
  <2>3. p \in Seq(Byte) /\ Len(p) <= Len(b) + Block
    <3>1. n \in 1 .. Block
      BY <1>1, <1>2
    <3> DEFINE q == [i \in 1 .. n |-> n]
    <3>2. q \in Seq(Nat) /\ Len(q) = n /\ p = b \o q
      BY <3>1 DEF PKCS7Padding
    <3>3. p \in Seq(Byte)
      BY <1>1, PaddingUndone
    <3>4. b \in Seq(Nat)
      BY <1>1, BaseAssumption DEF Byte
    <3> HIDE DEF q, p, n
    <3>6. b \in Seq(Nat) /\ q \in Seq(Nat)
      BY <3>2, <3>4
    <3>5. Len(b \o q) = Len(b) + Len(q)
      BY <3>6, Glued
    <3> QED  BY <1>1, <1>2, <3>1, <3>2, <3>3, <3>5
  <2> HIDE DEF iv, p
  <2>4. u \in Seq(Cell) /\ Len(u) = Block
    BY <2>2, Tagged, KeysKnown
  <2>5. w \in Seq(Cell) /\ Len(w) = Len(p)
    BY <2>3, Tagged, KeysKnown
  <2> HIDE DEF u, w
  <2>6. u \o w \in Seq(Cell) /\ Len(u \o w) = Len(u) + Len(w)
    BY <2>4, <2>5, Glued
  <2>7. Len(p) \in Nat
    BY <2>3
  <2>8. c \in Seq(Cell) /\ Len(c) = Block + Len(p)
    BY <2>1, <2>4, <2>5, <2>6
  <2> HIDE DEF c
  <2> DEFINE y == Word * Word
  <2>9. y \in Nat /\ Len(b) + 2 * Block < y
    BY <1>1, <1>2
  <2> HIDE DEF y
  <2>10. Len(c) \in 0 .. y - 1
    BY <1>1, <1>2, <2>3, <2>7, <2>8, <2>9
  <2> QED  BY <2>8, <2>10 DEF y, c
<1> QED  BY <1>3, <1>4

\* Two ends that are given the same version, and the same secret if they use one.
Match(e, d) == e.version = d.version /\ (e.version = VERSION_V2 => e.secret = d.secret)

\* What one end marshalls, an end of the same version and secret unmarshalls field by
\* field (Marshall and UnMarshall of v1/message.go and v2/message.go).  Of other ends
\* nothing can be said: what they read is noise, and no code checks it.
THEOREM UnMarshalled ==
  ASSUME NEW e \in Endpoints, NEW d \in Endpoints, Match(e, d), NEW m, Fits(e, m)
  PROVE  UnMarshall(d, Marshall(e, m)) = {Decoded(m)}
<1> DEFINE b == Plain(m)
           c == Marshall(e, m)
<1>1. b \in Seq(Byte) /\ Len(b) \in Nat /\ Parse(e.version, b) = Decoded(m)
  BY PlainRead
<1>2. VERSION_V1 # VERSION_V2 /\ e.version \in {VERSION_V1, VERSION_V2} /\ d.version = e.version
  BY EndpointsAssumption DEF VERSION_V1, VERSION_V2, Match
<1>3. c = IF e.version = VERSION_V1 THEN Tag(Clear, b) ELSE AesCBCEncrypt(b, e.secret)
  BY DEF Marshall
<1> HIDE DEF b, c
<1>4. CASE e.version = VERSION_V1
  <2>1. HasKey(c, Clear) /\ Untag(c) = b
    BY <1>1, <1>3, <1>4, Tagged, KeysKnown
  <2>2. Texts(c, Clear) = {b}
    BY <2>1 DEF Texts
  <2>3. UnMarshall(d, c) = {Parse(VERSION_V1, t) : t \in {b}}
    BY <1>2, <1>4, <2>2 DEF UnMarshall
  <2> QED  BY <1>1, <1>4, <2>3 DEF c
<1>5. CASE e.version = VERSION_V2
  <2>1. c = AesCBCEncrypt(b, e.secret) /\ d.secret = e.secret
    BY <1>2, <1>3, <1>5 DEF Match
  <2>2. AesCBCDncrypt(c, d.secret) = {[text |-> b]}
    BY <1>1, <2>1, CipherUndone
  <2>3. [text |-> b] # Error /\ [text |-> b].text = b
    <3>1. DOMAIN [text |-> b] = {"text"} /\ DOMAIN Error = {"error"}
      BY DEF Error
    <3> QED  BY <3>1
  <2>4. UnMarshall(d, c) = {IF x = Error THEN Error ELSE Parse(VERSION_V2, x.text) :
                              x \in AesCBCDncrypt(c, d.secret)}
    BY <1>2, <1>5 DEF UnMarshall
  <2>5. UnMarshall(d, c) = {Parse(VERSION_V2, b)}
    BY <2>2, <2>3, <2>4
  <2> QED  BY <1>1, <1>5, <2>5 DEF c
<1> QED  BY <1>2, <1>4, <1>5

LEMMA DecodedNotError == ASSUME NEW m PROVE Decoded(m) # Error
<1>1. "version" \in DOMAIN Decoded(m)
  BY DEF Decoded
<1>2. "version" \notin DOMAIN Error
  BY DEF Error
<1> QED  BY <1>1, <1>2

-----------------------------------------------------------------------------
\* The length in front of a message.

LEMMA Num32In ==
  ASSUME NEW b, \A i \in 1 .. 4 : b[i] \in Byte
  PROVE  Num32(b) \in 0 .. Word * Word - 1
<1> DEFINE h == b[1] * Base + b[2]
           l == b[3] * Base + b[4]
<1>1. /\ b[1] \in Nat /\ b[1] <= Base - 1 /\ b[2] \in Nat /\ b[2] <= Base - 1
      /\ b[3] \in Nat /\ b[3] <= Base - 1 /\ b[4] \in Nat /\ b[4] <= Base - 1
      /\ Base \in Nat /\ Word \in Nat /\ Word = Base * Base /\ Word > 3
  BY WordIs DEF Byte, Word
<1>2. \A x, y \in Nat : x <= Base - 1 /\ y <= Base - 1 => x * Base + y \in 0 .. Word - 1
  <2> SUFFICES ASSUME NEW x \in Nat, NEW y \in Nat, x <= Base - 1, y <= Base - 1
               PROVE  x * Base + y \in 0 .. Word - 1
    OBVIOUS
  <2>1. x * Base <= (Base - 1) * Base /\ x * Base \in Nat
    BY <1>1, Z3
  <2>2. (Base - 1) * Base = Word - Base
    BY <1>1, Z3
  <2> QED  BY <1>1, <2>1, <2>2
<1>3. h \in 0 .. Word - 1 /\ l \in 0 .. Word - 1
  BY <1>1, <1>2
<1>4. Num32(b) = h * Word + l
  <2>1. h * Word \in Int /\ b[3] * Base \in Int
    BY <1>1, <1>3
  <2> QED  BY <1>1, <2>1 DEF Num32, Num16
<1> HIDE DEF h, l
<1>5. h * Word <= (Word - 1) * Word /\ h * Word \in Nat
  BY <1>1, <1>3, Z3
<1>6. (Word - 1) * Word = Word * Word - Word /\ Word * Word \in Nat
  BY <1>1, Z3
<1> DEFINE y == Word * Word
           z == h * Word
<1>7. z + l \in 0 .. y - 1
  <2>1. z \in Nat /\ z <= y - Word /\ y \in Nat
    BY <1>5, <1>6
  <2> HIDE DEF y, z
  <2> QED  BY <1>1, <1>3, <2>1
<1> QED  BY <1>4, <1>7

LEMMA Num32Read ==
  ASSUME NEW n \in 0 .. Word * Word - 1
  PROVE  U32(n) \in Seq(Byte) /\ Len(U32(n)) = 4 /\ Num32(U32(n)) = n
<1> DEFINE q == n \div Word
           r == n % Word
           h == U16(q)
           l == U16(n)
           b == U32(n)
<1>1. Word \in Nat \ {0} /\ Base \in Nat \ {0} /\ n \in Nat
  BY WordIs
<1>2. q \in Nat /\ r \in 0 .. Word - 1 /\ r = n - Word * q
  BY <1>1, Division
<1> HIDE DEF q, r
<1>3. q \in 0 .. Word - 1
  <2>1. Word * q <= n /\ n < Word * Word
    <3>1. Word * q \in Int
      BY <1>1, <1>2
    <3> QED  BY <1>1, <1>2, <3>1
  <2>2. q >= Word => Word * q >= Word * Word
    BY <1>1, <1>2, Z3
  <2>3. Word * q \in Int /\ Word * Word \in Int
    BY <1>1, <1>2
  <2> QED  BY <1>1, <1>2, <2>1, <2>2, <2>3
<1>4. h \in Byte \X Byte /\ Num16(h) = q /\ l \in Byte \X Byte /\ Num16(l) = r
  <2>1. Num16(U16(q)) = q
    BY <1>3, FieldRead
  <2>2. Num16(U16(n)) = n % Word
    BY <1>1, WordBytes
  <2> QED  BY <1>1, <1>2, <2>1, <2>2, WordBytes DEF r
<1>5. b = h \o l
  BY DEF U32, q
<1> HIDE DEF h, l, b
<1>6. h \in Seq(Byte) /\ Len(h) = 2
  <2>1. PICK x \in Byte, y \in Byte : h = <<x, y>>
    BY <1>4
  <2>2. <<x, y>> \in Seq(Byte) /\ Len(<<x, y>>) = 2
    OBVIOUS
  <2> QED  BY <2>1, <2>2
<1>7. /\ h \o l \in Seq(Byte) /\ Len(h \o l) = Len(h) + 2
      /\ \A i \in 1 .. Len(h) : (h \o l)[i] = h[i]
      /\ (h \o l)[Len(h) + 1] = l[1] /\ (h \o l)[Len(h) + 2] = l[2]
  BY <1>4, <1>6, TwoMore
<1>8. /\ b \in Seq(Byte) /\ Len(b) = 4
      /\ b[1] = h[1] /\ b[2] = h[2] /\ b[3] = l[1] /\ b[4] = l[2]
  BY <1>5, <1>6, <1>7
<1>9. Num32(b) = Num16(h) * Word + Num16(l)
  <2>1. Num32(b) = (h[1] * Base + h[2]) * Word + l[1] * Base + l[2]
    BY <1>8 DEF Num32, Num16
  <2>2. l[1] * Base \in Int /\ l[2] \in Int /\ (h[1] * Base + h[2]) * Word \in Int
    BY <1>1, <1>4 DEF Byte
  <2> QED  BY <2>1, <2>2 DEF Num16
<1>10. Num32(b) = n
  <2>1. Word * q \in Int /\ q * Word = Word * q
    BY <1>1, <1>2
  <2> QED  BY <1>1, <1>2, <1>4, <1>9, <2>1
<1> QED  BY <1>8, <1>10 DEF b

-----------------------------------------------------------------------------
\* The stream.  s is a beginning of w.
Starts(s, w) == Len(s) <= Len(w) /\ \A i \in 1 .. Len(s) : s[i] = w[i]

LEMMA Split ==
  ASSUME NEW S, NEW s \in Seq(S), NEW u \in Seq(S), NEW w \in Seq(S),
         Starts(s, u \o w), Len(u) <= Len(s)
  PROVE  /\ SubSeq(s, 1, Len(u)) = u
         /\ Rest(s, Len(u)) \in Seq(S) /\ Len(Rest(s, Len(u))) = Len(s) - Len(u)
         /\ Starts(Rest(s, Len(u)), w) /\ Len(u \o w) = Len(u) + Len(w)
<1>1. u \o w \in Seq(S) /\ Len(u \o w) = Len(u) + Len(w)
  BY Glued
<1>2. \A i \in 1 .. Len(u) : (u \o w)[i] = u[i]
  BY Glued
<1>3. \A i \in 1 .. Len(w) : (u \o w)[Len(u) + i] = w[i]
  BY Glued
<1>4. Len(s) <= Len(u) + Len(w) /\ \A i \in 1 .. Len(s) : s[i] = (u \o w)[i]
  BY <1>1 DEF Starts
<1>5. Len(s) \in Nat /\ Len(u) \in Nat /\ Len(w) \in Nat
  OBVIOUS
<1>6. SubSeq(s, 1, Len(u)) = u
  <2>1. /\ SubSeq(s, 1, Len(u)) \in Seq(S) /\ Len(SubSeq(s, 1, Len(u))) = Len(u)
        /\ \A i \in 1 .. Len(u) : SubSeq(s, 1, Len(u))[i] = s[i]
    BY <1>5
  <2>2. \A i \in 1 .. Len(u) : SubSeq(s, 1, Len(u))[i] = u[i]
    BY <1>2, <1>4, <1>5, <2>1
  <2> QED  BY <2>1, <2>2, SeqEqual
<1>7. /\ Rest(s, Len(u)) \in Seq(S) /\ Len(Rest(s, Len(u))) = Len(s) - Len(u)
      /\ \A i \in 1 .. Len(s) - Len(u) : Rest(s, Len(u))[i] = s[Len(u) + i]
  <2>1. Rest(s, Len(u)) = SubSeq(s, Len(u) + 1, Len(s))
    BY DEF Rest
  <2>2. /\ SubSeq(s, Len(u) + 1, Len(s)) \in Seq(S)
        /\ Len(SubSeq(s, Len(u) + 1, Len(s))) = Len(s) - Len(u)
    BY <1>5
  <2>3. ASSUME NEW i \in 1 .. Len(s) - Len(u)
        PROVE  SubSeq(s, Len(u) + 1, Len(s))[i] = s[Len(u) + i]
    <3>1. SubSeq(s, Len(u) + 1, Len(s))[i] = s[Len(u) + 1 + i - 1] /\ Len(u) + 1 + i - 1 = Len(u) + i
      BY <1>5
    <3> QED  BY <3>1
  <2> QED  BY <2>1, <2>2, <2>3
<1>8. Starts(Rest(s, Len(u)), w)
  <2>1. Len(s) - Len(u) <= Len(w)
    BY <1>4, <1>5
  <2>2. ASSUME NEW i \in 1 .. Len(s) - Len(u) PROVE Rest(s, Len(u))[i] = w[i]
    <3>1. Len(u) + i \in 1 .. Len(s) /\ i \in 1 .. Len(w)
      BY <1>5, <2>1
    <3> QED  BY <1>3, <1>4, <1>7, <3>1
  <2> QED  BY <1>7, <2>1, <2>2 DEF Starts
<1> QED  BY <1>1, <1>6, <1>7, <1>8

\* The cells in front of a message give its length to the one who reads them.
LEMMA Framing ==
  ASSUME NEW e \in Endpoints, NEW m, Fits(e, m)
  PROVE  LET c == Marshall(e, m)
             h == Tag(Clear, U32(Len(c)))
         IN /\ Frame(c) = h \o c /\ Frame(c) \in Seq(Cell)
            /\ h \in Seq(Cell) /\ Len(h) = 4 /\ c \in Seq(Cell)
            /\ Num32(Untag(h) \o [i \in 1 .. 4 - 4 |-> 0]) = Len(c)
<1> DEFINE c == Marshall(e, m)
           u == U32(Len(c))
           h == Tag(Clear, u)
<1>1. c \in Seq(Cell) /\ Len(c) \in 0 .. Word * Word - 1
  BY Marshalled
<1>2. u \in Seq(Byte) /\ Len(u) = 4 /\ Num32(u) = Len(c)
  BY <1>1, Num32Read
<1> HIDE DEF c
<1>3. Frame(c) = h \o c
  BY DEF Frame
<1> HIDE DEF u
<1>4. h \in Seq(Cell) /\ Len(h) = 4 /\ Untag(h) = u
  BY <1>2, Tagged, KeysKnown
<1> HIDE DEF h
<1>5. h \o c \in Seq(Cell)
  BY <1>1, <1>4, Glued
<1>6. u \o [i \in 1 .. 4 - 4 |-> 0] = u
  <2>1. [i \in 1 .. 4 - 4 |-> 0] = <<>>
    OBVIOUS
  <2>2. u \o <<>> = u
    BY <1>2
  <2> QED  BY <2>1, <2>2
<1> QED  BY <1>1, <1>2, <1>3, <1>4, <1>5, <1>6 DEF c, h, u

-----------------------------------------------------------------------------
\* The inductive invariant.

Taken == Len(inbox) + refused

\* r[i] is all that the messages after the first i become.
Frames(r) ==
  /\ r \in [0 .. Len(sent) -> Seq(Cell)]
  /\ r[Len(sent)] = <<>>
  /\ \A i \in 1 .. Len(sent) : r[i - 1] = Frame(Marshall(tx, sent[i])) \o r[i]

\* What lies ahead of the receiver when nothing is lost.
Ahead(r) ==
  IF need = NoLength THEN r[Taken] ELSE Marshall(tx, sent[Taken + 1]) \o r[Taken + 1]

\* The receiver stands between two frames or between a length and its message, and
\* the stream is a beginning of what lies ahead of it.
Framed ==
  /\ Taken \in 0 .. Len(sent)
  /\ need # NoLength => Taken < Len(sent) /\ need = Len(Marshall(tx, sent[Taken + 1]))
  /\ \E r : /\ Frames(r) /\ Starts(stream, Ahead(r))
            /\ ~cut => Len(stream) = Len(Ahead(r))

\* What has become of the messages that were read, when the ends match.
Handled ==
  Match(tx, rx) =>
    refused = 0 /\ \A i \in 1 .. Len(inbox) : inbox[i] = Decoded(sent[i])

\* What the receiver may make of some cells.
Readings == UNION {UnMarshall(rx, c) : c \in Seq(Cell)}

Inv ==
  /\ TypeOK
  /\ sent \in Seq(Inputs(tx)) /\ stream \in Seq(Cell) /\ inbox \in Seq(Readings)
  /\ ~torn => Framed /\ Handled

\* It never changes its endpoint.
LEMMA SameReadings == ASSUME rx' = rx PROVE Readings' = Readings
BY DEF Readings

LEMMA Together ==
  ASSUME NEW S, NEW s \in Seq(S), NEW t \in Seq(S), NEW u \in Seq(S)
  PROVE  (s \o t) \o u = s \o (t \o u)
BY ConcatAssociative

LEMMA InputFits == \A e \in Endpoints : \A m \in Inputs(e) : Fits(e, m)
BY InputsAssumption

LEMMA InvInit == Init => Inv
<1> SUFFICES ASSUME Init PROVE Inv
  OBVIOUS
<1>1. /\ sent = <<>> /\ Len(sent) = 0 /\ stream = <<>> /\ Len(stream) = 0
      /\ inbox = <<>> /\ Len(inbox) = 0 /\ refused = 0 /\ need = NoLength
      /\ tx \in Endpoints /\ rx \in Endpoints
  BY DEF Init
<1>2. TypeOK
  <2>1. need \in 0 .. Word * Word - 1 \cup {NoLength} /\ DOMAIN stream = {}
    BY <1>1
  <2>2. Len(sent) <= MaxSent /\ refused \in Nat
    BY <1>1, MaxSentAssumption
  <2>3. cut \in BOOLEAN /\ torn \in BOOLEAN
    BY DEF Init
  <2> QED  BY <1>1, <2>1, <2>2, <2>3 DEF TypeOK
<1>3. sent \in Seq(Inputs(tx)) /\ stream \in Seq(Cell) /\ inbox \in Seq(Readings)
  BY <1>1
<1>4. Framed
  <2> DEFINE r == [i \in 0 .. 0 |-> <<>>]
  <2>1. Taken = 0
    BY <1>1 DEF Taken
  <2>2. Frames(r)
    BY <1>1 DEF Frames
  <2>3. Ahead(r) = <<>>
    BY <1>1, <2>1 DEF Ahead
  <2>4. Starts(stream, Ahead(r)) /\ Len(stream) = Len(Ahead(r))
    BY <1>1, <2>3 DEF Starts
  <2> QED  BY <1>1, <2>1, <2>2, <2>4 DEF Framed
<1>5. Handled
  BY <1>1 DEF Handled
<1> QED  BY <1>2, <1>3, <1>4, <1>5 DEF Inv

\* A frame more at the end of the stream.
LEMMA InvWrite ==
  ASSUME Inv, NEW m \in Inputs(tx), Write(m)
  PROVE  Inv'
<1> DEFINE c == Marshall(tx, m)
           f == Frame(c)
           n == Len(sent)
<1>1. /\ tx \in Endpoints /\ sent \in Seq(Inputs(tx)) /\ stream \in Seq(Cell)
      /\ n \in Nat /\ n < MaxSent /\ n <= MaxSent /\ ~cut
  BY DEF Inv, TypeOK, Write
<1>2. /\ c \in Seq(Cell) /\ f \in Seq(Cell)
  <2>1. Fits(tx, m)
    BY <1>1, InputFits
  <2> QED  BY <1>1, <2>1, Framing
<1> HIDE DEF f
<1>3. /\ sent' = Append(sent, m) /\ stream' = stream \o f
      /\ tx' = tx /\ rx' = rx /\ cut' = cut /\ need' = need /\ inbox' = inbox
      /\ refused' = refused /\ torn' = torn
  BY DEF Write, f
<1>4. /\ sent' \in Seq(Inputs(tx)) /\ Len(sent') = n + 1 /\ sent'[n + 1] = m
      /\ \A i \in 1 .. n : sent'[i] = sent[i]
  BY <1>1, <1>3
<1> HIDE DEF n
<1>5. stream \o f \in Seq(Cell) /\ Len(stream \o f) = Len(stream) + Len(f)
  BY <1>1, <1>2, Glued
<1>6. TypeOK'
  <2>1. \A i \in DOMAIN stream' : stream'[i][2] \in Byte
    BY <1>3, <1>5 DEF Cell
  <2>2. Len(sent') <= MaxSent
    BY <1>1, <1>4, MaxSentAssumption
  <2> QED  BY <1>3, <2>1, <2>2 DEF Inv, TypeOK
<1>7. ASSUME ~torn' PROVE Framed'
  <2>1. /\ Framed /\ Taken \in 0 .. n /\ Taken' = Taken /\ Len(inbox) \in Int
    BY <1>3, <1>7 DEF Inv, Framed, Taken, n
  <2>2. PICK r : /\ Frames(r) /\ Starts(stream, Ahead(r)) /\ Len(stream) = Len(Ahead(r))
    BY <1>1, <2>1 DEF Framed
  <2> DEFINE q == [i \in 0 .. n + 1 |-> IF i = n + 1 THEN <<>> ELSE r[i] \o f]
  <2>3. /\ r \in [0 .. n -> Seq(Cell)] /\ r[n] = <<>>
        /\ \A i \in 1 .. n : r[i - 1] = Frame(Marshall(tx, sent[i])) \o r[i]
    BY <2>2 DEF Frames, n
  <2>4. ASSUME NEW i \in 0 .. n PROVE q[i] = r[i] \o f /\ q[i] \in Seq(Cell)
    <3>1. q[i] = r[i] \o f
      BY <1>1
    <3>2. r[i] \in Seq(Cell)
      BY <2>3
    <3>3. r[i] \o f \in Seq(Cell)
      BY <1>2, <3>2, Glued
    <3> QED  BY <3>1, <3>3
  <2>5. q \in [0 .. n + 1 -> Seq(Cell)] /\ q[n + 1] = <<>>
    <3>1. q[n + 1] = <<>> /\ <<>> \in Seq(Cell)
      BY <1>1
    <3>2. ASSUME NEW i \in 0 .. n + 1 PROVE q[i] \in Seq(Cell)
      <4>1. i \in 0 .. n \/ i = n + 1
        BY <1>1
      <4> HIDE DEF q
      <4> QED  BY <2>4, <3>1, <4>1
    <3>3. q = [i \in 0 .. n + 1 |-> q[i]]
      OBVIOUS
    <3> HIDE DEF q
    <3> QED  BY <3>1, <3>2, <3>3
  <2> HIDE DEF q
  <2>6. ASSUME NEW i \in 1 .. n + 1 PROVE q[i - 1] = Frame(Marshall(tx, sent'[i])) \o q[i]
    <3>1. CASE i = n + 1
      <4>1. q[n] = f
        <5>1. q[n] = <<>> \o f
          <6>1. n \in 0 .. n
            BY <1>1
          <6> QED  BY <2>3, <2>4, <6>1
        <5> QED  BY <1>2, <5>1
      <4>2. f \o <<>> = f
        BY <1>2
      <4>3. q[i - 1] = f /\ q[i] = <<>> /\ sent'[i] = m
        BY <1>1, <1>4, <2>5, <3>1, <4>1
      <4>4. Frame(Marshall(tx, sent'[i])) = f
        BY <4>3 DEF f
      <4> QED  BY <4>2, <4>3, <4>4
    <3>2. CASE i # n + 1
      <4> DEFINE g == Frame(Marshall(tx, sent[i]))
      <4>1. i \in 1 .. n /\ i - 1 \in 0 .. n /\ i \in 0 .. n
        BY <1>1, <3>2
      <4>2. g \in Seq(Cell)
        <5>1. Fits(tx, sent[i])
          BY <1>1, <4>1, InputFits DEF n
        <5> QED  BY <1>1, <5>1, Framing
      <4>3. q[i - 1] = r[i - 1] \o f /\ q[i] = r[i] \o f /\ r[i] \in Seq(Cell)
        BY <2>3, <2>4, <4>1
      <4>4. r[i - 1] = g \o r[i] /\ sent'[i] = sent[i]
        BY <1>4, <2>3, <4>1
      <4> HIDE DEF g, q
      <4>5. (g \o r[i]) \o f = g \o (r[i] \o f)
        <5> DEFINE x == r[i]
        <5>1. g \in Seq(Cell) /\ x \in Seq(Cell) /\ f \in Seq(Cell)
          BY <1>2, <4>2, <4>3
        <5> HIDE DEF x
        <5>2. (g \o x) \o f = g \o (x \o f)
          BY <5>1, Together
        <5> QED  BY <5>2 DEF x
      <4> QED  BY <4>3, <4>4, <4>5 DEF g
    <3> QED  BY <3>1, <3>2
  <2>12. PICK p : /\ p = q
                  /\ p \in [0 .. n + 1 -> Seq(Cell)] /\ p[n + 1] = <<>>
                  /\ \A i \in 1 .. n + 1 : p[i - 1] = Frame(Marshall(tx, sent'[i])) \o p[i]
    BY <2>5, <2>6
  <2>13. \A i \in 0 .. n : p[i] = r[i] \o f /\ p[i] \in Seq(Cell)
    BY <2>4, <2>12
  <2>7. Frames(p)'
    BY <1>3, <1>4, <2>12 DEF Frames
  <2>8. Ahead(r) \in Seq(Cell) /\ Ahead(p)' = Ahead(r) \o f
    <3>1. CASE need = NoLength
      <4>1. Ahead(r) = r[Taken] /\ Ahead(p)' = p[Taken]
        BY <1>3, <2>1, <3>1 DEF Ahead
      <4> QED  BY <2>1, <2>3, <2>13, <4>1
    <3>2. CASE need # NoLength
      <4> DEFINE j == Taken + 1
                 g == Marshall(tx, sent[j])
      <4>1. j \in 1 .. n /\ j \in 0 .. n
        BY <1>1, <2>1, <3>2 DEF Framed, n
      <4>2. Ahead(r) = g \o r[j] /\ Ahead(p)' = g \o p[j]
        BY <1>3, <1>4, <2>1, <3>2, <4>1 DEF Ahead
      <4>3. g \in Seq(Cell)
        <5>1. Fits(tx, sent[j])
          BY <1>1, <4>1, InputFits DEF n
        <5> QED  BY <1>1, <5>1, Marshalled
      <4>4. p[j] = r[j] \o f /\ r[j] \in Seq(Cell)
        BY <2>3, <2>13, <4>1
      <4> HIDE DEF g, j
      <4>5. (g \o r[j]) \o f = g \o (r[j] \o f) /\ g \o r[j] \in Seq(Cell)
        <5> DEFINE x == r[j]
        <5>1. g \in Seq(Cell) /\ x \in Seq(Cell) /\ f \in Seq(Cell)
          BY <1>2, <4>3, <4>4
        <5> HIDE DEF x
        <5>2. (g \o x) \o f = g \o (x \o f)
          BY <5>1, Together
        <5>3. g \o x \in Seq(Cell)
          BY <5>1, Glued
        <5> QED  BY <5>2, <5>3 DEF x
      <4> QED  BY <4>2, <4>4, <4>5
    <3> QED  BY <3>1, <3>2
  <2>9. Starts(stream', Ahead(p)') /\ Len(stream') = Len(Ahead(p)')
    <3> DEFINE a == Ahead(r)
    <3> HIDE DEF a
    <3>1. a \in Seq(Cell) /\ Starts(stream, a) /\ Len(stream) = Len(a)
      BY <2>2, <2>8 DEF a
    <3>2. stream = a
      BY <1>1, <3>1, SeqEqual DEF Starts
    <3>3. stream' = Ahead(p)'
      BY <1>3, <2>8, <3>2 DEF a
    <3>4. Len(stream') \in Nat
      BY <1>3, <1>5
    <3> QED  BY <3>3, <3>4 DEF Starts
  <2>10. (need # NoLength => Taken < Len(sent) /\ need = Len(Marshall(tx, sent[Taken + 1])))'
    <3> SUFFICES ASSUME need # NoLength
                 PROVE  Taken < n + 1 /\ need = Len(Marshall(tx, sent'[Taken + 1]))
      BY <1>3, <1>4, <2>1
    <3>1. Taken < n /\ need = Len(Marshall(tx, sent[Taken + 1]))
      BY <2>1 DEF Framed, n
    <3>2. Taken + 1 \in 1 .. n
      BY <1>1, <2>1, <3>1
    <3> QED  BY <1>1, <1>4, <2>1, <3>1, <3>2
  <2>11. Taken' \in 0 .. Len(sent')
    BY <1>1, <1>4, <2>1
  <2> QED  BY <2>7, <2>9, <2>10, <2>11 DEF Framed
<1>8. ASSUME ~torn' PROVE Handled'
  <2>1. Handled /\ Framed
    BY <1>3, <1>8 DEF Inv
  <2>2. CASE Match(tx, rx)
    <3>1. Len(inbox) <= n /\ Len(inbox) \in Nat
      BY <1>1, <2>1, <2>2 DEF Framed, Handled, Taken, n
    <3>2. \A i \in 1 .. Len(inbox) : sent'[i] = sent[i]
      BY <1>1, <1>4, <3>1
    <3> QED  BY <1>3, <2>1, <2>2, <3>2 DEF Handled
  <2>3. CASE ~Match(tx, rx)
    BY <1>3, <2>1, <2>3 DEF Handled
  <2> QED  BY <2>2, <2>3
<1> QED  BY <1>3, <1>4, <1>5, <1>6, <1>7, <1>8, SameReadings DEF Inv

\* The end of the stream is lost.
LEMMA InvCut ==
  ASSUME Inv, NEW n \in 0 .. Len(stream), Cut(n)
  PROVE  Inv'
<1>1. /\ stream' = SubSeq(stream, 1, n) /\ cut' = TRUE
      /\ sent' = sent /\ tx' = tx /\ rx' = rx /\ need' = need /\ inbox' = inbox
      /\ refused' = refused /\ torn' = torn /\ stream \in Seq(Cell)
  BY DEF Cut, Inv
<1>2. /\ stream' \in Seq(Cell) /\ Len(stream') = n
      /\ \A i \in 1 .. n : stream'[i] = stream[i]
  BY <1>1
<1>3. TypeOK'
  <2>1. \A i \in DOMAIN stream' : stream'[i][2] \in Byte
    BY <1>2 DEF Cell
  <2> QED  BY <1>1, <2>1 DEF Inv, TypeOK
<1>4. ASSUME ~torn' PROVE Framed'
  <2>1. Framed /\ Taken' = Taken
    BY <1>1, <1>4 DEF Inv, Taken
  <2>2. PICK r : Frames(r) /\ Starts(stream, Ahead(r))
    BY <2>1 DEF Framed
  <2>3. Frames(r)' /\ Ahead(r)' = Ahead(r)
    BY <1>1, <2>1, <2>2 DEF Frames, Ahead
  <2>4. Starts(stream', Ahead(r))
    <3> DEFINE a == Ahead(r)
    <3>1. Len(stream) <= Len(a) /\ \A i \in 1 .. Len(stream) : stream[i] = a[i]
      BY <2>2 DEF Starts
    <3> HIDE DEF a
    <3>2. n <= Len(a) /\ \A i \in 1 .. n : stream[i] = a[i]
      BY <1>1, <3>1
    <3> QED  BY <1>2, <3>2 DEF Starts, a
  <2>5. Taken' \in 0 .. Len(sent') /\
        (need # NoLength => Taken < Len(sent) /\ need = Len(Marshall(tx, sent[Taken + 1])))'
    BY <1>1, <2>1 DEF Framed
  <2> QED  BY <1>1, <2>3, <2>4, <2>5 DEF Framed
<1>5. ASSUME ~torn' PROVE Handled'
  BY <1>1, <1>5 DEF Inv, Handled
<1> QED  BY <1>1, <1>2, <1>3, <1>4, <1>5, SameReadings DEF Inv

\* What a Read returns of a length is four bytes, and the length is the next message's
\* when it was not torn.
LEMMA InvReadLength ==
  ASSUME Inv, NEW n \in 1 .. 4, ReadLength(n)
  PROVE  Inv'
<1> DEFINE s == SubSeq(stream, 1, n)
           z == [i \in 1 .. 4 - n |-> 0]
           b == Untag(s) \o z
<1>1. /\ n <= Len(stream) /\ need = NoLength /\ need' = Num32(b) /\ stream' = Rest(stream, n)
      /\ torn' = (torn \/ n < 4)
      /\ sent' = sent /\ tx' = tx /\ rx' = rx /\ cut' = cut /\ inbox' = inbox
      /\ refused' = refused
  BY DEF ReadLength
<1>2. stream \in Seq(Cell) /\ Len(stream) \in Nat /\ sent \in Seq(Inputs(tx)) /\ tx \in Endpoints
  BY DEF Inv, TypeOK
<1>3. stream' \in Seq(Cell)
  BY <1>1, <1>2 DEF Rest
<1>4. need' \in 0 .. Word * Word - 1
  <2>1. s \in Seq(Cell) /\ Len(s) = n
    BY <1>1, <1>2
  <2> HIDE DEF s
  <2>2. \A i \in 1 .. n : s[i][2] \in Byte
    BY <2>1 DEF Cell
  <2>3. Untag(s) = [i \in 1 .. n |-> s[i][2]]
    BY <2>1 DEF Untag
  <2>4. Untag(s) \in Seq(Byte) /\ Len(Untag(s)) = n
    BY <2>2, <2>3
  <2>5. z \in Seq(Byte) /\ Len(z) = 4 - n
    BY BaseAssumption DEF Byte
  <2> HIDE DEF z
  <2>6. b \in Seq(Byte) /\ Len(b) = Len(Untag(s)) + Len(z)
    BY <2>4, <2>5, Glued
  <2> HIDE DEF b
  <2>7. Len(b) = 4
    BY <2>4, <2>5, <2>6
  <2>8. \A i \in 1 .. 4 : b[i] \in Byte
    <3>1. \A i \in 1 .. Len(b) : b[i] \in Byte
      BY <2>6
    <3> QED  BY <2>7, <3>1
  <2> QED  BY <1>1, <2>8, Num32In
<1>5. TypeOK'
  <2>1. \A i \in DOMAIN stream' : stream'[i][2] \in Byte
    BY <1>3 DEF Cell
  <2>2. torn' \in BOOLEAN
    BY <1>1 DEF Inv, TypeOK
  <2> QED  BY <1>1, <1>4, <2>1, <2>2 DEF Inv, TypeOK
<1>6. ASSUME ~torn' PROVE Framed'
  <2>1. n = 4 /\ ~torn
    <3>1. ~torn /\ ~(n < 4)
      BY <1>1, <1>6, Zenon
    <3> QED  BY <3>1
  <2>2. Framed /\ Taken' = Taken
    BY <1>1, <2>1 DEF Inv, Taken
  <2>3. PICK r : /\ Frames(r) /\ Starts(stream, r[Taken])
                 /\ ~cut => Len(stream) = Len(r[Taken])
    BY <1>1, <2>2 DEF Framed, Ahead
  <2> DEFINE k == Taken + 1
             c == Marshall(tx, sent[k])
             h == Tag(Clear, U32(Len(c)))
             q == r[k]
  <2>4. Taken \in Nat /\ Taken < Len(sent) /\ k \in 1 .. Len(sent) /\ k - 1 = Taken
    <3>1. Taken \in 0 .. Len(sent) /\ Len(sent) \in Nat
      BY <1>2, <2>2 DEF Framed
    <3>2. Taken # Len(sent)
      <4> SUFFICES ASSUME Taken = Len(sent) PROVE FALSE
        OBVIOUS
      <4>1. r[Taken] = <<>>
        BY <2>3 DEF Frames
      <4> QED  BY <1>1, <1>2, <2>1, <2>3, <4>1 DEF Starts
    <3> QED  BY <3>1, <3>2
  <2>5. Fits(tx, sent[k])
    BY <1>2, <2>4, InputFits
  <2>6. /\ Frame(c) = h \o c /\ h \in Seq(Cell) /\ Len(h) = 4 /\ c \in Seq(Cell)
        /\ Num32(Untag(h) \o [i \in 1 .. 4 - 4 |-> 0]) = Len(c)
    BY <1>2, <2>5, Framing
  <2>7. r[Taken] = (h \o c) \o q /\ q \in Seq(Cell)
    <3> HIDE DEF k
    <3>2. /\ r \in [0 .. Len(sent) -> Seq(Cell)]
          /\ \A i \in 1 .. Len(sent) : r[i - 1] = Frame(Marshall(tx, sent[i])) \o r[i]
      BY <2>3 DEF Frames
    <3>3. r[k - 1] = Frame(c) \o q
      BY <2>4, <3>2
    <3>4. k \in 0 .. Len(sent)
      BY <1>2, <2>4
    <3>1. r[k - 1] = Frame(c) \o q /\ q \in Seq(Cell)
      BY <3>2, <3>3, <3>4
    <3> HIDE DEF h, c, q
    <3> QED  BY <2>4, <2>6, <3>1
  <2> HIDE DEF h, c, q
  <2>8. (h \o c) \o q = h \o (c \o q)
    BY <2>6, <2>7, Together
  <2>9. c \o q \in Seq(Cell)
    BY <2>6, <2>7, Glued
  <2> DEFINE w == c \o q
  <2>10. Starts(stream, h \o w) /\ w \in Seq(Cell)
    BY <2>3, <2>7, <2>8, <2>9
  <2> HIDE DEF w
  <2>11. /\ SubSeq(stream, 1, Len(h)) = h
         /\ Len(Rest(stream, Len(h))) = Len(stream) - Len(h)
         /\ Starts(Rest(stream, Len(h)), w) /\ Len(h \o w) = Len(h) + Len(w)
    <3>1. Len(h) <= Len(stream)
      BY <1>1, <2>1, <2>6
    <3>2. stream \in Seq(Cell) /\ h \in Seq(Cell) /\ w \in Seq(Cell) /\ Starts(stream, h \o w)
      BY <1>2, <2>6, <2>10
    <3> QED  BY <3>1, <3>2, Split
  <2>12. s = h /\ need' = Len(c)
    <3>1. s = h
      BY <2>1, <2>6, <2>11
    <3> HIDE DEF s
    <3>2. b = Untag(h) \o [i \in 1 .. 4 - 4 |-> 0]
      BY <2>1, <3>1
    <3> QED  BY <1>1, <2>6, <3>1, <3>2
  <2>13. Starts(stream', w) /\ (~cut => Len(stream') = Len(w))
    <3>1. Len(w) \in Nat /\ r[Taken] = h \o w
      BY <2>7, <2>8, <2>10 DEF w
    <3>2. ~cut => Len(stream) = Len(h) + Len(w)
      BY <2>3, <2>11, <3>1
    <3> QED  BY <1>1, <1>2, <2>1, <2>6, <2>11, <3>1, <3>2
  <2>14. need' # NoLength
    <3>1. Len(c) \in Nat
      BY <2>6
    <3> QED  BY <2>12, <3>1 DEF NoLength
  <2>15. Ahead(r)' = w
    BY <1>1, <2>2, <2>14 DEF Ahead, w, c, q, k
  <2>16. Frames(r)'
    BY <1>1, <2>3 DEF Frames
  <2>17. Framed' <=> /\ Taken \in 0 .. Len(sent)
                     /\ need' # NoLength => Taken < Len(sent) /\ need' = Len(c)
                     /\ \E q1 : /\ Frames(q1)' /\ Starts(stream', Ahead(q1)')
                                /\ ~cut => Len(stream') = Len(Ahead(q1)')
    BY <1>1, <2>2 DEF Framed, c, k
  <2> QED  BY <2>4, <2>2, <2>12, <2>13, <2>15, <2>16, <2>17 DEF Framed
<1>7. ASSUME ~torn' PROVE Handled'
  BY <1>1, <1>7 DEF Inv, Handled
<1> QED  BY <1>1, <1>2, <1>3, <1>5, <1>6, <1>7, SameReadings DEF Inv

\* The message is taken off the stream and handed on, or left out.
LEMMA InvReadMessage ==
  ASSUME Inv, ReadMessage
  PROVE  Inv'
<1> DEFINE s == SubSeq(stream, 1, need)
<1>0. PICK d \in UnMarshall(rx, s) :
        \/ d = Error /\ refused' = refused + 1 /\ inbox' = inbox
        \/ d # Error /\ inbox' = Append(inbox, d) /\ refused' = refused
  BY DEF ReadMessage
<1>1. /\ need # NoLength /\ need <= Len(stream) /\ need' = NoLength
      /\ stream' = Rest(stream, need)
      /\ sent' = sent /\ tx' = tx /\ rx' = rx /\ cut' = cut /\ torn' = torn
  BY DEF ReadMessage
<1>2. /\ stream \in Seq(Cell) /\ inbox \in Seq(Readings) /\ Len(stream) \in Nat /\ sent \in Seq(Inputs(tx))
      /\ tx \in Endpoints /\ rx \in Endpoints /\ refused \in Nat
  BY DEF Inv, TypeOK
<1>3. need \in Nat
  <2>1. Word * Word - 1 \in Int
    BY WordIs
  <2> QED  BY <1>1, <2>1 DEF Inv, TypeOK
<1>4. stream' \in Seq(Cell)
  BY <1>1, <1>2, <1>3 DEF Rest
<1>7. s \in Seq(Cell)
  BY <1>1, <1>2, <1>3
<1> HIDE DEF s
<1>8. d \in Readings
  BY <1>0, <1>7 DEF Readings
<1>9. /\ inbox' \in Seq(Readings) /\ Len(inbox) \in Nat
      /\ d = Error => inbox' = inbox /\ refused' = refused + 1
      /\ d # Error =>
           /\ refused' = refused /\ Len(inbox') = Len(inbox) + 1
           /\ inbox'[Len(inbox) + 1] = d
           /\ \A i \in 1 .. Len(inbox) : inbox'[i] = inbox[i]
  <2>1. CASE d = Error
    BY <1>0, <1>2, <2>1
  <2>2. CASE d # Error
    <3>1. inbox' = Append(inbox, d) /\ refused' = refused
      BY <1>0, <2>2
    <3> QED  BY <1>2, <1>8, <2>2, <3>1
  <2> QED  BY <2>1, <2>2
<1>10. inbox' \in Seq(Readings)'
  BY <1>1, <1>9, SameReadings
<1>11. Taken' = Taken + 1
  <2>1. Len(inbox) \in Nat /\ refused \in Nat
    BY <1>2, <1>9
  <2>2. \/ inbox' = inbox /\ refused' = refused + 1
        \/ Len(inbox') = Len(inbox) + 1 /\ refused' = refused
    BY <1>9
  <2> QED  BY <2>1, <2>2 DEF Taken
<1>5. TypeOK'
  <2>1. \A i \in DOMAIN stream' : stream'[i][2] \in Byte
    BY <1>4 DEF Cell
  <2>2. refused' \in Nat
    BY <1>2, <1>9
  <2> QED  BY <1>1, <2>1, <2>2 DEF Inv, TypeOK
<1>6. ASSUME ~torn PROVE Framed' /\ Handled'
  <2>1. Framed /\ Handled
    BY <1>6 DEF Inv
  <2> DEFINE k == Taken + 1
             m == sent[k]
             c == Marshall(tx, m)
  <2>2. /\ Taken \in Nat /\ Taken < Len(sent) /\ need = Len(c)
        /\ Len(sent) \in Nat /\ k \in 1 .. Len(sent) /\ k \in 0 .. Len(sent)
    BY <1>1, <1>2, <2>1 DEF Framed
  <2>3. m \in Inputs(tx) /\ Fits(tx, m)
    BY <1>2, <2>2, InputFits
  <2>4. c \in Seq(Cell) /\ (Match(tx, rx) => UnMarshall(rx, c) = {Decoded(m)})
    BY <1>2, <2>3, Marshalled, UnMarshalled
  <2>5. PICK r : /\ Frames(r) /\ Starts(stream, c \o r[k])
                 /\ ~cut => Len(stream) = Len(c \o r[k])
    BY <1>1, <2>1 DEF Framed, Ahead
  <2> DEFINE w == r[k]
  <2>6. w \in Seq(Cell)
    BY <2>2, <2>5 DEF Frames
  <2> HIDE DEF c, w, m
  <2>7. Starts(stream, c \o w) /\ (~cut => Len(stream) = Len(c \o w))
    BY <2>5 DEF w
  <2>8. /\ SubSeq(stream, 1, Len(c)) = c
        /\ Len(Rest(stream, Len(c))) = Len(stream) - Len(c)
        /\ Starts(Rest(stream, Len(c)), w) /\ Len(c \o w) = Len(c) + Len(w)
    <3>1. Len(c) <= Len(stream)
      BY <1>1, <2>2
    <3> QED  BY <1>2, <2>4, <2>6, <2>7, <3>1, Split
  <2>9. s = c
    BY <2>2, <2>8 DEF s
  <2> HIDE DEF k
  <2>10. Starts(stream', w) /\ (~cut => Len(stream') = Len(w))
    <3>1. Len(w) \in Nat /\ Len(c) \in Nat
      BY <2>4, <2>6
    <3> QED  BY <1>1, <1>2, <2>2, <2>7, <2>8, <3>1
  <2>11. ASSUME Match(tx, rx) PROVE d = Decoded(m) /\ d # Error
    BY <1>0, <2>4, <2>9, <2>11, DecodedNotError
  <2>12. Taken' = k
    BY <1>11 DEF k
  <2>17. Handled'
    <3> SUFFICES ASSUME Match(tx, rx)
                 PROVE  refused' = 0 /\ \A i \in 1 .. Len(inbox') : inbox'[i] = Decoded(sent[i])
      BY <1>1 DEF Handled
    <3>1. refused = 0 /\ \A i \in 1 .. Len(inbox) : inbox[i] = Decoded(sent[i])
      BY <2>1 DEF Handled
    <3>2. k = Len(inbox) + 1
      BY <1>9, <3>1 DEF Taken, k
    <3>3. /\ refused' = 0 /\ Len(inbox') = Len(inbox) + 1 /\ inbox'[Len(inbox) + 1] = Decoded(m)
          /\ \A i \in 1 .. Len(inbox) : inbox'[i] = inbox[i]
      BY <1>9, <2>11, <3>1
    <3>4. ASSUME NEW i \in 1 .. Len(inbox') PROVE inbox'[i] = Decoded(sent[i])
      <4>1. CASE i = Len(inbox) + 1
        BY <3>2, <3>3, <4>1 DEF m
      <4>2. CASE i # Len(inbox) + 1
        <5>1. i \in 1 .. Len(inbox)
          BY <1>9, <3>3, <4>2
        <5> QED  BY <3>1, <3>3, <5>1
      <4> QED  BY <4>1, <4>2
    <3> QED  BY <3>3, <3>4
  <2>13. Ahead(r)' = w
    BY <1>1, <2>12 DEF Ahead, w
  <2>14. Frames(r)'
    BY <1>1, <2>5 DEF Frames
  <2>15. Taken' \in 0 .. Len(sent')
    BY <1>1, <2>2, <2>12
  <2>16. Framed'
    BY <1>1, <2>10, <2>13, <2>14, <2>15 DEF Framed
  <2> QED  BY <2>16, <2>17
<1> QED  BY <1>1, <1>2, <1>4, <1>5, <1>6, <1>10 DEF Inv

-----------------------------------------------------------------------------
\* The theorems.

LEMMA InvStep == Inv /\ [Next]_vars => Inv'
<1> SUFFICES ASSUME Inv, [Next]_vars PROVE Inv'
  OBVIOUS
<1>1. ASSUME NEW m \in Inputs(tx), Write(m) PROVE Inv'
  BY <1>1, InvWrite
<1>2. ASSUME NEW n \in 0 .. Len(stream), Cut(n) PROVE Inv'
  BY <1>2, InvCut
<1>3. ASSUME NEW n \in 1 .. 4, ReadLength(n) PROVE Inv'
  BY <1>3, InvReadLength
<1>4. CASE ReadMessage
  BY <1>4, InvReadMessage
<1>5. CASE UNCHANGED vars
  BY <1>5 DEF vars, Inv, TypeOK, Framed, Handled, Frames, Ahead, Taken, Readings
<1> QED  BY <1>1, <1>2, <1>3, <1>4, <1>5 DEF Next

\* The codec, the stream and the receive loop keep the invariant, whatever the sizes of
\* a byte and of a block, the endpoints and their messages (ipp/v1/message.go,
\* ipp/v2/message.go, ipp/v2/aes.go, net/ipconn.go and the receive loops).
THEOREM InvHolds == Spec => []Inv
<1>1. Init => Inv
  BY InvInit
<1>2. Inv /\ [Next]_vars => Inv'
  BY InvStep
<1> QED  BY <1>1, <1>2, PTL DEF Spec

\* The state of one direction of a connection is always of its type: a length fits the
\* four bytes, and what travels are bytes.
THEOREM TypeCorrect == Spec => []TypeOK
<1>1. Inv => TypeOK
  BY DEF Inv
<1> QED  BY <1>1, InvHolds, PTL

\* When all of a stream that was not cut is read, every message has been taken.
LEMMA AllTaken ==
  ASSUME Inv, ~torn, ~cut, stream = <<>>, need = NoLength
  PROVE  Taken = Len(sent)
<1>1. Framed /\ sent \in Seq(Inputs(tx)) /\ tx \in Endpoints /\ Taken \in 0 .. Len(sent)
  BY DEF Inv, TypeOK, Framed
<1>2. PICK r : Frames(r) /\ Len(stream) = Len(r[Taken])
  BY <1>1 DEF Framed, Ahead
<1> SUFFICES ASSUME Taken < Len(sent) PROVE FALSE
  BY <1>1
<1> DEFINE k == Taken + 1
           c == Marshall(tx, sent[k])
           f == Frame(c)
           h == Tag(Clear, U32(Len(c)))
           q == r[k]
<1>3. k \in 1 .. Len(sent) /\ k - 1 = Taken /\ k \in 0 .. Len(sent)
  BY <1>1
<1> HIDE DEF k
<1>4. r[k - 1] = f \o q /\ q \in Seq(Cell)
  BY <1>2, <1>3 DEF Frames
<1>5. Fits(tx, sent[k])
  BY <1>1, <1>3, InputFits
<1>6. f \in Seq(Cell) /\ f = h \o c /\ h \in Seq(Cell) /\ c \in Seq(Cell) /\ Len(h) = 4
  BY <1>1, <1>5, Framing
<1> HIDE DEF f, q, h, c
<1>7. Len(f \o q) = Len(f) + Len(q)
  BY <1>4, <1>6, Glued
<1>8. Len(f) = 4 + Len(c)
  <2>1. Len(h \o c) = Len(h) + Len(c)
    BY <1>6, Glued
  <2> QED  BY <1>6, <2>1
<1>9. Len(stream) = 0 /\ Len(c) \in Nat /\ Len(q) \in Nat
  BY <1>4, <1>6
<1>10. Len(r[k - 1]) > 0
  BY <1>4, <1>7, <1>8, <1>9
<1>11. Len(r[Taken]) > 0
  BY <1>3, <1>10
<1>12. Len(r[Taken]) = 0
  BY <1>2, <1>9
<1> QED  BY <1>11, <1>12

\* What the handlers get is a prefix of what was sent, field by field, as long as no
\* length was torn (receiveClientMsg and receiveProxyMsg).
THEOREM MessagesInStep == Spec => []InStep
<1>1. Inv => InStep
  <2> SUFFICES ASSUME Inv, Alike, ~torn
               PROVE  /\ refused = 0 /\ Len(inbox) <= Len(sent)
                      /\ \A i \in DOMAIN inbox : Same(sent[i], inbox[i])
                      /\ ~cut /\ stream = <<>> /\ need = NoLength => Len(inbox) = Len(sent)
    BY DEF InStep
  <2>1. Framed /\ Handled /\ Match(tx, rx) /\ sent \in Seq(Inputs(tx)) /\ inbox \in Seq(Readings)
    BY DEF Inv, Alike, Match
  <2>2. /\ refused = 0 /\ Len(inbox) \in Nat /\ DOMAIN inbox = 1 .. Len(inbox)
        /\ \A i \in 1 .. Len(inbox) : inbox[i] = Decoded(sent[i])
    BY <2>1 DEF Handled
  <2>3. Taken = Len(inbox) /\ Taken <= Len(sent) /\ Len(sent) \in Nat
    BY <2>1, <2>2 DEF Framed, Taken
  <2>4. \A m : Same(m, Decoded(m))
    BY DEF Same, Decoded
  <2> QED  BY <2>2, <2>3, <2>4, AllTaken
<1> QED  BY <1>1, InvHolds, PTL

\* Whatever versions and secrets the ends have and whatever noise they make of each
\* other's messages, the receiver stays on the boundaries of the frames as long as no
\* length was torn (receiveClientMsg and receiveProxyMsg).
THEOREM BoundariesKept == Spec => []FramesKept
<1>1. Inv => FramesKept
  <2> SUFFICES ASSUME Inv, ~torn
               PROVE  /\ Taken <= Len(sent)
                      /\ need # NoLength =>
                           Taken < Len(sent) /\ need = Len(Marshall(tx, sent[Taken + 1]))
                      /\ ~cut /\ stream = <<>> /\ need = NoLength => Taken = Len(sent)
    BY DEF FramesKept, Taken
  <2>1. Framed /\ sent \in Seq(Inputs(tx))
    BY DEF Inv
  <2> QED  BY <2>1, AllTaken DEF Framed
<1> QED  BY <1>1, InvHolds, PTL

\* The client takes a proxy hello for the answer that sayHello gave (proxyHelloHandler).
THEOREM VerdictsSurvive == Spec => []VerdictSurvives
<1>1. Inv => VerdictSurvives
  <2> SUFFICES ASSUME Inv, Alike, ~torn, NEW i \in DOMAIN inbox,
                      inbox[i].type = MSG_TYPE_PROXY_HELLO
               PROVE  /\ Accepts(rx, inbox[i]) <=> sent[i].errorCode = 0
                      /\ ParseInt(inbox[i].attr[ATTR_TYPE_CLI_ID])
                           = ParseInt(Value(sent[i], ATTR_TYPE_CLI_ID))
    BY DEF VerdictSurvives
  <2> DEFINE m == sent[i]
             d == inbox[i]
  <2>1. /\ Framed /\ Handled /\ Match(tx, rx) /\ tx \in Endpoints
        /\ sent \in Seq(Inputs(tx)) /\ inbox \in Seq(Readings)
    BY DEF Inv, TypeOK, Alike, Match
  <2>2. d = Decoded(m) /\ m \in Inputs(tx)
    <3>1. /\ refused = 0 /\ Len(inbox) \in Nat /\ i \in 1 .. Len(inbox)
          /\ inbox[i] = Decoded(sent[i])
      BY <2>1 DEF Handled
    <3>2. i \in 1 .. Len(sent)
      BY <2>1, <3>1 DEF Framed, Taken
    <3> QED  BY <2>1, <3>1, <3>2
  <2> HIDE DEF m, d
  <2>3. m.type = MSG_TYPE_PROXY_HELLO
    BY <2>2 DEF Decoded, d
  <2>4. Answers(m) /\ Fits(tx, m)
    BY <2>1, <2>2, <2>3, InputsAssumption
  <2>5. d.attr[ATTR_TYPE_CLI_ID] = Value(m, ATTR_TYPE_CLI_ID)
        /\ d.attr[ATTR_TYPE_PORT] = Value(m, ATTR_TYPE_PORT)
    <3> DEFINE types == {m.attrs[j].type : j \in DOMAIN m.attrs}
    <3>1. types = {ATTR_TYPE_PORT, ATTR_TYPE_CLI_ID}
      BY <2>4 DEF Answers
    <3>2. d.attr = [t \in types |-> Value(m, t)]
      BY <2>2 DEF Decoded
    <3> HIDE DEF types
    <3> QED  BY <3>1, <3>2
  <2>6. d.version = rx.version
    BY <2>1, <2>2, <2>4 DEF Decoded, Fits, Match
  <2>7. d.errorCode \in {0, m.errorCode}
    BY <2>2 DEF Decoded
  <2>8. m.errorCode \in {0, ERROR_CODE_BROWSER_PORT_OCUP} /\ Value(m, ATTR_TYPE_CLI_ID) # <<>>
        /\ Value(m, ATTR_TYPE_PORT) = IF m.errorCode = 0 THEN Port ELSE <<>>
    BY <2>4 DEF Answers
  <2>9. Accepts(rx, d) <=> m.errorCode = 0
    BY <2>5, <2>6, <2>7, <2>8, PortAssumption
       DEF Accepts, ERROR_CODE_BROWSER_PORT_OCUP, ERROR_CODE_VERSION_NOT_MATCH
  <2> QED  BY <2>5, <2>9 DEF m, d
<1> QED  BY <1>1, InvHolds, PTL
=============================================================================

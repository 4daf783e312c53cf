--------------------------- MODULE BlockApiProofs ---------------------------
(***************************************************************************)
(* Proofs about BlockApi.  Each call is one step, so the invariant says    *)
(* little more than where its values come from; the work is in the lemmas  *)
(* about what the calls compute: the inputs of the tag and of the          *)
(* synthetic nonce determine their parts, UTF-8 is uniquely decodable, and *)
(* decoding a body yields the text or an error under every key.            *)
(***************************************************************************)
EXTENDS BlockApi, WellFoundedInduction, TLAPS

-----------------------------------------------------------------------------
(* Natural numbers *)

\* A set of naturals has a least element.
LEMMA NatLeast ==
    ASSUME NEW T \in SUBSET Nat, T # {}
    PROVE  \E x \in T : \A y \in T : x <= y
<1> DEFINE R == OpToRel(<, Nat)
<1>1. IsWellFoundedOn(R, Nat)
  BY NatLessThanWellFounded, Zenon
<1>2. \A y, x \in Nat : y < x => <<y, x>> \in R
  BY DEF OpToRel
<1> HIDE DEF R
<1>3. PICK x \in T : \A y \in T : ~ (<<y, x>> \in R)
  BY <1>1, WFMin
<1>4. ASSUME NEW y \in T PROVE x <= y
  <2>1. x \in Nat /\ y \in Nat
    OBVIOUS
  <2>2. ~ (y < x)
    BY <1>2, <1>3, <2>1
  <2> QED  BY <2>1, <2>2
<1> QED  BY <1>4

-----------------------------------------------------------------------------
(* Sequences *)

Joins(x, p, r) == x = p \o r

Joined(T, x, p, r) ==
    /\ x \in Seq(T) /\ Len(x) = Len(p) + Len(r)
    /\ \A i \in 1..Len(p) : x[i] = p[i]
    /\ \A i \in 1..Len(r) : x[Len(p) + i] = r[i]

LEMMA JoinTyped ==
    ASSUME NEW T, NEW p \in Seq(T), NEW r \in Seq(T), NEW x, Joins(x, p, r)
    PROVE  Joined(T, x, p, r)
  BY DEF Joins, Joined

LEMMA SameSeq ==
    ASSUME NEW T, NEW p \in Seq(T), NEW q \in Seq(T), Len(p) = Len(q), \A i \in 1..Len(p) : p[i] = q[i]
    PROVE  p = q
  OBVIOUS

\* A sequence is split in only one way into parts of given lengths.
LEMMA Split ==
    ASSUME NEW T, NEW p \in Seq(T), NEW q \in Seq(T), NEW r \in Seq(T), NEW s \in Seq(T),
           Len(p) = Len(q), NEW x, Joins(x, p, r), Joins(x, q, s)
    PROVE  p = q /\ r = s
<1>1. Joined(T, x, p, r) /\ Joined(T, x, q, s)
  BY JoinTyped
<1>2. /\ Len(x) = Len(p) + Len(r) /\ Len(x) = Len(q) + Len(s)
      /\ \A i \in 1..Len(p) : x[i] = p[i] /\ x[i] = q[i]
  BY <1>1 DEF Joined
<1>3. Len(p) \in Nat /\ Len(r) \in Nat /\ Len(s) \in Nat
  OBVIOUS
<1>4. Len(r) = Len(s)
  BY <1>2, <1>3
<1>5. p = q
  <2>1. \A i \in 1..Len(p) : p[i] = q[i]
    BY <1>2, Zenon
  <2> QED  BY <2>1, SameSeq
<1>6. r = s
  <2>1. \A i \in 1..Len(r) : r[i] = s[i]
    BY <1>1, <1>4, Zenon DEF Joined
  <2> QED  BY <1>4, <2>1, SameSeq
<1> QED  BY <1>5, <1>6

\* An input whose second part announces the length of the third determines its parts.
LEMMA Framed ==
    ASSUME NEW T, NEW p \in Seq(T), NEW p2 \in Seq(T), Len(p) = Len(p2), NEW z \in T, NEW z2 \in T,
           NEW a \in Seq(T), NEW a2 \in Seq(T), NEW b \in Seq(T), NEW b2 \in Seq(T),
           z = z2 => Len(a) = Len(a2),
           NEW x, Joins(x, p \o <<z>> \o a, b), Joins(x, p2 \o <<z2>> \o a2, b2)
    PROVE  p = p2 /\ z = z2 /\ a = a2 /\ b = b2
<1> DEFINE v == <<z>>
           v2 == <<z2>>
           h == p \o v
           h2 == p2 \o v2
           g == h \o a
           g2 == h2 \o a2
<1>1. v \in Seq(T) /\ v2 \in Seq(T) /\ Len(v) = 1 /\ Len(v2) = 1 /\ v[1] = z /\ v2[1] = z2
  OBVIOUS
<1> HIDE DEF v, v2
<1>2. Joins(h, p, v) /\ Joins(h2, p2, v2)
  BY DEF Joins
<1> HIDE DEF h, h2
<1>3. Joined(T, h, p, v) /\ Joined(T, h2, p2, v2)
  BY <1>1, <1>2, JoinTyped
<1>4. /\ h \in Seq(T) /\ Len(h) = Len(p) + 1 /\ h[Len(p) + 1] = z
      /\ h2 \in Seq(T) /\ Len(h2) = Len(p) + 1 /\ h2[Len(p) + 1] = z2
      /\ Len(p) \in Nat /\ Len(a) \in Nat /\ Len(a2) \in Nat
  BY <1>1, <1>3 DEF Joined
<1>5. Joins(g, h, a) /\ Joins(g2, h2, a2)
  BY DEF Joins
<1>6. Joins(x, g, b) /\ Joins(x, g2, b2)
  BY DEF g, g2, h, h2, v, v2
<1> HIDE DEF g, g2
<1>7. Joined(T, g, h, a) /\ Joined(T, g2, h2, a2)
  BY <1>4, <1>5, JoinTyped
<1>8. /\ g \in Seq(T) /\ Len(g) = Len(p) + 1 + Len(a) /\ g[Len(p) + 1] = z
      /\ g2 \in Seq(T) /\ Len(g2) = Len(p) + 1 + Len(a2) /\ g2[Len(p) + 1] = z2
  BY <1>4, <1>7 DEF Joined
<1>9. z = z2
  <2>1. Joined(T, x, g, b) /\ Joined(T, x, g2, b2)
    BY <1>6, <1>8, JoinTyped
  <2>2. Len(p) + 1 \in 1..Len(g) /\ Len(p) + 1 \in 1..Len(g2)
    BY <1>4, <1>8
  <2>3. x[Len(p) + 1] = g[Len(p) + 1] /\ x[Len(p) + 1] = g2[Len(p) + 1]
    BY <2>1, <2>2 DEF Joined
  <2> QED  BY <1>8, <2>3
<1>10. Len(g) = Len(g2)
  BY <1>8, <1>9
<1>11. g = g2 /\ b = b2
  BY <1>6, <1>8, <1>10, Split
<1>12. h = h2 /\ a = a2
  <2>1. Joins(g, h2, a2) /\ Len(h) = Len(h2)
    BY <1>4, <1>5, <1>11
  <2> QED  BY <1>4, <1>5, <2>1, Split
<1>13. p = p2
  <2>1. Joins(h, p2, v2)
    BY <1>2, <1>12
  <2> QED  BY <1>1, <1>2, <2>1, Split
<1> QED  BY <1>9, <1>11, <1>12, <1>13
-----------------------------------------------------------------------------
(* The inputs of the tag and of the nonce *)

\* The tag binds nonce, AAD and body, each where it was.
LEMMA TagBinds ==
    ASSUME NEW S, NEW kb, NEW kb2, NEW nonce, NEW nonce2, NEW w, NEW w2,
           NEW aad \in Seq(S), NEW aad2 \in Seq(S), NEW body \in Seq(S), NEW body2 \in Seq(S),
           compute_auth_tag(kb, aad, nonce, body, w) = compute_auth_tag(kb2, aad2, nonce2, body2, w2)
    PROVE  aad = aad2 /\ nonce = nonce2 /\ body = body2
<1> DEFINE d == <<"domain", 3>>
           z == <<"length", w, Len(aad)>>
           z2 == <<"length", w2, Len(aad2)>>
           p == <<d, nonce>>
           p2 == <<d, nonce2>>
           T == S \cup {d, nonce, nonce2, z, z2}
           x == p \o <<z>> \o aad \o body
           x2 == p2 \o <<z2>> \o aad2 \o body2
<1>1. x = x2
  <2>1. <<kb, x>> = <<kb2, x2>>
    BY Zenon DEF compute_auth_tag, hmac_digest, be_len_prefix
  <2> HIDE DEF x, x2
  <2> QED  BY <2>1
<1>2. z = z2 => Len(aad) = Len(aad2)
  OBVIOUS
<1>3. p[2] = nonce /\ p2[2] = nonce2
  OBVIOUS
<1>4. Joins(x, p \o <<z>> \o aad, body) /\ Joins(x, p2 \o <<z2>> \o aad2, body2)
  BY <1>1, Zenon DEF Joins
<1> HIDE DEF x, x2, z, z2, d
<1>5. d \in T /\ nonce \in T /\ nonce2 \in T /\ z \in T /\ z2 \in T /\ S \subseteq T
  OBVIOUS
<1> HIDE DEF T
<1>6. p \in Seq(T) /\ p2 \in Seq(T) /\ Len(p) = Len(p2)
  BY <1>5
<1>7. aad \in Seq(T) /\ aad2 \in Seq(T) /\ body \in Seq(T) /\ body2 \in Seq(T)
  BY <1>5
<1> HIDE DEF p, p2
<1>8. p = p2 /\ aad = aad2 /\ body = body2
  BY <1>2, <1>4, <1>5, <1>6, <1>7, Framed
<1> QED  BY <1>3, <1>8

LEMMA TagIsSomething ==
    ASSUME NEW kb, NEW aad, NEW nonce, NEW body, NEW w
    PROVE  compute_auth_tag(kb, aad, nonce, body, w) # <<>>
  BY DEF compute_auth_tag, hmac_digest

\* The synthetic nonce binds key, AAD and the message's bytes.
LEMMA NonceBinds ==
    ASSUME NEW S, NEW kb, NEW kb2, NEW text, NEW text2, NEW aad \in Seq(S), NEW aad2 \in Seq(S),
           as_bytes(text) \in Seq(S), as_bytes(text2) \in Seq(S),
           synthetic_nonce(kb, aad, text) = synthetic_nonce(kb2, aad2, text2)
    PROVE  kb = kb2 /\ aad = aad2 /\ as_bytes(text) = as_bytes(text2)
<1> DEFINE d == <<"domain", 10>>
           z == <<"length", 8, Len(aad)>>
           z2 == <<"length", 8, Len(aad2)>>
           p == <<d>>
           b == as_bytes(text)
           b2 == as_bytes(text2)
           T == S \cup {d, z, z2}
           x == p \o <<z>> \o aad \o b
           x2 == p \o <<z2>> \o aad2 \o b2
<1>1. kb = kb2 /\ x = x2
  <2>1. <<"synthetic", <<kb, x>>>> = <<"synthetic", <<kb2, x2>>>>
    BY Zenon DEF synthetic_nonce, hmac_digest, be_len_prefix
  <2> HIDE DEF x, x2
  <2> QED  BY <2>1
<1>2. z = z2 => Len(aad) = Len(aad2)
  OBVIOUS
<1>3. Joins(x, p \o <<z>> \o aad, b) /\ Joins(x, p \o <<z2>> \o aad2, b2)
  BY <1>1, Zenon DEF Joins
<1> HIDE DEF x, x2, z, z2, d
<1>4. d \in T /\ z \in T /\ z2 \in T /\ S \subseteq T
  OBVIOUS
<1> HIDE DEF T
<1>5. p \in Seq(T)
  BY <1>4
<1>6. aad \in Seq(T) /\ aad2 \in Seq(T) /\ b \in Seq(T) /\ b2 \in Seq(T)
  BY <1>4
<1> HIDE DEF p, b, b2
<1>7. aad = aad2 /\ b = b2
  BY <1>2, <1>3, <1>4, <1>5, <1>6, Framed
<1> QED  BY <1>1, <1>7 DEF b, b2
-----------------------------------------------------------------------------
(* Decoding *)

\* A tuple that passes either policy.
Usable(key) == key \in Seq(Nat) /\ key # <<>> /\ \A i \in 1..Len(key) : key[i] >= 2

LEMMA PoliciesAreUsable ==
    ASSUME NEW key \in Seq(Nat)
    PROVE  /\ validate_key(key) => Usable(key) /\ validate_key_v7_decrypt(key)
           /\ validate_key_v7_decrypt(key) => Usable(key)
<1>1. validate_key(key) => validate_key_v7_decrypt(key)
  BY KeyBounds DEF validate_key, validate_key_v7_decrypt
<1>2. validate_key_v7_decrypt(key) => Usable(key)
  BY KeyBounds DEF validate_key_v7_decrypt, Usable
<1> QED  BY <1>1, <1>2

Bad(body, key, kb, nonce) ==
    {i \in DOMAIN body : body[i] # Cell(kb, nonce, i, Element(key, i), body[i][Len(body[i])])}

\* Under a tuple that passes a policy the token arithmetic never divides by zero.
LEMMA DecodeNeverPanics ==
    ASSUME NEW S, NEW body \in Seq(S), NEW key, Usable(key), NEW kb, NEW nonce
    PROVE  Decode(body, key, kb, nonce).status # "panic"
<1> DEFINE bad == Bad(body, key, kb, nonce)
           first == CHOOSE i \in bad : \A j \in bad : i <= j
<1>1. bad \in SUBSET Nat /\ \A i \in bad : i >= 1
  BY DEF Bad
<1>2. bad # {} => Element(key, first) \in Nat /\ Element(key, first) >= 2
  <2> HAVE bad # {}
  <2> HIDE DEF bad
  <2>1. \E i \in bad : \A j \in bad : i <= j
    BY <1>1, NatLeast
  <2>2. first \in bad
    BY <2>1
  <2>3. first \in Nat /\ first >= 1
    BY <1>1, <2>2
  <2> HIDE DEF first
  <2>4. Len(key) \in Nat \ {0}
    BY DEF Usable
  <2>5. ((first - 1) % Len(key)) + 1 \in 1..Len(key)
    BY <2>3, <2>4
  <2> QED  BY <2>5 DEF Element, Usable
<1>3. key # <<>>
  BY DEF Usable
<1>4. bad # {} => ~(Element(key, first) < 2)
  BY <1>2
<1> QED  BY <1>3, <1>4 DEF Decode, Bad, Err, Panic, Result
Padded(text, block) ==
    <<Len(text) \div 256, Len(text) % 256>> \o text \o [i \in 1 .. (block - Len(text)) |-> 32]

\* A length, the text and more, all of them scalar values.
Holds(p, text) ==
    /\ p \in Seq(Nat) /\ Len(p) >= 2 + Len(text) /\ Scalars(p)
    /\ p[1] <= 255 /\ p[2] <= 255 /\ p[1] * 256 + p[2] = Len(text)
    /\ \A i \in 1..Len(text) : p[2 + i] = text[i]

LEMMA LengthBytes ==
    ASSUME NEW n \in Nat, n <= 65535
    PROVE  n \div 256 \in Nat /\ n \div 256 <= 255 /\ n % 256 \in Nat /\ n % 256 <= 255 /\ (n \div 256) * 256 + (n % 256) = n
<1>1. n = 256 * (n \div 256) + (n % 256) /\ n \div 256 \in Nat /\ n % 256 \in 0..255
  OBVIOUS
<1> QED  BY <1>1

LEMMA BytesAreScalars ==
    ASSUME NEW c \in Nat, c <= 255
    PROVE  Scalar(c)
  BY DEF Scalar

LEMMA PaddedHolds ==
    ASSUME NEW text \in Seq(Nat), Len(text) <= 65535, Scalars(text), NEW block \in Nat, Len(text) <= block
    PROVE  Holds(Padded(text, block), text)
<1> DEFINE n == Len(text)
           l == <<n \div 256, n % 256>>
           q == [i \in 1 .. (block - n) |-> 32]
           p == l \o text
           r == p \o q
<1>1. /\ n \in Nat /\ n \div 256 \in Nat /\ n \div 256 <= 255 /\ n % 256 \in Nat /\ n % 256 <= 255
      /\ (n \div 256) * 256 + (n % 256) = n
  <2>1. n \in Nat /\ n <= 65535
    OBVIOUS
  <2> HIDE DEF n
  <2> QED  BY <2>1, LengthBytes
<1>2. \A c \in Nat : c <= 255 => Scalar(c)
  BY BytesAreScalars
<1>3. \A i \in 1..n : Scalar(text[i])
  BY DEF Scalars
<1>4. l \in Seq(Nat) /\ Len(l) = 2 /\ l[1] = n \div 256 /\ l[2] = n % 256
  BY <1>1
<1>5. q \in Seq(Nat) /\ Len(q) \in Nat /\ \A i \in 1..Len(q) : q[i] = 32
  <2>1. block - n \in Nat
    BY <1>1
  <2> HIDE DEF n
  <2> QED  BY <2>1
<1>6. Joins(p, l, text) /\ Joins(r, p, q)
  BY DEF Joins
<1>7. Padded(text, block) = r
  BY DEF Padded
<1> HIDE DEF l, q, p, r, n
<1>8. Joined(Nat, p, l, text)
  BY <1>4, <1>6, JoinTyped
<1>9. p \in Seq(Nat)
  BY <1>8 DEF Joined
<1>10. Joined(Nat, r, p, q)
  BY <1>5, <1>6, <1>9, JoinTyped
<1>11. /\ Len(p) = 2 + n /\ p[1] = n \div 256 /\ p[2] = n % 256 /\ \A i \in 1..n : p[2 + i] = text[i]
  BY <1>1, <1>4, <1>8 DEF Joined, n
<1>12. /\ r \in Seq(Nat) /\ Len(r) = 2 + n + Len(q)
       /\ \A i \in 1..(2 + n) : r[i] = p[i]
       /\ \A i \in 1..Len(q) : r[2 + n + i] = q[i]
  <2>1. /\ r \in Seq(Nat) /\ Len(r) = Len(p) + Len(q)
        /\ \A i \in 1..Len(p) : r[i] = p[i]
        /\ \A i \in 1..Len(q) : r[Len(p) + i] = q[i]
    BY <1>10 DEF Joined
  <2> QED  BY <1>11, <2>1
<1>13. r[1] = n \div 256 /\ r[2] = n % 256 /\ \A i \in 1..n : r[2 + i] = text[i]
  BY <1>1, <1>11, <1>12
<1>14. ASSUME NEW i \in 1..Len(r) PROVE Scalar(r[i])
  <2>1. CASE i = 1 \/ i = 2
    <3>1. r[i] \in Nat /\ r[i] <= 255
      BY <1>1, <1>13, <2>1
    <3> QED  BY <1>2, <3>1
  <2>2. CASE i > 2 /\ i <= 2 + n
    <3>1. i - 2 \in 1..n /\ 2 + (i - 2) = i
      BY <1>1, <1>12, <2>2
    <3> QED  BY <1>3, <1>13, <3>1
  <2>3. CASE i > 2 + n
    <3> DEFINE j == i - (2 + n)
    <3>1. j \in 1..Len(q) /\ 2 + n + j = i
      BY <1>1, <1>5, <1>12, <2>3
    <3> HIDE DEF j
    <3>2. r[2 + n + j] = q[j] /\ q[j] = 32
      BY <1>5, <1>12, <3>1
    <3>3. r[i] = 32 /\ 32 \in Nat /\ 32 <= 255
      BY <3>1, <3>2
    <3> QED  BY <1>2, <3>3
  <2> QED  BY <1>1, <2>1, <2>2, <2>3
<1>15. Scalars(r)
  BY <1>12, <1>14 DEF Scalars
<1>16. Len(r) >= 2 + n
  BY <1>1, <1>5, <1>12
<1> QED  BY <1>1, <1>7, <1>12, <1>13, <1>15, <1>16 DEF Holds, n

IsBody(b, p, key, kb, n) == b = [i \in 1..Len(p) |-> Cell(kb, n, i, Element(key, i), p[i])]

LEMMA BodyIs ==
    ASSUME NEW text \in Seq(Nat), Len(text) <= 65535, Scalars(text), NEW block \in Nat, Len(text) <= block,
           NEW key, NEW kb, NEW nonce
    PROVE  IsBody(Body(text, key, kb, nonce, block), Padded(text, block), key, kb, nonce)
<1> DEFINE p == Padded(text, block)
<1>1. p \in Seq(Nat)
  BY PaddedHolds DEF Holds
<1>2. DOMAIN p = 1..Len(p)
  BY <1>1
<1>3. Body(text, key, kb, nonce, block) = [i \in DOMAIN p |-> Cell(kb, nonce, i, Element(key, i), p[i])]
  BY DEF Body, Padded
<1> QED  BY <1>2, <1>3 DEF IsBody
LEMMA FunctionIsSeq ==
    ASSUME NEW S, NEW n \in Nat, NEW f \in [1..n -> S]
    PROVE  f \in Seq(S) /\ Len(f) = n
  OBVIOUS

Stripped(t, s, n) == t \in Seq(Nat) /\ Len(t) = n /\ \A i \in 1..n : t[i] = s[2 + i]

LEMMA StripIs ==
    ASSUME NEW s \in Seq(Nat), NEW n \in Nat, 2 + n <= Len(s)
    PROVE  Stripped(SubSeq(s, 3, 2 + n), s, n)
<1> DEFINE t == SubSeq(s, 3, 2 + n)
<1>1. Len(s) \in Nat /\ (2 + n) - 3 + 1 = n
  OBVIOUS
<1>2. t \in Seq(Nat) /\ Len(t) = n
  BY <1>1
<1>3. ASSUME NEW i \in 1..n PROVE t[i] = s[2 + i]
  <2>1. t[i] = s[3 + i - 1]
    BY <1>1, SMTT(60)
  <2>2. 3 + i - 1 = 2 + i
    OBVIOUS
  <2> QED  BY <2>1, <2>2
<1> QED  BY <1>2, <1>3 DEF Stripped

LEMMA LengthFits ==
    ASSUME NEW a \in Nat, NEW b \in Nat, NEW n \in Nat, NEW m \in Nat,
           a * 256 + b = n, ~(2 + a * 256 + b > m)
    PROVE  2 + a * 256 + b = 2 + n /\ 2 + n <= m
<1>1. a * 256 \in Nat
  OBVIOUS
<1>2. 2 + a * 256 + b = 2 + n
  BY <1>1
<1> QED  BY <1>2

\* Cells that agree with those of a body as far as they go.
Follows(body, p) ==
    /\ Len(body) <= Len(p)
    /\ \A i \in 1..Len(body) : body[i][6] = p[i]

\* Whatever the key, the cells of a text's body decode to the text or to an error; all
\* of them, when none is malformed, to the text.
LEMMA DecodesTo ==
    ASSUME NEW S, NEW body \in Seq(S), NEW text \in Seq(Nat), NEW p, Holds(p, text), Follows(body, p),
           NEW key, NEW kb, NEW nonce
    PROVE  LET d == Decode(body, key, kb, nonce)
           IN  /\ d.status = "ok" => d = Result("ok", "none", text)
               /\ key # <<>> /\ Bad(body, key, kb, nonce) = {} /\ Len(body) = Len(p)
                     => d = Result("ok", "none", text)
<1> DEFINE bad == Bad(body, key, kb, nonce)
           first == CHOOSE i \in bad : \A j \in bad : i <= j
           cps == [i \in DOMAIN body |-> body[i][6]]
           Unfit == \/ ~Scalars(cps) \/ Len(cps) < 2 \/ cps[1] > 255 \/ cps[2] > 255
                    \/ 2 + cps[1] * 256 + cps[2] > Len(cps)
           got == SubSeq(cps, 3, 2 + cps[1] * 256 + cps[2])
           d == Decode(body, key, kb, nonce)
<1>1. d = IF key = <<>> THEN Panic("tokens")
          ELSE IF bad # {} THEN IF Element(key, first) < 2 THEN Panic("tokens") ELSE Err("tokens")
          ELSE IF Unfit THEN Err("tokens")
          ELSE Result("ok", "none", got)
  BY DEF Decode, Bad
<1>2. /\ p \in Seq(Nat) /\ Len(p) >= 2 + Len(text) /\ Scalars(p)
      /\ p[1] <= 255 /\ p[2] <= 255 /\ p[1] * 256 + p[2] = Len(text)
      /\ \A i \in 1..Len(text) : p[2 + i] = text[i]
      /\ Len(body) <= Len(p) /\ \A i \in 1..Len(body) : body[i][6] = p[i]
      /\ Len(text) \in Nat /\ Len(body) \in Nat /\ Len(p) \in Nat
  BY DEF Holds, Follows
<1>3. cps \in Seq(Nat) /\ Len(cps) = Len(body) /\ \A i \in 1..Len(body) : cps[i] = p[i]
  <2>1. DOMAIN body = 1..Len(body)
    OBVIOUS
  <2>2. \A i \in 1..Len(body) : p[i] \in Nat
    BY <1>2
  <2>3. cps = [i \in 1..Len(body) |-> body[i][6]]
    BY <2>1
  <2>4. cps \in [1..Len(body) -> Nat] /\ \A i \in 1..Len(body) : cps[i] = p[i]
    BY <1>2, <2>2, <2>3
  <2> HIDE DEF cps
  <2> QED  BY <1>2, <2>4, FunctionIsSeq
<1> HIDE DEF cps
<1>4. ~Unfit => got = text
  <2> HAVE ~Unfit
  <2>0. Len(cps) \in Nat /\ ~(Len(cps) < 2) /\ ~(2 + cps[1] * 256 + cps[2] > Len(cps))
    BY <1>3
  <2> HIDE DEF Unfit
  <2>1. Len(cps) >= 2 /\ cps[1] = p[1] /\ cps[2] = p[2] /\ cps[1] \in Nat /\ cps[2] \in Nat
    BY <1>3, <2>0
  <2>2. 2 + cps[1] * 256 + cps[2] = 2 + Len(text) /\ 2 + Len(text) <= Len(cps)
    <3>1. cps[1] * 256 + cps[2] = Len(text)
      BY <1>2, <2>1, Zenon
    <3>2. Len(text) \in Nat
      BY <1>2
    <3> DEFINE a == cps[1]
               b == cps[2]
               m == Len(cps)
               n == Len(text)
    <3>3. /\ a \in Nat /\ b \in Nat /\ n \in Nat /\ m \in Nat /\ a * 256 + b = n
          /\ ~(2 + a * 256 + b > m)
      BY <2>0, <2>1, <3>1, <3>2
    <3> HIDE DEF a, b, m, n
    <3>4. 2 + a * 256 + b = 2 + n /\ 2 + n <= m
      BY <3>3, LengthFits
    <3> QED  BY <3>4 DEF a, b, m, n
  <2>3. got = SubSeq(cps, 3, 2 + Len(text))
    BY <2>2
  <2>4. \A i \in 1..Len(text) : cps[2 + i] = text[i]
    <3> TAKE i \in 1..Len(text)
    <3>1. 2 + i \in 1..Len(body) /\ i \in 1..Len(text)
      BY <1>2, <1>3, <2>2
    <3>2. cps[2 + i] = p[2 + i]
      BY <1>3, <3>1
    <3> QED  BY <1>2, <3>1, <3>2
  <2> HIDE DEF got
  <2>5. Stripped(got, cps, Len(text))
    BY <1>2, <1>3, <2>2, <2>3, StripIs
  <2>6. got \in Seq(Nat) /\ Len(got) = Len(text) /\ \A i \in 1..Len(got) : got[i] = text[i]
    BY <2>4, <2>5 DEF Stripped
  <2> QED  BY <2>6, SameSeq
<1>5. Len(body) = Len(p) => ~Unfit
  <2> HAVE Len(body) = Len(p)
  <2>1. Len(cps) >= 2 /\ cps[1] = p[1] /\ cps[2] = p[2] /\ 2 + Len(text) <= Len(cps)
    BY <1>2, <1>3
  <2> DEFINE a == p[1]
             c == p[2]
             n == Len(text)
             k == Len(cps)
  <2>a. /\ a \in Nat /\ c \in Nat /\ n \in Nat /\ k \in Nat
        /\ a <= 255 /\ c <= 255 /\ a * 256 + c = n /\ k >= 2 /\ 2 + n <= k
    <3>1. Len(p) = k /\ Len(p) >= 2
      BY <1>2, <1>3, <2>1
    <3>2. p[1] \in Nat /\ p[2] \in Nat
      BY <1>2, <3>1
    <3> QED  BY <1>2, <2>1, <3>1, <3>2
  <2> HIDE DEF a, c, n, k
  <2>b. ~(2 + a * 256 + c > k) /\ ~(k < 2) /\ ~(a > 255) /\ ~(c > 255)
    BY <2>a
  <2>2. ~(2 + cps[1] * 256 + cps[2] > Len(cps)) /\ ~(Len(cps) < 2)
    BY <2>1, <2>b, Zenon DEF a, c, k
  <2>3. ~(cps[1] > 255) /\ ~(cps[2] > 255)
    BY <2>1, <2>b DEF a, c
  <2>4. cps = p
    BY <1>2, <1>3, SameSeq
  <2> QED  BY <1>2, <2>2, <2>3, <2>4
<1> HIDE DEF Unfit, got, bad, first, d
<1>6. /\ Panic("tokens").status # "ok" /\ Err("tokens").status # "ok"
  BY DEF Panic, Err, Result
<1> QED  BY <1>1, <1>4, <1>5, <1>6, Zenon DEF d, bad
-----------------------------------------------------------------------------
(* What reaches the opener *)

Shown(f, n, b, t, c) == [form |-> f, nonce |-> n, body |-> b, tag |-> t, cut |-> c]

WithCut(ct, x) == [ct EXCEPT !.cut = x]
WithTag(ct, x) == [ct EXCEPT !.tag = x]
WithNonce(ct, x) == [ct EXCEPT !.nonce = x]
WithBody(ct, x) == [ct EXCEPT !.body = x]
WithForm(ct, x) == [ct EXCEPT !.form = x]

LEMMA AlteredCut ==
    ASSUME NEW f, NEW n, NEW b, NEW t, NEW c, NEW ct, ct = Shown(f, n, b, t, c), NEW x
    PROVE  WithCut(ct, x) = Shown(f, n, b, t, x)
  BY DEF Shown, WithCut

LEMMA AlteredTag ==
    ASSUME NEW f, NEW n, NEW b, NEW t, NEW c, NEW ct, ct = Shown(f, n, b, t, c), NEW x
    PROVE  WithTag(ct, x) = Shown(f, n, b, x, c)
  BY DEF Shown, WithTag

LEMMA AlteredNonce ==
    ASSUME NEW f, NEW n, NEW b, NEW t, NEW c, NEW ct, ct = Shown(f, n, b, t, c), NEW x
    PROVE  WithNonce(ct, x) = Shown(f, x, b, t, c)
  BY DEF Shown, WithNonce

LEMMA AlteredBody ==
    ASSUME NEW f, NEW n, NEW b, NEW t, NEW c, NEW ct, ct = Shown(f, n, b, t, c), NEW x
    PROVE  WithBody(ct, x) = Shown(f, n, x, t, c)
  BY DEF Shown, WithBody

LEMMA AlteredForm ==
    ASSUME NEW f, NEW n, NEW b, NEW t, NEW c, NEW ct, ct = Shown(f, n, b, t, c), NEW x
    PROVE  WithForm(ct, x) = Shown(x, n, b, t, c)
  BY DEF Shown, WithForm

\* An arrival keeps the form of what was sealed, and has its tag or an empty one.
NearWith(arrival, aad, S, f, b, t, n2, b2, t2, c) ==
    /\ arrival.ct = Shown(f, n2, b2, t2, c)
    /\ arrival.aad \in Seq(S) /\ b2 \in Seq(S) /\ t2 \in {t, <<>>} /\ c \in {"no", "short", "ragged"}
    /\ aad = <<>> => b2 \in {b, Front(b), Tail(b)}

Near(arrival, aad, S, f, b, t) == \E n2, b2, t2, c : NearWith(arrival, aad, S, f, b, t, n2, b2, t2, c)

LEMMA ArrivalIs ==
    ASSUME NEW s, NEW f, NEW n, NEW t, NEW S, NEW b \in Seq(S), s.ct = Ciphertext(f, n, b, t), b # <<>>,
           s.aad \in Seq(S), Aads \subseteq Seq(S), NEW arrival \in Arrivals(s)
    PROVE  Near(arrival, s.aad, S, f, b, t)
<1> DEFINE ct == s.ct
           aad == s.aad
           Is(n2, b2, t2, c, a) == arrival = Arrival(Shown(f, n2, b2, t2, c), a)
<1>1. ct = Shown(f, n, b, t, "no")
  BY DEF Ciphertext, Shown
<1>2. /\ [ct EXCEPT !.cut = "short"] = Shown(f, n, b, t, "short")
      /\ [ct EXCEPT !.cut = "ragged"] = Shown(f, n, b, t, "ragged")
      /\ [ct EXCEPT !.tag = <<>>] = Shown(f, n, b, <<>>, "no")
      /\ [ct EXCEPT !.nonce = <<"random", 9>>] = Shown(f, <<"random", 9>>, b, t, "no")
      /\ [ct EXCEPT !.body = Front(ct.body)] = Shown(f, n, Front(b), t, "no")
      /\ [ct EXCEPT !.body = Tail(ct.body)] = Shown(f, n, Tail(b), t, "no")
      /\ [ct EXCEPT !.body = <<Last(aad)>> \o ct.body] = Shown(f, n, <<Last(aad)>> \o b, t, "no")
      /\ ct.body = b
  <2>1. ct.body = b
    BY <1>1 DEF Shown
  <2> HIDE DEF ct, aad
  <2>2. WithCut(ct, "short") = Shown(f, n, b, t, "short")
    BY <1>1, AlteredCut
  <2>3. WithCut(ct, "ragged") = Shown(f, n, b, t, "ragged")
    BY <1>1, AlteredCut
  <2>4. WithTag(ct, <<>>) = Shown(f, n, b, <<>>, "no")
    BY <1>1, AlteredTag
  <2>5. WithNonce(ct, <<"random", 9>>) = Shown(f, <<"random", 9>>, b, t, "no")
    BY <1>1, AlteredNonce
  <2>6. WithBody(ct, Front(b)) = Shown(f, n, Front(b), t, "no")
    BY <1>1, AlteredBody
  <2>7. WithBody(ct, Tail(b)) = Shown(f, n, Tail(b), t, "no")
    BY <1>1, AlteredBody
  <2>8. WithBody(ct, <<Last(aad)>> \o b) = Shown(f, n, <<Last(aad)>> \o b, t, "no")
    BY <1>1, AlteredBody
  <2> QED  BY <2>1, <2>2, <2>3, <2>4, <2>5, <2>6, <2>7, <2>8, Zenon DEF WithCut, WithTag, WithNonce, WithBody
<1>3. \/ \E a \in Aads : Is(n, b, t, "no", a)
      \/ Is(n, b, t, "short", aad)
      \/ Is(n, b, t, "ragged", aad)
      \/ Is(n, b, <<>>, "no", aad)
      \/ Is(<<"random", 9>>, b, t, "no", aad)
      \/ Is(n, Front(b), t, "no", aad)
      \/ Is(n, Tail(b), t, "no", Append(aad, Head(b)))
      \/ aad # <<>> /\ Is(n, <<Last(aad)>> \o b, t, "no", Front(aad))
  <2>1. Arrivals(s) =
          {Arrival(ct, a) : a \in Aads}
          \cup {Arrival([ct EXCEPT !.cut = "short"], aad), Arrival([ct EXCEPT !.cut = "ragged"], aad),
                Arrival([ct EXCEPT !.tag = <<>>], aad),
                Arrival([ct EXCEPT !.nonce = <<"random", 9>>], aad),
                Arrival([ct EXCEPT !.body = Front(ct.body)], aad),
                Arrival([ct EXCEPT !.body = Tail(ct.body)], Append(aad, Head(ct.body)))}
          \cup IF aad = <<>> THEN {}
               ELSE {Arrival([ct EXCEPT !.body = <<Last(aad)>> \o ct.body], Front(aad))}
    BY Zenon DEF Arrivals
  <2> HIDE DEF ct, aad
  <2> QED  BY <1>1, <1>2, <2>1, Zenon
<1>4. /\ Len(b) \in Nat \ {0} /\ Front(b) \in Seq(S) /\ Tail(b) \in Seq(S) /\ Head(b) \in S
  BY DEF Front
<1>5. Append(aad, Head(b)) \in Seq(S)
  BY <1>4
<1>6. aad # <<>> => <<Last(aad)>> \o b \in Seq(S) /\ Front(aad) \in Seq(S)
  <2> HAVE aad # <<>>
  <2>1. Len(aad) \in Nat \ {0} /\ Front(aad) \in Seq(S) /\ Last(aad) \in S
    BY DEF Front, Last
  <2>2. <<Last(aad)>> \in Seq(S)
    BY <2>1
  <2> QED  BY <2>1, <2>2
<1>7. ASSUME NEW n2, NEW b2 \in Seq(S), NEW t2 \in {t, <<>>}, NEW c \in {"no", "short", "ragged"}, NEW a \in Seq(S),
             aad = <<>> => b2 \in {b, Front(b), Tail(b)}, Is(n2, b2, t2, c, a)
      PROVE  Near(arrival, aad, S, f, b, t)
  <2>1. arrival.ct = Shown(f, n2, b2, t2, c) /\ arrival.aad = a
    BY <1>7 DEF Arrival
  <2>2. NearWith(arrival, aad, S, f, b, t, n2, b2, t2, c)
    BY <1>7, <2>1 DEF NearWith
  <2> QED  BY <2>2, Zenon DEF Near
<1> HIDE DEF Is
<1>8. CASE \E a \in Aads : Is(n, b, t, "no", a)
  <2>1. PICK a \in Aads : Is(n, b, t, "no", a)
    BY <1>8
  <2> QED  BY <1>7, <2>1
<1>9. CASE Is(n, b, t, "short", aad)
  BY <1>7, <1>9
<1>10. CASE Is(n, b, t, "ragged", aad)
  BY <1>7, <1>10
<1>11. CASE Is(n, b, <<>>, "no", aad)
  BY <1>7, <1>11
<1>12. CASE Is(<<"random", 9>>, b, t, "no", aad)
  BY <1>7, <1>12
<1>13. CASE Is(n, Front(b), t, "no", aad)
  BY <1>4, <1>7, <1>13
<1>14. CASE Is(n, Tail(b), t, "no", Append(aad, Head(b)))
  BY <1>4, <1>5, <1>7, <1>14
<1>15. CASE aad # <<>> /\ Is(n, <<Last(aad)>> \o b, t, "no", Front(aad))
  BY <1>6, <1>7, <1>15
<1> QED  BY <1>3, <1>8, <1>9, <1>10, <1>11, <1>12, <1>13, <1>14, <1>15
-----------------------------------------------------------------------------
(* What the calls answer *)

\* An error from before the tag has verified.
Early(r) == \E why \in {"aad", "short", "auth", "count", "base64", "policy"} : r = Err(why)

\* The tag has verified, for exactly what is decoded after it, under a usable tuple.
LateWith(r, key, aad, n, b, t, c, kb, w) ==
    /\ c = "no" /\ t = compute_auth_tag(kb, aad, n, b, w)
    /\ \/ r = Err("key")
       \/ Usable(key) /\ (r = Decode(b, key, kb, n) \/ r = Err("convention"))

Late(r, key, aad, n, b, t, c) == \E kb, w : LateWith(r, key, aad, n, b, t, c, kb, w)

LEMMA OpenV7 ==
    ASSUME NEW f, NEW n, NEW b, NEW t, NEW c \in {"no", "short", "ragged"}, NEW ct, ct = Shown(f, n, b, t, c),
           NEW S, NEW aad \in Seq(S), NEW key \in Seq(Nat)
    PROVE  LET r == open_v7(ct, key, aad)
           IN  /\ Early(r) \/ Late(r, key, aad, n, b, t, c)
               /\ f = "bytes" /\ c = "no" /\ check_v7_aad_len(aad) /\ validate_key_v7_decrypt(key)
                  /\ t = compute_auth_tag(KeyV7(key), aad, n, b, 4) => r = Decode(b, key, KeyV7(key), n)
<1> DEFINE r == open_v7(ct, key, aad)
           kb == KeyV7(key)
<1>1. ct.form = f /\ ct.nonce = n /\ ct.body = b /\ ct.tag = t /\ ct.cut = c
  BY DEF Shown
<1>2. check_v7_aad_len(aad) => ~PrefixPanics(Len(aad), 4)
  <2>1. Len(aad) \in Nat /\ MaxAadV7 \in Nat
    BY BlockApiAssumption
  <2> QED  BY <2>1 DEF check_v7_aad_len, PrefixPanics
<1>3. r = IF ~check_v7_aad_len(aad) THEN Err("aad")
          ELSE IF c = "short" THEN Err("short")
          ELSE IF f # "bytes" \/ c = "ragged" \/ t # compute_auth_tag(kb, aad, n, b, 4) THEN Err("auth")
          ELSE IF ~validate_key_v7_decrypt(key) THEN Err("key")
          ELSE Decode(b, key, kb, n)
  BY <1>1, <1>2, Zenon DEF open_v7, Unread
<1>4. validate_key_v7_decrypt(key) => Usable(key)
  BY PoliciesAreUsable
<1> HIDE DEF r, kb
<1>5. Early(Err("aad")) /\ Early(Err("short")) /\ Early(Err("auth"))
  BY Zenon DEF Early
<1>6. c # "short" /\ c # "ragged" => c = "no"
  OBVIOUS
<1>7. Early(r) \/ LateWith(r, key, aad, n, b, t, c, kb, 4)
  BY <1>3, <1>4, <1>5, <1>6, Zenon DEF LateWith
<1>8. Early(r) \/ Late(r, key, aad, n, b, t, c)
  BY <1>7, Zenon DEF Late
<1>9. f = "bytes" /\ c = "no" /\ check_v7_aad_len(aad) /\ validate_key_v7_decrypt(key)
                  /\ t = compute_auth_tag(kb, aad, n, b, 4) => r = Decode(b, key, kb, n)
  BY <1>3
<1> QED  BY <1>8, <1>9 DEF r, kb

LEMMA OpenV8 ==
    ASSUME NEW f, NEW n, NEW b, NEW t, NEW c \in {"no", "short", "ragged"}, NEW ct, ct = Shown(f, n, b, t, c),
           NEW aad, NEW sk, NEW key \in Seq(Nat), validate_key(key)
    PROVE  LET r == decrypt_bytes_v8_core(ct, key, sk, aad)
           IN  /\ Early(r) \/ Late(r, key, aad, n, b, t, c)
               /\ f = "bytes" /\ c = "no" /\ t = compute_auth_tag(KeyV8(sk), aad, n, b, 8)
                     => r = Decode(b, key, KeyV8(sk), n)
<1> DEFINE r == decrypt_bytes_v8_core(ct, key, sk, aad)
           kb == KeyV8(sk)
<1>1. ct.form = f /\ ct.nonce = n /\ ct.body = b /\ ct.tag = t /\ ct.cut = c
  BY DEF Shown
<1>2. r = IF c = "short" THEN Err("short")
          ELSE IF c = "ragged" THEN Err("count")
          ELSE IF f # "bytes" \/ c = "ragged" \/ t # compute_auth_tag(kb, aad, n, b, 8) THEN Err("auth")
          ELSE Decode(b, key, kb, n)
  BY <1>1, Zenon DEF decrypt_bytes_v8_core, Unread
<1>3. Usable(key)
  BY PoliciesAreUsable
<1> HIDE DEF r, kb
<1>4. Early(Err("short")) /\ Early(Err("count")) /\ Early(Err("auth"))
  BY Zenon DEF Early
<1>5. c # "short" /\ c # "ragged" => c = "no"
  OBVIOUS
<1>6. Early(r) \/ LateWith(r, key, aad, n, b, t, c, kb, 8)
  BY <1>2, <1>3, <1>4, <1>5, Zenon DEF LateWith
<1>7. Early(r) \/ Late(r, key, aad, n, b, t, c)
  BY <1>6, Zenon DEF Late
<1>8. f = "bytes" /\ c = "no" /\ t = compute_auth_tag(kb, aad, n, b, 8) => r = Decode(b, key, kb, n)
  BY <1>2
<1> QED  BY <1>7, <1>8 DEF r, kb

\* Every call with a tag ends before the tag has verified, or after.
LEMMA TaggedCalls ==
    ASSUME NEW f, NEW n, NEW b, NEW t, NEW c \in {"no", "short", "ragged"}, NEW ct, ct = Shown(f, n, b, t, c),
           NEW S, NEW aad \in Seq(S), NEW sk, NEW key \in Seq(Nat), NEW call \in OpenCalls,
           call = "decrypt_v8_key" => validate_key(key)
    PROVE  LET r == Opens(call, ct, key, sk, aad)
           IN  Early(r) \/ Late(r, key, aad, n, b, t, c)
<1> DEFINE r == Opens(call, ct, key, sk, aad)
<1>1. call \in {"decrypt_bytes", "decrypt_str", "decrypt_raw", "decrypt_v8", "decrypt_v8_key"}
  BY DEF OpenCalls, V7Calls, V8Calls
<1>2. CASE call = "decrypt_bytes"
  <2>1. r = open_v7(ct, key, aad)
    BY <1>2 DEF Opens, decrypt_bytes
  <2> QED  BY <2>1, OpenV7
<1>3. CASE call = "decrypt_str"
  <2>1. r = IF f # "base64" THEN Err("base64") ELSE open_v7(WithForm(ct, "bytes"), key, aad)
    <3>1. ct.form = f
      BY DEF Shown
    <3> QED  BY <1>3, <3>1 DEF Opens, decrypt_str, decrypt_bytes, WithForm
  <2>2. WithForm(ct, "bytes") = Shown("bytes", n, b, t, c)
    BY AlteredForm
  <2>3. Early(Err("base64"))
    BY Zenon DEF Early
  <2> QED  BY <2>1, <2>2, <2>3, OpenV7
<1>4. CASE call = "decrypt_raw"
  <2> DEFINE o == open_v7(ct, key, aad)
  <2>1. r = IF o.status = "ok" /\ ~ByteValued(o.text) THEN Err("convention") ELSE o
    BY <1>4 DEF Opens, decrypt_raw
  <2>2. Early(o) \/ Late(o, key, aad, n, b, t, c)
    BY OpenV7
  <2> HIDE DEF o, r
  <2>3. CASE r = o
    BY <2>2, <2>3 DEF r
  <2>4. CASE r = Err("convention") /\ o.status = "ok"
    <3>1. ~Early(o) /\ o # Err("key")
      BY <2>4 DEF Early, Err, Result
    <3>2. PICK kb, w : LateWith(o, key, aad, n, b, t, c, kb, w)
      BY <2>2, <3>1 DEF Late
    <3>3. LateWith(r, key, aad, n, b, t, c, kb, w)
      BY <2>4, <3>1, <3>2 DEF LateWith
    <3> QED  BY <3>3, Zenon DEF Late, r
  <2> QED  BY <2>1, <2>3, <2>4
<1>5. CASE call = "decrypt_v8"
  <2>1. r = IF ~validate_key(key) THEN Err("policy") ELSE decrypt_bytes_v8_core(ct, key, sk, aad)
    BY <1>5 DEF Opens, decrypt_bytes_v8
  <2>2. Early(Err("policy"))
    BY Zenon DEF Early
  <2> QED  BY <2>1, <2>2, OpenV8
<1>6. CASE call = "decrypt_v8_key"
  <2>1. r = decrypt_bytes_v8_core(ct, key, sk, aad)
    BY <1>6 DEF Opens
  <2> QED  BY <1>6, <2>1, OpenV8
<1> QED  BY <1>1, <1>2, <1>3, <1>4, <1>5, <1>6
-----------------------------------------------------------------------------
(* What was sealed *)

Bytes == {<<"byte", x>> : x \in 0 .. 255}

Input(s) ==
    /\ s.key \in Seq(Nat) /\ validate_key(s.key)
    /\ s.aad \in Seq(Bytes)
    /\ s.text \in Seq(Nat) /\ Len(s.text) <= 65535 /\ Scalars(s.text)

SealedV7(s, f, kb, w) ==
    /\ kb = KeyV7(s.key) /\ w = 4 /\ check_v7_aad_len(s.aad)
    /\ \/ s.call = "encrypt_bytes" /\ f = "bytes"
       \/ s.call = "encrypt_str" /\ f = "base64"
       \/ s.call = "encrypt_raw" /\ f = "bytes" /\ ByteValued(s.text)

SealedV8(s, f, kb, n, w) ==
    /\ s.call = "encrypt_v8" /\ f = "bytes"
    /\ kb = KeyV8(s.sk) /\ w = 8 /\ n = synthetic_nonce(kb, s.aad, s.text)

MadeFrom(s, b, f, n, kb, w) ==
    \/ /\ s.call = "encrypt" /\ s.aad = <<>> /\ f = "tokens" /\ kb = KeyV7(s.key)
       /\ s.ct = Ciphertext(f, n, b, <<>>)
    \/ /\ s.ct = Ciphertext(f, n, b, compute_auth_tag(kb, s.aad, n, b, w))
       /\ SealedV7(s, f, kb, w) \/ SealedV8(s, f, kb, n, w)

MadeWith(s, block, f, n, kb, w) ==
    /\ block \in Nat /\ Len(s.text) <= block
    /\ MadeFrom(s, Body(s.text, s.key, kb, n, block), f, n, kb, w)

\* A seal holds what one of the sealing calls made of an input it accepted.
Made(s) == Input(s) /\ \E block, f, n, kb, w : MadeWith(s, block, f, n, kb, w)

\* The body of a seal, cell by cell.
Cells(b, p, key, kb, n, S) ==
    /\ b \in Seq(S) /\ Len(b) = Len(p) /\ Len(p) \in Nat /\ Len(p) >= 2
    /\ \A i \in 1..Len(p) : b[i] = Cell(kb, n, i, Element(key, i), p[i])
    /\ Bytes \subseteq S

LEMMA BodyCells ==
    ASSUME NEW s, Input(s), NEW block \in Nat, Len(s.text) <= block, NEW kb, NEW n
    PROVE  \E S : Cells(Body(s.text, s.key, kb, n, block), Padded(s.text, block), s.key, kb, n, S)
<1> DEFINE p == Padded(s.text, block)
           b == Body(s.text, s.key, kb, n, block)
           C == {b[i] : i \in 1..Len(p)}
           S == Bytes \cup C
<1>1. s.text \in Seq(Nat) /\ Len(s.text) <= 65535 /\ Scalars(s.text)
  BY DEF Input
<1>2. Len(p) \in Nat /\ Len(p) >= 2
  <2>1. Holds(p, s.text)
    BY <1>1, PaddedHolds
  <2>2. p \in Seq(Nat) /\ Len(p) >= 2 + Len(s.text)
    BY <2>1 DEF Holds
  <2> HIDE DEF p
  <2> QED  BY <1>1, <2>2
<1>3. IsBody(b, p, s.key, kb, n)
  BY <1>1, BodyIs
<1> HIDE DEF p, b
<1>4. /\ \A i \in 1..Len(p) : b[i] = Cell(kb, n, i, Element(s.key, i), p[i])
      /\ b \in [1..Len(p) -> S]
  BY <1>3 DEF IsBody
<1> HIDE DEF S
<1>5. b \in Seq(S) /\ Len(b) = Len(p)
  BY <1>2, <1>4, FunctionIsSeq
<1>6. Cells(b, p, s.key, kb, n, S)
  BY <1>2, <1>4, <1>5 DEF Cells, S
<1> QED  BY <1>6, Zenon DEF p, b

LEMMA CellIs ==
    ASSUME NEW kb, NEW n, NEW i, NEW k, NEW c
    PROVE  Cell(kb, n, i, k, c)[6] = c /\ Cell(kb, n, i, k, c)[4] = i /\ Len(Cell(kb, n, i, k, c)) = 6
  BY DEF Cell

\* Under the key and nonce of the seal every cell is in order.
LEMMA OwnCells ==
    ASSUME NEW S, NEW b, NEW p, NEW key, NEW kb, NEW n, Cells(b, p, key, kb, n, S)
    PROVE  Bad(b, key, kb, n) = {} /\ Follows(b, p)
<1>1. /\ b \in Seq(S) /\ Len(b) = Len(p) /\ Len(p) \in Nat
      /\ \A i \in 1..Len(p) : b[i] = Cell(kb, n, i, Element(key, i), p[i])
  BY DEF Cells
<1>2. ASSUME NEW i \in 1..Len(p)
      PROVE  b[i][6] = p[i] /\ b[i] = Cell(kb, n, i, Element(key, i), b[i][Len(b[i])])
  BY <1>1, <1>2, CellIs
<1>3. DOMAIN b = 1..Len(p)
  BY <1>1
<1>4. Bad(b, key, kb, n) = {}
  BY <1>2, <1>3, Zenon DEF Bad
<1> QED  BY <1>1, <1>2, <1>4 DEF Follows

\* One cell fewer at the end changes nothing for those before it.
LEMMA FrontCells ==
    ASSUME NEW S, NEW b \in Seq(S), NEW p, Follows(b, p), b # <<>>, Len(p) \in Nat
    PROVE  Front(b) \in Seq(S) /\ Follows(Front(b), p)
<1>1. Len(b) \in Nat \ {0} /\ Len(b) <= Len(p) /\ \A i \in 1..Len(b) : b[i][6] = p[i]
  BY DEF Follows
<1>2. Front(b) \in Seq(S) /\ Len(Front(b)) = Len(b) - 1 /\ \A i \in 1..(Len(b) - 1) : Front(b)[i] = b[i]
  <2> DEFINE m == Len(b) - 1
  <2>1. m \in Nat /\ m <= Len(b) /\ (m - 1) + 1 = m
    BY <1>1
  <2>2. Front(b) = SubSeq(b, 1, m)
    BY DEF Front
  <2> HIDE DEF m
  <2>3. SubSeq(b, 1, m) \in Seq(S) /\ Len(SubSeq(b, 1, m)) = m /\ \A i \in 1..m : SubSeq(b, 1, m)[i] = b[i]
    BY <2>1
  <2> QED  BY <2>2, <2>3 DEF m
<1> QED  BY <1>1, <1>2 DEF Follows

\* One cell fewer at the start puts every other one out of place.
LEMMA TailCells ==
    ASSUME NEW S, NEW b, NEW p, NEW key, NEW kb, NEW n, Cells(b, p, key, kb, n, S), NEW key2, NEW kb2, NEW n2
    PROVE  Decode(Tail(b), key2, kb2, n2).status # "ok"
<1> DEFINE t == Tail(b)
<1>1. /\ b \in Seq(S) /\ Len(b) \in Nat /\ Len(b) >= 2 /\ 2 \in 1..Len(b)
      /\ b[2] = Cell(kb, n, 2, Element(key, 2), p[2])
  BY DEF Cells
<1>2. t \in Seq(S) /\ Len(t) = Len(b) - 1 /\ t[1] = b[2]
  BY <1>1
<1>3. 1 \in DOMAIN t
  BY <1>1, <1>2
<1> HIDE DEF t
<1>4. t[1] # Cell(kb2, n2, 1, Element(key2, 1), t[1][Len(t[1])])
  <2>1. t[1][4] = 2 /\ Cell(kb2, n2, 1, Element(key2, 1), t[1][Len(t[1])])[4] = 1
    BY <1>1, <1>2, CellIs
  <2> QED  BY <2>1
<1>5. Bad(t, key2, kb2, n2) # {}
  BY <1>3, <1>4, Zenon DEF Bad
<1> QED  BY <1>5 DEF Decode, Bad, Panic, Err, Result, t
-----------------------------------------------------------------------------
(* What a call makes of what was sealed *)

\* No panic; nothing past the tag but what was sealed; no text but the one sealed.
Sound(r, call, arrival, s) ==
    /\ r.status # "panic"
    /\ call \in OpenCalls /\ r.why \in {"key", "tokens", "convention", "none"} =>
          arrival.aad = s.aad /\ arrival.ct = s.ct
    /\ r.status = "ok" => r.text = s.text

LEMMA EarlyIs ==
    ASSUME NEW r, Early(r)
    PROVE  r.status = "err" /\ r.why \notin {"key", "tokens", "convention", "none"}
  BY DEF Early, Err, Result

LEMMA TaggedCallIsSound ==
    ASSUME NEW s, Input(s), NEW b, NEW p, NEW f, NEW n, NEW kb, NEW w, NEW S,
           Cells(b, p, s.key, kb, n, S), Holds(p, s.text),
           s.ct = Ciphertext(f, n, b, compute_auth_tag(kb, s.aad, n, b, w)),
           NEW arrival \in Arrivals(s), NEW key \in Seq(Nat), NEW sk, NEW call \in OpenCalls,
           call = "decrypt_v8_key" => validate_key(key)
    PROVE  Sound(Opens(call, arrival.ct, key, sk, arrival.aad), call, arrival, s)
<1> DEFINE r == Opens(call, arrival.ct, key, sk, arrival.aad)
           t == compute_auth_tag(kb, s.aad, n, b, w)
<1>1. b \in Seq(S) /\ b # <<>> /\ s.aad \in Seq(S) /\ Aads \subseteq Seq(S) /\ s.text \in Seq(Nat)
  <2>1. b \in Seq(S) /\ Bytes \subseteq S /\ Len(b) # 0 /\ s.aad \in Seq(Bytes) /\ s.text \in Seq(Nat)
    BY DEF Cells, Input
  <2>2. Aads \subseteq Seq(Bytes)
    BY BlockApiAssumption DEF Bytes
  <2>3. Seq(Bytes) \subseteq Seq(S)
    <3>1. ASSUME NEW x \in Seq(Bytes) PROVE x \in Seq(S)
      BY <2>1, <3>1
    <3> QED  BY <3>1
  <2>4. b # <<>>
    BY <2>1
  <2> QED  BY <2>1, <2>2, <2>3, <2>4
<1> HIDE DEF t
<1>2. s.ct = Ciphertext(f, n, b, t)
  BY DEF t
<1>3. PICK n2, b2, t2, c : NearWith(arrival, s.aad, S, f, b, t, n2, b2, t2, c)
  <2>1. Near(arrival, s.aad, S, f, b, t)
    BY <1>1, <1>2, ArrivalIs
  <2> QED  BY <2>1 DEF Near
<1>4. /\ arrival.ct = Shown(f, n2, b2, t2, c) /\ arrival.aad \in Seq(S) /\ b2 \in Seq(S)
      /\ t2 \in {t, <<>>} /\ c \in {"no", "short", "ragged"}
  BY <1>3 DEF NearWith
<1>5. Early(r) \/ Late(r, key, arrival.aad, n2, b2, t2, c)
  BY <1>4, TaggedCalls
<1> HIDE DEF r
<1>6. CASE Early(r)
  BY <1>6, EarlyIs DEF Sound, r
<1>7. CASE Late(r, key, arrival.aad, n2, b2, t2, c)
  <2>1. PICK kb2, w2 : LateWith(r, key, arrival.aad, n2, b2, t2, c, kb2, w2)
    BY <1>7 DEF Late
  <2>2. /\ c = "no" /\ t2 = compute_auth_tag(kb2, arrival.aad, n2, b2, w2)
        /\ \/ r = Err("key")
           \/ Usable(key) /\ (r = Decode(b2, key, kb2, n2) \/ r = Err("convention"))
    BY <2>1 DEF LateWith
  <2>3. t2 # <<>>
    BY <2>2, TagIsSomething
  <2>4. t2 = t
    BY <1>4, <2>3
  <2>5. compute_auth_tag(kb2, arrival.aad, n2, b2, w2) = compute_auth_tag(kb, s.aad, n, b, w)
    BY <2>2, <2>4 DEF t
  <2>6. arrival.aad = s.aad /\ n2 = n /\ b2 = b
    BY <1>1, <1>4, <2>5, TagBinds
  <2>7. arrival.ct = s.ct
    BY <1>2, <1>4, <2>2, <2>4, <2>6 DEF Ciphertext, Shown
  <2>8. Follows(b, p)
    BY OwnCells
  <2>9. Usable(key) => Decode(b, key, kb2, n).status # "panic"
    BY <1>1, DecodeNeverPanics
  <2>10. Decode(b, key, kb2, n).status = "ok" => Decode(b, key, kb2, n) = Result("ok", "none", s.text)
    BY <1>1, <2>8, DecodesTo
  <2>11. r.status # "panic" /\ (r.status = "ok" => r.text = s.text)
    <3>1. CASE r = Err("key") \/ r = Err("convention")
      BY <3>1 DEF Err, Result
    <3>2. CASE Usable(key) /\ r = Decode(b, key, kb2, n)
      BY <2>9, <2>10, <3>2 DEF Result
    <3> QED  BY <2>2, <2>6, <3>1, <3>2
  <2> QED  BY <2>6, <2>7, <2>11 DEF Sound, r
<1> QED  BY <1>5, <1>6, <1>7

LEMMA BareCallIsSound ==
    ASSUME NEW s, Input(s), NEW b, NEW p, NEW n, NEW kb, NEW S,
           Cells(b, p, s.key, kb, n, S), Holds(p, s.text), s.aad = <<>>,
           s.ct = Ciphertext("tokens", n, b, <<>>),
           NEW arrival \in Arrivals(s), NEW key \in Seq(Nat), NEW sk
    PROVE  Sound(Opens("decrypt", arrival.ct, key, sk, arrival.aad), "decrypt", arrival, s)
<1> DEFINE r == Opens("decrypt", arrival.ct, key, sk, arrival.aad)
<1>1. b \in Seq(S) /\ b # <<>> /\ s.aad \in Seq(S) /\ Aads \subseteq Seq(S) /\ s.text \in Seq(Nat) /\ Len(p) \in Nat
  <2>1. /\ b \in Seq(S) /\ Bytes \subseteq S /\ Len(b) # 0 /\ s.aad \in Seq(Bytes) /\ s.text \in Seq(Nat)
        /\ Len(p) \in Nat
    BY DEF Cells, Input
  <2>2. Aads \subseteq Seq(Bytes)
    BY BlockApiAssumption DEF Bytes
  <2>3. Seq(Bytes) \subseteq Seq(S)
    <3>1. ASSUME NEW x \in Seq(Bytes) PROVE x \in Seq(S)
      BY <2>1, <3>1
    <3> QED  BY <3>1
  <2>4. b # <<>>
    BY <2>1
  <2> QED  BY <2>1, <2>2, <2>3, <2>4
<1>2. PICK n2, b2, t2, c : NearWith(arrival, s.aad, S, "tokens", b, <<>>, n2, b2, t2, c)
  <2>1. Near(arrival, s.aad, S, "tokens", b, <<>>)
    BY <1>1, ArrivalIs
  <2> QED  BY <2>1 DEF Near
<1>3. arrival.ct = Shown("tokens", n2, b2, t2, c) /\ b2 \in Seq(S) /\ b2 \in {b, Front(b), Tail(b)}
  BY <1>2 DEF NearWith
<1>4. arrival.ct.body = b2 /\ arrival.ct.nonce = n2
  BY <1>3 DEF Shown
<1> DEFINE k2 == KeyV7(key)
<1>5. r = IF ~validate_key_v7_decrypt(key) THEN Err("key") ELSE Decode(b2, key, k2, n2)
  BY <1>4 DEF Opens, decrypt
<1>6. "decrypt" \notin OpenCalls
  BY DEF OpenCalls, V7Calls, V8Calls
<1> HIDE DEF r, k2
<1>7. CASE ~validate_key_v7_decrypt(key)
  BY <1>5, <1>6, <1>7 DEF Sound, Err, Result, r
<1>8. CASE validate_key_v7_decrypt(key)
  <2>1. r = Decode(b2, key, k2, n2) /\ Usable(key)
    BY <1>5, <1>8, PoliciesAreUsable
  <2>2. r.status # "panic"
    BY <1>3, <2>1, DecodeNeverPanics
  <2>3. Follows(b, p)
    BY OwnCells
  <2>4. r.status = "ok" => r = Result("ok", "none", s.text)
    <3>1. CASE b2 = b
      BY <1>1, <2>1, <2>3, <3>1, DecodesTo
    <3>2. CASE b2 = Front(b)
      <4>1. Follows(b2, p)
        BY <1>1, <2>3, <3>2, FrontCells
      <4> QED  BY <1>1, <1>3, <2>1, <4>1, DecodesTo
    <3>3. CASE b2 = Tail(b)
      BY <2>1, <3>3, TailCells
    <3> QED  BY <1>3, <3>1, <3>2, <3>3
  <2> QED  BY <1>6, <2>2, <2>4 DEF Sound, Result, r
<1> QED  BY <1>7, <1>8
\* The calls that open what a call seals.
Counterpart(s, call, sk) ==
    CASE s.call = "encrypt" -> call = "decrypt"
      [] s.call = "encrypt_bytes" -> call = "decrypt_bytes"
      [] s.call = "encrypt_str" -> call = "decrypt_str"
      [] s.call = "encrypt_raw" -> call = "decrypt_raw"
      [] s.call = "encrypt_v8" -> call \in V8Calls /\ sk = s.sk

LEMMA CounterpartOpens ==
    ASSUME NEW s, Input(s), NEW b, NEW p, NEW f, NEW n, NEW kb, NEW w, NEW S,
           Cells(b, p, s.key, kb, n, S), Holds(p, s.text), MadeFrom(s, b, f, n, kb, w),
           NEW call, NEW sk, Counterpart(s, call, sk)
    PROVE  Opens(call, s.ct, s.key, sk, s.aad) = Result("ok", "none", s.text)
<1> DEFINE D == Decode(b, s.key, kb, n)
           t == compute_auth_tag(kb, s.aad, n, b, w)
           r == Opens(call, s.ct, s.key, sk, s.aad)
<1>1. /\ b \in Seq(S) /\ Len(b) = Len(p) /\ s.text \in Seq(Nat) /\ s.key \in Seq(Nat) /\ s.aad \in Seq(Bytes)
      /\ validate_key(s.key)
  BY DEF Cells, Input
<1>2. Usable(s.key) /\ validate_key_v7_decrypt(s.key) /\ s.key # <<>>
  BY <1>1, PoliciesAreUsable DEF Usable
<1>3. D = Result("ok", "none", s.text)
  <2>1. Bad(b, s.key, kb, n) = {} /\ Follows(b, p)
    BY OwnCells
  <2> QED  BY <1>1, <1>2, <2>1, DecodesTo
<1> HIDE DEF D, t
<1>4. CASE s.call = "encrypt"
  <2>1. call = "decrypt" /\ kb = KeyV7(s.key) /\ s.ct = Ciphertext("tokens", n, b, <<>>)
    BY <1>4 DEF Counterpart, MadeFrom, SealedV7, SealedV8
  <2>2. s.ct.body = b /\ s.ct.nonce = n
    BY <2>1 DEF Ciphertext
  <2> QED  BY <1>2, <1>3, <2>1, <2>2 DEF Opens, decrypt, D
<1>5. CASE s.call # "encrypt"
  <2>1. s.ct = Shown(f, n, b, t, "no") /\ (SealedV7(s, f, kb, w) \/ SealedV8(s, f, kb, n, w))
    BY <1>5 DEF MadeFrom, Ciphertext, Shown, t
  <2>2. CASE SealedV7(s, f, kb, w)
    <3>1. kb = KeyV7(s.key) /\ t = compute_auth_tag(KeyV7(s.key), s.aad, n, b, 4) /\ check_v7_aad_len(s.aad)
      BY <2>2 DEF SealedV7, t
    <3>2. ASSUME NEW ct, ct = Shown("bytes", n, b, t, "no") PROVE open_v7(ct, s.key, s.aad) = D
      BY <1>1, <1>2, <3>1, <3>2, OpenV7 DEF D
    <3>3. CASE s.call = "encrypt_bytes" /\ f = "bytes"
      <4>1. call = "decrypt_bytes"
        BY <3>3 DEF Counterpart
      <4> QED  BY <1>3, <2>1, <3>2, <3>3, <4>1 DEF Opens, decrypt_bytes
    <3>4. CASE s.call = "encrypt_str" /\ f = "base64"
      <4>1. call = "decrypt_str"
        BY <3>4 DEF Counterpart
      <4>2. s.ct.form = "base64"
        BY <2>1, <3>4 DEF Shown
      <4>3. WithForm(s.ct, "bytes") = Shown("bytes", n, b, t, "no")
        BY <2>1, AlteredForm
      <4>4. r = open_v7(WithForm(s.ct, "bytes"), s.key, s.aad)
        BY <4>1, <4>2 DEF Opens, decrypt_str, decrypt_bytes, WithForm
      <4> QED  BY <1>3, <3>2, <4>3, <4>4
    <3>5. CASE s.call = "encrypt_raw" /\ f = "bytes" /\ ByteValued(s.text)
      <4>1. call = "decrypt_raw"
        BY <3>5 DEF Counterpart
      <4>2. open_v7(s.ct, s.key, s.aad) = D
        BY <2>1, <3>2, <3>5
      <4>3. D.text = s.text
        BY <1>3 DEF Result
      <4> QED  BY <1>3, <3>5, <4>1, <4>2, <4>3 DEF Opens, decrypt_raw
    <3> QED  BY <2>2, <3>3, <3>4, <3>5 DEF SealedV7
  <2>3. CASE SealedV8(s, f, kb, n, w)
    <3>1. /\ kb = KeyV8(sk) /\ t = compute_auth_tag(KeyV8(sk), s.aad, n, b, 8) /\ f = "bytes"
          /\ call \in V8Calls
      BY <2>3 DEF SealedV8, Counterpart, t
    <3>2. decrypt_bytes_v8_core(s.ct, s.key, sk, s.aad) = D
      BY <1>1, <2>1, <3>1, OpenV8 DEF D
    <3> QED  BY <1>1, <1>3, <3>1, <3>2 DEF Opens, decrypt_bytes_v8, V8Calls
  <2> QED  BY <2>1, <2>2, <2>3
<1> QED  BY <1>4, <1>5

-----------------------------------------------------------------------------
(* The inductive invariant *)

OneCall(call, arrival, key, sk) ==
    /\ arrival \in Arrivals(seals[1]) /\ key \in Seq(Nat)
    /\ call \in OpenCalls \cup {"decrypt"}
    /\ call = "decrypt" <=> seals[1].ct.form = "tokens"
    /\ call = "decrypt_v8_key" => validate_key(key)
    /\ last = [call |-> call, key |-> key, sk |-> sk, aad |-> arrival.aad, ct |-> arrival.ct,
               result |-> Opens(call, arrival.ct, key, sk, arrival.aad)]

SealsMade ==
    \/ seals = <<>>
    \/ \E s : seals = <<s>> /\ Made(s)
    \/ \E s, t : seals = <<s, t>> /\ Made(s) /\ Made(t) /\ s.call = "encrypt_v8" /\ t.call = "encrypt_v8"

Inv ==
    /\ SealsMade
    /\ \/ last.call \notin OpenCalls \cup {"decrypt"} /\ last.result = Err("none")
       \/ Len(seals) = 1 /\ \E call, arrival, key, sk : OneCall(call, arrival, key, sk)
NotOpens == {"none", "encrypt", "encrypt_bytes", "encrypt_str", "encrypt_raw", "encrypt_v8"}

SealRecord(call, key, sk, aad, text, ct) ==
    [call |-> call, key |-> key, sk |-> sk, aad |-> aad, text |-> text, ct |-> ct]

LEMMA NotOpening == NotOpens \cap (OpenCalls \cup {"decrypt"}) = {}
  BY DEF NotOpens, OpenCalls, V7Calls, V8Calls

LEMMA SecondSeal ==
    ASSUME NEW s, NEW r
    PROVE  Append(<<s>>, r) = <<s, r>>
<1> DEFINE T == {s, r}
<1>1. <<s>> \in Seq(T) /\ <<s, r>> \in Seq(T) /\ r \in T
  OBVIOUS
<1>2. Append(<<s>>, r) \in Seq(T) /\ Len(Append(<<s>>, r)) = 2 /\ Len(<<s, r>>) = 2
  BY <1>1
<1>3. \A i \in 1..2 : Append(<<s>>, r)[i] = <<s, r>>[i]
  BY <1>1
<1> HIDE DEF T
<1> QED  BY <1>1, <1>2, <1>3, SameSeq

\* A seal that succeeds is one more made; one that fails leaves only its error.
LEMMA SealedStep ==
    ASSUME Inv, last = NoCall, NEW call \in NotOpens, NEW key, NEW sk, NEW aad, NEW text, NEW valid \in BOOLEAN,
           NEW ct, Sealed(call, key, sk, aad, text, valid, ct),
           \/ seals = <<>>
           \/ Len(seals) = 1 /\ seals[1].call = "encrypt_v8" /\ call = "encrypt_v8",
           valid => Made(SealRecord(call, key, sk, aad, text, ct))
    PROVE  Inv'
<1> DEFINE r == SealRecord(call, key, sk, aad, text, ct)
<1>1. CASE valid
  <2>1. seals' = Append(seals, r) /\ last' = last /\ Made(r) /\ r.call = call
    BY <1>1 DEF Sealed, SealRecord
  <2>2. last'.call \notin OpenCalls \cup {"decrypt"} /\ last'.result = Err("none")
    BY <2>1, NotOpening DEF NoCall, NotOpens
  <2> HIDE DEF r
  <2>3. CASE seals = <<>>
    <3>1. seals' = <<r>>
      BY <2>1, <2>3
    <3>2. SealsMade'
      BY <2>1, <3>1 DEF SealsMade
    <3> QED  BY <2>2, <3>2 DEF Inv
  <2>4. CASE Len(seals) = 1 /\ seals[1].call = "encrypt_v8" /\ call = "encrypt_v8"
    <3>1. PICK s : seals = <<s>> /\ Made(s)
      <4>1. ASSUME NEW s, NEW t, seals = <<s, t>> PROVE FALSE
        <5>1. Len(<<s, t>>) = 2
          OBVIOUS
        <5> QED  BY <2>4, <4>1, <5>1
      <4>2. seals # <<>>
        BY <2>4
      <4> QED  BY <4>1, <4>2 DEF Inv, SealsMade
    <3>2. s.call = "encrypt_v8"
      BY <2>4, <3>1
    <3>3. seals' = <<s, r>>
      BY <2>1, <3>1, SecondSeal
    <3>4. SealsMade'
      BY <2>1, <2>4, <3>1, <3>2, <3>3 DEF SealsMade
    <3> QED  BY <2>2, <3>4 DEF Inv
  <2> QED  BY <2>3, <2>4
<1>2. CASE ~valid
  <2>1. last' = [NoCall EXCEPT !.call = call, !.key = key, !.aad = aad] /\ seals' = seals
    BY <1>2 DEF Sealed
  <2>2. last'.call = call /\ last'.result = Err("none")
    BY <2>1 DEF NoCall
  <2>3. last'.call \notin OpenCalls \cup {"decrypt"}
    BY <2>2, NotOpening
  <2>4. SealsMade'
    BY <2>1 DEF Inv, SealsMade
  <2> QED  BY <2>2, <2>3, <2>4 DEF Inv
<1> QED  BY <1>1, <1>2

\* A block is longer than what it is to hold.
LEMMA BlockFits ==
    ASSUME NEW n \in Nat, n <= MAX_PLAINTEXT_CODEPOINTS
    PROVE  /\ BlockSize("bucket", n) \in Nat /\ n <= BlockSize("bucket", n)
           /\ BlockSize("frame", n) # 0 => BlockSize("frame", n) \in Nat /\ n <= BlockSize("frame", n)
<1> DEFINE T == {b \in Blocks : n < b}
           Least(b) == \A c \in Blocks : n < c => b <= c
<1>0. Blocks \subseteq Nat /\ (\E b \in Blocks : MAX_PLAINTEXT_CODEPOINTS < b) /\ Frame \in Nat
      /\ MAX_PLAINTEXT_CODEPOINTS \in Nat
  BY BlockApiAssumption
<1>1. T \in SUBSET Nat /\ T # {} /\ Frame \in Nat
  <2>1. PICK b \in Blocks : MAX_PLAINTEXT_CODEPOINTS < b
    BY <1>0
  <2>2. b \in Nat /\ n < b
    BY <1>0, <2>1
  <2> QED  BY <1>0, <2>1, <2>2
<1>2. \E b \in Blocks : n < b /\ Least(b)
  <2>1. PICK b \in T : \A c \in T : b <= c
    <3> HIDE DEF T
    <3> QED  BY <1>1, NatLeast
  <2> QED  BY <2>1
<1>3. BlockSize("bucket", n) = CHOOSE b \in Blocks : n < b /\ Least(b)
  BY DEF BlockSize
<1>4. BlockSize("bucket", n) \in Blocks /\ n < BlockSize("bucket", n)
  <2> HIDE DEF Least
  <2> QED  BY <1>2, <1>3
<1>5. BlockSize("frame", n) # 0 => BlockSize("frame", n) = Frame /\ n < Frame
  BY DEF BlockSize
<1>6. BlockSize("bucket", n) \in Nat
  BY <1>0, <1>4, Zenon
<1> QED  BY <1>1, <1>4, <1>5, <1>6
\* What the sealing calls accept.
LEMMA Accepted ==
    ASSUME NEW call, NEW key \in KeyTuples, NEW sk, NEW aad, NEW text \in Texts, NEW ct,
           aad \in Aads \cup {<<>>}, validate_key(key), Fits(text), Scalars(text)
    PROVE  LET r == SealRecord(call, key, sk, aad, text, ct)
           IN  /\ Input(r) /\ Len(text) \in Nat /\ Len(text) <= MAX_PLAINTEXT_CODEPOINTS
               /\ r.call = call /\ r.key = key /\ r.sk = sk /\ r.aad = aad /\ r.text = text /\ r.ct = ct
<1> DEFINE r == SealRecord(call, key, sk, aad, text, ct)
<1>1. r.call = call /\ r.key = key /\ r.sk = sk /\ r.aad = aad /\ r.text = text /\ r.ct = ct
  BY DEF SealRecord
<1>2. key \in Seq(Nat) /\ text \in Seq(Nat)
  BY BlockApiAssumption
<1>3. aad \in Seq(Bytes)
  <2>1. Aads \subseteq Seq(Bytes)
    BY BlockApiAssumption DEF Bytes
  <2>2. <<>> \in Seq(Bytes)
    OBVIOUS
  <2> QED  BY <2>1, <2>2
<1>4. Len(text) \in Nat /\ Len(text) <= MAX_PLAINTEXT_CODEPOINTS /\ Len(text) <= 65535
  <2>1. MAX_PLAINTEXT_CODEPOINTS \in Nat /\ MAX_PLAINTEXT_CODEPOINTS <= 65535
    BY BlockApiAssumption
  <2> QED  BY <1>2, <2>1 DEF Fits
<1> HIDE DEF r
<1> QED  BY <1>1, <1>2, <1>3, <1>4 DEF Input, r

LEMMA EncryptStep ==
    ASSUME Inv, last = NoCall, NEW key \in KeyTuples, NEW text \in Texts, Encrypt(key, text)
    PROVE  Inv'
<1> DEFINE ct == encrypt(text, key, Fresh)
           valid == Fits(text) /\ Scalars(text) /\ validate_key(key)
           r == SealRecord("encrypt", key, "none", <<>>, text, ct)
           block == BlockSize("bucket", Len(text))
           kb == KeyV7(key)
           n == Fresh
<1>1. Sealed("encrypt", key, "none", <<>>, text, valid, ct) /\ seals = <<>>
  BY DEF Encrypt
<1>2. valid => Made(r)
  <2> SUFFICES ASSUME valid PROVE Made(r)
    OBVIOUS
  <2> HIDE DEF ct
  <2>1. /\ Input(r) /\ Len(text) \in Nat /\ Len(text) <= MAX_PLAINTEXT_CODEPOINTS
        /\ r.call = "encrypt" /\ r.key = key /\ r.aad = <<>> /\ r.text = text /\ r.ct = ct
    BY Accepted
  <2>2. block \in Nat /\ Len(text) <= block
    BY <2>1, BlockFits
  <2>3. ct = Ciphertext("tokens", n, Body(text, key, kb, n, block), <<>>)
    BY DEF ct, encrypt
  <2> HIDE DEF r, block, kb, n
  <2>4. MadeWith(r, block, "tokens", n, kb, 4)
    BY <2>1, <2>2, <2>3 DEF MadeWith, MadeFrom, kb
  <2> QED  BY <2>1, <2>4, Zenon DEF Made
<1>3. valid \in BOOLEAN
  BY DEF validate_key, Fits, Scalars
<1>4. "encrypt" \in NotOpens
  BY DEF NotOpens
<1> HIDE DEF valid, ct, r
<1> QED  BY <1>1, <1>2, <1>3, <1>4, SealedStep DEF r

\* The v7 calls with a tag.
LEMMA SealV7Step ==
    ASSUME Inv, last = NoCall, seals = <<>>, NEW key \in KeyTuples, NEW aad \in Aads, NEW text \in Texts,
           NEW call \in {"encrypt_bytes", "encrypt_str", "encrypt_raw"},
           Scalars(text), call = "encrypt_raw" => ByteValued(text),
           Sealed(call, key, "none", aad, text,
                  validate_key(key) /\ check_v7_aad_len(aad) /\ Fits(text),
                  seal_v7(text, key, Fresh, aad, IF call = "encrypt_str" THEN "base64" ELSE "bytes"))
    PROVE  Inv'
<1> DEFINE f == IF call = "encrypt_str" THEN "base64" ELSE "bytes"
           ct == seal_v7(text, key, Fresh, aad, f)
           valid == validate_key(key) /\ check_v7_aad_len(aad) /\ Fits(text)
           r == SealRecord(call, key, "none", aad, text, ct)
           block == BlockSize("bucket", Len(text))
           kb == KeyV7(key)
           n == Fresh
           b == Body(text, key, kb, n, block)
<1>1. valid => Made(r)
  <2> SUFFICES ASSUME valid PROVE Made(r)
    OBVIOUS
  <2> HIDE DEF ct, f
  <2>1. /\ Input(r) /\ Len(text) \in Nat /\ Len(text) <= MAX_PLAINTEXT_CODEPOINTS
        /\ r.call = call /\ r.key = key /\ r.aad = aad /\ r.text = text /\ r.ct = ct
    BY Accepted
  <2>2. block \in Nat /\ Len(text) <= block
    BY <2>1, BlockFits
  <2>3. ct = Ciphertext(f, n, b, compute_auth_tag(kb, aad, n, b, 4))
    BY DEF ct, seal_v7
  <2> HIDE DEF r, block, kb, n
  <2>4. SealedV7(r, f, kb, 4)
    BY <2>1 DEF SealedV7, kb, f
  <2>5. MadeFrom(r, Body(r.text, r.key, kb, n, block), f, n, kb, 4)
    BY <2>1, <2>3, <2>4 DEF MadeFrom
  <2>6. MadeWith(r, block, f, n, kb, 4)
    BY <2>1, <2>2, <2>5 DEF MadeWith
  <2> QED  BY <2>1, <2>6, Zenon DEF Made
<1>2. Sealed(call, key, "none", aad, text, valid, ct)
  OBVIOUS
<1>3. valid \in BOOLEAN
  BY DEF validate_key, Fits, check_v7_aad_len
<1>4. call \in NotOpens
  BY DEF NotOpens
<1> HIDE DEF valid, ct, r
<1> QED  BY <1>1, <1>2, <1>3, <1>4, SealedStep DEF r

LEMMA SealV8Step ==
    ASSUME Inv, last = NoCall, NEW call \in {"encrypt_v8", "encrypt_v8_key"}, NEW profile \in {"bucket", "frame"},
           NEW key \in KeyTuples, NEW sk \in Sks, NEW aad \in Aads, NEW text \in Texts,
           SealV8(call, profile, key, sk, aad, text)
    PROVE  Inv'
<1> DEFINE ct == encrypt_bytes_v8_core(text, key, sk, aad, profile)
           block == BlockSize(profile, Len(text))
           valid == validate_key(key) /\ Fits(text) /\ block # 0
           r == SealRecord("encrypt_v8", key, sk, aad, text, ct)
           kb == KeyV8(sk)
           n == synthetic_nonce(kb, aad, text)
           b == Body(text, key, kb, n, block)
<1>1. /\ Sealed("encrypt_v8", key, sk, aad, text, valid, ct) /\ Scalars(text)
      /\ \/ seals = <<>>
         \/ Len(seals) = 1 /\ seals[1].call = "encrypt_v8"
  BY DEF SealV8
<1>2. valid => Made(r)
  <2> SUFFICES ASSUME valid PROVE Made(r)
    OBVIOUS
  <2> HIDE DEF ct
  <2>1. /\ Input(r) /\ Len(text) \in Nat /\ Len(text) <= MAX_PLAINTEXT_CODEPOINTS
        /\ r.call = "encrypt_v8" /\ r.key = key /\ r.sk = sk /\ r.aad = aad /\ r.text = text /\ r.ct = ct
    BY <1>1, Accepted
  <2>2. block \in Nat /\ Len(text) <= block
    <3>1. CASE profile = "bucket"
      BY <2>1, <3>1, BlockFits
    <3>2. CASE profile = "frame"
      BY <2>1, <3>2, BlockFits
    <3> QED  BY <3>1, <3>2
  <2>3. ct = Ciphertext("bytes", n, b, compute_auth_tag(kb, aad, n, b, 8))
    BY DEF ct, encrypt_bytes_v8_core
  <2> HIDE DEF r, block, kb, n
  <2>4. SealedV8(r, "bytes", kb, n, 8)
    BY <2>1 DEF SealedV8, kb, n
  <2>5. MadeFrom(r, Body(r.text, r.key, kb, n, block), "bytes", n, kb, 8)
    BY <2>1, <2>3, <2>4 DEF MadeFrom
  <2>6. MadeWith(r, block, "bytes", n, kb, 8)
    BY <2>1, <2>2, <2>5 DEF MadeWith
  <2> QED  BY <2>1, <2>6, Zenon DEF Made
<1>3. valid \in BOOLEAN
  BY DEF validate_key, Fits
<1>4. "encrypt_v8" \in NotOpens
  BY DEF NotOpens
<1> HIDE DEF valid, ct, r
<1> QED  BY <1>1, <1>2, <1>3, <1>4, SealedStep DEF r
LEMMA OpenStep ==
    ASSUME Inv, NEW i \in DOMAIN seals, NEW key \in KeyTuples, NEW arrival \in Arrivals(seals[i]), NEW sk,
           NEW call \in OpenCalls \cup {"decrypt"}, Open(call, arrival, key, sk)
    PROVE  Inv'
<1>1. /\ Len(seals) = 1 /\ seals' = seals
      /\ call = "decrypt" <=> seals[1].ct.form = "tokens"
      /\ call = "decrypt_v8_key" => validate_key(key)
      /\ last' = [call |-> call, key |-> key, sk |-> sk, aad |-> arrival.aad, ct |-> arrival.ct,
                  result |-> Opens(call, arrival.ct, key, sk, arrival.aad)]
  BY DEF Open
<1>2. key \in Seq(Nat)
  BY BlockApiAssumption
<1>3. i = 1
  <2>1. PICK s : seals = <<s>>
    <3>1. ASSUME NEW s, NEW t, seals = <<s, t>> PROVE FALSE
      <4>1. Len(<<s, t>>) = 2
        OBVIOUS
      <4> QED  BY <1>1, <3>1, <4>1
    <3>2. seals # <<>>
      BY <1>1
    <3> QED  BY <3>1, <3>2 DEF Inv, SealsMade
  <2> QED  BY <2>1
<1>4. OneCall(call, arrival, key, sk)'
  BY <1>1, <1>2, <1>3, Zenon DEF OneCall
<1>5. SealsMade'
  BY <1>1 DEF Inv, SealsMade
<1> QED  BY <1>1, <1>4, <1>5, Zenon DEF Inv

LEMMA InvInit == ASSUME Init PROVE Inv
<1>1. seals = <<>> /\ last = NoCall
  BY DEF Init
<1>2. last.call \notin OpenCalls \cup {"decrypt"} /\ last.result = Err("none")
  BY <1>1, NotOpening DEF NoCall, NotOpens
<1> QED  BY <1>1, <1>2 DEF Inv, SealsMade

LEMMA InvStep == ASSUME Inv, [Next]_vars PROVE Inv'
<1>1. CASE UNCHANGED vars
  BY <1>1 DEF vars, Inv, SealsMade, OneCall
<1>2. CASE Next
  <2>1. last = NoCall
    BY <1>2 DEF Next
  <2>2. ASSUME NEW key \in KeyTuples, NEW text \in Texts, Encrypt(key, text) PROVE Inv'
    BY <2>1, <2>2, EncryptStep
  <2>3. ASSUME NEW key \in KeyTuples, NEW text \in Texts, NEW aad \in Aads, EncryptBytes(key, aad, text) PROVE Inv'
    BY <2>1, <2>3, SealV7Step DEF EncryptBytes
  <2>4. ASSUME NEW key \in KeyTuples, NEW text \in Texts, NEW aad \in Aads, EncryptStr(key, aad, text) PROVE Inv'
    BY <2>1, <2>4, SealV7Step DEF EncryptStr
  <2>5. ASSUME NEW key \in KeyTuples, NEW text \in Texts, NEW aad \in Aads, EncryptRaw(key, aad, text) PROVE Inv'
    <3>1. text \in Seq(Nat)
      BY BlockApiAssumption
    <3>2. Scalars(text)
      BY <2>5, <3>1, BytesAreScalars DEF EncryptRaw, ByteValued, Scalars
    <3> QED  BY <2>1, <2>5, <3>2, SealV7Step DEF EncryptRaw
  <2>6. ASSUME NEW call \in {"encrypt_v8", "encrypt_v8_key"}, NEW profile \in {"bucket", "frame"},
               NEW key \in KeyTuples, NEW sk \in Sks, NEW aad \in Aads, NEW text \in Texts,
               SealV8(call, profile, key, sk, aad, text)
        PROVE  Inv'
    BY <2>1, <2>6, SealV8Step
  <2>7. ASSUME NEW s \in {seals[i] : i \in DOMAIN seals}, NEW key \in KeyTuples, NEW arrival \in Arrivals(s),
               NEW call \in V7Calls \cup {"decrypt"}, Open(call, arrival, key, "none")
        PROVE  Inv'
    <3>1. PICK i \in DOMAIN seals : s = seals[i]
      OBVIOUS
    <3>2. call \in OpenCalls \cup {"decrypt"}
      BY DEF OpenCalls
    <3> QED  BY <2>7, <3>1, <3>2, OpenStep
  <2>8. ASSUME NEW s \in {seals[i] : i \in DOMAIN seals}, NEW key \in KeyTuples, NEW arrival \in Arrivals(s),
               NEW call \in V8Calls, NEW sk \in Sks, Open(call, arrival, key, sk)
        PROVE  Inv'
    <3>1. PICK i \in DOMAIN seals : s = seals[i]
      OBVIOUS
    <3>2. call \in OpenCalls \cup {"decrypt"}
      BY DEF OpenCalls
    <3> QED  BY <2>8, <3>1, <3>2, OpenStep
  <2> QED  BY <1>2, <2>2, <2>3, <2>4, <2>5, <2>6, <2>7, <2>8, Zenon DEF Next
<1> QED  BY <1>1, <1>2
\* Where there is one seal, it was made, and the call that follows is sound and, as its
\* counterpart, complete.
LEMMA OnlySeal ==
    ASSUME Inv, Len(seals) = 1
    PROVE  Made(seals[1])
<1>1. ASSUME NEW s, NEW t, seals = <<s, t>> PROVE FALSE
  <2>1. Len(<<s, t>>) = 2
    OBVIOUS
  <2> QED  BY <1>1, <2>1
<1>2. seals # <<>>
  OBVIOUS
<1>3. PICK s : seals = <<s>> /\ Made(s)
  BY <1>1, <1>2 DEF Inv, SealsMade
<1> QED  BY <1>3

LEMMA OneCallIs ==
    ASSUME Inv, Len(seals) = 1, NEW call, NEW arrival, NEW key, NEW sk, OneCall(call, arrival, key, sk)
    PROVE  /\ Sound(last.result, call, arrival, seals[1])
           /\ last.call = call /\ last.aad = arrival.aad /\ last.ct = arrival.ct
           /\ Matching => last.result = Result("ok", "none", seals[1].text)
<1> DEFINE s == seals[1]
           r == Opens(call, arrival.ct, key, sk, arrival.aad)
<1>1. /\ arrival \in Arrivals(s) /\ key \in Seq(Nat) /\ call \in OpenCalls \cup {"decrypt"}
      /\ call = "decrypt" <=> s.ct.form = "tokens"
      /\ call = "decrypt_v8_key" => validate_key(key)
      /\ last = [call |-> call, key |-> key, sk |-> sk, aad |-> arrival.aad, ct |-> arrival.ct, result |-> r]
  BY DEF OneCall
<1>2. /\ last.call = call /\ last.key = key /\ last.sk = sk /\ last.aad = arrival.aad /\ last.ct = arrival.ct
      /\ last.result = r
  BY <1>1
<1>3. Input(s) /\ \E block, f, n, kb, w : MadeWith(s, block, f, n, kb, w)
  BY OnlySeal DEF Made
<1> HIDE DEF s, r
<1>4. PICK block, f, n, kb, w : MadeWith(s, block, f, n, kb, w)
  BY <1>3
<1> DEFINE b == Body(s.text, s.key, kb, n, block)
           p == Padded(s.text, block)
<1>5. block \in Nat /\ Len(s.text) <= block /\ MadeFrom(s, b, f, n, kb, w)
  BY <1>4 DEF MadeWith
<1>6. PICK S : Cells(b, p, s.key, kb, n, S)
  BY <1>3, <1>5, BodyCells
<1>7. Holds(p, s.text)
  BY <1>3, <1>5, PaddedHolds DEF Input
<1> HIDE DEF b, p
<1>8. Sound(r, call, arrival, s)
  <2>1. CASE s.call = "encrypt"
    <3>1. s.aad = <<>> /\ s.ct = Ciphertext("tokens", n, b, <<>>)
      BY <1>5, <2>1 DEF MadeFrom, SealedV7, SealedV8
    <3>2. s.ct.form = "tokens"
      BY <3>1 DEF Ciphertext
    <3>3. call = "decrypt"
      BY <1>1, <3>2
    <3> QED  BY <1>1, <1>3, <1>6, <1>7, <3>1, <3>3, BareCallIsSound DEF r
  <2>2. CASE s.call # "encrypt"
    <3>1. s.ct = Ciphertext(f, n, b, compute_auth_tag(kb, s.aad, n, b, w)) /\ f # "tokens"
      BY <1>5, <2>2 DEF MadeFrom, SealedV7, SealedV8
    <3>2. s.ct.form # "tokens"
      BY <3>1 DEF Ciphertext
    <3>3. call \in OpenCalls
      BY <1>1, <3>2
    <3> QED  BY <1>1, <1>3, <1>6, <1>7, <3>1, <3>3, TaggedCallIsSound DEF r
  <2> QED  BY <2>1, <2>2
<1>9. Matching => last.result = Result("ok", "none", s.text)
  <2> HAVE Matching
  <2>1. arrival.ct = s.ct /\ arrival.aad = s.aad /\ key = s.key /\ Counterpart(s, call, sk)
    BY <1>2, Zenon DEF Matching, Counterpart, s
  <2>2. Opens(call, s.ct, s.key, sk, s.aad) = Result("ok", "none", s.text)
    BY <1>3, <1>5, <1>6, <1>7, <2>1, CounterpartOpens
  <2> QED  BY <1>2, <2>1, <2>2 DEF r
<1> QED  BY <1>2, <1>8, <1>9 DEF s

-----------------------------------------------------------------------------
(* UTF-8 *)

Octets == {Byte(x) : x \in Nat}
Lead(b) == \E x \in Nat : b = Byte(x) /\ (x < 128 \/ x >= 192)
Continues(b) == \E x \in Nat : b = Byte(x) /\ x >= 128 /\ x < 192

LEMMA SameByte == ASSUME NEW x, NEW y, Byte(x) = Byte(y) PROVE x = y
  BY DEF Byte

LEMMA LeadOnly == ASSUME NEW b, Lead(b), Continues(b) PROVE FALSE
<1>1. PICK x \in Nat : b = Byte(x) /\ (x < 128 \/ x >= 192)
  BY DEF Lead
<1>2. PICK y \in Nat : b = Byte(y) /\ y >= 128 /\ y < 192
  BY DEF Continues
<1>3. x = y
  BY <1>1, <1>2, SameByte
<1> QED  BY <1>1, <1>2, <1>3

\* One leading byte, then only continuation bytes.
Codeword(u) ==
    /\ u \in Seq(Octets) /\ Len(u) \in Nat /\ Len(u) >= 1
    /\ Lead(u[1]) /\ \A i \in 2..Len(u) : Continues(u[i])

\* The four lengths of a codeword.
LEMMA OneByte == ASSUME NEW c \in Nat, c < 128 PROVE Utf8(c) = <<Byte(c)>>
  BY DEF Utf8

LEMMA TwoBytes ==
    ASSUME NEW c \in Nat, c >= 128, c < 2048
    PROVE  Utf8(c) = <<Byte(192 + c \div 64), Byte(128 + (c % 64))>>
  BY DEF Utf8

LEMMA ThreeBytes ==
    ASSUME NEW c \in Nat, c >= 2048, c < 65536
    PROVE  Utf8(c) = <<Byte(224 + c \div 4096), Byte(128 + ((c \div 64) % 64)), Byte(128 + (c % 64))>>
  BY DEF Utf8

LEMMA FourBytes ==
    ASSUME NEW c \in Nat, c >= 65536
    PROVE  Utf8(c) = <<Byte(240 + c \div 262144), Byte(128 + ((c \div 4096) % 64)),
                       Byte(128 + ((c \div 64) % 64)), Byte(128 + (c % 64))>>
  BY DEF Utf8

LEMMA Quotients == ASSUME NEW c \in Nat PROVE c \div 64 \in Nat /\ c \div 4096 \in Nat /\ c \div 262144 \in Nat
  OBVIOUS

LEMMA Sixth == ASSUME NEW c \in Nat PROVE Continues(Byte(128 + (c % 64))) /\ Byte(128 + (c % 64)) \in Octets
<1>1. 128 + (c % 64) \in Nat /\ 128 + (c % 64) >= 128 /\ 128 + (c % 64) < 192
  OBVIOUS
<1> QED  BY <1>1 DEF Continues, Octets

LEMMA Leading ==
    ASSUME NEW x \in Nat, x < 128 \/ x >= 192
    PROVE  Lead(Byte(x)) /\ Byte(x) \in Octets
  BY DEF Lead, Octets

LEMMA Codewords ==
    ASSUME NEW b \in Octets, Lead(b), NEW x \in Octets, Continues(x), NEW y \in Octets, Continues(y),
           NEW z \in Octets, Continues(z)
    PROVE  Codeword(<<b>>) /\ Codeword(<<b, x>>) /\ Codeword(<<b, x, y>>) /\ Codeword(<<b, x, y, z>>)
<1>1. Codeword(<<b>>)
  BY DEF Codeword
<1>2. Codeword(<<b, x>>)
  BY DEF Codeword
<1>3. Codeword(<<b, x, y>>)
  BY DEF Codeword
<1>4. Codeword(<<b, x, y, z>>)
  BY DEF Codeword
<1> QED  BY <1>1, <1>2, <1>3, <1>4

LEMMA Utf8Codeword == ASSUME NEW c \in Nat PROVE Codeword(Utf8(c))
<1> DEFINE x1 == Byte(128 + (c % 64))
           x2 == Byte(128 + ((c \div 64) % 64))
           x3 == Byte(128 + ((c \div 4096) % 64))
<1>1. Continues(x1) /\ Continues(x2) /\ Continues(x3) /\ x1 \in Octets /\ x2 \in Octets /\ x3 \in Octets
  BY Quotients, Sixth
<1>2. CASE c < 128
  <2>1. Lead(Byte(c)) /\ Byte(c) \in Octets
    BY <1>2, Leading
  <2>2. Utf8(c) = <<Byte(c)>>
    BY <1>2, OneByte
  <2> DEFINE b == Byte(c)
  <2> HIDE DEF x1, x2, x3, b
  <2>3. Codeword(<<b>>)
    BY <1>1, <2>1, Codewords DEF b
  <2> QED  BY <2>2, <2>3 DEF b
<1>3. CASE c >= 128 /\ c < 2048
  <2> DEFINE b == Byte(192 + c \div 64)
  <2>1. Lead(b) /\ b \in Octets
    <3>1. 192 + c \div 64 \in Nat /\ 192 + c \div 64 >= 192
      BY Quotients
    <3> QED  BY <3>1, Leading
  <2>2. Utf8(c) = <<b, x1>>
    BY <1>3, TwoBytes
  <2> HIDE DEF x1, x2, x3, b
  <2>3. Codeword(<<b, x1>>)
    BY <1>1, <2>1, Codewords
  <2> QED  BY <2>2, <2>3
<1>4. CASE c >= 2048 /\ c < 65536
  <2> DEFINE b == Byte(224 + c \div 4096)
  <2>1. Lead(b) /\ b \in Octets
    <3>1. 224 + c \div 4096 \in Nat /\ 224 + c \div 4096 >= 192
      BY Quotients
    <3> QED  BY <3>1, Leading
  <2>2. Utf8(c) = <<b, x2, x1>>
    BY <1>4, ThreeBytes
  <2> HIDE DEF x1, x2, x3, b
  <2>3. Codeword(<<b, x2, x1>>)
    BY <1>1, <2>1, Codewords
  <2> QED  BY <2>2, <2>3
<1>5. CASE c >= 65536
  <2> DEFINE b == Byte(240 + c \div 262144)
  <2>1. Lead(b) /\ b \in Octets
    <3>1. 240 + c \div 262144 \in Nat /\ 240 + c \div 262144 >= 192
      BY Quotients
    <3> QED  BY <3>1, Leading
  <2>2. Utf8(c) = <<b, x3, x2, x1>>
    BY <1>5, FourBytes
  <2> HIDE DEF x1, x2, x3, b
  <2>3. Codeword(<<b, x3, x2, x1>>)
    BY <1>1, <2>1, Codewords
  <2> QED  BY <2>2, <2>3
<1> QED  BY <1>2, <1>3, <1>4, <1>5

LEMMA Utf8Size ==
    ASSUME NEW c \in Nat
    PROVE  /\ Len(Utf8(c)) = 1 => c < 128
           /\ Len(Utf8(c)) = 2 => c >= 128 /\ c < 2048
           /\ Len(Utf8(c)) = 3 => c >= 2048 /\ c < 65536
           /\ Len(Utf8(c)) = 4 => c >= 65536
           /\ Len(Utf8(c)) \in {1, 2, 3, 4}
<1>1. CASE c < 128
  <2>1. Len(Utf8(c)) = 1
    BY <1>1, OneByte
  <2> QED  BY <1>1, <2>1
<1>2. CASE c >= 128 /\ c < 2048
  <2>1. Len(Utf8(c)) = 2
    BY <1>2, TwoBytes
  <2> QED  BY <1>2, <2>1
<1>3. CASE c >= 2048 /\ c < 65536
  <2>1. Len(Utf8(c)) = 3
    BY <1>3, ThreeBytes
  <2> QED  BY <1>3, <2>1
<1>4. CASE c >= 65536
  <2>1. Len(Utf8(c)) = 4
    BY <1>4, FourBytes
  <2> QED  BY <1>4, <2>1
<1> QED  BY <1>1, <1>2, <1>3, <1>4

LEMMA Pieces ==
    ASSUME NEW c \in Nat, NEW d \in Nat, c % 64 = d % 64
    PROVE  /\ c \div 64 = d \div 64 => c = d
           /\ (c \div 64) % 64 = (d \div 64) % 64 /\ c \div 4096 = d \div 4096 => c = d
           /\ (c \div 64) % 64 = (d \div 64) % 64 /\ (c \div 4096) % 64 = (d \div 4096) % 64
                 /\ c \div 262144 = d \div 262144 => c = d
<1>1. ASSUME NEW x \in Nat, NEW y \in Nat, x % 64 = y % 64, x \div 64 = y \div 64 PROVE x = y
  <2>1. x = 64 * (x \div 64) + (x % 64) /\ y = 64 * (y \div 64) + (y % 64)
    OBVIOUS
  <2> QED  BY <1>1, <2>1
<1>2. \A x \in Nat : (x \div 64) \div 64 = x \div 4096
  OBVIOUS
<1>3. \A x \in Nat : (x \div 4096) \div 64 = x \div 262144
  OBVIOUS
<1>4. (c \div 64) % 64 = (d \div 64) % 64 /\ c \div 4096 = d \div 4096 => c \div 64 = d \div 64
  BY <1>1, <1>2, Quotients
<1>5. (c \div 4096) % 64 = (d \div 4096) % 64 /\ c \div 262144 = d \div 262144 => c \div 4096 = d \div 4096
  BY <1>1, <1>3, Quotients
<1> QED  BY <1>1, <1>4, <1>5

LEMMA Utf8Injective ==
    ASSUME NEW c \in Nat, NEW d \in Nat, Utf8(c) = Utf8(d)
    PROVE  c = d
<1>0. /\ c % 64 \in Nat /\ (c \div 64) % 64 \in Nat /\ (c \div 4096) % 64 \in Nat
      /\ d % 64 \in Nat /\ (d \div 64) % 64 \in Nat /\ (d \div 4096) % 64 \in Nat
  OBVIOUS
<1>1. CASE Len(Utf8(c)) = 1
  <2>1. <<Byte(c)>> = <<Byte(d)>>
    BY <1>1, Utf8Size, OneByte
  <2>2. Byte(c) = Byte(d)
    BY <2>1
  <2> QED  BY <2>2, SameByte
<1>2. CASE Len(Utf8(c)) = 2
  <2>1. <<Byte(192 + c \div 64), Byte(128 + (c % 64))>> = <<Byte(192 + d \div 64), Byte(128 + (d % 64))>>
    BY <1>2, Utf8Size, TwoBytes
  <2>2. Byte(192 + c \div 64) = Byte(192 + d \div 64) /\ Byte(128 + (c % 64)) = Byte(128 + (d % 64))
    BY <2>1
  <2>3. 192 + c \div 64 = 192 + d \div 64 /\ 128 + (c % 64) = 128 + (d % 64)
    BY <2>2, SameByte
  <2>4. c \div 64 = d \div 64 /\ c % 64 = d % 64
    BY <1>0, <2>3, Quotients
  <2> QED  BY <2>4, Pieces
<1>3. CASE Len(Utf8(c)) = 3
  <2>1. <<Byte(224 + c \div 4096), Byte(128 + ((c \div 64) % 64)), Byte(128 + (c % 64))>>
          = <<Byte(224 + d \div 4096), Byte(128 + ((d \div 64) % 64)), Byte(128 + (d % 64))>>
    BY <1>3, Utf8Size, ThreeBytes
  <2>2. /\ Byte(224 + c \div 4096) = Byte(224 + d \div 4096)
        /\ Byte(128 + ((c \div 64) % 64)) = Byte(128 + ((d \div 64) % 64))
        /\ Byte(128 + (c % 64)) = Byte(128 + (d % 64))
    BY <2>1
  <2>3. /\ 224 + c \div 4096 = 224 + d \div 4096 /\ 128 + (c % 64) = 128 + (d % 64)
        /\ 128 + ((c \div 64) % 64) = 128 + ((d \div 64) % 64)
    BY <2>2, SameByte
  <2>4. c \div 4096 = d \div 4096 /\ c % 64 = d % 64 /\ (c \div 64) % 64 = (d \div 64) % 64
    BY <1>0, <2>3, Quotients
  <2> QED  BY <2>4, Pieces
<1>4. CASE Len(Utf8(c)) = 4
  <2>1. <<Byte(240 + c \div 262144), Byte(128 + ((c \div 4096) % 64)), Byte(128 + ((c \div 64) % 64)),
          Byte(128 + (c % 64))>>
          = <<Byte(240 + d \div 262144), Byte(128 + ((d \div 4096) % 64)), Byte(128 + ((d \div 64) % 64)),
              Byte(128 + (d % 64))>>
    BY <1>4, Utf8Size, FourBytes
  <2>2. /\ Byte(240 + c \div 262144) = Byte(240 + d \div 262144)
        /\ Byte(128 + ((c \div 4096) % 64)) = Byte(128 + ((d \div 4096) % 64))
        /\ Byte(128 + ((c \div 64) % 64)) = Byte(128 + ((d \div 64) % 64))
        /\ Byte(128 + (c % 64)) = Byte(128 + (d % 64))
    BY <2>1
  <2>3. /\ 240 + c \div 262144 = 240 + d \div 262144 /\ 128 + (c % 64) = 128 + (d % 64)
        /\ 128 + ((c \div 64) % 64) = 128 + ((d \div 64) % 64)
        /\ 128 + ((c \div 4096) % 64) = 128 + ((d \div 4096) % 64)
    BY <2>2, SameByte
  <2>4. /\ c \div 262144 = d \div 262144 /\ c % 64 = d % 64 /\ (c \div 64) % 64 = (d \div 64) % 64
        /\ (c \div 4096) % 64 = (d \div 4096) % 64
    BY <1>0, <2>3, Quotients
  <2> QED  BY <2>4, Pieces
<1> QED  BY <1>1, <1>2, <1>3, <1>4, Utf8Size

LEMMA Overlap ==
    ASSUME NEW lu \in Nat, NEW lv \in Nat, NEW lx \in Nat, NEW ly \in Nat, lu >= 1, lu < lv, lx + lu = ly + lv
    PROVE  /\ lv - lu + 1 \in 2..lv /\ lv - lu + 1 \in 1..lv /\ 1 \in 1..lu
           /\ ly + (lv - lu + 1) = lx + 1
  OBVIOUS

\* A codeword at the end of a sequence is found without knowing where it starts.
LEMMA CodewordNotWithin ==
    ASSUME NEW x \in Seq(Octets), NEW y \in Seq(Octets), NEW u, Codeword(u), NEW v, Codeword(v),
           NEW z, Joins(z, x, u), Joins(z, y, v)
    PROVE  ~(Len(u) < Len(v))
<1> SUFFICES ASSUME Len(u) < Len(v) PROVE FALSE
  OBVIOUS
<1>1. /\ u \in Seq(Octets) /\ v \in Seq(Octets) /\ Len(u) \in Nat /\ Len(v) \in Nat /\ Len(u) >= 1
      /\ Len(x) \in Nat /\ Len(y) \in Nat /\ Lead(u[1]) /\ \A i \in 2..Len(v) : Continues(v[i])
  BY DEF Codeword
<1>2. Joined(Octets, z, x, u) /\ Joined(Octets, z, y, v)
  BY <1>1, JoinTyped
<1>3. /\ Len(z) = Len(x) + Len(u) /\ Len(z) = Len(y) + Len(v)
      /\ \A i \in 1..Len(u) : z[Len(x) + i] = u[i]
      /\ \A i \in 1..Len(v) : z[Len(y) + i] = v[i]
  BY <1>2 DEF Joined
<1> DEFINE k == Len(v) - Len(u) + 1
<1>4. k \in 2..Len(v) /\ Len(y) + k = Len(x) + 1 /\ 1 \in 1..Len(u) /\ k \in 1..Len(v)
  <2>1. Len(x) + Len(u) = Len(y) + Len(v)
    BY <1>3
  <2> DEFINE lu == Len(u)
             lv == Len(v)
             lx == Len(x)
             ly == Len(y)
  <2>2. lu \in Nat /\ lv \in Nat /\ lx \in Nat /\ ly \in Nat /\ lu >= 1 /\ lu < lv /\ lx + lu = ly + lv
    BY <1>1, <2>1
  <2> HIDE DEF lu, lv, lx, ly
  <2>3. lv - lu + 1 \in 2..lv /\ lv - lu + 1 \in 1..lv /\ 1 \in 1..lu /\ ly + (lv - lu + 1) = lx + 1
    BY <2>2, Overlap
  <2> QED  BY <2>3 DEF lu, lv, lx, ly
<1> HIDE DEF k
<1>5. z[Len(x) + 1] = u[1] /\ z[Len(y) + k] = v[k]
  BY <1>3, <1>4
<1>6. u[1] = v[k]
  BY <1>4, <1>5
<1>7. Continues(u[1])
  BY <1>1, <1>4, <1>6
<1> QED  BY <1>1, <1>7, LeadOnly

LEMMA SuffixFree ==
    ASSUME NEW x \in Seq(Octets), NEW y \in Seq(Octets), NEW u, Codeword(u), NEW v, Codeword(v),
           NEW z, Joins(z, x, u), Joins(z, y, v)
    PROVE  x = y /\ u = v
<1>1. ~(Len(u) < Len(v)) /\ ~(Len(v) < Len(u))
  BY CodewordNotWithin
<1>2. u \in Seq(Octets) /\ v \in Seq(Octets) /\ Len(u) \in Nat /\ Len(v) \in Nat
  BY DEF Codeword
<1>3. Len(u) = Len(v)
  BY <1>1, <1>2
<1>4. Joined(Octets, z, x, u) /\ Joined(Octets, z, y, v)
  BY <1>2, JoinTyped
<1>5. Len(z) = Len(x) + Len(u) /\ Len(z) = Len(y) + Len(v) 
  BY <1>4 DEF Joined
<1>6. Len(x) = Len(y)
  <2>1. Len(x) \in Nat /\ Len(y) \in Nat
    OBVIOUS
  <2> QED  BY <1>2, <1>3, <1>5, <2>1
<1> QED  BY <1>2, <1>6, Split

\* The recursive function of FlattenSeq exists.
IsFlatten(f, words, n) == f = [i \in 1..n |-> IF i = 1 THEN words[i] ELSE f[i-1] \o words[i]]

LEMMA FlattenExists ==
    ASSUME NEW words, NEW n \in Nat
    PROVE  \E f : IsFlatten(f, words, n)
<1> DEFINE T == {m \in Nat : ~\E f : IsFlatten(f, words, m)}
<1> SUFFICES ASSUME T # {} PROVE FALSE
  OBVIOUS
<1>1. PICK m \in T : \A k \in T : m <= k
  <2>1. T \in SUBSET Nat
    OBVIOUS
  <2> HIDE DEF T
  <2> QED  BY <2>1, NatLeast
<1>2. m # 0
  <2> SUFFICES ASSUME m = 0 PROVE FALSE
    OBVIOUS
  <2> DEFINE f == [i \in 1..0 |-> words[i]]
  <2>1. f = [i \in 1..0 |-> IF i = 1 THEN words[i] ELSE f[i-1] \o words[i]]
    OBVIOUS
  <2> HIDE DEF f
  <2>2. IsFlatten(f, words, 0)
    BY <2>1 DEF IsFlatten
  <2> QED  BY <1>1, <2>2
<1>3. m \in Nat /\ m - 1 \in Nat /\ m - 1 \notin T
  BY <1>1, <1>2
<1>4. PICK f : IsFlatten(f, words, m - 1)
  BY <1>3
<1> DEFINE g == [i \in 1..m |-> IF i <= m - 1 THEN f[i] ELSE IF i = 1 THEN words[i] ELSE f[i-1] \o words[i]]
           h == [i \in 1..m |-> IF i = 1 THEN words[i] ELSE g[i-1] \o words[i]]
<1>5. \A i \in 1..(m - 1) : f[i] = IF i = 1 THEN words[i] ELSE f[i-1] \o words[i]
  BY <1>4 DEF IsFlatten
<1>6. ASSUME NEW i \in 1..m PROVE g[i] = h[i]
  <2>1. g[i] = IF i = 1 THEN words[i] ELSE f[i-1] \o words[i]
    BY <1>3, <1>5
  <2>2. i # 1 => g[i-1] = f[i-1]
    BY <1>3
  <2> HIDE DEF g
  <2> QED  BY <2>1, <2>2
<1>7. g = h
  <2>1. g = [i \in 1..m |-> g[i]] /\ h = [i \in 1..m |-> h[i]]
    OBVIOUS
  <2> HIDE DEF g, h
  <2> QED  BY <1>6, <2>1
<1> HIDE DEF g
<1>8. IsFlatten(g, words, m)
  BY <1>7 DEF IsFlatten
<1> QED  BY <1>1, <1>8

\* The bytes of each beginning of a text.
Encoding(g, text) ==
    /\ g[0] = <<>>
    /\ \A i \in 0..Len(text) : g[i] \in Seq(Octets)
    /\ \A i \in 1..Len(text) : Joins(g[i], g[i-1], Utf8(text[i]))
    /\ as_bytes(text) = g[Len(text)]

LEMMA EmptyJoin == ASSUME NEW T, NEW u \in Seq(T) PROVE <<>> \o u = u
  OBVIOUS

LEMMA EncodingExists ==
    ASSUME NEW text \in Seq(Nat)
    PROVE  \E g : Encoding(g, text)
<1> DEFINE n == Len(text)
           words == [i \in DOMAIN text |-> Utf8(text[i])]
           f == CHOOSE f : IsFlatten(f, words, n)
           g == [i \in 0..n |-> IF i = 0 THEN <<>> ELSE f[i]]
<1>1. n \in Nat /\ DOMAIN text = 1..n /\ \A i \in 1..n : text[i] \in Nat
  OBVIOUS
<1>2. \A i \in 1..n : words[i] = Utf8(text[i]) /\ words[i] \in Seq(Octets)
  BY <1>1, Utf8Codeword DEF Codeword
<1>3. words \in [1..n -> Seq(Octets)]
  BY <1>1, <1>2
<1>4. Len(words) = n
  <2> HIDE DEF words
  <2> QED  BY <1>1, <1>3, FunctionIsSeq
<1>5. as_bytes(text) = IF n = 0 THEN words ELSE f[n]
  <2>1. as_bytes(text) = FlattenSeq(words)
    BY DEF as_bytes
  <2> HIDE DEF words
  <2>2. FlattenSeq(words) = IF Len(words) = 0 THEN words ELSE (CHOOSE e : IsFlatten(e, words, Len(words)))[Len(words)]
    BY Zenon DEF FlattenSeq, IsFlatten
  <2> QED  BY <1>4, <2>1, <2>2
<1> HIDE DEF words, n
<1>6. IsFlatten(f, words, n)
  BY <1>1, FlattenExists
<1> HIDE DEF f
<1>7. /\ \A i \in 1..n : f[i] = IF i = 1 THEN words[i] ELSE f[i-1] \o words[i]
  BY <1>6 DEF IsFlatten
<1>8. g[0] = <<>> /\ \A i \in 1..n : g[i] = f[i]
  BY <1>1
<1> HIDE DEF g
<1>9. ASSUME NEW i \in 1..n PROVE Joins(g[i], g[i-1], Utf8(text[i]))
  <2>1. CASE i = 1
    <3>1. g[i] = words[i] /\ g[i-1] = <<>>
      BY <1>1, <1>7, <1>8, <2>1
    <3> QED  BY <1>2, <3>1, EmptyJoin DEF Joins
  <2>2. CASE i # 1
    <3>1. i - 1 \in 1..n
      BY <1>1, <2>2
    <3>2. g[i] = f[i-1] \o words[i] /\ g[i-1] = f[i-1]
      BY <1>7, <1>8, <2>2, <3>1
    <3> QED  BY <1>2, <3>2 DEF Joins
  <2> QED  BY <2>1, <2>2
<1>10. \A i \in 0..n : g[i] \in Seq(Octets)
  <2> DEFINE T == {i \in Nat : i <= n /\ g[i] \notin Seq(Octets)}
  <2> SUFFICES ASSUME T # {} PROVE FALSE
    BY <1>1
  <2>1. PICK m \in T : \A k \in T : m <= k
    <3>1. T \in SUBSET Nat
      OBVIOUS
    <3> HIDE DEF T
    <3> QED  BY <3>1, NatLeast
  <2>2. m # 0
    <3>1. <<>> \in Seq(Octets)
      OBVIOUS
    <3> QED  BY <1>8, <2>1, <3>1
  <2>3. m \in 1..n /\ m - 1 \in Nat /\ m - 1 <= n /\ m - 1 \notin T
    BY <1>1, <2>1, <2>2
  <2>4. g[m-1] \in Seq(Octets)
    BY <2>3
  <2>5. Utf8(text[m]) \in Seq(Octets)
    BY <1>2, <2>3
  <2>6. Joins(g[m], g[m-1], Utf8(text[m]))
    BY <1>9, <2>3
  <2>7. g[m] \in Seq(Octets)
    BY <2>4, <2>5, <2>6, JoinTyped DEF Joined
  <2> QED  BY <2>1, <2>7
<1>11. as_bytes(text) = g[n]
  <2>1. CASE n = 0
    <3>1. words = <<>>
      BY <1>3, <2>1
    <3> QED  BY <1>5, <1>8, <2>1, <3>1
  <2>2. CASE n # 0
    BY <1>1, <1>5, <1>8, <2>2
  <2> QED  BY <2>1, <2>2
<1>12. Encoding(g, text)
  BY <1>8, <1>9, <1>10, <1>11 DEF Encoding, n
<1> QED  BY <1>12

\* A codeword is not empty.
LEMMA NotEmpty ==
    ASSUME NEW x \in Seq(Octets), NEW u, Codeword(u), NEW z, Joins(z, x, u)
    PROVE  z # <<>>
<1>1. u \in Seq(Octets) /\ Len(u) \in Nat /\ Len(u) >= 1
  BY DEF Codeword
<1>2. Len(z) = Len(x) + Len(u)
  BY <1>1, JoinTyped DEF Joined
<1>3. Len(x) \in Nat /\ Len(<<>>) = 0
  OBVIOUS
<1> QED  BY <1>1, <1>2, <1>3

Alike(i, j, text, text2) == i = j /\ \A k \in 1..i : text[k] = text2[k]

\* Read from the end, beginnings of two texts with the same bytes are the same.
LEMMA BeginningsDecode ==
    ASSUME NEW text \in Seq(Nat), NEW text2 \in Seq(Nat), NEW g, NEW h, Encoding(g, text), Encoding(h, text2),
           NEW i \in 0..Len(text), NEW j \in 0..Len(text2), g[i] = h[j]
    PROVE  Alike(i, j, text, text2)
<1> DEFINE Fails(a) == \E b \in 0..Len(text2) : g[a] = h[b] /\ ~Alike(a, b, text, text2)
           T == {a \in Nat : a <= Len(text) /\ Fails(a)}
<1>0. Len(text) \in Nat /\ Len(text2) \in Nat
  OBVIOUS
<1> SUFFICES ASSUME T # {} PROVE FALSE
  BY <1>0
<1>1. PICK m \in T : \A k \in T : m <= k
  <2>1. T \in SUBSET Nat
    OBVIOUS
  <2> HIDE DEF T
  <2> QED  BY <2>1, NatLeast
<1>2. m \in 0..Len(text) /\ Fails(m)
  BY <1>0, <1>1
<1>3. PICK b \in 0..Len(text2) : g[m] = h[b] /\ ~Alike(m, b, text, text2)
  BY <1>2
<1>4. /\ g[0] = <<>> /\ h[0] = <<>>
      /\ \A a \in 0..Len(text) : g[a] \in Seq(Octets)
      /\ \A a \in 0..Len(text2) : h[a] \in Seq(Octets)
      /\ \A a \in 1..Len(text) : Joins(g[a], g[a-1], Utf8(text[a]))
      /\ \A a \in 1..Len(text2) : Joins(h[a], h[a-1], Utf8(text2[a]))
  BY DEF Encoding
<1>5. m # 0 => m \in 1..Len(text) /\ m - 1 \in 0..Len(text)
  BY <1>0, <1>2
<1>6. b # 0 => b \in 1..Len(text2) /\ b - 1 \in 0..Len(text2)
  BY <1>0, <1>3
<1>7. m # 0 => g[m] # <<>>
  <2> HAVE m # 0
  <2>1. text[m] \in Nat
    <3> HIDE DEF T, Fails
    <3> QED  BY <1>5
  <2> QED  BY <1>4, <1>5, <2>1, Utf8Codeword, NotEmpty
<1>8. b # 0 => h[b] # <<>>
  <2> HAVE b # 0
  <2>1. text2[b] \in Nat
    <3> HIDE DEF T, Fails
    <3> QED  BY <1>6
  <2> QED  BY <1>4, <1>6, <2>1, Utf8Codeword, NotEmpty
<1>9. ~(m = 0 /\ b = 0)
  <2>1. Alike(0, 0, text, text2)
    BY DEF Alike
  <2> QED  BY <1>3, <2>1
<1>10. m # 0 /\ b # 0
  BY <1>3, <1>4, <1>7, <1>8, <1>9
<1>11. text[m] \in Nat /\ text2[b] \in Nat
  <2> HIDE DEF T, Fails
  <2>1. m \in 1..Len(text) /\ b \in 1..Len(text2)
    BY <1>5, <1>6, <1>10
  <2>2. text[m] \in Nat
    BY <2>1
  <2>3. text2[b] \in Nat
    BY <2>1
  <2> QED  BY <2>2, <2>3
<1>12. g[m-1] \in Seq(Octets) /\ h[b-1] \in Seq(Octets)
  BY <1>4, <1>5, <1>6, <1>10
<1>13. Joins(g[m], g[m-1], Utf8(text[m])) /\ Joins(g[m], h[b-1], Utf8(text2[b]))
  BY <1>3, <1>4, <1>5, <1>6, <1>10
<1>14. g[m-1] = h[b-1] /\ Utf8(text[m]) = Utf8(text2[b])
  <2>1. Codeword(Utf8(text[m])) /\ Codeword(Utf8(text2[b]))
    BY <1>11, Utf8Codeword
  <2> QED  BY <1>12, <1>13, <2>1, SuffixFree
<1>15. text[m] = text2[b]
  BY <1>11, <1>14, Utf8Injective
<1>16. m - 1 \notin T
  <2>1. m \in Nat /\ ~(m <= m - 1)
    BY <1>1
  <2> HIDE DEF T
  <2> QED  BY <1>1, <2>1
<1>17. Alike(m - 1, b - 1, text, text2)
  <2>1. m - 1 \in Nat /\ m - 1 <= Len(text)
    BY <1>0, <1>5, <1>10
  <2>2. ~Fails(m - 1)
    <3> HIDE DEF Fails
    <3> QED  BY <1>16, <2>1
  <2> QED  BY <1>6, <1>10, <1>14, <2>2
<1>18. Alike(m, b, text, text2)
  <2>1. m \in Nat /\ b \in Nat
    BY <1>1, <1>3
  <2>2. m - 1 = b - 1 /\ \A k \in 1..(m - 1) : text[k] = text2[k]
    BY <1>17 DEF Alike
  <2>3. m = b
    BY <2>1, <2>2
  <2>4. ASSUME NEW k \in 1..m PROVE text[k] = text2[k]
    <3>1. k = m \/ k \in 1..(m - 1)
      BY <2>1
    <3> QED  BY <1>15, <2>2, <2>3, <3>1
  <2> QED  BY <2>3, <2>4 DEF Alike
<1> QED  BY <1>3, <1>18

\* UTF-8 is uniquely decodable.
LEMMA BytesDecode ==
    ASSUME NEW text \in Seq(Nat), NEW text2 \in Seq(Nat)
    PROVE  as_bytes(text) \in Seq(Octets) /\ (as_bytes(text) = as_bytes(text2) => text = text2)
<1>1. PICK g : Encoding(g, text)
  BY EncodingExists
<1>2. PICK h : Encoding(h, text2)
  BY EncodingExists
<1>3. Len(text) \in 0..Len(text) /\ Len(text2) \in 0..Len(text2)
  OBVIOUS
<1>4. as_bytes(text) = g[Len(text)] /\ as_bytes(text2) = h[Len(text2)] /\ g[Len(text)] \in Seq(Octets)
  BY <1>1, <1>2, <1>3 DEF Encoding
<1>5. as_bytes(text) = as_bytes(text2) => Alike(Len(text), Len(text2), text, text2)
  BY <1>1, <1>2, <1>3, <1>4, BeginningsDecode
<1>6. Alike(Len(text), Len(text2), text, text2) => text = text2
  BY SameSeq DEF Alike
<1> QED  BY <1>4, <1>5, <1>6
-----------------------------------------------------------------------------
(* Synthetic nonces *)

LEMMA PaddedSize ==
    ASSUME NEW text \in Seq(Nat), NEW block \in Nat, Len(text) <= block
    PROVE  Len(Padded(text, block)) = 2 + block
<1> DEFINE n == Len(text)
           l == <<n \div 256, n % 256>>
           q == [i \in 1 .. (block - n) |-> 32]
           p == l \o text
           r == p \o q
<1>1. n \in Nat /\ block - n \in Nat
  OBVIOUS
<1>2. Padded(text, block) = r
  BY DEF Padded
<1>3. l \in Seq(Nat) /\ Len(l) = 2
  BY <1>1
<1>4. q \in [1 .. (block - n) -> Nat]
  OBVIOUS
<1>5. Joins(p, l, text) /\ Joins(r, p, q)
  BY DEF Joins
<1> HIDE DEF l, q, p, r, n
<1>6. q \in Seq(Nat) /\ Len(q) = block - n
  BY <1>1, <1>4, FunctionIsSeq
<1>7. p \in Seq(Nat) /\ Len(p) = 2 + n
  <2>1. Joined(Nat, p, l, text)
    BY <1>3, <1>5, JoinTyped
  <2> QED  BY <1>3, <2>1 DEF Joined, n
<1>8. Len(r) = Len(p) + Len(q)
  BY <1>5, <1>6, <1>7, JoinTyped DEF Joined
<1> QED  BY <1>1, <1>2, <1>6, <1>7, <1>8

\* What encrypt_bytes_v8_core made.
MadeV8(s, block) ==
    LET kb == KeyV8(s.sk)
        n == synthetic_nonce(kb, s.aad, s.text)
        b == Body(s.text, s.key, kb, n, block)
    IN  /\ block \in Nat /\ Len(s.text) <= block
        /\ s.ct = Ciphertext("bytes", n, b, compute_auth_tag(kb, s.aad, n, b, 8))

LEMMA MadeByV8 ==
    ASSUME NEW s, Made(s), s.call = "encrypt_v8"
    PROVE  \E block : MadeV8(s, block)
<1>1. PICK block, f, n, kb, w : MadeWith(s, block, f, n, kb, w)
  BY DEF Made
<1> DEFINE b == Body(s.text, s.key, kb, n, block)
<1>2. block \in Nat /\ Len(s.text) <= block /\ MadeFrom(s, b, f, n, kb, w)
  BY <1>1 DEF MadeWith
<1> HIDE DEF b
<1>3. s.ct = Ciphertext(f, n, b, compute_auth_tag(kb, s.aad, n, b, w)) /\ SealedV8(s, f, kb, n, w)
  BY <1>2 DEF MadeFrom, SealedV7
<1>4. f = "bytes" /\ kb = KeyV8(s.sk) /\ w = 8 /\ n = synthetic_nonce(kb, s.aad, s.text)
  BY <1>3 DEF SealedV8
<1>5. MadeV8(s, block)
  BY <1>2, <1>3, <1>4, Zenon DEF MadeV8, b
<1> QED  BY <1>5

LEMMA NonceOfV8 ==
    ASSUME NEW s, NEW block, MadeV8(s, block)
    PROVE  /\ s.ct.nonce = synthetic_nonce(KeyV8(s.sk), s.aad, s.text)
           /\ s.ct.body = Body(s.text, s.key, KeyV8(s.sk), s.ct.nonce, block)
  BY DEF MadeV8, Ciphertext

LEMMA SameNonce ==
    ASSUME NEW s, NEW t, Input(s), Input(t), NEW block, NEW block2, MadeV8(s, block), MadeV8(t, block2),
           s.ct.nonce = t.ct.nonce
    PROVE  s.sk = t.sk /\ s.aad = t.aad /\ s.text = t.text
<1>1. s.text \in Seq(Nat) /\ t.text \in Seq(Nat) /\ s.aad \in Seq(Bytes) /\ t.aad \in Seq(Bytes)
  BY DEF Input
<1>2. Bytes \subseteq Octets
  BY DEF Bytes, Octets, Byte
<1>3. s.aad \in Seq(Octets) /\ t.aad \in Seq(Octets)
  BY <1>1, <1>2
<1>4. as_bytes(s.text) \in Seq(Octets) /\ as_bytes(t.text) \in Seq(Octets)
  BY <1>1, BytesDecode
<1>5. synthetic_nonce(KeyV8(s.sk), s.aad, s.text) = synthetic_nonce(KeyV8(t.sk), t.aad, t.text)
  BY NonceOfV8
<1>6. KeyV8(s.sk) = KeyV8(t.sk) /\ s.aad = t.aad /\ as_bytes(s.text) = as_bytes(t.text)
  BY <1>3, <1>4, <1>5, NonceBinds
<1>7. s.sk = t.sk
  BY <1>6 DEF KeyV8, derive_format_subkey
<1>8. s.text = t.text
  BY <1>1, <1>6, BytesDecode
<1> QED  BY <1>6, <1>7, <1>8

LEMMA SameCiphertext ==
    ASSUME NEW s, NEW t, Input(s), Input(t), NEW block, NEW block2, MadeV8(s, block), MadeV8(t, block2),
           s.sk = t.sk, s.aad = t.aad, s.text = t.text, s.key = t.key, Len(s.ct.body) = Len(t.ct.body)
    PROVE  s.ct = t.ct
<1>1. s.text \in Seq(Nat) /\ Len(s.text) <= 65535 /\ Scalars(s.text)
  BY DEF Input
<1>2. block \in Nat /\ Len(s.text) <= block /\ block2 \in Nat /\ Len(s.text) <= block2
  BY DEF MadeV8
<1> DEFINE n == synthetic_nonce(KeyV8(s.sk), s.aad, s.text)
           Sized(k) == Body(s.text, s.key, KeyV8(s.sk), n, k)
<1>3. s.ct.body = Sized(block) /\ t.ct.body = Sized(block2)
  BY NonceOfV8, Zenon
<1>4. ASSUME NEW k \in Nat, Len(s.text) <= k PROVE Len(Sized(k)) = 2 + k
  <2> DEFINE p == Padded(s.text, k)
             b == Sized(k)
  <2>1. IsBody(b, p, s.key, KeyV8(s.sk), n)
    BY <1>1, <1>4, BodyIs
  <2>2. Len(p) = 2 + k
    BY <1>1, <1>4, PaddedSize
  <2> HIDE DEF p, b, n
  <2>3. b = [i \in 1..(2 + k) |-> Cell(KeyV8(s.sk), n, i, Element(s.key, i), p[i])]
    BY <2>1, <2>2 DEF IsBody
  <2>4. 2 + k \in Nat
    OBVIOUS
  <2> DEFINE S == {b[i] : i \in 1..(2 + k)}
  <2>5. b \in [1..(2 + k) -> S]
    BY <2>3
  <2> HIDE DEF S
  <2>6. Len(b) = 2 + k
    BY <2>4, <2>5, FunctionIsSeq
  <2> QED  BY <2>6 DEF b
<1> HIDE DEF Sized, n
<1>5. 2 + block = 2 + block2
  BY <1>2, <1>3, <1>4
<1>6. block = block2
  BY <1>2, <1>5
<1> QED  BY <1>6, Zenon DEF MadeV8

Separate(a, b) ==
    /\ a.ct.nonce = b.ct.nonce => a.sk = b.sk /\ a.aad = b.aad /\ a.text = b.text
    /\ a.sk = b.sk /\ a.aad = b.aad /\ a.text = b.text /\ a.key = b.key /\ Len(a.ct.body) = Len(b.ct.body)
          => a.ct = b.ct

LEMMA Triples ==
    ASSUME NEW a, NEW b
    PROVE  (<<a.sk, a.aad, a.text>> = <<b.sk, b.aad, b.text>>) <=> (a.sk = b.sk /\ a.aad = b.aad /\ a.text = b.text)
  OBVIOUS

LEMMA Quadruples ==
    ASSUME NEW a, NEW b
    PROVE  (<<a.sk, a.aad, a.text, a.key>> = <<b.sk, b.aad, b.text, b.key>>)
              <=> (a.sk = b.sk /\ a.aad = b.aad /\ a.text = b.text /\ a.key = b.key)
  OBVIOUS

LEMMA SeparateIs ==
    ASSUME \A i, j \in DOMAIN seals : Separate(seals[i], seals[j])
    PROVE  NoncesSeparate
<1> SUFFICES ASSUME NEW i \in DOMAIN seals, NEW j \in DOMAIN seals
             PROVE  /\ seals[i].ct.nonce = seals[j].ct.nonce =>
                         <<seals[i].sk, seals[i].aad, seals[i].text>> = <<seals[j].sk, seals[j].aad, seals[j].text>>
                    /\ <<seals[i].sk, seals[i].aad, seals[i].text, seals[i].key>>
                          = <<seals[j].sk, seals[j].aad, seals[j].text, seals[j].key>>
                       /\ Len(seals[i].ct.body) = Len(seals[j].ct.body) => seals[i].ct = seals[j].ct
  BY Zenon DEF NoncesSeparate
<1> DEFINE a == seals[i]
           b == seals[j]
<1>1. Separate(a, b)
  OBVIOUS
<1> HIDE DEF a, b
<1>2. /\ a.ct.nonce = b.ct.nonce => <<a.sk, a.aad, a.text>> = <<b.sk, b.aad, b.text>>
      /\ <<a.sk, a.aad, a.text, a.key>> = <<b.sk, b.aad, b.text, b.key>>
            /\ Len(a.ct.body) = Len(b.ct.body) => a.ct = b.ct
  BY <1>1, Triples, Quadruples DEF Separate
<1> QED  BY <1>2 DEF a, b

\* Two different seals are both v8 seals.
LEMMA TwoSeals ==
    ASSUME Inv, NEW i \in DOMAIN seals, NEW j \in DOMAIN seals, i # j
    PROVE  Made(seals[i]) /\ Made(seals[j]) /\ seals[i].call = "encrypt_v8" /\ seals[j].call = "encrypt_v8"
<1>1. CASE seals = <<>>
  BY <1>1
<1>2. CASE \E s : seals = <<s>> /\ Made(s)
  <2>1. PICK s : seals = <<s>>
    BY <1>2
  <2>2. DOMAIN seals = 1..1
    BY <2>1
  <2> QED  BY <2>2
<1>3. CASE \E s, t : seals = <<s, t>> /\ Made(s) /\ Made(t) /\ s.call = "encrypt_v8" /\ t.call = "encrypt_v8"
  <2>1. PICK s, t : seals = <<s, t>> /\ Made(s) /\ Made(t) /\ s.call = "encrypt_v8" /\ t.call = "encrypt_v8"
    BY <1>3
  <2>2. DOMAIN seals = 1..2 /\ seals[1] = s /\ seals[2] = t
    BY <2>1
  <2>3. i = 1 \/ i = 2
    BY <2>2
  <2>4. j = 1 \/ j = 2
    BY <2>2
  <2>5. seals[i] \in {s, t} /\ seals[j] \in {s, t}
    BY <2>2, <2>3, <2>4
  <2> QED  BY <2>1, <2>5
<1> QED  BY <1>1, <1>2, <1>3 DEF Inv, SealsMade
-----------------------------------------------------------------------------
(* Theorems *)

\* Every seal was made by one of the sealing calls from an input it accepts, and every
\* answer is that of one opening call to something made of the seal.
THEOREM BlockInvariant == Spec => []Inv
<1>1. Init => Inv
  BY InvInit
<1>2. Inv /\ [Next]_vars => Inv'
  BY InvStep
<1> QED  BY <1>1, <1>2, PTL DEF Spec

\* For every tuple, AAD and text that encrypt, encrypt_bytes, encrypt_str, encrypt_raw or
\* encrypt_bytes_v8 accepts, the matching call returns the text.
THEOREM SealsOpen == Spec => []RoundTrips
<1>1. Inv => RoundTrips
  <2> SUFFICES ASSUME Inv, Opened, Matching PROVE last.result = Result("ok", "none", seals[1].text)
    BY DEF RoundTrips
  <2>1. Len(seals) = 1 /\ \E call, arrival, key, sk : OneCall(call, arrival, key, sk)
    BY DEF Inv, Opened
  <2>2. PICK call, arrival, key, sk : OneCall(call, arrival, key, sk)
    BY <2>1
  <2> QED  BY <2>1, <2>2, OneCallIs
<1> QED  BY <1>1, BlockInvariant, PTL

\* No tuple, AAD, sk or arrival makes a call panic: in v7 validate_key_v7_decrypt comes
\* between the tag and the arithmetic.
THEOREM CallsNeverPanic == Spec => []NeverPanics
<1>1. Inv => NeverPanics
  <2> SUFFICES ASSUME Inv PROVE last.result.status # "panic"
    BY DEF NeverPanics
  <2>1. CASE last.result = Err("none")
    BY <2>1 DEF Err, Result
  <2>2. CASE Len(seals) = 1 /\ \E call, arrival, key, sk : OneCall(call, arrival, key, sk)
    <3>1. PICK call, arrival, key, sk : OneCall(call, arrival, key, sk)
      BY <2>2
    <3> QED  BY <2>2, <3>1, OneCallIs DEF Sound
  <2> QED  BY <2>1, <2>2 DEF Inv
<1> QED  BY <1>1, BlockInvariant, PTL

\* Past the tag check of open_v7 and decrypt_bytes_v8_core there is only what was sealed,
\* AAD and body each where it was.
THEOREM OnlySealedVerifies == Spec => []VerifiedIsSealed
<1>1. Inv => VerifiedIsSealed
  <2> SUFFICES ASSUME Inv, last.call \in OpenCalls, last.result.why \in {"key", "tokens", "convention", "none"}
               PROVE  last.aad = seals[1].aad /\ last.ct = seals[1].ct
    BY DEF VerifiedIsSealed
  <2>1. Len(seals) = 1 /\ \E call, arrival, key, sk : OneCall(call, arrival, key, sk)
    BY DEF Inv
  <2>2. PICK call, arrival, key, sk : OneCall(call, arrival, key, sk)
    BY <2>1
  <2> QED  BY <2>1, <2>2, OneCallIs DEF Sound
<1> QED  BY <1>1, BlockInvariant, PTL

\* Under any key and any plaintext convention a call returns an error or exactly what
\* was sealed, also where no tag protects the tokens (decrypt).
THEOREM NothingElseOpens == Spec => []OpensToSealed
<1>1. Inv => OpensToSealed
  <2> SUFFICES ASSUME Inv, last.result.status = "ok" PROVE last.result.text = seals[1].text
    BY DEF OpensToSealed
  <2>1. last.result # Err("none")
    BY DEF Err, Result
  <2>2. Len(seals) = 1 /\ \E call, arrival, key, sk : OneCall(call, arrival, key, sk)
    BY <2>1 DEF Inv
  <2>3. PICK call, arrival, key, sk : OneCall(call, arrival, key, sk)
    BY <2>2
  <2> QED  BY <2>2, <2>3, OneCallIs DEF Sound
<1> QED  BY <1>1, BlockInvariant, PTL

\* Two v8 seals under one sk share a nonce only for the same AAD and message, whatever the
\* codepoints: the length prefix keeps AAD and message apart and UTF-8 keeps the codepoints
\* apart (synthetic_nonce).
THEOREM NoncesDoSeparate == Spec => []NoncesSeparate
<1>1. Inv => NoncesSeparate
  <2> SUFFICES ASSUME Inv, NEW i \in DOMAIN seals, NEW j \in DOMAIN seals PROVE Separate(seals[i], seals[j])
    BY SeparateIs
  <2>1. CASE i = j
    BY <2>1 DEF Separate
  <2>2. CASE i # j
    <3>1. Made(seals[i]) /\ Made(seals[j]) /\ seals[i].call = "encrypt_v8" /\ seals[j].call = "encrypt_v8"
      BY <2>2, TwoSeals
    <3>2. PICK block : MadeV8(seals[i], block)
      BY <3>1, MadeByV8
    <3>3. PICK block2 : MadeV8(seals[j], block2)
      BY <3>1, MadeByV8
    <3>4. Input(seals[i]) /\ Input(seals[j])
      BY <3>1 DEF Made
    <3> QED  BY <3>2, <3>3, <3>4, SameNonce, SameCiphertext DEF Separate
  <2> QED  BY <2>1, <2>2
<1> QED  BY <1>1, BlockInvariant, PTL
=============================================================================

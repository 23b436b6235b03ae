--------------------------- MODULE Access_proofs ---------------------------
(***************************************************************************)
(* Proofs about Access and Cookie, for any tokens, names of functions and  *)
(* ages of cookies, and any principals that are hexadecimal numbers of the *)
(* given length.  First what a cookie says once it is read back, then who  *)
(* passes which gate.                                                      *)
(***************************************************************************)
EXTENDS Access, SequenceTheorems, TLAPS

-----------------------------------------------------------------------------
(* Base64url.                                                              *)

\* The bytes i of a group that is not full are 0 (the encoder's last group).
ByteAt(bytes, i) == IF i <= Len(bytes) THEN bytes[i] ELSE 0
GroupAt(bytes, g) ==
    ByteAt(bytes, 3 * g + 1) * 65536 + ByteAt(bytes, 3 * g + 2) * 256
      + ByteAt(bytes, 3 * g + 3)

\* Three bytes as four numbers of six bits.
LEMMA SixBits ==
    ASSUME NEW a \in Bytes, NEW b \in Bytes, NEW c \in Bytes,
           NEW v, v = a * 65536 + b * 256 + c
    PROVE  /\ v \in Nat
           /\ (v \div 64 ^ 3) % 64 = a \div 4
           /\ (v \div 64 ^ 2) % 64 = (a % 4) * 16 + b \div 16
           /\ (v \div 64 ^ 1) % 64 = (b % 16) * 4 + c \div 64
           /\ (v \div 64 ^ 0) % 64 = c % 64
<1> USE DEF Bytes
<1>1. v \in Nat  OBVIOUS
<1>2. (v \div 262144) = a \div 4 /\ (a \div 4) % 64 = a \div 4  OBVIOUS
<1>3. (v \div 4096) = a * 16 + b \div 16  OBVIOUS
<1>4. (a * 16 + b \div 16) % 64 = (a % 4) * 16 + b \div 16  OBVIOUS
<1>5. (v \div 64) = a * 1024 + b * 4 + c \div 64  OBVIOUS
<1>6. (a * 1024 + b * 4 + c \div 64) % 64 = (b % 16) * 4 + c \div 64  OBVIOUS
<1>7. (v \div 1) % 64 = c % 64  OBVIOUS
<1>8. 64 ^ 3 = 262144 /\ 64 ^ 2 = 4096 /\ 64 ^ 1 = 64 /\ 64 ^ 0 = 1  OBVIOUS
<1> QED  BY <1>1, <1>2, <1>3, <1>4, <1>5, <1>6, <1>7, <1>8

\* ... and each byte from the two of them it lies in.
LEMMA EightBits ==
    ASSUME NEW a \in Bytes, NEW b \in Bytes, NEW c \in Bytes
    PROVE  /\ (((a \div 4) * 64 + ((a % 4) * 16 + b \div 16)) \div 2 ^ 4) % 256 = a
           /\ ((((a % 4) * 16 + b \div 16) * 64 + ((b % 16) * 4 + c \div 64))
                 \div 2 ^ 2) % 256 = b
           /\ ((((b % 16) * 4 + c \div 64) * 64 + (c % 64)) \div 2 ^ 0) % 256 = c
<1> USE DEF Bytes
<1>1. (((a \div 4) * 64 + ((a % 4) * 16 + b \div 16)) \div 16) % 256 = a  OBVIOUS
<1>2. ((((a % 4) * 16 + b \div 16) * 64 + ((b % 16) * 4 + c \div 64)) \div 4) % 256 = b
  OBVIOUS
<1>3. ((((b % 16) * 4 + c \div 64) * 64 + (c % 64)) \div 1) % 256 = c  OBVIOUS
<1>4. 2 ^ 4 = 16 /\ 2 ^ 2 = 4 /\ 2 ^ 0 = 1  OBVIOUS
<1> QED  BY <1>1, <1>2, <1>3, <1>4

Sextets == 0..63

\* A character of the encoding is six bits of the group it belongs to.
SixBitsAt(bytes, i) ==
    (GroupAt(bytes, (i - 1) \div 4) \div 64 ^ (3 - ((i - 1) % 4))) % 64

LEMMA ByteAtIsByte ==
    ASSUME NEW bytes \in Seq(Bytes), NEW i \in Nat \ {0}
    PROVE  ByteAt(bytes, i) \in Bytes
<1>1. Len(bytes) \in Nat  BY LenProperties, SMT
<1>2. CASE i <= Len(bytes)
  <2>1. i \in 1..Len(bytes)  BY <1>1, <1>2, SMT
  <2>2. bytes[i] \in Bytes  BY <2>1, ElementOfSeq
  <2> QED  BY <1>2, <2>2, SMT DEF ByteAt
<1> QED  BY <1>2, SMT DEF ByteAt, Bytes

LEMMA EncodeIs ==
    ASSUME NEW bytes \in Seq(Bytes)
    PROVE  /\ Base64UrlEncode(bytes) \in Seq(Sextets)
           /\ Len(Base64UrlEncode(bytes)) = (8 * Len(bytes) + 5) \div 6
           /\ \A i \in 1..((8 * Len(bytes) + 5) \div 6) :
                Base64UrlEncode(bytes)[i] = SixBitsAt(bytes, i)
<1> DEFINE n == (8 * Len(bytes) + 5) \div 6
           c == [i \in 1..n |-> SixBitsAt(bytes, i)]
<1>1. Base64UrlEncode(bytes) = c
  BY SMT DEF Base64UrlEncode, SixBitsAt, GroupAt, ByteAt
<1>2. n \in Nat
  <2>1. Len(bytes) \in Nat  BY LenProperties, SMT
  <2> QED  BY <2>1, SMT
<1> HIDE DEF n
<1>3. ASSUME NEW i \in 1..n  PROVE SixBitsAt(bytes, i) \in Sextets
  <2> DEFINE v == GroupAt(bytes, (i - 1) \div 4)
             r == (i - 1) % 4
  <2>1. (i - 1) \div 4 \in Nat /\ r \in 0..3  BY <1>2, SMT
  <2>2. v \in Nat
    <3> DEFINE g == (i - 1) \div 4
    <3>1. /\ 3 * g + 1 \in Nat \ {0} /\ 3 * g + 2 \in Nat \ {0}
          /\ 3 * g + 3 \in Nat \ {0}
      BY <2>1, SMT
    <3> HIDE DEF g
    <3>2. /\ ByteAt(bytes, 3 * g + 1) \in Bytes /\ ByteAt(bytes, 3 * g + 2) \in Bytes
          /\ ByteAt(bytes, 3 * g + 3) \in Bytes
      BY <3>1, ByteAtIsByte
    <3> DEFINE x == ByteAt(bytes, 3 * g + 1)
               y == ByteAt(bytes, 3 * g + 2)
               z == ByteAt(bytes, 3 * g + 3)
    <3>3. v = x * 65536 + y * 256 + z  BY SMT DEF GroupAt, g
    <3> HIDE DEF v, x, y, z
    <3>4. x \in Bytes /\ y \in Bytes /\ z \in Bytes  BY <3>2, SMT DEF x, y, z
    <3> QED  BY <3>3, <3>4, SMT DEF Bytes
  <2> HIDE DEF v, r
  <2>3. (v \div 64 ^ (3 - r)) % 64 \in 0..63
    <3>1. CASE r = 0  BY <2>2, <3>1, SMT
    <3>2. CASE r = 1  BY <2>2, <3>2, SMT
    <3>3. CASE r = 2  BY <2>2, <3>3, SMT
    <3>4. CASE r = 3  BY <2>2, <3>4, SMT
    <3> QED  BY <2>1, <3>1, <3>2, <3>3, <3>4, SMT
  <2> QED  BY <2>3, SMT DEF SixBitsAt, Sextets, v, r
<1>4. c \in [1..n -> Sextets]  BY <1>3, Zenon
<1> HIDE DEF c
<1>5. c \in Seq(Sextets) /\ Len(c) = n  BY <1>2, <1>4, SeqDef, LenProperties, SMT
<1>6. \A i \in 1..n : c[i] = SixBitsAt(bytes, i)  BY SMT DEF c
<1> QED  BY <1>1, <1>5, <1>6, SMT DEF n

LEMMA NothingToStrip ==
    ASSUME NEW text \in Seq(Sextets)
    PROVE  Unpadded(text) = text /\ Decodes(text)
<1> DEFINE P(e) == /\ \A i \in (e + 1)..Len(text) : text[i] = Pad
                   /\ e > 0 => text[e] # Pad
<1>1. \A i \in 1..Len(text) : text[i] \in Sextets  BY ElementOfSeq
<1>2. Len(text) \in Nat  BY LenProperties, SMT
<1>3. Len(text) \in 0..Len(text) /\ P(Len(text))
  <2>1. Len(text) > 0 => Len(text) \in 1..Len(text)  BY <1>2, SMT
  <2>2. \A i \in (Len(text) + 1)..Len(text) : FALSE  BY <1>2, SMT
  <2>3. Pad \notin Sextets  BY SMT DEF Pad, Sextets
  <2>4. Len(text) \in 0..Len(text)  BY <1>2, SMT
  <2> QED  BY <1>1, <2>1, <2>2, <2>3, <2>4, Zenon
<1>4. \A e \in 0..Len(text) : P(e) => e = Len(text)
  <2> TAKE e \in 0..Len(text)
  <2>1. CASE e < Len(text)
    <3>1. e + 1 \in (e + 1)..Len(text) /\ e + 1 \in 1..Len(text)
      BY <1>2, <2>1, SMT
    <3>2. Pad \notin Sextets  BY SMT DEF Pad, Sextets
    <3> QED  BY <1>1, <3>1, <3>2, Zenon
  <2> QED  BY <1>2, <2>1, SMT
<1>5. (CHOOSE e \in 0..Len(text) : P(e)) = Len(text)
  <2> HIDE DEF P
  <2> QED  BY <1>3, <1>4
<1>6. Unpadded(text) = SubSeq(text, 1, Len(text))  BY <1>5, Zenon DEF Unpadded
<1>7. Unpadded(text) = text  BY <1>6, SubSeqFull
<1>8. \A i \in 1..Len(text) : text[i] < 64
  <2>1. \A x \in Sextets : x < 64  BY SMT DEF Sextets
  <2> QED  BY <1>1, <2>1, Zenon
<1> QED  BY <1>7, <1>8, SMT DEF Decodes

\* Base64url gives back what it was given (Base64UrlEncode, Base64UrlDecode).
THEOREM DecodeEncode ==
    ASSUME NEW bytes \in Seq(Bytes)
    PROVE  /\ Base64UrlDecode(Base64UrlEncode(bytes)) = bytes
           /\ Decodes(Base64UrlEncode(bytes))
<1> DEFINE c == Base64UrlEncode(bytes)
           n == Len(bytes)
           first(k) == (8 * (k - 1)) \div 6 + 1
           shift(k) == 4 - ((8 * (k - 1)) % 6)
           d(k) == ((c[first(k)] * 64 + c[first(k) + 1]) \div 2 ^ shift(k)) % 256
<1>1. /\ c \in Seq(Sextets)
      /\ Len(c) = (8 * n + 5) \div 6
      /\ \A i \in 1..((8 * n + 5) \div 6) : c[i] = SixBitsAt(bytes, i)
  BY EncodeIs
<1> HIDE DEF c
<1>2. Unpadded(c) = c /\ Decodes(c)  BY <1>1, NothingToStrip
<1>3. Base64UrlDecode(c) = [k \in 1..((6 * Len(c)) \div 8) |-> d(k)]
  BY <1>2, SMT DEF Base64UrlDecode
<1>4. n \in Nat /\ n = Len(bytes)  BY LenProperties, SMT
<1> HIDE DEF n
<1>5. (6 * Len(c)) \div 8 = n  BY <1>1, <1>4, SMT
<1>6. ASSUME NEW k \in 1..n  PROVE d(k) = bytes[k]
  <2> DEFINE g == (k - 1) \div 3
             j == (k - 1) % 3
             x == ByteAt(bytes, 3 * g + 1)
             y == ByteAt(bytes, 3 * g + 2)
             z == ByteAt(bytes, 3 * g + 3)
             v == GroupAt(bytes, g)
             q(m) == (v \div 64 ^ m) % 64
  <2>1. k \in Nat /\ 1 <= k /\ k <= n  BY <1>4, SMT
  <2>2. g \in Nat /\ j \in 0..2 /\ k = 3 * g + j + 1  BY <2>1, SMT
  <2> HIDE DEF g, j
  <2>3. x \in Bytes /\ y \in Bytes /\ z \in Bytes
    <3>1. /\ 3 * g + 1 \in Nat \ {0} /\ 3 * g + 2 \in Nat \ {0}
          /\ 3 * g + 3 \in Nat \ {0}
      BY <2>2, SMT
    <3> QED  BY <3>1, ByteAtIsByte
  <2>4. v = x * 65536 + y * 256 + z  BY SMT DEF GroupAt
  <2>5. bytes[k] = IF j = 0 THEN x ELSE IF j = 1 THEN y ELSE z
    BY <1>4, <2>1, <2>2, SMT DEF ByteAt
  <2>6. first(k) = 4 * g + j + 1 /\ shift(k) = 4 - 2 * j  BY <2>2, SMT
  <2>7. /\ first(k) \in 1..((8 * n + 5) \div 6)
        /\ first(k) + 1 \in 1..((8 * n + 5) \div 6)
    BY <1>4, <2>1, <2>2, <2>6, SMT
  <2>8. (first(k) - 1) \div 4 = g /\ (first(k) - 1) % 4 = j
    BY <2>2, <2>6, SMT
  <2> HIDE DEF first, shift
  <2>9. c[first(k)] = q(3 - j) /\ c[first(k) + 1] = q(3 - (j + 1))
    <3>1. SixBitsAt(bytes, first(k)) = q(3 - j)  BY <2>8, SMT DEF SixBitsAt
    <3>2. SixBitsAt(bytes, first(k) + 1) = q(3 - (j + 1))
      <4> DEFINE i == first(k) + 1
      <4>1. (i - 1) \div 4 = g /\ (i - 1) % 4 = j + 1  BY <2>2, <2>6, SMT
      <4> HIDE DEF i
      <4>2. SixBitsAt(bytes, i) = q(3 - (j + 1))  BY <4>1, SMT DEF SixBitsAt
      <4> QED  BY <4>2 DEF i
    <3> QED  BY <1>1, <2>7, <3>1, <3>2
  <2> HIDE DEF v, x, y, z
  <2>10. /\ q(3) = x \div 4
         /\ q(2) = (x % 4) * 16 + y \div 16
         /\ q(1) = (y % 16) * 4 + z \div 64
         /\ q(0) = z % 64
    BY <2>3, <2>4, SixBits, SMT
  <2> HIDE DEF q
  <2>11. d(k) = ((q(3 - j) * 64 + q(3 - (j + 1))) \div 2 ^ (4 - 2 * j)) % 256
    BY <2>6, <2>9, SMT
  <2> HIDE DEF d
  <2>12. /\ ((q(3) * 64 + q(2)) \div 2 ^ 4) % 256 = x
         /\ ((q(2) * 64 + q(1)) \div 2 ^ 2) % 256 = y
         /\ ((q(1) * 64 + q(0)) \div 2 ^ 0) % 256 = z
    <3> HIDE DEF Bytes
    <3> QED  BY <2>3, <2>10, EightBits, SMT
  <2>13. CASE j = 0
    <3>1. 3 - j = 3 /\ 3 - (j + 1) = 2 /\ 4 - 2 * j = 4  BY <2>13, SMT
    <3> QED  BY <2>5, <2>11, <2>12, <2>13, <3>1, SMT
  <2>14. CASE j = 1
    <3>1. 3 - j = 2 /\ 3 - (j + 1) = 1 /\ 4 - 2 * j = 2  BY <2>14, SMT
    <3> QED  BY <2>5, <2>11, <2>12, <2>14, <3>1, SMT
  <2>15. CASE j = 2
    <3>1. 3 - j = 1 /\ 3 - (j + 1) = 0 /\ 4 - 2 * j = 0  BY <2>15, SMT
    <3> QED  BY <2>5, <2>11, <2>12, <2>15, <3>1, SMT
  <2> QED  BY <2>2, <2>13, <2>14, <2>15, SMT
<1> HIDE DEF d
<1>7. Base64UrlDecode(c) = [k \in 1..n |-> bytes[k]]
  BY <1>3, <1>5, <1>6, SMT
<1>8. bytes = [k \in 1..n |-> bytes[k]]  BY <1>4, LenProperties, SMT
<1> QED  BY <1>2, <1>7, <1>8, SMT DEF c

LEMMA AppendKeeps ==
    ASSUME NEW S, NEW s \in Seq(S), NEW e \in S
    PROVE  \A i \in 1..Len(s) : Append(s, e)[i] = s[i]
BY AppendProperties

LEMMA FourAndOne ==
    ASSUME NEW S, NEW s \in Seq(S), NEW t \in Seq(S), NEW e \in S,
           Len(s) = 4, Len(t) = 5, \A i \in 1..4 : t[i] = s[i], t[5] = e
    PROVE  Append(s, e) = t /\ SubSeq(t, 1, 4) = s
<1>1. Append(s, e) = t
  <2>1. Append(s, e) \in Seq(S)  BY AppendProperties
  <2>2. Len(Append(s, e)) = Len(s) + 1  BY AppendProperties
  <2>3. \A i \in 1..Len(s) : Append(s, e)[i] = s[i]  BY AppendKeeps, Zenon
  <2>4. Append(s, e)[Len(s) + 1] = e  BY AppendProperties, Zenon
  <2>5. ASSUME NEW i \in 1..5  PROVE Append(s, e)[i] = t[i]
    <3>1. CASE i = 5
      <4>1. Len(s) + 1 = 5  OBVIOUS
      <4> QED  BY <2>4, <3>1, <4>1, Zenon
    <3>2. CASE i # 5
      <4>1. i \in 1..Len(s) /\ i \in 1..4  BY <3>2
      <4>2. Append(s, e)[i] = s[i]  BY <2>3, <4>1, Zenon
      <4>3. t[i] = s[i]  BY <4>1, Zenon
      <4> QED  BY <4>2, <4>3, Zenon
    <3> QED  BY <3>1, <3>2
  <2>6. Len(Append(s, e)) = 5  BY <2>2
  <2> QED  BY <2>1, <2>5, <2>6, SeqEqual
<1>2. SubSeq(t, 1, 4) = s
  <2>1. \A i \in 1..4 : t[i] \in S  BY ElementOfSeq
  <2>2. /\ SubSeq(t, 1, 4) \in Seq(S)
        /\ Len(SubSeq(t, 1, 4)) = 4
        /\ \A i \in 1..4 : SubSeq(t, 1, 4)[i] = t[i]
    BY <2>1, SubSeqProperties, SMT
  <2> QED  BY <2>2, SeqEqual
<1> QED  BY <1>1, <1>2

LEMMA FiveSegments ==
    ASSUME NEW a, NEW b, NEW c, NEW d, NEW e
    PROVE  /\ Append(<<a, b, c, d>>, e) = <<a, b, c, d, e>>
           /\ SubSeq(<<a, b, c, d, e>>, 1, 4) = <<a, b, c, d>>
<1> DEFINE S == {a, b, c, d, e}
           s == <<a, b, c, d>>
           t == <<a, b, c, d, e>>
<1>1. s \in Seq(S) /\ Len(s) = 4 /\ t \in Seq(S) /\ Len(t) = 5  OBVIOUS
<1>2. (\A i \in 1..4 : t[i] = s[i]) /\ t[5] = e  OBVIOUS
<1>3. e \in S  OBVIOUS
<1> HIDE DEF S, s, t
<1>4. Append(s, e) = t /\ SubSeq(t, 1, 4) = s  BY <1>1, <1>2, <1>3, FourAndOne
<1> QED  BY <1>4 DEF s, t

LEMMA TimeText ==
    ASSUME NEW n \in 0..99
    PROVE  /\ ToText(n) \in Seq(Bytes)
           /\ IsNumber(ToText(n))
           /\ Stoull(ToText(n)) = n
<1>1. CASE n < 10
  <2>1. ToText(n) = <<48 + n>>  BY <1>1 DEF ToText
  <2>2. 48 + n \in Bytes /\ 48 + n \in Digits  BY <1>1 DEF Bytes, Digits
  <2>3. Len(<<48 + n>>) = 1 /\ <<48 + n>>[1] = 48 + n /\ <<48 + n>> # << >>
    OBVIOUS
  <2> QED  BY <2>1, <2>2, <2>3 DEF IsNumber, Stoull
<1>2. CASE n >= 10
  <2> DEFINE a == 48 + (n \div 10)
             b == 48 + (n % 10)
  <2>1. ToText(n) = <<a, b>>  BY <1>2 DEF ToText
  <2>2. a \in Bytes /\ b \in Bytes /\ a \in Digits  BY <1>2 DEF Bytes, Digits
  <2>3. (a - 48) * 10 + b - 48 = n  BY <1>2
  <2> HIDE DEF a, b
  <2>4. Len(<<a, b>>) = 2 /\ <<a, b>>[1] = a /\ <<a, b>>[2] = b /\ <<a, b>> # << >>
    OBVIOUS
  <2> QED  BY <2>1, <2>2, <2>3, <2>4 DEF IsNumber, Stoull
<1> QED  BY <1>1, <1>2

-----------------------------------------------------------------------------
(* The invariant.                                                          *)

Gates == {"parse", "authenticate", "origin", "listed", "session", "authorize",
          "act", "token", "issue", "answer"}

Statuses == {0, 200, 400, 401, 403, 404, 409, 413, 415, 429, 500, 503, 504}

Sources == {"none", "bearer", "x_harbor_token", "cookie", "local_dev"}

\* What a token's place may hold.
Presented == Tokens \union {""}

Principals == {PrincipalOf[t] : t \in Tokens}

Times == 0..(MaxClock + TtlCap)

\* All cookies there can be.
Cookies == {IssueCookie(s, p, e) : s \in 1..MaxServers, p \in Principals, e \in Times}

Requests ==
    [route : Routes \union {"none"}, gates : Seq(Gates), status : Statuses,
     principal : Principals \union {LocalDev}, source : Sources,
     token : Presented, cookie : Cookies \union {<< >>},
     since : 0..MaxClock, ttl : 0..TtlCap, text : {"sql", "admin"},
     origin : Origins, decided : {"none", "sql", "admin"}]

Logins == [server : 1..MaxServers, principal : Principals, cookie : Cookies,
           until : Times, told : Times]

TypeInv ==
    /\ harborAuthz \in HarborNames /\ quackAuthz \in QuackNames
    /\ allowAdmin \in BOOLEAN /\ sets \in 0..MaxSets
    /\ dbOpen \in BOOLEAN /\ clock \in 0..MaxClock
    /\ up \in BOOLEAN /\ servers \in 0..MaxServers
    /\ unauthenticated \in BOOLEAN /\ customAuthz \in BOOLEAN
    /\ customAuthn \in BOOLEAN /\ allowed \in BOOLEAN
    /\ request \in Requests
    /\ logins \subseteq Logins

\* What an AuthManager knows, and what there is without one.
ManagerInv ==
    /\ signingKey \in {NoKey, servers}
    /\ up => /\ servers > 0
             /\ authzName # << >>
             /\ customAuthz = ~IsBuiltinNopAuthz(authzName)
             /\ allowAdmin => allowed
    /\ ~up => signingKey = NoKey /\ request.route = "none"

\* A login was answered a cookie of its server, its principal and its expiry,
\* which is never further away than the longest age.
LoginInv ==
    \A l \in logins :
      /\ l.cookie = IssueCookie(l.server, l.principal, l.until)
      /\ l.server <= servers
      /\ l.until <= l.told
      /\ l.until <= clock + TtlCap

\* The gates of the request's route, and how many it has passed.
GatesOf == Handlers[request.route].gates
Gone    == Len(GatesOf) - Len(request.gates)

\* What a request that passed a gate, and its handler, can rely on.
Passed(gate) ==
    /\ gate = "parse" => request.text # "admin"
    /\ gate \in {"origin", "listed"} /\ request.source = "cookie" =>
         request.origin \in {"own", "listed"}
    /\ gate = "authorize" /\ request.route \in AdminRoutes =>
         allowed \/ customAuthz
    /\ gate = "token" => request.principal \in Principals
    /\ gate = "issue" =>
         request.cookie =
           IssueCookie(servers, request.principal, request.since + request.ttl)

GateInv ==
    request.route \in Routes =>
      /\ Gone \in 0..Len(GatesOf)
      /\ \A i \in 1..Len(request.gates) : request.gates[i] = GatesOf[Gone + i]
      /\ \A i \in 1..Gone : Passed(GatesOf[i])

\* A cookie that was let in is that of a login on this server.
LetIn ==
    request.source = "cookie" =>
      \E l \in logins :
         /\ l.server = servers
         /\ l.principal = request.principal
         /\ l.cookie = request.cookie
         /\ request.since < l.until

RequestInv ==
    /\ request.route = "none" =>
         request.gates = << >> /\ request.status # 200 /\ request.decided = "none"
    /\ request.route \in {"none", "login"} => request.source = "none"
    /\ request.status = 200 => request.gates = << >>
    /\ request.since <= clock
    /\ request.decided = "admin" => request.route \in AdminRoutes

IInv == /\ TypeInv /\ ManagerInv /\ LoginInv /\ GateInv /\ LetIn
        /\ RequestInv /\ CredentialDecides

-----------------------------------------------------------------------------
(* What a cookie says.                                                     *)

LEMMA HexIsBytes == HexDigits \subseteq Bytes
BY SMT DEF HexDigits, Digits, Bytes

LEMMA TimesBounded ==
    /\ MaxClock \in Nat /\ TtlCap \in Nat /\ MaxServers \in Nat
    /\ MaxSets \in Nat /\ MaxClock + TtlCap <= 99
BY AccessAssumption, Zenon

\* A cookie is verified with the key it was made with until it expires, and
\* names its principal (IssueCookie, VerifyCookie, CookiePrincipal).
THEOREM CookieReadsBack ==
    ASSUME NEW s, NEW p \in Principals, NEW e \in Times
    PROVE  /\ CookiePrincipal(IssueCookie(s, p, e)) = p
           /\ \A key, now :
                VerifyCookie(key, IssueCookie(s, p, e), now) <=> key = s /\ now < e
<1> DEFINE b == Base64UrlEncode(p)
           t == Base64UrlEncode(ToText(e))
           h == Hmac(s, <<Version, b, t, Nonce>>)
           c == <<Version, b, t, Nonce, h>>
<1>1. IssueCookie(s, p, e) = c
  <2> HIDE DEF b, t, h
  <2>1. Append(<<Version, b, t, Nonce>>, h) = c  BY FiveSegments
  <2> QED  BY <2>1, Zenon DEF IssueCookie, b, t, h
<1>2. p \in Seq(HexDigits) /\ IsValidPrincipalHex(p)
  BY AccessAssumption DEF Principals
<1>3. p \in Seq(Bytes)  BY <1>2, HexIsBytes, SeqMonotonic
<1>4. Base64UrlDecode(b) = p /\ Decodes(b)  BY <1>3, DecodeEncode
<1>5. e \in 0..99  BY TimesBounded DEF Times
<1>6. /\ ToText(e) \in Seq(Bytes)
      /\ IsNumber(ToText(e))
      /\ Stoull(ToText(e)) = e
  BY <1>5, TimeText
<1>7. Base64UrlDecode(t) = ToText(e) /\ Decodes(t)  BY <1>6, DecodeEncode
<1> HIDE DEF b, t, h
<1>8. Len(c) = 5 /\ c[1] = Version /\ c[2] = b /\ c[3] = t /\ c[5] = h  OBVIOUS
<1>9. SubSeq(c, 1, 4) = <<Version, b, t, Nonce>>  BY FiveSegments
<1>10. \A key : c[5] = Hmac(key, SubSeq(c, 1, 4)) <=> key = s
  BY <1>8, <1>9 DEF h, Hmac
<1> HIDE DEF c
<1>11. CookiePrincipal(c) = p  BY <1>4, <1>8, Zenon DEF CookiePrincipal
<1>12. ASSUME NEW key, NEW now
       PROVE  VerifyCookie(key, c, now) <=> key = s /\ now < e
  BY <1>2, <1>4, <1>6, <1>7, <1>8, <1>10, Zenon DEF VerifyCookie
<1> QED  BY <1>1, <1>11, <1>12, Zenon

\* Of all that a client may make of a cookie, only the cookie itself is
\* verified, with any key that is one (VerifyCookie).
THEOREM OnlyWholeCookies ==
    ASSUME NEW s, NEW p, NEW e, NEW key, key # NoKey, NEW now,
           NEW x \in Altered(IssueCookie(s, p, e)), VerifyCookie(key, x, now)
    PROVE  x = IssueCookie(s, p, e)
<1> DEFINE b == Base64UrlEncode(p)
           t == Base64UrlEncode(ToText(e))
           h == Hmac(s, <<Version, b, t, Nonce>>)
           c == <<Version, b, t, Nonce, h>>
<1> HIDE DEF b, t, h
<1>1. IssueCookie(s, p, e) = c
  <2>1. Append(<<Version, b, t, Nonce>>, h) = c  BY FiveSegments
  <2> QED  BY <2>1, Zenon DEF IssueCookie, b, t, h
<1>2. c[1] = Version /\ c[2] = b /\ c[3] = t /\ c[4] = Nonce /\ c[5] = h
  OBVIOUS
<1>3. SubSeq(c, 1, 4) = <<Version, b, t, Nonce>>  BY FiveSegments
<1>4. /\ Len(x) = 5 /\ x[1] = Version
      /\ x[5] = Hmac(key, SubSeq(x, 1, 4))
  BY Zenon DEF VerifyCookie
<1> HIDE DEF c
<1>5. \/ x = <<"v0", b, t, Nonce, h>>
      \/ x = SubSeq(c, 1, 4)
      \/ x = <<Version, b, t, Nonce, Hmac(NoKey, << >>)>>
      \/ \E q \in Payloads : x = <<Version, q, t, Nonce, h>>
      \/ \E q \in Payloads : x = <<Version, b, q, Nonce, h>>
  <2>1. x \in Altered(c)  BY <1>1
  <2> QED  BY <1>2, <2>1, Zenon DEF Altered
<1>6. CASE x = <<"v0", b, t, Nonce, h>>
  BY <1>4, <1>6 DEF Version
<1>7. CASE x = SubSeq(c, 1, 4)
  <2>1. Len(x) = 4  BY <1>3, <1>7
  <2> QED  BY <1>4, <2>1
<1>8. CASE x = <<Version, b, t, Nonce, Hmac(NoKey, << >>)>>
  <2>1. x[5] = <<NoKey, << >> >>  BY <1>8 DEF Hmac
  <2>2. x[5][1] = NoKey  BY <2>1
  <2>3. x[5][1] = key  BY <1>4 DEF Hmac
  <2> QED  BY <2>2, <2>3
<1>9. ASSUME NEW q \in Payloads, x = <<Version, q, t, Nonce, h>>
      PROVE  x = c
  <2>1. x[5] = h  BY <1>9
  <2>2. SubSeq(x, 1, 4) = <<Version, q, t, Nonce>>  BY <1>9, FiveSegments
  <2>3. <<key, <<Version, q, t, Nonce>> >> = <<s, <<Version, b, t, Nonce>> >>
    BY <1>4, <2>1, <2>2, Zenon DEF Hmac, h
  <2>4. <<Version, q, t, Nonce>> = <<Version, b, t, Nonce>>  BY <2>3
  <2>5. q = b  BY <2>4
  <2> QED  BY <1>9, <2>5 DEF c
<1>10. ASSUME NEW q \in Payloads, x = <<Version, b, q, Nonce, h>>
       PROVE  x = c
  <2>1. x[5] = h  BY <1>10
  <2>2. SubSeq(x, 1, 4) = <<Version, b, q, Nonce>>  BY <1>10, FiveSegments
  <2>3. <<key, <<Version, b, q, Nonce>> >> = <<s, <<Version, b, t, Nonce>> >>
    BY <1>4, <2>1, <2>2, Zenon DEF Hmac, h
  <2>4. <<Version, b, q, Nonce>> = <<Version, b, t, Nonce>>  BY <2>3
  <2>5. q = t  BY <2>4
  <2> QED  BY <1>10, <2>5 DEF c
<1> QED  BY <1>1, <1>5, <1>6, <1>7, <1>8, <1>9, <1>10

-----------------------------------------------------------------------------
(* The gates of the routes.                                                *)

LEMMA RoutesAre ==
    Routes = {"sql", "login", "whoami", "sessions", "tables", "schema", "new",
              "delete", "cancel", "interrupt", "checkpoint"}
BY DEF Routes, Handlers

\* Which gate comes before which, in the order of the handlers.
LEMMA GateOrder ==
    ASSUME NEW r \in Routes, NEW G, G = Handlers[r].gates
    PROVE  /\ G \in Seq(Gates)
           /\ \A i \in 1..Len(G) :
                /\ G[i] = "authenticate" =>
                     r # "login" /\ \A j \in 1..(i - 1) : G[j] = "parse"
                /\ G[i] \in {"act", "answer"} => i = Len(G)
                /\ G[i] = "authorize" =>
                     r # "login" /\ (r = "sql" => i > 1 /\ G[1] = "parse")
                /\ G[i] \in {"token", "issue", "answer"} => r = "login"
                /\ G[i] = "token" => i = 1
                /\ G[i] = "issue" => i = 2 /\ G[1] = "token"
                /\ G[i] = "answer" => i = 3 /\ G[1] = "token" /\ G[2] = "issue"
           /\ r \in AdminRoutes => \E i \in 1..Len(G) : G[i] = "authorize"
           /\ r \in BrowserRoutes => \E i \in 1..Len(G) : G[i] \in {"origin", "listed"}
           /\ Handlers[r].failures \subseteq Statuses \ {0, 200}
<1> USE DEF Gates, Statuses, AdminRoutes, BrowserRoutes
<1>1. CASE r = "sql"
  <2>1. /\ G = <<"parse", "authenticate", "origin", "session", "authorize", "act">>
        /\ Handlers[r].failures \subseteq Statuses \ {0, 200}
    BY <1>1 DEF Handlers, HandleSql
  <2>2. /\ G \in Seq(Gates) /\ Len(G) = 6
        /\ G[1] = "parse" /\ G[2] = "authenticate" /\ G[3] = "origin"
        /\ G[4] = "session" /\ G[5] = "authorize" /\ G[6] = "act"
    BY <2>1
  <2>3. \A i \in 1..6 : i \in {1, 2, 3, 4, 5, 6}  OBVIOUS
  <2>4. \E i \in 1..Len(G) : G[i] = "authorize"  BY <2>2
  <2>5. \E i \in 1..Len(G) : G[i] \in {"origin", "listed"}  BY <2>2
  <2>6. ASSUME NEW i \in 1..6
        PROVE  /\ G[i] = "authenticate" =>
                    r # "login" /\ \A j \in 1..(i - 1) : G[j] = "parse"
               /\ G[i] \in {"act", "answer"} => i = 6
               /\ G[i] = "authorize" =>
                    r # "login" /\ (r = "sql" => i > 1 /\ G[1] = "parse")
               /\ G[i] \notin {"token", "issue", "answer"}
    BY <1>1, <2>2, <2>3
  <2> HIDE DEF Gates, Statuses, BrowserRoutes
  <2> QED  BY <2>1, <2>2, <2>4, <2>5, <2>6
<1>2. CASE r = "login"
  <2>1. /\ G = <<"token", "issue", "answer">>
        /\ Handlers[r].failures \subseteq Statuses \ {0, 200}
    BY <1>2 DEF Handlers, HandleLogin
  <2>2. /\ G \in Seq(Gates) /\ Len(G) = 3
        /\ G[1] = "token" /\ G[2] = "issue" /\ G[3] = "answer"
    BY <2>1
  <2>3. \A i \in 1..3 : i \in {1, 2, 3}  OBVIOUS
  <2> HIDE DEF Gates, Statuses
  <2> QED  BY <1>2, <2>1, <2>2, <2>3, RoutesAre
<1>3. CASE r \in {"whoami", "sessions", "tables", "schema", "new", "delete"}
  <2>1. /\ G = <<"authenticate", "authorize", "act">>
        /\ Handlers[r].failures \subseteq Statuses \ {0, 200}
    BY <1>3 DEF Handlers, HandleWhoami, HandleSessions, HandleTables, HandleSchema,
                HandleSessionNew, HandleSessionDelete, Plain
  <2> QED  BY <1>3, <2>1
<1>4. CASE r = "cancel"
  <2>1. /\ G = <<"authenticate", "origin", "authorize", "act">>
        /\ Handlers[r].failures \subseteq Statuses \ {0, 200}
    BY <1>4 DEF Handlers, HandleSqlCancel
  <2>2. /\ G \in Seq(Gates) /\ Len(G) = 4
        /\ G[1] = "authenticate" /\ G[2] = "origin"
        /\ G[3] = "authorize" /\ G[4] = "act"
    BY <2>1
  <2>3. \A i \in 1..4 : i \in {1, 2, 3, 4}  OBVIOUS
  <2>4. \E i \in 1..Len(G) : G[i] = "authorize"  BY <2>2
  <2>5. \E i \in 1..Len(G) : G[i] \in {"origin", "listed"}  BY <2>2
  <2>6. ASSUME NEW i \in 1..4
        PROVE  /\ G[i] = "authenticate" =>
                    r # "login" /\ \A j \in 1..(i - 1) : G[j] = "parse"
               /\ G[i] \in {"act", "answer"} => i = 4
               /\ G[i] = "authorize" =>
                    r # "login" /\ (r = "sql" => i > 1 /\ G[1] = "parse")
               /\ G[i] \notin {"token", "issue", "answer"}
    BY <1>4, <2>2, <2>3
  <2> HIDE DEF Gates, Statuses, BrowserRoutes
  <2> QED  BY <2>1, <2>2, <2>4, <2>5, <2>6
<1>5. CASE r \in {"interrupt", "checkpoint"}
  <2>1. /\ G = <<"authenticate", "listed", "authorize", "act">>
        /\ Handlers[r].failures \subseteq Statuses \ {0, 200}
    BY <1>5 DEF Handlers, HandleInterrupt, HandleCheckpoint
  <2> QED  BY <1>5, <2>1
<1> QED  BY <1>1, <1>2, <1>3, <1>4, <1>5, RoutesAre

\* A request that is at a gate.
LEMMA AtGate ==
    ASSUME IInv, NEW g, At(g)
    PROVE  /\ request.route \in Routes /\ up
           /\ GatesOf \in Seq(Gates) /\ request.gates \in Seq(Gates)
           /\ Gone \in 0..(Len(GatesOf) - 1)
           /\ GatesOf[Gone + 1] = g
           /\ Tail(request.gates) \in Seq(Gates)
           /\ Len(Tail(request.gates)) = Len(request.gates) - 1
           /\ \A i \in 1..(Len(request.gates) - 1) :
                Tail(request.gates)[i] = GatesOf[Gone + 1 + i]
           /\ request.status # 200
<1>1. request.gates \in Seq(Gates) /\ request.gates # << >>
  BY DEF IInv, TypeInv, Requests, At
<1>2. request.route \in Routes /\ up /\ request.status # 200
  BY <1>1 DEF IInv, TypeInv, Requests, RequestInv, ManagerInv
<1>3. GatesOf \in Seq(Gates)  BY <1>2, GateOrder DEF GatesOf
<1>4. /\ Gone \in 0..Len(GatesOf)
      /\ \A i \in 1..Len(request.gates) : request.gates[i] = GatesOf[Gone + i]
  BY <1>2 DEF IInv, GateInv
<1> DEFINE q == request.gates
           n == Len(q)
<1>5. n \in Nat \ {0} /\ Len(GatesOf) \in Nat /\ Gone = Len(GatesOf) - n
  BY <1>1, <1>3, EmptySeq, LenProperties DEF Gone
<1>6. Head(q) = g  BY DEF At
<1>7. /\ Head(q) = q[1]
      /\ Tail(q) \in Seq(Gates)
      /\ Len(Tail(q)) = n - 1
      /\ \A i \in 1..(n - 1) : Tail(q)[i] = q[i + 1]
  BY <1>1, HeadTailProperties
<1> HIDE DEF q, n, Gone, GatesOf
<1>8. \A i \in 1..n : q[i] = GatesOf[Gone + i]  BY <1>4 DEF q, n
<1>9. GatesOf[Gone + 1] = g  BY <1>5, <1>6, <1>7, <1>8
<1>10. ASSUME NEW i \in 1..(n - 1)  PROVE Tail(q)[i] = GatesOf[Gone + 1 + i]
  <2>1. i + 1 \in 1..n /\ Gone + (i + 1) = Gone + 1 + i  BY <1>4, <1>5
  <2> QED  BY <1>7, <1>8, <2>1
<1>11. Gone \in 0..(Len(GatesOf) - 1)  BY <1>4, <1>5
<1> QED
  BY <1>1, <1>2, <1>3, <1>7, <1>9, <1>10, <1>11 DEF q, n

-----------------------------------------------------------------------------
(* What all gates have in common.                                          *)

\* The rest stays as it is; the key may have been drawn.
Undisturbed ==
    UNCHANGED <<Environment, logins>> /\ signingKey' \in {signingKey, Key}

LEMMA UndisturbedKeeps ==
    ASSUME IInv, Undisturbed, request' \in Requests,
           up \/ (request'.route = "none" /\ signingKey' = signingKey)
    PROVE  TypeInv' /\ ManagerInv' /\ LoginInv'
<1> USE DEF IInv, Undisturbed, Environment, settings
<1>1. TypeInv'  BY DEF TypeInv
<1>2. ManagerInv'
  <2>1. IsBuiltinNopAuthz(authzName)' = IsBuiltinNopAuthz(authzName)
    BY DEF IsBuiltinNopAuthz
  <2> QED  BY <2>1 DEF ManagerInv, Key
<1>3. LoginInv'  BY DEF LoginInv
<1> QED  BY <1>1, <1>2, <1>3

LEMMA RefusedIs ==
    ASSUME NEW s, NEW r, r = [NoRequest EXCEPT !.status = s]
    PROVE  r = [route |-> "none", gates |-> << >>, status |-> s,
                principal |-> LocalDev, source |-> "none", token |-> "",
                cookie |-> << >>, since |-> 0, ttl |-> 0, text |-> "sql",
                origin |-> "none", decided |-> "none"]
BY DEF NoRequest

\* An error ends the handler.
LEMMA RefuseStep ==
    ASSUME IInv, up \/ signingKey' = signingKey, Undisturbed,
           NEW s \in Statuses \ {200}, Refuse(s)
    PROVE  IInv'
<1>1. request' = [route |-> "none", gates |-> << >>, status |-> s,
                  principal |-> LocalDev, source |-> "none", token |-> "",
                  cookie |-> << >>, since |-> 0, ttl |-> 0, text |-> "sql",
                  origin |-> "none", decided |-> "none"]
  BY RefusedIs DEF Refuse
<1>2. request' \in Requests
  <2>1. << >> \in Seq(Gates)  OBVIOUS
  <2>2. 0 \in 0..MaxClock /\ 0 \in 0..TtlCap  BY TimesBounded
  <2>3. LocalDev \in Principals \union {LocalDev} /\ << >> \in Cookies \union {<< >>}
    OBVIOUS
  <2>4. "none" \in Sources /\ "none" \in Origins /\ s \in Statuses
    BY DEF Sources, Origins
  <2>5. "" \in Presented  BY DEF Presented
  <2> QED  BY <1>1, <2>1, <2>2, <2>3, <2>4, <2>5 DEF Requests
<1>3. TypeInv' /\ ManagerInv' /\ LoginInv'
  <2>1. request'.route = "none"  BY <1>1
  <2> QED  BY <1>2, <2>1, UndisturbedKeeps
<1>4. GateInv' /\ LetIn' /\ CredentialDecides' /\ RequestInv'
  <2>1. "none" \notin Routes  BY RoutesAre
  <2>2. /\ request'.route = "none" /\ request'.gates = << >>
        /\ request'.source = "none" /\ request'.status = s
        /\ request'.since = 0 /\ request'.decided = "none"
    BY <1>1
  <2>3. 0 <= clock'  BY <1>3 DEF TypeInv
  <2> QED
    BY <2>1, <2>2, <2>3 DEF GateInv, LetIn, CredentialDecides, RequestInv
<1> QED  BY <1>3, <1>4 DEF IInv

\* A request passes a gate when what the gates so far promise still holds.
LEMMA PassStep ==
    ASSUME IInv, NEW g, At(g), UNCHANGED Environment,
           TypeInv', ManagerInv', LoginInv',
           request'.route = request.route,
           request'.gates = Tail(request.gates),
           request'.status = 200 => Len(request.gates) = 1,
           request'.since <= clock,
           \A i \in 1..(Gone + 1) : Passed(GatesOf[i])',
           request'.decided = "admin" => request.route \in AdminRoutes,
           request.route = "login" => request'.source = "none",
           LetIn', CredentialDecides'
    PROVE  IInv'
<1>1. /\ request.route \in Routes /\ up
      /\ Gone \in 0..(Len(GatesOf) - 1)
      /\ Tail(request.gates) \in Seq(Gates)
      /\ Len(Tail(request.gates)) = Len(request.gates) - 1
      /\ \A i \in 1..(Len(request.gates) - 1) :
           Tail(request.gates)[i] = GatesOf[Gone + 1 + i]
      /\ GatesOf \in Seq(Gates) /\ request.gates \in Seq(Gates)
  BY AtGate
<1>3. GatesOf' = GatesOf  BY DEF GatesOf
<1>4. Len(GatesOf) \in Nat /\ Len(request.gates) \in Nat
  BY <1>1, LenProperties
<1> HIDE DEF GatesOf, Passed
<1>5. Gone' = Gone + 1
  <2>1. Len(request'.gates) = Len(request.gates) - 1  BY <1>1
  <2> DEFINE m == Len(request'.gates)
             n == Len(request.gates)
             k == Len(GatesOf)
  <2>2. Gone' = k - m /\ Gone = k - n  BY <1>3 DEF Gone
  <2>3. m = n - 1 /\ n \in Nat /\ k \in Nat  BY <1>4, <2>1
  <2> HIDE DEF m, n, k
  <2> QED  BY <2>2, <2>3
<1> HIDE DEF Gone
<1>6. GateInv'
  <2>1. Gone' \in 0..Len(GatesOf')  BY <1>1, <1>3, <1>4, <1>5
  <2>2. \A i \in 1..Len(request'.gates) : request'.gates[i] = GatesOf'[Gone' + i]
    BY <1>1, <1>3, <1>5
  <2>3. \A i \in 1..Gone' : Passed(GatesOf[i])'  BY <1>5, Zenon
  <2> QED  BY <2>1, <2>2, <2>3 DEF GateInv
<1>7. RequestInv'
  <2>1. request'.status = 200 => request'.gates = << >>
    <3>1. Len(Tail(request.gates)) = 0 => Tail(request.gates) = << >>
      BY <1>1, EmptySeq
    <3> QED  BY <1>1, <1>4, <3>1
  <2>2. clock' = clock  BY DEF Environment
  <2>3. request'.route # "none"  BY <1>1, RoutesAre
  <2> QED  BY <2>1, <2>2, <2>3 DEF RequestInv
<1> QED  BY <1>6, <1>7 DEF IInv

\* What a gate that leaves alone who the request is from leaves alone.
SameCaller ==
    /\ request'.route = request.route /\ request'.text = request.text
    /\ request'.principal = request.principal
    /\ request'.source = request.source /\ request'.token = request.token
    /\ request'.cookie = request.cookie /\ request'.since = request.since
    /\ request'.ttl = request.ttl
    /\ request'.gates = Tail(request.gates)

LEMMA PassPlain ==
    ASSUME IInv, NEW g, At(g), Undisturbed, request' \in Requests, SameCaller,
           request'.status = 200 => Len(request.gates) = 1,
           \/ request'.origin = request.origin
           \/ request.source = "cookie" => request'.origin \in {"own", "listed"},
           request'.decided = "admin" => request.route \in AdminRoutes,
           Passed(g)'
    PROVE  IInv'
<1> USE DEF SameCaller
<1>1. /\ request.route \in Routes /\ up
      /\ Gone \in 0..(Len(GatesOf) - 1)
      /\ GatesOf[Gone + 1] = g
  BY AtGate
<1>2. \A i \in 1..Gone : Passed(GatesOf[i])
  BY <1>1, Zenon DEF IInv, GateInv
<1>3. /\ allowed' = allowed /\ customAuthz' = customAuthz /\ servers' = servers
      /\ clock' = clock /\ logins' = logins /\ unauthenticated' = unauthenticated
  BY DEF Undisturbed, Environment, settings
<1>4. GatesOf' = GatesOf  BY DEF GatesOf
<1> HIDE DEF GatesOf, Gone
<1>5. ASSUME NEW i \in 1..(Gone + 1)  PROVE Passed(GatesOf[i])'
  <2>1. CASE i = Gone + 1
    <3>1. GatesOf'[i] = g  BY <1>1, <1>4, <2>1
    <3> QED  BY <3>1 DEF Passed
  <2>2. CASE i # Gone + 1
    <3>1. i \in 1..Gone  BY <1>1, <2>2
    <3>2. Passed(GatesOf[i])  BY <1>2, <3>1
    <3> QED  BY <1>3, <1>4, <3>2 DEF Passed
  <2> QED  BY <2>1, <2>2
<1>6. LetIn'  BY <1>3 DEF IInv, LetIn
<1>7. CredentialDecides'  BY <1>3 DEF IInv, CredentialDecides
<1>8. request'.since <= clock  BY DEF IInv, RequestInv
<1>9. TypeInv' /\ ManagerInv' /\ LoginInv'  BY <1>1, UndisturbedKeeps
<1>10. request.route = "login" => request'.source = "none"
  BY DEF IInv, RequestInv
<1>11. UNCHANGED Environment  BY DEF Undisturbed
<1> QED  BY <1>5, <1>6, <1>7, <1>8, <1>9, <1>10, <1>11, PassStep

LEMMA ParseStep == IInv /\ Parse => IInv'
<1> SUFFICES ASSUME IInv, Parse  PROVE IInv'  OBVIOUS
<1>1. At("parse") /\ Undisturbed  BY DEF Parse, Undisturbed
<1>2. up /\ request.status # 200 /\ Tail(request.gates) \in Seq(Gates)
  BY <1>1, AtGate
<1>3. CASE request.text # "admin" /\ Pass(request)
  <2>1. request' = [request EXCEPT !.gates = Tail(request.gates)]
    BY <1>3 DEF Pass
  <2>2. request \in Requests  BY DEF IInv, TypeInv
  <2>3. request' \in Requests  BY <1>2, <2>1, <2>2 DEF Requests
  <2>4. Passed("parse")'  BY <1>3, <2>1, <2>2 DEF Passed, Requests
  <2>5. request.decided = "admin" => request.route \in AdminRoutes
    BY DEF IInv, RequestInv
  <2>6. /\ SameCaller /\ request'.status = request.status
        /\ request'.origin = request.origin /\ request'.decided = request.decided
    BY <2>1, <2>2 DEF SameCaller, Requests
  <2> QED  BY <1>1, <1>2, <2>3, <2>4, <2>5, <2>6, PassPlain
<1>4. CASE \E s \in {415, 413, 400} : Refuse(s)
  BY <1>1, <1>2, <1>4, RefuseStep DEF Statuses
<1> QED  BY <1>3, <1>4 DEF Parse

LEMMA OriginStep ==
    ASSUME IInv, NEW o \in Origins, NEW r \in Origins, Origin(o, r) \/ Listed(o, r)
    PROVE  IInv'
<1> DEFINE claimed == Claimed(o, r)
<1>1. claimed \in Origins  BY DEF Claimed
<1>2. PICK g \in {"origin", "listed"} :
        /\ At(g) /\ Undisturbed
        /\ \/ Refuse(403)
           \/ /\ Pass([request EXCEPT !.origin = claimed])
              /\ request.source = "cookie" => claimed \in {"own", "listed"}
  BY DEF Origin, Listed, Undisturbed
<1> HIDE DEF claimed
<1>3. up /\ request.status # 200 /\ Tail(request.gates) \in Seq(Gates)
  BY <1>2, AtGate
<1>4. CASE Refuse(403)  BY <1>2, <1>3, <1>4, RefuseStep DEF Statuses
<1>5. CASE /\ Pass([request EXCEPT !.origin = claimed])
           /\ request.source = "cookie" => claimed \in {"own", "listed"}
  <2>1. request' = [request EXCEPT !.origin = claimed, !.gates = Tail(request.gates)]
    BY <1>5 DEF Pass
  <2>2. request \in Requests  BY DEF IInv, TypeInv
  <2>3. request' \in Requests  BY <1>1, <1>3, <2>1, <2>2 DEF Requests
  <2>4. request'.origin = claimed /\ request'.source = request.source
    BY <2>1, <2>2 DEF Requests
  <2>5. Passed(g)'  BY <1>5, <2>4 DEF Passed
  <2>6. request.decided = "admin" => request.route \in AdminRoutes
    BY DEF IInv, RequestInv
  <2>7. /\ SameCaller /\ request'.status = request.status
        /\ request'.decided = request.decided
    BY <2>1, <2>2 DEF SameCaller, Requests
  <2> QED  BY <1>2, <1>3, <1>5, <2>3, <2>4, <2>5, <2>6, <2>7, PassPlain
<1> QED  BY <1>2, <1>4, <1>5

LEMMA SessionStep == IInv /\ Session => IInv'
<1> SUFFICES ASSUME IInv, Session  PROVE IInv'  OBVIOUS
<1>1. At("session") /\ Undisturbed  BY DEF Session, Undisturbed
<1>2. up /\ request.status # 200 /\ Tail(request.gates) \in Seq(Gates)
  BY <1>1, AtGate
<1>3. CASE Pass(request)
  <2>1. request' = [request EXCEPT !.gates = Tail(request.gates)]
    BY <1>3 DEF Pass
  <2>2. request \in Requests  BY DEF IInv, TypeInv
  <2>3. request' \in Requests  BY <1>2, <2>1, <2>2 DEF Requests
  <2>4. Passed("session")'  BY DEF Passed
  <2>5. request.decided = "admin" => request.route \in AdminRoutes
    BY DEF IInv, RequestInv
  <2>6. /\ SameCaller /\ request'.status = request.status
        /\ request'.origin = request.origin /\ request'.decided = request.decided
    BY <2>1, <2>2 DEF SameCaller, Requests
  <2> QED  BY <1>1, <1>2, <2>3, <2>4, <2>5, <2>6, PassPlain
<1>4. CASE \E s \in {503, 404, 409} : Refuse(s)
  BY <1>1, <1>2, <1>4, RefuseStep DEF Statuses
<1> QED  BY <1>3, <1>4 DEF Session

\* An admin string is let through under a policy only, and SQL never asks one.
LEMMA AuthorizeStep == IInv /\ Authorize => IInv'
<1> SUFFICES ASSUME IInv, Authorize  PROVE IInv'  OBVIOUS
<1> DEFINE text == IF request.route = "sql" THEN request.text ELSE "admin"
<1>1. At("authorize") /\ Undisturbed  BY DEF Authorize, Undisturbed
<1>2. /\ request.route \in Routes /\ up
      /\ Gone \in 0..(Len(GatesOf) - 1) /\ GatesOf[Gone + 1] = "authorize"
      /\ GatesOf \in Seq(Gates)
      /\ request.status # 200 /\ Tail(request.gates) \in Seq(Gates)
  BY <1>1, AtGate
<1>3. request \in Requests  BY DEF IInv, TypeInv
<1>4. Gone + 1 \in 1..Len(GatesOf)
  <2>1. Len(GatesOf) \in Nat  BY <1>2, LenProperties
  <2> HIDE DEF Gone, GatesOf
  <2> QED  BY <1>2, <2>1
<1>5. request.route = "sql" => request.text # "admin"
  <2>1. ASSUME request.route = "sql"  PROVE request.text # "admin"
    <3>1. Gone + 1 > 1 /\ GatesOf[1] = "parse"
      BY <1>2, <1>4, <2>1, GateOrder DEF GatesOf
    <3>2. \A i \in 1..Gone : Passed(GatesOf[i])
      BY <1>2, Zenon DEF IInv, GateInv
    <3>3. 1 \in 1..Gone
      <4> HIDE DEF Gone, GatesOf
      <4> QED  BY <1>2, <3>1
    <3>4. Passed("parse")  BY <3>1, <3>2, <3>3, Zenon
    <3> QED  BY <3>4 DEF Passed
  <2> QED  BY <2>1
<1>6. request.route # "login"
  BY <1>2, <1>4, GateOrder DEF GatesOf
<1>7. text \in {"sql", "admin"}  BY <1>3 DEF Requests
<1>8. text = "admin" <=> request.route \in AdminRoutes
  BY <1>2, <1>5, <1>6 DEF AdminRoutes
<1>9. PICK ok \in Authorization(text) :
        IF ok THEN Pass([request EXCEPT !.decided = text]) ELSE Refuse(403)
  BY Zenon DEF Authorize
<1> HIDE DEF text
<1>10. CASE ok
  <2>1. request' = [request EXCEPT !.decided = text, !.gates = Tail(request.gates)]
    BY <1>9, <1>10 DEF Pass
  <2>2. request' \in Requests  BY <1>2, <1>3, <1>7, <2>1 DEF Requests
  <2>3. text = "admin" => customAuthz \/ allowAdmin
    BY <1>9, <1>10 DEF Authorization
  <2>4. allowAdmin => allowed  BY <1>2 DEF IInv, ManagerInv
  <2>5. allowed' = allowed /\ customAuthz' = customAuthz
    BY <1>1 DEF Undisturbed, Environment
  <2>6. /\ SameCaller /\ request'.status = request.status
        /\ request'.origin = request.origin /\ request'.decided = text
    BY <1>3, <2>1 DEF SameCaller, Requests
  <2>7. request'.route = request.route  BY <2>6 DEF SameCaller
  <2>8. Passed("authorize")'
    BY <1>8, <2>3, <2>4, <2>5, <2>7 DEF Passed
  <2> QED  BY <1>1, <1>2, <1>8, <2>2, <2>6, <2>8, PassPlain
<1>11. CASE ~ok
  BY <1>1, <1>2, <1>9, <1>11, RefuseStep DEF Statuses
<1> QED  BY <1>10, <1>11

LEMMA ActStep == IInv /\ Act => IInv'
<1> SUFFICES ASSUME IInv, Act  PROVE IInv'  OBVIOUS
<1>1. At("act") /\ Undisturbed  BY DEF Act, Undisturbed
<1>2. /\ request.route \in Routes /\ up
      /\ Gone \in 0..(Len(GatesOf) - 1) /\ GatesOf[Gone + 1] = "act"
      /\ GatesOf \in Seq(Gates) /\ request.gates \in Seq(Gates)
      /\ Tail(request.gates) \in Seq(Gates)
      /\ Len(Tail(request.gates)) = Len(request.gates) - 1
  BY <1>1, AtGate
<1>3. request \in Requests  BY DEF IInv, TypeInv
<1>4. CASE Succeed(request)
  <2>1. request' = [request EXCEPT !.gates = << >>, !.status = 200]
    BY <1>4 DEF Succeed
  <2>2. Len(GatesOf) \in Nat /\ Len(request.gates) \in Nat
    BY <1>2, LenProperties
  <2>3. Gone + 1 \in 1..Len(GatesOf)
    <3> HIDE DEF Gone, GatesOf
    <3> QED  BY <1>2, <2>2
  <2>4. Gone + 1 = Len(GatesOf)  BY <1>2, <2>3, GateOrder DEF GatesOf
  <2>5. Len(request.gates) = 1
    <3> DEFINE k == Len(GatesOf)
               n == Len(request.gates)
    <3>1. k \in Nat /\ n \in Nat /\ (k - n) + 1 = k  BY <2>2, <2>4 DEF Gone
    <3> HIDE DEF k, n
    <3>2. n = 1  BY <3>1
    <3> QED  BY <3>2 DEF n
  <2>6. Tail(request.gates) = << >>
    <3>1. Len(Tail(request.gates)) = 0  BY <1>2, <2>5
    <3> QED  BY <1>2, <3>1, EmptySeq
  <2>7. << >> \in Seq(Gates) /\ 200 \in Statuses  BY DEF Statuses
  <2>8. request' \in Requests
    <3> HIDE DEF Gates, Statuses
    <3> QED  BY <1>3, <2>1, <2>7 DEF Requests
  <2>9. Passed("act")'  BY DEF Passed
  <2>10. request.decided = "admin" => request.route \in AdminRoutes
    BY DEF IInv, RequestInv
  <2>11. /\ SameCaller /\ request'.origin = request.origin
         /\ request'.decided = request.decided
    BY <1>3, <2>1, <2>6 DEF SameCaller, Requests
  <2> QED  BY <1>1, <2>5, <2>8, <2>9, <2>10, <2>11, PassPlain
<1>5. ASSUME NEW s \in Failures, Refuse(s)  PROVE IInv'
  <2>1. s \in Statuses \ {200}  BY <1>2, GateOrder DEF Failures
  <2> QED  BY <1>1, <1>2, <1>5, <2>1, RefuseStep
<1> QED  BY <1>4, <1>5 DEF Act

-----------------------------------------------------------------------------
(* Who a request is from.                                                  *)

LEMMA ManagerIs ==
    ASSUME IInv, up
    PROVE  /\ Key = servers /\ Key # NoKey
           /\ servers \in 1..MaxServers
           /\ clock \in 0..MaxClock
<1>1. servers > 0 /\ servers \in 0..MaxServers /\ signingKey \in {NoKey, servers}
  BY DEF IInv, TypeInv, ManagerInv
<1> QED  BY <1>1 DEF Key, NoKey, IInv, TypeInv

LEMMA CredentialsAre ==
    ASSUME NEW c \in Credentials
    PROVE  /\ c.authorization # << >> =>
                /\ c.authorization[1] \in {"Basic", "Bearer"}
                /\ c.authorization[2] \in Presented
           /\ c.harbor # << >> => c.harbor[1] \in Presented
           /\ c.cookie # << >> =>
                \E l \in logins : c.cookie \in {l.cookie} \union Altered(l.cookie)
<1>1. /\ c.authorization \in Authorizations
      /\ c.harbor \in HarborTokens
      /\ c.cookie \in {<< >>} \union Sent \union UNION {Altered(d) : d \in Sent}
  BY DEF Credentials, Authorizations, HarborTokens
<1>2. c.authorization # << >> =>
        /\ c.authorization[1] \in {"Basic", "Bearer"}
        /\ c.authorization[2] \in Presented
  BY <1>1 DEF Authorizations, Presented
<1>3. ASSUME c.harbor # << >>  PROVE c.harbor[1] \in Presented
  <2>1. PICK t \in Presented : c.harbor = <<t>>
    BY <1>1, <1>3 DEF HarborTokens, Presented
  <2>2. <<t>>[1] = t  OBVIOUS
  <2>3. c.harbor[1] = t  BY <2>1, <2>2, Zenon
  <2> QED  BY <2>3
<1>4. ASSUME c.cookie # << >>
      PROVE  \E l \in logins : c.cookie \in {l.cookie} \union Altered(l.cookie)
  BY <1>1, <1>4, Zenon DEF Sent
<1> QED  BY <1>2, <1>3, <1>4

\* A cookie that is verified is one that a login on this server was answered,
\* and still good (FromCookie).
LEMMA VerifiedIsLogin ==
    ASSUME IInv, up, NEW c \in Credentials, c.cookie # << >>,
           VerifyCookie(Key, c.cookie, clock)
    PROVE  \E l \in logins :
             /\ l.server = servers /\ l.cookie = c.cookie
             /\ CookiePrincipal(c.cookie) = l.principal
             /\ clock < l.until
<1>1. PICK l \in logins : c.cookie \in {l.cookie} \union Altered(l.cookie)
  BY CredentialsAre
<1>2. /\ l.cookie = IssueCookie(l.server, l.principal, l.until)
      /\ l.principal \in Principals /\ l.until \in Times
  BY DEF IInv, LoginInv, TypeInv, Logins
<1>3. Key = servers /\ Key # NoKey  BY ManagerIs
<1>4. c.cookie = l.cookie
  <2>1. CASE c.cookie \in Altered(l.cookie)
    BY <1>2, <1>3, <2>1, OnlyWholeCookies
  <2> QED  BY <1>1, <2>1
<1>5. /\ CookiePrincipal(l.cookie) = l.principal
      /\ VerifyCookie(Key, l.cookie, clock) <=> Key = l.server /\ clock < l.until
  <2>1. /\ CookiePrincipal(IssueCookie(l.server, l.principal, l.until)) = l.principal
        /\ \A key, now :
             VerifyCookie(key, IssueCookie(l.server, l.principal, l.until), now)
               <=> key = l.server /\ now < l.until
    BY <1>2, CookieReadsBack
  <2> QED  BY <1>2, <2>1, Zenon
<1>6. VerifyCookie(Key, l.cookie, clock)  BY <1>4
<1>7. l.server = servers /\ clock < l.until  BY <1>3, <1>5, <1>6
<1> QED  BY <1>4, <1>5, <1>7

\* Whom AuthenticateRequest lets in.
LEMMA AuthOutcome ==
    ASSUME IInv, up, NEW c \in Credentials, NEW o \in AuthenticateRequest(c), o.ok
    PROVE  /\ o.source \in Sources \ {"none"}
           /\ o.principal \in Principals \union {LocalDev}
           /\ FirstToken(c) \in Presented
           /\ o.source = "local_dev" <=> unauthenticated
           /\ unauthenticated => o.principal = LocalDev
           /\ ~unauthenticated /\ FirstToken(c) # "" =>
                /\ o.source \in {"bearer", "x_harbor_token"}
                /\ o.principal = PrincipalOf[FirstToken(c)]
           /\ o.source = "cookie" =>
                \E l \in logins :
                  /\ l.server = servers /\ l.principal = o.principal
                  /\ l.cookie = c.cookie /\ clock < l.until
<1> USE DEF Sources
<1>1. FirstToken(c) \in Presented
  BY CredentialsAre DEF FirstToken, Presented
<1>2. CASE unauthenticated
  <2>1. o = [ok |-> TRUE, principal |-> LocalDev, source |-> "local_dev"]
    BY <1>2 DEF AuthenticateRequest, Accepted
  <2> QED  BY <1>1, <1>2, <2>1
<1>3. CASE ~unauthenticated /\ ExplicitIn(c)
  <2>1. o \in FromHeaders(c)  BY <1>3 DEF AuthenticateRequest
  <2>2. PICK s \in {"bearer", "x_harbor_token"} : o \in Explicit(FirstToken(c), s)
    <3>1. CASE c.authorization # << >>
      <4>1. FirstToken(c) = c.authorization[2]  BY <3>1 DEF FirstToken
      <4>2. o \in IF c.authorization[1] = "Bearer"
                  THEN Explicit(c.authorization[2], "bearer") ELSE {Rejected}
        BY <2>1, <3>1 DEF FromHeaders
      <4>3. ~Rejected.ok  BY DEF Rejected
      <4> QED  BY <4>1, <4>2, <4>3, Zenon
    <3>2. CASE c.authorization = << >> /\ c.harbor # << >>
      <4>1. FirstToken(c) = c.harbor[1]  BY <3>2 DEF FirstToken
      <4>2. o \in Explicit(c.harbor[1], "x_harbor_token")
        BY <2>1, <3>2 DEF FromHeaders
      <4> QED  BY <4>1, <4>2
    <3> QED  BY <1>3, <3>1, <3>2 DEF ExplicitIn
  <2>3. /\ FirstToken(c) # ""
        /\ o = [ok |-> TRUE, principal |-> PrincipalOf[FirstToken(c)], source |-> s]
    <3>1. ~Rejected.ok  BY DEF Rejected
    <3>2. FirstToken(c) # ""  BY <2>2, <3>1, Zenon DEF Explicit
    <3>3. o \in {Accepted(PrincipalOf[FirstToken(c)], s), Rejected}
      BY <2>2, <3>2, Zenon DEF Explicit
    <3>4. o = Accepted(PrincipalOf[FirstToken(c)], s)  BY <3>1, <3>3, Zenon
    <3> QED  BY <3>2, <3>4 DEF Accepted
  <2>4. o.principal = PrincipalOf[FirstToken(c)] /\ o.source = s  BY <2>3
  <2>5. FirstToken(c) \in Tokens  BY <1>1, <2>3 DEF Presented
  <2>6. o.principal \in Principals  BY <2>4, <2>5 DEF Principals
  <2> QED  BY <1>1, <1>3, <2>4, <2>6
<1>4. CASE ~unauthenticated /\ ~ExplicitIn(c)
  <2>1. o \in FromCookie(c.cookie)  BY <1>4 DEF AuthenticateRequest
  <2>2. FirstToken(c) = ""  BY <1>4 DEF ExplicitIn, FirstToken
  <2>3. /\ c.cookie # << >> /\ VerifyCookie(Key, c.cookie, clock)
        /\ o = [ok |-> TRUE, principal |-> CookiePrincipal(c.cookie),
                source |-> "cookie"]
    <3>1. ~Rejected.ok  BY DEF Rejected
    <3> QED  BY <2>1, <3>1, Zenon DEF FromCookie, Accepted
  <2>4. PICK l \in logins :
          /\ l.server = servers /\ l.cookie = c.cookie
          /\ CookiePrincipal(c.cookie) = l.principal
          /\ clock < l.until
    BY <2>3, VerifiedIsLogin
  <2>5. l.principal \in Principals  BY DEF IInv, TypeInv, Logins
  <2>6. o.principal = l.principal /\ o.source = "cookie"  BY <2>3, <2>4
  <2> QED  BY <1>1, <1>4, <2>2, <2>4, <2>5, <2>6
<1> QED  BY <1>2, <1>3, <1>4

\* Only /sql has a gate before this one, and it is about the text.
LEMMA AuthenticateStep ==
    ASSUME IInv, NEW c \in Credentials, Authenticate(c)
    PROVE  IInv'
<1>1. At("authenticate") /\ UNCHANGED <<Environment, logins>>
  BY DEF Authenticate
<1>2. Undisturbed  BY <1>1 DEF Authenticate, Undisturbed
<1>3. /\ request.route \in Routes /\ up
      /\ Gone \in 0..(Len(GatesOf) - 1) /\ GatesOf[Gone + 1] = "authenticate"
      /\ GatesOf \in Seq(Gates) /\ Tail(request.gates) \in Seq(Gates)
      /\ request.status # 200
  BY <1>1, AtGate
<1>4. request \in Requests  BY DEF IInv, TypeInv
<1>5. /\ request.route # "login"
      /\ \A i \in 1..Gone : GatesOf[i] = "parse"
  <2>1. Gone + 1 \in 1..Len(GatesOf) /\ Gone + 1 - 1 = Gone
    <3>1. Len(GatesOf) \in Nat  BY <1>3, LenProperties
    <3> HIDE DEF Gone, GatesOf
    <3> QED  BY <1>3, <3>1
  <2>2. /\ request.route # "login"
        /\ \A i \in 1..(Gone + 1 - 1) : GatesOf[i] = "parse"
    <3> HIDE DEF Gone
    <3> QED  BY <1>3, <2>1, GateOrder DEF GatesOf
  <2> QED  BY <2>1, <2>2
<1>6. PICK o \in AuthenticateRequest(c) :
        IF o.ok
        THEN Pass([request EXCEPT !.principal = o.principal,
                     !.source = o.source,
                     !.since = IF o.source = "cookie" THEN clock ELSE 0,
                     !.token = IF unauthenticated THEN "" ELSE FirstToken(c),
                     !.cookie = IF o.source = "cookie" THEN c.cookie ELSE << >>])
        ELSE Refuse(401)
  BY Zenon DEF Authenticate
<1>7. CASE o.ok
  <2>1. /\ o.source \in Sources \ {"none"}
        /\ o.principal \in Principals \union {LocalDev}
        /\ FirstToken(c) \in Presented
        /\ o.source = "local_dev" <=> unauthenticated
        /\ unauthenticated => o.principal = LocalDev
        /\ ~unauthenticated /\ FirstToken(c) # "" =>
             /\ o.source \in {"bearer", "x_harbor_token"}
             /\ o.principal = PrincipalOf[FirstToken(c)]
        /\ o.source = "cookie" =>
             \E l \in logins :
               /\ l.server = servers /\ l.principal = o.principal
               /\ l.cookie = c.cookie /\ clock < l.until
    BY <1>3, <1>7, AuthOutcome
  <2> DEFINE token  == IF unauthenticated THEN "" ELSE FirstToken(c)
             since  == IF o.source = "cookie" THEN clock ELSE 0
             cookie == IF o.source = "cookie" THEN c.cookie ELSE << >>
  <2>2. request' = [request EXCEPT !.principal = o.principal, !.source = o.source,
                      !.since = since, !.token = token, !.cookie = cookie,
                      !.gates = Tail(request.gates)]
    BY <1>6, <1>7 DEF Pass
  <2>3. token \in Presented  BY <2>1 DEF Presented
  <2>4. since \in 0..MaxClock /\ since <= clock
    <3>1. clock \in 0..MaxClock /\ 0 \in 0..MaxClock  BY TimesBounded, ManagerIs, <1>3
    <3> QED  BY <3>1
  <2>5. cookie \in Cookies \union {<< >>}
    <3>1. CASE o.source = "cookie"
      <4>1. PICK l \in logins : l.cookie = c.cookie  BY <2>1, <3>1
      <4>2. l.cookie \in Cookies  BY DEF IInv, TypeInv, Logins
      <4> QED  BY <4>1, <4>2
    <3> QED  BY <3>1
  <2> HIDE DEF token, since, cookie
  <2>6. request' \in Requests
    BY <1>3, <1>4, <2>1, <2>2, <2>3, <2>4, <2>5 DEF Requests
  <2>7. /\ request'.route = request.route /\ request'.gates = Tail(request.gates)
        /\ request'.status = request.status /\ request'.text = request.text
        /\ request'.decided = request.decided
        /\ request'.principal = o.principal /\ request'.source = o.source
        /\ request'.token = token /\ request'.since = since
        /\ request'.cookie = cookie
    BY <1>4, <2>2 DEF Requests
  <2>8. TypeInv' /\ ManagerInv' /\ LoginInv'
    BY <1>2, <1>3, <2>6, UndisturbedKeeps
  <2>9. LetIn'
    <3>1. ASSUME o.source = "cookie"
          PROVE  \E l \in logins :
                   /\ l.server = servers /\ l.principal = o.principal
                   /\ l.cookie = cookie /\ since < l.until
      BY <2>1, <3>1 DEF cookie, since
    <3>2. logins' = logins /\ servers' = servers  BY <1>1 DEF Environment
    <3> QED  BY <2>7, <3>1, <3>2 DEF LetIn
  <2>10. CredentialDecides'
    <3>1. unauthenticated' = unauthenticated  BY <1>1 DEF Environment
    <3> QED  BY <2>1, <2>7, <3>1 DEF CredentialDecides, token
  <2>11. ASSUME NEW i \in 1..(Gone + 1)  PROVE Passed(GatesOf[i])'
    <3>1. GatesOf' = GatesOf  BY <2>7 DEF GatesOf
    <3>2. GatesOf[i] \in {"parse", "authenticate"}
      <4> HIDE DEF Gone, GatesOf
      <4>1. i = Gone + 1 \/ i \in 1..Gone  BY <1>3
      <4> QED  BY <1>3, <1>5, <4>1
    <3>3. GatesOf[i] = "parse" => request.text # "admin"
      <4>1. CASE i \in 1..Gone
        <5>1. Passed(GatesOf[i])
          BY <1>3, <4>1, Zenon DEF IInv, GateInv
        <5> QED  BY <5>1 DEF Passed
      <4>2. CASE i = Gone + 1  BY <1>3, <4>2
      <4>3. i = Gone + 1 \/ i \in 1..Gone
        <5> HIDE DEF Gone, GatesOf
        <5> QED  BY <1>3
      <4> QED  BY <4>1, <4>2, <4>3
    <3> HIDE DEF GatesOf
    <3> QED  BY <2>7, <3>1, <3>2, <3>3 DEF Passed
  <2>12. request.decided = "admin" => request.route \in AdminRoutes
    BY DEF IInv, RequestInv
  <2> HIDE DEF Gone, GatesOf
  <2> QED
    BY <1>1, <1>3, <1>5, <2>4, <2>7, <2>8, <2>9, <2>10, <2>11, <2>12, PassStep
<1>8. CASE ~o.ok  BY <1>2, <1>3, <1>6, <1>8, RefuseStep DEF Statuses
<1> QED  BY <1>7, <1>8

\* Where a login is, and who is logging in.
LEMMA LoginGates ==
    ASSUME IInv, NEW g \in {"token", "issue", "answer"}, At(g)
    PROVE  /\ request.route = "login" /\ request.source = "none" /\ up
           /\ GatesOf = <<"token", "issue", "answer">>
           /\ Gone = IF g = "token" THEN 0 ELSE IF g = "issue" THEN 1 ELSE 2
           /\ request.gates \in Seq(Gates) /\ Tail(request.gates) \in Seq(Gates)
           /\ Len(request.gates) = 3 - Gone
           /\ g # "token" => request.principal \in Principals
           /\ g = "answer" =>
                request.cookie = IssueCookie(servers, request.principal,
                                             request.since + request.ttl)
<1>1. /\ request.route \in Routes /\ up
      /\ Gone \in 0..(Len(GatesOf) - 1) /\ GatesOf[Gone + 1] = g
      /\ GatesOf \in Seq(Gates) /\ request.gates \in Seq(Gates)
      /\ Tail(request.gates) \in Seq(Gates)
  BY AtGate
<1>2. Len(GatesOf) \in Nat /\ Len(request.gates) \in Nat
  BY <1>1, LenProperties
<1>3. Gone + 1 \in 1..Len(GatesOf)
  <2> HIDE DEF Gone, GatesOf
  <2> QED  BY <1>1, <1>2
<1>4. request.route = "login"
  BY <1>1, <1>3, GateOrder DEF GatesOf
<1>5. GatesOf = <<"token", "issue", "answer">>
  BY <1>4 DEF GatesOf, Handlers, HandleLogin
<1>6. /\ Len(GatesOf) = 3
      /\ GatesOf[1] = "token" /\ GatesOf[2] = "issue" /\ GatesOf[3] = "answer"
  BY <1>5
<1>7. Gone = IF g = "token" THEN 0 ELSE IF g = "issue" THEN 1 ELSE 2
  <2> HIDE DEF Gone, GatesOf
  <2>1. Gone + 1 \in {1, 2, 3} /\ Gone \in {0, 1, 2}  BY <1>1, <1>6
  <2> QED  BY <1>1, <1>6, <2>1
<1>8. Len(request.gates) = 3 - Gone
  <2> DEFINE n == Len(request.gates)
  <2>1. Gone = 3 - n /\ n \in Nat  BY <1>2, <1>6 DEF Gone
  <2> HIDE DEF n, Gone
  <2>2. n = 3 - Gone  BY <2>1
  <2> QED  BY <2>2 DEF n
<1>9. \A i \in 1..Gone : Passed(GatesOf[i])
  BY <1>1, Zenon DEF IInv, GateInv
<1>10. request.source = "none"  BY <1>4 DEF IInv, RequestInv
<1>11. g # "token" => request.principal \in Principals
  <2> HIDE DEF Gone, GatesOf
  <2>1. g # "token" => 1 \in 1..Gone  BY <1>7
  <2>2. g # "token" => Passed("token")  BY <1>6, <1>9, <2>1
  <2> QED  BY <2>2 DEF Passed
<1>12. g = "answer" =>
         request.cookie = IssueCookie(servers, request.principal,
                                      request.since + request.ttl)
  <2> HIDE DEF Gone, GatesOf
  <2>1. g = "answer" => 2 \in 1..Gone  BY <1>7
  <2>2. g = "answer" => Passed("issue")  BY <1>6, <1>9, <2>1
  <2> QED  BY <2>2 DEF Passed
<1> HIDE DEF Gone, GatesOf
<1> QED  BY <1>1, <1>4, <1>5, <1>7, <1>8, <1>10, <1>11, <1>12

LEMMA LoginStep ==
    ASSUME IInv, NEW c \in Credentials, NEW other \in Presented, Login(c, other)
    PROVE  IInv'
<1> DEFINE token  == IF ExplicitIn(c) THEN FirstToken(c) ELSE other
<1>1. At("token") /\ Undisturbed  BY DEF Login, Undisturbed
<1>2. /\ request.route = "login" /\ request.source = "none" /\ up
      /\ GatesOf = <<"token", "issue", "answer">> /\ Gone = 0
      /\ request.gates \in Seq(Gates) /\ Tail(request.gates) \in Seq(Gates)
  BY <1>1, LoginGates
<1>3. request.status # 200  BY <1>1, AtGate
<1>4. request \in Requests  BY DEF IInv, TypeInv
<1>5. token \in Presented
  <2>1. FirstToken(c) \in Presented
    BY CredentialsAre DEF FirstToken, Presented
  <2>2. CASE ExplicitIn(c)  BY <2>1, <2>2
  <2>3. CASE ~ExplicitIn(c)  BY <2>3
  <2> QED  BY <2>2, <2>3
<1>6. \/ Refuse(401)
      \/ \E s \in {400, 413} : Refuse(s)
      \/ token # "" /\ Pass([request EXCEPT !.principal = PrincipalOf[token]])
  <2> DEFINE bearer == c.authorization # << >> => c.authorization[1] = "Bearer"
  <2>1. \/ ~bearer /\ Refuse(401)
        \/ bearer /\ token = "" /\ \E s \in {400, 413} : Refuse(s)
        \/ /\ bearer /\ token # ""
           /\ \E ok \in Authentication(token) :
                IF ok THEN Pass([request EXCEPT !.principal = PrincipalOf[token]])
                ELSE Refuse(401)
    BY Zenon DEF Login
  <2> HIDE DEF bearer, token
  <2> QED  BY <2>1, Zenon
<1> HIDE DEF token
<1>7. CASE Refuse(401)
  BY <1>1, <1>2, <1>7, RefuseStep DEF Statuses
<1>8. CASE \E s \in {400, 413} : Refuse(s)
  BY <1>1, <1>2, <1>8, RefuseStep DEF Statuses
<1>9. CASE token # "" /\ Pass([request EXCEPT !.principal = PrincipalOf[token]])
  <2>1. request' = [request EXCEPT !.principal = PrincipalOf[token],
                                   !.gates = Tail(request.gates)]
    BY <1>9 DEF Pass
  <2>2. PrincipalOf[token] \in Principals
    <3>1. token \in Tokens  BY <1>5, <1>9 DEF Presented
    <3> QED  BY <3>1 DEF Principals
  <2>3. request' \in Requests  BY <1>2, <1>4, <2>1, <2>2 DEF Requests
  <2>4. /\ request'.route = request.route /\ request'.gates = Tail(request.gates)
        /\ request'.status = request.status /\ request'.source = request.source
        /\ request'.since = request.since /\ request'.decided = request.decided
        /\ request'.principal \in Principals
    BY <1>4, <2>1, <2>2 DEF Requests
  <2>5. TypeInv' /\ ManagerInv' /\ LoginInv'
    BY <1>1, <1>2, <2>3, UndisturbedKeeps
  <2>6. LetIn' /\ CredentialDecides'
    BY <1>2, <2>4 DEF LetIn, CredentialDecides
  <2>7. ASSUME NEW i \in 1..(Gone + 1)  PROVE Passed(GatesOf[i])'
    <3>1. GatesOf' = GatesOf  BY <2>4 DEF GatesOf
    <3>2. GatesOf[i] = "token"
      <4> HIDE DEF Gone, GatesOf
      <4>0. Gone + 1 = 1  BY <1>2
      <4>1. i \in 1..1  BY <4>0, Zenon
      <4>2. GatesOf[1] = "token"  BY <1>2
      <4>3. 1 = i  BY <4>1
      <4> QED  BY <4>2, <4>3
    <3> HIDE DEF GatesOf
    <3> QED  BY <2>4, <3>1, <3>2 DEF Passed
  <2>8. /\ request.decided = "admin" => request.route \in AdminRoutes
        /\ request.since <= clock
    BY DEF IInv, RequestInv
  <2>9. UNCHANGED Environment  BY <1>1 DEF Undisturbed
  <2> HIDE DEF Gone, GatesOf
  <2> QED
    BY <1>1, <1>2, <1>3, <2>4, <2>5, <2>6, <2>7, <2>8, <2>9, PassStep
<1> QED  BY <1>6, <1>7, <1>8, <1>9

\* The cookie's expiry is one that ToText can write (Issue, CookieTtl).
LEMMA IssueStep ==
    ASSUME IInv, NEW ttl \in Ttls, Issue(ttl)
    PROVE  IInv'
<1> DEFINE t == CookieTtl(ttl)
<1>1. At("issue") /\ UNCHANGED <<Environment, logins>>  BY DEF Issue
<1>2. Undisturbed  BY <1>1 DEF Issue, Undisturbed
<1>3. /\ request.route = "login" /\ request.source = "none" /\ up
      /\ GatesOf = <<"token", "issue", "answer">> /\ Gone = 1
      /\ request.gates \in Seq(Gates) /\ Tail(request.gates) \in Seq(Gates)
      /\ request.principal \in Principals
  BY <1>1, LoginGates
<1>4. request.status # 200  BY <1>1, AtGate
<1>5. request \in Requests  BY DEF IInv, TypeInv
<1>6. Key = servers /\ servers \in 1..MaxServers /\ clock \in 0..MaxClock
  BY <1>3, ManagerIs
<1>7. t \in 0..TtlCap
  <2>1. ttl \in Nat /\ DefaultTtl \in Nat /\ TtlCap \in Nat  BY AccessAssumption
  <2> QED  BY <2>1 DEF CookieTtl
<1>8. request' = [request EXCEPT !.since = clock, !.ttl = t,
                    !.cookie = IssueCookie(Key, request.principal, clock + t),
                    !.gates = Tail(request.gates)]
  BY DEF Issue, Pass
<1> HIDE DEF t
<1>9. clock + t \in Times  BY <1>6, <1>7, TimesBounded DEF Times
<1>10. IssueCookie(servers, request.principal, clock + t) \in Cookies
  BY <1>3, <1>6, <1>9 DEF Cookies
<1>11. request' \in Requests
  BY <1>3, <1>5, <1>6, <1>7, <1>8, <1>10 DEF Requests
<1>12. /\ request'.route = request.route /\ request'.gates = Tail(request.gates)
       /\ request'.status = request.status /\ request'.source = request.source
       /\ request'.since = clock /\ request'.decided = request.decided
       /\ request'.principal = request.principal /\ request'.ttl = t
       /\ request'.cookie = IssueCookie(servers, request.principal, clock + t)
  BY <1>5, <1>6, <1>8 DEF Requests
<1>13. TypeInv' /\ ManagerInv' /\ LoginInv'
  BY <1>2, <1>3, <1>11, UndisturbedKeeps
<1>14. LetIn' /\ CredentialDecides'
  BY <1>3, <1>12 DEF LetIn, CredentialDecides
<1>15. ASSUME NEW i \in 1..(Gone + 1)  PROVE Passed(GatesOf[i])'
  <2>1. GatesOf' = GatesOf /\ servers' = servers
    BY <1>1, <1>12 DEF GatesOf, Environment
  <2>2. GatesOf[i] \in {"token", "issue"}
    <3> HIDE DEF Gone, GatesOf
    <3>1. i \in {1, 2}  BY <1>3
    <3> QED  BY <1>3, <3>1
  <2> HIDE DEF GatesOf
  <2> QED  BY <1>3, <1>12, <2>1, <2>2 DEF Passed
<1>16. request.decided = "admin" => request.route \in AdminRoutes
  BY DEF IInv, RequestInv
<1> HIDE DEF Gone, GatesOf
<1> QED
  BY <1>1, <1>3, <1>4, <1>6, <1>12, <1>13, <1>14, <1>15, <1>16, PassStep

\* The login is told an expiry that is no earlier than its cookie's.
LEMMA AnswerLoginStep == IInv /\ AnswerLogin => IInv'
<1> SUFFICES ASSUME IInv, AnswerLogin  PROVE IInv'  OBVIOUS
<1> DEFINE L == [server |-> servers, principal |-> request.principal,
                 cookie |-> request.cookie, until |-> request.since + request.ttl,
                 told |-> clock + request.ttl]
<1>1. /\ At("answer") /\ UNCHANGED Environment /\ signingKey' = signingKey
      /\ logins' = logins \union {L}
      /\ request' = [request EXCEPT !.gates = << >>, !.status = 200]
  BY DEF AnswerLogin, Succeed
<1>2. /\ request.route = "login" /\ request.source = "none" /\ up
      /\ GatesOf = <<"token", "issue", "answer">> /\ Gone = 2
      /\ request.gates \in Seq(Gates) /\ Tail(request.gates) \in Seq(Gates)
      /\ Len(request.gates) = 3 - Gone
      /\ request.principal \in Principals
      /\ request.cookie = IssueCookie(servers, request.principal,
                                      request.since + request.ttl)
  BY <1>1, LoginGates
<1>3. request \in Requests /\ logins \subseteq Logins  BY DEF IInv, TypeInv
<1>4. servers \in 1..MaxServers /\ clock \in 0..MaxClock
  BY <1>2, ManagerIs
<1>5. request.since <= clock /\ request.decided # "admin"
  BY <1>2 DEF IInv, RequestInv, AdminRoutes
<1>6. request.since \in 0..MaxClock /\ request.ttl \in 0..TtlCap
  BY <1>3 DEF Requests
<1>7. /\ request.since + request.ttl \in Times /\ clock + request.ttl \in Times
      /\ request.since + request.ttl <= clock + request.ttl
      /\ request.since + request.ttl <= clock + TtlCap
  BY <1>4, <1>5, <1>6, TimesBounded DEF Times
<1>8. L \in Logins
  <2>1. request.cookie \in Cookies  BY <1>2, <1>4, <1>7 DEF Cookies
  <2> QED  BY <1>2, <1>4, <1>7, <2>1 DEF Logins
<1>9. /\ L.cookie = IssueCookie(L.server, L.principal, L.until)
      /\ L.server = servers /\ L.until <= L.told /\ L.until <= clock + TtlCap
  BY <1>2, <1>7
<1> HIDE DEF L
<1>10. Len(request.gates) = 1  BY <1>2
<1>11. Tail(request.gates) = << >>
  <2>1. Len(Tail(request.gates)) = 0
    <3>1. Len(Tail(request.gates)) = Len(request.gates) - 1  BY <1>1, AtGate
    <3> QED  BY <1>10, <3>1
  <2> QED  BY <1>2, <2>1, EmptySeq
<1>12. << >> \in Seq(Gates) /\ 200 \in Statuses  BY DEF Statuses
<1>13. request' \in Requests
  <2> HIDE DEF Gates, Statuses
  <2> QED  BY <1>1, <1>3, <1>12 DEF Requests
<1>14. /\ request'.route = request.route /\ request'.gates = Tail(request.gates)
       /\ request'.source = request.source /\ request'.since = request.since
       /\ request'.decided = request.decided /\ request'.ttl = request.ttl
       /\ request'.principal = request.principal /\ request'.cookie = request.cookie
  BY <1>1, <1>3, <1>11 DEF Requests
<1>15. TypeInv' /\ ManagerInv'
  <2> USE DEF IInv, Environment, settings
  <2>1. TypeInv'  BY <1>1, <1>3, <1>8, <1>13 DEF TypeInv
  <2>2. IsBuiltinNopAuthz(authzName)' = IsBuiltinNopAuthz(authzName)
    BY <1>1 DEF IsBuiltinNopAuthz
  <2>3. ManagerInv'  BY <1>1, <1>2, <2>2 DEF ManagerInv
  <2> QED  BY <2>1, <2>3
<1>16. LoginInv'
  <2>1. servers' = servers /\ clock' = clock  BY <1>1 DEF Environment
  <2>2. servers <= servers  BY <1>4
  <2> QED  BY <1>1, <1>9, <2>1, <2>2 DEF IInv, LoginInv
<1>17. LetIn' /\ CredentialDecides'
  BY <1>2, <1>14 DEF LetIn, CredentialDecides
<1>18. ASSUME NEW i \in 1..(Gone + 1)  PROVE Passed(GatesOf[i])'
  <2>1. GatesOf' = GatesOf /\ servers' = servers
    BY <1>1, <1>14 DEF GatesOf, Environment
  <2>2. GatesOf[i] \in {"token", "issue", "answer"}
    <3> HIDE DEF Gone, GatesOf
    <3>1. i \in {1, 2, 3}  BY <1>2
    <3> QED  BY <1>2, <3>1
  <2> HIDE DEF GatesOf
  <2> QED  BY <1>2, <1>14, <2>1, <2>2 DEF Passed
<1> HIDE DEF Gone, GatesOf
<1> QED
  BY <1>1, <1>2, <1>5, <1>10, <1>14, <1>15, <1>16, <1>17, <1>18, PassStep

LEMMA ForgetStep == IInv /\ Forget => IInv'
<1> SUFFICES ASSUME IInv, Forget  PROVE IInv'  OBVIOUS
<1>1. Refuse(0)
  <2>1. NoRequest = [NoRequest EXCEPT !.status = 0]
    BY RefusedIs DEF NoRequest
  <2> QED  BY <2>1 DEF Forget, Refuse
<1>2. Undisturbed /\ signingKey' = signingKey  BY DEF Forget, Undisturbed
<1>3. 0 \in Statuses \ {200}  BY DEF Statuses
<1> QED  BY <1>1, <1>2, <1>3, RefuseStep

\* A request begins with all the gates of its route before it.
LEMMA ArriveStep ==
    ASSUME IInv, NEW route \in Routes, NEW text \in {"sql", "admin"},
           Arrive(route, text)
    PROVE  IInv'
<1>1. Undisturbed /\ signingKey' = signingKey /\ up
  BY DEF Arrive, Undisturbed
<1>2. request' = [NoRequest EXCEPT !.route = route,
                                   !.gates = Handlers[route].gates, !.text = text]
  BY DEF Arrive
<1> DEFINE G == Handlers[route].gates
<1>3. G \in Seq(Gates)  BY GateOrder
<1>4. request' = [route |-> route, gates |-> G, status |-> 0,
                  principal |-> LocalDev, source |-> "none", token |-> "",
                  cookie |-> << >>, since |-> 0, ttl |-> 0, text |-> text,
                  origin |-> "none", decided |-> "none"]
  BY <1>2 DEF NoRequest
<1> HIDE DEF G
<1>5. request' \in Requests
  <2>1. 0 \in 0..MaxClock /\ 0 \in 0..TtlCap  BY TimesBounded
  <2>2. LocalDev \in Principals \union {LocalDev} /\ << >> \in Cookies \union {<< >>}
    OBVIOUS
  <2>3. "none" \in Sources /\ "none" \in Origins /\ 0 \in Statuses
    BY DEF Sources, Origins, Statuses
  <2>4. "" \in Presented  BY DEF Presented
  <2> QED  BY <1>3, <1>4, <2>1, <2>2, <2>3, <2>4 DEF Requests
<1>6. /\ request'.route = route /\ request'.gates = G /\ request'.source = "none"
      /\ request'.status = 0 /\ request'.since = 0 /\ request'.decided = "none"
  BY <1>4
<1>7. TypeInv' /\ ManagerInv' /\ LoginInv'
  BY <1>1, <1>5, UndisturbedKeeps
<1>8. GatesOf' = G  BY <1>6 DEF GatesOf, G
<1>9. Gone' = 0
  <2>1. Len(G) \in Nat  BY <1>3, LenProperties
  <2> DEFINE n == Len(G)
  <2>2. Gone' = n - n  BY <1>6, <1>8 DEF Gone
  <2> HIDE DEF n
  <2> QED  BY <2>1, <2>2 DEF n
<1>10. GateInv'
  <2>1. Len(G) \in Nat  BY <1>3, LenProperties
  <2>2. /\ 0 \in 0..Len(G)
        /\ \A i \in 1..Len(G) : G[i] = G[0 + i]
        /\ \A i \in 1..0 : FALSE
    BY <2>1
  <2>3. /\ Gone' \in 0..Len(GatesOf')
        /\ \A i \in 1..Len(request'.gates) : request'.gates[i] = GatesOf'[Gone' + i]
    BY <1>6, <1>8, <1>9, <2>2
  <2>4. \A i \in 1..Gone' : FALSE  BY <1>9, <2>2
  <2> HIDE DEF Gone, GatesOf, Passed
  <2> QED  BY <2>3, <2>4, Zenon DEF GateInv
<1>11. LetIn' /\ CredentialDecides'
  BY <1>6 DEF LetIn, CredentialDecides
<1>12. RequestInv'
  <2>1. route # "none"  BY RoutesAre
  <2>2. 0 <= clock'  BY <1>7 DEF TypeInv
  <2> QED  BY <1>6, <2>1, <2>2 DEF RequestInv
<1> QED  BY <1>7, <1>10, <1>11, <1>12 DEF IInv

\* A setting only adds to what was allowed.
LEMMA SetStep == IInv /\ Set => IInv'
<1> SUFFICES ASSUME IInv, Set  PROVE IInv'  OBVIOUS
<1>1. /\ request' = request /\ logins' = logins /\ clock' = clock
      /\ servers' = servers /\ up' = up /\ dbOpen' = dbOpen
      /\ unauthenticated' = unauthenticated /\ authzName' = authzName
      /\ customAuthz' = customAuthz /\ customAuthn' = customAuthn
      /\ signingKey' = signingKey
      /\ allowed' = (allowed \/ allowAdmin')
      /\ sets' = sets + 1 /\ sets < MaxSets
  BY DEF Set, manager
<1>2. /\ harborAuthz' \in HarborNames /\ quackAuthz' \in QuackNames
      /\ allowAdmin' \in BOOLEAN
  BY DEF Set, IInv, TypeInv
<1>3. TypeInv'
  <2>1. sets' \in 0..MaxSets
    <3>1. sets \in 0..MaxSets  BY DEF IInv, TypeInv
    <3> QED  BY <1>1, <3>1, TimesBounded
  <2>2. allowed' \in BOOLEAN  BY <1>1, <1>2, Zenon
  <2> QED  BY <1>1, <1>2, <2>1, <2>2 DEF IInv, TypeInv
<1>4. ManagerInv'
  <2>1. IsBuiltinNopAuthz(authzName)' = IsBuiltinNopAuthz(authzName)
    BY <1>1 DEF IsBuiltinNopAuthz
  <2>2. allowAdmin' => allowed'  BY <1>1
  <2> QED  BY <1>1, <2>1, <2>2 DEF IInv, ManagerInv
<1>5. LoginInv'  BY <1>1 DEF IInv, LoginInv
<1>6. GateInv'
  <2>1. GatesOf' = GatesOf  BY <1>1 DEF GatesOf
  <2>2. Gone' = Gone  BY <1>1, <2>1 DEF Gone
  <2> HIDE DEF GatesOf, Gone
  <2>3. ASSUME NEW i \in 1..Gone, Passed(GatesOf[i])
        PROVE  Passed(GatesOf[i])'
    <3>1. allowed => allowed'  BY <1>1
    <3> QED  BY <1>1, <2>1, <2>3, <3>1 DEF Passed
  <2> HIDE DEF Passed
  <2> QED  BY <1>1, <2>1, <2>2, <2>3 DEF IInv, GateInv
<1>7. LetIn' /\ RequestInv' /\ CredentialDecides'
  BY <1>1 DEF IInv, LetIn, RequestInv, CredentialDecides
<1> QED  BY <1>3, <1>4, <1>5, <1>6, <1>7 DEF IInv

LEMMA TickStep == IInv /\ Tick => IInv'
<1> SUFFICES ASSUME IInv, Tick  PROVE IInv'  OBVIOUS
<1>1. /\ UNCHANGED <<settings, dbOpen, up, servers, manager, request, logins, allowed>>
      /\ clock' = clock + 1 /\ clock < MaxClock
  BY DEF Tick
<1>2. clock \in 0..MaxClock /\ request \in Requests  BY DEF IInv, TypeInv
<1>3. clock' \in 0..MaxClock  BY <1>1, <1>2, TimesBounded
<1> USE DEF settings, manager
<1>4. TypeInv'  BY <1>1, <1>3 DEF IInv, TypeInv
<1>5. IsBuiltinNopAuthz(authzName)' = IsBuiltinNopAuthz(authzName)
  BY <1>1 DEF IsBuiltinNopAuthz
<1>6. ManagerInv'  BY <1>1, <1>5 DEF IInv, ManagerInv
<1>7. LoginInv' /\ LetIn' /\ CredentialDecides'
  <2>1. ASSUME NEW l \in logins  PROVE l.until <= clock' + TtlCap
    <3>1. l.until \in Nat /\ l.until <= clock + TtlCap
      BY TimesBounded DEF IInv, TypeInv, Logins, Times, LoginInv
    <3> QED  BY <1>1, <1>2, <3>1, TimesBounded
  <2>2. LoginInv'  BY <1>1, <2>1 DEF IInv, LoginInv
  <2> QED  BY <1>1, <2>2 DEF IInv, LetIn, CredentialDecides
<1>8. GateInv'
  BY <1>1, Zenon DEF IInv, GateInv, Gone, GatesOf, Passed
<1>9. RequestInv'
  <2>1. request.since <= clock /\ request.since \in 0..MaxClock
    BY <1>2 DEF IInv, RequestInv, Requests
  <2>2. request.since <= clock'  BY <1>1, <1>2, <2>1
  <2> QED  BY <1>1, <2>2 DEF IInv, RequestInv
<1> QED  BY <1>4, <1>6, <1>7, <1>8, <1>9 DEF IInv

LEMMA CloseDatabaseStep == IInv /\ CloseDatabase => IInv'
<1> SUFFICES ASSUME IInv, CloseDatabase  PROVE IInv'  OBVIOUS
<1>1. /\ UNCHANGED <<settings, clock, up, servers, manager, request, logins, allowed>>
      /\ dbOpen' = FALSE
  BY DEF CloseDatabase
<1> USE DEF settings, manager
<1>2. TypeInv'  BY <1>1 DEF IInv, TypeInv
<1>3. IsBuiltinNopAuthz(authzName)' = IsBuiltinNopAuthz(authzName)
  BY <1>1 DEF IsBuiltinNopAuthz
<1>4. ManagerInv'  BY <1>1, <1>3 DEF IInv, ManagerInv
<1>5. LoginInv' /\ LetIn' /\ CredentialDecides'
  BY <1>1 DEF IInv, LoginInv, LetIn, CredentialDecides
<1>6. GateInv'
  BY <1>1, Zenon DEF IInv, GateInv, Gone, GatesOf, Passed
<1>7. RequestInv'  BY <1>1 DEF IInv, RequestInv
<1> QED  BY <1>2, <1>4, <1>5, <1>6, <1>7 DEF IInv

\* Between two requests the manager may change.
LEMMA BetweenRequests ==
    ASSUME IInv, request.route = "none", request' = request, clock' = clock,
           TypeInv', ManagerInv', LoginInv'
    PROVE  IInv'
<1>1. "none" \notin Routes  BY RoutesAre
<1>2. request.source = "none"  BY DEF IInv, RequestInv
<1>3. GateInv' /\ LetIn' /\ CredentialDecides'
  BY <1>1, <1>2 DEF GateInv, LetIn, CredentialDecides
<1>4. RequestInv'  BY DEF IInv, RequestInv
<1> QED  BY <1>3, <1>4 DEF IInv

\* The cookies of a new server are told from those of all before it.
LEMMA StartStep ==
    ASSUME IInv, NEW u \in BOOLEAN, NEW c \in BOOLEAN, Start(u, c)
    PROVE  IInv'
<1>1. /\ ~up /\ servers < MaxServers /\ up' = TRUE /\ servers' = servers + 1
      /\ unauthenticated' = u /\ customAuthn' = c /\ allowed' = allowAdmin
      /\ authzName' = Resolved
      /\ customAuthz' = ~IsBuiltinNopAuthz(Resolved)
      /\ UNCHANGED <<settings, dbOpen, clock, signingKey, request, logins>>
  BY DEF Start
<1>2. signingKey = NoKey /\ request.route = "none"
  BY <1>1 DEF IInv, ManagerInv
<1>3. servers' \in 1..MaxServers
  <2>1. servers \in 0..MaxServers  BY DEF IInv, TypeInv
  <2> QED  BY <1>1, <2>1, TimesBounded
<1>4. Resolved # << >>  BY DEF Resolved
<1>5. customAuthz' \in BOOLEAN  BY <1>1, Zenon
<1>6. TypeInv'
  <2>1. servers' \in 0..MaxServers  BY <1>3
  <2> QED  BY <1>1, <1>5, <2>1 DEF IInv, TypeInv, settings
<1>7. ManagerInv'
  <2>1. IsBuiltinNopAuthz(authzName)' = IsBuiltinNopAuthz(Resolved)
    BY <1>1 DEF IsBuiltinNopAuthz
  <2>2. customAuthz' = ~IsBuiltinNopAuthz(authzName)'  BY <1>1, <2>1, Zenon
  <2>3. servers' > 0  BY <1>3
  <2>4. allowAdmin' => allowed'  BY <1>1 DEF settings
  <2> QED  BY <1>1, <1>2, <1>4, <2>2, <2>3, <2>4 DEF ManagerInv
<1>8. LoginInv'
  <2>1. ASSUME NEW l \in logins  PROVE l.server <= servers'
    <3>1. l.server <= servers /\ l.server \in 1..MaxServers
      BY DEF IInv, LoginInv, TypeInv, Logins
    <3>2. servers \in 0..MaxServers  BY DEF IInv, TypeInv
    <3> QED  BY <1>1, <3>1, <3>2
  <2> QED  BY <1>1, <2>1 DEF IInv, LoginInv
<1> QED  BY <1>1, <1>2, <1>6, <1>7, <1>8, BetweenRequests

LEMMA StopStep == IInv /\ Stop => IInv'
<1> SUFFICES ASSUME IInv, Stop  PROVE IInv'  OBVIOUS
<1>1. /\ request = NoRequest /\ up' = FALSE /\ unauthenticated' = FALSE
      /\ customAuthz' = FALSE /\ customAuthn' = FALSE /\ signingKey' = NoKey
      /\ allowed' = FALSE
      /\ UNCHANGED <<settings, dbOpen, clock, servers, request, logins>>
  BY DEF Stop
<1>2. request.route = "none"  BY <1>1 DEF NoRequest
<1>3. TypeInv'  BY <1>1 DEF IInv, TypeInv, settings
<1>4. ManagerInv'  BY <1>1, <1>2 DEF ManagerInv
<1>5. LoginInv'  BY <1>1 DEF IInv, LoginInv
<1> QED  BY <1>1, <1>2, <1>3, <1>4, <1>5, BetweenRequests

-----------------------------------------------------------------------------
(* The theorems.                                                           *)

LEMMA InitIInv == Init => IInv
<1> SUFFICES ASSUME Init  PROVE IInv  OBVIOUS
<1>1. /\ request = [route |-> "none", gates |-> << >>, status |-> 0,
                    principal |-> LocalDev, source |-> "none", token |-> "",
                    cookie |-> << >>, since |-> 0, ttl |-> 0, text |-> "sql",
                    origin |-> "none", decided |-> "none"]
  BY DEF Init, NoRequest
<1>2. request \in Requests
  <2>1. 0 \in 0..MaxClock /\ 0 \in 0..TtlCap  BY TimesBounded
  <2>2. LocalDev \in Principals \union {LocalDev} /\ << >> \in Cookies \union {<< >>}
    OBVIOUS
  <2>3. "none" \in Sources /\ "none" \in Origins /\ 0 \in Statuses
    BY DEF Sources, Origins, Statuses
  <2>4. "" \in Presented  BY DEF Presented
  <2>5. << >> \in Seq(Gates)  OBVIOUS
  <2> QED  BY <1>1, <2>1, <2>2, <2>3, <2>4, <2>5 DEF Requests
<1>3. TypeInv
  <2>1. 0 \in 0..MaxSets /\ 0 \in 0..MaxClock /\ 0 \in 0..MaxServers
    BY TimesBounded
  <2> QED  BY <1>2, <2>1 DEF Init, TypeInv
<1>4. /\ request.route = "none" /\ request.gates = << >>
      /\ request.source = "none" /\ request.status = 0
      /\ request.since = 0 /\ request.decided = "none"
  BY <1>1
<1>5. "none" \notin Routes  BY RoutesAre
<1>6. ManagerInv /\ LoginInv  BY <1>4 DEF Init, ManagerInv, LoginInv
<1>7. GateInv /\ LetIn /\ CredentialDecides
  BY <1>4, <1>5 DEF GateInv, LetIn, CredentialDecides
<1>8. RequestInv
  <2>1. clock = 0  BY DEF Init
  <2> QED  BY <1>4, <2>1 DEF RequestInv
<1> QED  BY <1>3, <1>6, <1>7, <1>8 DEF IInv

LEMMA NextIInv == IInv /\ [Next]_vars => IInv'
<1> SUFFICES ASSUME IInv, [Next]_vars  PROVE IInv'  OBVIOUS
<1>1. CASE Set  BY <1>1, SetStep
<1>2. CASE Tick  BY <1>2, TickStep
<1>3. CASE CloseDatabase  BY <1>3, CloseDatabaseStep
<1>4. CASE Start(TRUE, FALSE)  BY <1>4, StartStep
<1>5. CASE \E c \in BOOLEAN : Start(FALSE, c)  BY <1>5, StartStep
<1>6. CASE Stop  BY <1>6, StopStep
<1>7. CASE \E route \in Routes, text \in {"sql", "admin"} : Arrive(route, text)
  BY <1>7, ArriveStep
<1>8. CASE \E c \in Credentials : Authenticate(c)
  BY <1>8, AuthenticateStep
<1>9. CASE \E c \in Credentials, body \in Presented : Login(c, body)
  BY <1>9, LoginStep
<1>10. CASE \E origin, referer \in Origins :
              Origin(origin, referer) \/ Listed(origin, referer)
  BY <1>10, OriginStep
<1>11. CASE Parse \/ Session \/ Authorize \/ Act
  BY <1>11, ParseStep, SessionStep, AuthorizeStep, ActStep
<1>12. CASE \E ttl \in Ttls : Issue(ttl)  BY <1>12, IssueStep
<1>13. CASE AnswerLogin  BY <1>13, AnswerLoginStep
<1>14. CASE Forget  BY <1>14, ForgetStep
<1>15. CASE UNCHANGED vars
  <2>1. Undisturbed /\ signingKey' = signingKey /\ request' = request
    BY <1>15 DEF vars, Undisturbed, Environment, manager
  <2>2. TypeInv' /\ ManagerInv' /\ LoginInv'
    BY <1>15, Zenon DEF vars, settings, manager, IInv, TypeInv, ManagerInv, LoginInv,
                        IsBuiltinNopAuthz
  <2>3. GateInv' /\ LetIn' /\ RequestInv' /\ CredentialDecides'
    BY <1>15, Zenon DEF vars, settings, manager, IInv, GateInv, LetIn, RequestInv,
                        CredentialDecides, Gone, GatesOf, Passed
  <2> QED  BY <2>2, <2>3 DEF IInv
<1> QED
  BY <1>1, <1>2, <1>3, <1>4, <1>5, <1>6, <1>7, <1>8, <1>9, <1>10, <1>11,
     <1>12, <1>13, <1>14, <1>15, Zenon DEF Next, Presented

\* The inductive invariant holds in every state.
THEOREM Invariance == Spec => []IInv
BY InitIInv, NextIInv, PTL DEF Spec

\* What the variables of AuthManager and of a request hold.
THEOREM TypeCorrect == Spec => []TypeOK
<1>1. IInv => TypeOK
  <2> SUFFICES ASSUME IInv  PROVE TypeOK  OBVIOUS
  <2>1. /\ request.route \in Routes \union {"none"}
        /\ request.status \in Statuses /\ request.source \in Sources
        /\ request.ttl \in 0..TtlCap
    BY DEF IInv, TypeInv, Requests
  <2>2. \A l \in logins : {l.until, l.told} \subseteq 0..(MaxClock + TtlCap)
    BY DEF IInv, TypeInv, Logins, Times
  <2>3. signingKey \in 0..MaxServers
    <3>1. servers \in 0..MaxServers /\ signingKey \in {NoKey, servers}
      BY DEF IInv, TypeInv, ManagerInv
    <3> QED  BY <3>1, TimesBounded DEF NoKey
  <2> QED  BY <2>1, <2>2, <2>3 DEF IInv, TypeInv, TypeOK, Statuses, Sources
<1> QED  BY <1>1, Invariance, PTL

\* A request that was answered has passed every gate of its route.
LEMMA AllPassed ==
    ASSUME IInv, Done
    PROVE  /\ request.route \in Routes
           /\ \A i \in 1..Len(GatesOf) : Passed(GatesOf[i])
<1>1. request.status = 200  BY DEF Done
<1>2. request.gates = << >> /\ request.route # "none"
  BY <1>1 DEF IInv, RequestInv
<1>3. request.route \in Routes  BY <1>2 DEF IInv, TypeInv, Requests
<1>4. GatesOf \in Seq(Gates)  BY <1>3, GateOrder DEF GatesOf
<1>5. Gone = Len(GatesOf)
  <2>1. Len(GatesOf) \in Nat  BY <1>4, LenProperties
  <2>2. Len(request.gates) = 0  BY <1>2
  <2> DEFINE n == Len(GatesOf)
  <2>3. Gone = n - 0  BY <2>2 DEF Gone
  <2> HIDE DEF n
  <2> QED  BY <2>1, <2>3 DEF n
<1> HIDE DEF GatesOf, Gone, Passed
<1> QED  BY <1>3, <1>5, Zenon DEF IInv, GateInv

\* No admin route answers 200 without a policy: all of them have the gate that
\* asks it, and the answer it gave when it let the request pass cannot be
\* undone by a setting (RunAuthorization, IsBuiltinNopAuthz).
THEOREM NoAdminWithoutPolicy == Spec => []AdminNeedsPolicy
<1>1. IInv => AdminNeedsPolicy
  <2> SUFFICES ASSUME IInv  PROVE AdminNeedsPolicy  OBVIOUS
  <2>1. request.decided = "admin" => request.route \in AdminRoutes
    BY DEF IInv, RequestInv
  <2>2. ASSUME Done, request.route \in AdminRoutes
        PROVE  allowed \/ (authzName # << >> /\ authzName[Len(authzName)] \notin Builtins)
    <3>1. /\ request.route \in Routes
          /\ \A i \in 1..Len(GatesOf) : Passed(GatesOf[i])
      BY <2>2, AllPassed
    <3>2. PICK i \in 1..Len(GatesOf) : GatesOf[i] = "authorize"
      BY <2>2, <3>1, GateOrder DEF GatesOf
    <3>3. Passed("authorize")
      <4> HIDE DEF GatesOf, Passed
      <4> QED  BY <3>1, <3>2, Zenon
    <3>4. allowed \/ customAuthz  BY <2>2, <3>3 DEF Passed
    <3>5. up  BY <3>1, RoutesAre DEF IInv, ManagerInv
    <3>6. authzName # << >> /\ customAuthz = ~IsBuiltinNopAuthz(authzName)
      BY <3>5 DEF IInv, ManagerInv
    <3> QED  BY <3>4, <3>6, Zenon DEF IsBuiltinNopAuthz
  <2> QED  BY <2>1, <2>2 DEF AdminNeedsPolicy
<1> QED  BY <1>1, Invariance, PTL

\* Of what a client may present as a cookie only the cookies of this server's
\* logins are let in, for their principal and until they expire; and every one
\* of those is, but none longer than the cap (VerifyCookie, CookieSigningKey,
\* CookieTtlSec).
THEOREM CookiesAreLogins == Spec => []CookieIsLogin
<1>1. IInv => CookieIsLogin
  <2> SUFFICES ASSUME IInv  PROVE CookieIsLogin  OBVIOUS
  <2>1. ASSUME NEW l \in logins, up, l.server = servers
        PROVE  /\ VerifyCookie(Key, l.cookie, clock) <=> clock < l.until
               /\ l.until <= l.told
               /\ l.until <= clock + TtlCap
    <3>1. /\ l.cookie = IssueCookie(l.server, l.principal, l.until)
          /\ l.principal \in Principals /\ l.until \in Times
          /\ l.until <= l.told
          /\ l.until <= clock + TtlCap
      BY DEF IInv, LoginInv, TypeInv, Logins
    <3>2. \A key, now :
            VerifyCookie(key, IssueCookie(l.server, l.principal, l.until), now)
              <=> key = l.server /\ now < l.until
      BY <3>1, CookieReadsBack
    <3>3. Key = servers  BY <2>1, ManagerIs
    <3> QED  BY <2>1, <3>1, <3>2, <3>3, Zenon
  <2> QED  BY <2>1, Zenon DEF CookieIsLogin, IInv, LetIn
<1> QED  BY <1>1, Invariance, PTL

\* The credential that counts decides whom a request is from
\* (AuthenticateRequest).
THEOREM CredentialCounts == Spec => []CredentialDecides
<1>1. IInv => CredentialDecides  BY DEF IInv
<1> QED  BY <1>1, Invariance, PTL

\* Where a browser may post to, a cookie does not suffice: each of those routes
\* has a gate that looks at the origin.
THEOREM CookiesNeedOrigin == Spec => []CookieNeedsOrigin
<1>1. IInv => CookieNeedsOrigin
  <2> SUFFICES ASSUME IInv, Done, request.route \in BrowserRoutes,
                      request.source = "cookie"
               PROVE  request.origin \in {"own", "listed"}
    BY DEF CookieNeedsOrigin
  <2>1. /\ request.route \in Routes
        /\ \A i \in 1..Len(GatesOf) : Passed(GatesOf[i])
    BY AllPassed
  <2>2. PICK i \in 1..Len(GatesOf) : GatesOf[i] \in {"origin", "listed"}
    BY <2>1, GateOrder DEF GatesOf
  <2>3. Passed(GatesOf[i])  BY <2>1
  <2> HIDE DEF GatesOf
  <2> QED  BY <2>2, <2>3 DEF Passed
<1> QED  BY <1>1, Invariance, PTL
=============================================================================

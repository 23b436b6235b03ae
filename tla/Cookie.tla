------------------------------- MODULE Cookie -------------------------------
(***************************************************************************)
(* The value of the harbor_session cookie: five segments, the payload      *)
(* segments in base64url, the last one the HMAC of the others as they are  *)
(* on the wire.  Text is a sequence of ASCII codes.                        *)
(***************************************************************************)
EXTENDS Integers, Sequences

CONSTANT HexLength  \* characters of a principal id: 64

Bytes == 0..255

-----------------------------------------------------------------------------
(* Base64url without padding (RFC 4648 5); a character of the encoding is  *)
(* the number it stands for, Pad or NoCharacter.                           *)

Pad         == 64
NoCharacter == 255

\* Slip: the encoder does not write the last, incomplete group.
Base64UrlEncodeWhole(bytes) ==
    [i \in 1..((Len(bytes) \div 3) * 4) |->
       LET g == (i - 1) \div 4
           v == bytes[3 * g + 1] * 65536 + bytes[3 * g + 2] * 256 + bytes[3 * g + 3]
       IN (v \div 64 ^ (3 - ((i - 1) % 4))) % 64]

\* Three bytes make four characters; what is left makes two or three.
Base64UrlEncode(bytes) ==
    LET n == Len(bytes)
        Byte(i) == IF i <= n THEN bytes[i] ELSE 0
        Group(g) == Byte(3 * g + 1) * 65536 + Byte(3 * g + 2) * 256 + Byte(3 * g + 3)
    IN [i \in 1..((8 * n + 5) \div 6) |->
          (Group((i - 1) \div 4) \div 64 ^ (3 - ((i - 1) % 4))) % 64]

\* The characters before the padding at the end.
Unpadded(text) ==
    LET end == CHOOSE e \in 0..Len(text) :
                 /\ \A i \in (e + 1)..Len(text) : text[i] = Pad
                 /\ e > 0 => text[e] # Pad
    IN SubSeq(text, 1, end)

Decodes(text) == \A i \in 1..Len(Unpadded(text)) : Unpadded(text)[i] < 64

\* Byte k lies in two characters; bits that do not fill a byte are dropped.
Base64UrlDecode(text) ==
    LET c == Unpadded(text)
    IN [k \in 1..((6 * Len(c)) \div 8) |->
          LET first == (8 * (k - 1)) \div 6 + 1
              shift == 4 - ((8 * (k - 1)) % 6)
          IN ((c[first] * 64 + c[first + 1]) \div 2 ^ shift) % 256]

-----------------------------------------------------------------------------
(* Principals and times.                                                   *)

Digits    == 48..57
HexDigits == Digits \union 97..102

IsValidPrincipalHex(text) ==
    Len(text) = HexLength /\ \A i \in 1..Len(text) : text[i] \in HexDigits

\* std::to_string and std::stoull, for the times of the model.
ToText(n) ==
    IF n < 10 THEN <<48 + n>> ELSE <<48 + (n \div 10), 48 + (n % 10)>>

IsNumber(text) == text # << >> /\ text[1] \in Digits

Stoull(text) ==
    IF Len(text) = 1 THEN text[1] - 48 ELSE (text[1] - 48) * 10 + text[2] - 48

-----------------------------------------------------------------------------
(* Issuing and verifying.  The nonce and the HMAC are what they stand for: *)
(* a MAC is the pair of the key and the text it was made of.               *)

Version == "v1"
Nonce   == "nonce"
NoKey   == 0

Hmac(key, prefix) == <<key, prefix>>

IssueCookie(key, principal, expires) ==
    LET prefix == <<Version, Base64UrlEncode(principal),
                    Base64UrlEncode(ToText(expires)), Nonce>>
    IN Append(prefix, Hmac(key, prefix))

VerifyCookie(key, cookie, now) ==
    /\ Len(cookie) = 5
    /\ cookie[1] = Version
    /\ cookie[5] = Hmac(key, SubSeq(cookie, 1, 4))
    /\ Decodes(cookie[2]) /\ Decodes(cookie[3])
    /\ IsNumber(Base64UrlDecode(cookie[3]))
    /\ IsValidPrincipalHex(Base64UrlDecode(cookie[2]))
    /\ now < Stoull(Base64UrlDecode(cookie[3]))

CookiePrincipal(cookie) == Base64UrlDecode(cookie[2])
=============================================================================

-------------------------------- MODULE Cose --------------------------------
(***************************************************************************)
(* Messages signed as COSE_Sign1 (package cose): the key a message carries *)
(* in its CWT claims, as NewCNFClaim writes it and CNFCoseKey reads it,    *)
(* and the verification of a message with that key or with another.       *)
(***************************************************************************)
EXTENDS Integers, Sequences

CONSTANT None

-----------------------------------------------------------------------------
(* Values of a decoded map: text, an integer, bytes, or not there *)

Text(s) == <<"text", s>>
Int64(n) == <<"int", n>>
Bstr(b) == <<"bytes", b>>
Missing == <<"none", 0>>

\* A label is a name already, or a number with a name in a table; other
\* labels are refused.
IsNamed(label, table) ==
    \/ label[1] = "text"
    \/ label[1] = "int" /\ label[2] \in DOMAIN table

Named(label, table) ==
    IF label[1] = "text" THEN label[2] ELSE table[label[2]]

\* Mutant: the name of the standard rather than that of a JSON web key.
KeyTypesEC2 == <<"OKP", "EC2", "RSA">>

KeyTypes == <<"OKP", "EC", "RSA">>

Curves == <<"P-256", "P-384", "P-521", "X25519", "X448", "Ed25519", "Ed448">>

Algorithms ==
    [n \in {-7, -35, -36, -8, -65535, -259, -258, -257} |->
        CASE n = -7 -> "ES256" [] n = -35 -> "ES384" [] n = -36 -> "ES512"
          [] n = -8 -> "EdDSA" [] n = -65535 -> "RS1" [] n = -259 -> "RS512"
          [] n = -258 -> "RS384" [] n = -257 -> "RS256"]

-----------------------------------------------------------------------------
(* Keys *)

\* A public key: its curve, and which key it is.
PublicKeyOn(crv, id) == [crv |-> crv, id |-> id]

ECDSACurves == {"P-256", "P-384", "P-521"}

\* None for a curve that is not supported.
CoseAlgForEC(pub) ==
    CASE pub.crv = "P-256" -> "ES256" [] pub.crv = "P-384" -> "ES384"
      [] pub.crv = "P-521" -> "ES512" [] OTHER -> None

\* The number of an algorithm's name.
AlgorithmNumber(alg) == CHOOSE n \in DOMAIN Algorithms : Algorithms[n] = alg

\* What NewCNFClaim writes and the encoding makes of it.
NewCNFClaim(kid, alg, pub) ==
    [kty |-> Text("EC"), kid |-> Text(kid), alg |-> Int64(AlgorithmNumber(alg)),
     crv |-> Text(pub.crv), x |-> Bstr(pub.id), y |-> Bstr(pub.id)]

\* The algorithm is optional; a key identity is kept if it is text.
NewCoseCommonKey(cnf) ==
    [kty |-> Named(cnf.kty, KeyTypes),
     alg |-> IF IsNamed(cnf.alg, Algorithms) THEN Named(cnf.alg, Algorithms)
             ELSE None,
     kid |-> IF cnf.kid[1] = "text" THEN cnf.kid[2] ELSE None]

\* What NewECCoseKey needs: a curve, and the point in bytes.
ValidEC(cnf) ==
    /\ IsNamed(cnf.crv, Curves)
    /\ cnf.x[1] = "bytes" /\ cnf.y[1] = "bytes"

NewECCoseKey(cnf) ==
    [common |-> NewCoseCommonKey(cnf), crv |-> Named(cnf.crv, Curves),
     x |-> cnf.x[2], y |-> cnf.y[2]]

\* CNFCoseKey supports elliptic curve keys only.
HasCNFCoseKey(cnf) ==
    /\ IsNamed(cnf.kty, KeyTypes) /\ Named(cnf.kty, KeyTypes) = "EC"
    /\ ValidEC(cnf)

\* The curve of a key is one that ECDSA signs on.
HasPublicKey(k) == k.crv \in ECDSACurves

\* A point with the coordinates of two keys is none of them.
PublicKey(k) == PublicKeyOn(k.crv, IF k.x = k.y THEN k.x ELSE None)

-----------------------------------------------------------------------------
(* Messages: the protected header with its algorithm and claims, a payload, *)
(* and whether the message was decoded from its encoding.  cnf is the set   *)
(* of the claim that holds a key, sig that of the signature: of one or none *)

Message(alg, iss, sub, cnf, payload) ==
    [alg |-> alg, iss |-> iss, sub |-> sub, cnf |-> cnf, payload |-> payload,
     sig |-> {}, form |-> "built"]

\* CreateSignPayload: everything but the signature.
SignPayload(m) == [alg |-> m.alg, iss |-> m.iss, sub |-> m.sub,
                   cnf |-> m.cnf, payload |-> m.payload]

\* NewCoseSign1MessageFromCBOR, of what MarshalCBOR made of a message: the
\* header's values become of the types the claims are read as.
Decoded(m) == [m EXCEPT !.form = "decoded"]

Signature(pub, alg, m) == [key |-> pub, alg |-> alg, over |-> SignPayload(m)]

\* Headers of a message that was never encoded are not of the type the
\* claims are read as; issuer and subject must be text; claims without a
\* key are accepted, those with a bad key are not.
HasCWTClaims(m) ==
    /\ m.form = "decoded" /\ m.iss[1] = "text" /\ m.sub[1] = "text"
    /\ \A cnf \in m.cnf : HasCNFCoseKey(cnf)

\* The verifier of the library: the algorithm is the header's, so what is
\* left is that the signature is of this key, with it, over this message.
VerifyWithPublicKey(m, pub) ==
    m.alg # None /\ m.sig = {Signature(pub, m.alg, m)}

\* With the key of a message's own claims.
VerifyWithCWTPublicKey(m) ==
    /\ m.alg # None /\ HasCWTClaims(m)
    /\ \E cnf \in m.cnf :
          /\ HasPublicKey(NewECCoseKey(cnf))
          /\ VerifyWithPublicKey(m, PublicKey(NewECCoseKey(cnf)))

=============================================================================

---------------------------- MODULE SigningProofs ----------------------------
(***************************************************************************)
(* Proofs about Signing.  The inductive invariant says what a signer's     *)
(* message is at each stage, in terms of the version of the key that the   *)
(* signer keeps; that every message on the wire is one that some version   *)
(* signed; and that a listing has, or has still to read, every version     *)
(* that signed a message before it began.                                  *)
(***************************************************************************)
EXTENDS Signing, TLAPS

-----------------------------------------------------------------------------
(* The message with the key pub, of version v, in its claims *)

AlgorithmOf(v) == IF v = 0 THEN "ES256" ELSE "ES384"

KeyIn(vs, v) == IF v = 0 THEN OwnKey ELSE PublicKeyOn(vs[v], v)

Plain(v, pub, s, alg) ==
    Message(alg, Text("issuer"), Text("subject"),
            {NewCNFClaim(v, AlgorithmOf(v), pub)}, s)

\* Signed under the algorithm of the key, with the header's possibly
\* overwritten since.
SignedAs(v, pub, s, alg) ==
    [Plain(v, pub, s, alg) EXCEPT !.sig =
        {Signature(pub, AlgorithmOf(v), Plain(v, pub, s, AlgorithmOf(v)))}]

HeaderAlgorithms == {None, "ES256", "ES384", "ES512"}

-----------------------------------------------------------------------------
(* The inductive invariant *)

Staged(s) ==
    LET pub == KeyIn(versions, key[s]) IN
    /\ pc[s] = "new" => key[s] = 0
    /\ pc[s] = "message" =>
          /\ pub.crv \in ECDSACurves
          /\ \E alg \in HeaderAlgorithms : msg[s] = Plain(key[s], pub, s, alg)
    /\ pc[s] \in {"getkey", "sign"} =>
          /\ pub.crv \in ECDSACurves
          /\ key[s] # 0
          /\ msg[s] = Plain(key[s], pub, s, AlgorithmOf(key[s]))
    /\ pc[s] = "signed" =>
          /\ pub.crv \in ECDSACurves
          /\ \E alg \in HeaderAlgorithms :
                /\ msg[s] = SignedAs(key[s], pub, s, alg)
                /\ ~resigned[s] => alg = AlgorithmOf(key[s])

\* m was signed by version v, which sent it.
SentBy(m, v) ==
    /\ KeyIn(versions, v).crv \in ECDSACurves
    /\ \E s \in Signers, alg \in HeaderAlgorithms :
          m = Decoded(SignedAs(v, KeyIn(versions, v), s, alg))

WireSigned == \A m \in wire : \E v \in 0..Len(versions) : SentBy(m, v)

Listed ==
    lpc \in {"page", "key", "done"} =>
        \A m \in sentBefore : \E v \in 0..Len(versions) :
            /\ SentBy(m, v)
            /\ \/ v = 0 \/ v \in pages
               \/ lpc = "key" /\ v = item
               \/ KeyIn(versions, v) \in keys

IInv == TypeOK /\ (\A s \in Signers : Staged(s)) /\ WireSigned /\ Listed

-----------------------------------------------------------------------------
(* Lemmas about keys and messages *)

\* The key of a version carries its number.
LEMMA KeyOfVersion ==
    ASSUME NEW vs, NEW v \in Nat
    PROVE  /\ KeyIn(vs, v) = PublicKeyOn(KeyIn(vs, v).crv, v)
           /\ KeyIn(vs, v).id = v
           /\ v # 0 => KeyIn(vs, v) # OwnKey
BY DEF KeyIn, OwnKey, PublicKeyOn

\* A new version leaves the keys of the others as they are.
LEMMA KeysStay ==
    ASSUME versions \in Seq(VaultCurves), NEW c \in VaultCurves,
           NEW v \in 0..Len(versions)
    PROVE  /\ KeyIn(Append(versions, c), v) = KeyIn(versions, v)
           /\ Len(Append(versions, c)) = Len(versions) + 1
           /\ Append(versions, c) \in Seq(VaultCurves)
<1>1. Len(versions) \in Nat
  OBVIOUS
<1>2. Len(Append(versions, c)) = Len(versions) + 1
  OBVIOUS
<1>3. Append(versions, c) \in Seq(VaultCurves)
  OBVIOUS
<1>4. v # 0 => Append(versions, c)[v] = versions[v]
  BY <1>1
<1> QED BY <1>2, <1>3, <1>4 DEF KeyIn

\* What a signature of SignedAs covers.
Covered(v, pub, s) ==
    [alg |-> AlgorithmOf(v), iss |-> Text("issuer"), sub |-> Text("subject"),
     cnf |-> {NewCNFClaim(v, AlgorithmOf(v), pub)}, payload |-> s]

SignedParts(v, pub, s, alg, form) ==
    [alg |-> alg, iss |-> Text("issuer"), sub |-> Text("subject"),
     cnf |-> {NewCNFClaim(v, AlgorithmOf(v), pub)}, payload |-> s,
     sig |-> {[key |-> pub, alg |-> AlgorithmOf(v), over |-> Covered(v, pub, s)]},
     form |-> form]

\* Changing one field of a message.
LEMMA FieldsOfMessage ==
    ASSUME NEW alg, NEW iss, NEW sub, NEW cnf, NEW payload, NEW sig, NEW sig2,
           NEW form, NEW m,
           m = [alg |-> alg, iss |-> iss, sub |-> sub, cnf |-> cnf,
                payload |-> payload, sig |-> sig, form |-> form]
    PROVE  /\ [m EXCEPT !.sig = sig2] =
                [alg |-> alg, iss |-> iss, sub |-> sub, cnf |-> cnf,
                 payload |-> payload, sig |-> sig2, form |-> form]
           /\ [m EXCEPT !.form = "decoded"] =
                [alg |-> alg, iss |-> iss, sub |-> sub, cnf |-> cnf,
                 payload |-> payload, sig |-> sig, form |-> "decoded"]
           /\ \A a : [m EXCEPT !.alg = a] =
                [alg |-> a, iss |-> iss, sub |-> sub, cnf |-> cnf,
                 payload |-> payload, sig |-> sig, form |-> form]
OBVIOUS

\* The parts of a signed message.
LEMMA PartsOfSigned ==
    ASSUME NEW v, NEW pub, NEW s, NEW alg
    PROVE  /\ SignedAs(v, pub, s, alg) = SignedParts(v, pub, s, alg, "built")
           /\ Decoded(SignedAs(v, pub, s, alg)) =
                 SignedParts(v, pub, s, alg, "decoded")
<1> DEFINE g == [key |-> pub, alg |-> AlgorithmOf(v), over |-> Covered(v, pub, s)]
           cnf == NewCNFClaim(v, AlgorithmOf(v), pub)
<1>1. SignPayload(Plain(v, pub, s, AlgorithmOf(v))) = Covered(v, pub, s)
  BY DEF SignPayload, Plain, Message, Covered
<1>2. Signature(pub, AlgorithmOf(v), Plain(v, pub, s, AlgorithmOf(v))) = g
  BY <1>1 DEF Signature
<1>3. Plain(v, pub, s, alg) =
        [alg |-> alg, iss |-> Text("issuer"), sub |-> Text("subject"),
         cnf |-> {cnf}, payload |-> s, sig |-> {}, form |-> "built"]
  BY DEF Plain, Message
<1>4. SignedAs(v, pub, s, alg) = [Plain(v, pub, s, alg) EXCEPT !.sig = {g}]
  BY <1>2 DEF SignedAs
<1> HIDE DEF g, cnf
<1>5. SignedAs(v, pub, s, alg) =
        [alg |-> alg, iss |-> Text("issuer"), sub |-> Text("subject"),
         cnf |-> {cnf}, payload |-> s, sig |-> {g}, form |-> "built"]
  BY <1>3, <1>4, FieldsOfMessage
<1>6. Decoded(SignedAs(v, pub, s, alg)) =
        [alg |-> alg, iss |-> Text("issuer"), sub |-> Text("subject"),
         cnf |-> {cnf}, payload |-> s, sig |-> {g}, form |-> "decoded"]
  BY <1>5, FieldsOfMessage DEF Decoded
<1> QED BY <1>5, <1>6 DEF SignedParts, g, cnf

\* What NewCNFClaim writes for a key on a supported curve, CNFCoseKey reads as
\* the same key, whatever its identity and algorithm (cnfclaim.go:13-26,
\* cwt_claims.go:47-94).
THEOREM ClaimIsRead ==
    ASSUME NEW v, NEW alg, NEW pub, pub = PublicKeyOn(pub.crv, pub.id),
           pub.crv \in ECDSACurves
    PROVE  LET cnf == NewCNFClaim(v, alg, pub) IN
           /\ HasCNFCoseKey(cnf)
           /\ HasPublicKey(NewECCoseKey(cnf))
           /\ PublicKey(NewECCoseKey(cnf)) = pub
<1> DEFINE cnf == NewCNFClaim(v, alg, pub)
<1>1. /\ cnf.kty = Text("EC") /\ cnf.crv = Text(pub.crv)
      /\ cnf.x = Bstr(pub.id) /\ cnf.y = Bstr(pub.id)
  BY DEF NewCNFClaim
<1>2. /\ Named(cnf.crv, Curves) = pub.crv /\ IsNamed(cnf.crv, Curves)
      /\ Named(cnf.kty, KeyTypes) = "EC" /\ IsNamed(cnf.kty, KeyTypes)
  BY <1>1 DEF Named, IsNamed, Text
<1>3. HasCNFCoseKey(cnf)
  BY <1>1, <1>2 DEF HasCNFCoseKey, ValidEC, Bstr
<1>4. /\ NewECCoseKey(cnf).crv = pub.crv
      /\ NewECCoseKey(cnf).x = pub.id /\ NewECCoseKey(cnf).y = pub.id
  BY <1>1, <1>2 DEF NewECCoseKey, Bstr
<1> QED BY <1>3, <1>4 DEF HasPublicKey, PublicKey

\* A message that was signed verifies with its key, before and after it was
\* encoded, and with the key of its own claims (cose.go:294-356).
THEOREM SignedIsVerified ==
    ASSUME NEW v, NEW pub, pub = PublicKeyOn(pub.crv, pub.id),
           pub.crv \in ECDSACurves, NEW s
    PROVE  LET m == SignedAs(v, pub, s, AlgorithmOf(v)) IN
           /\ VerifyWithPublicKey(m, pub)
           /\ VerifyWithPublicKey(Decoded(m), pub)
           /\ VerifyWithCWTPublicKey(Decoded(m))
<1> DEFINE A == AlgorithmOf(v)
           m == SignedAs(v, pub, s, A)
           d == Decoded(m)
           cnf == NewCNFClaim(v, A, pub)
<1>1. A # None
  BY SigningAssumption DEF AlgorithmOf
<1>2. \A t : LET p == SignedParts(v, pub, s, A, t) IN
        /\ p.alg = A /\ p.cnf = {cnf} /\ p.form = t
        /\ p.iss = Text("issuer") /\ p.sub = Text("subject")
        /\ SignPayload(p) = Covered(v, pub, s)
        /\ p.sig = {Signature(pub, A, p)}
  BY DEF SignedParts, SignPayload, Covered, Signature
<1>3. m = SignedParts(v, pub, s, A, "built") /\ d = SignedParts(v, pub, s, A, "decoded")
  BY PartsOfSigned
<1> HIDE DEF m, d, A, cnf
<1>4. VerifyWithPublicKey(m, pub) /\ VerifyWithPublicKey(d, pub)
  BY <1>1, <1>2, <1>3 DEF VerifyWithPublicKey
<1>5. /\ HasCNFCoseKey(cnf)
      /\ HasPublicKey(NewECCoseKey(cnf))
      /\ PublicKey(NewECCoseKey(cnf)) = pub
  BY ClaimIsRead DEF cnf
<1>6. HasCWTClaims(d)
  <2>1. d.form = "decoded"
    BY <1>3 DEF SignedParts
  <2>2. d.cnf = {cnf} /\ d.iss[1] = "text" /\ d.sub[1] = "text"
    BY <1>2, <1>3 DEF Text
  <2> QED BY <2>1, <2>2, <1>5 DEF HasCWTClaims
<1>7. VerifyWithCWTPublicKey(d)
  BY <1>1, <1>2, <1>3, <1>4, <1>5, <1>6 DEF VerifyWithCWTPublicKey
<1> QED BY <1>4, <1>7 DEF m, d, A

\* A key claim that is accepted holds the key that it is read as.
LEMMA ClaimHolds ==
    ASSUME NEW cnf, NEW pub, pub = PublicKeyOn(pub.crv, pub.id), pub.id # None,
           cnf.kty = <<cnf.kty[1], cnf.kty[2]>>,
           cnf.crv = <<cnf.crv[1], cnf.crv[2]>>,
           cnf.x = <<cnf.x[1], cnf.x[2]>>, cnf.y = <<cnf.y[1], cnf.y[2]>>
    PROVE  Holds(cnf, pub) <=>
             /\ HasCNFCoseKey(cnf)
             /\ HasPublicKey(NewECCoseKey(cnf))
             /\ PublicKey(NewECCoseKey(cnf)) = pub
<1>1. IsNamed(cnf.kty, KeyTypes) /\ Named(cnf.kty, KeyTypes) = "EC" <=>
        cnf.kty \in {Text("EC"), Int64(2)}
  BY DEF IsNamed, Named, KeyTypes, Text, Int64
<1>2. ASSUME NEW c \in ECDSACurves
      PROVE  IsNamed(cnf.crv, Curves) /\ Named(cnf.crv, Curves) = c <=>
             \/ c = "P-256" /\ cnf.crv \in {Text("P-256"), Int64(1)}
             \/ c = "P-384" /\ cnf.crv \in {Text("P-384"), Int64(2)}
             \/ c = "P-521" /\ cnf.crv \in {Text("P-521"), Int64(3)}
  BY <1>2, SMTT(30) DEF IsNamed, Named, Curves, ECDSACurves, Text, Int64
<1>3. cnf.x = Bstr(pub.id) /\ cnf.y = Bstr(pub.id) <=>
        /\ cnf.x[1] = "bytes" /\ cnf.y[1] = "bytes"
        /\ cnf.x[2] = pub.id /\ cnf.y[2] = pub.id
  BY DEF Bstr
<1>4. /\ NewECCoseKey(cnf).crv = Named(cnf.crv, Curves)
      /\ NewECCoseKey(cnf).x = cnf.x[2] /\ NewECCoseKey(cnf).y = cnf.y[2]
  BY DEF NewECCoseKey
<1>5. PublicKey(NewECCoseKey(cnf)) = pub <=>
        Named(cnf.crv, Curves) = pub.crv /\ cnf.x[2] = pub.id /\ cnf.y[2] = pub.id
  BY <1>4 DEF PublicKey, PublicKeyOn
<1>6. HasPublicKey(NewECCoseKey(cnf)) <=> Named(cnf.crv, Curves) \in ECDSACurves
  BY <1>4 DEF HasPublicKey
<1>7. CASE pub.crv \in ECDSACurves
  BY <1>1, <1>2, <1>3, <1>5, <1>6, <1>7 DEF Holds, HasCNFCoseKey, ValidEC
<1>8. CASE pub.crv \notin ECDSACurves
  BY <1>5, <1>6, <1>8 DEF Holds, ECDSACurves
<1> QED BY <1>7, <1>8

\* Such a message is accepted exactly if it was signed by the key it holds.
LEMMA AcceptedMessage ==
    ASSUME NEW m, ForeignMessage(m)
    PROVE  VerifyWithCWTPublicKey(m) <=>
             /\ m.iss[1] = "text" /\ m.sub[1] = "text" /\ m.alg # None
             /\ \E cnf \in m.cnf, g \in m.sig :
                   Holds(cnf, g.key) /\ g = Signature(g.key, m.alg, m)
<1>1. /\ m.form = "decoded"
      /\ \A c, d \in m.cnf : c = d
      /\ \A g, h \in m.sig : g = h
  BY DEF ForeignMessage
<1>2. \A c \in m.cnf, g \in m.sig :
        Holds(c, g.key) <=>
             /\ HasCNFCoseKey(c)
             /\ HasPublicKey(NewECCoseKey(c))
             /\ PublicKey(NewECCoseKey(c)) = g.key
  BY ClaimHolds DEF ForeignMessage
<1>3. \A k : Signature(k, m.alg, m).key = k
  BY DEF Signature
<1>4. \A k : m.sig = {Signature(k, m.alg, m)} <=>
             \E g \in m.sig : g.key = k /\ g = Signature(g.key, m.alg, m)
  <2> SUFFICES ASSUME NEW k
               PROVE  m.sig = {Signature(k, m.alg, m)} <=>
                        \E g \in m.sig : g.key = k /\ g = Signature(g.key, m.alg, m)
    OBVIOUS
  <2>1. ASSUME m.sig = {Signature(k, m.alg, m)}
        PROVE  \E g \in m.sig : g.key = k /\ g = Signature(g.key, m.alg, m)
    BY <2>1, <1>3
  <2>2. ASSUME NEW g \in m.sig, g.key = k, g = Signature(g.key, m.alg, m)
        PROVE  m.sig = {Signature(k, m.alg, m)}
    BY <2>2, <1>1
  <2> QED BY <2>1, <2>2
<1>5. ASSUME VerifyWithCWTPublicKey(m)
      PROVE  /\ m.iss[1] = "text" /\ m.sub[1] = "text" /\ m.alg # None
             /\ \E cnf \in m.cnf, g \in m.sig :
                   Holds(cnf, g.key) /\ g = Signature(g.key, m.alg, m)
  <2>1. /\ m.iss[1] = "text" /\ m.sub[1] = "text" /\ m.alg # None
        /\ \A c \in m.cnf : HasCNFCoseKey(c)
    BY <1>5 DEF VerifyWithCWTPublicKey, HasCWTClaims
  <2>2. PICK c \in m.cnf : /\ HasPublicKey(NewECCoseKey(c))
                           /\ m.sig = {Signature(PublicKey(NewECCoseKey(c)), m.alg, m)}
    BY <1>5 DEF VerifyWithCWTPublicKey, VerifyWithPublicKey
  <2>3. PICK g \in m.sig : /\ g.key = PublicKey(NewECCoseKey(c))
                           /\ g = Signature(g.key, m.alg, m)
    BY <1>4, <2>2
  <2> QED BY <1>2, <2>1, <2>2, <2>3
<1>6. ASSUME m.iss[1] = "text", m.sub[1] = "text", m.alg # None,
             NEW cnf \in m.cnf, NEW g \in m.sig,
             Holds(cnf, g.key), g = Signature(g.key, m.alg, m)
      PROVE  VerifyWithCWTPublicKey(m)
  <2>1. /\ HasCNFCoseKey(cnf) /\ HasPublicKey(NewECCoseKey(cnf))
        /\ PublicKey(NewECCoseKey(cnf)) = g.key
    BY <1>2, <1>6
  <2>2. HasCWTClaims(m)
    BY <1>1, <1>6, <2>1 DEF HasCWTClaims
  <2>3. m.sig = {Signature(g.key, m.alg, m)}
    BY <1>4, <1>6
  <2> QED BY <1>6, <2>1, <2>2, <2>3 DEF VerifyWithCWTPublicKey, VerifyWithPublicKey
<1> QED BY <1>5, <1>6

\* The key a signer reports is that of its version.
LEMMA SignerKeyIsKeyIn ==
    ASSUME NEW s
    PROVE  /\ SignerKey(s) = KeyIn(versions, key[s])
           /\ SignerAlgorithm(s) = AlgorithmOf(key[s])
BY DEF SignerKey, KeyIn, VersionKey, SignerAlgorithm, AlgorithmOf

\* Setting the algorithm of a message, and of one that is signed; signing it.
LEMMA SetAlgorithm ==
    ASSUME NEW v, NEW pub, NEW s, NEW alg, NEW a
    PROVE  [Plain(v, pub, s, alg) EXCEPT !.alg = a] = Plain(v, pub, s, a)
<1> DEFINE cnf == NewCNFClaim(v, AlgorithmOf(v), pub)
<1>1. \A x : Plain(v, pub, s, x) =
        [alg |-> x, iss |-> Text("issuer"), sub |-> Text("subject"),
         cnf |-> {cnf}, payload |-> s, sig |-> {}, form |-> "built"]
  BY DEF Plain, Message
<1> HIDE DEF cnf
<1> QED BY <1>1, FieldsOfMessage

LEMMA ResetAlgorithm ==
    ASSUME NEW v, NEW pub, NEW s, NEW alg, NEW a
    PROVE  [SignedAs(v, pub, s, alg) EXCEPT !.alg = a] = SignedAs(v, pub, s, a)
<1> DEFINE cnf == NewCNFClaim(v, AlgorithmOf(v), pub)
           g == [key |-> pub, alg |-> AlgorithmOf(v), over |-> Covered(v, pub, s)]
<1>1. \A x : SignedAs(v, pub, s, x) =
        [alg |-> x, iss |-> Text("issuer"), sub |-> Text("subject"),
         cnf |-> {cnf}, payload |-> s, sig |-> {g}, form |-> "built"]
  BY PartsOfSigned DEF SignedParts
<1> HIDE DEF cnf, g
<1> QED BY <1>1, FieldsOfMessage

LEMMA SignPlain ==
    ASSUME NEW v, NEW pub, NEW s,
           NEW m, m = Plain(v, pub, s, AlgorithmOf(v))
    PROVE  [m EXCEPT !.sig = {Signature(pub, AlgorithmOf(v), m)}]
              = SignedAs(v, pub, s, AlgorithmOf(v))
BY DEF SignedAs

-----------------------------------------------------------------------------
(* The invariant holds *)

\* What a signer puts in messages has its type.
LEMMA SignerWrites ==
    ASSUME TypeOK, NEW s \in Signers
    PROVE  /\ SignerKey(s) \in Keys /\ SignerAlgorithm(s) \in Algs
           /\ OwnKey \in Keys
           /\ CoseAlgForEC(SignerKey(s)) \in Algs \cup {None}
           /\ SignerKey(s).crv \in ECDSACurves =>
                /\ CoseAlgForEC(SignerKey(s)) \in Algs
                /\ NewCNFClaim(key[s], SignerAlgorithm(s), SignerKey(s)) \in Claims
<1>1. key[s] \in Ids /\ (key[s] # 0 => versions[key[s]] \in VaultCurves)
  BY SigningAssumption DEF TypeOK, Ids
<1>2. SignerKey(s) \in Keys /\ SignerKey(s).id \in Ids
  BY <1>1, SigningAssumption
     DEF SignerKey, VersionKey, OwnKey, PublicKeyOn, Keys, Ids
<1>3. SignerAlgorithm(s) \in Algs
  BY DEF SignerAlgorithm, Algs
<1>4. OwnKey \in Keys
  BY SigningAssumption DEF OwnKey, PublicKeyOn, Keys
<1>5. /\ CoseAlgForEC(SignerKey(s)) \in Algs \cup {None}
      /\ SignerKey(s).crv \in ECDSACurves => CoseAlgForEC(SignerKey(s)) \in Algs
  BY DEF CoseAlgForEC, ECDSACurves, Algs
<1>6. ASSUME NEW k \in Keys, k.crv \in ECDSACurves, k.id \in Ids,
             NEW a \in Algs, NEW v \in Ids
      PROVE  NewCNFClaim(v, a, k) \in Claims
  BY <1>6 DEF NewCNFClaim, Claims
<1> QED BY <1>1, <1>2, <1>3, <1>4, <1>5, <1>6

LEMMA MessageType ==
    ASSUME NEW m \in Messages
    PROVE  /\ \A a \in Algs : [m EXCEPT !.alg = a] \in Messages
           /\ \A k \in Keys, a \in Algs :
                [m EXCEPT !.sig = {Signature(k, a, m)}] \in Messages
           /\ Decoded(m) \in Messages
<1>1. /\ m.alg \in Algs \cup {None} /\ m.iss = Text("issuer")
      /\ m.sub = Text("subject") /\ m.cnf \in SUBSET Claims
      /\ m.payload \in Signers /\ m.sig \in SUBSET Signatures
  BY DEF Messages
<1>2. \A a \in Algs : [m EXCEPT !.alg = a] \in Messages
  BY DEF Messages
<1>3. SignPayload(m) \in Payloads
  BY <1>1 DEF SignPayload, Payloads
<1>4. ASSUME NEW k \in Keys, NEW a \in Algs
      PROVE  [m EXCEPT !.sig = {Signature(k, a, m)}] \in Messages
  <2>1. Signature(k, a, m) \in Signatures
    BY <1>3 DEF Signature, Signatures
  <2> HIDE DEF Signature
  <2> QED BY <2>1 DEF Messages
<1>5. Decoded(m) \in Messages
  BY DEF Decoded, Messages
<1> QED BY <1>2, <1>4, <1>5

LEMMA InitInv == Init => IInv
<1> SUFFICES ASSUME Init PROVE IInv
  OBVIOUS
<1>1. PICK c \in VaultCurves : versions = <<c>>
  BY DEF Init
<1>2. versions \in Seq(VaultCurves) /\ Len(versions) = 1
  BY <1>1
<1>3. TypeOK
  BY <1>2, SigningAssumption DEF Init, TypeOK
<1>4. \A s \in Signers : Staged(s)
  BY DEF Init, Staged
<1> QED BY <1>3, <1>4 DEF Init, IInv, WireSigned, Listed

LEMMA TypeStep == ASSUME IInv, [Next]_vars PROVE TypeOK'
<1> TypeOK
  BY DEF IInv
<1>1. CASE Rotate
  <2> USE DEF TypeOK
  <2>1. PICK c \in VaultCurves : versions' = Append(versions, c)
    BY <1>1 DEF Rotate
  <2>2. versions' \in Seq(VaultCurves) /\ Len(versions') = Len(versions) + 1
    BY <2>1
  <2>3. Len(versions) \in Nat \ {0} /\ Len(versions') <= MaxVersions
    BY <1>1, <2>2, SigningAssumption DEF Rotate
  <2>4. UNCHANGED <<key, pc, msg, digest, resigned, lpc, item, keys, wire, sentBefore>>
    BY <1>1 DEF Rotate, signing
  <2>5. pages' \subseteq 1..Len(versions') /\ (lpc = "done" => pages' = pages)
    BY <1>1, <2>2, <2>3 DEF Rotate
  <2>6. key' \in [Signers -> 0..Len(versions')] /\ item' \in 0..Len(versions')
    BY <2>2, <2>3, <2>4
  <2> QED BY <2>2, <2>3, <2>4, <2>5, <2>6
<1>2. ASSUME NEW s \in Signers, Step(s) PROVE TypeOK'
  <2>1. versions' = versions /\ UNCHANGED listing
    BY <1>2 DEF Step, NewSigner, NewOwnKey, NewMessage, BeginSign, GetKeyAndHash,
                Sign, SignES256, SignES256Again, SigningFails, Send, signing
  <2> USE DEF Goto, listing
  <2>2. CASE NewSigner(s)
    BY <2>1, <2>2 DEF NewSigner, TypeOK
  <2>3. CASE NewOwnKey(s)
    BY <2>1, <2>3 DEF NewOwnKey, TypeOK
  <2>m. ASSUME NEW m \in Messages, NEW to \in {"message", "getkey", "signed"},
               pc' = [pc EXCEPT ![s] = to], msg' = [msg EXCEPT ![s] = m],
               UNCHANGED <<key, digest, wire>>, resigned' \in [Signers -> BOOLEAN]
        PROVE  TypeOK'
    BY <2>1, <2>m DEF TypeOK
  <2>4. CASE NewMessage(s)
    <3> DEFINE cnf == NewCNFClaim(key[s], SignerAlgorithm(s), SignerKey(s))
    <3>1. cnf \in Claims
      BY <2>4, SignerWrites DEF NewMessage
    <3>2. PICK alg \in {None, SignerAlgorithm(s), CoseAlgForEC(SignerKey(s))} :
            msg' = [msg EXCEPT ![s] =
                      Message(alg, Text("issuer"), Text("subject"), {cnf}, s)]
      BY <2>4 DEF NewMessage
    <3>3. alg \in Algs \cup {None}
      BY <3>2, SignerWrites
    <3> HIDE DEF cnf
    <3>4. Message(alg, Text("issuer"), Text("subject"), {cnf}, s) \in Messages
      BY <3>1, <3>3 DEF Message, Messages
    <3>5. pc' = [pc EXCEPT ![s] = "message"]
          /\ UNCHANGED <<key, digest, wire, resigned>>
      BY <2>4 DEF NewMessage
    <3> QED BY <2>m, <3>2, <3>4, <3>5 DEF TypeOK
  <2>5. CASE BeginSign(s)
    <3>1. msg[s] \in Messages
      BY <2>5 DEF BeginSign, TypeOK
    <3>2. [msg[s] EXCEPT !.alg = SignerAlgorithm(s)] \in Messages
      BY <3>1, MessageType, SignerWrites
    <3>3. /\ pc' = [pc EXCEPT ![s] = "getkey"]
          /\ msg' = [msg EXCEPT ![s] = [msg[s] EXCEPT !.alg = SignerAlgorithm(s)]]
          /\ UNCHANGED <<key, digest, wire, resigned>>
      BY <2>5 DEF BeginSign
    <3> QED BY <2>m, <3>2, <3>3 DEF TypeOK
  <2>6. CASE GetKeyAndHash(s)
    <3>1. CoseAlgForEC(SignerKey(s)) \in Algs
      BY <2>6, SignerWrites DEF GetKeyAndHash, ECDSACurves
    <3>2. /\ digest' \in [Signers -> Algs \cup {None}]
          /\ digest'[s] \in Algs /\ \A t \in Signers : t # s => digest'[t] = digest[t]
      BY <2>6, <3>1 DEF GetKeyAndHash, TypeOK
    <3>3. pc[s] = "getkey" /\ pc' = [pc EXCEPT ![s] = "sign"]
          /\ UNCHANGED <<key, msg, resigned, wire>>
      BY <2>6 DEF GetKeyAndHash
    <3> QED BY <2>1, <3>2, <3>3 DEF TypeOK
  <2>7. CASE Sign(s)
    <3> DEFINE m == [msg[s] EXCEPT !.sig =
                       {Signature(SignerKey(s), SignerAlgorithm(s), msg[s])}]
    <3>1. msg[s] \in Messages
      BY <2>7 DEF Sign, TypeOK
    <3>2. m \in Messages
      BY <3>1, MessageType, SignerWrites
    <3>3. /\ pc' = [pc EXCEPT ![s] = "signed"] /\ msg' = [msg EXCEPT ![s] = m]
          /\ UNCHANGED <<key, digest, wire, resigned>>
      BY <2>7 DEF Sign
    <3> HIDE DEF m
    <3> QED BY <2>m, <3>2, <3>3 DEF TypeOK
  <2>8. CASE SignES256(s)
    <3> DEFINE n == [msg[s] EXCEPT !.alg = "ES256"]
               m == [n EXCEPT !.sig = {Signature(OwnKey, "ES256", n)}]
    <3>1. msg[s] \in Messages
      BY <2>8 DEF SignES256, TypeOK
    <3>2. "ES256" \in Algs /\ OwnKey \in Keys
      BY SignerWrites DEF Algs
    <3>3. n \in Messages
      BY <3>1, <3>2, MessageType
    <3>4. /\ pc' = [pc EXCEPT ![s] = "signed"] /\ msg' = [msg EXCEPT ![s] = m]
          /\ UNCHANGED <<key, digest, wire, resigned>>
      BY <2>8 DEF SignES256
    <3> HIDE DEF n
    <3>5. m \in Messages
      BY <3>2, <3>3, MessageType
    <3> HIDE DEF m
    <3> QED BY <2>m, <3>4, <3>5 DEF TypeOK
  <2>9. CASE SignES256Again(s)
    <3>1. msg[s] \in Messages /\ pc[s] = "signed"
      BY <2>9 DEF SignES256Again, TypeOK
    <3>2. [msg[s] EXCEPT !.alg = "ES256"] \in Messages
      BY <3>1, MessageType DEF Algs
    <3>3. /\ pc' = [pc EXCEPT ![s] = "signed"]
          /\ msg' = [msg EXCEPT ![s] = [msg[s] EXCEPT !.alg = "ES256"]]
          /\ UNCHANGED <<key, digest, wire>>
          /\ resigned' \in [Signers -> BOOLEAN]
      BY <2>9, <3>1 DEF SignES256Again, TypeOK
    <3> QED BY <2>m, <3>2, <3>3
  <2>10. CASE SigningFails(s)
    BY <2>1, <2>10 DEF SigningFails, TypeOK
  <2>11. CASE Send(s)
    <3>1. Decoded(msg[s]) \in Messages
      BY <2>11, MessageType DEF Send, TypeOK
    <3> QED BY <2>1, <2>11, <3>1 DEF Send, signing, TypeOK
  <2> QED BY <1>2, <2>2, <2>3, <2>4, <2>5, <2>6, <2>7, <2>8, <2>9, <2>10, <2>11
          DEF Step
<1>3. CASE ListVersions
  BY <1>3 DEF ListVersions, signing, TypeOK
<1>4. CASE NextVersion
  BY <1>4 DEF NextVersion, signing, TypeOK
<1>5. CASE GetVersionKey
  <2>1. VersionKey(item) \in Keys
    BY <1>5, SigningAssumption DEF GetVersionKey, VersionKey, PublicKeyOn, Keys,
       TypeOK
  <2> QED BY <1>5, <2>1 DEF GetVersionKey, signing, TypeOK
<1>6. CASE ListingEnds
  BY <1>6 DEF ListingEnds, signing, TypeOK
<1>7. CASE ListingFails
  BY <1>7 DEF ListingFails, signing, TypeOK
<1>8. CASE UNCHANGED vars
  BY <1>8 DEF vars, signing, listing, TypeOK
<1> QED BY <1>1, <1>2, <1>3, <1>4, <1>5, <1>6, <1>7, <1>8 DEF Next

\* A signer that a step leaves alone is where it was.
LEMMA StagedSame ==
    ASSUME NEW s \in Signers, Staged(s),
           key'[s] = key[s], pc'[s] = pc[s], msg'[s] = msg[s],
           resigned'[s] = resigned[s],
           KeyIn(versions', key[s]) = KeyIn(versions, key[s])
    PROVE  Staged(s)'
BY DEF Staged

LEMMA StagedStep ==
    ASSUME IInv, [Next]_vars, NEW t \in Signers
    PROVE  Staged(t)'
<1> USE DEF IInv
<1>1. Staged(t) /\ key[t] \in 0..Len(versions) /\ Len(versions) \in Nat \ {0}
  BY DEF TypeOK
<1>2. CASE Rotate
  <2>1. PICK c \in VaultCurves : versions' = Append(versions, c)
    BY <1>2 DEF Rotate
  <2>2. KeyIn(versions', key[t]) = KeyIn(versions, key[t])
    BY <1>1, <2>1, KeysStay DEF TypeOK
  <2>3. key' = key /\ pc' = pc /\ msg' = msg /\ resigned' = resigned
    BY <1>2 DEF Rotate, signing
  <2> QED BY <1>1, <2>2, <2>3, StagedSame
<1>3. ASSUME NEW s \in Signers, Step(s) PROVE Staged(t)'
  <2> DEFINE v == key[s]
             pub == KeyIn(versions, key[s])
  <2>1. versions' = versions /\ Staged(s)
    BY <1>3 DEF Step, NewSigner, NewOwnKey, NewMessage, BeginSign, GetKeyAndHash,
                Sign, SignES256, SignES256Again, SigningFails, Send, signing
  <2>2. /\ key[s] \in Nat /\ SignerKey(s) = pub /\ SignerAlgorithm(s) = AlgorithmOf(v)
        /\ AlgorithmOf(v) \in HeaderAlgorithms
    BY SignerKeyIsKeyIn DEF TypeOK, AlgorithmOf, HeaderAlgorithms
  <2>3. CASE t # s
    <3>1. key'[t] = key[t] /\ pc'[t] = pc[t] /\ msg'[t] = msg[t]
          /\ resigned'[t] = resigned[t]
      <4> USE <1>3, <2>3 DEF TypeOK, Goto
      <4>1. CASE NewSigner(s)
        BY <4>1 DEF NewSigner
      <4>2. CASE NewOwnKey(s) \/ GetKeyAndHash(s) \/ SigningFails(s) \/ Send(s)
        BY <4>2 DEF NewOwnKey, GetKeyAndHash, SigningFails, Send, signing
      <4>3. CASE NewMessage(s) \/ BeginSign(s)
        BY <4>3 DEF NewMessage, BeginSign
      <4>4. CASE Sign(s) \/ SignES256(s)
        BY <4>4 DEF Sign, SignES256
      <4>5. CASE SignES256Again(s)
        BY <4>5 DEF SignES256Again
      <4> QED BY <4>1, <4>2, <4>3, <4>4, <4>5 DEF Step
    <3> QED BY <1>1, <2>1, <3>1, StagedSame
  <2>4. ASSUME t = s, pc'[s] \in {"ready", "failed"} PROVE Staged(t)'
    BY <2>4 DEF Staged
  <2>5. ASSUME t = s, key'[s] = key[s], pub.crv \in ECDSACurves,
               pc'[s] = "message",
               NEW alg \in HeaderAlgorithms, msg'[s] = Plain(v, pub, s, alg)
        PROVE  Staged(t)'
    BY <2>1, <2>5 DEF Staged
  <2>6. ASSUME t = s, key'[s] = key[s], pub.crv \in ECDSACurves, key[s] # 0,
               pc'[s] \in {"getkey", "sign"},
               msg'[s] = Plain(v, pub, s, AlgorithmOf(v))
        PROVE  Staged(t)'
    BY <2>1, <2>6 DEF Staged
  <2>7. ASSUME t = s, key'[s] = key[s], pub.crv \in ECDSACurves,
               pc'[s] = "signed",
               NEW alg \in HeaderAlgorithms, msg'[s] = SignedAs(v, pub, s, alg),
               ~resigned'[s] => alg = AlgorithmOf(v)
        PROVE  Staged(t)'
    BY <2>1, <2>7 DEF Staged
  <2>8. CASE t = s /\ NewSigner(s)
    BY <2>4, <2>8 DEF NewSigner, Goto, TypeOK
  <2>9. CASE t = s /\ NewOwnKey(s)
    BY <2>4, <2>9 DEF NewOwnKey, Goto, TypeOK
  <2>10. CASE t = s /\ SigningFails(s)
    BY <2>4, <2>10 DEF SigningFails, Goto, TypeOK
  <2>11. CASE t = s /\ NewMessage(s)
    <3>1. PICK alg \in {None, SignerAlgorithm(s), CoseAlgForEC(SignerKey(s))} :
             msg' = [msg EXCEPT ![s] =
                  Message(alg, Text("issuer"), Text("subject"),
                      {NewCNFClaim(key[s], SignerAlgorithm(s), SignerKey(s))}, s)]
      BY <2>11 DEF NewMessage
    <3>2. alg \in HeaderAlgorithms
      BY <2>2 DEF CoseAlgForEC, HeaderAlgorithms
    <3>3. msg'[s] = Plain(v, pub, s, alg)
      BY <2>2, <3>1 DEF TypeOK, Plain
    <3>4. key'[s] = key[s] /\ pc'[s] = "message" /\ pub.crv \in ECDSACurves
      BY <2>2, <2>11 DEF NewMessage, Goto, TypeOK
    <3> QED BY <2>5, <2>11, <3>2, <3>3, <3>4
  <2>12. CASE t = s /\ BeginSign(s)
    <3>1. pc[s] = "message" /\ key'[s] = key[s] /\ pc'[s] = "getkey" /\ key[s] # 0
      BY <2>12 DEF BeginSign, Goto, TypeOK
    <3>2. PICK alg \in HeaderAlgorithms : msg[s] = Plain(v, pub, s, alg)
      BY <2>1, <3>1 DEF Staged
    <3>3. msg'[s] = [msg[s] EXCEPT !.alg = AlgorithmOf(v)]
      BY <2>2, <2>12 DEF BeginSign, TypeOK
    <3>4. msg'[s] = Plain(v, pub, s, AlgorithmOf(v))
      BY <3>2, <3>3, SetAlgorithm
    <3>5. pub.crv \in ECDSACurves
      BY <2>1, <3>1 DEF Staged
    <3> QED BY <2>6, <2>12, <3>1, <3>4, <3>5
  <2>13. CASE t = s /\ GetKeyAndHash(s)
    <3>1. pc[s] = "getkey" /\ key'[s] = key[s] /\ pc'[s] = "sign" /\ msg'[s] = msg[s]
      BY <2>13 DEF GetKeyAndHash, Goto, TypeOK
    <3>2. /\ pub.crv \in ECDSACurves /\ key[s] # 0
          /\ msg[s] = Plain(v, pub, s, AlgorithmOf(v))
      BY <2>1, <3>1 DEF Staged
    <3> QED BY <2>6, <2>13, <3>1, <3>2
  <2>14. CASE t = s /\ Sign(s)
    <3>1. /\ pc[s] = "sign" /\ key'[s] = key[s] /\ pc'[s] = "signed"
          /\ msg'[s] = [msg[s] EXCEPT !.sig =
                          {Signature(pub, AlgorithmOf(v), msg[s])}]
      BY <2>2, <2>14 DEF Sign, Goto, TypeOK
    <3>2. pub.crv \in ECDSACurves /\ msg[s] = Plain(v, pub, s, AlgorithmOf(v))
      BY <2>1, <3>1 DEF Staged
    <3> DEFINE m == Plain(v, pub, s, AlgorithmOf(v))
    <3>3. msg'[s] = [m EXCEPT !.sig = {Signature(pub, AlgorithmOf(v), m)}]
      BY <3>1, <3>2
    <3>4. msg'[s] = SignedAs(v, pub, s, AlgorithmOf(v))
      BY <3>3, SignPlain
    <3> QED BY <2>2, <2>7, <2>14, <3>1, <3>2, <3>4
  <2>15. CASE t = s /\ SignES256(s)
    <3> DEFINE m == [msg[s] EXCEPT !.alg = "ES256"]
    <3>1. /\ pc[s] = "message" /\ key'[s] = key[s] /\ pc'[s] = "signed"
          /\ key[s] = 0
          /\ msg'[s] = [m EXCEPT !.sig = {Signature(OwnKey, "ES256", m)}]
      BY <2>15 DEF SignES256, Goto, TypeOK
    <3>2. AlgorithmOf(v) = "ES256" /\ pub = OwnKey
      BY <3>1 DEF AlgorithmOf, KeyIn
    <3>3. PICK alg \in HeaderAlgorithms : msg[s] = Plain(v, pub, s, alg)
      BY <2>1, <3>1 DEF Staged
    <3>4. m = Plain(v, pub, s, "ES256")
      BY <3>3, SetAlgorithm
    <3> HIDE DEF m
    <3>5. msg'[s] = SignedAs(v, pub, s, AlgorithmOf(v))
      BY <3>1, <3>2, <3>4, SignPlain
    <3>6. pub.crv \in ECDSACurves
      BY <2>1, <3>1 DEF Staged
    <3> QED BY <2>2, <2>7, <2>15, <3>1, <3>5, <3>6
  <2>16. CASE t = s /\ SignES256Again(s)
    <3>1. /\ pc[s] = "signed" /\ key'[s] = key[s] /\ pc'[s] = "signed"
          /\ msg'[s] = [msg[s] EXCEPT !.alg = "ES256"]
          /\ resigned'[s]
      BY <2>16 DEF SignES256Again, TypeOK
    <3>2. PICK alg \in HeaderAlgorithms : msg[s] = SignedAs(v, pub, s, alg)
      BY <2>1, <3>1 DEF Staged
    <3>3. pub.crv \in ECDSACurves
      BY <2>1, <3>1 DEF Staged
    <3> HIDE DEF v, pub
    <3>4. PICK a \in HeaderAlgorithms : a = "ES256"
      BY DEF HeaderAlgorithms
    <3>5. msg'[s] = [SignedAs(v, pub, s, alg) EXCEPT !.alg = a]
      BY <3>1, <3>2, <3>4
    <3>6. msg'[s] = SignedAs(v, pub, s, a)
      BY <3>5, ResetAlgorithm
    <3> QED BY <2>7, <2>16, <3>1, <3>3, <3>6
  <2>17. CASE t = s /\ Send(s)
    BY <1>1, <2>1, <2>17, StagedSame DEF Send, signing
  <2> QED BY <1>3, <2>3, <2>8, <2>9, <2>10, <2>11, <2>12, <2>13, <2>14, <2>15,
             <2>16, <2>17 DEF Step
<1>4. CASE UNCHANGED <<versions, signing>>
  BY <1>1, <1>4, StagedSame, SMTT(30) DEF signing
<1> QED BY <1>2, <1>3, <1>4 DEF Next, vars, ListVersions, NextVersion,
           GetVersionKey, ListingEnds, ListingFails

\* What a version signed, it signed whatever versions come after it.
LEMMA SentByStays ==
    ASSUME IInv, [Next]_vars, NEW m, NEW v \in 0..Len(versions), SentBy(m, v)
    PROVE  /\ v \in 0..Len(versions') /\ SentBy(m, v)'
           /\ KeyIn(versions', v) = KeyIn(versions, v)
<1>1. CASE Rotate
  <2>1. PICK c \in VaultCurves : versions' = Append(versions, c)
    BY <1>1 DEF Rotate
  <2>2. /\ KeyIn(versions', v) = KeyIn(versions, v)
        /\ Len(versions') = Len(versions) + 1
    BY <2>1, KeysStay DEF IInv, TypeOK
  <2> QED BY <2>2 DEF SentBy, IInv, TypeOK
<1>2. CASE UNCHANGED versions
  BY <1>2 DEF SentBy
<1> QED BY <1>1, <1>2 DEF Next, vars, signing, Step, NewSigner, NewOwnKey,
           NewMessage, BeginSign, GetKeyAndHash, Sign, SignES256, SignES256Again,
           SigningFails, Send, ListVersions, NextVersion, GetVersionKey,
           ListingEnds, ListingFails

LEMMA WireStep == ASSUME IInv, [Next]_vars PROVE WireSigned'
<1> SUFFICES ASSUME NEW m \in wire'
             PROVE  \E v \in 0..Len(versions') : SentBy(m, v)'
  BY DEF WireSigned
<1>1. CASE m \in wire
  <2>1. PICK v \in 0..Len(versions) : SentBy(m, v)
    BY <1>1 DEF IInv, WireSigned
  <2> QED BY <2>1, SentByStays
<1>2. ASSUME NEW s \in Signers, Send(s), m = Decoded(msg[s])
      PROVE  \E v \in 0..Len(versions') : SentBy(m, v)'
  <2>1. versions' = versions /\ pc[s] = "signed" /\ key[s] \in 0..Len(versions)
    BY <1>2 DEF Send, IInv, TypeOK
  <2>2. /\ KeyIn(versions, key[s]).crv \in ECDSACurves
        /\ \E alg \in HeaderAlgorithms :
              msg[s] = SignedAs(key[s], KeyIn(versions, key[s]), s, alg)
    BY <2>1, SMTT(30) DEF IInv, Staged
  <2> QED BY <1>2, <2>1, <2>2 DEF SentBy
<1>3. m \in wire \/ \E s \in Signers : Send(s) /\ m = Decoded(msg[s])
  BY ZenonT(30) DEF Next, vars, signing, Step, Rotate, NewSigner, NewOwnKey, NewMessage,
         BeginSign, GetKeyAndHash, Sign, SignES256, SignES256Again, SigningFails,
         Send, ListVersions, NextVersion, GetVersionKey, ListingEnds, ListingFails
<1> QED BY <1>1, <1>2, <1>3

LEMMA ListedStep == ASSUME IInv, [Next]_vars PROVE Listed'
<1> SUFFICES ASSUME lpc' \in {"page", "key", "done"}, NEW m \in sentBefore'
             PROVE  \E v \in 0..Len(versions') :
                       /\ SentBy(m, v)'
                       /\ \/ v = 0 \/ v \in pages'
                          \/ lpc' = "key" /\ v = item'
                          \/ KeyIn(versions', v) \in keys'
  BY DEF Listed
<1>1. CASE ListVersions
  <2>1. PICK v \in 0..Len(versions) : SentBy(m, v)
    BY <1>1 DEF ListVersions, IInv, WireSigned
  <2>2. v = 0 \/ v \in pages'
    BY <1>1 DEF ListVersions, IInv, TypeOK
  <2> QED BY <2>1, <2>2, SentByStays
<1>2. CASE ~ListVersions
  <2>1. m \in sentBefore /\ lpc \in {"page", "key", "done"}
    BY <1>2 DEF Next, vars, signing, listing, Step, Rotate, NewSigner, NewOwnKey,
         NewMessage, BeginSign, GetKeyAndHash, Sign, SignES256, SignES256Again,
         SigningFails, Send, NextVersion, GetVersionKey, ListingEnds, ListingFails
  <2>2. PICK v \in 0..Len(versions) :
           /\ SentBy(m, v)
           /\ \/ v = 0 \/ v \in pages
              \/ lpc = "key" /\ v = item
              \/ KeyIn(versions, v) \in keys
    <3>1. Listed
      BY DEF IInv
    <3> QED BY <2>1, <3>1, Zenon DEF Listed
  <2>3. /\ v \in 0..Len(versions') /\ SentBy(m, v)'
        /\ KeyIn(versions', v) = KeyIn(versions, v)
    BY <2>2, SentByStays
  <2>4. CASE GetVersionKey
    <3>1. v # 0 => KeyIn(versions, v) = VersionKey(v)
      BY DEF KeyIn, VersionKey
    <3>2. /\ lpc = "key" /\ keys' = keys \cup {VersionKey(item)}
          /\ pages' = pages
      BY <2>4 DEF GetVersionKey
    <3> QED BY <2>2, <2>3, <3>1, <3>2
  <2>5. CASE NextVersion
    <3>1. PICK w \in pages : item' = w /\ pages' = pages \ {w}
      BY <2>5 DEF NextVersion
    <3>2. lpc = "page" /\ lpc' = "key" /\ keys' = keys
      BY <2>5 DEF NextVersion
    <3> QED BY <2>2, <2>3, <3>1, <3>2
  <2>6. CASE ListingEnds
    <3>1. lpc = "page" /\ pages = {} /\ keys' = keys
      BY <2>6 DEF ListingEnds
    <3> QED BY <2>2, <2>3, <3>1
  <2>7. CASE Rotate
    <3>1. pages \subseteq pages' /\ lpc' = lpc /\ item' = item /\ keys' = keys
      BY <2>7 DEF Rotate
    <3> QED BY <2>2, <2>3, <3>1
  <2>8. CASE UNCHANGED listing
    BY <2>2, <2>3, <2>8 DEF listing
  <2>9. ~ListingFails
    BY DEF ListingFails
  <2> QED BY <1>2, <2>4, <2>5, <2>6, <2>7, <2>8, <2>9, ZenonT(30)
          DEF Next, vars, Step, NewSigner, NewOwnKey, NewMessage, BeginSign,
              GetKeyAndHash, Sign, SignES256, SignES256Again, SigningFails, Send
<1> QED BY <1>1, <1>2

\* The invariant holds of every reachable state.
THEOREM Invariant == Spec => []IInv
<1>1. IInv /\ [Next]_vars => IInv'
  BY TypeStep, StagedStep, WireStep, ListedStep DEF IInv
<1> QED BY InitInv, <1>1, PTL DEF Spec

-----------------------------------------------------------------------------
(* The properties *)

\* Every variable has its type: in particular a signer keeps a version of
\* the key that exists, and a listing reads versions that exist.
THEOREM TypeCorrect == Spec => []TypeOK
<1>1. IInv => TypeOK
  BY DEF IInv
<1> QED BY Invariant, <1>1, PTL

\* What a signer returns verifies with the key it reports and with the key
\* in the message's claims, for any number of rotations, of signers and of
\* curves.
THEOREM SignaturesVerify == Spec => []SignedVerifies
<1>1. ASSUME IInv PROVE SignedVerifies
  <2> SUFFICES ASSUME NEW s \in Signers, pc[s] = "signed", ~resigned[s]
               PROVE  /\ VerifyWithPublicKey(msg[s], SignerKey(s))
                      /\ VerifyWithCWTPublicKey(Decoded(msg[s]))
    BY DEF SignedVerifies
  <2> DEFINE v == key[s]
             pub == KeyIn(versions, v)
  <2>1. Staged(s) /\ v \in Nat
    BY <1>1 DEF IInv, TypeOK
  <2>2. pub.crv \in ECDSACurves /\ msg[s] = SignedAs(v, pub, s, AlgorithmOf(v))
    BY <2>1 DEF Staged
  <2>3. pub = PublicKeyOn(pub.crv, pub.id) /\ SignerKey(s) = pub
    BY <2>1, KeyOfVersion, SignerKeyIsKeyIn
  <2> HIDE DEF v, pub
  <2> QED BY <2>2, <2>3, SignedIsVerified
<1> QED BY Invariant, <1>1, PTL

\* For any messages of others, encoded in any way that decodes, acceptance
\* means that the key in the claims signed the message as it is.
THEOREM AcceptedMeansSigned == Spec => []AcceptedIffSigned
<1>1. ASSUME IInv, NEW m \in wire PROVE ForeignMessage(m)
  <2>1. PICK v \in 0..Len(versions) : SentBy(m, v)
    BY <1>1 DEF IInv, WireSigned
  <2> DEFINE pub == KeyIn(versions, v)
             cnf == NewCNFClaim(v, AlgorithmOf(v), pub)
  <2>2. PICK s \in Signers, alg \in HeaderAlgorithms :
           m = SignedParts(v, pub, s, alg, "decoded")
    BY <2>1, PartsOfSigned DEF SentBy
  <2>3. v \in Nat /\ pub = PublicKeyOn(pub.crv, v) /\ pub.id = v
    BY <1>1, <2>1, KeyOfVersion DEF IInv, TypeOK
  <2>4. v # None
    BY <2>3, SigningAssumption
  <2> DEFINE g == [key |-> pub, alg |-> AlgorithmOf(v), over |-> Covered(v, pub, s)]
  <2>5. m.form = "decoded" /\ m.cnf = {cnf} /\ m.sig = {g} /\ g.key = pub
    BY <2>2 DEF SignedParts
  <2>6. /\ cnf.kty = <<cnf.kty[1], cnf.kty[2]>> /\ cnf.crv = <<cnf.crv[1], cnf.crv[2]>>
        /\ cnf.x = <<cnf.x[1], cnf.x[2]>> /\ cnf.y = <<cnf.y[1], cnf.y[2]>>
    BY DEF NewCNFClaim, Text, Bstr
  <2> HIDE DEF pub, cnf, g
  <2> QED BY <2>3, <2>4, <2>5, <2>6 DEF ForeignMessage
<1>2. ASSUME IInv PROVE AcceptedIffSigned
  <2>1. \A m \in wire \cup Foreign : ForeignMessage(m)
    BY <1>1, <1>2, ForeignAssumption
  <2> QED BY <2>1, AcceptedMessage DEF AcceptedIffSigned
<1> QED BY Invariant, <1>2, PTL

\* A listing that completes has the key of every version that had signed.
THEOREM ListingVerifies == Spec => []ListedKeysVerify
<1>1. ASSUME IInv PROVE ListedKeysVerify
  <2> SUFFICES ASSUME lpc = "done", NEW m \in sentBefore, NEW g \in m.sig,
                      g.key # OwnKey, m.alg = g.alg
               PROVE  \E k \in keys : VerifyWithPublicKey(m, k)
    BY DEF ListedKeysVerify
  <2>1. PICK v \in 0..Len(versions) :
           /\ SentBy(m, v)
           /\ v = 0 \/ KeyIn(versions, v) \in keys
    BY <1>1 DEF IInv, Listed, TypeOK
  <2> DEFINE pub == KeyIn(versions, v)
  <2>2. PICK s \in Signers, alg \in HeaderAlgorithms :
           m = Decoded(SignedAs(v, pub, s, alg))
    BY <2>1 DEF SentBy
  <2>3. g.key = pub /\ m.alg = alg /\ g.alg = AlgorithmOf(v)
    BY <2>2, PartsOfSigned DEF SignedParts
  <2>4. v \in Nat /\ pub.crv \in ECDSACurves /\ pub = PublicKeyOn(pub.crv, pub.id)
    BY <1>1, <2>1, KeyOfVersion DEF SentBy, IInv, TypeOK
  <2>5. v # 0
    BY <2>3 DEF KeyIn
  <2>6. VerifyWithPublicKey(m, pub)
    <3> HIDE DEF pub
    <3> QED BY <2>2, <2>3, <2>4, SignedIsVerified
  <2> QED BY <2>1, <2>5, <2>6
<1> QED BY Invariant, <1>1, PTL

=============================================================================

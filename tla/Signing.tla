------------------------------- MODULE Signing -------------------------------
(***************************************************************************)
(* Services that sign messages (package cose) with a key of a key vault    *)
(* (azkeys).  The vault's key gets new versions while signers are made,    *)
(* messages are built and signed and the key's versions are listed.  Every *)
(* request to the vault is a step and may fail.                            *)
(***************************************************************************)
EXTENDS Cose, FiniteSets

CONSTANTS
    Signers,
    VaultCurves,    \* curves of the versions of the key
    MaxVersions,    \* bound on the versions of the key
    Foreign         \* encoded messages of other producers

ASSUME SigningAssumption ==
    /\ MaxVersions \in Nat \ {0}
    /\ None \notin {"ES256", "ES384", "ES512"} \cup Nat

\* A value of a decoded map is of some kind, and a signature of some key.
ForeignMessage(m) ==
    LET IsValue(v) == v = <<v[1], v[2]>> IN
    /\ m.form = "decoded"
    /\ \A c \in m.cnf : /\ IsValue(c.kty) /\ IsValue(c.crv)
                        /\ IsValue(c.x) /\ IsValue(c.y)
    /\ \A g \in m.sig : /\ g.key = PublicKeyOn(g.key.crv, g.key.id)
                        /\ g.key.id # None
    /\ \A c, d \in m.cnf : c = d
    /\ \A g, h \in m.sig : g = h

ASSUME ForeignAssumption == \A m \in Foreign : ForeignMessage(m)

VARIABLES
    versions,   \* the vault: the curve of each version of the key
    key,        \* of each signer: the version it was made with, 0 for its own key
    pc,         \* new, ready, message, getkey, sign, signed, failed
    msg,        \* the message in its memory
    digest,     \* the hash that HashAndSign has made
    resigned,   \* SignES256 was called for a message that has a signature
    wire,       \* encoded messages of the signers
    lpc,        \* the listing of versions: idle, page, key, done, error
    pages, item, keys, \* versions still to list, the one listed last, keys read
    sentBefore  \* what was on the wire when the listing began

signing == <<key, pc, msg, digest, resigned>>
listing == <<lpc, pages, item, keys, sentBefore>>
vars == <<versions, signing, wire, listing>>

\* The keys: a version of the vault's key, or the own key of a service,
\* which is on P-256 (version 0).
VersionKey(v) == PublicKeyOn(versions[v], v)
OwnKey == PublicKeyOn("P-256", 0)
SignerKey(s) == IF key[s] = 0 THEN OwnKey ELSE VersionKey(key[s])

\* What signers put in messages: their key in a claim, all else in text.
Algs == {"ES256", "ES384", "ES512"}
Keys == [crv : VaultCurves \cup {"P-256"}, id : 0..MaxVersions]
Ids == 0..MaxVersions
Claims ==
    [kty : {Text("EC")}, kid : {Text(v) : v \in Ids},
     alg : {Int64(AlgorithmNumber(a)) : a \in Algs},
     crv : {Text(c) : c \in ECDSACurves},
     x : {Bstr(v) : v \in Ids}, y : {Bstr(v) : v \in Ids}]
Payloads ==
    [alg : Algs \cup {None}, iss : {Text("issuer")}, sub : {Text("subject")},
     cnf : SUBSET Claims, payload : Signers]
Signatures == [key : Keys, alg : Algs, over : Payloads]
Messages ==
    [alg : Algs \cup {None}, iss : {Text("issuer")}, sub : {Text("subject")},
     cnf : SUBSET Claims, payload : Signers, sig : SUBSET Signatures,
     form : {"built", "decoded"}]

\* A signer past "ready" has a message, one past "getkey" a digest; the
\* versions a signer keeps or a listing reads exist.
TypeOK ==
    /\ versions \in Seq(VaultCurves)
    /\ Len(versions) \in Nat \ {0} /\ Len(versions) <= MaxVersions
    /\ key \in [Signers -> 0..Len(versions)]
    /\ pc \in [Signers -> {"new", "ready", "message", "getkey", "sign",
                           "signed", "failed"}]
    /\ msg \in [Signers -> Messages \cup {None}]
    /\ \A s \in Signers :
          pc[s] \in {"message", "getkey", "sign", "signed"} => msg[s] \in Messages
    /\ digest \in [Signers -> Algs \cup {None}]
    /\ \A s \in Signers : pc[s] = "sign" => digest[s] \in Algs
    /\ resigned \in [Signers -> BOOLEAN]
    /\ wire \subseteq Messages /\ sentBefore \subseteq Messages
    /\ lpc \in {"idle", "page", "key", "done", "error"}
    /\ pages \subseteq 1..Len(versions)
    /\ item \in 0..Len(versions)
    /\ lpc = "key" => item # 0
    /\ lpc = "done" => pages = {}
    /\ keys \subseteq Keys

Init ==
    /\ \E c \in VaultCurves : versions = <<c>>
    /\ key = [s \in Signers |-> 0] /\ pc = [s \in Signers |-> "new"]
    /\ msg = [s \in Signers |-> None] /\ digest = [s \in Signers |-> None]
    /\ resigned = [s \in Signers |-> FALSE]
    /\ wire = {}
    /\ lpc = "idle" /\ pages = {} /\ item = 0 /\ keys = {} /\ sentBefore = {}

-----------------------------------------------------------------------------
(* The vault *)

\* Someone creates a new version of the key; a listing that runs may
\* include it or not.
Rotate ==
    /\ Len(versions) < MaxVersions
    /\ \E c \in VaultCurves : versions' = Append(versions, c)
    /\ pages' \in {pages, pages \cup {Len(versions) + 1}}
    /\ lpc \notin {"page", "key"} => pages' = pages
    /\ UNCHANGED <<signing, wire, lpc, item, keys, sentBefore>>

\* The service signs a digest of the algorithm's length with a key on the
\* algorithm's curve.
VaultSigns(v, alg, d) == CoseAlgForEC(VersionKey(v)) = alg /\ d = alg

-----------------------------------------------------------------------------
(* A signer *)

Goto(s, from, to) == pc[s] = from /\ pc' = [pc EXCEPT ![s] = to]

\* NewKeyVaultCoseSigner: the latest version, which the signer keeps.
NewSigner(s) ==
    /\ Goto(s, "new", "ready")
    /\ key' = [key EXCEPT ![s] = Len(versions)]
    /\ UNCHANGED <<versions, msg, digest, resigned, wire, listing>>

\* A service with a private key of its own makes no signer.
NewOwnKey(s) ==
    /\ Goto(s, "new", "ready")
    /\ UNCHANGED <<versions, key, msg, digest, resigned, wire, listing>>

\* KeyVaultCoseSigner.Algorithm, hardwired.
SignerAlgorithm(s) == IF key[s] = 0 THEN "ES256" ELSE "ES384"

\* A caller builds a message with the signer's public key in its claims and
\* with the algorithm in its header, that of the key or of the signer, or
\* leaves it to be set.
NewMessage(s) ==
    /\ SignerKey(s).crv \in ECDSACurves
    /\ Goto(s, "ready", "message")
    /\ \E alg \in {None, SignerAlgorithm(s), CoseAlgForEC(SignerKey(s))} :
          msg' = [msg EXCEPT ![s] =
              Message(alg, Text("issuer"), Text("subject"),
                      {NewCNFClaim(key[s], SignerAlgorithm(s), SignerKey(s))}, s)]
    /\ UNCHANGED <<versions, key, digest, resigned, wire, listing>>

\* The library's Sign, up to the signer: a message is signed once, and with
\* the algorithm of its header, which is set if there is none.
BeginSign(s) ==
    /\ Goto(s, "message", "getkey")
    /\ key[s] # 0 /\ msg[s].sig = {}
    /\ msg[s].alg \in {None, SignerAlgorithm(s)}
    /\ msg' = [msg EXCEPT ![s].alg = SignerAlgorithm(s)]
    /\ UNCHANGED <<versions, key, digest, resigned, wire, listing>>

\* HashAndSign gets the signer's version of the key and hashes with the
\* hash of its curve.
GetKeyAndHash(s) ==
    /\ SignerKey(s).crv \in {"P-256", "P-384"}
    /\ Goto(s, "getkey", "sign")
    /\ digest' = [digest EXCEPT ![s] = CoseAlgForEC(SignerKey(s))]
    /\ UNCHANGED <<versions, key, msg, resigned, wire, listing>>

\* Mutant: the vault signs with the latest version.
SignLatest(s) ==
    /\ Goto(s, "sign", "signed")
    /\ VaultSigns(Len(versions), SignerAlgorithm(s), digest[s])
    /\ msg' = [msg EXCEPT ![s].sig =
                  {Signature(VersionKey(Len(versions)), SignerAlgorithm(s), msg[s])}]
    /\ UNCHANGED <<versions, key, digest, resigned, wire, listing>>

\* The vault signs with the version of the key identity.
Sign(s) ==
    /\ Goto(s, "sign", "signed")
    /\ VaultSigns(key[s], SignerAlgorithm(s), digest[s])
    /\ msg' = [msg EXCEPT ![s].sig =
                  {Signature(SignerKey(s), SignerAlgorithm(s), msg[s])}]
    /\ UNCHANGED <<versions, key, digest, resigned, wire, listing>>

\* SignES256 with a key of one's own sets the header's algorithm first.
SignES256(s) ==
    /\ key[s] = 0
    /\ Goto(s, "message", "signed")
    /\ LET m == [msg[s] EXCEPT !.alg = "ES256"] IN
       msg' = [msg EXCEPT ![s] = [m EXCEPT !.sig = {Signature(OwnKey, "ES256", m)}]]
    /\ UNCHANGED <<versions, key, digest, resigned, wire, listing>>

\* Then the library refuses a message that has a signature.
SignES256Again(s) ==
    /\ pc[s] = "signed" /\ ~resigned[s]
    /\ msg' = [msg EXCEPT ![s].alg = "ES256"]
    /\ resigned' = [resigned EXCEPT ![s] = TRUE]
    /\ UNCHANGED <<versions, key, pc, digest, wire, listing>>

\* A request fails, or the key, the algorithm or the digest is refused: the
\* caller has no signature.
SigningFails(s) ==
    /\ \E from \in {"new", "ready", "message", "getkey", "sign"} :
          Goto(s, from, "failed")
    /\ UNCHANGED <<versions, key, msg, digest, resigned, wire, listing>>

\* MarshalCBOR, and whoever reads the wire decodes it.
Send(s) ==
    /\ pc[s] = "signed"
    /\ wire' = wire \cup {Decoded(msg[s])}
    /\ UNCHANGED <<versions, signing, listing>>

-----------------------------------------------------------------------------
(* GetKeyVersionsKeys, with pages of one version *)

ListVersions ==
    /\ lpc = "idle" /\ lpc' = "page"
    /\ pages' = 1..Len(versions)
    /\ sentBefore' = wire
    /\ UNCHANGED <<versions, signing, wire, item, keys>>

NextVersion ==
    /\ lpc = "page" /\ \E v \in pages : item' = v /\ pages' = pages \ {v}
    /\ lpc' = "key"
    /\ UNCHANGED <<versions, signing, wire, keys, sentBefore>>

\* GetKeyByKID.  The code skips a version that is listed without a Kid; the
\* service is taken to name every version it lists.
GetVersionKey ==
    /\ lpc = "key" /\ lpc' = "page"
    /\ keys' = keys \cup {VersionKey(item)}
    /\ UNCHANGED <<versions, signing, wire, pages, item, sentBefore>>

ListingEnds ==
    /\ lpc = "page" /\ pages = {}
    /\ lpc' = "done"
    /\ UNCHANGED <<versions, signing, wire, pages, item, keys, sentBefore>>

\* Mutant: a request that fails ends the listing with what there is.
ListingFailsEnds ==
    /\ lpc \in {"page", "key"}
    /\ lpc' = "done"
    /\ UNCHANGED <<versions, signing, wire, pages, item, keys, sentBefore>>

\* A page or a key cannot be read: no keys are returned.
ListingFails ==
    /\ lpc \in {"page", "key"}
    /\ lpc' = "error" /\ keys' = {}
    /\ UNCHANGED <<versions, signing, wire, pages, item, sentBefore>>

-----------------------------------------------------------------------------
Step(s) ==
    \/ NewSigner(s) \/ NewOwnKey(s) \/ NewMessage(s) \/ BeginSign(s)
    \/ GetKeyAndHash(s) \/ Sign(s) \/ SignES256(s) \/ SignES256Again(s)
    \/ SigningFails(s) \/ Send(s)

Next ==
    \/ Rotate \/ (\E s \in Signers : Step(s))
    \/ ListVersions \/ NextVersion \/ GetVersionKey \/ ListingEnds \/ ListingFails

Spec == Init /\ [][Next]_vars

-----------------------------------------------------------------------------
(* Properties *)

\* A message that was signed, and that SignES256 was not called for again,
\* verifies with the key its signer reports and, once it is decoded, with
\* the key in its own claims, however often the key was rotated between the
\* signer, the message and the signature (coseSigner.go:46-55, 107-160).
SignedVerifies ==
    \A s \in Signers : pc[s] = "signed" /\ ~resigned[s] =>
        /\ VerifyWithPublicKey(msg[s], SignerKey(s))
        /\ VerifyWithCWTPublicKey(Decoded(msg[s]))

\* A claim holds this key, in the words of RFC 8152: types and curves by
\* name or by number.  Its "EC2" is written "EC" here (cnfclaim.go:12).
Holds(cnf, pub) ==
    /\ cnf.kty \in {Text("EC"), Int64(2)}
    /\ \/ pub.crv = "P-256" /\ cnf.crv \in {Text("P-256"), Int64(1)}
       \/ pub.crv = "P-384" /\ cnf.crv \in {Text("P-384"), Int64(2)}
       \/ pub.crv = "P-521" /\ cnf.crv \in {Text("P-521"), Int64(3)}
    /\ cnf.x = Bstr(pub.id) /\ cnf.y = Bstr(pub.id)

\* A decoded message, whoever made it, is accepted with the key in its
\* claims exactly if it was signed, as it is, by the key the claims hold,
\* with the algorithm of its header, and names its issuer and subject.
AcceptedIffSigned ==
    \A m \in wire \cup Foreign :
        VerifyWithCWTPublicKey(m) <=>
            /\ m.iss[1] = "text" /\ m.sub[1] = "text" /\ m.alg # None
            /\ \E cnf \in m.cnf, g \in m.sig :
                  Holds(cnf, g.key) /\ g = Signature(g.key, m.alg, m)

\* The keys of a listing verify every message the vault's key had signed
\* when the listing began, whatever version signed it and whatever versions
\* came since; a listing that could not be completed returns an error
\* (keyvault.go:82-135).
ListedKeysVerify ==
    lpc = "done" =>
        \A m \in sentBefore :
            \A g \in m.sig : g.key # OwnKey /\ m.alg = g.alg =>
                \E k \in keys : VerifyWithPublicKey(m, k)

=============================================================================

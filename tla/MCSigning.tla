----------------------------- MODULE MCSigning ------------------------------
(***************************************************************************)
(* Instance of Signing for TLC.  The foreign messages spell their key by   *)
(* name or by number, leave something out, or are signed by another key.   *)
(***************************************************************************)
EXTENDS Signing, TLC

SomeCurves == {"P-256", "P-384"}

Key(kty, crv, id) ==
    [kty |-> kty, kid |-> Bstr("k"), alg |-> Int64(-35), crv |-> crv,
     x |-> Bstr(id), y |-> Bstr(id)]

\* A decoded message with the claims cnf, signed by pub.
By(pub, alg, m) == Decoded([m EXCEPT !.sig = {Signature(pub, alg, m)}])

With(cnf) == Message("ES384", Text("iss"), Text("sub"), {cnf}, "p")

other == PublicKeyOn("P-384", 9)
wrong == PublicKeyOn("P-384", 8)
on521 == PublicKeyOn("P-521", 9)

ForeignMessages ==
    { By(other, "ES384", With(Key(kty, crv, 9))) :
          kty \in {Text("EC"), Text("EC2"), Int64(2), Int64(3), Missing},
          crv \in {Text("P-384"), Int64(1), Int64(2), Int64(4), Missing} }
    \cup
    { By(wrong, "ES384", With(Key(Int64(2), Int64(2), 9))),
      By(other, "ES512", With(Key(Int64(2), Int64(2), 9))),
      By(on521, "ES384", With(Key(Int64(2), Int64(3), 9))),
      By(other, "ES384", [With(Key(Int64(2), Int64(2), 9)) EXCEPT !.cnf = {}]),
      By(other, "ES384", [With(Key(Int64(2), Int64(2), 9)) EXCEPT !.iss = Missing]),
      By(other, "ES384", [With(Key(Int64(2), Int64(2), 9)) EXCEPT !.sub = Int64(1)]),
      [By(other, "ES384", With(Key(Int64(2), Int64(2), 9))) EXCEPT !.payload = "q"],
      By(other, "ES384", With([Key(Int64(2), Int64(2), 9) EXCEPT !.y = Missing])) }

Symmetry == Permutations(Signers)

=============================================================================

--------------------------- MODULE ListingProofs ---------------------------
(***************************************************************************)
(* Proofs about Listing: a caller whose options nobody else writes has     *)
(* counted exactly what the markers of its pages say it has passed, so     *)
(* the end of the listing finds every blob counted; and every page brings  *)
(* such a caller nearer to the end.                                        *)
(***************************************************************************)
EXTENDS Listing, TLAPS

\* Nobody else's append can reach the options of this caller: it is a caller
\* of List, or callers do not share a slice.
Own(c) == kind[c] = "list" \/ ~shared

\* Only a caller of List can have a failed request it does not know of.
Informed(c) == swallowed[c] => kind[c] = "list"

\* What the caller has counted is what its marker says, the marker is what it
\* asks with, and it stops without an error only at the end.
InStep(c) ==
    /\ count[c] = marker[c]
    /\ pc[c] = "apply" => option[c] = marker[c]
    /\ pc[c] = "request" => asked[c] = marker[c]
    /\ result[c] = "ok" => marker[c] = Total \/ swallowed[c]

ListingInv == \A c \in Callers : Informed(c) /\ (Own(c) => InStep(c))

Inv == TypeOK /\ ListingInv

\* What is left to a caller: blobs its marker has not passed, and pages that
\* may still be empty.
Left(c) == (Total - marker[c]) + (MaxEmpty - empty[c])

\* A page ends the listing or brings it nearer to its end, for callers that
\* do not share their options (list.go:18-30, 119-156): the marker of every
\* page is carried on, so no page is asked for twice.
PagesProgress ==
    [][\A c \in Callers :
        Own(c) /\ Page(c) => pc'[c] = "done" \/ Left(c)' < Left(c)]_vars

-----------------------------------------------------------------------------
LEMMA CappedType ==
  ASSUME NEW n \in Nat
  PROVE  /\ Capped(n) \in 0..(Total + 1)
         /\ n <= Total => Capped(n) = n
  BY ListingAssumption DEF Capped

LEMMA TypeInit == Init => TypeOK
  BY ListingAssumption DEF Init, TypeOK, Zero

LEMMA TypeStep == TypeOK /\ [Next]_vars => TypeOK'
  <1> SUFFICES ASSUME TypeOK, [Next]_vars PROVE TypeOK'
    OBVIOUS
  <1>1. CASE UNCHANGED vars
    BY <1>1 DEF vars, TypeOK
  <1>2. ASSUME NEW c \in Callers, Append(c) PROVE TypeOK'
    BY <1>2 DEF Append, TypeOK
  <1>3. ASSUME NEW c \in Callers, Apply(c) PROVE TypeOK'
    BY <1>3 DEF Apply, TypeOK
  <1>4. ASSUME NEW c \in Callers, Page(c) PROVE TypeOK'
    <2>1. PICK k \in 0..PageSize :
            /\ asked[c] + k <= Total
            /\ empty' = [empty EXCEPT ![c] =
                           IF k = 0 /\ @ < MaxEmpty THEN @ + 1 ELSE @]
            /\ count' = [count EXCEPT ![c] = Capped(@ + k)]
            /\ marker' = [marker EXCEPT ![c] = asked[c] + k]
            /\ result' = [result EXCEPT ![c] = "ok"] \/ UNCHANGED result
            /\ \/ pc' = [pc EXCEPT ![c] = "done"]
               \/ pc' = [pc EXCEPT ![c] = "append"]
      BY <1>4 DEF Page
    <2>2. k \in Nat /\ asked[c] \in Nat /\ count[c] \in Nat /\ empty[c] \in 0..MaxEmpty
      BY ListingAssumption DEF TypeOK
    <2>3. asked[c] + k \in 0..Total
      BY <2>1, <2>2, ListingAssumption
    <2>4. Capped(count[c] + k) \in 0..(Total + 1)
      BY <2>2, CappedType
    <2>5. (IF k = 0 /\ empty[c] < MaxEmpty THEN empty[c] + 1 ELSE empty[c]) \in 0..MaxEmpty
      BY <2>2, ListingAssumption
    <2>6. UNCHANGED <<kind, shared, option, asked, swallowed>>
      BY <1>4 DEF Page
    <2> QED
      BY <2>1, <2>3, <2>4, <2>5, <2>6 DEF TypeOK
  <1>5. ASSUME NEW c \in Callers, FilterFails(c) PROVE TypeOK'
    BY <1>5 DEF FilterFails, TypeOK
  <1>6. ASSUME NEW c \in Callers, ListFails(c) PROVE TypeOK'
    BY <1>6 DEF ListFails, TypeOK
  <1> QED
    BY <1>1, <1>2, <1>3, <1>4, <1>5, <1>6 DEF Next, Call

\* Every variable keeps its type: no marker passes the last blob.
THEOREM TypeCorrect == Spec => []TypeOK
  BY TypeInit, TypeStep, PTL DEF Spec

-----------------------------------------------------------------------------
\* A page that is asked for with the caller's own marker.
\* A page is followed by another unless it brought the last blob.
LEMMA NextMarkerTells ==
  ASSUME NEW n \in 0..Total, NEW k, NEW m \in NextMarker(n, k), NEW c
  PROVE  (IF kind[c] = "count" THEN CountStops(m) ELSE CallerStops(m)) <=> n = Total
  BY ListingAssumption DEF NextMarker, CountStops, CallerStops

LEMMA PageStep ==
  ASSUME Inv, NEW c \in Callers, Page(c), Own(c)
  PROVE  /\ count'[c] = marker'[c]
         /\ pc'[c] = "done" => marker'[c] = Total
         /\ pc'[c] \in {"append", "done"}
         /\ pc'[c] = "append" => result'[c] = result[c]
         /\ pc'[c] = "done" \/ Left(c)' < Left(c)
  <1>1. asked[c] = marker[c] /\ count[c] = marker[c]
    BY DEF Inv, ListingInv, InStep, Page
  <1>2. PICK k \in 0..PageSize :
          /\ asked[c] + k <= Total
          /\ k = 0 /\ asked[c] < Total => empty[c] < MaxEmpty
          /\ empty' = [empty EXCEPT ![c] =
                         IF k = 0 /\ @ < MaxEmpty THEN @ + 1 ELSE @]
          /\ count' = [count EXCEPT ![c] = Capped(@ + k)]
          /\ marker' = [marker EXCEPT ![c] = asked[c] + k]
          /\ IF asked[c] + k = Total
             THEN pc' = [pc EXCEPT ![c] = "done"]
             ELSE UNCHANGED result /\ pc' = [pc EXCEPT ![c] = "append"]
    <2>1. PICK k \in 0..PageSize : \E m \in NextMarker(asked[c] + k, k) :
            /\ asked[c] + k <= Total
            /\ k = 0 /\ asked[c] < Total => empty[c] < MaxEmpty
            /\ empty' = [empty EXCEPT ![c] =
                           IF k = 0 /\ @ < MaxEmpty THEN @ + 1 ELSE @]
            /\ count' = [count EXCEPT ![c] = Capped(@ + k)]
            /\ marker' = [marker EXCEPT ![c] = asked[c] + k]
            /\ IF IF kind[c] = "count" THEN CountStops(m) ELSE CallerStops(m)
               THEN pc' = [pc EXCEPT ![c] = "done"]
               ELSE UNCHANGED result /\ pc' = [pc EXCEPT ![c] = "append"]
      BY DEF Page
    <2>2. PICK m \in NextMarker(asked[c] + k, k) :
            /\ asked[c] + k <= Total
            /\ IF IF kind[c] = "count" THEN CountStops(m) ELSE CallerStops(m)
               THEN pc' = [pc EXCEPT ![c] = "done"]
               ELSE UNCHANGED result /\ pc' = [pc EXCEPT ![c] = "append"]
      BY <2>1
    <2>3. asked[c] + k \in 0..Total
      BY <2>2, ListingAssumption DEF Inv, TypeOK
    <2>4. (IF kind[c] = "count" THEN CountStops(m) ELSE CallerStops(m))
            <=> asked[c] + k = Total
      BY <2>3, NextMarkerTells
    <2> QED
      BY <2>1, <2>2, <2>4
  <1>3. /\ k \in Nat /\ Total \in Nat /\ MaxEmpty \in Nat
        /\ marker[c] \in Nat /\ empty[c] \in 0..MaxEmpty
    BY ListingAssumption DEF Inv, TypeOK
  <1>4. count'[c] = marker[c] + k /\ marker'[c] = marker[c] + k
    <2>1. count'[c] = Capped(count[c] + k) /\ marker'[c] = asked[c] + k
      BY <1>2 DEF Inv, TypeOK
    <2> QED
      BY <2>1, <1>1, <1>2, <1>3, CappedType
  <1>5. empty'[c] = IF k = 0 /\ empty[c] < MaxEmpty THEN empty[c] + 1 ELSE empty[c]
    BY <1>2 DEF Inv, TypeOK
  <1>6. CASE marker[c] + k = Total
    <2>1. pc'[c] = "done"
      BY <1>1, <1>2, <1>6 DEF Inv, TypeOK
    <2> QED
      BY <2>1, <1>4, <1>6
  <1>7. CASE marker[c] + k # Total
    <2>1. pc'[c] = "append" /\ result'[c] = result[c]
      BY <1>1, <1>2, <1>7 DEF Inv, TypeOK
    <2>2. k > 0 \/ (k = 0 /\ empty[c] < MaxEmpty)
      BY <1>1, <1>2, <1>3, <1>7
    <2>3. (Total - marker'[c]) + (MaxEmpty - empty'[c])
            < (Total - marker[c]) + (MaxEmpty - empty[c])
      BY <2>2, <1>3, <1>4, <1>5
    <2> QED
      BY <2>1, <2>3, <1>4 DEF Left
  <1> QED
    BY <1>6, <1>7

\* A caller that somebody else's step leaves alone.
LEMMA Apart ==
  ASSUME NEW d \in Callers, InStep(d) /\ Informed(d), kind'[d] = kind[d],
         count'[d] = count[d], marker'[d] = marker[d], pc'[d] = pc[d],
         option'[d] = option[d], asked'[d] = asked[d], result'[d] = result[d],
         swallowed'[d] = swallowed[d]
  PROVE  InStep(d)' /\ Informed(d)'
  BY DEF InStep, Informed

LEMMA ListingInit == Init => ListingInv
  BY DEF Init, ListingInv, Informed, Own, InStep, Zero

LEMMA ListingStep ==
  ASSUME Inv, [Next]_vars
  PROVE  ListingInv'
  <1> USE DEF Inv
  <1>1. CASE UNCHANGED vars
    BY <1>1 DEF vars, ListingInv, Informed, Own, InStep
  <1>2. ASSUME NEW c \in Callers, Append(c) PROVE ListingInv'
    <2> SUFFICES ASSUME NEW d \in Callers
                 PROVE  Informed(d)' /\ (Own(d)' => InStep(d)')
      BY DEF ListingInv
    <2>1. Own(d)' => Own(d)
      BY <1>2 DEF Append, Own
    <2>2. CASE d = c
      BY <1>2, <2>1, <2>2 DEF Append, ListingInv, Informed, InStep, TypeOK
    <2>3. CASE d # c
      <3>1. Own(d) => option'[d] = option[d]
        BY <1>2, <2>3 DEF Append, Own
      <3> QED
        BY <1>2, <2>1, <2>3, <3>1 DEF Append, ListingInv, Informed, InStep, TypeOK
    <2> QED
      BY <2>2, <2>3
  <1>3. ASSUME NEW c \in Callers, Apply(c) PROVE ListingInv'
    BY <1>3 DEF Apply, ListingInv, Informed, Own, InStep, TypeOK
  <1>4. ASSUME NEW c \in Callers, Page(c) PROVE ListingInv'
    <2> SUFFICES ASSUME NEW d \in Callers
                 PROVE  Informed(d)' /\ (Own(d)' => InStep(d)')
      BY DEF ListingInv
    <2>1. UNCHANGED <<kind, shared, option, asked, swallowed>>
      BY <1>4 DEF Page
    <2>2. Informed(d)' /\ Own(d)' = Own(d)
      BY <2>1 DEF ListingInv, Informed, Own
    <2>3. ASSUME d = c, Own(d) PROVE InStep(d)'
      <3>1. /\ count'[c] = marker'[c]
            /\ pc'[c] = "done" => marker'[c] = Total
            /\ pc'[c] \in {"append", "done"}
            /\ pc'[c] = "append" => result'[c] = result[c]
        BY <1>4, <2>3, PageStep
      <3>2. pc'[c] = "append" => result[c] # "ok" \/ marker'[c] = Total \/ swallowed'[c]
        <4>1. result[c] = "ok" => marker[c] = Total \/ swallowed[c]
          BY <2>3 DEF ListingInv, InStep
        <4>2. asked[c] = marker[c] /\ swallowed'[c] = swallowed[c]
          BY <1>4, <2>1, <2>3 DEF ListingInv, InStep, Page
        <4>3. marker'[c] \in Nat /\ marker'[c] >= asked[c] /\ marker'[c] <= Total
          <5>1. PICK k \in 0..PageSize :
                  /\ asked[c] + k <= Total
                  /\ marker' = [marker EXCEPT ![c] = asked[c] + k]
            BY <1>4 DEF Page
          <5>2. marker'[c] = asked[c] + k
            BY <5>1 DEF TypeOK
          <5>3. asked[c] \in Nat /\ k \in Nat
            BY ListingAssumption DEF TypeOK
          <5> QED
            BY <5>1, <5>2, <5>3
        <4> QED
          BY <4>1, <4>2, <4>3, ListingAssumption
      <3> QED
        BY <2>3, <3>1, <3>2 DEF InStep
    <2>4. ASSUME d # c, Own(d) PROVE InStep(d)'
      <3>1. /\ count'[d] = count[d] /\ marker'[d] = marker[d]
            /\ pc'[d] = pc[d] /\ result'[d] = result[d]
        BY <1>4, <2>4 DEF Page, TypeOK
      <3>2. InStep(d)
        BY <2>4 DEF ListingInv
      <3> QED
        BY <2>1, <3>1, <3>2 DEF InStep
    <2> QED
      BY <2>2, <2>3, <2>4
  <1>5. ASSUME NEW c \in Callers, FilterFails(c) PROVE ListingInv'
    BY <1>5 DEF FilterFails, ListingInv, Informed, Own, InStep, TypeOK
  <1>6. ASSUME NEW c \in Callers, ListFails(c) PROVE ListingInv'
    BY <1>6 DEF ListFails, ListingInv, Informed, Own, InStep, TypeOK
  <1> QED
    BY <1>1, <1>2, <1>3, <1>4, <1>5, <1>6 DEF Next, Call

\* What a caller of its own options has counted is what its marker says.
THEOREM CountIsMarker == Spec => []Inv
  <1>1. Init => Inv
    BY TypeInit, ListingInit DEF Inv
  <1>2. Inv /\ [Next]_vars => Inv'
    BY TypeStep, ListingStep DEF Inv
  <1> QED
    BY <1>1, <1>2, PTL DEF Spec

\* A Count without an error counted every blob once (list.go:14-31).
THEOREM CountsAreComplete == Spec => []CountComplete
  <1>1. Inv => CountComplete
    BY DEF Inv, ListingInv, Informed, Own, InStep, CountComplete
  <1> QED
    BY <1>1, CountIsMarker, PTL

\* A caller of List who follows the markers sees every blob, unless a
\* request failed.
THEOREM ListsAreComplete == Spec => []ListComplete
  <1>1. Inv => ListComplete
    BY DEF Inv, ListingInv, Own, InStep, ListComplete
  <1> QED
    BY <1>1, CountIsMarker, PTL

\* Every page brings its caller nearer to the end.
THEOREM PagesBringNearer == Spec => PagesProgress
  <1>1. ASSUME Inv, [Next]_vars
        PROVE  [\A c \in Callers : Own(c) /\ Page(c)
                   => pc'[c] = "done" \/ Left(c)' < Left(c)]_vars
    BY <1>1, PageStep
  <1> QED
    BY <1>1, CountIsMarker, PTL DEF Spec, PagesProgress

=============================================================================

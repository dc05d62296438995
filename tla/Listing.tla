------------------------------ MODULE Listing ------------------------------
(***************************************************************************)
(* The listings of azblob/list.go.  A caller either calls Count, which     *)
(* loops over FilteredList, or loops over List itself; both follow the     *)
(* markers of the pages.  The blobs that match stand in a row, and a       *)
(* marker is how many of them the pages so far had.                        *)
(***************************************************************************)
EXTENDS Integers

CONSTANTS
    Callers,
    Total,          \* blobs that match
    PageSize,       \* most blobs of one page
    MaxEmpty        \* bound: pages without a blob but with a marker

ASSUME ListingAssumption ==
    Total \in Nat /\ PageSize \in Nat \ {0} /\ MaxEmpty \in Nat

VARIABLES
    kind,           \* what each caller does: count or list
    shared,         \* callers pass Count one slice of options with room to spare
    option,         \* the marker option in each slice
    pc,             \* append, apply, request, done
    marker,         \* the marker of each caller's last page
    asked,          \* the marker of its request
    count,          \* blobs seen, capped at Total + 1
    empty,          \* empty pages seen
    result,         \* none, ok, error
    swallowed       \* a request of List failed

vars == <<kind, shared, option, pc, marker, asked, count, empty, result, swallowed>>

TypeOK ==
    /\ kind \in [Callers -> {"count", "list"}] /\ shared \in BOOLEAN
    /\ option \in [Callers -> 0..Total]
    /\ pc \in [Callers -> {"append", "apply", "request", "done"}]
    /\ marker \in [Callers -> 0..Total] /\ asked \in [Callers -> 0..Total]
    /\ count \in [Callers -> 0..(Total + 1)] /\ empty \in [Callers -> 0..MaxEmpty]
    /\ result \in [Callers -> {"none", "ok", "error"}]
    /\ swallowed \in [Callers -> BOOLEAN]

Zero == [c \in Callers |-> 0]

Init ==
    /\ kind \in [Callers -> {"count", "list"}] /\ shared \in BOOLEAN
    /\ option = Zero /\ marker = Zero /\ asked = Zero /\ count = Zero
    /\ empty = Zero
    /\ pc = [c \in Callers |-> "append"]
    /\ result = [c \in Callers |-> "none"]
    /\ swallowed = [c \in Callers |-> FALSE]

-----------------------------------------------------------------------------
\* Mutant: every page is asked for with the options of the first.
AppendFirst(c) ==
    /\ pc[c] = "append" /\ pc' = [pc EXCEPT ![c] = "apply"]
    /\ option' = [option EXCEPT ![c] = 0]
    /\ UNCHANGED <<kind, shared, marker, asked, count, empty, result, swallowed>>

\* append(opts, WithListMarker(m)): into the slice all callers of Count
\* share, if it has room.
Append(c) ==
    /\ pc[c] = "append" /\ pc' = [pc EXCEPT ![c] = "apply"]
    /\ option' = [d \in Callers |->
                    IF d = c \/ (shared /\ kind[c] = "count" /\ kind[d] = "count")
                    THEN marker[c] ELSE option[d]]
    /\ UNCHANGED <<kind, shared, marker, asked, count, empty, result, swallowed>>

\* FilteredList and List apply the options they are passed.
Apply(c) ==
    /\ pc[c] = "apply" /\ pc' = [pc EXCEPT ![c] = "request"]
    /\ asked' = [asked EXCEPT ![c] = option[c]]
    /\ UNCHANGED <<kind, shared, option, marker, count, empty, result, swallowed>>

\* Mutant: the marker of a page without blobs is not passed on.
NextMarkerOfBlobs(n, k) ==
    IF k > 0 /\ n < Total THEN {"more"} ELSE {"nil", "empty"}

\* FilteredList and List hand on the marker the service gave them with a page
\* of k blobs, n with those before: nil or the empty string after the last.
NextMarker(n, k) == IF n < Total THEN {"more"} ELSE {"nil", "empty"}

\* Count takes both for the end.
CountStops(m) == m # "more"

\* External: so, it is assumed, does who calls List, though list.go:109
\* speaks of nil only; an empty marker asked for would begin again.
CallerStops(m) == m # "more"

\* Bound: more than Total blobs are too many, however many they are.
Capped(n) == IF n > Total THEN Total + 1 ELSE n

Page(c) ==
    /\ pc[c] = "request"
    /\ \E k \in 0..PageSize : \E m \in NextMarker(asked[c] + k, k) :
        LET n == asked[c] + k IN
        /\ n <= Total
        /\ k = 0 /\ asked[c] < Total => empty[c] < MaxEmpty
        /\ empty' = [empty EXCEPT ![c] = IF k = 0 /\ @ < MaxEmpty THEN @ + 1 ELSE @]
        /\ count' = [count EXCEPT ![c] = Capped(@ + k)]
        /\ marker' = [marker EXCEPT ![c] = n]
        /\ IF IF kind[c] = "count" THEN CountStops(m) ELSE CallerStops(m)
           THEN /\ result' = [result EXCEPT ![c] = "ok"]
                /\ pc' = [pc EXCEPT ![c] = "done"]
           ELSE UNCHANGED result /\ pc' = [pc EXCEPT ![c] = "append"]
    /\ UNCHANGED <<kind, shared, option, asked, swallowed>>

\* Mutant: Count returns what it has.
FilterPartial(c) ==
    /\ pc[c] = "request" /\ kind[c] = "count"
    /\ pc' = [pc EXCEPT ![c] = "done"]
    /\ result' = [result EXCEPT ![c] = "ok"]
    /\ UNCHANGED <<kind, shared, option, marker, asked, count, empty, swallowed>>

\* FindBlobsByTags fails: FilteredList and Count return the error.
FilterFails(c) ==
    /\ pc[c] = "request" /\ kind[c] = "count"
    /\ pc' = [pc EXCEPT ![c] = "done"]
    /\ result' = [result EXCEPT ![c] = "error"]
    /\ UNCHANGED <<kind, shared, option, marker, asked, count, empty, swallowed>>

\* NextPage fails: List returns no blobs, no marker and no error, and its
\* caller takes it for the last page.
ListFails(c) ==
    /\ pc[c] = "request" /\ kind[c] = "list"
    /\ pc' = [pc EXCEPT ![c] = "done"]
    /\ result' = [result EXCEPT ![c] = "ok"]
    /\ swallowed' = [swallowed EXCEPT ![c] = TRUE]
    /\ UNCHANGED <<kind, shared, option, marker, asked, count, empty>>

-----------------------------------------------------------------------------
Call(c) == \/ Append(c) \/ Apply(c) \/ Page(c) \/ FilterFails(c) \/ ListFails(c)

Next == \E c \in Callers : Call(c)

Spec == Init /\ [][Next]_vars

\* Callers run and requests return.
FairSpec == Spec /\ \A c \in Callers : WF_vars(Call(c))

-----------------------------------------------------------------------------
(* Properties *)

\* A Count without an error counted every blob once (list.go:14-31), over
\* empty pages too; only calls that run at the same time on one slice of
\* options take each other's markers (list.go:21).
CountComplete ==
    \A c \in Callers :
        kind[c] = "count" /\ result[c] = "ok" /\ ~shared => count[c] = Total

\* A caller of List who follows the markers sees every blob, unless a
\* request failed.
ListComplete ==
    \A c \in Callers :
        kind[c] = "list" /\ result[c] = "ok" /\ ~swallowed[c] => count[c] = Total

\* "nil if no more pages" (list.go:109): a marker of nil means all was seen.
NilMarkerMeansAll ==
    \A c \in Callers : kind[c] = "list" /\ result[c] = "ok" => count[c] = Total

\* Every listing comes to an end.
ListingEnds == \A c \in Callers : ~shared ~> pc[c] = "done"

=============================================================================

------------------------------- MODULE Storer -------------------------------
(***************************************************************************)
(* Clients of azblob's Storer that update one blob: each reads a number    *)
(* and writes the next one, either with Put on condition of the etag it    *)
(* read, or with Write under a lease it acquired.  Every request of the    *)
(* Storer to the blob service is a step: it may fail, or take effect with  *)
(* its answer lost, and the caller's context may be cancelled in between.  *)
(***************************************************************************)
EXTENDS Integers

CONSTANTS
    Clients,
    None,
    MaxAttempts     \* bound: updates one client tries

LeaseId == Clients \X (1..MaxAttempts)

ASSUME StorerAssumption ==
    /\ MaxAttempts \in Nat
    /\ None \notin Nat /\ None \notin LeaseId

VARIABLES
    style,          \* how each client updates: etag or lease
    present,        \* the blob was there from the start
    exists,
    data,           \* the content: a number, 0 when it is empty
    meta, tags,     \* the number they were written with, or None
    etag,           \* changes with every write
    lease,          \* None, or the client and attempt that acquired it
    updates,        \* updates that took effect
    pc,             \* the request each client makes next, or idle
    attempt,
    seen,           \* the content and etag a client read
    cancelled,      \* its context is cancelled
    troubled,       \* the answer to an acquire or a release was lost
    wins            \* etag and client of each Put answered with success

blob == <<exists, data, meta, tags, etag>>
config == <<style, present>>
vars == <<config, blob, lease, updates, pc, attempt, seen, cancelled, troubled,
          wins>>

TypeOK ==
    /\ style \in [Clients -> {"etag", "lease"}] /\ present \in BOOLEAN
    /\ exists \in BOOLEAN
    /\ data \in Nat /\ etag \in Nat /\ updates \in Nat
    /\ meta \in Nat \cup {None} /\ tags \in Nat \cup {None}
    /\ lease \in LeaseId \cup {None}
    /\ pc \in [Clients -> {"idle", "acquire", "create", "again", "read", "put",
                           "write", "metadata", "tags", "release"}]
    /\ attempt \in [Clients -> 0..MaxAttempts]
    /\ seen \in [Clients -> [data : Nat, etag : Nat \cup {None}]]
    /\ cancelled \in [Clients -> BOOLEAN] /\ troubled \in [Clients -> BOOLEAN]
    /\ wins \subseteq [etag : Nat, by : Clients]

Init ==
    /\ style \in [Clients -> {"etag", "lease"}] /\ present \in BOOLEAN
    /\ exists = present /\ data = 0 /\ etag = 0 /\ updates = 0
    /\ meta = IF present THEN 0 ELSE None
    /\ tags = IF present THEN 0 ELSE None
    /\ lease = None
    /\ pc = [c \in Clients |-> "idle"] /\ attempt = [c \in Clients |-> 0]
    /\ seen = [c \in Clients |-> [data |-> 0, etag |-> None]]
    /\ cancelled = [c \in Clients |-> FALSE]
    /\ troubled = [c \in Clients |-> FALSE]
    /\ wins = {}

-----------------------------------------------------------------------------
(* The requests of the service *)

Mine(c) == lease = <<c, attempt[c]>>

Goto(c, from, to) ==
    /\ pc[c] = from
    /\ pc' = [pc EXCEPT ![c] = to]
    /\ UNCHANGED <<config, attempt>>

\* New content, with its metadata and tags, if any; otherwise it has none.
Replace(n, m, t) ==
    /\ exists' = TRUE /\ data' = n /\ meta' = m /\ tags' = t
    /\ etag' = etag + 1

\* How a request that took effect is answered: with success, or not at all.
Answered(c, next, fallback, from) == Goto(c, from, next) \/ Goto(c, from, fallback)

\* A request without effect: refused, lost, or on a cancelled context.
Without(c, from, to) ==
    /\ Goto(c, from, to)
    /\ UNCHANGED <<blob, lease, updates, seen, cancelled, troubled, wins>>

-----------------------------------------------------------------------------
(* The callers *)

Start(c) ==
    /\ attempt[c] < MaxAttempts
    /\ pc[c] = "idle"
    /\ pc' = [pc EXCEPT ![c] = IF style[c] = "etag" THEN "read" ELSE "acquire"]
    /\ attempt' = [attempt EXCEPT ![c] = @ + 1]
    /\ cancelled' = [cancelled EXCEPT ![c] = FALSE]
    /\ UNCHANGED <<config, blob, lease, updates, seen, troubled, wins>>

Cancel(c) ==
    /\ pc[c] # "idle" /\ ~cancelled[c]
    /\ cancelled' = [cancelled EXCEPT ![c] = TRUE]
    /\ UNCHANGED <<config, blob, lease, updates, pc, attempt, seen, troubled, wins>>

\* Where an update that failed ends: a lease is released, with defer.
Fallback(c) == IF style[c] = "etag" THEN "idle" ELSE "release"

\* Reader.  An absent blob counts as empty; the lease is no obstacle.
Read(c) ==
    /\ ~cancelled[c]
    /\ Goto(c, "read", IF style[c] = "etag" THEN "put" ELSE "write")
    /\ seen' = [seen EXCEPT ![c] = [data |-> data,
                                    etag |-> IF exists THEN etag ELSE None]]
    /\ UNCHANGED <<blob, lease, updates, cancelled, troubled, wins>>

ReadFails(c) == Without(c, "read", Fallback(c))

-----------------------------------------------------------------------------
(* Put *)

\* Mutant: no conditions unless there is a lease.
ConditionsLeaseOnly(c) == TRUE

\* What storerOptionConditions makes of WithEtagMatch, and of
\* WithEtagNoneMatch("*") if there was no blob.
Conditions(c) == IF seen[c].etag = None THEN ~exists
                                        ELSE exists /\ etag = seen[c].etag

\* Content, metadata and tags in one request.
PutContent(c) ==
    Replace(seen[c].data + 1, seen[c].data + 1, seen[c].data + 1)

\* An answer of success makes the client the winner of the etag.
Put(c) ==
    /\ ~cancelled[c] /\ lease = None /\ Conditions(c)
    /\ PutContent(c) /\ updates' = updates + 1
    /\ Goto(c, "put", "idle")
    /\ \/ UNCHANGED wins
       \/ /\ seen[c].etag # None
          /\ wins' = wins \cup {[etag |-> seen[c].etag, by |-> c]}
    /\ UNCHANGED <<lease, seen, cancelled, troubled>>

PutFails(c) == Without(c, "put", "idle")

-----------------------------------------------------------------------------
(* Leases *)

\* The lease is granted; if the answer is lost the caller has no id.
AcquireLease(c) ==
    /\ ~cancelled[c] /\ exists /\ lease = None
    /\ lease' = <<c, attempt[c]>>
    /\ \E from \in {"acquire", "again"} :
          \/ Goto(c, from, "read") /\ UNCHANGED troubled
          \/ Goto(c, from, "idle") /\ troubled' = [troubled EXCEPT ![c] = TRUE]
    /\ UNCHANGED <<blob, updates, seen, cancelled, wins>>

AcquireFails(c) == Without(c, "acquire", "idle") \/ Without(c, "again", "idle")

\* Mutant: any error of the first attempt is taken for a 404.
AcquireNotFoundAny(c) == ~cancelled[c] /\ Without(c, "acquire", "create")

\* 404: the blob is to be created first.
AcquireNotFound(c) == ~cancelled[c] /\ ~exists /\ Without(c, "acquire", "create")

\* Write with no content, no lease and no condition.
Create(c) ==
    /\ ~cancelled[c] /\ lease = None
    /\ Replace(0, None, None)
    /\ Answered(c, "again", "idle", "create")
    /\ UNCHANGED <<lease, updates, seen, cancelled, troubled, wins>>

CreateFails(c) == Without(c, "create", "idle")

\* Mutant: the stream is uploaded without the lease's id.
WriteAllowedUnleased(c) == lease = None \/ Mine(c)

\* A lease id is refused unless the lease is held.
WriteAllowed(c) == Mine(c)

\* writeStream commits the content under the lease; metadata and tags, if
\* the caller gave any, are requests that follow.
Write(c) ==
    /\ ~cancelled[c] /\ WriteAllowed(c)
    /\ Replace(seen[c].data + 1, None, None) /\ updates' = updates + 1
    /\ Goto(c, "write", "metadata") \/ Goto(c, "write", "release")
    /\ UNCHANGED <<lease, seen, cancelled, troubled, wins>>

WriteFails(c) == Without(c, "write", "release")

\* setMetadata and setTags send no lease id: the service refuses both while
\* the blob is leased, and Write returns the error.
SetMetadata(c) ==
    /\ ~cancelled[c] /\ lease = None
    /\ meta' = seen[c].data + 1 /\ etag' = etag + 1
    /\ Answered(c, "tags", "release", "metadata")
    /\ UNCHANGED <<exists, data, tags, lease, updates, seen, cancelled, troubled,
                   wins>>

SetTags(c) ==
    /\ ~cancelled[c] /\ lease = None
    /\ tags' = seen[c].data + 1
    /\ Goto(c, "tags", "release")
    /\ UNCHANGED <<exists, data, meta, etag, lease, updates, seen, cancelled,
                   troubled, wins>>

SetFails(c) == Without(c, "metadata", "release") \/ Without(c, "tags", "release")

\* Mutant: ReleaseLease on the caller's context.
ReleaseLeaseCancelled(c) ==
    /\ Goto(c, "release", "idle")
    /\ lease' = IF Mine(c) /\ ~cancelled[c] THEN None ELSE lease
    /\ UNCHANGED <<blob, updates, seen, cancelled, troubled, wins>>

\* On a context of its own: the caller's may be cancelled.
ReleaseLease(c) ==
    /\ Goto(c, "release", "idle")
    /\ lease' = IF Mine(c) THEN None ELSE lease
    /\ UNCHANGED <<blob, updates, seen, cancelled, troubled, wins>>

\* The request fails or times out: logged, and the lease stays.
ReleaseFails(c) ==
    /\ Goto(c, "release", "idle")
    /\ troubled' = [troubled EXCEPT ![c] = TRUE]
    /\ UNCHANGED <<blob, lease, updates, seen, cancelled, wins>>

\* The lease's time is over; nothing else tells its holder.
Expire ==
    /\ lease # None /\ lease' = None
    /\ UNCHANGED <<config, blob, updates, pc, attempt, seen, cancelled, troubled,
                   wins>>

-----------------------------------------------------------------------------
Next ==
    \/ Expire
    \/ \E c \in Clients :
        \/ Start(c) \/ Cancel(c) \/ Read(c) \/ ReadFails(c)
        \/ Put(c) \/ PutFails(c)
        \/ AcquireLease(c) \/ AcquireFails(c) \/ AcquireNotFound(c)
        \/ Create(c) \/ CreateFails(c)
        \/ Write(c) \/ WriteFails(c)
        \/ SetMetadata(c) \/ SetTags(c) \/ SetFails(c)
        \/ ReleaseLease(c) \/ ReleaseFails(c)

Spec == Init /\ [][Next]_vars

-----------------------------------------------------------------------------
(* Properties *)

\* WithEtagMatch reconciles "racing updates by guaranteeing a single winner"
\* (etags_test.go:25-26): no etag is won twice.
SingleWinner == \A v, w \in wins : v.etag = w.etag => v = w

\* No update is lost, between etags, leases, lost answers, expired leases
\* and cancelled callers: the blob counts every write that took effect
\* (options.go:123).  Where the blob is missing at first this needs clients
\* that all use etags.
NoLostUpdate ==
    present \/ (\A c \in Clients : style[c] = "etag") => data = updates

\* "metadata and tags are set in the same operation as the content update"
\* (put.go:13): with Put alone they never differ from the content.
PutIsWhole ==
    (\A c \in Clients : style[c] = "etag") /\ exists => meta = data /\ tags = data

\* A client that is done holds no lease, even if its context was cancelled
\* (lease.go:133-136); only a lost answer leaves one behind.
NoLeaseLeft ==
    \A c \in Clients : pc[c] = "idle" /\ ~troubled[c] => \A n \in 1..MaxAttempts :
        lease # <<c, n>>

\* "AcquireLease gets a lease on a blob" (lease.go:23): acquiring one does
\* not undo another client's update.
AcquireKeepsUpdates == data = updates

-----------------------------------------------------------------------------
(* The clients implement Counter *)

\* A call may still take effect until its write is answered or given up.
Trying == {c \in Clients : pc[c] \in {"acquire", "create", "again", "read", "put", "write"}}

\* Who acquires a lease on a blob that was not there creates it.
Creators == {c \in Clients : style[c] = "lease" /\ ~present}

Number == INSTANCE Counter WITH value <- data, trying <- Trying, creators <- Creators

\* With etags, leases, lost answers and all their requests the clients do what
\* Counter says: an update is one step, takes effect at most once per call, and
\* undoes no other (options.go:123, lease.go:23-47).
ImplementsCounter == Number!Spec

=============================================================================

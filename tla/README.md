# A verification project for go-datatrails-common

TLA+ models of this repository's own logic, TLC configurations that check them
on small instances, and theorems about them that TLAPS proves for every value
of the constants.  `PROJECT.json` relates every definition to the lines it
models (`map`), every property to a plausible bug in the code that breaks it
(`mutants`), and every hazard of the code to the properties that would catch
it (`hazards`).

To run: `tlc -workers 2 -config rounds.cfg MCReceiver` (each `.cfg` with the MC
module `PROJECT.json` names for it), `tlapm ReceiverProofs.tla` (each
`*Proofs.tla`).

## 1. Inventory

| Component | State | Operations | What is hard |
|---|---|---|---|
| `azbus.Receiver` (`receiver.go`, `disposition.go`) | `receiver`, `handlers`, `cancel`, `mtx`; per Listen a context, a channel, a WaitGroup and one goroutine per handler | `Listen`, `Shutdown`, the workers | goroutines share the struct without locks; `Shutdown` at any time; redelivery of a message whose lock ran out; failing opens; panics and restarts |
| peek lock in time (`message.go`, `receiver.go:172-232`) | deadline of the handler's context, ticker of the renewal goroutine, the lock at the broker | `setTimeout`, `processMessage`, `renewMessageLock` | a renewal or a deadline against the lock's expiry; clock skew; two readings of the clock; failing renewals; a `Shutdown` that ends the renewal under a running handler |
| `azbus.BatchReceiver` (`batchreceiver.go`) | `Receiver`, `Handler`, `Cancel`, `mtx` | `Listen`, `Shutdown`, `Dispose` | `Shutdown` under a running Listen; a second Listen after a failed open; batch size 0; the batch's deadline against the locks |
| `azbus.Sender` (`sender.go`, `azadmin.go`, `azclient.go`) | `sender`, `maxMessageSizeInBytes`, `mtx` | `Open`, `Send`, `SendBatch`, `NewMessageBatch`, `Close` | goroutines open lazily without a lock; a failing open; close during a send |
| blob updates (`azblob/put.go`, `lease.go`, `upload.go`, `accessconditions.go`) | none in the client: the blob, its etag, lease, metadata and tags are at the service | `Put`, `Write`, `AcquireLease`, `ReleaseLease` | racing clients, lost answers, expired leases, cancelled callers, content and tags in separate requests |
| blob listing (`azblob/list.go`) | the marker of the last page, the caller's options slice | `Count`, `FilteredList`, `List` | empty pages, failing requests, slices shared between callers |
| streamed upload (`azblob/upload.go:188-331`, `hashingreader.go`) | the part being read, its hash and size, the number of files so far | `WriteStream` | counting, type detection and hashing read one part, one after the other; size at the limit; several parts; content, metadata and tags in three requests |
| blob reader and delete (`azblob/download.go`, `readresponse.go`, `delete.go`) | none | `Reader`, `Delete` | tags checked in one request, content read in another; error paths |
| `azkeys` (`keyvault.go`, `coseSigner.go`) | the version of the key a signer was made with | `NewKeyVaultCoseSigner`, `PublicKey`, `Sign`, `HashAndSign`, `GetKeyVersionsKeys` | a key rotated between signer, message and signature; a curve that does not fit the hardwired algorithm; a page or key that cannot be read |
| `cose` (`cose.go`, `key.go`, `ec_key.go`, `cnfclaim.go`, `cwt_claims.go`) | the message in memory | build, `SignES256`, encode and decode, `VerifyWithPublicKey`, `VerifyWithCWTPublicKey` | a key that is written in one notation and read in several; which key and algorithm a message is verified with |
| `grpcclient` | the connection | `Open`, `Close` | nothing between dial and hang-up |
| `logger`, `tracing`, `cbor`, `secrets` | globals set at start-up | set-up and wrappers of libraries | nothing a model would reach |
| `azbus/mocks` | - | generated | - |

**Interaction.**  A service makes Receivers and Senders over the same broker;
they share nothing in the process.  A Receiver calls its handlers, which may
call a Sender or a Storer; the only coupling is that a handler's verdict
becomes the settlement of its message.  A Storer keeps no state of its own
between calls: clients of a blob meet at the blob service.

**What correctness means.**
Receiver: no message is twice in the process's hands, each is settled only as
its handler decided, the WaitGroup bookkeeping is exact so that rounds neither
overlap nor hang, handlers run only while open, and Shutdown ends everything.
Peek lock: a handler runs and settles under the lock, or there is a warning, for
as long as no Shutdown has ended the renewal.
Sender: nothing too large is sent, nothing else is refused as too large, no
link is leaked, nothing dereferences nil.  Batch receiver: like the Receiver,
for one handler.  Blob updates: no lost update, no etag won twice, no lease
left behind.  Listing: complete or an error.  Upload and reader: metadata and
tags are those of the content, what an upload reports is true and complete, and
no content is handed out against the tags.  Signing: what is signed verifies,
exactly what was signed is accepted, and listed keys verify what was sent.

## 2. Modules

| Module | Models | Proofs |
|---|---|---|
| `Delivery` | what a peek lock receiver promises, as an abstract specification | |
| `Receiver` | `Listen`, workers, dispositions, `Shutdown`, broker | `ReceiverProofs` (also that `Receiver` implements `Delivery`) |
| `PeekLock` | one message, or one of a batch, with a clock | `PeekLockProofs` |
| `Sender` | the Sender under concurrent callers | `SenderProofs` |
| `BatchReceiver` | the batch receiver | `BatchReceiverProofs` |
| `Counter` | what clients that each add one to the number in a blob are promised, as an abstract specification | |
| `Storer` | clients that update one blob | `StorerProofs` (also that `Storer` implements `Counter`) |
| `Blob` | what services that upload into a blob and read it are promised, as an abstract specification | |
| `Upload` | `WriteStream`, `Reader`, `Delete` on one blob | `UploadProofs` (also that `Upload` implements `Blob`) |
| `Cose` | the key claim of a message, signatures and verification, as operators | with `Signing` |
| `Signing` | the key vault, signers, messages, the listing of key versions; extends `Cose` | `SigningProofs` |
| `Listing` | `Count` and `List` | `ListingProofs` |

`MC*` modules give the instances: configurations, message sizes, symmetry.
Definitions whose comment starts with "Mutant" are plausible bugs of the
definition that follows; no specification uses them.

### Common conventions

* **Grain of a step.**  In Go an unsynchronised read of a field races with
  whoever writes it.  Every read of a shared field (`r.receiver`,
  `r.handlers`, `r.cancel`, `s.sender`, ...) outside the mutex is a step of
  its own, and a check and the use after it are two steps.  `close_` closes the
  link in one step and clears the fields in the next, so a goroutine that still
  sees the old pointer behaves as one that read it before it was cleared.  What
  the Go memory model allows beyond that (a stale value for an unbounded time)
  adds no further behaviour to the Receivers; in `Sender` a stale
  `maxMessageSizeInBytes` is not modelled.
* **A panic** of any goroutine ends the process: `panic` says which kind, and
  no action but those of the outside world is possible after it.
* **External parts** (broker, blob service, callers, handlers, clock) are
  modelled by what the code relies on, and marked external in `map`.
* `CHECK_DEADLOCK FALSE` everywhere: a process that is shut down, has panicked
  or has used up the bounds does stop.

### Receiver and Delivery

`lpc` is where the goroutine in `Listen` is: `open`, `opened` (`r.receiver` is
set, `len(r.handlers)` not yet read), `handlers` (the loop over `Open` of the
handlers), `start` (channel and workers), `call` and `recv`
(before and inside `ReceiveMessages`), `add`/`send` (`wg.Add`, `msgs <-`), back
to `call` through `wg.Wait`.  Each worker has a `wpc`, the message in its hands
`wmsg`, the handler's result `wres` and the renewal goroutine `renew` of its
message.  `spc` is where each caller of `Shutdown` is.  `bst` is where the
broker has a message and `delivery` its last lock token: a settlement takes
effect only with the token of the last delivery.  Expiry, competing consumers
and restarts happen at any time.  A tick of the renewal on a live link changes
nothing here (`PeekLock` has the clock); on a cleared one it panics.

The abstract `Delivery` has only the queue, the set of messages accepted in
this round and the verdicts; the refinement maps pending messages, channel and
workers' hands to the round.  `Promises` says what that comes to: rounds never
overlap, only a message of the round has a verdict, a verdict stands as long as
its message is in the round, and a message is settled only on it and for good.

Not in the model: two Listens at the same time, the tracing context, logging.

### PeekLock

One delivery: the lock is granted for `Lock`; the message waits up to `Wait` in
the channel; the worker then takes it (`Take`: it starts the renewal's
goroutine or sets the deadline) and, within `Gap`, calls the handler
(`ProcessMessage`), as the renewal's goroutine starts its ticker within `Gap`;
calls take at most `Rtt`.  The clock may tick only when nothing is overdue
(`Prompt`): the scheduler runs goroutines in time, an obedient handler returns
when its context ends.  `skew` is how far the process's clock is ahead of the
broker's.  A renewal may fail, though not two in succession.  Which timings
suffice is part of the properties: `RenewalFits` (wait + delay of the start +
as many renewal times as it takes + one call <= lock) and `DeadlineFits`.  With
the defaults of the code (renewal 50 s, lock 60 s, `receiver.go:112-114`) a
renewal that fails once is too late: two renewal times do not fit into one
lock.

`Shutdown` may come at any moment.  It cancels the context from which the
worker's, the handler's and the renewal's derive (`receiver.go:264, 323`): the
renewal ends while the handler may still be at work, nothing renews the lock any
more, and the settlement, which ignores the cancel, may find it lost.  So with
renewal the properties promise the lock until the Shutdown and for `Slack` after
it, the time by which the renewal time is less than what the lock allows.
What `Shutdown` closes besides is in `Receiver`; here it makes calls fail.

The code reads its clock twice: for the time a message may take when the worker
takes it (`message.go:44`), and for the time it took when the handler is about to
be called (`receiver.go:174`).  `taken` and `started` are these two moments.  The
measured time begins late by what lies between them, so a lock lost by less than
that is not warned of; `LossIsWarned` promises the warning from there on.
It leaves out, as the code does, what is never measured (renewal, batches),
and it needs a clock that is not behind and a fixed timeout that fits.

With `batch` the message is one of a batch: it waited until the batch was
complete, its handler gets `BatchDeadline` from then on (`batchreceiver.go:153`)
and nobody measures or renews.  The time in which the batch was collected counts
against the lock like the wait in the channel: `DeadlineFits` asks for room for
that wait and the whole fixed timeout.

### Sender

`Open` is three steps (client, properties, link) after the nil check; `Send`
goes nil check, size check, transmission.  `serial` and `reliable` are chosen
once: callers that take turns or not, a queue whose properties can always be
read or not.  The properties say which of the two each promise needs, and TLC
finds the violation when the condition is dropped: racing Opens leak a link
(`OneLink`), an Open that fails while another has succeeded stores a limit of 0
and every message is refused from then on (`RefusedOnlyTooLarge`), a Close
between check and use panics (`NoPanicInTurn`).  `NewMessageBatch` before any
Open panics even for one caller; that is allowed, for no text promises it.

### BatchReceiver

The same life cycle with one handler, which settles messages itself through
`Dispose`.  The state of messages at the broker makes no difference here and is
left out.  A settlement can panic in two ways: `DisposeNil` is the nil
dereference when `Shutdown` has cleared `r.Receiver`, `DisposeNilErr` the
`err.Error()` of a handler that dead-letters without an error
(`disposition.go:97-99`), before any Shutdown.  `PanicsOnlyInShutdown` excepts
only that misuse, a Shutdown that finds no Listen to cancel, and what a
Shutdown has cleared.  `PeekLock` has the deadline of a batch.

### Storer and Counter

Each client reads a number and writes the next one: the hardest use of the
calls, since a lost update shows as a wrong number for good.  A client with
style `etag` uses `Reader`, then `Put` with `WithEtagMatch` of the etag read
(or none-match `*` for an absent blob); one with style `lease` uses
`AcquireLease`, `Reader`, `Write` with the lease's id and a deferred
`ReleaseLease`.  Every request is one step and may be refused, be lost, or take
effect with its answer lost; `Cancel` cancels the caller's context.  The service
is modelled by four rules: a leased blob refuses a write without its lease's
id, a lease id is refused unless it is held, `If-Match` compares etags, and
every write of content or metadata changes the etag (tags do not).

The abstract `Counter` has the number, the clients in a call that has had no
effect yet, and those that may create the blob.  A call takes effect in one step
(`Increment`), at most once, or gives up; `Wipe` is what remains of the second
finding: a client that acquires a lease on a blob that was missing may empty it.
The refinement hides etags, leases, metadata, tags and lost answers; a call
whose write took effect is over for `Counter`, although it still sets metadata
and tags and releases its lease.

`AcquireLeaseRenewable` and its renewer (`lease.go:47-81`) have no action of
their own: a lease may be refused, and it may expire at any moment or never,
and that contains whatever they do.  Not modelled: conditions on the time of
the last change (`WithModifiedSince` has no effect without a lease or an etag,
`accessconditions.go:12`), an SDK retry that is told "condition not met" about
its own first attempt (it reports a failure for an update that took effect,
which the lost answer covers).  When the blob is missing, `AcquireLease`
returns the error of its first attempt even if the second one failed for
another reason (`lease.go:40-43`); the model does not tell errors apart.

### Upload and Blob

`pc` is where `WriteStream` is: `parts` (the loop over the parts of the
request), `limit` (counting), `detect` (the content type), then the three
requests `upload`, `metadata` and `tags`.  Content is known by its uploader and
its number of bytes, and so is its hash: `left` is what can still be read of
the part and `hashed` what went through the hashing reader, so that a byte that
is read twice, dropped, or hashed before the upload shows in `resp`.  Metadata
is the hash and size in it: the computed ones, over which the caller's own are
merged (`upload.go:313-315`, `WithMetadata`), so that what a caller `says` of
hash or size is stored in place of what was computed (`Label`), true or not;
one whose size is no number (`Garbled`) is stored too, and `Reader` cannot
parse it.  The two keys are one value here: a caller that gives one of them is
taken to give both; mime type and time, which the caller may also replace, are
left out.  Every request may be refused, be lost, or take effect with its
answer lost.  `serial` chooses once whether uploads take turns; `lease` whether
a writer holds the blob's lease.  `Reader` is one or two requests, `rpc`: the
first asks for tags if some are required (`WithTags`) or asked for
(`WithGetTags`).  A download whose condition is not met is an error or, as the
service may answer it, a response with status 304 and neither content nor error
(`notMet`).  `changed` says that the content was replaced since it asked for
the tags.

The abstract `Blob` has content, hash and tag, how far each upload is (`new`,
`stored`, `told` of its success or `over`) and what each reader was given.  An
upload is one step, `Replace`, that `Complete` follows with the hash and the
tag; `Report` tells the caller, and may do so for content that is still there
only if hash (the computed one, or the caller's in its place) and tag are its
own.  `Remove` is a `Delete`, and a reader is answered by one look at the blob.
The refinement hides parts, limits, buffers, leases, Reader's request for tags
and what may fail in between; a request whose answer was lost is a step of the
blob and the end of the upload at once.  From `Blob` alone follow `Labelled`,
`Kept` and `Agreed`, that is `Promised`: while uploads take turns, hash and tag
are those the content's uploader is to have, a reported upload stays complete
until it is replaced, and no reader gets a file with another's hash or of a tag
it excluded.

What the model shows beyond the properties: under a lease `WriteStream` and
`Write` always end in an error, because `setMetadata` sends no lease id; two
uploads that overlap can leave the metadata of one on the content of the other
(hence `serial`); a form without a file gives neither a response nor an error,
and so does `Reader` for metadata it cannot parse (`download.go:121`); a caller
that does not pass `WithSizeLimit` has the limit 0, which refuses everything,
and a file of exactly the limit is refused; a second file is refused when the
first one has replaced the blob.  `download.go:133` asks whether the container
client is nil after it was used; the model has no such state.

### Cose and Signing

A value of a decoded map is its kind and its value (`Text`, `Int64`, `Bstr`,
`Missing`), because the code's type switches are what decides.  `NewCNFClaim`
writes a key and `CNFCoseKey`, `NewECCoseKey` and `PublicKey` read one back,
through the tables of names for labels; `CoseAlgForEC` is the algorithm of a
curve.  A signature records the key, the algorithm and everything it covers, and
verifies only for exactly those: the cryptography is taken to be sound.
`Decoded` is what a reader of the wire has; only such a message has claims of the
types they are read as (`form`).

In `Signing` the vault's key is the sequence of its versions' curves.  A signer
keeps the version it was made with; the message is built with that key's claims
and signed in three steps (the library's checks, `HashAndSign`'s request for the
key, the request to sign), with rotation possible between any two.  `TypeOK` of
`Signing` types messages, digests, the wire and the keys read as well.  A service
may instead sign with a key of its own (`SignES256`).  `Foreign` are messages
other producers could have made.  The listing reads page by page, then key by
key; a version made meanwhile may or may not be on a page that is still to come.
The service is taken to name every version it lists: one without a name would be
skipped without an error (`keyvault.go:145-147`).

What the model shows beyond the properties: the writer's `EC` is not the
standard's `EC2` (`cnfclaim.go:12`), which as text is refused; a key id of bytes is
dropped (`key.go:58` says bstr); a signer can be made for a key on another curve
than P-384, and then never signs; `SignES256` on a message that has a
signature overwrites the header's algorithm before the library refuses it
(`cose.go:371`), and the old signature no longer verifies (`resigned`).

### Listing

The matching blobs stand in a row and a marker is how many of them the pages so
far had.  A page may be empty and still carry a marker.  The marker of the last
page is nil or the empty string (`NextMarker`); `Count` takes both for the end
(`CountStops`), and so, it is assumed, does who calls `List` (`CallerStops`,
external): `list.go:109` speaks of nil only, and an empty marker would ask for
the first page again.  `option` is the last
element of the slice `append(opts, ...)` built, which is one and the same for
callers that pass one slice with room to spare (`shared`).

## 3. Runs

| Run | Instance | Shows |
|---|---|---|
| `rounds` | 2 messages, each delivered up to twice, 2 workers, 2 Listens, failing opens; fair; 447 000 states | types, WaitGroup bookkeeping, rounds as barriers, handlers run only between Open and Close unless a Listen follows a failed Open, no duplicate in flight, settled as decided, every round ends |
| `shutdown_live` | 1 message, 1 worker, 2 Shutdowns, 1 Listen, 1 restart, renewal, handlers that dead-letter without an error; fair; 191 000 states | nothing panics before a Shutdown has cleared the fields but what is misused, a round lacks workers only after a cancel, workers end, Shutdowns return, `Receiver` implements `Delivery` |
| `shutdown_strands_round` | 1 of each; fair | violation: workers leave with messages in the channel, `wg.Wait` never returns |
| `peek_lock` | lock of 8, a Shutdown at any moment, configurations on both sides of every boundary; fair; 2 156 000 states | handled and settled under the lock where the timing fits and, after a Shutdown, for as long as it spares; losses warned of but for the time between the clock's two readings; the renewal goroutine ends |
| `sender` | 2 goroutines, messages of the limit and one more, 2 links; fair; 142 000 states | the Sender's properties |
| `batch` | 3 Listens, 2 Shutdowns, batch sizes 0 and 2; fair; 12 000 states | the batch receiver's properties |
| `storer` | 2 clients, 2 updates each; 790 000 states | no lost update, one winner per etag, no lease left, `Storer` implements `Counter` |
| `lease_truncates` | 2 clients, 1 update each | violation: AcquireLease empties another client's blob |
| `listing` | 2 callers, 3 blobs in pages of up to 2, one empty page; fair; 33 000 states | listings are complete and end |
| `listing_error` | 1 caller | violation: List takes a failed request for the end |
| `upload` | 2 writers with 7 kinds of request, 1 reader with 4 kinds of question, with and without a lease, in turn and at once, callers that give hash and size themselves, readably or not; 146 000 states | metadata is what the content's uploader computed or gave, tags and reports are those of the content, tags guard content, `Upload` implements `Blob` |
| `signing` | 2 signers, 2 curves, 2 versions, 33 foreign messages, 1 listing; 91 000 states | what is signed verifies, exactly what was signed is accepted, a listing is complete |

**Bounds and why they are enough.** Two workers and two messages are enough for
two to overlap, for one to lag a round and for a channel both full and empty;
two deliveries for a lost lock to come back; two Listens for everything a first
one leaves behind; two Shutdowns for both to pass the nil check.  In
`peek_lock` every boundary of the lock time is met exactly and missed by one,
one renewal time leaves one unit of `Slack`, and two units between taking a
message and handling it are enough for an unwarned loss.  In `storer` two
clients race and a second attempt meets what the first left; `MaxListens`,
`MaxDeliveries`, `MaxLinks`, `MaxAttempts`, `MaxEmpty`, `MaxTime` are the only
bounds on time.  In `upload` the files are of sizes below, at and above the
limit, with the file first, last and missing; a second writer is what it takes
to overlap. In `signing` a second version is what it takes for a signer, a
message or a listing to be behind; the foreign messages spell type and curve by
name, by number and wrongly, and leave out one thing at a time.  `Listing`
counts blobs up to `Total + 1`.  What is proved does not depend on any of them.

**Symmetry** is used only in runs without liveness.

**Fairness.**  Weak fairness of each goroutine that can run (the Go scheduler
is preemptive), and of calls to the broker, which return: `ReceiveMessages` only
once its context is cancelled, for it may block for ever on an empty queue.
Strong fairness of the two selects with a `ctx.Done` case: a select chooses at
random among the ready cases (`receiver.go:213, 254`).  In `batch`, strong
fairness of the error of `ReceiveMessages` with a cancelled context, because a
call may still return messages first.  Nobody is obliged to call `Shutdown`,
`Send` or `Close`.  `upload`, `signing` and `storer` state safety only and need
no fairness: a request there may fail, and a caller may give up, at any time.

**Findings** (details in `PROJECT.json`).
1. After a Shutdown a round may never end: the workers stop with messages in
   the channel and `wg.Wait` has no way out (`shutdown_strands_round`).
2. `AcquireLease` creates a missing blob with an unconditional empty write and
   so may undo another client's update (`lease_truncates`).
3. `List` reports a failed request as the last page (`listing_error`).

The model also shows, without a text of the repository that says otherwise:
`Shutdown` does not wait for the workers, and one that is busy dereferences what
`close_` has cleared (the exception in `NoPanic`: drop it and TLC shows the
panic in `shutdown_live`);
a Listen that ends with an error leaves its workers running and a second Listen
overwrites the only function that could cancel them (`stranded` counts them);
after a failed `Open` of a handler the next Listen runs the handlers unopened
(the exception in `HandlerOpen`, `HandlerOpened`).

## 4. Proofs

All theorems are for every value of the constants, from the named assumptions
of each module (`ConstantsAssumption`, `LockAssumption`, `SenderAssumption`,
`BatchAssumption`, `StorerAssumption`, `UploadAssumption`, `SigningAssumption`,
`ForeignAssumption`, `ListingAssumption`), which only type the constants and
keep `None` apart (in `UploadAssumption` also the sizes that are no numbers);
`ForeignAssumption` says in addition that a foreign message has at most one key
and one signature, and a signature one key.

* **ReceiverProofs.** `TypeInv` adds to `TypeOK` that a busy worker has a
  message and a deciding one a result.  `RoundInv` adds to `WaitGroupBalance`
  where the round stands: outside the hand-over loop the counter is zero and
  nothing is pending, inside it pending, channel and busy workers together are
  at most `nrecv`.  `WaitGroupBalance` alone is not inductive: that a new round
  finds the channel empty and `msgs <-` room needs both facts.  `Barrier` and
  `SendNeverBlocks` follow from it. `NoDuplicateInFlight` follows by induction
  from it: a receive adds only messages to an empty round.  `DecidedInv` adds
  to `SettledAsDecided` that the result in a worker's hands is in `verdicts`,
  under the lock it holds.  The cardinality of the set of busy workers is
  counted with the lemmas `BusyMore`, `BusyLess`, `BusySame`.  `Steady` is what
  holds until a Shutdown has cleared the fields, however many are on their way:
  no field is taken away, and without a receiver nothing runs that would use
  it, neither a worker nor a Shutdown past the nil check; `NoPanic` follows.
  `OpenInv` relates `r.receiver` to the opens: a set `r.receiver` means that
  every handler was opened, and closed since only by a Shutdown, or that an
  Open failed, and workers run only past the opens; `HandlerOpen` follows for
  any callers of Shutdown.  `Staffed` says that from the start of the workers
  to the cancel of their context there are as many as the channel has room for;
  with `RoundInv` it gives `RoundMoves`: only a cancel can leave `wg.Wait` with
  messages nobody will process.  `CloseExclusive` is inductive with the types.
  The refinement: every step of `Receiver` is a step of `Delivery` or a
  stutter, from the conjunction `RefInv` of these invariants: a receive is
  `Accept`, the handler's return `Decide`, a settlement `Settle` or `Elsewhere`
  or a stutter, `wg.Done` is `Finish`, a restart `Forget`.
  `ReceiverKeepsPromises` proves `Promises` of `Delivery` and carries it over
  to the receiver.
* **PeekLockProofs.**  `RenewInv` bounds the next tick against the lock: between
  renewals the lock lasts for the time to the next tick, one call, if a
  renewal may still fail one more renewal time, and `Slack` (`Spare`, `Ahead`).
  A Shutdown freezes that: from then on the lock lasts until `stoppedAt + Slack`
  at least, whatever the renewal still does, and a lock that is lost was lost
  after its end.  `DeadlineInv` and `WarnInv` relate deadline, the two clock
  readings and the lock: what is measured began at most `started - taken` late.
* **SenderProofs.**  `Single` (one caller inside at a time, if callers take
  turns), `Limits` (the limit is 0 or the queue's, and the queue's once a link
  is there), `Opened` (who is past Open has a sender, in turn) and `Owned`
  (every open link is `s.sender` or one whose Close failed, in turn).
  `MutexHeld`, proved from the types alone, holds in every interleaving.
* **BatchReceiverProofs.**  `Closed` (the mutex is held from the lock to the
  clear, and a handler that was closed is unset or about to be), `OpenedFirst`
  (between two opens a set `r.Receiver` means an opened handler, or one whose
  Open failed and ended its Listen) and `Undisturbed` (until a Shutdown has unset
  the handler the fields are what open made them, and a Shutdown past the nil
  check has a receiver to close).  `closes <= 1` alone is not inductive: a
  second Shutdown could be about to close.
* **StorerProofs.**  `Leased` (who holds the lease may write), `Fresh` (what a
  client that may still write has seen is what the blob has), `Won` (etags won
  are older than the blob's), `Whole`, `Counted`.  `StorerImplementsCounter` maps
  each request to a step of `Counter`; that a write adds exactly one to the number
  is where it needs `Fresh`: what an accepted Put or Write has read is still what
  the blob has.
* **UploadProofs.** `Locals` follows one writer through a part: what is left to
  read is the whole file and nothing is hashed until the upload, and a response
  is the file.  `Stored` (the content is a whole file of its writer),
  `OneActive` and `Progress` (what the upload under way has stored so far, if
  uploads take turns), `Unread` and `Known` (between its two requests Reader
  knows whose blob it is, or the blob changed).  The properties need them: that
  metadata is of the content or what its uploader gave instead (`Label`) is
  preserved by `SetMetadata` only because the response is what the same writer
  stored, and nobody wrote in between. `UploadImplementsBlob` maps the
  content's request to `Replace` (`CommitRefines`), the other two to
  `Complete`, the end of the form to `Report`, where `Progress` says that the
  content is complete, and a reader's last request to its answer, where
  `Unread` says that it had none.  `UploadKeepsPromises` proves `Promised` of
  every behaviour of `Blob` and carries it over.
* **SigningProofs.**  `Staged` says what a signer's message is at each stage of
  building and signing, in terms of the version the signer was made with;
  `WireSigned` that what is on the wire was signed so; `Listed` that the keys
  read, the one being read and the pages to come together have every version
  that signed something before the listing began; `SignerWrites` and `MessageType`
  that what a signer builds is a message.  Versions are only appended
  (`Rotate`), so what a signer or a listing knew stays true.  Acceptance of
  foreign messages follows from facts about the operators of `Cose`: what
  `NewCNFClaim` writes is read back as the same key (`ClaimIsRead`), a signed
  message verifies before and after it was encoded (`SignedIsVerified`), and a
  claim is read as a key exactly if it holds it.
* **ListingProofs.** `ListingInv`: what a caller of its own options has counted
  is what its marker says, it asks for the next page with that marker, and it
  stops without an error only at the end or after a failure it was not told of.
  `CountComplete` and `ListComplete` follow, and `PagesBringNearer`: every page
  ends the listing or lowers `Left`, the blobs and empty pages still to come.

**Only model-checked:** every liveness property (`WaitGroupResets`, `WorkersEnd`,
`ShutdownReturns`, `RenewalEnds`, `CallsReturn`, `ListenReturns`,
`ListingEnds`), which is out of the prover's reach: weak and strong fairness are
stated with ENABLED.  What of them is safety is proved: `RoundMoves` for
`WaitGroupResets`, `CloseExclusive` and the two `MutexHeld` for the Shutdowns and
Closes that return (who waits for a mutex waits for a goroutine that is between
lock and unlock), `PagesBringNearer` for `ListingEnds`.  Every safety property,
action property and refinement that a run checks is a theorem.

## 5. Plan

What could follow, in order of worth:

1. Two Listens at the same time on one Receiver, which the code does not
   exclude and no text allows.
2. RSA keys in `Cose`, once the code constructs any.

## 6. Not modelled

* Constructors, credentials, options, wrappers of errors, logging and tracing:
  set once at start-up, or no state at all.  (`tracing.go:108` reads the
  last but one part of a pod name and would panic for a name of five characters
  without a dash.)
* `grpcclient`: `Open` dials and `Close` hangs up, by one owner; what happens to
  the connection in between is a library's.
* Secrets of the key vault and of the file system: single requests, or one page
  after the other as in the listing of key versions.
* RSA keys in `cose`: `cwt_claims.go:87-89` refuses them.  Plain getters of
  header values, and values of a null type.
* Encoding and cryptography (libraries), `cbor`'s codec options, the mocks
  (generated), the Azure SDK and services beyond what is said above.
* Conditions on the time of a blob's last change; the fields of a response that
  are only copied (times, status texts, scan status).

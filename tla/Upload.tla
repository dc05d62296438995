------------------------------- MODULE Upload -------------------------------
(***************************************************************************)
(* One blob that services stream uploads into (WriteStream, azblob/        *)
(* upload.go), read (Reader, azblob/download.go) and delete.  WriteStream  *)
(* walks through the parts of a multipart request and stores content,      *)
(* metadata and tags in three requests to the blob service; Reader asks    *)
(* for tags, metadata and content in up to two.  Every request is a step.  *)
(***************************************************************************)
EXTENDS Integers, Sequences

CONSTANTS
    Writers, Readers,
    Tags,           \* values of the tag that says whose blob it is
    None,
    Claims,         \* hashes and sizes that callers may give themselves
    Garbled,        \* those of them whose size is not a number
    Requests,       \* what callers of WriteStream send
    Options         \* what callers of Reader ask for

\* A part of a form: a file, of some size and with its content type or
\* not, or another field.
Part == [file : BOOLEAN, size : Nat, typed : BOOLEAN]

\* form:  the request has content and is a multipart form
\* limit: WithSizeLimit, -1 for none and 0 if the option is not given
\* tag:   WithTags
\* says:  WithMetadata, the hash or size in it, or None if it has neither
Request == [form : BOOLEAN, parts : Seq(Part), limit : Int,
            tag : Tags \cup {None}, says : Claims \cup {None}]

\* want:  WithTags, a tag the blob must have
\* where: WithWhereTags, the same as a condition of the download
\* tags:  WithGetTags
\* mode:  WithGetMetadata
Option == [want : Tags \cup {None}, where : Tags \cup {None},
           tags : BOOLEAN, mode : {"no", "only", "both"}]

\* Content, and its hash and size, is known by who sent it and how many
\* bytes there are.
Bytes == [by : Writers, n : Nat]

ASSUME UploadAssumption ==
    /\ Requests \subseteq Request /\ Options \subseteq Option
    /\ None \notin Tags /\ None \notin Bytes /\ None \notin Claims
    /\ Garbled \subseteq Claims /\ \A c \in Garbled : c \notin Bytes

VARIABLES
    req, opt,       \* of each writer and each reader
    serial,         \* uploads take turns
    lease,          \* the writer that holds the blob's lease, or None
    data, meta, tag, \* the blob: its content, the hash and size in its
                    \* metadata, its tag
    pc, part, files, \* WriteStream: next step, current part, numFiles
    left, hashed,   \* bytes left in uploadData.part, bytes hashed
    resp,           \* the response: the bytes hashed, or None
    result,         \* none, ok, nothing, tooLarge, error
    rpc, rtag,      \* Reader: next step, the tag it was told
    got,            \* what it returned: content, hash and tag
    rresult,        \* none, ok, nothing, notMet, error
    changed         \* the content changed since Reader asked for the tags

config == <<req, opt, serial, lease>>
blob == <<data, meta, tag>>
writing == <<pc, part, files, left, hashed, resp, result>>
reading == <<rpc, rtag, got, rresult>>
vars == <<config, blob, writing, reading, changed>>

Content == Bytes \cup {None}
Hash == Content \cup Claims

TypeOK ==
    /\ req \in [Writers -> Requests] /\ opt \in [Readers -> Options]
    /\ serial \in BOOLEAN /\ lease \in Writers \cup {None}
    /\ data \in Content /\ meta \in Hash /\ tag \in Tags \cup {None}
    /\ pc \in [Writers -> {"idle", "parts", "limit", "detect", "upload",
                           "metadata", "tags", "done"}]
    /\ part \in [Writers -> Nat] /\ files \in [Writers -> Nat]
    /\ left \in [Writers -> Nat] /\ hashed \in [Writers -> Nat]
    /\ resp \in [Writers -> Content]
    /\ result \in [Writers -> {"none", "ok", "nothing", "tooLarge", "error"}]
    /\ rpc \in [Readers -> {"tags", "metadata", "download", "done"}]
    /\ rtag \in [Readers -> Tags \cup {None}]
    /\ got \in [Readers -> [data : Content, hash : Hash, tag : Tags \cup {None}]]
    /\ rresult \in [Readers -> {"none", "ok", "nothing", "notMet", "error"}]
    /\ changed \in [Readers -> BOOLEAN]

\* Where Reader begins: it asks for tags if some are required or asked for.
FirstRequest(o) == IF o.want # None \/ o.tags THEN "tags"
                   ELSE IF o.mode = "only" THEN "metadata" ELSE "download"

Init ==
    /\ req \in [Writers -> Requests] /\ opt \in [Readers -> Options]
    /\ serial \in BOOLEAN /\ lease \in Writers \cup {None}
    /\ data = None /\ meta = None /\ tag = None
    /\ pc = [w \in Writers |-> "idle"] /\ part = [w \in Writers |-> 0]
    /\ files = [w \in Writers |-> 1]
    /\ left = [w \in Writers |-> 0] /\ hashed = [w \in Writers |-> 0]
    /\ resp = [w \in Writers |-> None] /\ result = [w \in Writers |-> "none"]
    /\ rpc = [r \in Readers |-> FirstRequest(opt[r])]
    /\ rtag = [r \in Readers |-> None]
    /\ got = [r \in Readers |-> [data |-> None, hash |-> None, tag |-> None]]
    /\ rresult = [r \in Readers |-> "none"]
    /\ changed = [r \in Readers |-> FALSE]

-----------------------------------------------------------------------------
(* WriteStream, up to the upload: steps of the writer alone *)

Goto(w, from, to) == pc[w] = from /\ pc' = [pc EXCEPT ![w] = to]

Return(w, from, r) ==
    /\ Goto(w, from, "done")
    /\ result' = [result EXCEPT ![w] = r]
    /\ UNCHANGED <<part, files, left, hashed, resp>>

Outside == UNCHANGED <<config, blob, reading, changed>>

Current(w) == req[w].parts[part[w]]

\* The container and the request are checked first.
Start(w) ==
    /\ serial => \A v \in Writers : pc[v] \in {"idle", "done"}
    /\ req[w].form /\ Goto(w, "idle", "parts")
    /\ UNCHANGED <<part, files, left, hashed, resp, result>>
    /\ Outside

StartFails(w) == Return(w, "idle", "error") /\ Outside

\* The end of the request; resp is still nil if no part was a file.
LastPart(w) ==
    /\ pc[w] = "parts" /\ part[w] = Len(req[w].parts)
    /\ Return(w, "parts", IF resp[w] = None THEN "nothing" ELSE "ok")
    /\ Outside

\* Whatever the part is, a second one after the file is refused, or the
\* part cannot be read.
PartRefused(w) == Return(w, "parts", "error") /\ Outside

\* A field that is not a file is skipped.
SkipPart(w) ==
    /\ pc[w] = "parts" /\ part[w] < Len(req[w].parts) /\ files[w] = 1
    /\ ~req[w].parts[part[w] + 1].file
    /\ part' = [part EXCEPT ![w] = @ + 1]
    /\ UNCHANGED <<pc, files, left, hashed, resp, result>> /\ Outside

\* A file: a hashing reader on the part.
FilePart(w) ==
    /\ pc[w] = "parts" /\ part[w] < Len(req[w].parts) /\ files[w] = 1
    /\ req[w].parts[part[w] + 1].file
    /\ pc' = [pc EXCEPT ![w] = "limit"]
    /\ part' = [part EXCEPT ![w] = @ + 1]
    /\ left' = [left EXCEPT ![w] = req[w].parts[part[w] + 1].size]
    /\ hashed' = [hashed EXCEPT ![w] = 0]
    /\ UNCHANGED <<files, resp, result>> /\ Outside

\* A file of exactly the limit is refused.
WithinLimit(w) == req[w].limit < 0 \/ Current(w).size < req[w].limit

\* Mutant: the part that was read to be counted is read again.
BufferNot(w) == IF req[w].limit < 0 THEN left[w] ELSE 0

\* Counting reads the part to its end; the bytes are kept in a buffer.
Buffer(w) == left[w]

CheckLimit(w) ==
    /\ pc[w] = "limit" /\ WithinLimit(w)
    /\ Goto(w, "limit", IF Current(w).typed THEN "upload" ELSE "detect")
    /\ left' = [left EXCEPT ![w] = Buffer(w)]
    /\ UNCHANGED <<part, files, hashed, resp, result>> /\ Outside

TooLarge(w) ==
    /\ pc[w] = "limit" /\ ~WithinLimit(w)
    /\ Return(w, "limit", "tooLarge")
    /\ Outside

\* Mutant: the detector reads through the hashing reader.
DetectHashed(w) ==
    /\ Goto(w, "detect", "upload")
    /\ hashed' = [hashed EXCEPT ![w] = left[w]]
    /\ UNCHANGED <<part, files, left, resp, result>> /\ Outside

\* The bytes the detector has read are put in front of the rest: nothing is
\* lost, and nothing is hashed yet.
Detect(w) ==
    /\ Goto(w, "detect", "upload")
    /\ UNCHANGED <<part, files, left, hashed, resp, result>> /\ Outside

\* The part cannot be read.
ReadPartFails(w) ==
    /\ \/ Return(w, "detect", "error")
       \/ req[w].limit >= 0 /\ Return(w, "limit", "error")
    /\ Outside

-----------------------------------------------------------------------------
(* The three requests of an upload.  Only the first carries the lease; a    *)
(* request fails without effect or with its answer lost.                    *)

\* The service lets a request write a leased blob only with the lease.
MayWrite(l) == lease = None \/ lease = l

\* New content replaces the blob: it has no metadata and no tags.
SetContent(d) ==
    /\ data' = d /\ meta' = None /\ tag' = None
    /\ changed' = [r \in Readers |-> changed[r] \/ rpc[r] \in {"metadata", "download"}]

\* The hashing reader hashes what it gives the service.
Hashed(w) == hashed[w] + left[w]

\* resp is made from the hash.
Commit(w) ==
    /\ MayWrite(w)
    /\ Goto(w, "upload", "metadata")
    /\ SetContent([by |-> w, n |-> left[w]])
    /\ hashed' = [hashed EXCEPT ![w] = Hashed(w)]
    /\ resp' = [resp EXCEPT ![w] = [by |-> w, n |-> Hashed(w)]]
    /\ left' = [left EXCEPT ![w] = 0]
    /\ UNCHANGED <<part, files, result, config, reading>>

CommitFails(w) ==
    /\ Return(w, "upload", "error")
    /\ \/ UNCHANGED <<blob, changed>>
       \/ MayWrite(w) /\ SetContent([by |-> w, n |-> left[w]])
    /\ UNCHANGED <<config, reading>>

\* The hash and size of a writer's content d in its metadata: the caller's
\* metadata is merged over the computed one.
Label(w, d) == IF req[w].says = None THEN d ELSE req[w].says

SetMetadata(w) ==
    /\ MayWrite(None) /\ data # None
    /\ Goto(w, "metadata", "tags")
    /\ meta' = Label(w, resp[w])
    /\ UNCHANGED <<data, tag, part, files, left, hashed, resp, result>>
    /\ UNCHANGED <<config, reading, changed>>

\* The tags are set also when there are none; the file is counted.
SetTags(w) ==
    /\ MayWrite(None) /\ data # None
    /\ Goto(w, "tags", "parts")
    /\ files' = [files EXCEPT ![w] = @ + 1]
    /\ tag' = req[w].tag
    /\ UNCHANGED <<data, meta, part, left, hashed, resp, result>>
    /\ UNCHANGED <<config, reading, changed>>

\* Mutant: the tags are set whether the metadata could be set or not.
SetMetadataIgnored(w) ==
    /\ Goto(w, "metadata", "tags")
    /\ UNCHANGED <<part, files, left, hashed, resp, result>>
    /\ Outside

SetMetadataFails(w) ==
    /\ Return(w, "metadata", "error")
    /\ \/ UNCHANGED meta
       \/ MayWrite(None) /\ data # None /\ meta' = Label(w, resp[w])
    /\ UNCHANGED <<data, tag, config, reading, changed>>

SetTagsFails(w) ==
    /\ Return(w, "tags", "error")
    /\ \/ UNCHANGED tag
       \/ MayWrite(None) /\ data # None /\ tag' = req[w].tag
    /\ UNCHANGED <<data, meta, config, reading, changed>>

\* Delete: it has no lease; a blob that is not there counts as deleted.
Delete ==
    /\ MayWrite(None) /\ data # None
    /\ SetContent(None)
    /\ UNCHANGED <<config, writing, reading>>

-----------------------------------------------------------------------------
(* Reader *)

Answer(r, from, res, g) ==
    /\ rpc[r] = from
    /\ rpc' = [rpc EXCEPT ![r] = "done"]
    /\ rresult' = [rresult EXCEPT ![r] = res]
    /\ got' = [got EXCEPT ![r] = g]
    /\ UNCHANGED <<rtag, config, blob, writing, changed>>

\* Mutant: a tag the blob does not have is not compared.
TagsMatchIfThere(r) == opt[r].want = None \/ tag \in {opt[r].want, None}

\* The required tag is on the blob, with the required value.
TagsMatch(r) == opt[r].want = None \/ tag = opt[r].want

GetTags(r) ==
    /\ rpc[r] = "tags" /\ data # None /\ TagsMatch(r)
    /\ rpc' = [rpc EXCEPT ![r] = IF opt[r].mode = "only" THEN "metadata"
                                ELSE "download"]
    /\ rtag' = [rtag EXCEPT ![r] = tag]
    /\ changed' = [changed EXCEPT ![r] = FALSE]
    /\ UNCHANGED <<got, rresult, config, blob, writing>>

\* The blob is not there or another's, or the request fails.
GetTagsRefused(r) == Answer(r, "tags", "error", got[r])

\* What is read from the metadata: nothing if its size is not there or not
\* a number.
Parsed == IF meta \in Garbled THEN None ELSE meta

\* Metadata that cannot be parsed: Reader returns neither a response nor an
\* error.
GetMetadata(r) ==
    /\ data # None
    /\ Answer(r, "metadata", IF Parsed = None THEN "nothing" ELSE "ok",
              [data |-> None, hash |-> Parsed, tag |-> rtag[r]])

GetMetadataFails(r) == Answer(r, "metadata", "error", got[r])

\* The service downloads a blob only if its tags are as the condition asks.
Where(r) == opt[r].where = None \/ tag = opt[r].where

\* The answer has the content with its metadata, which is parsed only on
\* request; metadata that cannot be parsed is no error.
Download(r) ==
    /\ data # None /\ Where(r)
    /\ Answer(r, "download", "ok",
              [data |-> data, tag |-> rtag[r],
               hash |-> IF opt[r].mode = "both" THEN Parsed ELSE None])

\* A read whose condition is not met may be answered without an error, by a
\* response with status 304 and no content.
DownloadNotMet(r) ==
    /\ data # None /\ ~Where(r)
    /\ Answer(r, "download", "notMet",
              [data |-> None, hash |-> None, tag |-> rtag[r]])

\* The blob is not there, the condition is an error (ConditionNotMet), or the
\* request fails.
DownloadFails(r) == Answer(r, "download", "error", got[r])

-----------------------------------------------------------------------------
Write(w) ==
    \/ Start(w) \/ StartFails(w) \/ LastPart(w) \/ PartRefused(w)
    \/ SkipPart(w) \/ FilePart(w) \/ CheckLimit(w) \/ TooLarge(w)
    \/ Detect(w) \/ ReadPartFails(w)
    \/ Commit(w) \/ CommitFails(w) \/ SetMetadata(w) \/ SetMetadataFails(w)
    \/ SetTags(w) \/ SetTagsFails(w)

Reader(r) ==
    \/ GetTags(r) \/ GetTagsRefused(r) \/ GetMetadata(r)
    \/ GetMetadataFails(r)
    \/ Download(r) \/ DownloadNotMet(r) \/ DownloadFails(r)

Next == (\E w \in Writers : Write(w)) \/ Delete \/ (\E r \in Readers : Reader(r))

Spec == Init /\ [][Next]_vars

-----------------------------------------------------------------------------
(* Properties *)

\* Whatever fails and wherever an upload stops, the metadata of a blob is
\* the hash and size of its content, or what the content's uploader put in
\* their place (upload.go:313-315), and its tag is that uploader's, if
\* uploads take turns: they are stored in requests of their own and by
\* nobody else in between (upload.go:293-323).
MetadataIsOfContent ==
    serial => /\ meta # None => data # None /\ meta = Label(data.by, data)
              /\ tag # None => data # None /\ tag = req[data.by].tag

\* The file of a request, if it has one.
FileSizes(w) == {req[w].parts[i].size :
                    i \in {j \in 1..Len(req[w].parts) : req[w].parts[j].file}}

\* A caller that was told its upload is done finds it complete, content,
\* metadata and tag, as long as nobody replaced or deleted it.
StoredWhole ==
    serial => \A w \in Writers :
        result[w] = "ok" /\ data # None /\ data.by = w =>
            data = resp[w] /\ meta = Label(w, resp[w]) /\ tag = req[w].tag

\* What WriteStream reports without an error, and what it stored, is the
\* whole file of the request, under the limit, whoever else uploads, with
\* the counting and the detector having read from the part before the
\* upload did (upload.go:252-302), and complete while uploads take turns.
ReportIsTrue ==
    /\ StoredWhole
    /\ \A w \in Writers :
         /\ result[w] = "ok" =>
              /\ \E n \in FileSizes(w) : resp[w] = [by |-> w, n |-> n]
              /\ req[w].limit >= 0 => resp[w].n < req[w].limit
         /\ data # None /\ data.by = w => data.n \in FileSizes(w)

\* Reader returns content only from an uploader of the required tag, unless
\* the blob was written between its two requests (download.go:98); if the
\* tag is a condition of the download, also then.
TagGuard ==
    serial => \A r \in Readers :
        LET by == req[got[r].data.by].tag IN
        rresult[r] = "ok" /\ got[r].data # None =>
            /\ opt[r].want # None => by = opt[r].want \/ changed[r]
            /\ opt[r].where # None => by = opt[r].where

-----------------------------------------------------------------------------
(* WriteStream, Reader and Delete implement Blob *)

FilesOf(w) == {[by |-> w, n |-> n] : n \in FileSizes(w)}

\* Where an upload is as far as the blob goes.
Stage(w) ==
    IF pc[w] = "done" THEN (IF result[w] = "ok" THEN "told" ELSE "over")
    ELSE IF resp[w] = None THEN "new" ELSE "stored"

Object == INSTANCE Blob
    WITH turns <- serial, content <- data, hash <- meta,
         files <- [w \in Writers |-> FilesOf(w)],
         owner <- [w \in Writers |-> req[w].tag],
         says <- [w \in Writers |-> req[w].says],
         asked <- [r \in Readers |-> opt[r].where],
         upload <- [w \in Writers |-> Stage(w)],
         answer <- [r \in Readers |-> [result |-> rresult[r],
                                       data |-> got[r].data,
                                       hash |-> got[r].hash]]

\* With parts, limits, buffers, detection, leases, three requests per upload
\* and two per read, each of which may fail or lose its answer, the blob is
\* what Blob says (upload.go:188-331, download.go:51-171, delete.go).
ImplementsBlob == Object!Spec

=============================================================================

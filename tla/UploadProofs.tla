---------------------------- MODULE UploadProofs ----------------------------
(***************************************************************************)
(* The safety properties of Upload for any number of writers and readers,  *)
(* any requests and any limits.                                            *)
(***************************************************************************)
EXTENDS Upload, TLAPS

\* What is left of the current part, and what was hashed of it, before the
\* upload; what the response says after it.
Local(w) ==
    /\ part[w] <= Len(req[w].parts) /\ files[w] >= 1
    /\ pc[w] = "idle" => part[w] = 0 /\ files[w] = 1 /\ resp[w] = None
    /\ pc[w] \in {"limit", "detect", "upload"} =>
         /\ part[w] \in 1..Len(req[w].parts) /\ Current(w).file
         /\ left[w] = Current(w).size /\ hashed[w] = 0
         /\ files[w] = 1 /\ resp[w] = None
    /\ pc[w] \in {"detect", "upload"} => WithinLimit(w)
    /\ pc[w] \in {"metadata", "tags"} => resp[w] # None
    /\ pc[w] = "parts" => (files[w] = 1 <=> resp[w] = None)
    /\ resp[w] # None =>
         /\ \E n \in FileSizes(w) : resp[w] = [by |-> w, n |-> n]
         /\ req[w].limit >= 0 => resp[w].n < req[w].limit
    /\ result[w] = "ok" => pc[w] = "done" /\ resp[w] # None

Locals == \A w \in Writers : Local(w)

\* The content is a writer's whole file.
Owns(w) == data # None /\ data.by = w

Stored == \A w \in Writers : Owns(w) => data.n \in FileSizes(w)

Active(w) == pc[w] \notin {"idle", "done"}

OneActive == serial => \A v, w \in Writers : Active(v) /\ Active(w) => v = w

\* What an upload under way, or one that was told it is done, has stored.
StoredBy(w) ==
    /\ pc[w] \in {"metadata", "tags"} /\ data # None => data = resp[w]
    /\ pc[w] = "tags" /\ data # None => meta = Label(w, resp[w])
    /\ Owns(w) /\ (result[w] = "ok" \/ (pc[w] = "parts" /\ files[w] # 1)) =>
         data = resp[w] /\ meta = Label(w, resp[w]) /\ tag = req[w].tag

Progress == serial => \A w \in Writers : StoredBy(w)

\* Reader returns once; until then it has nothing.
Unread == \A r \in Readers :
    rpc[r] # "done" =>
        rresult[r] = "none" /\ got[r].data = None /\ got[r].hash = None

\* Between its requests Reader knows whose blob it is, or the blob changed.
Known == serial =>
    \A r \in Readers :
        rpc[r] \in {"metadata", "download"} /\ opt[r].want # None =>
            \/ changed[r]
            \/ data # None /\ req[data.by].tag = opt[r].want

Inv == /\ TypeOK /\ Locals /\ Stored /\ OneActive /\ Progress
       /\ MetadataIsOfContent /\ Unread /\ Known /\ TagGuard

LEMMA RequestType ==
    ASSUME TypeOK, NEW w \in Writers
    PROVE  /\ req[w].parts \in Seq(Part) /\ Len(req[w].parts) \in Nat
           /\ req[w].limit \in Int /\ req[w].tag \in Tags \cup {None}
           /\ req[w].says \in Claims \cup {None}
           /\ \A i \in 1..Len(req[w].parts) : req[w].parts[i] \in Part
  <1>1. req[w] \in Request
    BY UploadAssumption DEF TypeOK
  <1>2. req[w].parts \in Seq(Part)
    BY <1>1 DEF Request
  <1> QED
    BY <1>1, <1>2 DEF Request

\* What is stored as the hash and size of some content.
LEMMA LabelType ==
    ASSUME TypeOK, NEW w \in Writers, NEW d \in Content
    PROVE  /\ Label(w, d) \in Hash
           /\ d # None => Label(w, d) # None
  BY RequestType, UploadAssumption DEF Label, Hash

LEMMA OptionType ==
    ASSUME TypeOK, NEW r \in Readers
    PROVE  /\ opt[r].want \in Tags \cup {None}
           /\ opt[r].where \in Tags \cup {None}
           /\ opt[r].tags \in BOOLEAN
           /\ opt[r].mode \in {"no", "only", "both"}
  BY UploadAssumption DEF TypeOK, Option

\* The current part is one of the request's files.
LEMMA CurrentFile ==
    ASSUME TypeOK, NEW w \in Writers, Local(w),
           pc[w] \in {"limit", "detect", "upload"}
    PROVE  Current(w).size \in FileSizes(w) /\ Current(w).size \in Nat
  <1>1. part[w] \in 1..Len(req[w].parts) /\ Current(w).file
    BY DEF Local
  <1>2. req[w].parts[part[w]] \in Part
    BY <1>1, RequestType
  <1> QED
    BY <1>1, <1>2 DEF Current, FileSizes, Part

LEMMA InvInit == Init => Inv
  <1> SUFFICES ASSUME Init PROVE Inv
    OBVIOUS
  <1>1. TypeOK
    BY DEF Init, TypeOK, Content, Hash, FirstRequest
  <1>2. ASSUME NEW w \in Writers PROVE Local(w)
    <2>1. Len(req[w].parts) \in Nat
      BY <1>1, RequestType
    <2> QED
      BY <2>1 DEF Init, Local
  <1>3. Stored /\ OneActive /\ Progress /\ MetadataIsOfContent /\ TagGuard
    BY <1>1 DEF Init, TypeOK, Stored, OneActive, Progress, StoredBy, Owns,
       Active, MetadataIsOfContent, TagGuard
  <1>4. Unread /\ Known
    BY DEF Init, Unread, Known, FirstRequest
  <1> QED
    BY <1>1, <1>2, <1>3, <1>4 DEF Inv, Locals

LEMMA TypeStep == Inv /\ [Next]_vars => TypeOK'
  <1> SUFFICES ASSUME Inv, [Next]_vars PROVE TypeOK'
    OBVIOUS
  <1> USE DEF TypeOK, Content, Hash, config, blob, writing, reading
  <1> TypeOK /\ Locals
    BY DEF Inv
  <1>u. CASE UNCHANGED vars
    BY <1>u DEF vars, config, blob, writing, reading
  <1>d. CASE Delete
    BY <1>d DEF Delete, SetContent
  <1>w. ASSUME NEW w \in Writers, Write(w) PROVE TypeOK'
    <2>1. CASE Start(w)
      BY <2>1 DEF Start, Goto, Outside
    <2>2. CASE StartFails(w)
      BY <2>2 DEF StartFails, Goto, Return, Outside
    <2>3. CASE LastPart(w)
      BY <2>3 DEF LastPart, Goto, Return, Outside
    <2>4. CASE PartRefused(w)
      BY <2>4 DEF PartRefused, Goto, Return, Outside
    <2>5. CASE SkipPart(w)
      <3>1. part' \in [Writers -> Nat]
        BY <2>5 DEF SkipPart
      <3> QED
        BY <2>5, <3>1 DEF SkipPart, Outside
    <2>6. CASE FilePart(w)
      <3>1. req[w].parts[part[w] + 1] \in Part /\ part[w] + 1 \in Nat
        BY <2>6, RequestType DEF FilePart
      <3>2. req[w].parts[part[w] + 1].size \in Nat
        BY <3>1 DEF Part
      <3>3. /\ part' \in [Writers -> Nat] /\ left' \in [Writers -> Nat]
            /\ hashed' \in [Writers -> Nat]
        BY <2>6, <3>1, <3>2 DEF FilePart
      <3>4. pc' \in [Writers -> {"idle", "parts", "limit", "detect", "upload",
                                "metadata", "tags", "done"}]
        BY <2>6 DEF FilePart
      <3> QED
        BY <2>6, <3>3, <3>4 DEF FilePart, Outside, config, blob, reading
    <2>7. CASE CheckLimit(w)
      BY <2>7 DEF CheckLimit, Goto, Buffer, Outside
    <2>8. CASE TooLarge(w)
      BY <2>8 DEF TooLarge, Goto, Return, Outside
    <2>9. CASE Detect(w)
      BY <2>9 DEF Detect, Goto, Outside
    <2>10. CASE ReadPartFails(w)
      BY <2>10 DEF ReadPartFails, Goto, Return, Outside
    <2>11. CASE Commit(w)
      <3>1. /\ [by |-> w, n |-> left[w]] \in Bytes
            /\ [by |-> w, n |-> Hashed(w)] \in Bytes
        BY DEF Bytes, Hashed
      <3> QED
        BY <2>11, <3>1 DEF Commit, Goto, SetContent, Hashed
    <2>12. CASE CommitFails(w)
      <3>1. [by |-> w, n |-> left[w]] \in Bytes
        BY DEF Bytes
      <3> QED
        BY <2>12, <3>1 DEF CommitFails, Goto, Return, SetContent
    <2>13. CASE SetMetadata(w)
      BY <2>13, LabelType DEF SetMetadata, Goto
    <2>14. CASE SetMetadataFails(w)
      BY <2>14, LabelType DEF SetMetadataFails, Goto, Return
    <2>15. CASE SetTags(w)
      BY <2>15, RequestType DEF SetTags, Goto
    <2>16. CASE SetTagsFails(w)
      BY <2>16, RequestType DEF SetTagsFails, Goto, Return
    <2> QED
      BY <1>w, <2>1, <2>2, <2>3, <2>4, <2>5, <2>6, <2>7, <2>8, <2>9, <2>10,
         <2>11, <2>12, <2>13, <2>14, <2>15, <2>16 DEF Write
  <1>r. ASSUME NEW r \in Readers, Reader(r) PROVE TypeOK'
    <2>1. CASE GetTags(r)
      BY <2>1 DEF GetTags, TagsMatch
    <2>2. CASE GetTagsRefused(r)
      BY <2>2 DEF GetTagsRefused, Answer
    <2>3. CASE GetMetadata(r)
      <3>1. [data |-> None, hash |-> Parsed, tag |-> rtag[r]] \in
              [data : Content, hash : Hash, tag : Tags \cup {None}]
        BY DEF Parsed
      <3>2. got' \in [Readers -> [data : Content, hash : Hash, tag : Tags \cup {None}]]
        BY <2>3, <3>1 DEF GetMetadata, Answer
      <3>3. /\ rresult' \in [Readers -> {"none", "ok", "nothing", "notMet", "error"}]
            /\ rpc' \in [Readers -> {"tags", "metadata", "download", "done"}]
        BY <2>3 DEF GetMetadata, Answer
      <3>4. UNCHANGED <<rtag, config, blob, writing, changed>>
        BY <2>3 DEF GetMetadata, Answer
      <3> QED
        BY <3>2, <3>3, <3>4 DEF config, blob, writing
    <2>4. CASE GetMetadataFails(r)
      BY <2>4 DEF GetMetadataFails, Answer
    <2>5. CASE Download(r)
      BY <2>5 DEF Download, Answer, Parsed, Where
    <2>6. CASE DownloadFails(r)
      BY <2>6 DEF DownloadFails, Answer
    <2>7. CASE DownloadNotMet(r)
      BY <2>7 DEF DownloadNotMet, Answer
    <2> QED
      BY <1>r, <2>1, <2>2, <2>3, <2>4, <2>5, <2>6, <2>7 DEF Reader
  <1> QED
    BY <1>u, <1>d, <1>w, <1>r DEF Next

\* A request stays what it is.
LEMMA RequestStays ==
    ASSUME UNCHANGED config, NEW w \in Writers
    PROVE  /\ FileSizes(w)' = FileSizes(w) /\ req'[w] = req[w]
           /\ part'[w] = part[w] => Current(w)' = Current(w)
  BY DEF config, FileSizes, Current

LEMMA LocalStays ==
    ASSUME NEW v \in Writers, Local(v), UNCHANGED config,
           pc'[v] = pc[v], part'[v] = part[v], files'[v] = files[v],
           left'[v] = left[v], hashed'[v] = hashed[v], resp'[v] = resp[v],
           result'[v] = result[v]
    PROVE  Local(v)'
  BY RequestStays DEF Local, WithinLimit, config

\* The writer's own state after a step of its own.
LEMMA WriterConfig ==
    ASSUME NEW w \in Writers, Write(w) PROVE UNCHANGED <<config, reading>>
  BY DEF Write, Start, StartFails, LastPart, PartRefused, SkipPart, FilePart,
     CheckLimit, TooLarge, Detect, ReadPartFails, Commit, CommitFails,
     SetMetadata, SetMetadataFails, SetTags, SetTagsFails, Return, Outside

LEMMA LocalOwn ==
    ASSUME Inv, NEW w \in Writers, Write(w)
    PROVE  Local(w)'
  <1> TypeOK /\ Local(w)
    BY DEF Inv, Locals
  <1>c. UNCHANGED config
    BY WriterConfig
  <1>f. /\ FileSizes(w)' = FileSizes(w) /\ req'[w] = req[w]
        /\ part'[w] = part[w] => Current(w)' = Current(w)
    BY <1>c, RequestStays
  <1> USE DEF TypeOK, Local, WithinLimit
  <1>1. CASE Start(w)
    BY <1>1, <1>f DEF Start, Goto
  <1>2. CASE StartFails(w)
    BY <1>2, <1>f DEF StartFails, Goto, Return
  <1>3. CASE LastPart(w)
    BY <1>3, <1>f DEF LastPart, Goto, Return
  <1>4. CASE PartRefused(w)
    BY <1>4, <1>f DEF PartRefused, Goto, Return
  <1>5. CASE SkipPart(w)
    BY <1>5, <1>f, RequestType DEF SkipPart
  <1>6. CASE FilePart(w)
    <2>1. Current(w)' = req[w].parts[part[w] + 1] /\ part'[w] = part[w] + 1
      BY <1>6, <1>f DEF Current, FilePart
    <2>2. part'[w] \in 1..Len(req[w].parts) /\ Current(w)'.file
      BY <1>6, <2>1, RequestType DEF FilePart
    <2>3. left'[w] = Current(w)'.size /\ hashed'[w] = 0
      BY <1>6, <2>1, RequestType DEF FilePart
    <2> QED
      BY <1>6, <1>f, <2>1, <2>2, <2>3 DEF FilePart
  <1>7. CASE CheckLimit(w)
    BY <1>7, <1>f DEF CheckLimit, Goto, Buffer
  <1>8. CASE TooLarge(w)
    BY <1>8, <1>f DEF TooLarge, Goto, Return
  <1>9. CASE Detect(w)
    BY <1>9, <1>f DEF Detect, Goto
  <1>10. CASE ReadPartFails(w)
    BY <1>10, <1>f DEF ReadPartFails, Goto, Return
  <1>11. CASE Commit(w)
    <2>1. Current(w).size \in FileSizes(w) /\ Current(w).size \in Nat
      BY <1>11, CurrentFile DEF Commit, Goto
    <2>2. resp'[w] = [by |-> w, n |-> Current(w).size]
      BY <1>11 DEF Commit, Goto, Hashed
    <2>3. req[w].limit >= 0 => Current(w).size < req[w].limit
      BY <1>11, RequestType DEF Commit, Goto
    <2>4. resp'[w] # None
      BY <2>1, <2>2, UploadAssumption DEF Bytes
    <2>5. /\ \E n \in FileSizes(w) : resp'[w] = [by |-> w, n |-> n]
          /\ req[w].limit >= 0 => resp'[w].n < req[w].limit
      BY <2>1, <2>2, <2>3
    <2> QED
      BY <1>11, <1>f, <2>4, <2>5 DEF Commit, Goto
  <1>12. CASE CommitFails(w)
    BY <1>12, <1>f DEF CommitFails, Goto, Return, SetContent
  <1>13. CASE SetMetadata(w)
    BY <1>13, <1>f DEF SetMetadata, Goto
  <1>14. CASE SetMetadataFails(w)
    BY <1>14, <1>f DEF SetMetadataFails, Goto, Return
  <1>15. CASE SetTags(w)
    BY <1>15, <1>f DEF SetTags, Goto
  <1>16. CASE SetTagsFails(w)
    BY <1>16, <1>f DEF SetTagsFails, Goto, Return
  <1> QED
    BY <1>1, <1>2, <1>3, <1>4, <1>5, <1>6, <1>7, <1>8, <1>9, <1>10, <1>11,
       <1>12, <1>13, <1>14, <1>15, <1>16 DEF Write

\* A writer's step leaves the others as they are.
LEMMA OthersStay ==
    ASSUME TypeOK, NEW w \in Writers, Write(w), NEW v \in Writers, v # w
    PROVE  /\ UNCHANGED <<config, reading>>
           /\ pc'[v] = pc[v] /\ part'[v] = part[v] /\ files'[v] = files[v]
           /\ left'[v] = left[v] /\ hashed'[v] = hashed[v]
           /\ resp'[v] = resp[v] /\ result'[v] = result[v]
  <1> USE DEF TypeOK
  <1>1. CASE Start(w)
    BY <1>1 DEF Start, Goto, Outside
  <1>2. CASE StartFails(w)
    BY <1>2 DEF StartFails, Goto, Return, Outside
  <1>3. CASE LastPart(w)
    BY <1>3 DEF LastPart, Goto, Return, Outside
  <1>4. CASE PartRefused(w)
    BY <1>4 DEF PartRefused, Goto, Return, Outside
  <1>5. CASE SkipPart(w)
    BY <1>5 DEF SkipPart, Outside
  <1>6. CASE FilePart(w)
    BY <1>6 DEF FilePart, Outside
  <1>7. CASE CheckLimit(w)
    BY <1>7 DEF CheckLimit, Goto, Buffer, Outside
  <1>8. CASE TooLarge(w)
    BY <1>8 DEF TooLarge, Goto, Return, Outside
  <1>9. CASE Detect(w)
    BY <1>9 DEF Detect, Goto, Outside
  <1>10. CASE ReadPartFails(w)
    BY <1>10 DEF ReadPartFails, Goto, Return, Outside
  <1>11. CASE Commit(w)
    BY <1>11 DEF Commit, Goto, SetContent, Hashed
  <1>12. CASE CommitFails(w)
    BY <1>12 DEF CommitFails, Goto, Return, SetContent
  <1>13. CASE SetMetadata(w)
    BY <1>13 DEF SetMetadata, Goto
  <1>14. CASE SetMetadataFails(w)
    BY <1>14 DEF SetMetadataFails, Goto, Return
  <1>15. CASE SetTags(w)
    BY <1>15 DEF SetTags, Goto
  <1>16. CASE SetTagsFails(w)
    BY <1>16 DEF SetTagsFails, Goto, Return
  <1> QED
    BY <1>1, <1>2, <1>3, <1>4, <1>5, <1>6, <1>7, <1>8, <1>9, <1>10, <1>11,
       <1>12, <1>13, <1>14, <1>15, <1>16 DEF Write

LEMMA LocalsStep == Inv /\ [Next]_vars => Locals'
  <1> SUFFICES ASSUME Inv, [Next]_vars, NEW v \in Writers PROVE Local(v)'
    BY DEF Locals
  <1> TypeOK /\ Local(v)
    BY DEF Inv, Locals
  <1>1. ASSUME NEW w \in Writers, Write(w) PROVE Local(v)'
    BY <1>1, LocalOwn, OthersStay, LocalStays
  <1>2. ASSUME UNCHANGED <<config, writing>> PROVE Local(v)'
    BY <1>2, LocalStays DEF writing
  <1>3. ASSUME NEW r \in Readers, Reader(r) PROVE UNCHANGED <<config, writing>>
    BY <1>3 DEF Reader, GetTags, GetTagsRefused, GetMetadata, GetMetadataFails,
       Download, DownloadNotMet, DownloadFails, Answer
  <1> QED
    BY <1>1, <1>2, <1>3 DEF Next, Delete, vars

\* A writer's step and the blob: only a commit changes the content.
LEMMA StoredOwn ==
    ASSUME Inv, NEW w \in Writers, Write(w)
    PROVE  Stored'
  <1> TypeOK /\ Local(w) /\ Stored
    BY DEF Inv, Locals
  <1> \A v \in Writers : FileSizes(v)' = FileSizes(v)
    BY RequestStays, WriterConfig
  <1> USE DEF Stored, Owns, blob, TypeOK
  <1>1. CASE Start(w)
    BY <1>1 DEF Start, Goto, Outside
  <1>2. CASE StartFails(w)
    BY <1>2 DEF StartFails, Goto, Return, Outside
  <1>3. CASE LastPart(w)
    BY <1>3 DEF LastPart, Goto, Return, Outside
  <1>4. CASE PartRefused(w)
    BY <1>4 DEF PartRefused, Goto, Return, Outside
  <1>5. CASE SkipPart(w)
    BY <1>5 DEF SkipPart, Outside
  <1>6. CASE FilePart(w)
    BY <1>6 DEF FilePart, Outside
  <1>7. CASE CheckLimit(w)
    BY <1>7 DEF CheckLimit, Goto, Buffer, Outside
  <1>8. CASE TooLarge(w)
    BY <1>8 DEF TooLarge, Goto, Return, Outside
  <1>9. CASE Detect(w)
    BY <1>9 DEF Detect, Goto, Outside
  <1>10. CASE ReadPartFails(w)
    BY <1>10 DEF ReadPartFails, Goto, Return, Outside
  <1>11. CASE Commit(w)
    <2>1. left[w] \in FileSizes(w)
      BY <1>11, CurrentFile DEF Commit, Goto, SetContent, Hashed, Local
    <2> QED
      BY <1>11, <2>1 DEF Commit, Goto, SetContent, Hashed
  <1>12. CASE CommitFails(w)
    <2>1. left[w] \in FileSizes(w)
      BY <1>12, CurrentFile DEF CommitFails, Goto, Return, SetContent, Local
    <2> QED
      BY <1>12, <2>1 DEF CommitFails, Goto, Return, SetContent
  <1>13. CASE SetMetadata(w)
    BY <1>13 DEF SetMetadata, Goto
  <1>14. CASE SetMetadataFails(w)
    BY <1>14 DEF SetMetadataFails, Goto, Return
  <1>15. CASE SetTags(w)
    BY <1>15 DEF SetTags, Goto
  <1>16. CASE SetTagsFails(w)
    BY <1>16 DEF SetTagsFails, Goto, Return
  <1> QED
    BY <1>1, <1>2, <1>3, <1>4, <1>5, <1>6, <1>7, <1>8, <1>9, <1>10, <1>11,
       <1>12, <1>13, <1>14, <1>15, <1>16 DEF Write

LEMMA StoredStep == Inv /\ [Next]_vars => Stored'
  <1> SUFFICES ASSUME Inv, [Next]_vars PROVE Stored'
    OBVIOUS
  <1>1. ASSUME UNCHANGED config, data' = data \/ data' = None PROVE Stored'
    BY <1>1, RequestStays DEF Inv, Stored, Owns
  <1>2. ASSUME NEW r \in Readers, Reader(r) PROVE UNCHANGED <<config, blob>>
    BY <1>2 DEF Reader, GetTags, GetTagsRefused, GetMetadata, GetMetadataFails,
       Download, DownloadNotMet, DownloadFails, Answer
  <1> QED
    BY <1>1, <1>2, StoredOwn DEF Next, Delete, SetContent, vars, blob

LEMMA OneActiveStep == Inv /\ [Next]_vars => OneActive'
  <1> SUFFICES ASSUME Inv, [Next]_vars PROVE OneActive'
    OBVIOUS
  <1> TypeOK /\ OneActive
    BY DEF Inv
  <1>1. ASSUME UNCHANGED <<config, writing>> PROVE OneActive'
    BY <1>1 DEF config, writing, OneActive, Active
  <1>2. ASSUME NEW r \in Readers, Reader(r) PROVE UNCHANGED <<config, writing>>
    BY <1>2 DEF Reader, GetTags, GetTagsRefused, GetMetadata, GetMetadataFails,
       Download, DownloadNotMet, DownloadFails, Answer
  <1>3. ASSUME NEW w \in Writers, Write(w) PROVE OneActive'
    <2>1. \A v \in Writers : v # w => pc'[v] = pc[v]
      BY <1>3, OthersStay
    <2>2. CASE Start(w)
      BY <2>1, <2>2 DEF Start, Goto, Outside, config, OneActive, Active
    <2>3. CASE ~Start(w)
      <3>1. Active(w) \/ ~Active(w)'
        BY <1>3, <2>3 DEF TypeOK, Active, Write, StartFails, LastPart,
           PartRefused, SkipPart, FilePart, CheckLimit, TooLarge, Detect,
           ReadPartFails, Commit, CommitFails, SetMetadata, SetMetadataFails,
           SetTags, SetTagsFails, Return, Goto
      <3> QED
        BY <1>3, <2>1, <3>1, WriterConfig DEF config, OneActive, Active
    <2> QED
      BY <2>2, <2>3
  <1> QED
    BY <1>1, <1>2, <1>3 DEF Next, Delete, vars

\* A step of an upload that has its turn.
LEMMA MetadataOwn ==
    ASSUME Inv, NEW w \in Writers, Write(w), serial
    PROVE  MetadataIsOfContent'
  <1> /\ TypeOK /\ Local(w) /\ req' = req /\ serial' = serial
     /\ MetadataIsOfContent /\ StoredBy(w)
    BY WriterConfig DEF Inv, Locals, Progress, config
  <1> USE DEF MetadataIsOfContent, StoredBy, Label, blob, TypeOK, Content, Bytes
  <1>1. CASE Start(w)
    BY <1>1 DEF Start, Goto, Outside
  <1>2. CASE StartFails(w)
    BY <1>2 DEF StartFails, Goto, Return, Outside
  <1>3. CASE LastPart(w)
    BY <1>3 DEF LastPart, Goto, Return, Outside
  <1>4. CASE PartRefused(w)
    BY <1>4 DEF PartRefused, Goto, Return, Outside
  <1>5. CASE SkipPart(w)
    BY <1>5 DEF SkipPart, Outside
  <1>6. CASE FilePart(w)
    BY <1>6 DEF FilePart, Outside
  <1>7. CASE CheckLimit(w)
    BY <1>7 DEF CheckLimit, Goto, Buffer, Outside
  <1>8. CASE TooLarge(w)
    BY <1>8 DEF TooLarge, Goto, Return, Outside
  <1>9. CASE Detect(w)
    BY <1>9 DEF Detect, Goto, Outside
  <1>10. CASE ReadPartFails(w)
    BY <1>10 DEF ReadPartFails, Goto, Return, Outside
  <1>11. CASE Commit(w)
    BY <1>11 DEF Commit, Goto, SetContent, Hashed
  <1>12. CASE CommitFails(w)
    BY <1>12 DEF CommitFails, Goto, Return, SetContent
  <1>13. CASE SetMetadata(w)
    <2>1. data # None /\ data = resp[w] /\ data.by = w
      BY <1>13 DEF Local, SetMetadata, Goto
    <2> QED
      BY <1>13, <2>1 DEF SetMetadata, Goto
  <1>14. CASE SetMetadataFails(w)
    <2>1. data # None => data = resp[w] /\ data.by = w
      BY <1>14 DEF Local, SetMetadataFails, Goto, Return
    <2> QED
      BY <1>14, <2>1 DEF SetMetadataFails, Goto, Return
  <1>15. CASE SetTags(w)
    <2>1. data # None => data.by = w
      BY <1>15 DEF Local, SetTags, Goto
    <2> QED
      BY <1>15, <2>1 DEF SetTags, Goto
  <1>16. CASE SetTagsFails(w)
    <2>1. data # None => data.by = w
      BY <1>16 DEF Local, SetTagsFails, Goto, Return
    <2> QED
      BY <1>16, <2>1 DEF SetTagsFails, Goto, Return
  <1> QED
    BY <1>1, <1>2, <1>3, <1>4, <1>5, <1>6, <1>7, <1>8, <1>9, <1>10, <1>11,
       <1>12, <1>13, <1>14, <1>15, <1>16 DEF Write

LEMMA StoredByOwn ==
    ASSUME Inv, NEW w \in Writers, Write(w), serial
    PROVE  StoredBy(w)'
  <1> /\ TypeOK /\ Local(w) /\ req' = req /\ serial' = serial
     /\ MetadataIsOfContent /\ StoredBy(w)
    BY WriterConfig DEF Inv, Locals, Progress, config
  <1> USE DEF MetadataIsOfContent, StoredBy, Label, Owns, Local, blob, TypeOK
  <1>1. CASE Start(w)
    BY <1>1 DEF Start, Goto, Outside
  <1>2. CASE StartFails(w)
    BY <1>2 DEF StartFails, Goto, Return, Outside
  <1>3. CASE LastPart(w)
    BY <1>3 DEF LastPart, Goto, Return, Outside
  <1>4. CASE PartRefused(w)
    BY <1>4 DEF PartRefused, Goto, Return, Outside
  <1>5. CASE SkipPart(w)
    BY <1>5 DEF SkipPart, Outside
  <1>6. CASE FilePart(w)
    BY <1>6 DEF FilePart, Outside
  <1>7. CASE CheckLimit(w)
    BY <1>7 DEF CheckLimit, Goto, Buffer, Outside
  <1>8. CASE TooLarge(w)
    BY <1>8 DEF TooLarge, Goto, Return, Outside
  <1>9. CASE Detect(w)
    BY <1>9 DEF Detect, Goto, Outside
  <1>10. CASE ReadPartFails(w)
    BY <1>10 DEF ReadPartFails, Goto, Return, Outside
  <1>11. CASE Commit(w)
    BY <1>11 DEF Commit, Goto, SetContent, Hashed
  <1>12. CASE CommitFails(w)
    BY <1>12 DEF CommitFails, Goto, Return, SetContent
  <1>13. CASE SetMetadata(w)
    BY <1>13 DEF SetMetadata, Goto
  <1>14. CASE SetMetadataFails(w)
    BY <1>14 DEF SetMetadataFails, Goto, Return
  <1>15. CASE SetTags(w)
    BY <1>15 DEF SetTags, Goto
  <1>16. CASE SetTagsFails(w)
    BY <1>16 DEF SetTagsFails, Goto, Return
  <1> QED
    BY <1>1, <1>2, <1>3, <1>4, <1>5, <1>6, <1>7, <1>8, <1>9, <1>10, <1>11,
       <1>12, <1>13, <1>14, <1>15, <1>16 DEF Write

\* Nobody else who stored something is disturbed by it.
LEMMA StoredByOther ==
    ASSUME Inv, NEW w \in Writers, Write(w), serial,
           NEW v \in Writers, v # w
    PROVE  StoredBy(v)'
  <1> /\ TypeOK /\ Local(w) /\ Local(v) /\ req' = req /\ StoredBy(w) /\ StoredBy(v)
    BY WriterConfig DEF Inv, Locals, Progress, config
  <1> /\ pc'[v] = pc[v] /\ files'[v] = files[v]
     /\ resp'[v] = resp[v] /\ result'[v] = result[v]
    BY OthersStay
  <1> Active(w) => ~Active(v)
    BY DEF Inv, OneActive
  <1>o. Owns(w) => ~Owns(v)
    BY DEF Owns
  <1> USE DEF StoredBy, Label, Owns, Local, Active, blob, TypeOK
  <1>1. CASE Start(w)
    BY <1>1 DEF Start, Goto, Outside
  <1>2. CASE StartFails(w)
    BY <1>2 DEF StartFails, Goto, Return, Outside
  <1>3. CASE LastPart(w)
    BY <1>3 DEF LastPart, Goto, Return, Outside
  <1>4. CASE PartRefused(w)
    BY <1>4 DEF PartRefused, Goto, Return, Outside
  <1>5. CASE SkipPart(w)
    BY <1>5 DEF SkipPart, Outside
  <1>6. CASE FilePart(w)
    BY <1>6 DEF FilePart, Outside
  <1>7. CASE CheckLimit(w)
    BY <1>7 DEF CheckLimit, Goto, Buffer, Outside
  <1>8. CASE TooLarge(w)
    BY <1>8 DEF TooLarge, Goto, Return, Outside
  <1>9. CASE Detect(w)
    BY <1>9 DEF Detect, Goto, Outside
  <1>10. CASE ReadPartFails(w)
    BY <1>10 DEF ReadPartFails, Goto, Return, Outside
  <1>11. CASE Commit(w)
    BY <1>11 DEF Commit, Goto, SetContent, Hashed
  <1>12. CASE CommitFails(w)
    BY <1>12 DEF CommitFails, Goto, Return, SetContent
  <1>13. CASE SetMetadata(w)
    <2>1. data # None => data.by = w
      BY <1>13 DEF Local, SetMetadata, Goto
    <2> QED
      BY <1>13, <2>1 DEF SetMetadata, Goto
  <1>14. CASE SetMetadataFails(w)
    <2>1. data # None => data.by = w
      BY <1>14 DEF Local, SetMetadataFails, Goto, Return
    <2> QED
      BY <1>14, <2>1 DEF SetMetadataFails, Goto, Return
  <1>15. CASE SetTags(w)
    <2>1. data # None => data.by = w
      BY <1>15 DEF Local, SetTags, Goto
    <2> QED
      BY <1>15, <2>1 DEF SetTags, Goto
  <1>16. CASE SetTagsFails(w)
    <2>1. data # None => data.by = w
      BY <1>16 DEF Local, SetTagsFails, Goto, Return
    <2> QED
      BY <1>16, <2>1 DEF SetTagsFails, Goto, Return
  <1> QED
    BY <1>1, <1>2, <1>3, <1>4, <1>5, <1>6, <1>7, <1>8, <1>9, <1>10, <1>11,
       <1>12, <1>13, <1>14, <1>15, <1>16 DEF Write

LEMMA ProgressStep == Inv /\ [Next]_vars => Progress' /\ MetadataIsOfContent'
  <1> SUFFICES ASSUME Inv, [Next]_vars, serial'
               PROVE  (\A w \in Writers : StoredBy(w)') /\ MetadataIsOfContent'
    BY DEF Progress, MetadataIsOfContent
  <1>1. serial /\ MetadataIsOfContent /\ \A w \in Writers : StoredBy(w)
    <2>1. UNCHANGED config
      BY WriterConfig DEF Next, Reader, GetTags, GetTagsRefused, GetMetadata,
         GetMetadataFails, Download, DownloadNotMet, DownloadFails, Answer,
         Delete, vars
    <2> QED
      BY <2>1 DEF Inv, Progress, config
  <1>2. ASSUME NEW w \in Writers, Write(w)
        PROVE  (\A v \in Writers : StoredBy(v)') /\ MetadataIsOfContent'
    BY <1>1, <1>2, StoredByOwn, StoredByOther, MetadataOwn
  <1>3. CASE Delete
    BY <1>1, <1>3 DEF Delete, SetContent, config, writing, StoredBy, Owns,
       MetadataIsOfContent, Label
  <1>4. ASSUME UNCHANGED <<config, blob, writing>>
        PROVE  (\A v \in Writers : StoredBy(v)') /\ MetadataIsOfContent'
    BY <1>1, <1>4 DEF config, blob, writing, StoredBy, Owns, MetadataIsOfContent,
       Label
  <1>5. ASSUME NEW r \in Readers, Reader(r)
        PROVE  UNCHANGED <<config, blob, writing>>
    BY <1>5 DEF Reader, GetTags, GetTagsRefused, GetMetadata, GetMetadataFails,
       Download, DownloadNotMet, DownloadFails, Answer
  <1> QED
    BY <1>2, <1>3, <1>4, <1>5 DEF Next, vars

\* Between its requests Reader either still knows whose blob it is or the
\* content changed.
LEMMA KnownStep == Inv /\ [Next]_vars => Known'
  <1> SUFFICES ASSUME Inv, [Next]_vars PROVE Known'
    OBVIOUS
  <1> TypeOK /\ Known /\ MetadataIsOfContent
    BY DEF Inv
  <1>1. ASSUME UNCHANGED <<config, reading, data, changed>> PROVE Known'
    BY <1>1 DEF config, reading, Known
  <1>2. ASSUME UNCHANGED <<config, reading>>, NEW d, SetContent(d) PROVE Known'
    BY <1>2 DEF config, reading, Known, SetContent, TypeOK
  <1>3. ASSUME NEW w \in Writers, Write(w) PROVE Known'
    <2>1. UNCHANGED <<config, reading>>
      BY <1>3, WriterConfig
    <2>2. UNCHANGED <<data, changed>> \/ \E d : SetContent(d)
      BY <1>3 DEF Write, Start, StartFails, LastPart, PartRefused, SkipPart,
         FilePart, CheckLimit, TooLarge, Detect, ReadPartFails, Commit,
         CommitFails, SetMetadata, SetMetadataFails, SetTags, SetTagsFails,
         Outside, blob
    <2> QED
      BY <1>1, <1>2, <2>1, <2>2
  <1>4. ASSUME NEW r \in Readers, Reader(r) PROVE Known'
    <2>1. CASE GetTags(r)
      BY <2>1, OptionType DEF GetTags, TagsMatch, Known, config, blob, TypeOK,
         MetadataIsOfContent
    <2>2. CASE ~GetTags(r)
      BY <1>4, <2>2 DEF Reader, GetTagsRefused, GetMetadata, GetMetadataFails,
         Download, DownloadNotMet, DownloadFails, Answer, config, blob, TypeOK,
         Known
    <2> QED
      BY <2>1, <2>2
  <1> QED
    BY <1>1, <1>2, <1>3, <1>4 DEF Next, Delete, vars, blob

LEMMA UnreadStep == Inv /\ [Next]_vars => Unread'
  <1> SUFFICES ASSUME Inv, [Next]_vars PROVE Unread'
    OBVIOUS
  <1> TypeOK /\ Unread
    BY DEF Inv
  <1>1. ASSUME UNCHANGED reading PROVE Unread'
    BY <1>1 DEF reading, Unread
  <1>2. ASSUME NEW r \in Readers, Reader(r) PROVE Unread'
    BY <1>2 DEF Reader, GetTags, GetTagsRefused, GetMetadata, GetMetadataFails,
       Download, DownloadNotMet, DownloadFails, Answer, Unread, TypeOK
  <1> QED
    BY <1>1, <1>2, WriterConfig DEF Next, Delete, vars

LEMMA TagGuardStep == Inv /\ [Next]_vars => TagGuard'
  <1> SUFFICES ASSUME Inv, [Next]_vars PROVE TagGuard'
    OBVIOUS
  <1> TypeOK /\ TagGuard /\ Unread /\ Known /\ MetadataIsOfContent
    BY DEF Inv
  <1> DEFINE Same == /\ UNCHANGED <<config, got, rresult>>
                     /\ \A r \in Readers : changed[r] => changed'[r]
  <1>1. ASSUME Same PROVE TagGuard'
    BY <1>1 DEF config, TagGuard
  <1>2. ASSUME UNCHANGED <<config, reading>>, NEW d, SetContent(d) PROVE Same
    BY <1>2 DEF reading, SetContent, TypeOK
  <1>3. ASSUME NEW w \in Writers, Write(w) PROVE Same
    <2>1. UNCHANGED <<config, reading>>
      BY <1>3, WriterConfig
    <2>2. UNCHANGED changed \/ \E d : SetContent(d)
      BY <1>3 DEF Write, Start, StartFails, LastPart, PartRefused, SkipPart,
         FilePart, CheckLimit, TooLarge, Detect, ReadPartFails, Commit,
         CommitFails, SetMetadata, SetMetadataFails, SetTags, SetTagsFails,
         Outside, blob
    <2> QED
      BY <1>2, <2>1, <2>2 DEF reading
  <1>4. ASSUME NEW r \in Readers, Reader(r) PROVE TagGuard'
    <2>1. CASE GetTags(r)
      BY <2>1 DEF GetTags, TagGuard, Unread, config, TypeOK
    <2>2. CASE Download(r)
      <3>1. serial /\ opt[r].where # None => req[data.by].tag = opt[r].where
        BY <2>2 DEF Download, Where, MetadataIsOfContent
      <3>2. serial /\ opt[r].want # None =>
              changed[r] \/ req[data.by].tag = opt[r].want
        BY <2>2 DEF Download, Answer, Known
      <3>3. got'[r].data = data /\ UNCHANGED <<req, opt, serial, changed>>
        BY <2>2 DEF Download, Answer, config, TypeOK
      <3>4. \A q \in Readers : q # r =>
              got'[q] = got[q] /\ rresult'[q] = rresult[q]
        BY <2>2 DEF Download, Answer, TypeOK
      <3> QED
        BY <3>1, <3>2, <3>3, <3>4 DEF TagGuard
    <2>3. CASE GetMetadata(r)
      <3>1. got'[r].data = None /\ UNCHANGED <<req, opt, serial, changed>>
        BY <2>3 DEF GetMetadata, Answer, Unread, config, TypeOK
      <3>2. \A q \in Readers : q # r =>
              got'[q] = got[q] /\ rresult'[q] = rresult[q]
        BY <2>3 DEF GetMetadata, Answer, TypeOK
      <3> QED
        BY <3>1, <3>2 DEF TagGuard
    <2>4. CASE \/ GetTagsRefused(r) \/ GetMetadataFails(r)
               \/ DownloadNotMet(r) \/ DownloadFails(r)
      <3>1. rresult'[r] # "ok" /\ UNCHANGED <<req, opt, serial, changed>>
        BY <2>4 DEF GetTagsRefused, GetMetadataFails, DownloadNotMet,
           DownloadFails, Answer, config, TypeOK
      <3>2. \A q \in Readers : q # r =>
              got'[q] = got[q] /\ rresult'[q] = rresult[q]
        BY <2>4 DEF GetTagsRefused, GetMetadataFails, DownloadNotMet,
           DownloadFails, Answer, TypeOK
      <3> QED
        BY <3>1, <3>2 DEF TagGuard
    <2> QED
      BY <1>4, <2>1, <2>2, <2>3, <2>4 DEF Reader
  <1> QED
    BY <1>1, <1>2, <1>3, <1>4 DEF Next, Delete, vars, reading

LEMMA InvStep == Inv /\ [Next]_vars => Inv'
  BY TypeStep, LocalsStep, StoredStep, OneActiveStep, ProgressStep, UnreadStep,
     KnownStep, TagGuardStep DEF Inv

THEOREM Invariant == Spec => []Inv
  BY InvInit, InvStep, PTL DEF Spec

\* Every variable keeps its type, whatever is uploaded, read and deleted.
THEOREM TypeCorrect == Spec => []TypeOK
  <1>1. Inv => TypeOK
    BY DEF Inv
  <1> QED
    BY <1>1, Invariant, PTL

\* The hash of a blob is that of its content, or the one its uploader gave it
\* (upload.go:313-315), and its tag is that uploader's while uploads take turns
\* (upload.go:293-323), for any number of them and any failures.
THEOREM MetadataMatches == Spec => []MetadataIsOfContent
  <1>1. Inv => MetadataIsOfContent
    BY DEF Inv
  <1> QED
    BY <1>1, Invariant, PTL

\* An upload that was reported as done is complete until it is replaced, for
\* any number of uploads in turn.
THEOREM StoresWhole == Spec => []StoredWhole
  <1>1. Inv => StoredWhole
    BY DEF Inv, Progress, StoredBy, Owns, StoredWhole
  <1> QED
    BY <1>1, Invariant, PTL

\* What is reported and stored is a whole file within the limit
\* (upload.go:252-302), whoever else uploads, and complete if they take turns.
THEOREM ReportsAreTrue == Spec => []ReportIsTrue
  <1>1. Inv /\ StoredWhole => ReportIsTrue
    <2> SUFFICES ASSUME Inv, StoredWhole, NEW w \in Writers
                 PROVE  /\ result[w] = "ok" =>
                             /\ \E n \in FileSizes(w) :
                                   resp[w] = [by |-> w, n |-> n]
                             /\ req[w].limit >= 0 => resp[w].n < req[w].limit
                        /\ data # None /\ data.by = w => data.n \in FileSizes(w)
      BY DEF ReportIsTrue
    <2>1. Local(w) /\ (Owns(w) => data.n \in FileSizes(w))
      BY DEF Inv, Locals, Stored
    <2> QED
      BY <2>1 DEF Local, Owns
  <1> QED
    BY <1>1, Invariant, StoresWhole, PTL

\* While uploads take turns, Reader returns content of the required tag only,
\* unless the content was replaced between its requests (download.go:98), and
\* content of the tag that its condition asks for in any case.
THEOREM TagsGuard == Spec => []TagGuard
  <1>1. Inv => TagGuard
    BY DEF Inv
  <1> QED
    BY <1>1, Invariant, PTL

-----------------------------------------------------------------------------
(* Upload implements Blob *)

LEMMA FilesAreBytes ==
    ASSUME TypeOK, NEW w \in Writers
    PROVE  FilesOf(w) \subseteq Bytes /\ None \notin FilesOf(w)
  <1>1. FileSizes(w) \subseteq Nat
    BY RequestType DEF FileSizes, Part
  <1> QED
    BY <1>1, UploadAssumption DEF FilesOf, Bytes

\* Whose file it is tells which upload it is of.
LEMMA FilesAreApart ==
    ASSUME NEW v \in Writers, NEW w \in Writers, v # w
    PROVE  FilesOf(v) \cap FilesOf(w) = {}
  BY DEF FilesOf

LEMMA BlobLabel ==
    ASSUME NEW w \in Writers, NEW d
    PROVE  Object!Label(w, d) = Label(w, d)
  BY DEF Object!Label, Label

LEMMA BlobInit == Init => Object!Init
  <1> SUFFICES ASSUME Init PROVE Object!Init
    OBVIOUS
  <1>1. \A w \in Writers : Stage(w) = "new"
    BY DEF Init, Stage
  <1>2. \A r \in Readers :
          rresult[r] = "none" /\ got[r].data = None /\ got[r].hash = None
    BY DEF Init
  <1>3. TypeOK
    BY InvInit DEF Inv
  <1> QED
    BY <1>1, <1>2, <1>3, FilesAreApart, FilesAreBytes
       DEF Init, Object!Init, Object!Nothing

\* What callers ask for stays what it is.
LEMMA GivenStays ==
    ASSUME UNCHANGED config
    PROVE  UNCHANGED Object!given
  <1>1. UNCHANGED <<req, opt, serial>>
    BY DEF config
  <1>2. \A w \in Writers : FilesOf(w)' = FilesOf(w)
    BY <1>1 DEF FilesOf, FileSizes
  <1> QED
    BY <1>1, <1>2 DEF Object!given

LEMMA AnswersStay ==
    ASSUME UNCHANGED reading
    PROVE  UNCHANGED [r \in Readers |-> [result |-> rresult[r],
                                         data |-> got[r].data,
                                         hash |-> got[r].hash]]
  BY DEF reading

\* A writer's step moves its own upload only, from stage to stage.
LEMMA WriterMoves ==
    ASSUME TypeOK, NEW w \in Writers, Write(w)
    PROVE  /\ UNCHANGED Object!given
           /\ UNCHANGED [r \in Readers |-> [result |-> rresult[r],
                                            data |-> got[r].data,
                                            hash |-> got[r].hash]]
           /\ Object!Goes(w, Stage(w), Stage(w)')
           /\ Stage(w)' = Stage(w) =>
                UNCHANGED [v \in Writers |-> Stage(v)]
  <1>1. UNCHANGED <<config, reading>>
    BY WriterConfig
  <1>2. \A v \in Writers : v # w => Stage(v)' = Stage(v)
    BY OthersStay DEF Stage
  <1>3. Object!Goes(w, Stage(w), Stage(w)')
    BY <1>2 DEF Object!Goes
  <1>4. Stage(w)' = Stage(w) => UNCHANGED [v \in Writers |-> Stage(v)]
    BY <1>2
  <1> QED
    BY <1>1, <1>3, <1>4, GivenStays, AnswersStay

\* Up to the content's request nothing happens to the blob: an upload goes
\* on, is over or is told.
LEMMA FormRefines ==
    ASSUME Inv, NEW w \in Writers,
           \/ Start(w) \/ StartFails(w) \/ LastPart(w) \/ PartRefused(w)
           \/ SkipPart(w) \/ FilePart(w) \/ CheckLimit(w) \/ TooLarge(w)
           \/ Detect(w) \/ ReadPartFails(w)
    PROVE  Object!GiveUp(w) \/ Object!Report(w) \/ UNCHANGED Object!vars
  <1> TypeOK /\ Local(w)
    BY DEF Inv, Locals
  <1>w. Write(w)
    BY DEF Write
  <1>b. UNCHANGED blob
    BY DEF Start, StartFails, LastPart, PartRefused, SkipPart, FilePart,
       CheckLimit, TooLarge, Detect, ReadPartFails, Outside
  <1>m. /\ UNCHANGED Object!given
        /\ UNCHANGED [r \in Readers |-> [result |-> rresult[r],
                                         data |-> got[r].data,
                                         hash |-> got[r].hash]]
        /\ Object!Goes(w, Stage(w), Stage(w)')
        /\ Stage(w)' = Stage(w) => UNCHANGED [v \in Writers |-> Stage(v)]
    BY <1>w, WriterMoves
  <1>s. ASSUME Stage(w)' = Stage(w) PROVE UNCHANGED Object!vars
    BY <1>s, <1>b, <1>m DEF Object!vars, Object!blob, blob
  <1>g. ASSUME Stage(w) \in {"new", "stored"}, Stage(w)' = "over"
        PROVE  Object!GiveUp(w)
    BY <1>g, <1>b, <1>m DEF Object!GiveUp, Object!blob, blob
  <1>1. CASE Start(w) \/ SkipPart(w) \/ FilePart(w) \/ CheckLimit(w) \/ Detect(w)
    <2>1. pc[w] # "done" /\ pc'[w] # "done" /\ resp'[w] = resp[w]
      BY <1>1 DEF Start, SkipPart, FilePart, CheckLimit, Detect, Goto, TypeOK
    <2> QED
      BY <1>s, <2>1 DEF Stage
  <1>2. CASE StartFails(w) \/ PartRefused(w) \/ TooLarge(w) \/ ReadPartFails(w)
    <2>1. pc[w] # "done" /\ pc'[w] = "done" /\ result'[w] # "ok"
      BY <1>2 DEF StartFails, PartRefused, TooLarge, ReadPartFails, Return,
         Goto, TypeOK
    <2> QED
      BY <1>g, <2>1 DEF Stage
  <1>3. CASE LastPart(w)
    <2>1. /\ pc[w] = "parts" /\ pc'[w] = "done"
          /\ result'[w] = IF resp[w] = None THEN "nothing" ELSE "ok"
      BY <1>3 DEF LastPart, Return, Goto, TypeOK
    <2>2. CASE resp[w] = None
      BY <1>g, <2>1, <2>2 DEF Stage
    <2>3. CASE resp[w] # None
      <3>1. Stage(w) = "stored" /\ Stage(w)' = "told"
        BY <2>1, <2>3 DEF Stage
      <3>2. ASSUME serial, data \in FilesOf(w)
            PROVE  meta = Label(w, data) /\ tag = req[w].tag
        <4>1. data # None /\ data.by = w
          BY <3>2, FilesAreBytes DEF FilesOf
        <4>2. StoredBy(w) /\ files[w] # 1
          BY <2>1, <2>3, <3>2 DEF Inv, Progress, Local
        <4> QED
          BY <2>1, <4>1, <4>2 DEF StoredBy, Owns
      <3> QED
        BY <1>b, <1>m, <3>1, <3>2, BlobLabel DEF Object!Report, Object!blob, blob
    <2> QED
      BY <2>2, <2>3
  <1> QED
    BY <1>1, <1>2, <1>3

\* The content's request is the upload, also if its answer is lost.
LEMMA CommitRefines ==
    ASSUME Inv, NEW w \in Writers, Commit(w) \/ CommitFails(w)
    PROVE  Object!Replace(w) \/ Object!GiveUp(w)
  <1> TypeOK /\ Local(w)
    BY DEF Inv, Locals
  <1>w. Write(w)
    BY DEF Write
  <1>m. /\ UNCHANGED Object!given
        /\ UNCHANGED [r \in Readers |-> [result |-> rresult[r],
                                         data |-> got[r].data,
                                         hash |-> got[r].hash]]
        /\ Object!Goes(w, Stage(w), Stage(w)')
    BY <1>w, WriterMoves
  <1>u. pc[w] = "upload" /\ resp[w] = None /\ Stage(w) = "new"
    BY DEF Commit, CommitFails, Return, Goto, Local, Stage
  <1>f. [by |-> w, n |-> left[w]] \in FilesOf(w)
    BY <1>u, CurrentFile DEF FilesOf, Local
  <1>r. ASSUME SetContent([by |-> w, n |-> left[w]]),
               Stage(w)' \in {"stored", "over"}
        PROVE  Object!Replace(w)
    BY <1>r, <1>m, <1>u, <1>f DEF Object!Replace, SetContent
  <1>1. CASE Commit(w)
    <2>1. pc'[w] = "metadata" /\ resp'[w] = [by |-> w, n |-> Hashed(w)]
      BY <1>1 DEF Commit, Goto, TypeOK
    <2>2. resp'[w] # None
      BY <2>1, UploadAssumption DEF TypeOK, Hashed, Bytes
    <2> QED
      BY <1>1, <1>r, <2>1, <2>2 DEF Commit, Stage
  <1>2. CASE CommitFails(w)
    <2>1. Stage(w)' = "over"
      BY <1>2 DEF CommitFails, Return, Goto, TypeOK, Stage
    <2>2. CASE SetContent([by |-> w, n |-> left[w]])
      BY <1>r, <2>1, <2>2
    <2>3. CASE UNCHANGED blob
      BY <1>m, <1>u, <2>1, <2>3 DEF Object!GiveUp, Object!blob, blob
    <2> QED
      BY <1>2, <2>2, <2>3 DEF CommitFails
  <1> QED
    BY <1>1, <1>2

\* The other two requests complete it, also if their answer is lost.
LEMMA CompleteRefines ==
    ASSUME Inv, NEW w \in Writers,
           \/ SetMetadata(w) \/ SetMetadataFails(w)
           \/ SetTags(w) \/ SetTagsFails(w)
    PROVE  Object!Complete(w) \/ Object!GiveUp(w)
  <1> TypeOK /\ Local(w)
    BY DEF Inv, Locals
  <1>w. Write(w)
    BY DEF Write
  <1>m. /\ UNCHANGED Object!given
        /\ UNCHANGED [r \in Readers |-> [result |-> rresult[r],
                                         data |-> got[r].data,
                                         hash |-> got[r].hash]]
        /\ Object!Goes(w, Stage(w), Stage(w)')
        /\ Stage(w)' = Stage(w) => UNCHANGED [v \in Writers |-> Stage(v)]
    BY <1>w, WriterMoves
  <1>u. pc[w] \in {"metadata", "tags"} /\ resp[w] # None /\ Stage(w) = "stored"
    BY DEF SetMetadata, SetMetadataFails, SetTags, SetTagsFails, Return, Goto,
       Local, Stage
  <1>f. resp[w] \in FilesOf(w)
    BY <1>u DEF FilesOf, Local
  <1>s. UNCHANGED data /\ Stage(w)' \in {"stored", "over"}
    <2>1. UNCHANGED data /\ resp'[w] = resp[w]
      BY DEF SetMetadata, SetMetadataFails, SetTags, SetTagsFails, Return
    <2>2. pc'[w] # "done" \/ result'[w] = "error"
      BY DEF SetMetadata, SetMetadataFails, SetTags, SetTagsFails, Return,
         Goto, TypeOK
    <2> QED
      BY <1>u, <2>1, <2>2 DEF Stage
  <1>p. serial /\ data # None =>
          data = resp[w] /\ (pc[w] = "tags" => meta = Label(w, resp[w]))
    BY <1>u DEF Inv, Progress, StoredBy
  <1>h. ASSUME data # None, meta' = Label(w, resp[w]), UNCHANGED tag
        PROVE  Object!Complete(w)
    BY <1>h, <1>m, <1>u, <1>f, <1>s, <1>p, BlobLabel DEF Object!Complete
  <1>t. ASSUME data # None, tag' = req[w].tag, UNCHANGED meta, pc[w] = "tags"
        PROVE  Object!Complete(w)
    BY <1>t, <1>m, <1>u, <1>f, <1>s, <1>p, BlobLabel DEF Object!Complete
  <1>g. ASSUME UNCHANGED blob, Stage(w)' = "over"
        PROVE  Object!GiveUp(w)
    BY <1>g, <1>m, <1>u DEF Object!GiveUp, Object!blob, blob
  <1>1. CASE SetMetadata(w)
    BY <1>1, <1>h DEF SetMetadata
  <1>2. CASE SetMetadataFails(w)
    <2>1. Stage(w)' = "over"
      BY <1>2 DEF SetMetadataFails, Return, Goto, TypeOK, Stage
    <2> QED
      BY <1>2, <1>h, <1>g, <2>1 DEF SetMetadataFails, blob
  <1>3. CASE SetTags(w)
    BY <1>3, <1>t DEF SetTags, Goto
  <1>4. CASE SetTagsFails(w)
    <2>1. pc[w] = "tags" /\ Stage(w)' = "over"
      BY <1>4 DEF SetTagsFails, Return, Goto, TypeOK, Stage
    <2> QED
      BY <1>4, <1>t, <1>g, <2>1 DEF SetTagsFails, blob
  <1> QED
    BY <1>1, <1>2, <1>3, <1>4

\* A reader is answered once, by one look at the blob.
LEMMA ReaderRefines ==
    ASSUME Inv, NEW r \in Readers, Reader(r)
    PROVE  \/ Object!Read(r) \/ Object!ReadHash(r) \/ Object!Refuse(r)
           \/ UNCHANGED Object!vars
  <1> DEFINE Answers == [q \in Readers |-> [result |-> rresult[q],
                                            data |-> got[q].data,
                                            hash |-> got[q].hash]]
             Given(res, d, h) == [result |-> res, data |-> d, hash |-> h]
  <1> TypeOK /\ Unread
    BY DEF Inv
  <1>c. UNCHANGED <<config, blob, writing>>
    BY DEF Reader, GetTags, GetTagsRefused, GetMetadata, GetMetadataFails,
       Download, DownloadNotMet, DownloadFails, Answer
  <1>1. UNCHANGED Object!given /\ UNCHANGED Object!blob
    BY <1>c, GivenStays DEF Object!blob, blob
  <1>2. UNCHANGED [w \in Writers |-> Stage(w)]
    BY <1>c DEF writing, Stage
  <1>3. CASE GetTags(r)
    <2>1. UNCHANGED Answers
      BY <1>3 DEF GetTags
    <2> QED
      BY <1>1, <1>2, <2>1 DEF Object!vars
  <1>n. ~GetTags(r) => Answers[r] = Given("none", None, None)
    BY DEF Reader, GetTagsRefused, GetMetadata, GetMetadataFails, Download,
       DownloadNotMet, DownloadFails, Answer, Unread
  <1>4. ASSUME NEW res, NEW g,
               rresult' = [rresult EXCEPT ![r] = res],
               got' = [got EXCEPT ![r] = g]
        PROVE  Answers' = [Answers EXCEPT ![r] = Given(res, g.data, g.hash)]
    BY <1>4 DEF TypeOK
  <1> USE DEF Object!Answer, Object!Nothing
  <1>5. CASE /\ ~GetTags(r)
             /\ GetTagsRefused(r) \/ GetMetadataFails(r) \/ DownloadFails(r)
    <2>1. got[r].data = None /\ got[r].hash = None
      BY <1>5 DEF GetTagsRefused, GetMetadataFails, DownloadFails, Answer, Unread
    <2>2. /\ rresult' = [rresult EXCEPT ![r] = "error"]
          /\ got' = [got EXCEPT ![r] = got[r]]
      BY <1>5 DEF GetTagsRefused, GetMetadataFails, DownloadFails, Answer
    <2>3. Answers' = [Answers EXCEPT ![r] = Given("error", None, None)]
      BY <1>4, <2>1, <2>2
    <2> QED
      BY <1>1, <1>2, <1>n, <1>5, <2>3 DEF Object!Refuse
  <1>6. CASE GetMetadata(r) /\ ~GetTags(r)
    <2> DEFINE res == IF Parsed = None THEN "nothing" ELSE "ok"
               g == [data |-> None, hash |-> Parsed, tag |-> rtag[r]]
    <2>1. data # None
      BY <1>6 DEF GetMetadata
    <2>2. /\ rresult' = [rresult EXCEPT ![r] = res]
          /\ got' = [got EXCEPT ![r] = g]
      BY <1>6 DEF GetMetadata, Answer
    <2>3. Answers' = [Answers EXCEPT ![r] = Given(res, g.data, g.hash)]
      BY <1>4, <2>2
    <2>4. Answers' = [Answers EXCEPT ![r] = Given(res, None, Parsed)]
      BY <2>3
    <2>5. CASE meta \in Garbled \cup {None}
      <3>1. Parsed = None
        BY <2>5 DEF Parsed
      <3>2. Answers' = [Answers EXCEPT ![r] = Given("nothing", None, None)]
        BY <2>4, <3>1
      <3> QED
        BY <1>1, <1>2, <1>n, <1>6, <2>1, <2>5, <3>2 DEF Object!ReadHash
    <2>6. CASE meta \notin Garbled \cup {None}
      <3>1. Parsed = meta
        BY <2>6 DEF Parsed
      <3>2. Answers' = [Answers EXCEPT ![r] = Given("ok", None, meta)]
        BY <2>4, <2>6, <3>1
      <3> QED
        BY <1>1, <1>2, <1>n, <1>6, <2>1, <2>6, <3>2 DEF Object!ReadHash
    <2> QED
      BY <2>5, <2>6
  <1>7. CASE Download(r) /\ ~GetTags(r)
    <2> DEFINE hash == IF opt[r].mode = "both" THEN Parsed ELSE None
               g == [data |-> data, tag |-> rtag[r], hash |-> hash]
    <2>1. /\ data # None /\ (opt[r].where # None => tag = opt[r].where)
          /\ hash = None \/ (hash = meta /\ meta \notin Garbled)
      BY <1>7 DEF Download, Where, Parsed
    <2>2. /\ rresult' = [rresult EXCEPT ![r] = "ok"]
          /\ got' = [got EXCEPT ![r] = g]
      BY <1>7 DEF Download, Answer
    <2>3. Answers' = [Answers EXCEPT ![r] = Given("ok", g.data, g.hash)]
      BY <1>4, <2>2
    <2>4. Answers' = [Answers EXCEPT ![r] = Given("ok", data, hash)]
      BY <2>3
    <2> HIDE DEF hash
    <2>5. \/ Answers' = [Answers EXCEPT ![r] = Given("ok", data, None)]
          \/ /\ Answers' = [Answers EXCEPT ![r] = Given("ok", data, meta)]
             /\ meta \notin Garbled
      BY <2>1, <2>4
    <2> QED
      BY <1>1, <1>2, <1>n, <1>7, <2>1, <2>5 DEF Object!Read
  <1>8. CASE DownloadNotMet(r) /\ ~GetTags(r)
    <2> DEFINE g == [data |-> None, hash |-> None, tag |-> rtag[r]]
    <2>1. data # None /\ opt[r].where # None /\ tag # opt[r].where
      BY <1>8 DEF DownloadNotMet, Where
    <2>2. /\ rresult' = [rresult EXCEPT ![r] = "notMet"]
          /\ got' = [got EXCEPT ![r] = g]
      BY <1>8 DEF DownloadNotMet, Answer
    <2>3. Answers' = [Answers EXCEPT ![r] = Given("notMet", g.data, g.hash)]
      BY <1>4, <2>2
    <2>4. Answers' = [Answers EXCEPT ![r] = Given("notMet", None, None)]
      BY <2>3
    <2> QED
      BY <1>1, <1>2, <1>n, <1>8, <2>1, <2>4 DEF Object!Refuse
  <1> QED
    BY <1>3, <1>5, <1>6, <1>7, <1>8 DEF Reader

LEMMA BlobStep == Inv /\ [Next]_vars => [Object!Next]_(Object!vars)
  <1> SUFFICES ASSUME Inv, [Next]_vars PROVE [Object!Next]_(Object!vars)
    OBVIOUS
  <1>1. ASSUME NEW w \in Writers, Write(w) PROVE [Object!Next]_(Object!vars)
    BY <1>1, FormRefines, CommitRefines, CompleteRefines DEF Write, Object!Next
  <1>2. ASSUME NEW r \in Readers, Reader(r) PROVE [Object!Next]_(Object!vars)
    BY <1>2, ReaderRefines DEF Object!Next
  <1>3. CASE Delete
    <2>1. UNCHANGED Object!given
      BY <1>3, GivenStays DEF Delete
    <2>2. UNCHANGED [w \in Writers |-> Stage(w)]
      BY <1>3 DEF Delete, writing, Stage
    <2>3. UNCHANGED [r \in Readers |-> [result |-> rresult[r],
                                        data |-> got[r].data,
                                        hash |-> got[r].hash]]
      BY <1>3, AnswersStay DEF Delete
    <2> QED
      BY <1>3, <2>1, <2>2, <2>3 DEF Delete, SetContent, Object!Next, Object!Remove
  <1>4. CASE UNCHANGED vars
    <2>1. UNCHANGED <<config, blob, writing, reading>>
      BY <1>4 DEF vars
    <2>2. UNCHANGED Object!given /\ UNCHANGED Object!blob
      BY <2>1, GivenStays DEF Object!blob, blob
    <2>3. UNCHANGED [w \in Writers |-> Stage(w)]
      BY <2>1 DEF writing, Stage
    <2> QED
      BY <2>1, <2>2, <2>3, AnswersStay DEF Object!vars
  <1> QED
    BY <1>1, <1>2, <1>3, <1>4 DEF Next

\* A streamed upload, with everything that can stop it, is one replacement
\* of the blob's content that its hash and tag follow, and a reader sees the
\* blob at one moment (upload.go:188-331, download.go:51-171).
THEOREM UploadImplementsBlob == Spec => ImplementsBlob
  <1>1. Init => Object!Init
    BY BlobInit
  <1>2. Inv /\ [Next]_vars => [Object!Next]_(Object!vars)
    BY BlobStep
  <1> QED
    BY <1>1, <1>2, Invariant, PTL DEF Spec, ImplementsBlob, Object!Spec

-----------------------------------------------------------------------------
(* What services may rely on follows from Blob alone *)

LEMMA PromisedInit == Object!Init => Object!Promised
  BY DEF Object!Init, Object!Promised, Object!Labelled, Object!Kept,
     Object!Agreed, Object!Nothing

\* As long as what callers ask for stays what it is, a file is of the same
\* uploader.
LEMMA GivenOwners ==
    ASSUME UNCHANGED Object!given
    PROVE  /\ serial' = serial
           /\ \A w \in Writers :
                /\ FilesOf(w)' = FilesOf(w) /\ req'[w].tag = req[w].tag
                /\ req'[w].says = req[w].says
                /\ \A d : Label(w, d)' = Label(w, d)
           /\ \A r \in Readers : opt'[r].where = opt[r].where
           /\ \A d, t : Object!OwnedBy(d, t)' = Object!OwnedBy(d, t)
           /\ \A d, h : Object!LabelOf(d, h)' = Object!LabelOf(d, h)
  <1>1. /\ serial' = serial
        /\ [w \in Writers |-> FilesOf(w)]' = [w \in Writers |-> FilesOf(w)]
        /\ [w \in Writers |-> req[w].tag]' = [w \in Writers |-> req[w].tag]
        /\ [w \in Writers |-> req[w].says]' = [w \in Writers |-> req[w].says]
        /\ [r \in Readers |-> opt[r].where]' = [r \in Readers |-> opt[r].where]
    BY DEF Object!given
  <1>2. \A w \in Writers : /\ FilesOf(w)' = FilesOf(w) /\ req'[w].tag = req[w].tag
                           /\ req'[w].says = req[w].says
    BY <1>1
  <1>3. \A r \in Readers : opt'[r].where = opt[r].where
    BY <1>1
  <1>4. \A w \in Writers : \A d : Label(w, d)' = Label(w, d)
    BY <1>2 DEF Label
  <1>5. \A d, t : Object!OwnedBy(d, t)' = Object!OwnedBy(d, t)
    BY <1>2 DEF Object!OwnedBy
  <1>6. \A d, h : Object!LabelOf(d, h)' = Object!LabelOf(d, h)
    BY <1>2 DEF Object!LabelOf, Object!Label
  <1> QED
    BY <1>1, <1>2, <1>3, <1>4, <1>5, <1>6

\* A file is of one uploader only.
LEMMA OneUploader ==
    ASSUME NEW v \in Writers, NEW w \in Writers, NEW d,
           d \in FilesOf(v), d \in FilesOf(w)
    PROVE  v = w
  BY FilesAreApart

LEMMA LabelledStep ==
    ASSUME Object!Labelled, Object!Next
    PROVE  Object!Labelled'
  <1>o. UNCHANGED Object!given
    BY DEF Object!Next, Object!Replace, Object!Complete, Object!Report,
       Object!GiveUp, Object!Remove, Object!Read, Object!ReadHash,
       Object!Refuse, Object!Answer
  <1> USE <1>o, GivenOwners DEF Object!Labelled
  <1>1. ASSUME NEW w \in Writers, Object!Replace(w) PROVE Object!Labelled'
    BY <1>1 DEF Object!Replace
  <1>2. ASSUME NEW w \in Writers, Object!Complete(w) PROVE Object!Labelled'
    <2>1. UNCHANGED data
      BY <1>2 DEF Object!Complete
    <2>2. serial => data \in FilesOf(w)
      BY <1>2 DEF Object!Complete
    <2>3. serial => Object!OwnedBy(data, req[w].tag)
      BY <2>2 DEF Object!OwnedBy
    <2>4. CASE /\ \E d \in FilesOf(w) :
                    meta' = Object!Label(w, d) /\ (serial => d = data)
               /\ UNCHANGED tag
      <3>1. serial => Object!LabelOf(data, meta')
        BY <2>2, <2>4 DEF Object!LabelOf
      <3> QED
        BY <2>1, <2>4, <3>1
    <2>5. CASE tag' = req[w].tag /\ UNCHANGED meta
      BY <2>1, <2>3, <2>5
    <2> QED
      BY <1>2, <2>1, <2>4, <2>5 DEF Object!Complete
  <1>3. ASSUME UNCHANGED Object!blob PROVE Object!Labelled'
    BY <1>3 DEF Object!blob
  <1>4. CASE Object!Remove
    BY <1>4 DEF Object!Remove
  <1> QED
    BY <1>1, <1>2, <1>3, <1>4 DEF Object!Next, Object!Report, Object!GiveUp,
       Object!Read, Object!ReadHash, Object!Refuse, Object!Answer

LEMMA KeptStep ==
    ASSUME TypeOK, Object!Kept, Object!Next
    PROVE  Object!Kept'
  <1>o. UNCHANGED Object!given
    BY DEF Object!Next, Object!Replace, Object!Complete, Object!Report,
       Object!GiveUp, Object!Remove, Object!Read, Object!ReadHash,
       Object!Refuse, Object!Answer
  <1> USE <1>o, GivenOwners
  <1>k. serial => \A v \in Writers :
          Stage(v) = "told" /\ data \in FilesOf(v) =>
            meta = Label(v, data) /\ tag = req[v].tag
    BY BlobLabel DEF Object!Kept
  <1>m. ASSUME NEW w \in Writers, NEW to,
               [v \in Writers |-> Stage(v)]' =
                 [[v \in Writers |-> Stage(v)] EXCEPT ![w] = to]
        PROVE  /\ Stage(w)' = to
               /\ \A v \in Writers : v # w => Stage(v)' = Stage(v)
    BY <1>m
  <1>s. ASSUME UNCHANGED Object!blob,
               \A v \in Writers : Stage(v)' = "told" =>
                 \/ Stage(v) = "told"
                 \/ serial /\ data \in FilesOf(v) =>
                      meta = Label(v, data) /\ tag = req[v].tag
        PROVE  Object!Kept'
    BY <1>s, <1>k DEF Object!Kept, Object!Label, Label, Object!blob
  <1>1. ASSUME NEW w \in Writers, Object!Replace(w) PROVE Object!Kept'
    <2>1. data' \in FilesOf(w)
      BY <1>1 DEF Object!Replace
    <2>2. Stage(w)' # "told"
      BY <1>1, <1>m DEF Object!Replace, Object!Goes
    <2> QED
      BY <2>1, <2>2, OneUploader DEF Object!Kept
  <1>2. ASSUME NEW w \in Writers, Object!Complete(w) PROVE Object!Kept'
    <2>1. UNCHANGED data /\ (serial => data \in FilesOf(w))
      BY <1>2 DEF Object!Complete
    <2>2. Stage(w)' # "told"
      BY <1>2, <1>m DEF Object!Complete, Object!Goes
    <2> QED
      BY <2>1, <2>2, OneUploader DEF Object!Kept
  <1>3. ASSUME NEW w \in Writers, Object!Report(w) PROVE Object!Kept'
    <2>1. \A v \in Writers : v # w => Stage(v)' = Stage(v)
      BY <1>3, <1>m DEF Object!Report, Object!Goes
    <2>2. serial /\ data \in FilesOf(w) =>
            meta = Label(w, data) /\ tag = req[w].tag
      BY <1>3, BlobLabel DEF Object!Report
    <2>3. UNCHANGED Object!blob
      BY <1>3 DEF Object!Report
    <2> QED
      BY <1>s, <2>1, <2>2, <2>3
  <1>4. ASSUME NEW w \in Writers, Object!GiveUp(w) PROVE Object!Kept'
    <2>1. /\ Stage(w)' = "over"
          /\ \A v \in Writers : v # w => Stage(v)' = Stage(v)
      BY <1>4, <1>m DEF Object!GiveUp, Object!Goes
    <2>2. UNCHANGED Object!blob
      BY <1>4 DEF Object!GiveUp
    <2> QED
      BY <1>s, <2>1, <2>2
  <1>5. CASE Object!Remove
    <2>1. data' = None
      BY <1>5 DEF Object!Remove
    <2> QED
      BY <2>1, FilesAreBytes DEF Object!Kept
  <1>6. ASSUME UNCHANGED Object!blob,
               UNCHANGED [v \in Writers |-> Stage(v)]
        PROVE  Object!Kept'
    <2>1. \A v \in Writers : Stage(v)' = Stage(v)
      BY <1>6
    <2> QED
      BY <1>6, <1>s, <2>1
  <1> QED
    BY <1>1, <1>2, <1>3, <1>4, <1>5, <1>6 DEF Object!Next, Object!Read,
       Object!ReadHash, Object!Refuse, Object!Answer

\* The label a file is stored with, or one of them.
Labels(d, h) ==
    \E w \in Writers :
        /\ d \in FilesOf(w)
        /\ h = IF req[w].says = None THEN d ELSE req[w].says

\* Agreed in terms of Upload, before and after a step.
LEMMA AgreedMeans ==
    ASSUME UNCHANGED Object!given
    PROVE  /\ Object!Agreed <=>
                (serial => \A q \in Readers :
                   got[q].data # None =>
                     /\ got[q].hash # None => Labels(got[q].data, got[q].hash)
                     /\ opt[q].where # None => \E w \in Writers :
                          /\ got[q].data \in FilesOf(w)
                          /\ req[w].tag = opt[q].where)
           /\ Object!Agreed' <=>
                (serial => \A q \in Readers :
                   got'[q].data # None =>
                     /\ got'[q].hash # None => Labels(got'[q].data, got'[q].hash)
                     /\ opt[q].where # None => \E w \in Writers :
                          /\ got'[q].data \in FilesOf(w)
                          /\ req[w].tag = opt[q].where)
  <1>1. /\ serial' = serial
        /\ \A w \in Writers :
             /\ FilesOf(w)' = FilesOf(w) /\ req'[w].tag = req[w].tag
             /\ req'[w].says = req[w].says
        /\ \A r \in Readers : opt'[r].where = opt[r].where
    BY GivenOwners
  <1>2. \A r \in Readers :
          (opt'[r].where # None => \E w \in Writers :
             got'[r].data \in FilesOf(w)' /\ req'[w].tag = opt'[r].where)
          <=> (opt[r].where # None => \E w \in Writers :
                 got'[r].data \in FilesOf(w) /\ req[w].tag = opt[r].where)
    BY <1>1
  <1>l. \A r \in Readers :
          (\E w \in Writers :
             /\ got'[r].data \in FilesOf(w)'
             /\ got'[r].hash = IF req'[w].says = None THEN got'[r].data
                               ELSE req'[w].says)
          <=> Labels(got'[r].data, got'[r].hash)
    BY <1>1 DEF Labels
  <1>3. Object!Agreed <=>
          (serial => \A q \in Readers :
             got[q].data # None =>
               /\ got[q].hash # None => Labels(got[q].data, got[q].hash)
               /\ opt[q].where # None => \E w \in Writers :
                    got[q].data \in FilesOf(w) /\ req[w].tag = opt[q].where)
    BY DEF Object!Agreed, Object!OwnedBy, Object!LabelOf, Object!Label, Labels
  <1>4. Object!Agreed' <=>
          (serial' => \A q \in Readers :
             got'[q].data # None =>
               /\ got'[q].hash # None => \E w \in Writers :
                    /\ got'[q].data \in FilesOf(w)'
                    /\ got'[q].hash = IF req'[w].says = None THEN got'[q].data
                                      ELSE req'[w].says
               /\ opt'[q].where # None => \E w \in Writers :
                    got'[q].data \in FilesOf(w)' /\ req'[w].tag = opt'[q].where)
    BY DEF Object!Agreed, Object!OwnedBy, Object!LabelOf, Object!Label
  <1>5. Object!Agreed' <=>
          (serial => \A q \in Readers :
             got'[q].data # None =>
               /\ got'[q].hash # None => Labels(got'[q].data, got'[q].hash)
               /\ opt[q].where # None => \E w \in Writers :
                    got'[q].data \in FilesOf(w) /\ req[w].tag = opt[q].where)
    BY <1>1, <1>2, <1>4, <1>l
  <1> QED
    BY <1>3, <1>5

LEMMA AgreedStep ==
    ASSUME Object!Labelled, Object!Agreed, Object!Next
    PROVE  Object!Agreed'
  <1>o. UNCHANGED Object!given
    BY DEF Object!Next, Object!Replace, Object!Complete, Object!Report,
       Object!GiveUp, Object!Remove, Object!Read, Object!ReadHash,
       Object!Refuse, Object!Answer
  <1> DEFINE Answers == [q \in Readers |-> [result |-> rresult[q],
                                            data |-> got[q].data,
                                            hash |-> got[q].hash]]
  <1>1. ASSUME UNCHANGED Answers PROVE Object!Agreed'
    <2>1. \A q \in Readers : /\ got'[q].data = got[q].data
                             /\ got'[q].hash = got[q].hash
      BY <1>1
    <2> QED
      BY <1>o, <2>1, AgreedMeans
  <1>2. ASSUME NEW r \in Readers, NEW res, NEW d, NEW h,
               Answers' = [Answers EXCEPT ![r] =
                             [result |-> res, data |-> d, hash |-> h]],
               serial /\ d # None =>
                 /\ h # None => Object!LabelOf(d, h)
                 /\ opt[r].where # None => Object!OwnedBy(d, opt[r].where)
        PROVE  Object!Agreed'
    <2>1. /\ got'[r].data = d /\ got'[r].hash = h
          /\ \A q \in Readers : q # r => /\ got'[q].data = got[q].data
                                         /\ got'[q].hash = got[q].hash
      BY <1>2
    <2> QED
      BY <1>o, <1>2, <2>1, AgreedMeans DEF Object!OwnedBy, Object!LabelOf,
         Object!Label, Labels
  <1>3. ASSUME NEW r \in Readers, Object!Read(r) PROVE Object!Agreed'
    <2>1. serial /\ opt[r].where # None => Object!OwnedBy(data, opt[r].where)
      BY <1>3 DEF Object!Read, Object!Labelled
    <2>2. serial /\ meta # None => Object!LabelOf(data, meta)
      BY DEF Object!Labelled
    <2>3. PICK h \in {None, meta} :
            Answers' = [Answers EXCEPT ![r] =
                          [result |-> "ok", data |-> data, hash |-> h]]
      BY <1>3 DEF Object!Read, Object!Answer
    <2> QED
      BY <1>2, <2>1, <2>2, <2>3
  <1>4. ASSUME NEW r \in Readers, Object!ReadHash(r) PROVE Object!Agreed'
    BY <1>2, <1>4 DEF Object!ReadHash, Object!Answer
  <1>5. ASSUME NEW r \in Readers, Object!Refuse(r) PROVE Object!Agreed'
    BY <1>2, <1>5 DEF Object!Refuse, Object!Answer
  <1> QED
    BY <1>1, <1>3, <1>4, <1>5 DEF Object!Next, Object!Replace,
       Object!Complete, Object!Report, Object!GiveUp, Object!Remove

LEMMA PromisedStep ==
    TypeOK /\ Object!Promised /\ [Object!Next]_(Object!vars) => Object!Promised'
  <1> SUFFICES ASSUME TypeOK, Object!Promised, [Object!Next]_(Object!vars)
               PROVE  Object!Promised'
    OBVIOUS
  <1> USE DEF Object!Promised
  <1>1. CASE Object!Next
    BY <1>1, LabelledStep, KeptStep, AgreedStep
  <1>2. CASE UNCHANGED Object!vars
    <2>1. UNCHANGED Object!given /\ UNCHANGED Object!blob
      BY <1>2 DEF Object!vars
    <2>2. /\ \A w \in Writers : Stage(w)' = Stage(w)
          /\ \A r \in Readers : /\ got'[r].data = got[r].data
                                /\ got'[r].hash = got[r].hash
      <3>1. [w \in Writers |-> Stage(w)]' = [w \in Writers |-> Stage(w)]
        BY <1>2 DEF Object!vars
      <3>2. [r \in Readers |-> [result |-> rresult[r], data |-> got[r].data,
                                hash |-> got[r].hash]]' =
            [r \in Readers |-> [result |-> rresult[r], data |-> got[r].data,
                                hash |-> got[r].hash]]
        BY <1>2 DEF Object!vars
      <3> QED
        BY <3>1, <3>2
    <2>3. Object!Labelled'
      BY <2>1, GivenOwners DEF Object!blob, Object!Labelled
    <2>4. Object!Agreed'
      BY <2>1, <2>2, AgreedMeans
    <2>5. \A w \in Writers : Object!Label(w, data)' = Object!Label(w, data)
      BY <2>1, GivenOwners DEF Object!blob, Object!Label
    <2>6. Object!Kept'
      BY <2>1, <2>2, <2>5, GivenOwners DEF Object!blob, Object!Kept
    <2> QED
      BY <2>3, <2>4, <2>6
  <1> QED
    BY <1>1, <1>2

\* While uploads take turns, the tag of a blob is that of its content's
\* uploader and its hash that of the content or what that uploader gave
\* (upload.go:313-315), an upload that was reported is complete until it is
\* replaced, and a reader gets no file with the hash of another, nor one of
\* a tag that its condition (WithWhereTags) excludes: whatever keeps to Blob
\* does so, and so do WriteStream and Reader (upload.go:293-323,
\* download.go:98-171).
THEOREM UploadKeepsPromises == Spec => []Object!Promised
  <1>1. Inv => TypeOK
    BY DEF Inv
  <1> QED
    BY <1>1, Invariant, UploadImplementsBlob, PromisedInit, PromisedStep, PTL
       DEF ImplementsBlob, Object!Spec

=============================================================================

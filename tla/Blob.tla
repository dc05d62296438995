-------------------------------- MODULE Blob --------------------------------
(***************************************************************************)
(* What services may rely on that upload into one blob and read it: an     *)
(* upload is one step that puts a whole file in place of what was there,   *)
(* its hash and tag follow, and a reader sees the blob as it is at one     *)
(* moment.  Uploads that overlap may mix up hashes and tags, uploads that  *)
(* take turns never do.                                                    *)
(***************************************************************************)
CONSTANTS Writers, Readers, None,
          Garbled   \* hashes that cannot be read

VARIABLES
    turns,      \* uploads take turns
    files,      \* the files each writer may store
    owner,      \* the tag of each writer's uploads
    says,       \* the hash a writer gives its files itself, or None
    asked,      \* the tag each reader makes a condition, or None
    content, hash, tag,
    upload,     \* of each writer: new, stored, told (of success) or over
    answer      \* what each reader was given

given == <<turns, files, owner, says, asked>>
blob  == <<content, hash, tag>>
vars  == <<given, blob, upload, answer>>

\* The hash that a file of a writer is stored with.
Label(w, d) == IF says[w] = None THEN d ELSE says[w]

Nothing == [result |-> "none", data |-> None, hash |-> None]

Init ==
    /\ turns \in BOOLEAN
    /\ \A w \in Writers : None \notin files[w]
    /\ \A v, w \in Writers : v # w => files[v] \cap files[w] = {}
    /\ content = None /\ hash = None /\ tag = None
    /\ upload = [w \in Writers |-> "new"]
    /\ answer = [r \in Readers |-> Nothing]

Goes(w, from, to) == upload[w] = from /\ upload' = [upload EXCEPT ![w] = to]

\* The writer may never hear of it.
Replace(w) ==
    /\ Goes(w, "new", "stored") \/ Goes(w, "new", "over")
    /\ content' \in files[w] /\ hash' = None /\ tag' = None
    /\ UNCHANGED <<given, answer>>

\* Whether the writer hears of it or not: its hash, then its tag.
Complete(w) ==
    /\ upload[w] = "stored" /\ (UNCHANGED upload \/ Goes(w, "stored", "over"))
    /\ content # None /\ (turns => content \in files[w])
    /\ \/ /\ \E d \in files[w] : hash' = Label(w, d) /\ (turns => d = content)
          /\ UNCHANGED tag
       \/ /\ tag' = owner[w] /\ (turns => hash = Label(w, content))
          /\ UNCHANGED hash
    /\ UNCHANGED <<given, content, answer>>

Report(w) ==
    /\ Goes(w, "stored", "told")
    /\ turns /\ content \in files[w] =>
         hash = Label(w, content) /\ tag = owner[w]
    /\ UNCHANGED <<given, blob, answer>>

GiveUp(w) ==
    /\ Goes(w, "new", "over") \/ Goes(w, "stored", "over")
    /\ UNCHANGED <<given, blob, answer>>

Remove ==
    /\ content # None
    /\ content' = None /\ hash' = None /\ tag' = None
    /\ UNCHANGED <<given, upload, answer>>

Answer(r, res, d, h) ==
    /\ answer[r] = Nothing
    /\ answer' = [answer EXCEPT ![r] = [result |-> res, data |-> d, hash |-> h]]
    /\ UNCHANGED <<given, blob, upload>>

\* The content, on condition of its tag, with its hash or without.
Read(r) ==
    /\ content # None /\ (asked[r] # None => tag = asked[r])
    /\ \/ Answer(r, "ok", content, None)
       \/ hash \notin Garbled /\ Answer(r, "ok", content, hash)

\* The hash alone.
ReadHash(r) ==
    /\ content # None
    /\ IF hash \in Garbled \cup {None} THEN Answer(r, "nothing", None, None)
       ELSE Answer(r, "ok", None, hash)

\* A blob with another tag may also be answered by saying so.
Refuse(r) ==
    \/ Answer(r, "error", None, None)
    \/ /\ content # None /\ asked[r] # None /\ tag # asked[r]
       /\ Answer(r, "notMet", None, None)

Next ==
    \/ \E w \in Writers : Replace(w) \/ Complete(w) \/ Report(w) \/ GiveUp(w)
    \/ Remove
    \/ \E r \in Readers : Read(r) \/ ReadHash(r) \/ Refuse(r)

Spec == Init /\ [][Next]_vars

-----------------------------------------------------------------------------
(* What follows for uploads that take turns *)

OwnedBy(d, t) == \E w \in Writers : d \in files[w] /\ owner[w] = t

LabelOf(d, h) == \E w \in Writers : d \in files[w] /\ h = Label(w, d)

\* Hash and tag are those of the content, the hash the one its uploader gave
\* it if there is one.
Labelled ==
    turns => /\ hash # None => LabelOf(content, hash)
             /\ tag # None => OwnedBy(content, tag)

\* A writer that was told so finds its upload complete until it is replaced.
Kept ==
    turns => \A w \in Writers :
        upload[w] = "told" /\ content \in files[w] =>
            hash = Label(w, content) /\ tag = owner[w]

\* A reader never gets a file with the hash of another, nor one of a tag it
\* excluded.
Agreed ==
    turns => \A r \in Readers :
        answer[r].data # None =>
            /\ answer[r].hash # None => LabelOf(answer[r].data, answer[r].hash)
            /\ asked[r] # None => OwnedBy(answer[r].data, asked[r])

Promised == Labelled /\ Kept /\ Agreed

=============================================================================

--------------------------- MODULE DocumentUpload ---------------------------
(***************************************************************************)
(* The file of one document: DocumentFilesService (upload-url and          *)
(* upload-complete), DocumentsService.remove and the object store.  Every  *)
(* key contains the id of its document, so documents do not interact.      *)
(* Each database statement and each call to the store is a step of its     *)
(* own; the client PUTs to the store directly, whenever it likes and as    *)
(* often as it likes until the presigned URL expires.                      *)
(***************************************************************************)
EXTENDS Integers, FiniteSets

CONSTANTS
    Handlers,           \* concurrent API requests for the document
    Keys,               \* storage keys the random generator can return
    NoKey,
    Bodies,             \* files a client may PUT: size, type, etag
    NoBody,
    AllowedTypes,       \* ALLOWED_DOCUMENT_MIME_TYPES
    NoType,             \* the store reports no content type; nothing declared yet
    Etags,
    NoEtag,             \* the client sends no etag; the store reports none
    MaxFileSize         \* MAX_DOCUMENT_FILE_SIZE_BYTES

Types == AllowedTypes \union {b.type : b \in Bodies} \union {NoType}

ASSUME UploadAssumption ==
    /\ NoKey \notin Keys
    /\ NoBody \notin Bodies
    /\ NoEtag \notin Etags
    /\ NoType \notin AllowedTypes
    /\ MaxFileSize \in Nat \ {0}
    /\ \A b \in Bodies : b.size \in Nat /\ b.etag \in Etags \union {NoEtag}

VARIABLES
    doc,        \* the row: status (DELETED exactly when deletedAt is set), key, declaration
    objects,    \* the bucket
    urls,       \* presigned PUT URLs that have not expired
    issued,     \* keys generated so far
    enforced,   \* the store rejects a PUT that contradicts the signed headers
    handlers

vars == <<doc, objects, urls, issued, enforced, handlers>>

\* UPLOADABLE_STATUSES
Uploadable == {"DRAFT", "UPLOADING", "FAILED"}

\* The sizes validateFileSize lets pass.
Sizes == 1..MaxFileSize

Row ==
    [ status : Uploadable \union {"READY", "DELETED"},
      key    : Keys \union {NoKey},
      size   : Nat,
      type   : Types ]

\* current is the row as read, the rest the new key and declaration, the
\* etag of the client and the answer of headObject.
Handler ==
    [ pc      : {"idle", "claim", "remove", "sign", "head", "ready", "reject", "drop"},
      current : Row,
      key     : Keys \union {NoKey},
      size    : Nat,
      type    : Types,
      etag    : Etags \union {NoEtag},
      head    : Bodies \union {NoBody} ]

Url == [key : Keys, size : Nat, type : Types]

NewRow == [status |-> "DRAFT", key |-> NoKey, size |-> 0, type |-> NoType]

IdleHandler ==
    [pc |-> "idle", current |-> NewRow, key |-> NoKey, size |-> 0, type |-> NoType,
     etag |-> NoEtag, head |-> NoBody]

\* DocumentsService.create
Init ==
    /\ doc = NewRow
    /\ objects = [k \in Keys |-> NoBody]
    /\ urls = {}
    /\ issued = {}
    /\ enforced \in BOOLEAN
    /\ handlers = [h \in Handlers |-> IdleHandler]

-----------------------------------------------------------------------------
(* upload-url *)

\* Mutant: a repeated upload-url keeps the key.
BeginUploadKeepsKey(h, k, size, type) ==
    /\ handlers[h].pc = "idle"
    /\ doc.status \in Uploadable
    /\ k \notin issued
    /\ issued' = issued \union {k}
    /\ handlers' = [handlers EXCEPT ![h] =
                       [IdleHandler EXCEPT !.pc = "claim", !.current = doc,
                                           !.key = IF doc.key = NoKey THEN k ELSE doc.key,
                                           !.size = size, !.type = type]]
    /\ UNCHANGED <<doc, objects, urls, enforced>>

\* The declaration is valid, getOwned finds the document in a state that
\* takes an upload, buildStorageKey makes a key nobody has seen.
BeginUpload(h, k, size, type) ==
    /\ handlers[h].pc = "idle"
    /\ doc.status \in Uploadable
    /\ k \notin issued
    /\ issued' = issued \union {k}
    /\ handlers' = [handlers EXCEPT ![h] =
                       [IdleHandler EXCEPT !.pc = "claim", !.current = doc, !.key = k,
                                           !.size = size, !.type = type]]
    /\ UNCHANGED <<doc, objects, urls, enforced>>

\* Mutant: the update does not write the new key over an old one.
ClaimUploadKeepsKey(h) ==
    /\ handlers[h].pc = "claim"
    /\ IF doc.status \in Uploadable
       THEN /\ doc' = [status |-> "UPLOADING",
                       key    |-> IF doc.key = NoKey THEN handlers[h].key ELSE doc.key,
                       size   |-> handlers[h].size,
                       type   |-> handlers[h].type]
            /\ handlers' = [handlers EXCEPT ![h].pc =
                               IF handlers[h].current.key = NoKey THEN "sign" ELSE "remove"]
       ELSE /\ handlers' = [handlers EXCEPT ![h] = IdleHandler]
            /\ UNCHANGED doc
    /\ UNCHANGED <<objects, urls, issued, enforced>>

\* The conditional update: 0 rows mean that the document changed concurrently.
ClaimUpload(h) ==
    /\ handlers[h].pc = "claim"
    /\ IF doc.status \in Uploadable
       THEN /\ doc' = [status |-> "UPLOADING", key |-> handlers[h].key,
                       size |-> handlers[h].size, type |-> handlers[h].type]
            /\ handlers' = [handlers EXCEPT ![h].pc =
                               IF handlers[h].current.key = NoKey THEN "sign" ELSE "remove"]
       ELSE /\ handlers' = [handlers EXCEPT ![h] = IdleHandler]
            /\ UNCHANGED doc
    /\ UNCHANGED <<objects, urls, issued, enforced>>

\* The store deletes the object, or the call fails.
DeleteObject(key, deleted) ==
    objects' = IF deleted THEN [objects EXCEPT ![key] = NoBody] ELSE objects

\* The object of the key as read is deleted; a failure is only logged.
RemoveSuperseded(h, deleted) ==
    /\ handlers[h].pc = "remove"
    /\ DeleteObject(handlers[h].current.key, deleted)
    /\ handlers' = [handlers EXCEPT ![h].pc = "sign"]
    /\ UNCHANGED <<doc, urls, issued, enforced>>

\* Mutant: the URL is signed for the key as read.
SignStaleUrl(h) ==
    /\ handlers[h].pc = "sign"
    /\ urls' = urls \union {[key |-> handlers[h].current.key, size |-> handlers[h].size,
                              type |-> handlers[h].type]}
    /\ handlers' = [handlers EXCEPT ![h] = IdleHandler]
    /\ UNCHANGED <<doc, objects, issued, enforced>>

\* The URL is signed and, unless the document was deleted meanwhile, returned.
SignUrl(h) ==
    /\ handlers[h].pc = "sign"
    /\ urls' = IF doc.status = "DELETED" THEN urls
               ELSE urls \union {[key |-> handlers[h].key, size |-> handlers[h].size,
                                  type |-> handlers[h].type]}
    /\ handlers' = [handlers EXCEPT ![h] = IdleHandler]
    /\ UNCHANGED <<doc, objects, issued, enforced>>

-----------------------------------------------------------------------------
(* upload-complete *)

\* Requests that are answered from the row as read: the document is gone or
\* READY, or no upload is in progress; upload-url on a READY document.
AnswerAtOnce(h) ==
    /\ handlers[h].pc = "idle"
    /\ doc.status # "UPLOADING"
    /\ UNCHANGED vars

BeginComplete(h, etag) ==
    /\ handlers[h].pc = "idle"
    /\ doc.status = "UPLOADING"
    /\ handlers' = [handlers EXCEPT ![h] = [IdleHandler EXCEPT !.pc = "head", !.current = doc,
                                                               !.etag = etag]]
    /\ UNCHANGED <<doc, objects, urls, issued, enforced>>

\* The stored object contradicts the declaration, or the etag of the client.
HasProblems(row, head, etag) ==
    \/ head.size # row.size
    \/ head.size > MaxFileSize
    \/ head.type # NoType /\ (head.type # row.type \/ head.type \notin AllowedTypes)
    \/ etag # NoEtag /\ head.etag # NoEtag /\ etag # head.etag

HeadObject(h) ==
    LET row  == handlers[h].current
        head == objects[row.key]
    IN  /\ handlers[h].pc = "head"
        /\ handlers' = [handlers EXCEPT ![h] =
                           CASE head = NoBody -> IdleHandler
                             [] head # NoBody /\ HasProblems(row, head, handlers[h].etag) ->
                                   [handlers[h] EXCEPT !.pc = "reject"]
                             [] OTHER -> [handlers[h] EXCEPT !.pc = "ready", !.head = head]]
        /\ UNCHANGED <<doc, objects, urls, issued, enforced>>

\* Mutant: the key is not compared.
StillUploadingAnyKey(h) == doc.status = "UPLOADING"

\* The upload a handler has read is still the one in progress.
StillUploading(h) == doc.status = "UPLOADING" /\ doc.key = handlers[h].current.key

MarkReady(h) ==
    LET head == handlers[h].head
    IN  /\ handlers[h].pc = "ready"
        /\ doc' = IF StillUploading(h)
                  THEN [doc EXCEPT !.status = "READY", !.size = head.size,
                                   !.type = IF head.type = NoType
                                            THEN handlers[h].current.type ELSE head.type]
                  ELSE doc
        /\ handlers' = [handlers EXCEPT ![h] = IdleHandler]
        /\ UNCHANGED <<objects, urls, issued, enforced>>

\* Mutant: the rejection is unconditional.
MarkFailedAnyway(h) ==
    /\ handlers[h].pc = "reject"
    /\ doc' = [doc EXCEPT !.status = "FAILED"]
    /\ handlers' = [handlers EXCEPT ![h].pc = "drop"]
    /\ UNCHANGED <<objects, urls, issued, enforced>>

\* rejectUpload, the row.
MarkFailed(h) ==
    /\ handlers[h].pc = "reject"
    /\ doc' = IF StillUploading(h) THEN [doc EXCEPT !.status = "FAILED"] ELSE doc
    /\ handlers' = [handlers EXCEPT ![h].pc = "drop"]
    /\ UNCHANGED <<objects, urls, issued, enforced>>

\* rejectUpload, the object: whatever the update did; a failure is only logged.
DropRejected(h, deleted) ==
    /\ handlers[h].pc = "drop"
    /\ DeleteObject(handlers[h].current.key, deleted)
    /\ handlers' = [handlers EXCEPT ![h] = IdleHandler]
    /\ UNCHANGED <<doc, urls, issued, enforced>>

-----------------------------------------------------------------------------
(* Everybody else *)

\* A statement or a call to the store throws, or the API process dies.
HandlerFails(h) ==
    /\ handlers[h].pc # "idle"
    /\ handlers' = [handlers EXCEPT ![h] = IdleHandler]
    /\ UNCHANGED <<doc, objects, urls, issued, enforced>>

\* DocumentsService.remove: the object stays.
Remove ==
    /\ doc.status # "DELETED"
    /\ doc' = [doc EXCEPT !.status = "DELETED"]
    /\ UNCHANGED <<objects, urls, issued, handlers, enforced>>

\* The client uploads; a signed URL binds the size and the type.
PutObject(url, body) ==
    /\ enforced => body.size = url.size /\ body.type = url.type
    /\ objects' = [objects EXCEPT ![url.key] = body]
    /\ UNCHANGED <<doc, urls, issued, handlers, enforced>>

UrlExpires(url) ==
    /\ urls' = urls \ {url}
    /\ UNCHANGED <<doc, objects, issued, handlers, enforced>>

Next ==
    \/ \E h \in Handlers :
          \/ \E k \in Keys, size \in Sizes, type \in AllowedTypes :
                BeginUpload(h, k, size, type)
          \/ \E etag \in Etags \union {NoEtag} : BeginComplete(h, etag)
          \/ \E deleted \in BOOLEAN : RemoveSuperseded(h, deleted) \/ DropRejected(h, deleted)
          \/ ClaimUpload(h) \/ SignUrl(h) \/ AnswerAtOnce(h)
          \/ HeadObject(h) \/ MarkReady(h) \/ MarkFailed(h)
          \/ HandlerFails(h)
    \/ Remove
    \/ \E url \in urls : UrlExpires(url) \/ \E body \in Bodies : PutObject(url, body)

Spec == Init /\ [][Next]_vars

-----------------------------------------------------------------------------
(* Properties *)

\* Every variable holds what the code can put into it.
TypeOK ==
    /\ doc \in Row
    /\ objects \in [Keys -> Bodies \union {NoBody}]
    /\ urls \subseteq Url
    /\ issued \subseteq Keys
    /\ enforced \in BOOLEAN
    /\ handlers \in [Handlers -> Handler]

\* createDownloadUrl signs a GET for this row.
Downloadable(row) == row.status = "READY" /\ row.key # NoKey /\ row.type # NoType

\* If the store enforces the signed headers, what a download serves has the size
\* and the type the row announces, late PUTs through a URL of an earlier request
\* included.
DownloadFitsRow ==
    enforced /\ Downloadable(doc) /\ objects[doc.key] # NoBody =>
        /\ objects[doc.key].size = doc.size
        /\ objects[doc.key].type = doc.type

\* upload-url removes the object of the key it has read; however late it does
\* so, that is never the key the document has by then.
RemovesOnlySuperseded ==
    \A h \in Handlers : handlers[h].pc = "remove" => handlers[h].current.key # doc.key

\* No racing upload-url, upload-complete or rejection touches the row of a
\* READY document, except its deletion, or that of a deleted one.
SettledRowsKept ==
    [][/\ doc.status = "READY" => doc' \in {doc, [doc EXCEPT !.status = "DELETED"]}
       /\ doc.status = "DELETED" => doc' = doc]_vars

\* Completing an upload keeps the declaration of that very upload: a stale
\* upload-complete cannot complete, or describe, the one that replaced it.
CompletedAsDeclared ==
    [][doc.status = "UPLOADING" /\ doc'.status = "READY" =>
          doc' = [doc EXCEPT !.status = "READY"]]_vars

\* The object of a READY document exists.
ReadyHasObject == doc.status = "READY" => objects[doc.key] # NoBody

=============================================================================
